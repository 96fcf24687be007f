----------------------------- MODULE CallMedia -----------------------------
(***************************************************************************)
(* The media of one call: mute, recording and file playback, through       *)
(* CallManager (main thread), PjsipBackend and the PJSUA worker thread.    *)
(*                                                                         *)
(* setMuted() and onCallMediaState() run concurrently.  The stack holds    *)
(* the PJSUA lock for the whole of onCallMediaState, and getInfo(),        *)
(* startTransmit() and stopTransmit() take it: main-thread steps that use  *)
(* them wait for the callback to return, the others do not.                *)
(***************************************************************************)
EXTENDS Naturals

CONSTANT BackendErrors     \* the stack may throw pj::Error

ASSUME ErrorsAssumption == BackendErrors \in BOOLEAN

VARIABLES
  record,          \* CallManager has a record of the call
  muted,           \* CallRecord::muted, recording and playingFile
  recording,
  playingFile

VARIABLES
  m_muted,         \* PjsipCall::m_muted
  m_recorders,     \* an AudioMediaRecorder exists for the call
  m_filePlayers,   \* an AudioMediaPlayer exists for the call
  audio,           \* audio status: "none", "active", "held", "ended"
  capture,         \* the microphone transmits into the call
  setter,          \* setMuted: [at, want, previous]
  callback         \* onCallMediaState: [at, muted]

\* History: how the last setMuted went, "failed" also when wiring failed.
VARIABLE lastMute

flags == <<record, muted, recording, playingFile>>
objects == <<m_recorders, m_filePlayers>>
mic == <<m_muted, capture, setter, callback, lastMute>>
mediaVars == <<flags, objects, mic, audio>>

NoSetter == [at |-> "idle", want |-> FALSE, previous |-> FALSE]
NoCallback == [at |-> "idle", muted |-> FALSE]

MediaInit ==
  /\ record = TRUE
  /\ muted = FALSE /\ recording = FALSE /\ playingFile = FALSE
  /\ m_muted = FALSE /\ m_recorders = FALSE /\ m_filePlayers = FALSE
  /\ audio = "none"
  /\ capture = FALSE
  /\ setter = NoSetter /\ callback = NoCallback
  /\ lastMute = "none"

PjsuaLockFree == callback.at = "idle"
MainIdle == setter.at = "idle"

-----------------------------------------------------------------------------
(* setMuted, main thread.                                                  *)

\* Look the call up and its active audio.  A failing getInfo() changes
\* nothing.
SetMutedBegin(want) ==
  /\ MainIdle /\ PjsuaLockFree
  /\ record
  /\ setter' = [at |-> IF audio = "active" THEN "publish" ELSE "defer",
                want |-> want, previous |-> m_muted]
  /\ UNCHANGED <<flags, objects, audio, m_muted, capture, callback, lastMute>>

\* No active audio: record the desired state and report success.
SetMutedDefer ==
  /\ setter.at = "defer"
  /\ m_muted' = setter.want
  /\ muted' = setter.want
  /\ setter' = NoSetter
  /\ lastMute' = "deferred"
  /\ UNCHANGED <<record, recording, playingFile, objects, audio, capture,
                 callback>>

\* Mutant: the bridge is changed, the desired state not recorded.
PublishNothing ==
  /\ setter.at = "publish"
  /\ setter' = [at |-> "transmit", want |-> setter.want, previous |-> m_muted]
  /\ UNCHANGED <<flags, objects, audio, m_muted, capture, callback, lastMute>>

\* Active audio: the desired state is published before the bridge is touched.
SetMutedPublish ==
  /\ setter.at = "publish"
  /\ m_muted' = setter.want
  /\ setter' = [at |-> "transmit", want |-> setter.want, previous |-> m_muted]
  /\ UNCHANGED <<flags, objects, audio, capture, callback, lastMute>>

\* startTransmit/stopTransmit, under the PJSUA lock; a port that is gone by
\* now, or an error of the stack, rolls the published state back.
SetMutedTransmit ==
  /\ setter.at = "transmit"
  /\ PjsuaLockFree
  /\ setter' = NoSetter
  /\ \/ /\ audio = "active"
        /\ capture' = ~setter.want
        /\ muted' = setter.want
        /\ lastMute' = "applied"
        /\ UNCHANGED m_muted
     \/ /\ audio # "active" \/ BackendErrors
        /\ m_muted' = setter.previous
        /\ lastMute' = "failed"
        /\ UNCHANGED <<capture, muted>>
  /\ UNCHANGED <<record, recording, playingFile, objects, audio, callback>>

-----------------------------------------------------------------------------
(* onCallMediaState, PJSUA worker thread.                                  *)

\* Media is negotiated or renegotiated and the callback begins.  A stream that
\* stays active may carry the capture link across; any other change drops it.
MediaChanged(status) ==
  /\ PjsuaLockFree
  /\ audio # "ended"
  /\ audio' = status
  /\ capture' \in IF audio = "active" /\ status = "active" THEN {capture, FALSE}
                  ELSE {FALSE}
  /\ callback' = [at |-> "load", muted |-> callback.muted]
  /\ UNCHANGED <<flags, objects, m_muted, setter, lastMute>>

LoadMuted ==
  /\ callback.at = "load"
  /\ callback' = [at |-> "wire", muted |-> m_muted]
  /\ UNCHANGED <<flags, objects, audio, m_muted, capture, setter, lastMute>>

\* Wire the capture device according to the state just read.
WireCapture ==
  /\ callback.at = "wire"
  /\ callback' = NoCallback
  /\ \/ /\ audio = "active"
        /\ capture' = ~callback.muted
        /\ UNCHANGED lastMute
     \/ /\ audio # "active"
        /\ UNCHANGED <<capture, lastMute>>
     \/ /\ audio = "active" /\ BackendErrors
        /\ lastMute' = "failed"
        /\ UNCHANGED capture
  /\ UNCHANGED <<flags, objects, audio, m_muted, setter>>

-----------------------------------------------------------------------------
(* Recording and file playback, main thread.                               *)

CanBind == record /\ audio = "active" /\ MainIdle /\ PjsuaLockFree

\* startRecording: an existing recorder is kept, whatever the media.
StartRecording ==
  /\ record /\ MainIdle
  /\ m_recorders \/ CanBind
  /\ m_recorders' = TRUE
  /\ recording' = TRUE
  /\ UNCHANGED <<record, muted, playingFile, m_filePlayers, audio, mic>>

\* Mutant: the manager keeps its flag.
StopRecorderOnly ==
  /\ m_recorders /\ MainIdle
  /\ m_recorders' = FALSE
  /\ UNCHANGED <<flags, m_filePlayers, audio, mic>>

StopRecording ==
  /\ m_recorders /\ MainIdle
  /\ m_recorders' = FALSE
  /\ recording' = IF record THEN FALSE ELSE recording
  /\ UNCHANGED <<record, muted, playingFile, m_filePlayers, audio, mic>>

\* playAudioFile: the previous player is stopped first; when the new one
\* cannot be created the old one is gone and the record's flag stays.
PlayAudioFile ==
  /\ CanBind
  /\ \/ m_filePlayers' = TRUE /\ playingFile' = TRUE
     \/ BackendErrors /\ m_filePlayers' = FALSE /\ UNCHANGED playingFile
  /\ UNCHANGED <<record, muted, recording, m_recorders, audio, mic>>

StopAudioFile ==
  /\ m_filePlayers /\ MainIdle
  /\ m_filePlayers' = FALSE
  /\ playingFile' = IF record THEN FALSE ELSE playingFile
  /\ UNCHANGED <<record, muted, recording, m_recorders, audio, mic>>

-----------------------------------------------------------------------------
(* The end of the call.                                                    *)

\* The session ends on the worker thread; its Disconnected event is queued.
SessionEnded ==
  /\ audio # "ended"
  /\ PjsuaLockFree
  /\ audio' = "ended"
  /\ capture' = FALSE
  /\ UNCHANGED <<flags, objects, m_muted, setter, callback, lastMute>>

\* The queued Disconnected event: postCallState's lambda destroys the media
\* objects, then the manager drops the record and releases the call.
DisconnectedDelivered ==
  /\ audio = "ended" /\ record /\ MainIdle
  /\ m_recorders' = FALSE /\ m_filePlayers' = FALSE
  /\ record' = FALSE
  /\ muted' = FALSE /\ recording' = FALSE /\ playingFile' = FALSE
  /\ UNCHANGED <<audio, mic>>

MediaNext ==
  \/ \E want \in BOOLEAN : SetMutedBegin(want)
  \/ SetMutedDefer \/ SetMutedPublish \/ SetMutedTransmit
  \/ \E status \in {"none", "active", "held"} : MediaChanged(status)
  \/ LoadMuted \/ WireCapture
  \/ StartRecording \/ StopRecording \/ PlayAudioFile \/ StopAudioFile
  \/ SessionEnded \/ DisconnectedDelivered

MediaSpec == MediaInit /\ [][MediaNext]_mediaVars

-----------------------------------------------------------------------------
(* Properties.                                                             *)

\* The flags of CallRecord, the adapter's media objects and the positions of
\* setMuted and onCallMediaState are well typed.
TypeOK ==
  /\ record \in BOOLEAN /\ muted \in BOOLEAN
  /\ recording \in BOOLEAN /\ playingFile \in BOOLEAN
  /\ m_muted \in BOOLEAN /\ capture \in BOOLEAN
  /\ m_recorders \in BOOLEAN /\ m_filePlayers \in BOOLEAN
  /\ audio \in {"none", "active", "held", "ended"}
  /\ setter \in [at : {"idle", "defer", "publish", "transmit"},
                 want : BOOLEAN, previous : BOOLEAN]
  /\ callback \in [at : {"idle", "load", "wire"}, muted : BOOLEAN]
  /\ lastMute \in {"none", "applied", "deferred", "failed"}

\* Neither thread is in the middle of anything and audio flows.
Settled == MainIdle /\ PjsuaLockFree /\ audio = "active"

\* Publishing the mute state before touching the bridge wins the race with a
\* renegotiation: after a setMuted() that found active audio, or none at all,
\* the microphone is connected exactly when the UI shows the call unmuted.
MicFollowsMute ==
  Settled /\ lastMute \in {"none", "applied"} => capture = ~muted

\* "muted means the mic is actually disconnected", a setMuted() that was
\* deferred to the media activation included.
MutedMeansDisconnected ==
  Settled /\ lastMute # "failed" /\ muted => ~capture

\* A recorder or player exists only for a call that is up and shown as
\* recording or playing, so the user can always stop it and the WAV is closed
\* by the end of the call; a call shown as recording has its recorder.
MediaObjectsAccountedFor ==
  /\ m_recorders <=> record /\ recording
  /\ m_filePlayers => record /\ playingFile

=============================================================================
