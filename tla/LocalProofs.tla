---------------------------- MODULE LocalProofs ----------------------------
(***************************************************************************)
(* TLAPS proofs about what runs on this machine alone, each part on its     *)
(* own: the media of a call, the ringtone, the call history and the         *)
(* contacts.                                                               *)
(***************************************************************************)
EXTENDS CallMedia, Ringtone, History, Contacts, Induction, FiniteSetTheorems

-----------------------------------------------------------------------------
(* The media of a call: the microphone follows the mute button, whatever   *)
(* the interleaving of setMuted() with the stack's media callbacks.        *)

\* The last setMuted() reached the bridge, or there was none.
Applied == lastMute \in {"none", "applied"}

\* Nobody is between publishing a mute state and applying it to the bridge.
Quiet == setter.at # "transmit"

\* Why the race is won: outside of a setMuted() that has published but not yet
\* applied, the UI's flag, the published state, the state a callback has read
\* and the capture link agree; while one is under way, what it will apply is
\* what is published.
MicInv ==
  /\ TypeOK
  /\ Quiet /\ Applied /\ audio # "ended" => m_muted = muted
  /\ Quiet /\ Applied /\ callback.at = "wire" => callback.muted = m_muted
  /\ Quiet /\ Applied /\ Settled => capture = ~m_muted
  /\ ~Quiet => m_muted = setter.want

\* The invariant holds for a new call.
LEMMA MicInit == MediaInit => MicInv
  <1> SUFFICES ASSUME MediaInit PROVE MicInv
    OBVIOUS
  <1>1. TypeOK
    BY DEF MediaInit, TypeOK, NoSetter, NoCallback
  <1>2. m_muted = muted /\ callback.at = "idle" /\ audio = "none" /\ Quiet
    BY DEF MediaInit, NoSetter, NoCallback, Quiet
  <1>3. QED
    BY <1>1, <1>2 DEF MicInv, Settled

\* A step that leaves the microphone alone preserves the invariant.
LEMMA MicFrame ==
  ASSUME MicInv, TypeOK', UNCHANGED <<mic, audio, muted>>
  PROVE  MicInv'
  BY DEF MicInv, mic, Applied, Quiet, Settled, MainIdle, PjsuaLockFree

\* Every step of either thread keeps the types.
LEMMA TypeNext == TypeOK /\ [MediaNext]_mediaVars => TypeOK'
  <1> SUFFICES ASSUME TypeOK, [MediaNext]_mediaVars PROVE TypeOK'
    OBVIOUS
  <1> USE DEF TypeOK, NoSetter, NoCallback, flags, objects, mic
  <1>1. ASSUME NEW want \in BOOLEAN, SetMutedBegin(want) PROVE TypeOK'
    BY <1>1 DEF SetMutedBegin
  <1>2. CASE SetMutedDefer
    BY <1>2 DEF SetMutedDefer
  <1>3. CASE SetMutedPublish
    BY <1>3 DEF SetMutedPublish
  <1>4. CASE SetMutedTransmit
    <2>1. setter.want \in BOOLEAN /\ setter.previous \in BOOLEAN
      OBVIOUS
    <2>2. capture' \in BOOLEAN /\ muted' \in BOOLEAN /\ m_muted' \in BOOLEAN
      BY <1>4, <2>1, Zenon DEF SetMutedTransmit
    <2>3. lastMute' \in {"none", "applied", "deferred", "failed"}
      BY <1>4, Zenon DEF SetMutedTransmit
    <2>4. setter' = NoSetter
      BY <1>4 DEF SetMutedTransmit
    <2>5. UNCHANGED <<record, recording, playingFile, objects, audio, callback>>
      BY <1>4 DEF SetMutedTransmit
    <2>6. QED
      BY <2>2, <2>3, <2>4, <2>5
  <1>5. ASSUME NEW status \in {"none", "active", "held"}, MediaChanged(status)
        PROVE TypeOK'
    <2>1. capture' \in BOOLEAN
      BY <1>5, Zenon DEF MediaChanged
    <2>2. QED
      BY <1>5, <2>1 DEF MediaChanged
  <1>6. CASE LoadMuted
    BY <1>6 DEF LoadMuted
  <1>7. CASE WireCapture
    <2>1. capture' \in BOOLEAN
      BY <1>7, Zenon DEF WireCapture
    <2>2. lastMute' \in {"none", "applied", "deferred", "failed"}
      BY <1>7, Zenon DEF WireCapture
    <2>3. callback' = NoCallback
      BY <1>7 DEF WireCapture
    <2>4. UNCHANGED <<record, muted, recording, playingFile, m_recorders,
                      m_filePlayers, audio, m_muted, setter>>
      BY <1>7 DEF WireCapture
    <2>5. callback' \in [at : {"idle", "load", "wire"}, muted : BOOLEAN]
      BY <2>3
    <2>6. QED
      BY <2>1, <2>2, <2>4, <2>5
  <1>8. CASE StartRecording \/ StopRecording
    <2>1. m_recorders' \in BOOLEAN /\ recording' \in BOOLEAN
      BY <1>8, Zenon DEF StartRecording, StopRecording
    <2>2. UNCHANGED <<record, muted, playingFile, m_filePlayers, audio, mic>>
      BY <1>8 DEF StartRecording, StopRecording
    <2>3. QED
      BY <2>1, <2>2
  <1>9. CASE PlayAudioFile \/ StopAudioFile
    <2>1. m_filePlayers' \in BOOLEAN /\ playingFile' \in BOOLEAN
      BY <1>9, Zenon DEF PlayAudioFile, StopAudioFile
    <2>2. UNCHANGED <<record, muted, recording, m_recorders, audio, mic>>
      BY <1>9 DEF PlayAudioFile, StopAudioFile
    <2>3. QED
      BY <2>1, <2>2
  <1>10. CASE SessionEnded \/ DisconnectedDelivered
    BY <1>10 DEF SessionEnded, DisconnectedDelivered
  <1>11. CASE UNCHANGED mediaVars
    BY <1>11 DEF mediaVars
  <1>12. QED
    BY <1>1, <1>2, <1>3, <1>4, <1>5, <1>6, <1>7, <1>8, <1>9, <1>10, <1>11
       DEF MediaNext

\* Every step of either thread preserves the invariant.
LEMMA MicNext == MicInv /\ [MediaNext]_mediaVars => MicInv'
  <1> SUFFICES ASSUME MicInv, [MediaNext]_mediaVars PROVE MicInv'
    OBVIOUS
  <1>t. TypeOK /\ TypeOK'
    BY TypeNext DEF MicInv
  <1> USE <1>t DEF MicInv, Applied, Quiet, Settled, MainIdle, PjsuaLockFree
  <1>1. ASSUME NEW want \in BOOLEAN, SetMutedBegin(want) PROVE MicInv'
    BY <1>1 DEF SetMutedBegin, TypeOK, flags
  <1>2. CASE SetMutedDefer
    BY <1>2 DEF SetMutedDefer, TypeOK, NoSetter
  <1>3. CASE SetMutedPublish
    BY <1>3 DEF SetMutedPublish, TypeOK, flags
  <1>4. CASE SetMutedTransmit
    BY <1>4 DEF SetMutedTransmit, TypeOK, NoSetter
  <1>5. ASSUME NEW status \in {"none", "active", "held"}, MediaChanged(status)
        PROVE MicInv'
    BY <1>5 DEF MediaChanged, TypeOK, flags
  <1>6. CASE LoadMuted
    BY <1>6 DEF LoadMuted, TypeOK, flags
  <1>7. CASE WireCapture
    BY <1>7 DEF WireCapture, TypeOK, NoCallback, flags
  <1>8. CASE StartRecording \/ StopRecording
    <2>1. UNCHANGED <<mic, audio, muted>>
      BY <1>8 DEF StartRecording, StopRecording
    <2>2. QED
      BY <2>1, MicFrame
  <1>9. CASE PlayAudioFile \/ StopAudioFile
    <2>1. UNCHANGED <<mic, audio, muted>>
      BY <1>9 DEF PlayAudioFile, StopAudioFile
    <2>2. QED
      BY <2>1, MicFrame
  <1>10. CASE SessionEnded
    BY <1>10 DEF SessionEnded, flags
  <1>11. CASE DisconnectedDelivered
    BY <1>11 DEF DisconnectedDelivered, mic
  <1>12. CASE UNCHANGED mediaVars
    BY <1>12 DEF mediaVars, flags, mic
  <1>13. QED
    BY <1>1, <1>2, <1>3, <1>4, <1>5, <1>6, <1>7, <1>8, <1>9, <1>10, <1>11,
       <1>12 DEF MediaNext

\* The media state of a call keeps its type.
THEOREM MediaTypeCorrect == MediaSpec => []TypeOK
  <1>1. MediaInit => TypeOK
    BY MicInit DEF MicInv
  <1>2. QED
    BY <1>1, TypeNext, PTL DEF MediaSpec

\* After a setMuted() that found active audio, the microphone is connected
\* exactly when the call is shown unmuted, in every interleaving with
\* onCallMediaState and whether or not the stack fails in between.
THEOREM MuteHolds == MediaSpec => []MicFollowsMute
  <1>1. MicInv => MicFollowsMute
    BY DEF MicInv, MicFollowsMute, Settled, Applied, Quiet, MainIdle, TypeOK
  <1>2. QED
    BY <1>1, MicInit, MicNext, PTL DEF MediaSpec

\* Every step keeps recorders and players in agreement with the record's flags.
LEMMA ObjectsNext ==
  MediaObjectsAccountedFor /\ [MediaNext]_mediaVars => MediaObjectsAccountedFor'
  <1> SUFFICES ASSUME MediaObjectsAccountedFor, [MediaNext]_mediaVars
               PROVE  MediaObjectsAccountedFor'
    OBVIOUS
  <1> USE DEF MediaObjectsAccountedFor, objects
  <1>1. CASE \/ \E want \in BOOLEAN : SetMutedBegin(want)
             \/ SetMutedDefer \/ SetMutedPublish \/ SetMutedTransmit
    BY <1>1 DEF SetMutedBegin, SetMutedDefer, SetMutedPublish, SetMutedTransmit, flags
  <1>2. CASE \/ \E status \in {"none", "active", "held"} : MediaChanged(status)
             \/ LoadMuted \/ WireCapture \/ SessionEnded
    <2>1. UNCHANGED <<flags, objects>>
      BY <1>2 DEF MediaChanged, LoadMuted, WireCapture, SessionEnded
    <2>2. QED
      BY <2>1 DEF flags
  <1>3. CASE StartRecording \/ StopRecording
    <2>1. CASE StartRecording
      BY <2>1 DEF StartRecording
    <2>2. CASE StopRecording
      BY <2>2 DEF StopRecording
    <2>3. QED
      BY <1>3, <2>1, <2>2
  <1>4. CASE PlayAudioFile \/ StopAudioFile
    <2>1. CASE PlayAudioFile
      <3>1. record' /\ (m_recorders' <=> record' /\ recording')
        BY <2>1 DEF PlayAudioFile, CanBind
      <3>2. m_filePlayers' => playingFile'
        BY <2>1 DEF PlayAudioFile
      <3>3. QED
        BY <3>1, <3>2
    <2>2. CASE StopAudioFile
      BY <2>2 DEF StopAudioFile
    <2>3. QED
      BY <1>4, <2>1, <2>2
  <1>5. CASE DisconnectedDelivered
    BY <1>5 DEF DisconnectedDelivered
  <1>6. CASE UNCHANGED mediaVars
    BY <1>6 DEF mediaVars, flags
  <1>7. QED
    BY <1>1, <1>2, <1>3, <1>4, <1>5, <1>6 DEF MediaNext

\* A recorder or a player is never left behind by a call that ended, and a call
\* shown as recording has its recorder.
THEOREM MediaObjectsKept == MediaSpec => []MediaObjectsAccountedFor
  <1>1. MediaInit => MediaObjectsAccountedFor
    BY DEF MediaInit, MediaObjectsAccountedFor
  <1>2. QED
    BY <1>1, ObjectsNext, PTL DEF MediaSpec

-----------------------------------------------------------------------------
(* The ringtone.                                                           *)

RingtoneSpec == RingtoneInit /\ [][RingtoneNext]_ringtoneVars

Tones == [playing : BOOLEAN, path : RingtonePaths \cup {""}, player : {"none", "created", "failed"},
          connected : BOOLEAN]

\* The settings, the timers and the player are well typed.
RingtoneTypeOK ==
  /\ {ringtoneEnabled, ringing, refused, stopRefused} \subseteq BOOLEAN
  /\ ringtonePath \in RingtonePaths /\ testTimers \in Nat
  /\ settingsTable \in [enabled : BOOLEAN, path : RingtonePaths]
  /\ tone \in Tones

\* What plays is connected, and what is connected plays or could not be stopped.
Linked(t, unstopped) ==
  /\ t \in Tones
  /\ t.playing => t.connected
  /\ t.connected => t.playing \/ unstopped

\* m_ringtonePlaying follows the calls, and the sound follows it.
RingtoneInv ==
  /\ RingtoneTypeOK /\ RingtoneFollowsCalls
  /\ Linked(tone, stopRefused)
  /\ tone.playing /\ testTimers = 0 => ringtoneEnabled /\ ringing

\* A player that starts, or was refused, for a file: when it started it plays that
\* file, and a refusal is reported.
LEMMA StartOutcomes ==
  ASSUME NEW t \in Tones, NEW u \in BOOLEAN, Linked(t, u), NEW q \in StartTransmit(t)
  PROVE  /\ Linked(q.tone, u) /\ q.ok \in BOOLEAN
         /\ q.ok => q.tone.playing /\ q.tone.path = t.path
  <1> DEFINE started == [t EXCEPT !.playing = TRUE, !.connected = TRUE]
  <1>1. /\ started \in Tones /\ started.path = t.path
        /\ started.playing = TRUE /\ started.connected = TRUE
    BY DEF Tones
  <1>2. q = [tone |-> t, ok |-> FALSE] \/ q = [tone |-> started, ok |-> TRUE]
    BY Zenon DEF StartTransmit
  <1> HIDE DEF started
  <1>3. CASE q = [tone |-> t, ok |-> FALSE]
    <2>1. q.tone = t /\ q.ok = FALSE
      BY <1>3
    <2> QED
      BY <2>1
  <1>4. CASE q = [tone |-> started, ok |-> TRUE]
    <2>1. q.tone = started /\ q.ok = TRUE
      BY <1>4
    <2> QED
      BY <1>1, <2>1 DEF Linked
  <1> QED
    BY <1>2, <1>3, <1>4

\* A new player that starts, or was refused, or whose file could not be opened.
LEMMA CreateOutcomes ==
  ASSUME NEW t \in Tones, NEW u \in BOOLEAN, ~t.playing,
         NEW path \in RingtonePaths, NEW q \in CreatePlayer(t, path)
  PROVE  /\ Linked(q.tone, u) /\ q.ok \in BOOLEAN
         /\ q.ok => q.tone.playing /\ q.tone.path = path
  <1> DEFINE new == [t EXCEPT !.player = "created", !.path = path, !.connected = FALSE]
             broken == [t EXCEPT !.player = "failed", !.connected = FALSE]
  <1>1. new \in Tones /\ new.path = path /\ ~new.connected /\ ~new.playing
    BY DEF Tones
  <1>2. broken \in Tones /\ ~broken.connected /\ ~broken.playing
    BY DEF Tones
  <1>3. q \in StartTransmit(new) \/ q = [tone |-> broken, ok |-> FALSE]
    BY DEF CreatePlayer
  <1> HIDE DEF new, broken
  <1>4. CASE q \in StartTransmit(new)
    <2>1. Linked(new, u)
      BY <1>1 DEF Linked
    <2> QED
      BY <1>1, <1>4, <2>1, StartOutcomes
  <1>5. CASE q = [tone |-> broken, ok |-> FALSE]
    <2>1. q.tone = broken /\ q.ok = FALSE
      BY <1>5
    <2> QED
      BY <1>2, <2>1 DEF Linked
  <1> QED
    BY <1>3, <1>4, <1>5

\* The player once it was stopped.
LEMMA StoppedFacts ==
  ASSUME tone \in Tones
  PROVE  /\ Stopped(tone) \in Tones /\ Stopped(tone).path = tone.path
         /\ ~Stopped(tone).playing /\ ~Stopped(tone).connected
  BY DEF Stopped, Tones

\* What playRingtone leaves: it plays the file it was given, or reports that it was
\* refused.
LEMMA PlayOutcomes ==
  ASSUME RingtoneTypeOK, Linked(tone, stopRefused), NEW path \in RingtonePaths, NEW o \in PlayRingtone(path)
  PROVE  /\ Linked(o.tone, stopRefused) /\ o.ok \in BOOLEAN
         /\ o.ok => o.tone.playing /\ o.tone.path = path
  <1> DEFINE stopped == IF tone.playing THEN Stopped(tone) ELSE tone
  <1>1. tone \in Tones /\ stopRefused \in BOOLEAN
    BY DEF RingtoneTypeOK
  <1>2. stopped \in Tones /\ ~stopped.playing /\ stopped.path = tone.path /\ Linked(stopped, stopRefused)
    BY <1>1, StoppedFacts DEF Linked
  <1>3. \/ o = [tone |-> tone, ok |-> TRUE] /\ tone.playing /\ tone.path = path
        \/ o = [tone |-> tone, ok |-> FALSE]
        \/ o \in CreatePlayer(stopped, path)
        \/ tone.path = path /\ o \in StartTransmit(stopped)
    BY DEF PlayRingtone
  <1> HIDE DEF stopped
  <1>4. CASE o = [tone |-> tone, ok |-> TRUE] /\ tone.playing /\ tone.path = path
    <2>1. o.tone = tone /\ o.ok = TRUE
      BY <1>4
    <2> QED
      BY <1>4, <2>1
  <1>5. CASE o = [tone |-> tone, ok |-> FALSE]
    <2>1. o.tone = tone /\ o.ok = FALSE
      BY <1>5
    <2> QED
      BY <2>1
  <1>6. CASE o \in CreatePlayer(stopped, path)
    BY <1>1, <1>2, <1>6, CreateOutcomes
  <1>7. CASE tone.path = path /\ o \in StartTransmit(stopped)
    BY <1>1, <1>2, <1>7, StartOutcomes
  <1> QED
    BY <1>3, <1>4, <1>5, <1>6, <1>7

\* A ringtone that was started or refused: what is known of the player afterwards.
LEMMA PlayKeeps ==
  ASSUME RingtoneTypeOK, Linked(tone, stopRefused), NEW path \in RingtonePaths, Play(path)
  PROVE  /\ tone' \in Tones /\ refused' \in BOOLEAN /\ stopRefused' \in BOOLEAN
         /\ Linked(tone', stopRefused')
         /\ ~refused' => tone'.connected /\ tone'.path = path
  <1>1. PICK o \in PlayRingtone(path) :
          tone' = o.tone /\ refused' = ~o.ok /\ stopRefused' = (stopRefused /\ ~o.ok)
    BY DEF Play
  <1>2. /\ Linked(o.tone, stopRefused) /\ o.ok \in BOOLEAN
        /\ o.ok => o.tone.playing /\ o.tone.path = path
    BY <1>1, PlayOutcomes
  <1>3. refused' \in BOOLEAN /\ stopRefused' \in BOOLEAN
    BY <1>1, Zenon
  <1>4. CASE o.ok
    <2>1. tone'.playing /\ tone'.path = path /\ tone' \in Tones /\ tone'.connected
      BY <1>1, <1>2, <1>4 DEF Linked
    <2> QED
      BY <1>3, <2>1 DEF Linked
  <1>5. CASE ~o.ok
    <2>1. refused' /\ (stopRefused => stopRefused')
      BY <1>1, <1>5, Zenon
    <2>2. Linked(tone', stopRefused')
      BY <1>1, <1>2, <2>1 DEF Linked
    <2> QED
      BY <1>3, <2>1, <2>2 DEF Linked
  <1> QED
    BY <1>4, <1>5

\* stopRingtone: nothing plays, and what still sounds could not be stopped.
LEMMA StopKeeps ==
  ASSUME RingtoneTypeOK, Linked(tone, stopRefused), Stop
  PROVE  /\ tone' \in Tones /\ refused' = FALSE /\ stopRefused' \in BOOLEAN
         /\ Linked(tone', stopRefused') /\ ~tone'.playing
  <1>1. PICK o \in StopRingtone :
          tone' = o.tone /\ refused' = FALSE /\ stopRefused' = IF tone.playing THEN ~o.ok ELSE stopRefused
    BY DEF Stop
  <1>2. tone \in Tones /\ stopRefused \in BOOLEAN
    BY DEF RingtoneTypeOK
  <1>3. CASE ~tone.playing
    <2>1. o.tone = tone
      BY <1>1, <1>3 DEF StopRingtone
    <2> QED
      BY <1>1, <1>2, <1>3, <2>1
  <1>4. CASE tone.playing
    <2> DEFINE unstopped == [tone EXCEPT !.playing = FALSE]
    <2>1. unstopped \in Tones /\ ~unstopped.playing
      BY <1>2 DEF Tones
    <2>2. o = [tone |-> Stopped(tone), ok |-> TRUE] \/ o = [tone |-> unstopped, ok |-> FALSE]
      BY <1>1, <1>4 DEF StopRingtone
    <2> HIDE DEF unstopped
    <2>3. CASE o = [tone |-> Stopped(tone), ok |-> TRUE]
      <3>1. tone' = Stopped(tone) /\ stopRefused' = FALSE
        BY <1>1, <1>4, <2>3
      <3> QED
        BY <1>1, <1>2, <3>1, StoppedFacts DEF Linked
    <2>4. CASE o = [tone |-> unstopped, ok |-> FALSE]
      <3>1. tone' = unstopped /\ stopRefused' = TRUE
        BY <1>1, <1>4, <2>4
      <3> QED
        BY <1>1, <2>1, <3>1 DEF Linked
    <2> QED
      BY <2>2, <2>3, <2>4
  <1> QED
    BY <1>3, <1>4

\* applyRingtoneState settles the player, whatever the settings have become.
LEMMA ApplyRingtoneStateSettles ==
  ASSUME RingtoneTypeOK, Linked(tone, stopRefused), ApplyRingtoneState, ringtonePath' \in RingtonePaths
  PROVE  /\ tone' \in Tones /\ refused' \in BOOLEAN /\ stopRefused' \in BOOLEAN
         /\ Linked(tone', stopRefused')
         /\ tone'.playing => ringtoneEnabled' /\ ringing'
         /\ RingtoneFollowsCalls'
  <1>1. CASE ringtoneEnabled' /\ ringing'
    <2>1. Play(ringtonePath')
      BY <1>1 DEF ApplyRingtoneState
    <2> QED
      BY <1>1, <2>1, PlayKeeps DEF RingtoneFollowsCalls
  <1>2. CASE ~(ringtoneEnabled' /\ ringing')
    <2>1. Stop
      BY <1>2 DEF ApplyRingtoneState
    <2> QED
      BY <1>2, <2>1, StopKeeps DEF RingtoneFollowsCalls, Linked
  <1> QED
    BY <1>1, <1>2

\* What a write to app_settings leaves is well typed.
LEMMA StoreTyped ==
  ASSUME RingtoneTypeOK, NEW key, NEW value, Store(key, value),
         \/ key = "enabled" /\ value \in BOOLEAN
         \/ key = "path" /\ value \in RingtonePaths
  PROVE  settingsTable' \in [enabled : BOOLEAN, path : RingtonePaths]
  BY DEF Store, RingtoneTypeOK

\* Every step keeps the ringtone with the calls.
LEMMA RingtoneStepKeeps ==
  ASSUME RingtoneInv, [RingtoneNext]_ringtoneVars
  PROVE  RingtoneInv'
  <1>1. ASSUME NEW b \in BOOLEAN, SetRingtoneEnabled(b)
        PROVE  RingtoneInv'
    BY <1>1, ApplyRingtoneStateSettles, StoreTyped DEF SetRingtoneEnabled, RingtoneInv, RingtoneTypeOK
  <1>2. ASSUME NEW b \in BOOLEAN, SetRinging(b)
        PROVE  RingtoneInv'
    BY <1>2, ApplyRingtoneStateSettles DEF SetRinging, RingtoneInv, RingtoneTypeOK
  <1>3. ASSUME NEW p \in RingtonePaths, SetRingtonePath(p)
        PROVE  RingtoneInv'
    <2>1. PICK path \in {p, defaultRingtonePath} :
            /\ Store("path", path)
            /\ ringtonePath' = path
            /\ UNCHANGED <<ringtoneEnabled, ringing, testTimers>>
            /\ IF path = ringtonePath THEN UNCHANGED <<tone, refused, stopRefused>> ELSE ApplyRingtoneState
      BY <1>3 DEF SetRingtonePath
    <2>2. path \in RingtonePaths
      BY DEF RingtonePaths
    <2>3. settingsTable' \in [enabled : BOOLEAN, path : RingtonePaths]
      BY <2>1, <2>2, StoreTyped DEF RingtoneInv
    <2>4. CASE path = ringtonePath
      BY <2>1, <2>3, <2>4 DEF RingtoneInv, RingtoneTypeOK, RingtoneFollowsCalls
    <2>5. CASE path # ringtonePath
      BY <2>1, <2>2, <2>3, <2>5, ApplyRingtoneStateSettles DEF RingtoneInv, RingtoneTypeOK
    <2> QED
      BY <2>4, <2>5
  <1>4. ASSUME TestRingtone
        PROVE  RingtoneInv'
    <2>1. /\ tone' \in Tones /\ refused' \in BOOLEAN /\ stopRefused' \in BOOLEAN
          /\ Linked(tone', stopRefused')
          /\ ~refused' => tone'.connected /\ tone'.path = ringtonePath
      BY <1>4, PlayKeeps DEF TestRingtone, RingtoneInv, RingtoneTypeOK
    <2>2. testTimers' \in Nat /\ testTimers' # 0
      BY <1>4 DEF TestRingtone, RingtoneInv, RingtoneTypeOK
    <2> QED
      BY <1>4, <2>1, <2>2 DEF TestRingtone, RingtoneInv, RingtoneTypeOK, RingtoneFollowsCalls
  <1>5. ASSUME TestTimerFires
        PROVE  RingtoneInv'
    BY <1>5, ApplyRingtoneStateSettles DEF TestTimerFires, RingtoneInv, RingtoneTypeOK
  <1>6. ASSUME RestartRingtone
        PROVE  RingtoneInv'
    <2>1. PICK settings \in Loaded :
            ringtoneEnabled' = settings.enabled /\ ringtonePath' \in {settings.path, defaultRingtonePath}
      BY <1>6 DEF RestartRingtone
    <2>2. settings \in [enabled : BOOLEAN, path : RingtonePaths]
      <3>1. [enabled |-> TRUE, path |-> defaultRingtonePath] \in [enabled : BOOLEAN, path : RingtonePaths]
        BY DEF RingtonePaths
      <3> QED
        BY <2>1, <3>1 DEF Loaded, RingtoneInv, RingtoneTypeOK
    <2>3. ringtoneEnabled' \in BOOLEAN /\ ringtonePath' \in RingtonePaths
      BY <2>1, <2>2 DEF RingtonePaths
    <2>4. tone' \in Tones /\ ~tone'.playing /\ ~tone'.connected
      BY <1>6 DEF RestartRingtone, Silent, Tones
    <2> QED
      BY <1>6, <2>3, <2>4 DEF RestartRingtone, RingtoneInv, RingtoneTypeOK, RingtoneFollowsCalls, Linked
  <1>7. CASE UNCHANGED ringtoneVars
    BY <1>7 DEF ringtoneVars, RingtoneInv, RingtoneTypeOK, RingtoneFollowsCalls
  <1> QED
    BY <1>1, <1>2, <1>3, <1>4, <1>5, <1>6, <1>7 DEF RingtoneNext

\* Once no test is running the phone sounds only for a ringing call with the
\* ringtone on, or because the stack refused to stop the ringtone started last; and
\* it does sound for a ringing call unless the stack refused: whatever the files, the
\* tests and the refusals.
THEOREM RingtoneIsRight == RingtoneSpec => []RingtoneFollowsCalls
  <1>1. RingtoneInit => RingtoneInv
    <2> SUFFICES ASSUME RingtoneInit PROVE RingtoneInv
      OBVIOUS
    <2>1. defaultRingtonePath \in RingtonePaths
      BY DEF RingtonePaths
    <2>2. settingsTable \in [enabled : BOOLEAN, path : RingtonePaths]
      BY <2>1 DEF RingtoneInit
    <2>3. tone \in Tones /\ ~tone.playing /\ ~tone.connected
      BY DEF RingtoneInit, Silent, Tones
    <2> QED
      BY <2>1, <2>2, <2>3 DEF RingtoneInit, RingtoneInv, RingtoneTypeOK, RingtoneFollowsCalls, Linked
  <1>2. RingtoneInv /\ [RingtoneNext]_ringtoneVars => RingtoneInv'
    BY RingtoneStepKeeps
  <1>3. RingtoneInv => RingtoneFollowsCalls
    BY DEF RingtoneInv
  <1> QED
    BY <1>1, <1>2, <1>3, PTL DEF RingtoneSpec

-----------------------------------------------------------------------------
(* The call history.                                                       *)

HistorySpec == HistoryInit /\ [][HistoryNext]_historyVars

Row == [id : Nat, call : Nat, account : HistoryAccounts, startedAt : 1..MaxTime]
Call == [id : Nat, account : HistoryAccounts, startedAt : 1..MaxTime]

\* The logged call a row is of.
CallOf(r) == [id |-> r.call, account |-> r.account, startedAt |-> r.startedAt]

\* Rows of logged calls, at most one of each, with ids in the order in which the
\* calls were logged: a row id may be used again, but only once all larger ones
\* are gone.
Rows(rows, calls) ==
  /\ rows \in SUBSET Row /\ IsFiniteSet(rows)
  /\ \A r \in rows : CallOf(r) \in calls /\ r.id <= Cardinality(calls)
  /\ \A r, s \in rows : r.id < s.id <=> r.call < s.call
  /\ \A r, s \in rows : r.call = s.call => r = s

\* Calls are numbered as they are logged.
Calls(calls) ==
  /\ calls \in SUBSET Call /\ IsFiniteSet(calls)
  /\ \A c \in calls : c.id <= Cardinality(calls)
  /\ \A c, d \in calls : c.id = d.id => c = d

HistoryInv ==
  /\ Calls(logged) /\ Rows(callHistory, logged)
  /\ \A n \in pruned : n \in Nat /\ n <= Cardinality(logged)
  /\ \A r \in callHistory : r.account \in historyAccounts
  /\ HistoryKeepsNewest

\* Fewer rows are still rows of the calls.
LEMMA FewerRows ==
  ASSUME NEW calls, NEW rows, Rows(rows, calls), NEW some \in SUBSET rows
  PROVE  Rows(some, calls) /\ Cardinality(some) <= Cardinality(rows)
  BY FS_Subset DEF Rows

\* The rows newer than one are no more than the calls newer than its call.
LEMMA NewerRows ==
  ASSUME NEW calls, Calls(calls), NEW rows, Rows(rows, calls), NEW r \in rows
  PROVE  /\ Cardinality({s \in rows : Newer(s, r)}) \in Nat
         /\ Cardinality({d \in calls : Newer(d, CallOf(r))}) \in Nat
         /\ Cardinality({s \in rows : Newer(s, r)}) <= Cardinality({d \in calls : Newer(d, CallOf(r))})
  <1> DEFINE newer == {s \in rows : Newer(s, r)}
             ahead == {d \in calls : Newer(d, CallOf(r))}
             f == [s \in newer |-> CallOf(s)]
  <1>1. newer \in SUBSET rows /\ ahead \in SUBSET calls /\ IsFiniteSet(rows) /\ IsFiniteSet(calls)
    BY DEF Rows, Calls
  <1>2. IsFiniteSet(newer) /\ IsFiniteSet(ahead)
    BY <1>1, FS_Subset
  <1>3. Cardinality(newer) \in Nat /\ Cardinality(ahead) \in Nat
    BY <1>2, FS_CardinalityType
  <1>4. \A s \in rows : s \in Row /\ CallOf(s) \in calls
                        /\ CallOf(s).id = s.call /\ CallOf(s).startedAt = s.startedAt
    BY DEF Rows, CallOf
  <1>5. \A s \in newer : CallOf(s) \in ahead
    <2> SUFFICES ASSUME NEW s \in rows, Newer(s, r) PROVE Newer(CallOf(s), CallOf(r))
      BY <1>4
    <2>1. /\ s.id \in Nat /\ r.id \in Nat /\ s.call \in Nat /\ r.call \in Nat
          /\ (r.id < s.id <=> r.call < s.call)
      BY <1>4 DEF Rows, Row
    <2> QED
      BY <1>4, <2>1 DEF Newer
  <1>6. \A s, t \in newer : f[s] = f[t] => s = t
    <2> SUFFICES ASSUME NEW s \in newer, NEW t \in newer, CallOf(s) = CallOf(t) PROVE s = t
      OBVIOUS
    <2>1. s.call = t.call
      BY <1>4
    <2> QED
      BY <2>1 DEF Rows
  <1> HIDE DEF newer, ahead
  <1>7. f \in Injection(newer, ahead)
    <2>1. f \in [newer -> ahead]
      BY <1>5
    <2>2. IsInjective(f)
      BY <1>6, <2>1 DEF IsInjective
    <2> QED
      BY <2>1, <2>2 DEF Injection
  <1>8. Cardinality(newer) <= Cardinality(ahead)
    BY <1>2, <1>7, FS_Injection
  <1> QED
    BY <1>3, <1>8 DEF newer, ahead

\* prune's second statement leaves kMaxEntries rows at most: the oldest it leaves
\* has fewer than that before it.
LEMMA NewestAreFew ==
  ASSUME NEW calls, NEW rows, Rows(rows, calls)
  PROVE  Cardinality(Newest(rows)) <= kMaxEntries
  <1> DEFINE T == Newest(rows)
  <1>0. kMaxEntries \in Nat \ {0} /\ MaxTime \in Nat
    BY HistoryAssumption
  <1>1. T \in SUBSET rows /\ rows \in SUBSET Row /\ IsFiniteSet(rows)
    BY DEF Newest, Rows
  <1>2. IsFiniteSet(T)
    BY <1>1, FS_Subset
  <1>3. CASE T = {}
    BY <1>0, <1>3, FS_EmptySet
  <1>4. CASE T # {}
    <2> DEFINE times == {u.startedAt : u \in T}
    <2>1. times \in SUBSET Nat /\ times # {}
      <3>1. \A u \in T : u.startedAt \in Nat
        BY <1>0, <1>1 DEF Row
      <3> QED
        BY <1>4, <3>1
    <2>2. PICK x \in times : \A y \in times : x <= y
      BY <2>1, LeastFacts
    <2> DEFINE ids == {u.id : u \in {v \in T : v.startedAt = x}}
    <2>3. ids \in SUBSET Nat /\ ids # {}
      <3>1. \A u \in T : u.id \in Nat
        BY <1>1 DEF Row
      <3>2. PICK u \in T : u.startedAt = x
        BY <2>2
      <3>3. u.id \in ids
        BY <3>2
      <3> QED
        BY <3>1, <3>3
    <2>4. PICK n \in ids : \A y \in ids : n <= y
      BY <2>3, LeastFacts
    <2>5. PICK t \in T : t.startedAt = x /\ t.id = n
      BY <2>4
    <2> DEFINE newer == {s \in rows : Newer(s, t)}
    <2>6. \A s \in T \ {t} : s \in newer
      <3> SUFFICES ASSUME NEW s \in T, s # t PROVE Newer(s, t)
        BY <1>1
      <3>1. s.startedAt >= t.startedAt /\ (s.startedAt = t.startedAt => s.id >= t.id)
        BY <2>2, <2>4, <2>5
      <3>2. /\ s.id \in Nat /\ t.id \in Nat /\ s.call \in Nat /\ t.call \in Nat
            /\ s.startedAt \in Nat /\ t.startedAt \in Nat
        BY <1>0, <1>1 DEF Row
      <3>3. s.id # t.id
        <4>1. s.call # t.call /\ (s.id < t.id <=> s.call < t.call) /\ (t.id < s.id <=> t.call < s.call)
          BY <1>1 DEF Rows
        <4> QED
          BY <3>2, <4>1
      <3> QED
        BY <3>1, <3>2, <3>3 DEF Newer
    <2>7. IsFiniteSet(newer) /\ Cardinality(newer) < kMaxEntries /\ Cardinality(newer) \in Nat
      <3>1. newer \in SUBSET rows
        OBVIOUS
      <3>2. IsFiniteSet(newer)
        BY <1>1, <3>1, FS_Subset
      <3> QED
        BY <3>2, FS_CardinalityType DEF Newest
    <2>8. Cardinality(T \ {t}) <= Cardinality(newer)
      <3>1. T \ {t} \in SUBSET newer
        BY <2>6
      <3> QED
        BY <2>7, <3>1, FS_Subset
    <2>9. Cardinality(T \ {t}) = Cardinality(T) - 1 /\ Cardinality(T) \in Nat
      BY <1>2, FS_RemoveElement, FS_CardinalityType
    <2> QED
      BY <1>0, <2>7, <2>8, <2>9
  <1> QED
    BY <1>3, <1>4

\* A new row's id is larger than all others, and no larger than the calls logged.
LEMMA NextRowIdFacts ==
  ASSUME NEW calls, Calls(calls), Rows(callHistory, calls)
  PROVE  /\ NextRowId \in Nat /\ NextRowId <= Cardinality(calls) + 1
         /\ \A r \in callHistory : r.id < NextRowId
  <1>1. Cardinality(calls) \in Nat
    BY FS_CardinalityType DEF Calls
  <1>2. CASE callHistory = {}
    BY <1>1, <1>2 DEF NextRowId
  <1>3. CASE callHistory # {}
    <2> DEFINE ids == {r.id : r \in callHistory}
    <2>1. \A r \in callHistory : r.id \in 0..Cardinality(calls)
      BY <1>1 DEF Rows, Row
    <2>2. Max(ids) \in ids /\ \A y \in ids : Max(ids) >= y
      <3>1. ids \in SUBSET (0..Cardinality(calls)) /\ ids # {}
        BY <1>3, <2>1
      <3> HIDE DEF ids
      <3> QED
        BY <1>1, <3>1, MaxFacts
    <2>3. PICK r \in callHistory : r.id = Max(ids)
      BY <2>2
    <2>4. \A s \in callHistory : s.id <= r.id
      BY <2>1, <2>2, <2>3
    <2> DEFINE last == CHOOSE q \in callHistory : \A s \in callHistory : s.id <= q.id
    <2>5. last \in callHistory /\ \A s \in callHistory : s.id <= last.id
      BY <2>4
    <2>6. NextRowId = 1 + last.id
      BY <1>3 DEF NextRowId
    <2> HIDE DEF last
    <2> QED
      BY <1>1, <2>1, <2>5, <2>6
  <1> QED
    BY <1>2, <1>3

\* Writing a call adds it to the calls, and a row to the rows.
LEMMA AppendRow ==
  ASSUME HistoryInv, NEW a \in HistoryAccounts, NEW t \in 1..MaxTime
  PROVE  LET n == Cardinality(logged) + 1
             c == [id |-> n, account |-> a, startedAt |-> t]
             row == [id |-> NextRowId, call |-> n, account |-> a, startedAt |-> t]
         IN /\ Calls(logged \cup {c}) /\ Rows(callHistory \cup {row}, logged \cup {c})
            /\ CallOf(row) = c
  <1> DEFINE n == Cardinality(logged) + 1
             c == [id |-> n, account |-> a, startedAt |-> t]
             row == [id |-> NextRowId, call |-> n, account |-> a, startedAt |-> t]
             calls == logged \cup {c}
             rows == callHistory \cup {row}
  <1>1. /\ Calls(logged) /\ Rows(callHistory, logged) /\ Cardinality(logged) \in Nat
    BY FS_CardinalityType DEF HistoryInv, Calls
  <1>2. /\ NextRowId \in Nat /\ NextRowId <= n /\ \A r \in callHistory : r.id < NextRowId
    BY <1>1, NextRowIdFacts
  <1>3. /\ c \in Call /\ c.id = n /\ CallOf(row) = c
        /\ row \in Row /\ row.id = NextRowId /\ row.call = n
    BY <1>1, <1>2 DEF Call, Row, CallOf
  <1>4. \A d \in logged : d.id \in Nat /\ d.id < n
    BY <1>1 DEF Calls, Call
  <1>5. Cardinality(calls) = n /\ IsFiniteSet(calls) /\ n \in Nat
    <2>1. c \notin logged
      BY <1>3, <1>4
    <2> QED
      BY <1>1, <2>1, FS_AddElement DEF Calls
  <1> HIDE DEF c, row, n
  <1>6. Calls(calls)
    BY <1>1, <1>3, <1>4, <1>5 DEF Calls, Call
  <1>7. \A r \in callHistory : /\ r \in Row /\ r.id \in Nat /\ r.call \in Nat
                               /\ CallOf(r) \in logged /\ r.call < n
    <2> SUFFICES ASSUME NEW r \in callHistory PROVE r \in Row /\ CallOf(r) \in logged /\ r.call < n
      BY DEF Row
    <2>1. r \in Row /\ CallOf(r) \in logged /\ CallOf(r).id = r.call
      BY <1>1 DEF Rows, CallOf
    <2> QED
      BY <1>4, <2>1
  <1>8. rows \in SUBSET Row /\ IsFiniteSet(rows)
    BY <1>1, <1>3, FS_AddElement DEF Rows
  <1>9. \A r \in rows : CallOf(r) \in calls /\ r.id <= Cardinality(calls)
    <2>1. \A r \in callHistory : r.id <= Cardinality(calls)
      BY <1>1, <1>2, <1>5, <1>7
    <2> QED
      BY <1>2, <1>3, <1>5, <1>7, <2>1
  <1>10. \A r, s \in rows : r.id < s.id <=> r.call < s.call
    <2> SUFFICES ASSUME NEW r \in rows, NEW s \in rows PROVE r.id < s.id <=> r.call < s.call
      OBVIOUS
    <2>1. CASE r \in callHistory /\ s \in callHistory
      BY <1>1, <2>1 DEF Rows
    <2>2. CASE r \in callHistory /\ s = row
      BY <1>2, <1>3, <1>7, <2>2
    <2>3. CASE r = row /\ s \in callHistory
      BY <1>2, <1>3, <1>5, <1>7, <2>3
    <2>4. CASE r = row /\ s = row
      BY <1>2, <1>3, <1>5, <2>4
    <2> QED
      BY <2>1, <2>2, <2>3, <2>4
  <1>11. \A r, s \in rows : r.call = s.call => r = s
    BY <1>1, <1>3, <1>5, <1>7 DEF Rows
  <1>12. Rows(rows, calls)
    BY <1>8, <1>9, <1>10, <1>11 DEF Rows
  <1> QED
    BY <1>3, <1>6, <1>12 DEF c, row, n

\* The age limit of a call is a time.
LEMMA AgeLimitTyped ==
  ASSUME NEW t \in 1..MaxTime PROVE AgeLimit(t) \in Nat
  BY HistoryAssumption DEF AgeLimit

\* Calls newer than one are counted by a number.
LEMMA AheadCounts ==
  ASSUME NEW calls, Calls(calls), NEW some \in SUBSET calls, NEW c
  PROVE  /\ Cardinality({d \in calls : Newer(d, c)}) \in Nat /\ Cardinality({d \in some : Newer(d, c)}) \in Nat
         /\ Cardinality({d \in some : Newer(d, c)}) <= Cardinality({d \in calls : Newer(d, c)})
  <1> DEFINE A == {d \in calls : Newer(d, c)}
             B == {d \in some : Newer(d, c)}
  <1>1. A \in SUBSET calls /\ B \in SUBSET A /\ IsFiniteSet(calls)
    BY DEF Calls
  <1>2. IsFiniteSet(A)
    BY <1>1, FS_Subset
  <1>3. IsFiniteSet(B) /\ Cardinality(B) <= Cardinality(A)
    BY <1>1, <1>2, FS_Subset
  <1>4. Cardinality(A) \in Nat /\ Cardinality(B) \in Nat
    BY <1>2, <1>3, FS_CardinalityType
  <1> QED
    BY <1>3, <1>4

\* A call that is written, and the prune after it, whichever statement fails: what
\* is retained has its row before the prune, is young enough, and is among the
\* newest of any of the rows; what was too old before it went then.
LEMMA LogCallKeeps ==
  ASSUME HistoryInv, NEW a \in HistoryAccounts, NEW t \in 1..MaxTime, LogCall(a, t)
  PROVE  HistoryInv'
  <1> DEFINE n == Cardinality(logged) + 1
             c == [id |-> n, account |-> a, startedAt |-> t]
             row == [id |-> NextRowId, call |-> n, account |-> a, startedAt |-> t]
             calls == logged \cup {c}
             rows == callHistory \cup {row}
  <1>0. shownHistory' = callHistory' /\ historyAccounts' = historyAccounts
    BY DEF LogCall, HistoryList
  <1>1. CASE UNCHANGED <<callHistory, logged, pruned>>
    <2>1. \A d : Retained(d)' <=> Retained(d)
      BY <1>0, <1>1 DEF Retained
    <2>2. {r \in callHistory : r.account \in historyAccounts} = callHistory
      BY DEF HistoryInv
    <2>3. HistoryKeepsNewest'
      BY <1>0, <1>1, <2>1, <2>2 DEF HistoryInv, HistoryKeepsNewest
    <2> QED
      BY <1>0, <1>1, <2>3 DEF HistoryInv
  <1>2. CASE /\ a \in historyAccounts /\ logged' = calls
             /\ Prune(rows, t, n)
    <2>1. Calls(calls) /\ Rows(rows, calls) /\ CallOf(row) = c
      BY AppendRow
    <2>2. row.account = a /\ row.call = n /\ row.startedAt = t /\ c.id = n /\ c.startedAt = t
      OBVIOUS
    <2>3. AgeLimit(t) \in Nat
      BY AgeLimitTyped
    <2>4. /\ n \in Nat /\ n \notin pruned
          /\ \A d \in logged : d.id \in Nat /\ d.id < n
          /\ \A m \in pruned : m \in Nat /\ m < n
          /\ \A r \in callHistory : r.call \in Nat /\ r.call < n
      <3>1. Cardinality(logged) \in Nat
        BY FS_CardinalityType DEF HistoryInv, Calls
      <3>2. \A d \in logged : d.id \in Nat /\ d.id < n
        BY <3>1 DEF HistoryInv, Calls, Call
      <3>3. \A m \in pruned : m \in Nat /\ m < n
        BY <3>1 DEF HistoryInv
      <3>4. \A r \in callHistory : r.call \in Nat /\ r.call < n
        BY <3>2 DEF HistoryInv, Rows, CallOf
      <3> QED
        BY <3>1, <3>2, <3>3, <3>4
    <2>5. Cardinality(calls) = n
      <3>1. c \notin logged
        BY <2>2, <2>4
      <3> QED
        BY <3>1, FS_AddElement DEF HistoryInv, Calls
    <2> HIDE DEF n, c, row
    <2>6. /\ callHistory' \in SUBSET rows
          /\ \/ callHistory' = rows \/ callHistory' = Young(rows, t)
             \/ callHistory' = Newest(rows) \/ callHistory' = Newest(Young(rows, t))
          /\ \/ pruned' = pruned
             \/ pruned' = pruned \cup {n} /\ callHistory' = Newest(Young(rows, t))
      BY <1>2 DEF Prune, Young, Newest
    <2>7. Rows(callHistory', calls)
      BY <2>1, <2>6, FewerRows
    <2>8. \A r \in rows : r.account \in historyAccounts
      BY <1>2, <2>2 DEF HistoryInv
    <2>9. n \in pruned' => Cardinality(callHistory') <= kMaxEntries
      <3>1. Rows(Young(rows, t), calls)
        BY <2>1, FewerRows DEF Young
      <3> QED
        BY <2>6, <2>4, <3>1, NewestAreFew
    <2>10. ASSUME NEW d \in calls, d.account \in historyAccounts,
                 \A e \in calls : e.id >= d.id => d.startedAt >= AgeLimit(e.startedAt),
                 Cardinality({e \in calls : Newer(e, d)}) < kMaxEntries
          PROVE  \E r \in callHistory' : r.call = d.id /\ r.startedAt = d.startedAt
      <3>1. PICK r \in rows : r.call = d.id /\ r.startedAt = d.startedAt
        <4>1. CASE d = c
          BY <2>2, <4>1
        <4>2. CASE d \in logged
          <5>1. \A e \in logged : e.id >= d.id => d.startedAt >= AgeLimit(e.startedAt)
            BY <2>10
          <5>2. Cardinality({e \in logged : Newer(e, d)}) < kMaxEntries
            <6> DEFINE A == {e \in calls : Newer(e, d)}
                       B == {e \in logged : Newer(e, d)}
            <6>1. logged \in SUBSET calls
              OBVIOUS
            <6>2. Cardinality(A) \in Nat /\ Cardinality(B) \in Nat /\ Cardinality(B) <= Cardinality(A)
              BY <2>1, <6>1, AheadCounts
            <6>3. Cardinality(A) < kMaxEntries
              BY <2>10
            <6> HIDE DEF A, B
            <6>4. Cardinality(B) < kMaxEntries
              BY <6>2, <6>3, HistoryAssumption
            <6> QED
              BY <6>4 DEF B
          <5> QED
            BY <2>10, <4>2, <5>1, <5>2 DEF HistoryInv, HistoryKeepsNewest, Retained
        <4> QED
          BY <4>1, <4>2
      <3>2. CallOf(r) = d
        <4>1. CallOf(r) \in calls /\ CallOf(r).id = d.id
          BY <2>1, <3>1 DEF Rows, CallOf
        <4> QED
          BY <2>1, <4>1 DEF Calls
      <3>3. r \in Young(rows, t)
        <4>1. c \in calls /\ c.id >= d.id
          BY <2>2, <2>4
        <4>2. d.startedAt >= AgeLimit(t)
          BY <2>2, <2>10, <4>1
        <4> QED
          BY <3>1, <4>2 DEF Young
      <3>4. ASSUME NEW some \in SUBSET rows, r \in some PROVE r \in Newest(some)
        <4>1. Rows(some, calls)
          BY <2>1, FewerRows
        <4> DEFINE newer == {s \in some : Newer(s, r)}
                   ahead == {e \in calls : Newer(e, CallOf(r))}
        <4>2. Cardinality(newer) \in Nat /\ Cardinality(ahead) \in Nat /\ Cardinality(newer) <= Cardinality(ahead)
          <5>1. Calls(calls) /\ r \in some
            BY <2>1, <3>4
          <5> HIDE DEF calls, rows
          <5> QED
            BY <4>1, <5>1, NewerRows
        <4>3. Cardinality(ahead) < kMaxEntries
          BY <2>10, <3>2
        <4>4. Cardinality(newer) < kMaxEntries
          <5> HIDE DEF newer, ahead
          <5> QED
            BY <4>2, <4>3, HistoryAssumption
        <4> QED
          BY <3>4, <4>4 DEF Newest
      <3>5. r \in callHistory'
        <4>1. Young(rows, t) \in SUBSET rows
          BY DEF Young
        <4> QED
          BY <2>6, <3>1, <3>3, <3>4, <4>1
      <3> QED
        BY <3>1, <3>5
    <2>11. \A r \in callHistory' : r.account \in historyAccounts'
      BY <1>0, <2>6, <2>8
    <2>12. ASSUME NEW d \in calls, NEW r \in callHistory', d.id \in pruned' PROVE ~AgedOut(r, d)
      <3>1. r \in rows
        BY <2>6
      <3>2. CASE d = c
        <4>1. r \in Young(rows, t)
          BY <2>2, <2>6, <2>12, <2>4, <3>2 DEF Newest
        <4>2. r.startedAt >= AgeLimit(t) /\ r.startedAt \in Nat
          BY <2>1, <4>1, HistoryAssumption DEF Young, Rows, Row
        <4> QED
          BY <2>2, <2>3, <3>2, <4>2 DEF AgedOut
      <3>3. CASE d \in logged /\ r \in callHistory
        <4>1. d.id \in pruned
          BY <2>6, <2>12, <2>4, <3>3
        <4> QED
          BY <3>3, <4>1 DEF HistoryInv, HistoryKeepsNewest
      <3>4. CASE d \in logged /\ r = row
        BY <2>2, <2>4, <3>4 DEF AgedOut
      <3> QED
        BY <3>1, <3>2, <3>3, <3>4
    <2>13. \A m \in pruned' : m \in Nat /\ m <= Cardinality(logged')
      BY <1>2, <2>6, <2>5, <2>4
    <2>14. HistoryKeepsNewest'
      <3>1. \A d \in logged' : Retained(d)' => \E r \in callHistory' : r.call = d.id /\ r.startedAt = d.startedAt
        BY <1>0, <1>2, <2>10 DEF Retained
      <3>2. {r \in shownHistory' : r.account \in historyAccounts'} = callHistory'
        BY <1>0, <2>11
      <3>3. \A d \in logged', r \in callHistory' : d.id \in pruned' => ~AgedOut(r, d)
        BY <1>2, <2>12
      <3>4. Cardinality(logged') \in pruned' => Cardinality(callHistory') <= kMaxEntries
        BY <1>2, <2>9, <2>5
      <3> QED
        BY <3>1, <3>2, <3>3, <3>4 DEF HistoryKeepsNewest, AgedOut
    <2> QED
      BY <1>2, <2>1, <2>7, <2>11, <2>14, <2>13 DEF HistoryInv
  <1> QED
    BY <1>1, <1>2 DEF LogCall, AppendHistory

\* The rows of an account that is deleted go, and no others.
LEMMA DeleteAccountRowKeeps ==
  ASSUME HistoryInv, NEW a \in HistoryAccounts, DeleteAccountRow(a)
  PROVE  HistoryInv'
  <1>1. /\ historyAccounts' = historyAccounts \ {a}
        /\ callHistory' = {r \in callHistory : r.account # a}
        /\ UNCHANGED <<shownHistory, logged, pruned>>
    BY DEF DeleteAccountRow
  <1>2. Calls(logged) /\ Rows(callHistory, logged) /\ callHistory' \in SUBSET callHistory
    BY <1>1 DEF HistoryInv
  <1>3. Rows(callHistory', logged) /\ Cardinality(callHistory') <= Cardinality(callHistory)
    BY <1>2, FewerRows
  <1>4. {Cardinality(callHistory), Cardinality(callHistory'), kMaxEntries} \subseteq Nat
    BY <1>2, <1>3, FS_CardinalityType, HistoryAssumption DEF Rows
  <1>5. \A d \in logged : Retained(d)' => \E r \in callHistory' : r.call = d.id /\ r.startedAt = d.startedAt
    <2> SUFFICES ASSUME NEW d \in logged, Retained(d)'
                 PROVE  \E r \in callHistory' : r.call = d.id /\ r.startedAt = d.startedAt
      OBVIOUS
    <2>1. Retained(d) /\ d.account # a
      BY <1>1 DEF Retained
    <2>2. PICK r \in callHistory : r.call = d.id /\ r.startedAt = d.startedAt
      BY <2>1 DEF HistoryInv, HistoryKeepsNewest
    <2>3. CallOf(r) \in logged /\ CallOf(r).id = d.id /\ CallOf(r).account = r.account
      BY <1>2, <2>2 DEF Rows, CallOf
    <2>4. r.account = d.account
      BY <1>2, <2>3 DEF Calls
    <2> QED
      BY <1>1, <2>1, <2>2, <2>4
  <1>6. Cardinality(logged)' \in pruned' => Cardinality(callHistory') <= kMaxEntries
    BY <1>1, <1>3, <1>4 DEF HistoryInv, HistoryKeepsNewest
  <1>7. {r \in shownHistory' : r.account \in historyAccounts'} = callHistory'
    BY <1>1 DEF HistoryInv, HistoryKeepsNewest
  <1>8. HistoryKeepsNewest'
    <2>1. \A d \in logged', r \in callHistory' : d.id \in pruned' => ~AgedOut(r, d)
      BY <1>1, <1>2 DEF HistoryInv, HistoryKeepsNewest
    <2> QED
      BY <1>1, <1>5, <1>6, <1>7, <2>1 DEF HistoryKeepsNewest, AgedOut
  <1> QED
    BY <1>1, <1>2, <1>3, <1>8 DEF HistoryInv

\* For any retention, any number of calls and accounts, calls logged out of order,
\* ids used twice, failed statements and steps of the clock: what the rule retains
\* is in the table and on screen, no row outlives a prune by whose call it was too
\* old, and a prune leaves kMaxEntries rows at most.
THEOREM HistoryIsKept == HistorySpec => []HistoryKeepsNewest
  <1>1. HistoryInit => HistoryInv
    <2> SUFFICES ASSUME HistoryInit PROVE HistoryInv
      OBVIOUS
    <2>1. Cardinality({}) = 0 /\ IsFiniteSet({})
      BY FS_EmptySet
    <2> QED
      BY <2>1, HistoryAssumption DEF HistoryInit, HistoryInv, Calls, Rows, HistoryKeepsNewest
  <1>2. HistoryInv /\ [HistoryNext]_historyVars => HistoryInv'
    <2> SUFFICES ASSUME HistoryInv, [HistoryNext]_historyVars PROVE HistoryInv'
      OBVIOUS
    <2>1. CASE UNCHANGED historyVars
      <3>1. \A d : Retained(d)' <=> Retained(d)
        BY <2>1 DEF historyVars, Retained
      <3> QED
        BY <2>1, <3>1 DEF historyVars, HistoryInv, HistoryKeepsNewest
    <2> QED
      BY <2>1, LogCallKeeps, DeleteAccountRowKeeps DEF HistoryNext
  <1>3. HistoryInv => HistoryKeepsNewest
    BY DEF HistoryInv
  <1> QED
    BY <1>1, <1>2, <1>3, PTL DEF HistorySpec

-----------------------------------------------------------------------------
(* The contacts.  What a file says is read off the parser line by line, the *)
(* lines of a card first, then the sections of a file.                     *)

ContactsSpec == ContactsInit /\ [][ContactsNext]_contactsVars

\* What a file can say.
Text == {"", "fn", "n", "1", "2", "ext", "sip:a", "sip:b", "xmpp:a", "VCARD", "first last"}

Person == [displayName : Text, sipUri : Text, phone : Text]
Props == {"FN", "N", "TEL", "IMPP", "X-SIP"}
FileLine == [prop : Props \cup {"BEGIN", "END"}, value : Text]

\* The parser between two lines.
Parser(open, c, n, people, dropped) ==
  [inCard |-> open, current |-> c, nFallback |-> n, contacts |-> people, errors |-> dropped]

\* The parser inside a card.
InCard(c, n, people, dropped) == Parser(TRUE, c, n, people, dropped)

Parsers == [inCard : BOOLEAN, current : Person, nFallback : Text, contacts : Seq(Person), errors : Nat]

\* Records, field by field.
LEMMA ParserFields ==
  ASSUME NEW s \in Parsers
  PROVE  /\ s = Parser(s.inCard, s.current, s.nFallback, s.contacts, s.errors)
         /\ s.inCard \in BOOLEAN /\ s.current \in Person /\ s.nFallback \in Text
         /\ s.contacts \in Seq(Person) /\ s.errors \in Nat
  BY DEF Parsers, Parser

\* A record of these parts is a parser.
LEMMA ParserMade ==
  ASSUME NEW open \in BOOLEAN, NEW c \in Person, NEW n \in Text,
         NEW people \in Seq(Person), NEW dropped \in Nat
  PROVE  Parser(open, c, n, people, dropped) \in Parsers
  BY DEF Parsers, Parser

\* A person, field by field, and a person of these fields.
LEMMA PersonFields ==
  ASSUME NEW c \in Person
  PROVE  /\ c = Contact(c.displayName, c.sipUri, c.phone)
         /\ c.displayName \in Text /\ c.sipUri \in Text /\ c.phone \in Text
  BY DEF Person, Contact

LEMMA PersonMade ==
  ASSUME NEW d \in Text, NEW u \in Text, NEW p \in Text
  PROVE  Contact(d, u, p) \in Person
  BY DEF Person, Contact

\* Nobody.
LEMMA BlankFacts == Blank \in Person /\ Blank = Contact("", "", "")
  BY DEF Person, Contact, Blank, Text

\* A nested EXCEPT, one level at a time.
LEMMA CurrentSets ==
  ASSUME NEW s, NEW v
  PROVE  /\ [s EXCEPT !.current.displayName = v] = [s EXCEPT !.current = [s.current EXCEPT !.displayName = v]]
         /\ [s EXCEPT !.current.sipUri = v] = [s EXCEPT !.current = [s.current EXCEPT !.sipUri = v]]
         /\ [s EXCEPT !.current.phone = v] = [s EXCEPT !.current = [s.current EXCEPT !.phone = v]]
  OBVIOUS

\* What a line inside a card adds to what the card says.
NameAfter(d, l) == IF l.prop = "FN" THEN l.value ELSE d
SipAfter(u, l) == IF l.prop = "X-SIP" \/ (l.prop = "IMPP" /\ isSipUri(l.value)) THEN l.value ELSE u
PhoneAfter(p, l) == IF l.prop = "TEL" /\ p = "" THEN SanitizePhone(l.value) ELSE p
FallbackAfter(n, l) == IF l.prop = "N" THEN l.value ELSE n

\* A line inside a card, field by field.
LEMMA LineInCard ==
  ASSUME NEW d, NEW u, NEW p, NEW n, NEW people, NEW dropped,
         NEW l \in FileLine, l.prop \in Props
  PROVE  VCardLine(InCard(Contact(d, u, p), n, people, dropped), l)
           = InCard(Contact(NameAfter(d, l), SipAfter(u, l), PhoneAfter(p, l)),
                    FallbackAfter(n, l), people, dropped)
  <1> DEFINE open == TRUE
             c == Contact(d, u, p)
             s == Parser(open, c, n, people, dropped)
             v == l.value
             w == SanitizePhone(v)
  <1>1. s.inCard = open /\ open = TRUE /\ s.current = c /\ s = Parser(open, c, n, people, dropped)
    BY DEF Parser
  <1>2. c.phone = p /\ c = Contact(d, u, p)
    BY DEF Contact
  <1> HIDE DEF c, open
  <1>3. ASSUME NEW new PROVE [s EXCEPT !.current = new] = Parser(open, new, n, people, dropped)
    BY DEF Parser
  <1>4. [s EXCEPT !.nFallback = v] = Parser(open, c, v, people, dropped)
    <2> HIDE DEF v
    <2> QED
      BY DEF Parser
  <1>5. /\ [c EXCEPT !.displayName = v] = Contact(v, u, p)
        /\ [c EXCEPT !.sipUri = v] = Contact(d, v, p)
        /\ [c EXCEPT !.phone = w] = Contact(d, u, w)
    BY DEF Contact, c
  <1>6. /\ [s EXCEPT !.current.displayName = v] = [s EXCEPT !.current = [s.current EXCEPT !.displayName = v]]
        /\ [s EXCEPT !.current.sipUri = v] = [s EXCEPT !.current = [s.current EXCEPT !.sipUri = v]]
        /\ [s EXCEPT !.current.phone = w] = [s EXCEPT !.current = [s.current EXCEPT !.phone = w]]
    BY CurrentSets
  <1> HIDE DEF s
  <1>7. /\ [s EXCEPT !.current.displayName = v] = Parser(open, Contact(v, u, p), n, people, dropped)
        /\ [s EXCEPT !.current.sipUri = v] = Parser(open, Contact(d, v, p), n, people, dropped)
        /\ [s EXCEPT !.current.phone = w] = Parser(open, Contact(d, u, w), n, people, dropped)
    BY <1>1, <1>3, <1>5, <1>6, Zenon
  <1>8. VCardLine(s, l) =
          Parser(open, Contact(IF l.prop = "FN" THEN v ELSE d,
                               IF l.prop = "X-SIP" \/ (l.prop = "IMPP" /\ isSipUri(v)) THEN v ELSE u,
                               IF l.prop = "TEL" /\ p = "" THEN w ELSE p),
                 IF l.prop = "N" THEN v ELSE n, people, dropped)
    <2> HIDE DEF v, w
    <2>1. CASE l.prop = "FN"
      <3>1. VCardLine(s, l) = [s EXCEPT !.current.displayName = v]
        BY <1>1, <2>1 DEF VCardLine, v
      <3> QED
        BY <1>7, <2>1, <3>1
    <2>2. CASE l.prop = "N"
      <3>1. VCardLine(s, l) = [s EXCEPT !.nFallback = v]
        BY <1>1, <2>2 DEF VCardLine, v
      <3> QED
        BY <1>2, <1>4, <2>2, <3>1
    <2>3. CASE l.prop = "TEL"
      <3>1. VCardLine(s, l) = IF p = "" THEN [s EXCEPT !.current.phone = w] ELSE s
        BY <1>1, <1>2, <2>3 DEF VCardLine, v, w
      <3> QED
        BY <1>1, <1>2, <1>7, <2>3, <3>1
    <2>4. CASE l.prop = "IMPP"
      <3>1. VCardLine(s, l) = IF isSipUri(v) THEN [s EXCEPT !.current.sipUri = v] ELSE s
        BY <1>1, <2>4 DEF VCardLine, v
      <3> QED
        BY <1>1, <1>2, <1>7, <2>4, <3>1
    <2>5. CASE l.prop = "X-SIP"
      <3>1. VCardLine(s, l) = [s EXCEPT !.current.sipUri = v]
        BY <1>1, <2>5 DEF VCardLine, v
      <3> QED
        BY <1>7, <2>5, <3>1
    <2> QED
      BY <2>1, <2>2, <2>3, <2>4, <2>5 DEF Props
  <1> QED
    BY <1>8 DEF InCard, s, c, open, NameAfter, SipAfter, PhoneAfter, FallbackAfter

\* The lines around and outside a card.
LEMMA LineOutsideCard ==
  ASSUME NEW s \in Parsers, NEW l \in FileLine
  PROVE  /\ l.prop = "BEGIN" => VCardLine(s, l) = Parser(TRUE, Blank, "", s.contacts, s.errors)
         /\ l.prop \in Props /\ ~s.inCard => VCardLine(s, l) = s
         /\ l.prop = "END" =>
              LET c == IF s.current.displayName = ""
                       THEN Contact(s.nFallback, s.current.sipUri, s.current.phone) ELSE s.current
              IN VCardLine(s, l) = Parser(FALSE, c, s.nFallback,
                                          IF Carries(c) THEN Append(s.contacts, c) ELSE s.contacts,
                                          IF Carries(c) THEN s.errors ELSE s.errors + 1)
  <1>1. l.prop = "BEGIN" => VCardLine(s, l) = Parser(TRUE, Blank, "", s.contacts, s.errors)
    BY DEF VCardLine, BeginCard, Parser, Parsers
  <1>2. l.prop \in Props /\ ~s.inCard => VCardLine(s, l) = s
    BY DEF VCardLine, Props
  <1>3. ASSUME l.prop = "END"
        PROVE  LET c == IF s.current.displayName = ""
                        THEN Contact(s.nFallback, s.current.sipUri, s.current.phone) ELSE s.current
               IN VCardLine(s, l) = Parser(FALSE, c, s.nFallback,
                                           IF Carries(c) THEN Append(s.contacts, c) ELSE s.contacts,
                                           IF Carries(c) THEN s.errors ELSE s.errors + 1)
    <2> DEFINE c == IF s.current.displayName = ""
                    THEN Contact(s.nFallback, s.current.sipUri, s.current.phone) ELSE s.current
               b == IF s.current.displayName = "" THEN [s.current EXCEPT !.displayName = s.nFallback] ELSE s.current
    <2>1. b = c
      <3>1. s.current = Contact(s.current.displayName, s.current.sipUri, s.current.phone)
        BY ParserFields, PersonFields
      <3>2. [s.current EXCEPT !.displayName = s.nFallback]
              = Contact(s.nFallback, s.current.sipUri, s.current.phone)
        BY ParserFields DEF Person, Contact
      <3> QED
        BY <3>2
    <2>2. VCardLine(s, l) = EndCard(s)
      BY <1>3 DEF VCardLine
    <2>3. EndCard(s) = [s EXCEPT !.current = b, !.inCard = FALSE,
                                 !.contacts = IF Carries(b) THEN Append(@, b) ELSE @,
                                 !.errors = IF Carries(b) THEN @ ELSE @ + 1]
      BY Zenon DEF EndCard
    <2> HIDE DEF b, c
    <2>4. EndCard(s) = Parser(FALSE, b, s.nFallback,
                              IF Carries(b) THEN Append(s.contacts, b) ELSE s.contacts,
                              IF Carries(b) THEN s.errors ELSE s.errors + 1)
      BY <2>3 DEF Parser, Parsers
    <2> QED
      BY <2>1, <2>2, <2>4 DEF c
  <1> QED
    BY <1>1, <1>2, <1>3

\* Whatever the line, the parser stays one.
LEMMA LineTyped ==
  ASSUME NEW s \in Parsers, NEW l \in FileLine
  PROVE  VCardLine(s, l) \in Parsers
  <1>1. /\ s.inCard \in BOOLEAN /\ s.current \in Person /\ s.nFallback \in Text
        /\ s.contacts \in Seq(Person) /\ s.errors \in Nat
        /\ s = Parser(s.inCard, s.current, s.nFallback, s.contacts, s.errors)
    BY ParserFields
  <1>2. /\ s.current = Contact(s.current.displayName, s.current.sipUri, s.current.phone)
        /\ s.current.displayName \in Text /\ s.current.sipUri \in Text /\ s.current.phone \in Text
    BY <1>1, PersonFields
  <1>3. l.value \in Text /\ SanitizePhone(l.value) \in Text /\ l.prop \in Props \cup {"BEGIN", "END"}
    <2>1. l.value \in Text /\ l.prop \in Props \cup {"BEGIN", "END"}
      BY DEF FileLine
    <2> QED
      BY <2>1 DEF SanitizePhone, Text
  <1>4. CASE l.prop = "BEGIN"
    <2>1. Blank \in Person /\ "" \in Text /\ TRUE \in BOOLEAN
      BY BlankFacts DEF Text
    <2>2. VCardLine(s, l) = Parser(TRUE, Blank, "", s.contacts, s.errors)
      BY <1>4, LineOutsideCard
    <2> QED
      BY <1>1, <2>1, <2>2, ParserMade
  <1>5. CASE l.prop = "END"
    <2> DEFINE c == IF s.current.displayName = ""
                    THEN Contact(s.nFallback, s.current.sipUri, s.current.phone) ELSE s.current
    <2>1. c \in Person
      BY <1>1, <1>2, PersonMade
    <2>2. VCardLine(s, l) = Parser(FALSE, c, s.nFallback,
                                   IF Carries(c) THEN Append(s.contacts, c) ELSE s.contacts,
                                   IF Carries(c) THEN s.errors ELSE s.errors + 1)
      BY <1>5, LineOutsideCard
    <2> HIDE DEF c
    <2>3. (IF Carries(c) THEN Append(s.contacts, c) ELSE s.contacts) \in Seq(Person)
          /\ (IF Carries(c) THEN s.errors ELSE s.errors + 1) \in Nat /\ FALSE \in BOOLEAN
      BY <1>1, <2>1
    <2> QED
      BY <1>1, <2>1, <2>2, <2>3, ParserMade
  <1>6. CASE l.prop \in Props /\ ~s.inCard
    BY <1>6, LineOutsideCard
  <1>7. CASE l.prop \in Props /\ s.inCard
    <2> DEFINE d == s.current.displayName  u == s.current.sipUri  p == s.current.phone
               n == s.nFallback  people == s.contacts  dropped == s.errors
               d2 == NameAfter(d, l)  u2 == SipAfter(u, l)  p2 == PhoneAfter(p, l)  n2 == FallbackAfter(n, l)
    <2>1. s = InCard(Contact(d, u, p), n, people, dropped)
      BY <1>1, <1>2, <1>7 DEF InCard
    <2> HIDE DEF d, u, p, n, people, dropped
    <2>2. d2 \in Text /\ u2 \in Text /\ p2 \in Text /\ n2 \in Text
      BY <1>1, <1>2, <1>3 DEF d, u, p, n, NameAfter, SipAfter, PhoneAfter, FallbackAfter
    <2>3. VCardLine(InCard(Contact(d, u, p), n, people, dropped), l)
            = InCard(Contact(d2, u2, p2), n2, people, dropped)
      BY <1>7, LineInCard
    <2> HIDE DEF d2, u2, p2, n2
    <2>4. VCardLine(s, l) = InCard(Contact(d2, u2, p2), n2, s.contacts, s.errors)
      BY <2>1, <2>3 DEF n, people, dropped
    <2>5. Contact(d2, u2, p2) \in Person /\ TRUE \in BOOLEAN
      BY <2>2, PersonMade
    <2> QED
      BY <1>1, <2>2, <2>4, <2>5, ParserMade DEF InCard
  <1> QED
    BY <1>1, <1>3, <1>4, <1>5, <1>6, <1>7

Read(s, lines) == FoldLeft(VCardLine, s, lines)

\* parseVCard's loop, line by line.
Reading(at, s, lines) ==
  /\ at[0] = s
  /\ \A k \in 1..Len(lines) : at[k] = VCardLine(at[k - 1], lines[k])

\* The fold of parseVCard's loop in steps.
LEMMA ReadsInSteps ==
  ASSUME NEW s \in Parsers, NEW lines \in Seq(FileLine)
  PROVE  \E at : Reading(at, s, lines) /\ Read(s, lines) = at[Len(lines)]
  <1> DEFINE n == Len(lines)
             step == [p \in (1..n) \X Parsers |-> VCardLine(p[2], lines[p[1]])]
             Equation(it) == it = [x \in SUBSET DOMAIN lines |->
                               IF x = {} THEN s ELSE VCardLine(it[x \ {Max(x)}], lines[Max(x)])]
  <1>1. n \in Nat /\ DOMAIN lines = 1..n /\ \A k \in 1..n : lines[k] \in FileLine
    OBVIOUS
  <1>2. step \in [(1..n) \X Parsers -> Parsers]
    <2>1. \A p \in (1..n) \X Parsers : VCardLine(p[2], lines[p[1]]) \in Parsers
      BY <1>1, LineTyped
    <2> QED
      BY <2>1
  <1>3. \E it : Equation(it)
    <2> HIDE DEF step, n
    <2>1. PICK it : Unrolling(it, n, Parsers, s, step)
      BY <1>1, <1>2, FoldDefined
    <2>2. /\ it \in [SUBSET (1..n) -> Parsers]
          /\ \A x \in SUBSET (1..n) : it[x] = IF x = {} THEN s ELSE step[<<Max(x), it[x \ {Max(x)}]>>]
      BY <2>1 DEF Unrolling
    <2>3. ASSUME NEW x \in SUBSET (1..n), x # {}
          PROVE  step[<<Max(x), it[x \ {Max(x)}]>>] = VCardLine(it[x \ {Max(x)}], lines[Max(x)])
      <3>1. x \in SUBSET (0..n)
        OBVIOUS
      <3>2. Max(x) \in x
        BY <1>1, <2>3, <3>1, MaxFacts
      <3>3. Max(x) \in 1..n /\ x \ {Max(x)} \in SUBSET (1..n)
        BY <3>2
      <3>4. it[x \ {Max(x)}] \in Parsers
        BY <2>2, <3>3
      <3> QED
        BY <3>3, <3>4 DEF step
    <2>4. it = [x \in SUBSET DOMAIN lines |->
                  IF x = {} THEN s ELSE VCardLine(it[x \ {Max(x)}], lines[Max(x)])]
      BY <1>1, <2>2, <2>3
    <2> QED
      BY <2>4
  <1> DEFINE it == CHOOSE it : Equation(it)
  <1>4. Equation(it)
    <2> HIDE DEF Equation
    <2> QED
      BY <1>3
  <1>5. Read(s, lines) = it[DOMAIN lines]
    BY Zenon DEF Read, FoldLeft, MapThenFoldSet
  <1> HIDE DEF it, n, step
  <1> DEFINE at == [k \in 0..n |-> it[1..k]]
  <1>6. at[0] = s
    <2>1. 1..0 = {} /\ {} \in SUBSET DOMAIN lines /\ 0 \in 0..n
      BY <1>1
    <2> QED
      BY <1>4, <2>1
  <1>7. ASSUME NEW k \in 1..n PROVE at[k] = VCardLine(at[k - 1], lines[k])
    <2>1. k \in Nat \ {0} /\ k \in 0..n /\ k - 1 \in 0..n /\ 1..k \in SUBSET DOMAIN lines
      BY <1>1
    <2>2. 1..k # {} /\ Max(1..k) = k /\ (1..k) \ {k} = 1..(k - 1)
      BY <2>1, PrefixFacts
    <2>3. it[1..k] = VCardLine(it[1..(k - 1)], lines[k])
      BY <1>4, <2>1, <2>2
    <2> QED
      BY <2>1, <2>3
  <1>8. Read(s, lines) = at[n]
    BY <1>1, <1>5
  <1> HIDE DEF at
  <1> QED
    BY <1>6, <1>7, <1>8 DEF n, Reading

\* Reading no line.
LEMMA ReadNothing ==
  ASSUME NEW s \in Parsers
  PROVE  Read(s, <<>>) = s
  <1>1. <<>> \in Seq(FileLine) /\ Len(<<>>) = 0
    OBVIOUS
  <1>2. PICK at : Reading(at, s, <<>>) /\ Read(s, <<>>) = at[Len(<<>>)]
    BY <1>1, ReadsInSteps
  <1> QED
    BY <1>1, <1>2 DEF Reading

\* Reading one line more.
LEMMA ReadMore ==
  ASSUME NEW s \in Parsers, NEW u \in Seq(FileLine), NEW l \in FileLine
  PROVE  Read(s, Append(u, l)) = VCardLine(Read(s, u), l)
  <1> DEFINE n == Len(u)  v == Append(u, l)
  <1>1. v \in Seq(FileLine) /\ Len(v) = n + 1 /\ n \in Nat /\ v[n + 1] = l
        /\ \A k \in 1..n : v[k] = u[k] /\ k \in 1..(n + 1)
    OBVIOUS
  <1>2. PICK a : Reading(a, s, u) /\ Read(s, u) = a[Len(u)]
    BY ReadsInSteps
  <1> HIDE DEF v
  <1>3. PICK b : Reading(b, s, v) /\ Read(s, v) = b[Len(v)]
    BY <1>1, ReadsInSteps
  <1>4. Alike(n, a, b) /\ a[0] = b[0]
    BY <1>1, <1>2, <1>3 DEF Alike, Reading
  <1>5. a[n] = b[n]
    <2> HIDE DEF n
    <2> QED
      BY <1>1, <1>4, SameSteps
  <1>6. b[n + 1] = VCardLine(b[n], l)
    <2>1. n + 1 \in 1..Len(v) /\ (n + 1) - 1 = n
      BY <1>1
    <2> QED
      BY <1>1, <1>3, <2>1 DEF Reading
  <1> QED
    BY <1>1, <1>2, <1>3, <1>5, <1>6 DEF v

\* Reading lines leaves a parser.
LEMMA ReadTyped ==
  ASSUME NEW s \in Parsers, NEW lines \in Seq(FileLine)
  PROVE  Read(s, lines) \in Parsers
  <1> DEFINE n == Len(lines)
             S == {k \in 0..n : Read(s, SubSeq(lines, 1, k)) \in Parsers}
  <1>1. n \in Nat /\ SubSeq(lines, 1, 0) = <<>> /\ SubSeq(lines, 1, n) = lines
    BY PrefixEnds
  <1>2. 0 \in S
    <2>1. Read(s, <<>>) = s
      BY ReadNothing
    <2>2. Read(s, SubSeq(lines, 1, 0)) \in Parsers
      BY <1>1, <2>1, Zenon
    <2> QED
      BY <1>1, <2>2
  <1>3. ASSUME NEW k \in 0..(n - 1), k \in S PROVE k + 1 \in S
    <2> DEFINE u == SubSeq(lines, 1, k)  l == lines[k + 1]
    <2>1. u \in Seq(FileLine) /\ l \in FileLine /\ SubSeq(lines, 1, k + 1) = Append(u, l) /\ k + 1 \in 0..n
      BY <1>1, PrefixMore
    <2>2. Read(s, u) \in Parsers
      BY <1>3
    <2> HIDE DEF u, l
    <2>3. Read(s, Append(u, l)) \in Parsers
      BY <2>1, <2>2, ReadMore, LineTyped
    <2> QED
      BY <2>1, <2>3
  <1> HIDE DEF S
  <1>4. 0..n \subseteq S
    <2> HIDE DEF n
    <2> QED
      BY <1>1, <1>2, <1>3, RangeInduction
  <1>5. n \in S
    BY <1>1, <1>4
  <1>6. Read(s, SubSeq(lines, 1, n)) \in Parsers
    BY <1>5, Zenon DEF S
  <1> QED
    BY <1>1, <1>6, Zenon

\* One run of lines after another.
LEMMA ReadBoth ==
  ASSUME NEW s \in Parsers, NEW u \in Seq(FileLine), NEW lines \in Seq(FileLine)
  PROVE  Read(s, u \o lines) = Read(Read(s, u), lines)
  <1> DEFINE n == Len(lines)
             t == Read(s, u)
             S == {k \in 0..n : Read(s, u \o SubSeq(lines, 1, k)) = Read(t, SubSeq(lines, 1, k))}
  <1>1. n \in Nat /\ SubSeq(lines, 1, 0) = <<>> /\ SubSeq(lines, 1, n) = lines
    BY PrefixEnds
  <1>2. t \in Parsers
    BY ReadTyped
  <1> HIDE DEF t
  <1>3. 0 \in S
    <2>1. Read(t, <<>>) = t
      BY <1>2, ReadNothing
    <2>2. u \o <<>> = u
      OBVIOUS
    <2>3. Read(s, u \o SubSeq(lines, 1, 0)) = Read(t, SubSeq(lines, 1, 0))
      BY <1>1, <2>1, <2>2, Zenon DEF t
    <2> QED
      BY <1>1, <2>3
  <1>4. ASSUME NEW k \in 0..(n - 1), k \in S PROVE k + 1 \in S
    <2> DEFINE v == SubSeq(lines, 1, k)  l == lines[k + 1]  w == u \o v
    <2>1. v \in Seq(FileLine) /\ l \in FileLine /\ SubSeq(lines, 1, k + 1) = Append(v, l) /\ k + 1 \in 0..n
      BY <1>1, PrefixMore
    <2>2. Read(s, w) = Read(t, v)
      BY <1>4
    <2> HIDE DEF v, l
    <2>3. w \in Seq(FileLine) /\ u \o Append(v, l) = Append(w, l)
      BY <2>1
    <2> HIDE DEF w
    <2>4. Read(s, Append(w, l)) = VCardLine(Read(s, w), l) /\ Read(t, Append(v, l)) = VCardLine(Read(t, v), l)
      BY <1>2, <2>1, <2>3, ReadMore
    <2>5. Read(s, u \o SubSeq(lines, 1, k + 1)) = Read(t, SubSeq(lines, 1, k + 1))
      BY <2>1, <2>2, <2>3, <2>4
    <2> QED
      BY <2>1, <2>5
  <1> HIDE DEF S
  <1>5. 0..n \subseteq S
    <2> HIDE DEF n
    <2> QED
      BY <1>1, <1>3, <1>4, RangeInduction
  <1>6. n \in S
    BY <1>1, <1>5
  <1>7. Read(s, u \o SubSeq(lines, 1, n)) = Read(t, SubSeq(lines, 1, n))
    BY <1>6, Zenon DEF S
  <1> QED
    BY <1>1, <1>7, Zenon DEF t

\* What lines of a kind say: the last of them, the first of them.
At(lines, W) == {i \in DOMAIN lines : lines[i] \in W}
LastSaid(lines, W) == IF At(lines, W) = {} THEN "" ELSE lines[Max(At(lines, W))].value
FirstSaid(lines, W) == IF At(lines, W) = {} THEN "" ELSE lines[Min(At(lines, W))].value

FnLines == {x \in CardLines : x.prop = "FN"}
NLines == {x \in CardLines : x.prop = "N"}
SipLines == {x \in CardLines : x.prop \in {"IMPP", "X-SIP"} /\ x.value # "xmpp:a"}
TelLines == {x \in CardLines : x.prop = "TEL" /\ x.value # "ext"}

\* No lines say nothing.
LEMMA SaidNothing ==
  ASSUME NEW W
  PROVE  LastSaid(<<>>, W) = "" /\ FirstSaid(<<>>, W) = ""
  <1>1. At(<<>>, W) = {}
    BY DEF At
  <1> QED
    BY <1>1 DEF LastSaid, FirstSaid

\* One line more.
SaysMore(more, lines, l, W) ==
  /\ LastSaid(more, W) = IF l \in W THEN l.value ELSE LastSaid(lines, W)
  /\ FirstSaid(more, W) = IF l \in W /\ At(lines, W) = {} THEN l.value ELSE FirstSaid(lines, W)

\* What one line more says.
LEMMA SaidMore ==
  ASSUME NEW lines \in Seq(CardLines), NEW l \in CardLines, NEW W,
         NEW more, more = Append(lines, l)
  PROVE  SaysMore(more, lines, l, W)
  <1> DEFINE n == Len(lines)
             a == At(lines, W)  b == At(more, W)
  <1>2. /\ n \in Nat /\ DOMAIN lines = 1..n /\ DOMAIN more = 1..(n + 1)
        /\ more[n + 1] = l /\ \A i \in 1..n : more[i] = lines[i]
    OBVIOUS
  <1> HIDE DEF n
  <1>3. b = (IF l \in W THEN a \cup {n + 1} ELSE a) /\ a \in SUBSET (1..n)
    BY <1>2 DEF At
  <1>4. a \in SUBSET (0..n) /\ b \in SUBSET (0..(n + 1)) /\ a \in SUBSET Nat /\ b \in SUBSET Nat
    BY <1>2, <1>3
  <1> HIDE DEF a, b
  <1>5. LastSaid(more, W) = IF l \in W THEN l.value ELSE LastSaid(lines, W)
    <2>1. CASE l \in W
      <3>1. n + 1 \in b /\ b # {} /\ n + 1 \in Nat
        BY <1>2, <1>3, <2>1
      <3>2. Max(b) \in b /\ \A y \in b : Max(b) >= y
        BY <1>4, <3>1, MaxFacts
      <3>3. Max(b) \in 0..(n + 1) /\ Max(b) >= n + 1
        BY <1>4, <3>1, <3>2
      <3>4. Max(b) = n + 1
        BY <1>2, <3>3
      <3>5. LastSaid(more, W) = more[Max(b)].value
        BY <3>1 DEF LastSaid, b
      <3> QED
        BY <1>2, <2>1, <3>4, <3>5
    <2>2. CASE l \notin W /\ a # {}
      <3>1. b = a
        BY <1>3, <2>2
      <3>2. Max(a) \in a
        BY <1>2, <1>4, <2>2, MaxFacts
      <3>3. more[Max(a)] = lines[Max(a)]
        BY <1>2, <1>3, <3>2
      <3>4. LastSaid(more, W) = more[Max(a)].value /\ LastSaid(lines, W) = lines[Max(a)].value
        BY <2>2, <3>1 DEF LastSaid, a, b
      <3> QED
        BY <2>2, <3>3, <3>4
    <2>3. CASE l \notin W /\ a = {}
      BY <1>3, <2>3 DEF LastSaid, a, b
    <2> QED
      BY <2>1, <2>2, <2>3
  <1>6. FirstSaid(more, W) = IF l \in W /\ a = {} THEN l.value ELSE FirstSaid(lines, W)
    <2>1. CASE l \in W /\ a = {}
      <3>1. b = {n + 1}
        BY <1>3, <2>1
      <3>2. Min(b) = n + 1
        <4>1. Min(b) \in b
          BY <1>4, <3>1, MinFacts
        <4> QED
          BY <3>1, <4>1
      <3>3. FirstSaid(more, W) = more[Min(b)].value
        BY <3>1 DEF FirstSaid, b
      <3> QED
        BY <1>2, <2>1, <3>2, <3>3
    <2>2. CASE a # {}
      <3>1. Min(a) \in a /\ \A y \in a : Min(a) <= y
        BY <1>4, <2>2, MinFacts
      <3>2. b # {} /\ \A y \in b : y \in a \/ y = n + 1
        BY <1>3, <2>2
      <3>3. Min(b) \in b /\ \A y \in b : Min(b) <= y
        BY <1>4, <3>2, MinFacts
      <3>4. Min(a) \in 1..n /\ Min(a) \in b
        BY <1>3, <3>1
      <3>5. Min(b) \in a
        BY <1>2, <3>2, <3>3, <3>4
      <3>6. Min(a) <= Min(b) /\ Min(b) <= Min(a) /\ Min(a) \in Nat /\ Min(b) \in Nat
        BY <1>4, <3>1, <3>3, <3>4, <3>5
      <3>7. Min(a) = Min(b)
        BY <3>6
      <3>8. FirstSaid(more, W) = more[Min(b)].value /\ FirstSaid(lines, W) = lines[Min(a)].value
        BY <2>2, <3>2 DEF FirstSaid, a, b
      <3> QED
        BY <1>2, <2>2, <3>4, <3>7, <3>8
    <2>3. CASE l \notin W /\ a = {}
      BY <1>3, <2>3 DEF FirstSaid, a, b
    <2> QED
      BY <2>1, <2>2, <2>3
  <1> QED
    BY <1>5, <1>6 DEF a, SaysMore

\* What the lines of a card are.
LEMMA CardLineFacts ==
  ASSUME NEW l \in CardLines
  PROVE  /\ l \in FileLine /\ l.prop \in Props
         /\ l.prop = "FN" <=> l \in FnLines
         /\ l.prop = "N" <=> l \in NLines
         /\ l.prop = "X-SIP" \/ (l.prop = "IMPP" /\ isSipUri(l.value)) <=> l \in SipLines
         /\ l \in TelLines => l.prop = "TEL" /\ l.value # "" /\ SanitizePhone(l.value) = l.value
         /\ l.prop = "TEL" /\ l \notin TelLines => SanitizePhone(l.value) = ""
  BY DEF CardLines, FileLine, Props, Text, FnLines, NLines, SipLines, TelLines, isSipUri, SanitizePhone

\* A card has lines of a file.
LEMMA LinesAreLines ==
  ASSUME NEW u \in Seq(CardLines)
  PROVE  u \in Seq(FileLine)
  <1>1. Len(u) \in Nat /\ DOMAIN u = 1..Len(u) /\ \A i \in DOMAIN u : u[i] \in CardLines
    OBVIOUS
  <1>2. \A i \in DOMAIN u : u[i] \in FileLine
    BY <1>1, CardLineFacts
  <1> QED
    BY <1>1, <1>2

\* A number is said when there is a line that says one.
LEMMA NumberSaid ==
  ASSUME NEW lines \in Seq(CardLines)
  PROVE  FirstSaid(lines, TelLines) = "" <=> At(lines, TelLines) = {}
  <1> DEFINE a == At(lines, TelLines)
  <1>1. CASE a # {}
    <2>1. a \in SUBSET Nat /\ \A i \in a : lines[i] \in TelLines
      BY DEF At
    <2>2. Min(a) \in a
      BY <1>1, <2>1, MinFacts
    <2>3. lines[Min(a)] \in TelLines
      BY <2>1, <2>2
    <2>4. lines[Min(a)].value # ""
      BY <2>3, CardLineFacts DEF TelLines
    <2> QED
      BY <1>1, <2>4 DEF FirstSaid
  <1> QED
    BY <1>1 DEF FirstSaid

\* What the lines say of a person, FN and N apart.
Said(lines) == Contact(LastSaid(lines, FnLines), LastSaid(lines, SipLines), FirstSaid(lines, TelLines))

\* The lines of a card, read inside it.
LEMMA CardRead ==
  ASSUME NEW lines \in Seq(CardLines), NEW people \in Seq(Person), NEW dropped \in Nat
  PROVE  Read(InCard(Blank, "", people, dropped), lines)
           = InCard(Said(lines), LastSaid(lines, NLines), people, dropped)
  <1> DEFINE n == Len(lines)
             s == InCard(Blank, "", people, dropped)
             After(u) == InCard(Said(u), LastSaid(u, NLines), people, dropped)
             S == {k \in 0..n : Read(s, SubSeq(lines, 1, k)) = After(SubSeq(lines, 1, k))}
  <1>1. n \in Nat /\ SubSeq(lines, 1, 0) = <<>> /\ SubSeq(lines, 1, n) = lines
    BY PrefixEnds
  <1>2. s \in Parsers
    BY ParserMade, BlankFacts DEF InCard, Text
  <1> HIDE DEF s
  <1>3. 0 \in S
    <2>1. Read(s, <<>>) = s
      BY <1>2, ReadNothing
    <2>2. \A W : LastSaid(<<>>, W) = "" /\ FirstSaid(<<>>, W) = ""
      BY SaidNothing
    <2>3. After(<<>>) = s
      BY <2>2, BlankFacts DEF Said, s
    <2> HIDE DEF After
    <2>4. Read(s, SubSeq(lines, 1, 0)) = After(SubSeq(lines, 1, 0))
      BY <1>1, <2>1, <2>3, Zenon
    <2> QED
      BY <1>1, <2>4
  <1>4. ASSUME NEW k \in 0..(n - 1), k \in S PROVE k + 1 \in S
    <2> DEFINE u == SubSeq(lines, 1, k)  l == lines[k + 1]  v == Append(u, l)
    <2>1. u \in Seq(CardLines) /\ l \in CardLines /\ SubSeq(lines, 1, k + 1) = v /\ k + 1 \in 0..n
      BY <1>1, PrefixMore
    <2>2. Read(s, u) = After(u)
      BY <1>4
    <2> HIDE DEF u, l
    <2>3. u \in Seq(FileLine) /\ l \in FileLine /\ l.prop \in Props
      BY <2>1, LinesAreLines, CardLineFacts
    <2>4. Read(s, v) = VCardLine(After(u), l)
      BY <1>2, <2>2, <2>3, ReadMore
    <2> DEFINE d == LastSaid(u, FnLines)  e == LastSaid(u, SipLines)  p == FirstSaid(u, TelLines)
               m == LastSaid(u, NLines)
    <2>5. VCardLine(After(u), l)
            = InCard(Contact(NameAfter(d, l), SipAfter(e, l), PhoneAfter(p, l)), FallbackAfter(m, l), people, dropped)
      <3> HIDE DEF d, e, p, m
      <3>1. After(u) = InCard(Contact(d, e, p), m, people, dropped)
        BY DEF Said, d, e, p, m
      <3>2. VCardLine(InCard(Contact(d, e, p), m, people, dropped), l)
            = InCard(Contact(NameAfter(d, l), SipAfter(e, l), PhoneAfter(p, l)), FallbackAfter(m, l), people, dropped)
        BY <2>3, LineInCard
      <3> QED
        BY <3>1, <3>2
    <2>6. /\ LastSaid(v, FnLines) = IF l \in FnLines THEN l.value ELSE d
          /\ LastSaid(v, NLines) = IF l \in NLines THEN l.value ELSE m
          /\ LastSaid(v, SipLines) = IF l \in SipLines THEN l.value ELSE e
          /\ FirstSaid(v, TelLines) = IF l \in TelLines /\ At(u, TelLines) = {} THEN l.value ELSE p
      <3>1. v = Append(u, l)
        OBVIOUS
      <3> HIDE DEF v
      <3>2. u \in Seq(CardLines) /\ l \in CardLines
        BY <2>1
      <3>3. \A W : SaysMore(v, u, l, W)
        BY <3>1, <3>2, SaidMore
      <3> QED
        BY <3>3 DEF SaysMore
    <2>7. p = "" <=> At(u, TelLines) = {}
      BY <2>1, NumberSaid
    <2> HIDE DEF d, e, p, m, v
    <2>8. /\ NameAfter(d, l) = LastSaid(v, FnLines) /\ FallbackAfter(m, l) = LastSaid(v, NLines)
          /\ SipAfter(e, l) = LastSaid(v, SipLines)
      BY <2>1, <2>6, CardLineFacts DEF NameAfter, FallbackAfter, SipAfter
    <2>9. PhoneAfter(p, l) = FirstSaid(v, TelLines)
      <3>1. CASE l \in TelLines
        BY <2>1, <2>6, <2>7, <3>1, CardLineFacts DEF PhoneAfter
      <3>2. CASE l \notin TelLines
        BY <2>1, <2>6, <3>2, CardLineFacts DEF PhoneAfter
      <3> QED
        BY <3>1, <3>2
    <2>10. Read(s, v) = After(v)
      BY <2>4, <2>5, <2>8, <2>9 DEF Said
    <2> HIDE DEF After
    <2> QED
      BY <2>1, <2>10
  <1> HIDE DEF S
  <1>5. 0..n \subseteq S
    <2> HIDE DEF n
    <2> QED
      BY <1>1, <1>3, <1>4, RangeInduction
  <1>6. n \in S
    BY <1>1, <1>5
  <1> HIDE DEF After
  <1>7. Read(s, SubSeq(lines, 1, n)) = After(SubSeq(lines, 1, n))
    BY <1>6, Zenon DEF S
  <1> QED
    BY <1>1, <1>7, Zenon DEF After, s

\* Lines outside any card are not read.
LEMMA OutsideRead ==
  ASSUME NEW s \in Parsers, ~s.inCard, NEW lines \in Seq(CardLines)
  PROVE  Read(s, lines) = s
  <1> DEFINE n == Len(lines)
             S == {k \in 0..n : Read(s, SubSeq(lines, 1, k)) = s}
  <1>1. n \in Nat /\ SubSeq(lines, 1, 0) = <<>> /\ SubSeq(lines, 1, n) = lines
    BY PrefixEnds
  <1>2. 0 \in S
    <2>1. Read(s, <<>>) = s
      BY ReadNothing
    <2>2. Read(s, SubSeq(lines, 1, 0)) = s
      BY <1>1, <2>1, Zenon
    <2> QED
      BY <1>1, <2>2
  <1>3. ASSUME NEW k \in 0..(n - 1), k \in S PROVE k + 1 \in S
    <2> DEFINE u == SubSeq(lines, 1, k)  l == lines[k + 1]
    <2>1. u \in Seq(CardLines) /\ l \in CardLines /\ SubSeq(lines, 1, k + 1) = Append(u, l) /\ k + 1 \in 0..n
      BY <1>1, PrefixMore
    <2>2. Read(s, u) = s
      BY <1>3
    <2> HIDE DEF u, l
    <2>3. u \in Seq(FileLine) /\ l \in FileLine /\ l.prop \in Props
      BY <2>1, LinesAreLines, CardLineFacts
    <2>4. Read(s, Append(u, l)) = s
      <3>1. Read(s, Append(u, l)) = VCardLine(Read(s, u), l)
        BY <2>3, ReadMore
      <3>2. VCardLine(s, l) = s
        BY <2>3, LineOutsideCard
      <3> QED
        BY <2>2, <3>1, <3>2
    <2> QED
      BY <2>1, <2>4
  <1> HIDE DEF S
  <1>4. 0..n \subseteq S
    <2> HIDE DEF n
    <2> QED
      BY <1>1, <1>2, <1>3, RangeInduction
  <1>5. n \in S
    BY <1>1, <1>4
  <1>6. Read(s, SubSeq(lines, 1, n)) = s
    BY <1>5, Zenon DEF S
  <1> QED
    BY <1>1, <1>6, Zenon

\* What the reference reads in a card is what its lines say.
LEMMA PersonSays ==
  ASSUME NEW card, card.lines \in Seq(CardLines)
  PROVE  LET lines == card.lines
         IN PersonOf(card) = IF Said(lines).displayName = ""
                             THEN Contact(LastSaid(lines, NLines), Said(lines).sipUri, Said(lines).phone)
                             ELSE Said(lines)
  <1> DEFINE lines == card.lines
  <1>1. \A i \in DOMAIN lines : lines[i] \in CardLines
    OBVIOUS
  <1>2. /\ LinesOf(card, {"FN"}) = At(lines, FnLines) /\ LinesOf(card, {"N"}) = At(lines, NLines)
        /\ {i \in LinesOf(card, {"TEL"}) : lines[i].value # "ext"} = At(lines, TelLines)
        /\ {i \in LinesOf(card, {"IMPP", "X-SIP"}) : lines[i].value # "xmpp:a"} = At(lines, SipLines)
    BY <1>1 DEF LinesOf, At, FnLines, NLines, TelLines, SipLines
  <1>3. \A W : /\ LastValue(card, At(lines, W)) = LastSaid(lines, W)
               /\ FirstValue(card, At(lines, W)) = FirstSaid(lines, W)
    BY DEF LastValue, FirstValue, LastSaid, FirstSaid
  <1> DEFINE fn == LastSaid(lines, FnLines)  n == LastSaid(lines, NLines)
             sip == LastSaid(lines, SipLines)  tel == FirstSaid(lines, TelLines)
  <1>4. PersonOf(card) = Contact(IF fn = "" THEN n ELSE fn, sip, tel)
    BY <1>2, <1>3 DEF PersonOf
  <1>5. Said(lines) = Contact(fn, sip, tel)
    BY DEF Said
  <1> HIDE DEF fn, n, sip, tel
  <1>6. Said(lines).displayName = fn /\ Said(lines).sipUri = sip /\ Said(lines).phone = tel
    BY <1>5 DEF Contact
  <1> QED
    BY <1>4, <1>5, <1>6 DEF n

\* A section is lines of a file.
LEMMA SectionTyped ==
  ASSUME NEW sec \in Sections
  PROVE  /\ sec.lines \in Seq(CardLines) /\ sec.kind \in {"card", "truncated", "outside"}
         /\ SectionLines(sec) \in Seq(FileLine)
  <1>1. sec.lines \in BoundedSeq(CardLines, MaxCardLines) \cup BoundedSeq(CardLines, 1)
        /\ sec.kind \in {"card", "truncated", "outside"}
    BY DEF Sections
  <1>2. PICK n \in (0..MaxCardLines) \cup (0..1) : sec.lines \in [1..n -> CardLines]
    BY <1>1 DEF BoundedSeq, SeqOf
  <1>3. n \in Nat
    BY <1>2, ContactsBounds
  <1>4. sec.lines \in Seq(CardLines)
    BY <1>2, <1>3
  <1>5. sec.lines \in Seq(FileLine)
    BY <1>4, LinesAreLines
  <1>6. [prop |-> "BEGIN", value |-> "VCARD"] \in FileLine /\ [prop |-> "END", value |-> "VCARD"] \in FileLine
    BY DEF FileLine, Text
  <1>7. (IF sec.kind # "outside" THEN <<[prop |-> "BEGIN", value |-> "VCARD"]>> ELSE <<>>) \in Seq(FileLine)
    BY <1>6
  <1>8. (IF sec.kind = "card" THEN <<[prop |-> "END", value |-> "VCARD"]>> ELSE <<>>) \in Seq(FileLine)
    BY <1>6
  <1> QED
    BY <1>1, <1>4, <1>5, <1>7, <1>8 DEF SectionLines

\* What a section adds to what was read before it.
Adds(t, s, sec) ==
  /\ sec.kind = "card" =>
       LET c == PersonOf(sec)
       IN /\ t.inCard = FALSE
          /\ t.contacts = IF Carries(c) THEN Append(s.contacts, c) ELSE s.contacts
          /\ t.errors = IF Carries(c) THEN s.errors ELSE s.errors + 1
  /\ sec.kind # "card" => t.contacts = s.contacts /\ t.errors = s.errors
  /\ sec.kind = "outside" => t.inCard = s.inCard

\* A section that does not belong to the card before it, read.
LEMMA SectionRead ==
  ASSUME NEW s \in Parsers, NEW sec \in Sections, sec.kind = "outside" => ~s.inCard
  PROVE  Read(s, SectionLines(sec)) \in Parsers /\ Adds(Read(s, SectionLines(sec)), s, sec)
  <1> DEFINE lines == sec.lines
             begin == [prop |-> "BEGIN", value |-> "VCARD"]
             end == [prop |-> "END", value |-> "VCARD"]
             t == Read(s, SectionLines(sec))
             people == s.contacts
             dropped == s.errors
             inside == InCard(Blank, "", people, dropped)
             read == InCard(Said(lines), LastSaid(lines, NLines), people, dropped)
  <1>1. /\ lines \in Seq(CardLines) /\ lines \in Seq(FileLine) /\ SectionLines(sec) \in Seq(FileLine)
        /\ sec.kind \in {"card", "truncated", "outside"}
    BY SectionTyped, LinesAreLines
  <1>2. begin \in FileLine /\ end \in FileLine /\ begin.prop = "BEGIN" /\ end.prop = "END"
    BY DEF FileLine, Text
  <1>3. t \in Parsers
    BY <1>1, ReadTyped
  <1>4. people \in Seq(Person) /\ dropped \in Nat
    BY ParserFields
  <1> HIDE DEF lines, begin, end
  <1>5. /\ SectionLines(sec) =
             IF sec.kind = "outside" THEN lines
             ELSE IF sec.kind = "truncated" THEN <<begin>> \o lines
             ELSE Append(<<begin>> \o lines, end)
    <2>1. (<<>> \o lines) \o <<>> = lines /\ (<<begin>> \o lines) \o <<>> = <<begin>> \o lines
          /\ (<<begin>> \o lines) \o <<end>> = Append(<<begin>> \o lines, end)
      BY <1>1, <1>2
    <2>2. SectionLines(sec) = ((IF sec.kind # "outside" THEN <<begin>> ELSE <<>>) \o lines)
                                \o (IF sec.kind = "card" THEN <<end>> ELSE <<>>)
      BY DEF SectionLines, begin, end, lines
    <2> QED
      BY <1>1, <2>1, <2>2
  <1> HIDE DEF t, people, dropped
  <1>6. CASE sec.kind = "outside"
    <2>1. t = s
      BY <1>1, <1>5, <1>6, OutsideRead DEF t
    <2> QED
      BY <1>3, <1>6, <2>1 DEF Adds, t
  <1>7. Read(s, <<begin>> \o lines) = read
    <2>1. <<begin>> \in Seq(FileLine) /\ <<>> \in Seq(FileLine) /\ <<begin>> = Append(<<>>, begin)
      BY <1>2
    <2>2. Read(s, <<>>) = s
      BY ReadNothing
    <2>3. Read(s, <<begin>>) = VCardLine(s, begin)
      <3>1. Read(s, Append(<<>>, begin)) = VCardLine(Read(s, <<>>), begin)
        BY <1>2, <2>1, ReadMore, Zenon
      <3> QED
        BY <2>1, <2>2, <3>1, Zenon
    <2>4. VCardLine(s, begin) = inside
      BY <1>2, LineOutsideCard DEF InCard, people, dropped
    <2>5. Read(s, <<begin>> \o lines) = Read(Read(s, <<begin>>), lines)
      BY <1>1, <2>1, ReadBoth
    <2>6. Read(inside, lines) = read
      BY <1>1, <1>4, CardRead
    <2> QED
      BY <2>3, <2>4, <2>5, <2>6
  <1>8. CASE sec.kind = "truncated"
    <2>1. t = read
      BY <1>5, <1>7, <1>8 DEF t
    <2>2. read.contacts = people /\ read.errors = dropped
      BY DEF InCard, Parser
    <2> QED
      BY <1>3, <1>8, <2>1, <2>2 DEF Adds, t, people, dropped
  <1>9. CASE sec.kind = "card"
    <2>1. <<begin>> \o lines \in Seq(FileLine)
      BY <1>1, <1>2
    <2>2. read \in Parsers
      BY <1>7, <2>1, ReadTyped
    <2>3. t = VCardLine(read, end)
      <3>1. Read(s, Append(<<begin>> \o lines, end)) = VCardLine(Read(s, <<begin>> \o lines), end)
        BY <1>2, <2>1, ReadMore
      <3> QED
        BY <1>5, <1>7, <1>9, <3>1 DEF t
    <2>4. /\ read.current = Said(lines) /\ read.nFallback = LastSaid(lines, NLines)
          /\ read.contacts = people /\ read.errors = dropped
      BY DEF InCard, Parser
    <2> DEFINE c == IF Said(lines).displayName = ""
                    THEN Contact(LastSaid(lines, NLines), Said(lines).sipUri, Said(lines).phone)
                    ELSE Said(lines)
               b == IF read.current.displayName = ""
                    THEN Contact(read.nFallback, read.current.sipUri, read.current.phone) ELSE read.current
    <2>5. PersonOf(sec) = c
      BY <1>1, PersonSays DEF lines
    <2> HIDE DEF read
    <2>6. VCardLine(read, end) = Parser(FALSE, b, read.nFallback,
                                        IF Carries(b) THEN Append(read.contacts, b) ELSE read.contacts,
                                        IF Carries(b) THEN read.errors ELSE read.errors + 1)
      BY <1>2, <2>2, LineOutsideCard
    <2>7. b = c
      BY <2>4
    <2> HIDE DEF b, c
    <2>8. t = Parser(FALSE, c, read.nFallback,
                     IF Carries(c) THEN Append(people, c) ELSE people,
                     IF Carries(c) THEN dropped ELSE dropped + 1)
      BY <2>3, <2>4, <2>6, <2>7
    <2>9. /\ t.inCard = FALSE
          /\ t.contacts = IF Carries(c) THEN Append(people, c) ELSE people
          /\ t.errors = IF Carries(c) THEN dropped ELSE dropped + 1
      BY <2>8 DEF Parser
    <2> QED
      BY <1>3, <1>9, <2>5, <2>9 DEF Adds, t, people, dropped
  <1> QED
    BY <1>1, <1>6, <1>8, <1>9

\* FlattenSeq, part by part.
Flattening(at, parts) ==
  at[0] = <<>> /\ \A k \in 1..Len(parts) : at[k] = at[k - 1] \o parts[k]

\* The definition of FlattenSeq in steps.
LEMMA FlattensInSteps ==
  ASSUME NEW X, NEW parts \in Seq(Seq(X))
  PROVE  \E at : Flattening(at, parts) /\ FlattenSeq(parts) = at[Len(parts)]
  <1> DEFINE n == Len(parts)
             step == [p \in (1..n) \X Seq(X) |-> p[2] \o parts[p[1]]]
             Equation(g) == g = [i \in 1..Len(parts) |-> IF i = 1 THEN parts[i] ELSE g[i - 1] \o parts[i]]
  <1>1. n \in Nat /\ \A k \in 1..n : parts[k] \in Seq(X)
    OBVIOUS
  <1>2. CASE n = 0
    <2> DEFINE at == [k \in {0} |-> <<>>]
    <2>1. parts = <<>> /\ FlattenSeq(parts) = parts
      <3>1. parts = <<>>
        BY <1>2
      <3>2. FlattenSeq(parts) = parts
        BY <1>2, Zenon DEF FlattenSeq
      <3> QED
        BY <3>1, <3>2
    <2>2. at[0] = <<>>
      OBVIOUS
    <2> HIDE DEF at
    <2>3. Flattening(at, parts)
      BY <1>2, <2>2 DEF Flattening
    <2> QED
      BY <1>2, <2>1, <2>2, <2>3
  <1>3. CASE n # 0
    <2>1. step \in [(1..n) \X Seq(X) -> Seq(X)]
      <3>1. \A p \in (1..n) \X Seq(X) : p[2] \o parts[p[1]] \in Seq(X)
        BY <1>1
      <3> QED
        BY <3>1
    <2>2. <<>> \in Seq(X)
      OBVIOUS
    <2> HIDE DEF step, n
    <2>3. PICK it : Unrolling(it, n, Seq(X), <<>>, step)
      BY <1>1, <2>1, <2>2, FoldDefined
    <2> DEFINE h == [k \in 0..n |-> it[1..k]]
    <2>4. h[0] = <<>> /\ \A k \in 0..n : h[k] \in Seq(X)
      <3>1. 1..0 = {} /\ {} \in SUBSET (1..n) /\ 0 \in 0..n /\ \A k \in 0..n : 1..k \in SUBSET (1..n)
        BY <1>1
      <3> QED
        BY <2>3, <3>1 DEF Unrolling
    <2>5. ASSUME NEW k \in 1..n PROVE h[k] = h[k - 1] \o parts[k]
      <3>1. k \in Nat \ {0} /\ k \in 0..n /\ k - 1 \in 0..n /\ 1..k \in SUBSET (1..n)
        BY <1>1
      <3>2. 1..k # {} /\ Max(1..k) = k /\ (1..k) \ {k} = 1..(k - 1)
        BY <3>1, PrefixFacts
      <3>3. it[1..k] = step[<<k, it[1..(k - 1)]>>]
        BY <2>3, <3>1, <3>2 DEF Unrolling
      <3>4. h[k - 1] \in Seq(X)
        BY <2>4, <3>1
      <3>5. step[<<k, h[k - 1]>>] = h[k - 1] \o parts[k]
        <4> DEFINE w == h[k - 1]
        <4>1. w \in Seq(X)
          BY <3>4
        <4> HIDE DEF w
        <4>2. step[<<k, w>>] = w \o parts[k]
          <5>1. <<k, w>> \in (1..n) \X Seq(X)
            BY <4>1
          <5> QED
            BY <5>1 DEF step
        <4> QED
          BY <4>2 DEF w
      <3> QED
        BY <3>1, <3>3, <3>5
    <2> HIDE DEF h
    <2> DEFINE g0 == [i \in 1..Len(parts) |-> h[i]]
    <2>6. Equation(g0)
      <3>1. ASSUME NEW i \in 1..Len(parts)
            PROVE  h[i] = IF i = 1 THEN parts[i] ELSE g0[i - 1] \o parts[i]
        <4>1. CASE i = 1
          <5>1. h[1] = h[0] \o parts[1] /\ parts[1] \in Seq(X)
            <6>1. 1 \in 1..n /\ 1 - 1 = 0
              BY <1>1, <4>1 DEF n
            <6>2. h[1] = h[1 - 1] \o parts[1]
              BY <2>5, <6>1
            <6> QED
              BY <1>1, <6>1, <6>2
          <5>2. <<>> \o parts[1] = parts[1]
            BY <5>1
          <5> QED
            BY <2>4, <4>1, <5>1, <5>2
        <4>2. CASE i # 1
          <5>1. i - 1 \in 1..Len(parts) /\ i \in 1..n
            BY <1>1, <4>2 DEF n
          <5>2. h[i] = h[i - 1] \o parts[i] /\ g0[i - 1] = h[i - 1]
            BY <2>5, <5>1
          <5> QED
            BY <4>2, <5>2
        <4> QED
          BY <4>1, <4>2
      <3> QED
        BY <3>1
    <2> DEFINE g == CHOOSE g : Equation(g)
    <2>7. Equation(g)
      <3> HIDE DEF Equation, g0
      <3> QED
        BY <2>6
    <2>8. FlattenSeq(parts) = g[Len(parts)]
      <3>1. Len(parts) # 0
        BY <1>3 DEF n
      <3> QED
        BY <3>1, Zenon DEF FlattenSeq
    <2> HIDE DEF g, g0
    <2> DEFINE at == [k \in 0..n |-> IF k = 0 THEN <<>> ELSE g[k]]
    <2>9. at[0] = <<>>
      BY <1>1
    <2>10. ASSUME NEW k \in 1..n PROVE at[k] = at[k - 1] \o parts[k]
      <3>1. k \in 0..n /\ k - 1 \in 0..n /\ k # 0 /\ k \in 1..Len(parts) /\ parts[k] \in Seq(X)
        BY <1>1 DEF n
      <3>2. g[k] = IF k = 1 THEN parts[k] ELSE g[k - 1] \o parts[k]
        BY <2>7, <3>1
      <3>3. CASE k = 1
        <4>1. at[k - 1] = <<>> /\ at[k] = parts[k]
          BY <3>1, <3>2, <3>3
        <4>2. <<>> \o parts[k] = parts[k]
          BY <3>1
        <4> QED
          BY <4>1, <4>2
      <3>4. CASE k # 1
        <4>1. at[k - 1] = g[k - 1] /\ at[k] = g[k]
          BY <3>1, <3>4
        <4> QED
          BY <3>2, <3>4, <4>1
      <3> QED
        BY <3>3, <3>4
    <2>11. at[n] = g[Len(parts)]
      BY <1>1, <1>3 DEF n
    <2> HIDE DEF at
    <2>12. Flattening(at, parts)
      BY <2>9, <2>10 DEF Flattening, n
    <2> QED
      BY <2>8, <2>11, <2>12 DEF n
  <1> QED
    BY <1>2, <1>3

\* No part.
LEMMA FlattenNothing == FlattenSeq(<<>>) = <<>>
  <1>1. Len(<<>>) = 0
    OBVIOUS
  <1> QED
    BY <1>1, Zenon DEF FlattenSeq

\* One part more.
LEMMA FlattenMore ==
  ASSUME NEW X, NEW parts \in Seq(Seq(X)), NEW part \in Seq(X), NEW more, more = Append(parts, part)
  PROVE  FlattenSeq(more) = FlattenSeq(parts) \o part
  <1> DEFINE n == Len(parts)
  <1>1. more \in Seq(Seq(X)) /\ Len(more) = n + 1 /\ n \in Nat /\ more[n + 1] = part
        /\ \A k \in 1..n : more[k] = parts[k] /\ k \in 1..(n + 1)
    OBVIOUS
  <1>2. PICK a : Flattening(a, parts) /\ FlattenSeq(parts) = a[Len(parts)]
    BY FlattensInSteps
  <1>3. PICK b : Flattening(b, more) /\ FlattenSeq(more) = b[Len(more)]
    BY <1>1, FlattensInSteps
  <1>4. Alike(n, a, b) /\ a[0] = b[0]
    BY <1>1, <1>2, <1>3 DEF Alike, Flattening
  <1>5. a[n] = b[n]
    <2> HIDE DEF n
    <2> QED
      BY <1>1, <1>4, SameSteps
  <1>6. b[n + 1] = b[n] \o part
    <2>1. n + 1 \in 1..Len(more) /\ (n + 1) - 1 = n
      BY <1>1
    <2> QED
      BY <1>1, <1>3, <2>1 DEF Flattening
  <1> QED
    BY <1>1, <1>2, <1>3, <1>5, <1>6

\* The place of i in a set of indexes.
Rank(S, i) == Cardinality({j \in S : j <= i})

\* The rows written for a list of contacts, in order.
RowsOf(people) == {NewRow(p, people[p]) : p \in DOMAIN people}

\* A list is those whom a set of indexes names, in order.
Lists(people, S, who) ==
  /\ Len(people) = Cardinality(S)
  /\ RowsOf(people) = {NewRow(Rank(S, i), who[i]) : i \in S}

\* The list of nobody, and of one more.
LEMMA ListsNobody ==
  ASSUME NEW who
  PROVE  Lists(<<>>, {}, who)
  <1>1. Cardinality({}) = 0
    BY FS_EmptySet
  <1>2. DOMAIN <<>> = {}
    OBVIOUS
  <1>3. RowsOf(<<>>) = {}
    BY <1>2 DEF RowsOf
  <1> QED
    BY <1>1, <1>3 DEF Lists

\* The list of one more.
LEMMA ListsMore ==
  ASSUME NEW k \in Nat, NEW S \in SUBSET (1..k), NEW who, NEW people \in Seq(Person),
         NEW c \in Person, c = who[k + 1], Lists(people, S, who),
         NEW more, more = Append(people, c)
  PROVE  Lists(more, S \cup {k + 1}, who)
  <1> DEFINE n == Len(people)  T == S \cup {k + 1}
  <1>1. IsFiniteSet(S) /\ k + 1 \notin S /\ \A j \in S : j \in 1..k /\ j <= k
    <2>1. IsFiniteSet(1..k) /\ k + 1 \notin 1..k /\ \A j \in 1..k : j <= k
      BY FS_Interval
    <2> QED
      BY <2>1, FS_Subset
  <1>2. Cardinality(S) = n /\ Cardinality(T) = n + 1
    BY <1>1, FS_AddElement DEF Lists
  <1>3. /\ n \in Nat /\ Len(more) = n + 1 /\ DOMAIN more = 1..(n + 1) /\ DOMAIN people = 1..n
        /\ more[n + 1] = c /\ \A p \in 1..n : more[p] = people[p]
    OBVIOUS
  <1> HIDE DEF n
  <1>4. \A i \in S : Rank(T, i) = Rank(S, i)
    <2> SUFFICES ASSUME NEW i \in S PROVE Rank(T, i) = Rank(S, i)
      OBVIOUS
    <2>1. {j \in T : j <= i} = {j \in S : j <= i}
      OBVIOUS
    <2> QED
      BY <2>1 DEF Rank
  <1>5. Rank(T, k + 1) = n + 1
    <2>1. \A j \in T : j <= k + 1
      BY <1>1
    <2>2. {j \in T : j <= k + 1} = T
      BY <2>1
    <2> QED
      BY <1>2, <2>2 DEF Rank
  <1>6. RowsOf(more) = RowsOf(people) \cup {NewRow(n + 1, c)}
    <2>1. \A p \in 1..(n + 1) : p = n + 1 \/ p \in 1..n
      BY <1>3
    <2>2. n + 1 \in 1..(n + 1) /\ \A p \in 1..n : p \in 1..(n + 1)
      BY <1>3
    <2> QED
      BY <1>3, <2>1, <2>2 DEF RowsOf
  <1>7. {NewRow(Rank(T, i), who[i]) : i \in T}
          = {NewRow(Rank(S, i), who[i]) : i \in S} \cup {NewRow(n + 1, c)}
    BY <1>4, <1>5
  <1> QED
    BY <1>2, <1>3, <1>6, <1>7 DEF Lists

-----------------------------------------------------------------------------
(* A vCard file, section by section.                                       *)

CardsTo(f, k) == {i \in 1..k : f[i].kind = "card"}
SpeakingTo(f, k) == {i \in CardsTo(f, k) : Carries(PersonOf(f[i]))}

FileStart == Parser(FALSE, Blank, "", <<>>, 0)

\* What the parser has read of the first k sections.
HasRead(t, f, k, who) ==
  /\ t \in Parsers
  /\ Lists(t.contacts, SpeakingTo(f, k), who)
  /\ t.errors = Cardinality(CardsTo(f, k) \ SpeakingTo(f, k))
  /\ t.inCard => k # 0 /\ f[k].kind = "truncated"

\* Before the first section.
LEMMA StartHasRead ==
  ASSUME NEW f, NEW who
  PROVE  HasRead(FileStart, f, 0, who)
  <1>1. /\ FileStart.inCard = FALSE /\ FileStart.contacts = <<>> /\ FileStart.errors = 0
    BY DEF FileStart, Parser
  <1>2. FileStart \in Parsers
    <2>1. <<>> \in Seq(Person) /\ 0 \in Nat /\ FALSE \in BOOLEAN /\ "" \in Text
      BY DEF Text
    <2> QED
      BY <2>1, BlankFacts, ParserMade DEF FileStart
  <1>3. CardsTo(f, 0) = {} /\ SpeakingTo(f, 0) = {} /\ CardsTo(f, 0) \ SpeakingTo(f, 0) = {}
    BY DEF CardsTo, SpeakingTo
  <1>4. Cardinality({}) = 0
    BY FS_EmptySet
  <1> HIDE DEF FileStart
  <1> QED
    BY <1>1, <1>2, <1>3, <1>4, ListsNobody DEF HasRead

\* After one section more.
LEMMA SectionHasRead ==
  ASSUME NEW n \in Nat, NEW f, \A i \in 1..n : f[i] \in Sections, NEW k \in 0..(n - 1),
         k # 0 => ~(f[k + 1].kind = "outside" /\ f[k].kind = "truncated"),
         NEW who, \A i \in 1..n : who[i] = PersonOf(f[i]),
         NEW s, HasRead(s, f, k, who)
  PROVE  HasRead(Read(s, SectionLines(f[k + 1])), f, k + 1, who)
  <1> DEFINE sec == f[k + 1]  t == Read(s, SectionLines(sec))  c == PersonOf(sec)  m == k + 1
             S == SpeakingTo(f, k)  D == CardsTo(f, k) \ S
  <1>1. m \in 1..n /\ sec \in Sections /\ s \in Parsers /\ who[m] = c /\ k \in Nat
        /\ \A i \in 1..m : i = m \/ i \in 1..k
    BY DEF HasRead
  <1>2. sec.kind \in {"card", "truncated", "outside"}
    BY <1>1, SectionTyped
  <1>3. sec.kind = "outside" => ~s.inCard
    BY DEF HasRead
  <1>4. t \in Parsers /\ Adds(t, s, sec)
    BY <1>1, <1>3, SectionRead
  <1>5. s.contacts \in Seq(Person) /\ t.contacts \in Seq(Person) /\ s.errors \in Nat
    BY <1>1, <1>4, ParserFields
  <1>6. S \in SUBSET (1..k) /\ D \in SUBSET (1..k) /\ m \notin D /\ IsFiniteSet(D) /\ s.errors = Cardinality(D)
        /\ Lists(s.contacts, S, who)
    <2>1. S \in SUBSET (1..k) /\ D \in SUBSET (1..k)
      BY DEF SpeakingTo, CardsTo
    <2>2. IsFiniteSet(1..k)
      BY <1>1, FS_Interval
    <2> QED
      BY <1>1, <2>1, <2>2, FS_Subset DEF HasRead
  <1>7. CardsTo(f, m) = IF sec.kind = "card" THEN CardsTo(f, k) \cup {m} ELSE CardsTo(f, k)
    BY <1>1 DEF CardsTo
  <1>8. SpeakingTo(f, m) = IF sec.kind = "card" /\ Carries(c) THEN S \cup {m} ELSE S
    BY <1>7 DEF SpeakingTo
  <1>9. CardsTo(f, m) \ SpeakingTo(f, m) = IF sec.kind = "card" /\ ~Carries(c) THEN D \cup {m} ELSE D
    <2>1. m \notin CardsTo(f, k) /\ m \notin S
      BY <1>1 DEF CardsTo, SpeakingTo
    <2> QED
      BY <1>7, <1>8, <2>1
  <1>10. Cardinality(D \cup {m}) = s.errors + 1
    BY <1>6, FS_AddElement
  <1>11. t.inCard => f[m].kind = "truncated"
    BY <1>2, <1>3, <1>4 DEF Adds
  <1> HIDE DEF t, c, S, D, sec
  <1>12. CASE sec.kind = "card" /\ Carries(c)
    <2>1. t.contacts = Append(s.contacts, c) /\ t.errors = s.errors
      BY <1>4, <1>12 DEF Adds, c
    <2>2. c \in Person
      <3> DEFINE u == s.contacts  q == Len(u) + 1
      <3>1. q \in 1..Len(Append(u, c)) /\ Append(u, c)[q] = c
        BY <1>5
      <3> QED
        BY <1>5, <2>1, <3>1
    <2>3. Lists(t.contacts, S \cup {m}, who)
      BY <1>1, <1>5, <1>6, <2>1, <2>2, ListsMore
    <2> QED
      BY <1>1, <1>4, <1>6, <1>8, <1>9, <1>11, <1>12, <2>1, <2>3 DEF HasRead, t, sec
  <1>13. CASE sec.kind = "card" /\ ~Carries(c)
    <2>1. t.contacts = s.contacts /\ t.errors = s.errors + 1
      BY <1>4, <1>13 DEF Adds, c
    <2> QED
      BY <1>1, <1>4, <1>6, <1>8, <1>9, <1>10, <1>11, <1>13, <2>1 DEF HasRead, t, sec
  <1>14. CASE sec.kind # "card"
    <2>1. t.contacts = s.contacts /\ t.errors = s.errors
      BY <1>4, <1>14 DEF Adds
    <2>2. SpeakingTo(f, m) = S /\ CardsTo(f, m) \ SpeakingTo(f, m) = D
      BY <1>8, <1>9, <1>14
    <2>3. Lists(t.contacts, SpeakingTo(f, m), who)
          /\ t.errors = Cardinality(CardsTo(f, m) \ SpeakingTo(f, m))
      BY <1>6, <2>1, <2>2
    <2> QED
      BY <1>1, <1>4, <1>11, <2>3 DEF HasRead, t, sec
  <1> QED
    BY <1>12, <1>13, <1>14

\* After the whole file.
LEMMA FileHasRead ==
  ASSUME NEW f \in VCardFiles
  PROVE  /\ Len(f) \in Nat /\ f \in Seq(Sections)
         /\ \E who : /\ \A i \in DOMAIN f : who[i] = PersonOf(f[i])
                     /\ HasRead(Read(FileStart, FlattenSeq([i \in DOMAIN f |-> SectionLines(f[i])])),
                                f, Len(f), who)
  <1> DEFINE n == Len(f)
             secs == [i \in DOMAIN f |-> SectionLines(f[i])]
             who == [i \in DOMAIN f |-> PersonOf(f[i])]
             Upto(k) == FlattenSeq(SubSeq(secs, 1, k))
             S == {k \in 0..n : HasRead(Read(FileStart, Upto(k)), f, k, who)}
  <1>1. f \in Seq(Sections) /\ n \in Nat
        /\ \A i \in 2..n : ~(f[i].kind = "outside" /\ f[i - 1].kind = "truncated")
    <2>1. f \in BoundedSeq(Sections, MaxSections)
          /\ \A i \in 2..n : ~(f[i].kind = "outside" /\ f[i - 1].kind = "truncated")
      BY DEF VCardFiles
    <2>2. PICK m \in 0..MaxSections : f \in [1..m -> Sections]
      BY <2>1 DEF BoundedSeq, SeqOf
    <2>3. m \in Nat
      BY <2>2, ContactsBounds
    <2>4. f \in Seq(Sections)
      BY <2>2, <2>3
    <2> QED
      BY <2>1, <2>4
  <1>2. DOMAIN f = 1..n /\ \A i \in 1..n : f[i] \in Sections
    BY <1>1
  <1>3. \A i \in 1..n : SectionLines(f[i]) \in Seq(FileLine)
    BY <1>2, SectionTyped
  <1>4. secs \in [1..n -> Seq(FileLine)]
    BY <1>2, <1>3
  <1>5. secs \in Seq(Seq(FileLine)) /\ Len(secs) = n /\ \A i \in 1..n : secs[i] = SectionLines(f[i])
    <2>1. \A i \in 1..n : secs[i] = SectionLines(f[i])
      BY <1>2
    <2> HIDE DEF secs, n
    <2> QED
      BY <1>1, <1>4, <2>1
  <1>6. SubSeq(secs, 1, 0) = <<>> /\ SubSeq(secs, 1, n) = secs
    <2> HIDE DEF secs
    <2> QED
      BY <1>5, PrefixEnds
  <1>7. \A i \in 1..n : who[i] = PersonOf(f[i])
    BY <1>2
  <1> HIDE DEF secs, who
  <1>8. FileStart \in Parsers
    BY StartHasRead DEF HasRead
  <1>9. <<>> \in Seq(FileLine) /\ FlattenSeq(<<>>) = <<>>
    BY FlattenNothing
  <1>10. \A k \in 0..n : Upto(k) \in Seq(FileLine)
    <2> DEFINE K == {k \in 0..n : Upto(k) \in Seq(FileLine)}
    <2>1. 0 \in K
      <3>1. Upto(0) \in Seq(FileLine)
        BY <1>6, <1>9, Zenon
      <3> QED
        BY <1>1, <3>1
    <2>2. ASSUME NEW k \in 0..(n - 1), k \in K PROVE k + 1 \in K
      <3> DEFINE u == SubSeq(secs, 1, k)  l == secs[k + 1]  v == SubSeq(secs, 1, k + 1)
      <3>1. u \in Seq(Seq(FileLine)) /\ l \in Seq(FileLine) /\ v = Append(u, l) /\ k + 1 \in 0..n
        BY <1>1, <1>5, PrefixMore
      <3>2. FlattenSeq(u) \in Seq(FileLine)
        BY <2>2
      <3> HIDE DEF u, l, v
      <3>3. FlattenSeq(v) = FlattenSeq(u) \o l
        BY <3>1, FlattenMore
      <3>4. FlattenSeq(v) \in Seq(FileLine)
        BY <3>1, <3>2, <3>3
      <3> QED
        BY <3>1, <3>4 DEF v
    <2> HIDE DEF K
    <2>3. 0..n \subseteq K
      <3> HIDE DEF n
      <3> QED
        BY <1>1, <2>1, <2>2, RangeInduction
    <2> QED
      BY <2>3 DEF K
  <1>11. 0 \in S
    <2>1. Read(FileStart, <<>>) = FileStart
      BY <1>8, ReadNothing
    <2>2. Read(FileStart, Upto(0)) = FileStart
      BY <1>6, <1>9, <2>1, Zenon
    <2>3. HasRead(FileStart, f, 0, who)
      BY StartHasRead
    <2> QED
      BY <1>1, <2>2, <2>3
  <1>12. ASSUME NEW k \in 0..(n - 1), k \in S PROVE k + 1 \in S
    <2> DEFINE u == SubSeq(secs, 1, k)  l == secs[k + 1]  v == SubSeq(secs, 1, k + 1)
               s == Read(FileStart, FlattenSeq(u))
    <2>1. u \in Seq(Seq(FileLine)) /\ l \in Seq(FileLine) /\ v = Append(u, l) /\ k + 1 \in 0..n
          /\ k + 1 \in 1..n /\ k \in 0..n /\ l = SectionLines(f[k + 1])
      BY <1>1, <1>5, PrefixMore
    <2>2. HasRead(s, f, k, who)
      BY <1>12
    <2>3. FlattenSeq(u) \in Seq(FileLine)
      BY <1>10, <2>1
    <2> HIDE DEF u, l, v
    <2>4. FlattenSeq(v) = FlattenSeq(u) \o l
      BY <2>1, FlattenMore
    <2>5. Read(FileStart, FlattenSeq(v)) = Read(s, l)
      BY <1>8, <2>1, <2>3, <2>4, ReadBoth
    <2>6. k # 0 => ~(f[k + 1].kind = "outside" /\ f[k].kind = "truncated")
      <3>1. k # 0 => k + 1 \in 2..n /\ (k + 1) - 1 = k
        BY <1>1
      <3> QED
        BY <1>1, <3>1
    <2> HIDE DEF s
    <2>7. HasRead(Read(s, SectionLines(f[k + 1])), f, k + 1, who)
      <3> HIDE DEF n
      <3> QED
        BY <1>1, <1>2, <1>7, <2>2, <2>6, SectionHasRead
    <2>8. HasRead(Read(FileStart, FlattenSeq(v)), f, k + 1, who)
      BY <2>1, <2>5, <2>7
    <2> QED
      BY <2>1, <2>8 DEF v
  <1> HIDE DEF S
  <1>13. 0..n \subseteq S
    <2> HIDE DEF n
    <2> QED
      BY <1>1, <1>11, <1>12, RangeInduction
  <1>14. n \in S
    BY <1>1, <1>13
  <1>15. HasRead(Read(FileStart, FlattenSeq(SubSeq(secs, 1, n))), f, n, who)
    BY <1>14, Zenon DEF S
  <1>16. HasRead(Read(FileStart, FlattenSeq(secs)), f, n, who)
    BY <1>6, <1>15, Zenon
  <1> QED
    BY <1>1, <1>2, <1>7, <1>16 DEF secs

-----------------------------------------------------------------------------
(* A CSV file, row by row.                                                 *)

CsvCells == {"", "1", "ext"}
CsvLine == Seq(CsvCells) \ {<<>>}
CsvStates == [contacts : Seq(Person), errors : Nat]
CsvStart == [contacts |-> <<>>, errors |-> 0]

\* What a row adds: one contact or one drop, unless it is blank.
RowAdds(t, s, row) ==
  /\ t \in CsvStates
  /\ Len(t.contacts) + t.errors
       = Len(s.contacts) + s.errors + IF row = <<"">> THEN 0 ELSE 1

\* A row read.
LEMMA RowRead ==
  ASSUME NEW header, NEW s \in CsvStates, NEW row \in Seq(CsvCells)
  PROVE  RowAdds(CsvRow(header, s, row), s, row)
  <1> DEFINE name == Cell(header, row, "name")
             first == Cell(header, row, "first")  last == Cell(header, row, "last")
             sip == Cell(header, row, "sip")  phone == Cell(header, row, "phone")
             c == Contact(IF name = "" THEN FullName(first, last) ELSE name, sip, SanitizePhone(phone))
  <1>1. \A h : Cell(header, row, h) \in CsvCells
    <2> SUFFICES ASSUME NEW h PROVE Cell(header, row, h) \in CsvCells
      OBVIOUS
    <2> DEFINE col == FindColumn(header, h)
    <2>1. Cell(header, row, h) = IF col \in DOMAIN row THEN row[col] ELSE ""
      BY Zenon DEF Cell
    <2> HIDE DEF col
    <2>2. "" \in CsvCells
      BY DEF CsvCells
    <2>3. \A i \in DOMAIN row : row[i] \in CsvCells
      OBVIOUS
    <2> QED
      BY <2>1, <2>2, <2>3
  <1>2. /\ name \in CsvCells /\ first \in CsvCells /\ last \in CsvCells
        /\ sip \in CsvCells /\ phone \in CsvCells
    BY <1>1
  <1>3. CsvRow(header, s, row) = IF row = <<"">> THEN s
                                 ELSE IF Carries(c) THEN [s EXCEPT !.contacts = Append(@, c)]
                                 ELSE [s EXCEPT !.errors = @ + 1]
    BY Zenon DEF CsvRow
  <1>4. c \in Person
    <2> HIDE DEF name, first, last, sip, phone
    <2>1. FullName(first, last) \in Text /\ name \in Text /\ sip \in Text /\ SanitizePhone(phone) \in Text
      BY <1>2 DEF FullName, SanitizePhone, CsvCells, Text
    <2> QED
      BY <2>1, PersonMade
  <1> DEFINE blank == row = <<"">>  people == s.contacts  dropped == s.errors  more == Append(people, c)
             t == CsvRow(header, s, row)
  <1>5. /\ people \in Seq(Person) /\ dropped \in Nat /\ s = [contacts |-> people, errors |-> dropped]
        /\ blank \in BOOLEAN
    BY DEF CsvStates
  <1>6. more \in Seq(Person) /\ Len(more) = Len(people) + 1 /\ Len(people) \in Nat
    <2> HIDE DEF c, people
    <2> QED
      BY <1>4, <1>5
  <1>7. t = IF blank THEN s ELSE IF Carries(c) THEN [s EXCEPT !.contacts = more] ELSE [s EXCEPT !.errors = dropped + 1]
    BY <1>3
  <1>8. /\ [s EXCEPT !.contacts = more] = [contacts |-> more, errors |-> dropped]
        /\ [s EXCEPT !.errors = dropped + 1] = [contacts |-> people, errors |-> dropped + 1]
    <2> HIDE DEF people, dropped, more
    <2> QED
      BY <1>5
  <1> HIDE DEF c, blank, people, dropped, more, t
  <1>9. t = [contacts |-> IF ~blank /\ Carries(c) THEN more ELSE people,
             errors |-> IF ~blank /\ ~Carries(c) THEN dropped + 1 ELSE dropped]
    BY <1>5, <1>7, <1>8
  <1>10. /\ t \in CsvStates
         /\ Len(t.contacts) + t.errors = Len(people) + dropped + IF blank THEN 0 ELSE 1
    <2>1. CASE blank
      BY <1>5, <1>6, <1>9, <2>1 DEF CsvStates
    <2>2. CASE ~blank /\ Carries(c)
      <3>1. t = [contacts |-> more, errors |-> dropped]
        BY <1>9, <2>2
      <3>2. t.contacts = more /\ t.errors = dropped /\ t \in CsvStates
        BY <1>5, <1>6, <3>1 DEF CsvStates
      <3>3. Len(t.contacts) + t.errors = Len(people) + dropped + 1
        BY <1>5, <1>6, <3>2
      <3> QED
        BY <2>2, <3>2, <3>3
    <2>3. CASE ~blank /\ ~Carries(c)
      <3>1. t = [contacts |-> people, errors |-> dropped + 1]
        BY <1>9, <2>3
      <3> QED
        BY <1>5, <1>6, <2>3, <3>1 DEF CsvStates
    <2> QED
      BY <2>1, <2>2, <2>3
  <1> QED
    BY <1>10 DEF RowAdds, t, people, dropped, blank

\* parseCsv's loop, row by row.
RowsReading(at, header, rows) ==
  /\ at[0] = CsvStart
  /\ \A k \in 1..Len(rows) : at[k] = CsvRow(header, at[k - 1], rows[k])

\* The fold of parseCsv's loop in steps.
LEMMA CsvInSteps ==
  ASSUME NEW header, NEW rows \in Seq(Seq(CsvCells))
  PROVE  \E at : RowsReading(at, header, rows) /\ ParseCsv(header, rows) = at[Len(rows)]
  <1> DEFINE n == Len(rows)
             step == [p \in (1..n) \X CsvStates |-> CsvRow(header, p[2], rows[p[1]])]
             Equation(it) == it = [x \in SUBSET DOMAIN rows |->
                               IF x = {} THEN [contacts |-> <<>>, errors |-> 0]
                               ELSE CsvRow(header, it[x \ {Max(x)}], rows[Max(x)])]
  <1>1. n \in Nat /\ DOMAIN rows = 1..n /\ \A k \in 1..n : rows[k] \in Seq(CsvCells)
    OBVIOUS
  <1>2. step \in [(1..n) \X CsvStates -> CsvStates]
    <2>1. \A p \in (1..n) \X CsvStates : CsvRow(header, p[2], rows[p[1]]) \in CsvStates
      BY <1>1, RowRead DEF RowAdds
    <2> QED
      BY <2>1
  <1>3. CsvStart \in CsvStates /\ CsvStart = [contacts |-> <<>>, errors |-> 0]
    BY DEF CsvStates, CsvStart
  <1>4. \E it : Equation(it)
    <2> HIDE DEF step, n
    <2>1. PICK it : Unrolling(it, n, CsvStates, CsvStart, step)
      BY <1>1, <1>2, <1>3, FoldDefined
    <2>2. /\ it \in [SUBSET (1..n) -> CsvStates]
          /\ \A x \in SUBSET (1..n) : it[x] = IF x = {} THEN CsvStart ELSE step[<<Max(x), it[x \ {Max(x)}]>>]
      BY <2>1 DEF Unrolling
    <2>3. ASSUME NEW x \in SUBSET (1..n), x # {}
          PROVE  step[<<Max(x), it[x \ {Max(x)}]>>] = CsvRow(header, it[x \ {Max(x)}], rows[Max(x)])
      <3>1. x \in SUBSET (0..n)
        OBVIOUS
      <3>2. Max(x) \in x
        BY <1>1, <2>3, <3>1, MaxFacts
      <3>3. Max(x) \in 1..n /\ x \ {Max(x)} \in SUBSET (1..n)
        BY <3>2
      <3>4. it[x \ {Max(x)}] \in CsvStates
        BY <2>2, <3>3
      <3> QED
        BY <3>3, <3>4 DEF step
    <2>4. it = [x \in SUBSET DOMAIN rows |->
                  IF x = {} THEN [contacts |-> <<>>, errors |-> 0]
                  ELSE CsvRow(header, it[x \ {Max(x)}], rows[Max(x)])]
      BY <1>1, <1>3, <2>2, <2>3
    <2> QED
      BY <2>4
  <1> DEFINE it == CHOOSE it : Equation(it)
  <1>5. Equation(it)
    <2> HIDE DEF Equation
    <2> QED
      BY <1>4
  <1>6. ParseCsv(header, rows) = it[DOMAIN rows]
    BY Zenon DEF ParseCsv, FoldLeft, MapThenFoldSet
  <1> HIDE DEF it, n, step
  <1> DEFINE at == [k \in 0..n |-> it[1..k]]
  <1>7. at[0] = CsvStart
    <2>1. 1..0 = {} /\ {} \in SUBSET DOMAIN rows /\ 0 \in 0..n
      BY <1>1
    <2> QED
      BY <1>3, <1>5, <2>1
  <1>8. ASSUME NEW k \in 1..n PROVE at[k] = CsvRow(header, at[k - 1], rows[k])
    <2>1. k \in Nat \ {0} /\ k \in 0..n /\ k - 1 \in 0..n /\ 1..k \in SUBSET DOMAIN rows
      BY <1>1
    <2>2. 1..k # {} /\ Max(1..k) = k /\ (1..k) \ {k} = 1..(k - 1)
      BY <2>1, PrefixFacts
    <2>3. it[1..k] = CsvRow(header, it[1..(k - 1)], rows[k])
      BY <1>5, <2>1, <2>2
    <2> QED
      BY <2>1, <2>3
  <1>9. ParseCsv(header, rows) = at[n]
    BY <1>1, <1>6
  <1> HIDE DEF at
  <1> QED
    BY <1>7, <1>8, <1>9 DEF n, RowsReading

\* One contact or one drop per row that is not blank.
LEMMA CsvCounted ==
  ASSUME NEW header, NEW rows \in Seq(Seq(CsvCells))
  PROVE  LET result == ParseCsv(header, rows)
         IN /\ result \in CsvStates
            /\ Len(result.contacts) + result.errors
                 = Cardinality({i \in DOMAIN rows : rows[i] # <<"">>})
  <1> DEFINE n == Len(rows)
             Filled(k) == {i \in 1..k : rows[i] # <<"">>}
  <1>1. n \in Nat /\ DOMAIN rows = 1..n /\ \A k \in 1..n : rows[k] \in Seq(CsvCells)
    OBVIOUS
  <1>2. PICK at : RowsReading(at, header, rows) /\ ParseCsv(header, rows) = at[Len(rows)]
    BY CsvInSteps
  <1> DEFINE S == {k \in 0..n : at[k] \in CsvStates
                                /\ Len(at[k].contacts) + at[k].errors = Cardinality(Filled(k))}
  <1>3. 0 \in S
    <2>1. CsvStart \in CsvStates /\ Len(CsvStart.contacts) = 0 /\ CsvStart.errors = 0
      BY DEF CsvStates, CsvStart
    <2>2. Filled(0) = {} /\ Cardinality({}) = 0
      BY FS_EmptySet
    <2>3. at[0] = CsvStart
      BY <1>2 DEF RowsReading
    <2> HIDE DEF Filled
    <2> DEFINE z == at[0]  none == Filled(0)
    <2>4. z \in CsvStates /\ Len(z.contacts) + z.errors = Cardinality(none)
      <3>1. z = CsvStart /\ none = {}
        BY <2>2, <2>3
      <3> HIDE DEF z, none
      <3>2. Cardinality(none) = 0
        BY <2>2, <3>1
      <3> QED
        BY <2>1, <3>1, <3>2
    <2> QED
      BY <1>1, <2>4
  <1>4. ASSUME NEW k \in 0..(n - 1), k \in S PROVE k + 1 \in S
    <2> DEFINE s == at[k]  row == rows[k + 1]  t == at[k + 1]
    <2>1. k + 1 \in 1..n /\ k + 1 \in 0..n /\ row \in Seq(CsvCells) /\ (k + 1) - 1 = k /\ k \in Nat
      BY <1>1
    <2>2. t = CsvRow(header, s, row)
      BY <1>2, <2>1 DEF RowsReading
    <2>3. s \in CsvStates /\ Len(s.contacts) + s.errors = Cardinality(Filled(k))
      BY <1>4
    <2> HIDE DEF s, row, t
    <2>4. t \in CsvStates /\ Len(t.contacts) + t.errors
                              = Len(s.contacts) + s.errors + IF row = <<"">> THEN 0 ELSE 1
      BY <2>1, <2>2, <2>3, RowRead DEF RowAdds
    <2>5. Filled(k + 1) = IF row = <<"">> THEN Filled(k) ELSE Filled(k) \cup {k + 1}
      <3>1. \A i \in 1..(k + 1) : i = k + 1 \/ i \in 1..k
        BY <2>1
      <3>2. k + 1 \in 1..(k + 1) /\ \A i \in 1..k : i \in 1..(k + 1)
        BY <2>1
      <3> QED
        BY <3>1, <3>2 DEF row
    <2>6. IsFiniteSet(Filled(k)) /\ k + 1 \notin Filled(k)
      <3>1. k + 1 \notin 1..k
        BY <2>1
      <3>3. Filled(k) \in SUBSET (1..k)
        OBVIOUS
      <3>2. IsFiniteSet(1..k)
        BY <2>1, FS_Interval
      <3> HIDE DEF Filled
      <3> QED
        BY <3>1, <3>2, <3>3, FS_Subset
    <2> HIDE DEF Filled
    <2>7. Cardinality(Filled(k) \cup {k + 1}) = Cardinality(Filled(k)) + 1 /\ Cardinality(Filled(k)) \in Nat
      BY <2>6, FS_AddElement, FS_CardinalityType
    <2>8. Len(t.contacts) + t.errors = Cardinality(Filled(k + 1))
      <3> DEFINE blank == row = <<"">>  more == Filled(k + 1)  before == Filled(k)  x == k + 1
      <3>1. (blank => more = before) /\ (~blank => more = before \cup {x})
        BY <2>5
      <3>2. /\ Cardinality(before \cup {x}) = Cardinality(before) + 1 /\ Cardinality(before) \in Nat
            /\ Len(t.contacts) + t.errors = Cardinality(before) + IF blank THEN 0 ELSE 1
        BY <2>3, <2>4, <2>7
      <3> HIDE DEF blank, more, before, x
      <3>3. Len(t.contacts) + t.errors = Cardinality(more)
        <4>1. CASE blank
          BY <3>1, <3>2, <4>1
        <4>2. CASE ~blank
          BY <3>1, <3>2, <4>2
        <4> QED
          BY <4>1, <4>2
      <3> QED
        BY <3>3 DEF more
    <2> QED
      BY <2>1, <2>4, <2>8 DEF t
  <1> HIDE DEF S
  <1>5. 0..n \subseteq S
    <2> HIDE DEF n
    <2> QED
      BY <1>1, <1>3, <1>4, RangeInduction
  <1>6. n \in S
    BY <1>1, <1>5
  <1> QED
    BY <1>1, <1>2, <1>6 DEF S

-----------------------------------------------------------------------------
(* The import writes its result, row after row.                            *)

\* All of the contacts, in order.
LEMMA AllAdded ==
  ASSUME NEW people \in Seq(Person)
  PROVE  /\ {NewRow(Cardinality({j \in DOMAIN people : j <= i}), people[i]) : i \in DOMAIN people}
              = RowsOf(people)
         /\ Cardinality(RowsOf(people)) = Len(people)
  <1> DEFINE n == Len(people)  P == DOMAIN people
  <1>1. n \in Nat /\ P = 1..n
    OBVIOUS
  <1>2. \A i \in P : Cardinality({j \in P : j <= i}) = i
    <2> SUFFICES ASSUME NEW i \in P PROVE Cardinality({j \in P : j <= i}) = i
      OBVIOUS
    <2>1. {j \in P : j <= i} = 1..i /\ i \in Nat \ {0}
      BY <1>1
    <2>2. Cardinality(1..i) = i
      BY <2>1, FS_Interval
    <2> QED
      BY <2>1, <2>2
  <1>3. {NewRow(Cardinality({j \in P : j <= i}), people[i]) : i \in P} = RowsOf(people)
    BY <1>2 DEF RowsOf
  <1> DEFINE rows == RowsOf(people)  g == [i \in P |-> NewRow(i, people[i])]
  <1>4. g \in Bijection(P, rows)
    <2>1. g \in [P -> rows] /\ \A r \in rows : \E i \in P : g[i] = r
      BY DEF RowsOf
    <2>2. \A i, k \in P : g[i] = g[k] => i = k
      <3>1. \A i \in P : g[i].id = i
        BY DEF NewRow
      <3> QED
        BY <3>1
    <2> QED
      BY <2>1, <2>2 DEF Bijection, Injection, Surjection, IsInjective
  <1>5. IsFiniteSet(P) /\ Cardinality(P) = n
    BY <1>1, FS_Interval
  <1> HIDE DEF P, rows, g, n
  <1>6. Cardinality(rows) = Cardinality(P)
    BY <1>4, <1>5, FS_Bijection DEF ExistsBijection
  <1> QED
    BY <1>3, <1>5, <1>6 DEF P, rows, n

\* An import of a vCard file that wrote everything is faithful to the file.
LEMMA VCardFaithful ==
  ASSUME NEW f \in VCardFiles, ImportVCard(f), ~lastImport'.failed
  PROVE  ImportFaithful'
  <1> DEFINE lines == FlattenSeq([i \in DOMAIN f |-> SectionLines(f[i])])
             result == ParseVCard(lines)
             t == Read(FileStart, lines)
             people == t.contacts
  <1>1. PICK who : /\ \A i \in DOMAIN f : who[i] = PersonOf(f[i])
                   /\ HasRead(t, f, Len(f), who)
    BY FileHasRead
  <1>2. Len(f) \in Nat /\ f \in Seq(Sections) /\ DOMAIN f = 1..Len(f)
    BY FileHasRead
  <1>3. result.contacts = people /\ result.errors = t.errors
    BY DEF ParseVCard, Read, FileStart, Parser
  <1>4. people \in Seq(Person)
    BY <1>1, ParserFields DEF HasRead
  <1> HIDE DEF result, t, lines
  <1>5. /\ contacts' = {NewRow(Cardinality({j \in DOMAIN people : j <= i}), people[i]) : i \in DOMAIN people}
        /\ lastImport'.kind = "vcf" /\ lastImport'.file = f /\ lastImport'.dropped = t.errors
    <2>1. ImportFromFile("vcf", f, result)
      BY DEF ImportVCard, result, lines
    <2>2. PICK added \in SUBSET DOMAIN result.contacts :
            /\ contacts' = {NewRow(Cardinality({j \in added : j <= i}), result.contacts[i]) : i \in added}
            /\ lastImport' = [kind |-> "vcf", file |-> f, dropped |-> result.errors,
                              failed |-> added # DOMAIN result.contacts]
      BY <2>1 DEF ImportFromFile
    <2>3. lastImport'.failed = (added # DOMAIN result.contacts)
      BY <2>2
    <2>4. added = DOMAIN people
      BY <1>3, <2>3
    <2>5. contacts' = {NewRow(Cardinality({j \in DOMAIN people : j <= i}), people[i]) : i \in DOMAIN people}
      BY <1>3, <2>2, <2>4
    <2> QED
      BY <1>3, <2>2, <2>5
  <1>6. contacts' = RowsOf(people)
    <2> HIDE DEF people
    <2> QED
      BY <1>4, <1>5, AllAdded
  <1>7. CardsTo(f, Len(f)) = Cards(f) /\ SpeakingTo(f, Len(f)) = Speaking(f)
    BY <1>2 DEF CardsTo, SpeakingTo, Cards, Speaking
  <1>8. /\ RowsOf(people) = {NewRow(Rank(Speaking(f), i), who[i]) : i \in Speaking(f)}
        /\ t.errors = Cardinality(Cards(f) \ Speaking(f))
    BY <1>1, <1>7 DEF HasRead, Lists
  <1>9. {NewRow(Rank(Speaking(f), i), who[i]) : i \in Speaking(f)}
          = {NewRow(Cardinality({j \in Speaking(f) : j <= i}), PersonOf(f[i])) : i \in Speaking(f)}
    <2>1. \A i \in Speaking(f) : who[i] = PersonOf(f[i])
      BY <1>1 DEF Speaking, Cards
    <2> QED
      BY <2>1 DEF Rank
  <1>10. contacts' = {NewRow(Cardinality({j \in Speaking(f) : j <= i}), PersonOf(f[i])) : i \in Speaking(f)}
    BY <1>6, <1>8, <1>9
  <1> QED
    BY <1>5, <1>8, <1>10 DEF ImportFaithful

\* An import of a CSV file that wrote everything accounts for each of its lines.
LEMMA CsvFaithful ==
  ASSUME NEW f \in CsvFiles, ImportCsv(f), ~lastImport'.failed
  PROVE  ImportFaithful'
  <1> DEFINE result == ParseCsv(f.header, f.rows)
             people == result.contacts
  <1>1. f.rows \in Seq(Seq(CsvCells))
    <2>1. f.rows \in BoundedSeq(BoundedSeq({"", "1", "ext"}, MaxColumns) \ {<<>>}, MaxSections)
      BY DEF CsvFiles
    <2>2. PICK m \in 0..MaxSections : f.rows \in [1..m -> BoundedSeq({"", "1", "ext"}, MaxColumns) \ {<<>>}]
      BY <2>1 DEF BoundedSeq, SeqOf
    <2>3. ASSUME NEW row \in BoundedSeq(CsvCells, MaxColumns) PROVE row \in Seq(CsvCells)
      <3>1. PICK w \in 0..MaxColumns : row \in [1..w -> CsvCells]
        BY DEF BoundedSeq, SeqOf
      <3>2. w \in Nat
        BY <3>1, ContactsBounds
      <3> QED
        BY <3>1, <3>2
    <2>4. \A i \in 1..m : f.rows[i] \in Seq(CsvCells)
      BY <2>2, <2>3 DEF CsvCells
    <2>5. m \in Nat
      <3>1. m \in 0..MaxSections
        BY <2>2
      <3> QED
        BY <3>1, ContactsBounds
    <2>6. f.rows \in [1..m -> Seq(CsvCells)]
      BY <2>2, <2>4
    <2> QED
      BY <2>5, <2>6
  <1>2. /\ result \in CsvStates
        /\ Len(people) + result.errors = Cardinality({i \in DOMAIN f.rows : f.rows[i] # <<"">>})
    BY <1>1, CsvCounted
  <1>3. people \in Seq(Person) /\ result.errors \in Nat
    BY <1>2 DEF CsvStates
  <1> HIDE DEF result
  <1>4. /\ contacts' = {NewRow(Cardinality({j \in DOMAIN people : j <= i}), people[i]) : i \in DOMAIN people}
        /\ lastImport'.kind = "csv" /\ lastImport'.file = f /\ lastImport'.dropped = result.errors
    <2>1. ImportFromFile("csv", f, result)
      BY DEF ImportCsv, result
    <2>2. PICK added \in SUBSET DOMAIN result.contacts :
            /\ contacts' = {NewRow(Cardinality({j \in added : j <= i}), result.contacts[i]) : i \in added}
            /\ lastImport' = [kind |-> "csv", file |-> f, dropped |-> result.errors,
                              failed |-> added # DOMAIN result.contacts]
      BY <2>1 DEF ImportFromFile
    <2>3. lastImport'.failed = (added # DOMAIN result.contacts)
      BY <2>2
    <2>4. added = DOMAIN people
      BY <2>3
    <2> QED
      BY <2>2, <2>4
  <1>5. Cardinality(contacts') = Len(people)
    <2> HIDE DEF people
    <2> QED
      BY <1>3, <1>4, AllAdded
  <1>6. Cardinality(contacts') + result.errors = Cardinality({i \in DOMAIN f.rows : f.rows[i] # <<"">>})
    BY <1>2, <1>5
  <1> QED
    BY <1>4, <1>6 DEF ImportFaithful

-----------------------------------------------------------------------------

\* The list on screen is the table after every operation, and an import no
\* insert of which failed wrote what the file says.
THEOREM ContactsAreSound == ContactsSpec => []ContactsSound
  <1>1. ContactsInit => ContactsSound
    BY DEF ContactsInit, ContactsSound
  <1>2. ContactsSound /\ [ContactsNext]_contactsVars => ContactsSound'
    <2> SUFFICES ASSUME ContactsSound, [ContactsNext]_contactsVars PROVE ContactsSound'
      OBVIOUS
    <2>1. CASE UNCHANGED contactsVars
      BY <2>1 DEF contactsVars, ContactsSound, ImportFaithful
    <2>2. ASSUME NEW c \in EditedContacts, AddContact(c) PROVE ContactsSound'
      BY <2>2 DEF AddContact, RefreshContacts, ContactsSound
    <2>3. ASSUME NEW id \in 1..MaxContacts, RemoveContact(id) PROVE ContactsSound'
      BY <2>3 DEF RemoveContact, RefreshContacts, ContactsSound
    <2>4. ASSUME NEW id \in 1..MaxContacts, NEW c \in EditedContacts, UpdateContact(id, c) PROVE ContactsSound'
      BY <2>4 DEF UpdateContact, UpdateRow, RefreshContacts, ContactsSound
    <2>5. ASSUME NEW id \in 1..MaxContacts, NEW b \in BOOLEAN, SetFavorite(id, b) PROVE ContactsSound'
      BY <2>5 DEF SetFavorite, UpdateRow, RefreshContacts, ContactsSound
    <2>6. ASSUME NEW kind, NEW file, NEW result, MayImport, ImportFromFile(kind, file, result)
          PROVE  shownContacts' = contacts'
      <3>1. contacts = {} /\ shownContacts = {}
        BY <2>6 DEF MayImport, ContactsSound
      <3> QED
        BY <2>6, <3>1 DEF ImportFromFile, RefreshContacts
    <2>7. ASSUME MayImport, NEW f \in VCardFiles, ImportVCard(f) PROVE ContactsSound'
      <3>1. shownContacts' = contacts'
        BY <2>6, <2>7 DEF ImportVCard
      <3>2. lastImport'.failed \/ ImportFaithful'
        BY <2>7, VCardFaithful
      <3> QED
        BY <3>1, <3>2 DEF ContactsSound
    <2>8. ASSUME MayImport, NEW f \in CsvFiles, ImportCsv(f) PROVE ContactsSound'
      <3>1. shownContacts' = contacts'
        BY <2>6, <2>8 DEF ImportCsv
      <3>2. lastImport'.failed \/ ImportFaithful'
        BY <2>8, CsvFaithful
      <3> QED
        BY <3>1, <3>2 DEF ContactsSound
    <2> QED
      BY <2>1, <2>2, <2>3, <2>4, <2>5, <2>7, <2>8 DEF ContactsNext
  <1> QED
    BY <1>1, <1>2, PTL DEF ContactsSpec

=============================================================================
