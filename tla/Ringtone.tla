----------------------------- MODULE Ringtone -----------------------------
(***************************************************************************)
(* The ringtone: SettingsController decides when it sounds and with which  *)
(* file, SettingsManager keeps both choices, PjsipBackend loops the file   *)
(* on the playback device.  Everything runs on the main thread; the stack  *)
(* may refuse any step.                                                    *)
(***************************************************************************)
EXTENDS Naturals

CONSTANTS
  RingtoneFiles,    \* WAV files the user may choose
  MaxTests          \* bound: testRingtone() timers pending at a time

ASSUME RingtoneAssumption == MaxTests \in Nat /\ "ringtone.wav" \notin RingtoneFiles

defaultRingtonePath == "ringtone.wav"
RingtonePaths == RingtoneFiles \cup {defaultRingtonePath}

VARIABLES
  ringtoneEnabled, ringtonePath, ringing,   \* SettingsController
  testTimers,                               \* singleShot timers of testRingtone
  settingsTable,                            \* app_settings
  tone,              \* PjsipBackend: m_ringtonePlaying, Path and Player, and whether
                     \* the player is connected to the playback device: the sound
  refused,           \* history: the last playRingtone returned false
  stopRefused        \* history: the stack refused the last stopRingtone, and no
                     \* ringtone was started since

ringtoneVars == <<ringtoneEnabled, ringtonePath, ringing, testTimers,
                  settingsTable, tone, refused, stopRefused>>

Silent == [playing |-> FALSE, path |-> "", player |-> "none", connected |-> FALSE]

RingtoneInit ==
  /\ ringtoneEnabled = TRUE /\ ringtonePath = defaultRingtonePath
  /\ ringing = FALSE /\ testTimers = 0
  /\ settingsTable = [enabled |-> TRUE, path |-> defaultRingtonePath]
  /\ tone = Silent
  /\ refused = FALSE /\ stopRefused = FALSE

-----------------------------------------------------------------------------
(* PjsipBackend.  An outcome is the player afterwards and the result.      *)

\* The transmission starts, with a player that was created, or is refused.
StartTransmit(t) ==
  {[tone |-> t, ok |-> FALSE]}
    \cup IF t.player = "created"
         THEN {[tone |-> [t EXCEPT !.playing = TRUE, !.connected = TRUE], ok |-> TRUE]}
         ELSE {}

\* A new player takes the place of the old one, whose connection goes with it,
\* before its file is opened: when that fails the new player is kept, with the path
\* of the old one.
CreatePlayer(t, path) ==
  {[tone |-> [t EXCEPT !.player = "failed", !.connected = FALSE], ok |-> FALSE]}
    \cup StartTransmit([t EXCEPT !.player = "created", !.path = path, !.connected = FALSE])

Stopped(t) == [t EXCEPT !.playing = FALSE, !.connected = FALSE]

\* Mutant: a ringtone that plays is left alone, whatever its file.
PlayUnlessPlaying(path) ==
  IF tone.playing THEN {[tone |-> tone, ok |-> TRUE]}
  ELSE IF tone.player = "none" \/ tone.path # path THEN CreatePlayer(tone, path)
  ELSE StartTransmit(tone)

\* playRingtone: idempotent for the file that plays; another one is stopped
\* first, which the stack may refuse.
PlayRingtone(path) ==
  IF tone.playing /\ tone.path = path THEN {[tone |-> tone, ok |-> TRUE]}
  ELSE LET stopped == IF tone.playing THEN Stopped(tone) ELSE tone
       IN (IF tone.playing THEN {[tone |-> tone, ok |-> FALSE]} ELSE {})
            \cup IF tone.player = "none" \/ tone.path # path
                 THEN CreatePlayer(stopped, path)
                 ELSE StartTransmit(stopped)

\* stopRingtone: nothing without the flag.  When the stack refuses, the flag is
\* cleared anyway, and the player stays connected.
StopRingtone ==
  IF ~tone.playing THEN {[tone |-> tone, ok |-> TRUE]}
  ELSE {[tone |-> Stopped(tone), ok |-> TRUE], [tone |-> [tone EXCEPT !.playing = FALSE], ok |-> FALSE]}

-----------------------------------------------------------------------------
(* SettingsController.                                                     *)

\* set(): a write that fails leaves the stored value.
Store(key, value) == settingsTable' \in {settingsTable, [settingsTable EXCEPT ![key] = value]}

Play(path) ==
  \E outcome \in PlayRingtone(path) :
    /\ tone' = outcome.tone /\ refused' = ~outcome.ok
    /\ stopRefused' = (stopRefused /\ ~outcome.ok)

Stop ==
  \E outcome \in StopRingtone :
    /\ tone' = outcome.tone /\ refused' = FALSE
    /\ stopRefused' = IF tone.playing THEN ~outcome.ok ELSE stopRefused

\* applyRingtoneState, after the members have been assigned.
ApplyRingtoneState ==
  IF ringtoneEnabled' /\ ringing' THEN Play(ringtonePath')
  ELSE Stop

SetRingtoneEnabled(enabled) ==
  /\ ringtoneEnabled # enabled
  /\ ringtoneEnabled' = enabled
  /\ Store("enabled", enabled)
  /\ UNCHANGED <<ringtonePath, ringing, testTimers>>
  /\ ApplyRingtoneState

\* setRingtonePath: a file that does not exist gives the default; choosing the
\* same path again only stores it.
SetRingtonePath(p) ==
  \E path \in {p, defaultRingtonePath} :
    /\ Store("path", path)
    /\ ringtonePath' = path
    /\ UNCHANGED <<ringtoneEnabled, ringing, testTimers>>
    /\ IF path = ringtonePath THEN UNCHANGED <<tone, refused, stopRefused>> ELSE ApplyRingtoneState

SetRinging(r) ==
  /\ ringing # r
  /\ ringing' = r
  /\ UNCHANGED <<ringtoneEnabled, ringtonePath, testTimers, settingsTable>>
  /\ ApplyRingtoneState

\* testRingtone plays whatever the settings say and arms a timer.
TestRingtone ==
  /\ testTimers < MaxTests
  /\ testTimers' = testTimers + 1
  /\ Play(ringtonePath)
  /\ UNCHANGED <<ringtoneEnabled, ringtonePath, ringing, settingsTable>>

TestTimerFires ==
  /\ testTimers > 0
  /\ testTimers' = testTimers - 1
  /\ UNCHANGED <<ringtoneEnabled, ringtonePath, ringing, settingsTable>>
  /\ ApplyRingtoneState

\* ensureLoaded: the table as read, or nothing when it cannot be read.
Loaded == {settingsTable, [enabled |-> TRUE, path |-> defaultRingtonePath]}

\* The program is started again; a stored file that is gone gives the default.
RestartRingtone ==
  /\ \E settings \in Loaded :
       /\ ringtoneEnabled' = settings.enabled
       /\ ringtonePath' \in {settings.path, defaultRingtonePath}
  /\ ringing' = FALSE /\ testTimers' = 0
  /\ tone' = Silent /\ refused' = FALSE /\ stopRefused' = FALSE
  /\ UNCHANGED settingsTable

RingtoneNext ==
  \/ \E b \in BOOLEAN : SetRingtoneEnabled(b) \/ SetRinging(b)
  \/ \E p \in RingtonePaths : SetRingtonePath(p)
  \/ TestRingtone \/ TestTimerFires \/ RestartRingtone

-----------------------------------------------------------------------------
(* Properties.                                                             *)

\* Whatever is toggled, chosen or tried out while calls come and go: once no
\* test is running the phone sounds only for a ringing call with the ringtone
\* on, or because the stack refused to stop the ringtone started last; and it does
\* sound for a ringing call, with the file of the settings, unless the stack refused
\* the last attempt (applyRingtoneState, playRingtone, stopRingtone).
RingtoneFollowsCalls ==
  /\ tone.connected /\ testTimers = 0 => (ringtoneEnabled /\ ringing) \/ stopRefused
  /\ ringtoneEnabled /\ ringing /\ ~refused => tone.connected /\ tone.path = ringtonePath

=============================================================================
