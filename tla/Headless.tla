------------------------------ MODULE Headless ------------------------------
(***************************************************************************)
(* HeadlessRunner: registers its accounts, places one call or waits for    *)
(* calls, plays a file into them, and exits after a call or a while.       *)
(*                                                                         *)
(* Registration states and call events reach the runner one event-loop     *)
(* turn after their signal (QueuedConnection); incoming calls at once.     *)
(* Its timers are one-shot and fire after everything queued before them,   *)
(* which the model does not need: they may fire at any time.               *)
(***************************************************************************)
EXTENDS Naturals, Sequences, FiniteSets

CONSTANTS
  HeadlessCalls,     \* bound: ids of calls, in the order they begin
  MaxRetries         \* startPlaybackWhenReady tries again so many times

ASSUME HeadlessAssumption == HeadlessCalls \in Nat /\ MaxRetries \in Nat

VARIABLES
  options,           \* what the BootConfig asks for
  runner,            \* "running", or the code the event loop was told to exit with
  reg,               \* the one account's registration state
  callTimeout,       \* the 30 s timer: "off", "armed", "fired"
  posted,             \* queued registration states and call events
  m_outboundPlaced, m_activeCallId, m_sawCall,
  lines,             \* the calls of CallManager: id -> state
  playing,           \* calls with a file player
  retries            \* calls waiting for another try at playing -> tries left

headlessVars == <<options, runner, reg, callTimeout, posted, m_outboundPlaced, m_activeCallId,
                  m_sawCall, lines, playing, retries>>

NoCallId == 0
InLoop == "running"
Options == [call : BOOLEAN, autoAnswer : BOOLEAN, exitAfterCall : BOOLEAN,
            duration : BOOLEAN, playFile : BOOLEAN]

\* start(): without accounts, without the play file, the database or the engine it
\* returns before anything is wired; otherwise the accounts are registering.
HeadlessInit ==
  /\ options \in Options
  /\ runner = InLoop /\ reg = "Registering" /\ posted = <<>>
  /\ callTimeout = IF options.call THEN "armed" ELSE "off"
  /\ m_outboundPlaced = FALSE /\ m_activeCallId = NoCallId /\ m_sawCall = FALSE
  /\ lines = <<>> /\ playing = {} /\ retries = <<>>

Up(id) == id \in DOMAIN lines /\ lines[id] # "Disconnected"

\* QCoreApplication::exit: the first code given counts, the loop ends.
ExitWith(code) == runner' = code

\* AccountsManager's registrationStateChanged, queued by wireCallbacks.
RegistrationChanges(state) ==
  /\ runner = InLoop /\ state # reg
  /\ Len(posted) < HeadlessCalls
  /\ reg' = state
  /\ posted' = Append(posted, [kind |-> "reg", id |-> NoCallId, state |-> state])
  /\ UNCHANGED <<options, runner, callTimeout, m_outboundPlaced, m_activeCallId, m_sawCall,
                 lines, playing, retries>>

\* Mutant: a call that was placed does not count as seen.
PlaceUnseen(ok) ==
  LET id == IF ok THEN Len(lines) + 1 ELSE NoCallId
  IN /\ m_outboundPlaced' = TRUE /\ m_activeCallId' = id
     /\ lines' = IF ok THEN Append(lines, "Calling") ELSE lines
     /\ IF ok THEN UNCHANGED runner ELSE ExitWith("3")
     /\ UNCHANGED m_sawCall

\* The first registration places the call, whichever account it is of.
PlaceCall(ok) ==
  LET id == IF ok THEN Len(lines) + 1 ELSE NoCallId
  IN /\ m_outboundPlaced' = TRUE /\ m_activeCallId' = id
     /\ lines' = IF ok THEN Append(lines, "Calling") ELSE lines
     /\ IF ok THEN m_sawCall' = TRUE /\ UNCHANGED runner
        ELSE ExitWith("3") /\ UNCHANGED m_sawCall

\* onRegistrationState, with makeCall succeeding or failing.
OnRegistrationState(ok) ==
  /\ runner = InLoop /\ posted # <<>> /\ Head(posted).kind = "reg"
  /\ posted' = Tail(posted)
  /\ IF Head(posted).state = "Registered" /\ options.call /\ ~m_outboundPlaced
     THEN (ok => Len(lines) < HeadlessCalls) /\ PlaceCall(ok)
     ELSE UNCHANGED <<runner, m_outboundPlaced, m_activeCallId, m_sawCall, lines>>
  /\ UNCHANGED <<options, reg, callTimeout, playing, retries>>

\* A call arrives and CallManager reports it at once; accept() is taken to work.
OnIncomingCall ==
  /\ runner = InLoop /\ Len(lines) < HeadlessCalls - (IF options.call /\ ~m_outboundPlaced THEN 1 ELSE 0)
  /\ lines' = Append(lines, IF options.autoAnswer THEN "Answering" ELSE "Incoming")
  /\ m_activeCallId' = Len(lines) + 1 /\ m_sawCall' = TRUE
  /\ UNCHANGED <<options, runner, reg, callTimeout, posted, m_outboundPlaced, playing, retries>>

\* The stack's call events; a call nobody answers is given up by its caller.
CallChanges(id, state) ==
  /\ runner = InLoop /\ Up(id)
  /\ state = "Confirmed" => lines[id] \in {"Calling", "Answering"}
  /\ lines' = [lines EXCEPT ![id] = state]
  /\ posted' = Append(posted, [kind |-> "call", id |-> id, state |-> state])
  /\ playing' = IF state = "Disconnected" THEN playing \ {id} ELSE playing
  /\ UNCHANGED <<options, runner, reg, callTimeout, m_outboundPlaced, m_activeCallId, m_sawCall, retries>>

\* startPlaybackWhenReady(id, left): playAudioFile fails until the call has media.
StartPlaybackWhenReady(id, left, ready) ==
  LET others == [c \in DOMAIN retries \ {id} |-> retries[c]]
  IN IF ~options.playFile \/ id \in playing
     THEN retries' = others /\ UNCHANGED playing
     ELSE IF ready
     THEN Up(id) /\ playing' = playing \cup {id} /\ retries' = others
     ELSE /\ retries' = IF left = 0 THEN others
                        ELSE [c \in DOMAIN others \cup {id} |-> IF c = id THEN left - 1 ELSE others[c]]
          /\ UNCHANGED playing

\* onCallEvent: any call that ends is the end, once one was seen.
OnCallEvent(ready) ==
  LET e == Head(posted)
  IN /\ runner = InLoop /\ posted # <<>> /\ e.kind = "call"
     /\ posted' = Tail(posted)
     /\ IF e.state = "Confirmed"
        THEN /\ m_activeCallId' = e.id /\ m_sawCall' = TRUE
             /\ StartPlaybackWhenReady(e.id, MaxRetries, ready)
             /\ UNCHANGED runner
        ELSE /\ m_activeCallId' = IF e.id = m_activeCallId THEN NoCallId ELSE m_activeCallId
             /\ IF options.exitAfterCall /\ m_sawCall THEN ExitWith("0") ELSE UNCHANGED runner
             /\ UNCHANGED <<m_sawCall, playing, retries>>
     /\ UNCHANGED <<options, reg, callTimeout, m_outboundPlaced, lines>>

\* The 400 ms timer of a failed try.
RetryPlayback(id, ready) ==
  /\ runner = InLoop /\ id \in DOMAIN retries
  /\ StartPlaybackWhenReady(id, retries[id], ready)
  /\ UNCHANGED <<options, runner, reg, callTimeout, posted, m_outboundPlaced, m_activeCallId, m_sawCall,
                 lines>>

\* The timer that gives registration 30 s; it looks once.
CallTimeout ==
  /\ runner = InLoop /\ callTimeout = "armed"
  /\ callTimeout' = "fired"
  /\ IF ~m_outboundPlaced /\ m_activeCallId = NoCallId THEN ExitWith("3") ELSE UNCHANGED runner
  /\ UNCHANGED <<options, reg, posted, m_outboundPlaced, m_activeCallId, m_sawCall, lines,
                 playing, retries>>

\* The duration asked for has elapsed.
DurationElapsed ==
  /\ runner = InLoop /\ options.duration
  /\ ExitWith("0")
  /\ UNCHANGED <<options, reg, callTimeout, posted, m_outboundPlaced, m_activeCallId, m_sawCall,
                 lines, playing, retries>>

HeadlessNext ==
  \/ \E s \in {"Registered", "Failed", "Registering"} : RegistrationChanges(s)
  \/ \E ok \in BOOLEAN : OnRegistrationState(ok) \/ OnCallEvent(ok)
  \/ OnIncomingCall
  \/ \E id \in DOMAIN lines, s \in {"Confirmed", "Disconnected"} : CallChanges(id, s)
  \/ \E id \in DOMAIN retries, ready \in BOOLEAN : RetryPlayback(id, ready)
  \/ CallTimeout \/ DurationElapsed

\* The event loop delivers what is queued and its timers fire; calls end.
HeadlessFairness ==
  /\ WF_headlessVars(\E ok \in BOOLEAN : OnRegistrationState(ok))
  /\ WF_headlessVars(\E ok \in BOOLEAN : OnCallEvent(ok))
  /\ WF_headlessVars(CallTimeout) /\ WF_headlessVars(DurationElapsed)
  /\ WF_headlessVars(\E id \in DOMAIN lines : CallChanges(id, "Disconnected"))

-----------------------------------------------------------------------------
\* The runner does not hang: with --exit-after-call any call, placed or received,
\* answered or not, ends the run; and a call that was to be placed is placed, or the
\* run ends for want of a registration, unless an incoming call has come first
\* (HeadlessRunner::start, onRegistrationState, onCallEvent).
HeadlessEnds ==
  /\ (options.exitAfterCall /\ lines # <<>>) ~> (runner # InLoop)
  /\ options.call ~> (runner # InLoop \/ m_outboundPlaced \/ m_sawCall)
=============================================================================
