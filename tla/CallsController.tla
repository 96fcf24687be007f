-------------------------- MODULE CallsController --------------------------
(***************************************************************************)
(* CallsController: what the user sees and what happens to an incoming     *)
(* call without the user.  It runs on the Qt main thread on top of         *)
(* CallManager, whose records, signals and commands are modelled here as   *)
(* far as the controller observes them (hold, transfers and conferences    *)
(* are in CallManager).                                                    *)
(*                                                                         *)
(* One FIFO, the main thread's event queue, holds both the stack's events  *)
(* for CallManager and the controller's own queued callEvent lambdas: a    *)
(* lambda runs after events that were queued before it was, so it looks at *)
(* records that may have moved on.                                         *)
(***************************************************************************)
EXTENDS Integers, Sequences, FiniteSets

CONSTANTS
  MaxCalls,        \* bound: call ids minted
  MaxQueue,        \* bound: queued events when the stack posts another
  MaxToggles,      \* bound: changes of the settings
  Targets,         \* normalised dial targets
  Features,        \* the settings that may be switched on
  BackendErrors    \* the stack may refuse a command

ASSUME BoundsAssumption == MaxCalls \in Nat
ASSUME FeaturesAssumption ==
  Features \subseteq {"dnd", "cfwdAlways", "cfwdBusy", "autoAnswer", "cfwdNoAnswer"}
ASSUME ErrorsAssumption == BackendErrors \in BOOLEAN

CallIds == 1..MaxCalls
kInvalidCallId == 0    \* -1 in the code
NoTarget == "none"

VARIABLES
  m_records,       \* CallManager: id -> state of the live record
  m_lingeringCalls, \* CallManager: ids of ended calls still shown
  inbound,         \* ids whose direction is Inbound
  identified,      \* ids whose remote URI is not empty
  queue            \* the main thread's event queue

VARIABLES
  m_currentCallId,
  m_incomingCallId,
  m_ringing,
  m_callState,
  sessions,        \* CallSessionTracker::m_sessions
  connected,       \* sessions with connected = true
  dialedTarget,    \* id -> Session::dialedTarget
  answerTimers,    \* ids with an armed auto-answer timer
  noAnswerTimers,  \* ids with an armed forward-on-no-answer timer
  settings,        \* the settings that are on
  toggles

VARIABLES
  nextCallId,
  inv,             \* the stack's INVITE session state
  answered,        \* inbound sessions answered with 200
  ended,           \* how the stack was asked to end a session: "no", "dropped"
                   \* (declined or hung up) or "forwarded"
  everConfirmed,   \* history: sessions that reached Confirmed
  rows             \* call_history: id -> rows, each TRUE when it has talk time

managerVars == <<m_records, m_lingeringCalls, inbound, identified>>
sessionVars == <<sessions, connected, dialedTarget>>
timerVars == <<answerTimers, noAnswerTimers>>
settingVars == <<settings, toggles>>
stackVars == <<nextCallId, inv, answered, ended, everConfirmed>>
vars == <<managerVars, queue, m_currentCallId, m_incomingCallId, m_ringing,
          m_callState, sessionVars, timerVars, settingVars, stackVars, rows>>

Init ==
  /\ m_records = [c \in CallIds |-> "Absent"]
  /\ m_lingeringCalls = {} /\ inbound = {} /\ identified = {} /\ queue = <<>>
  /\ m_currentCallId = kInvalidCallId /\ m_incomingCallId = kInvalidCallId
  /\ m_ringing = FALSE /\ m_callState = "idle"
  /\ sessions = {} /\ connected = {}
  /\ dialedTarget = [c \in CallIds |-> NoTarget]
  /\ answerTimers = {} /\ noAnswerTimers = {}
  /\ settings \in SUBSET Features /\ toggles = 0
  /\ nextCallId = 1
  /\ inv = [c \in CallIds |-> "none"]
  /\ answered = {} /\ ended = [c \in CallIds |-> "no"] /\ everConfirmed = {}
  /\ rows = [c \in CallIds |-> <<>>]

Live == {c \in CallIds : m_records[c] # "Absent"}

CallEvent(c, st) == [type |-> "callEvent", call |-> c, st |-> st]

\* snapshotIsRinging and aggregateCallState, of a set of records.
IsRinging(records) ==
  \E c \in CallIds :
    records[c] = "Calling" \/ (c \notin inbound /\ records[c] = "EarlyMedia")

Shown == [Calling |-> "calling", EarlyMedia |-> "early", Confirmed |-> "active",
          Disconnected |-> "ended"]

AggregateCallState(fallback) ==
  LET states == {m_records[c] : c \in Live}
  IN  Shown[IF "Confirmed" \in states THEN "Confirmed"
            ELSE IF "EarlyMedia" \in states THEN "EarlyMedia"
            ELSE IF "Calling" \in states THEN "Calling" ELSE fallback]

-----------------------------------------------------------------------------
(* Commands of CallManager, as the stack takes them.                       *)

\* A session still up that nothing has ended yet.
Up(c) == inv[c] \in {"Calling", "EarlyMedia", "Confirmed"} /\ ended[c] = "no"

Outcomes(possible) ==
  {b \in BOOLEAN : b => possible} \ (IF possible /\ ~BackendErrors THEN {FALSE} ELSE {})

\* decline(486), forwardCall(302) and hangup of call c, answered with ok.
EndSession(c, why, ok) ==
  /\ ok \in Outcomes(c \in Live /\ Up(c))
  /\ ended' = IF ok THEN [ended EXCEPT ![c] = why] ELSE ended

\* accept(c), answered with ok.
AnswerSession(c, ok) ==
  /\ ok \in Outcomes(c \in Live /\ c \in inbound /\ inv[c] = "Calling" /\ Up(c))
  /\ answered' = IF ok THEN answered \cup {c} ELSE answered

-----------------------------------------------------------------------------
(* What the user does.                                                     *)

\* Mutant: only a call that is still being set up blocks a second dial.
HasUnansweredOutboundTo(target) ==
  \E c \in sessions \ connected : dialedTarget[c] = target

\* CallSessionTracker::hasLiveOutboundTo
HasLiveOutboundTo(target) == \E c \in sessions : dialedTarget[c] = target

\* The sessions after a dial the stack refused: noteOutbound is skipped.
NotedAfterRefusal == sessions

\* dial(uri): the stack reports CALLING from inside makeCall, queued.
Dial(target) ==
  /\ ~HasLiveOutboundTo(target)
  /\ \/ /\ nextCallId \in CallIds
        /\ nextCallId' = nextCallId + 1
        /\ m_records' = [m_records EXCEPT ![nextCallId] = "Calling"]
        /\ identified' = identified \cup {nextCallId}
        /\ inv' = [inv EXCEPT ![nextCallId] = "Calling"]
        /\ queue' = Append(queue, [type |-> "state", call |-> nextCallId, st |-> "Calling"])
        /\ m_currentCallId' = nextCallId
        /\ sessions' = sessions \cup {nextCallId}
        /\ dialedTarget' = [dialedTarget EXCEPT ![nextCallId] = target]
     \/ /\ BackendErrors
        /\ m_currentCallId' = kInvalidCallId
        /\ sessions' = NotedAfterRefusal
        /\ UNCHANGED <<nextCallId, m_records, identified, inv, queue, dialedTarget>>
  /\ UNCHANGED <<m_lingeringCalls, inbound, m_incomingCallId, m_ringing,
                 m_callState, connected, timerVars, settingVars, answered, ended, everConfirmed, rows>>

Hangup(c) ==
  /\ c \in Live
  /\ \E ok \in BOOLEAN : EndSession(c, "dropped", ok)
  /\ UNCHANGED <<managerVars, queue, m_currentCallId, m_incomingCallId,
                 m_ringing, m_callState, sessionVars, timerVars, settingVars,
                 nextCallId, inv, answered, everConfirmed, rows>>

\* Mutant: the prompt for the answered call is not taken down.
AcceptKeepingPrompt ==
  /\ m_incomingCallId # kInvalidCallId
  /\ \E ok \in BOOLEAN : AnswerSession(m_incomingCallId, ok)
  /\ UNCHANGED <<managerVars, queue, m_currentCallId, m_incomingCallId, m_ringing,
                 m_callState, sessionVars, timerVars, settingVars, nextCallId,
                 inv, ended, everConfirmed, rows>>

\* acceptIncoming and declineIncoming act on whatever call the prompt is for.
AcceptIncoming ==
  /\ m_incomingCallId # kInvalidCallId
  /\ \E ok \in BOOLEAN :
       /\ AnswerSession(m_incomingCallId, ok)
       /\ m_incomingCallId' = IF ok THEN kInvalidCallId ELSE m_incomingCallId
       /\ m_ringing' = IF ok THEN IsRinging(m_records) ELSE m_ringing
  /\ UNCHANGED <<managerVars, queue, m_currentCallId, m_callState, sessionVars,
                 timerVars, settingVars, nextCallId, inv, ended, everConfirmed,
                 rows>>

DeclineIncoming ==
  /\ m_incomingCallId # kInvalidCallId
  /\ \E ok \in BOOLEAN :
       /\ EndSession(m_incomingCallId, "dropped", ok)
       /\ m_incomingCallId' = IF ok THEN kInvalidCallId ELSE m_incomingCallId
       /\ m_ringing' = IF ok THEN IsRinging(m_records) ELSE m_ringing
  /\ UNCHANGED <<managerVars, queue, m_currentCallId, m_callState, sessionVars,
                 timerVars, settingVars, nextCallId, inv, answered,
                 everConfirmed, rows>>

ToggleSetting(feature) ==
  /\ toggles < MaxToggles
  /\ toggles' = toggles + 1
  /\ settings' = IF feature \in settings THEN settings \ {feature}
                 ELSE settings \cup {feature}
  /\ UNCHANGED <<managerVars, queue, m_currentCallId, m_incomingCallId,
                 m_ringing, m_callState, sessionVars, timerVars, stackVars,
                 rows>>

-----------------------------------------------------------------------------
(* Incoming calls.                                                         *)

\* The first policy of the handler's precedence that applies to call c, with
\* `count' live records, c included.
Policy(count) ==
  IF "dnd" \in settings THEN "decline"
  ELSE IF "cfwdAlways" \in settings THEN "forward"
  ELSE IF "cfwdBusy" \in settings /\ count > 1 THEN "forward"
  ELSE IF "autoAnswer" \in settings THEN "autoAnswer"
  ELSE IF "cfwdNoAnswer" \in settings THEN "noAnswer"
  ELSE "ring"

\* CallManager::onIncomingCall and, from its signals, the controller's
\* callsChanged and incomingCall handlers: the ringtone and the prompt start
\* before any policy is looked at.
OnIncomingCall ==
  /\ queue # <<>>
  /\ Head(queue).type = "incoming"
  /\ LET c == Head(queue).call
         policy == Policy(Cardinality(Live \cup {c}))
         why == IF policy = "decline" THEN "dropped" ELSE "forwarded"
     IN  /\ m_records' = [m_records EXCEPT ![c] = "Calling"]
         /\ queue' = Append(Tail(queue), CallEvent(c, "Calling"))
         /\ m_incomingCallId' = c
         /\ sessions' = sessions \cup {c}
         /\ answerTimers' = IF policy = "autoAnswer" THEN answerTimers \cup {c} ELSE answerTimers
         /\ noAnswerTimers' = IF policy = "noAnswer" THEN noAnswerTimers \cup {c} ELSE noAnswerTimers
         /\ IF policy \in {"decline", "forward"}
            THEN \E ok \in Outcomes(Up(c)) :
                   ended' = IF ok THEN [ended EXCEPT ![c] = why] ELSE ended
            ELSE UNCHANGED ended
  /\ m_ringing' = TRUE
  /\ UNCHANGED <<m_lingeringCalls, inbound, identified, m_currentCallId,
                 m_callState, connected, dialedTarget, settingVars, nextCallId, inv, answered,
                 everConfirmed, rows>>

\* The auto-answer timer: accept() if the prompt is still for this call.  The
\* prompt stays up until the call ends.
AutoAnswerFires(c) ==
  /\ c \in answerTimers
  /\ answerTimers' = answerTimers \ {c}
  /\ \/ /\ m_incomingCallId = c
        /\ \E ok \in BOOLEAN : AnswerSession(c, ok)
     \/ m_incomingCallId # c /\ UNCHANGED answered
  /\ UNCHANGED <<managerVars, queue, m_currentCallId, m_incomingCallId,
                 m_ringing, m_callState, sessionVars, noAnswerTimers,
                 settingVars, nextCallId, inv, ended, everConfirmed, rows>>

\* The forward-on-no-answer timer.
NoAnswerFires(c) ==
  /\ c \in noAnswerTimers
  /\ noAnswerTimers' = noAnswerTimers \ {c}
  /\ \/ /\ m_incomingCallId = c
        /\ \E ok \in BOOLEAN : EndSession(c, "forwarded", ok)
     \/ m_incomingCallId # c /\ UNCHANGED ended
  /\ UNCHANGED <<managerVars, queue, m_currentCallId, m_incomingCallId,
                 m_ringing, m_callState, sessionVars, answerTimers,
                 settingVars, nextCallId, inv, answered, everConfirmed, rows>>

-----------------------------------------------------------------------------
(* Call states.                                                            *)

\* CallManager::onCallState with the callsChanged handler.
OnCallState ==
  /\ queue # <<>>
  /\ Head(queue).type = "state"
  /\ LET e == Head(queue)
     IN  \/ /\ e.call \notin Live
            /\ queue' = Tail(queue)
            /\ UNCHANGED <<m_records, m_lingeringCalls, m_currentCallId, m_ringing>>
         \/ /\ e.call \in Live
            /\ e.st # "Disconnected"
            /\ m_records' = [m_records EXCEPT ![e.call] = e.st]
            /\ queue' = Append(Tail(queue), CallEvent(e.call, e.st))
            /\ UNCHANGED <<m_lingeringCalls, m_currentCallId, m_ringing>>
         \/ /\ e.call \in Live
            /\ e.st = "Disconnected"
            /\ m_records' = [m_records EXCEPT ![e.call] = "Absent"]
            /\ m_lingeringCalls' = m_lingeringCalls \cup {e.call}
            /\ queue' = Append(Tail(queue), CallEvent(e.call, e.st))
            /\ m_currentCallId' = IF Live = {e.call} THEN kInvalidCallId ELSE m_currentCallId
            /\ m_ringing' = IsRinging([m_records EXCEPT ![e.call] = "Absent"])
  /\ UNCHANGED <<inbound, identified, m_incomingCallId, m_callState,
                 sessionVars, timerVars, settingVars, stackVars, rows>>

\* The linger timer: CallManager::eraseLingering, with the callsChanged handler
\* it triggers.
LingerExpires(c) ==
  /\ c \in m_lingeringCalls
  /\ m_lingeringCalls' = m_lingeringCalls \ {c}
  /\ m_currentCallId' = IF Live = {} THEN kInvalidCallId ELSE m_currentCallId
  /\ m_ringing' = IsRinging(m_records)
  /\ UNCHANGED <<m_records, inbound, identified, queue, m_incomingCallId,
                 m_callState, sessionVars, timerVars, settingVars, stackVars,
                 rows>>

\* Mutant: a session is only forgotten once it has been logged.
ForgottenIfLogged(c) == IF c \in identified THEN {c} ELSE {}

\* The sessions noteState(Disconnected) erases.
Forgotten(c) == {c}

\* Mutant: a call is logged whenever it ends or is answered.
LoggedOnConfirm(c, st) == st \in {"Confirmed", "Disconnected"} /\ c \in identified

\* noteState yields a history entry: the end of a call with an account and a
\* remote URI.
Logged(c, st) == st = "Disconnected" /\ c \in identified

\* Mutant: ringing is looked at again only when a call ends.
RingingUntilEnd(st) == IF st = "Disconnected" THEN IsRinging(m_records) ELSE m_ringing

\* publishRingingState at the end of the handler.
RingingAfterEvent(st) == IsRinging(m_records)

\* Mutant: the prompt is taken down by the answer instead of the end.
PromptUntilAnswered(c, st) ==
  IF st = "Confirmed" /\ m_incomingCallId = c THEN kInvalidCallId ELSE m_incomingCallId

\* The prompt goes when its call ends.
PromptAfter(c, st) ==
  IF st = "Disconnected" /\ m_incomingCallId = c THEN kInvalidCallId ELSE m_incomingCallId

\* The controller's queued callEvent handler, CallSessionTracker::noteState
\* and HistoryManager::append included.
OnCallEvent ==
  /\ queue # <<>>
  /\ Head(queue).type = "callEvent"
  /\ LET c == Head(queue).call
         st == Head(queue).st
         over == st = "Disconnected"
     IN  /\ sessions' = IF over THEN sessions \ Forgotten(c) ELSE sessions \cup {c}
         /\ connected' = IF over THEN connected \ {c}
                         ELSE IF st = "Confirmed" THEN connected \cup {c} ELSE connected
         /\ rows' = IF Logged(c, st) THEN [rows EXCEPT ![c] = Append(@, c \in connected)]
                    ELSE rows
         /\ m_currentCallId' = IF over /\ m_currentCallId = c THEN kInvalidCallId
                               ELSE m_currentCallId
         /\ m_incomingCallId' = PromptAfter(c, st)
         /\ dialedTarget' = IF over THEN [dialedTarget EXCEPT ![c] = NoTarget]
                            ELSE dialedTarget
         /\ m_callState' = AggregateCallState(st)
         /\ m_ringing' = RingingAfterEvent(st)
  /\ queue' = Tail(queue)
  /\ UNCHANGED <<managerVars, timerVars, settingVars, stackVars>>

-----------------------------------------------------------------------------
(* The stack and the far end.                                              *)

\* wrapIncomingCall; an unreadable remote identity is announced as empty.
StackIncomingCall ==
  /\ nextCallId \in CallIds
  /\ Len(queue) < MaxQueue
  /\ nextCallId' = nextCallId + 1
  /\ inbound' = inbound \cup {nextCallId}
  /\ identified' \in {identified, identified \cup {nextCallId}}
  /\ inv' = [inv EXCEPT ![nextCallId] = "Calling"]
  /\ queue' = Append(queue, [type |-> "incoming", call |-> nextCallId])
  /\ UNCHANGED <<m_records, m_lingeringCalls, m_currentCallId, m_incomingCallId,
                 m_ringing, m_callState, sessionVars, timerVars, settingVars,
                 answered, ended, everConfirmed, rows>>

StateAfter(c) ==
  CASE inv[c] = "Calling" ->
         IF c \in inbound
         THEN {"Disconnected"} \cup (IF c \in answered THEN {"Confirmed"} ELSE {})
         ELSE {"EarlyMedia", "Confirmed", "Disconnected"}
    [] inv[c] = "EarlyMedia" -> {"Confirmed", "Disconnected"}
    [] inv[c] = "Confirmed" -> {"Disconnected"}
    [] OTHER -> {}

\* PjsipCall::onCallState; a session asked to end is not confirmed any more.
StackCallState(c, st) ==
  /\ st \in StateAfter(c)
  /\ ended[c] # "no" => st = "Disconnected"
  /\ Len(queue) < MaxQueue
  /\ inv' = [inv EXCEPT ![c] = st]
  /\ everConfirmed' = IF st = "Confirmed" THEN everConfirmed \cup {c} ELSE everConfirmed
  /\ queue' = Append(queue, [type |-> "state", call |-> c, st |-> st])
  /\ UNCHANGED <<managerVars, m_currentCallId, m_incomingCallId, m_ringing,
                 m_callState, sessionVars, timerVars, settingVars, nextCallId,
                 answered, ended, rows>>

-----------------------------------------------------------------------------
Next ==
  \/ \E t \in Targets : Dial(t)
  \/ AcceptIncoming \/ DeclineIncoming
  \/ \E f \in Features : ToggleSetting(f)
  \/ OnIncomingCall \/ OnCallState \/ OnCallEvent \/ StackIncomingCall
  \/ \E c \in CallIds :
       \/ Hangup(c) \/ AutoAnswerFires(c) \/ NoAnswerFires(c) \/ LingerExpires(c)
       \/ \E st \in {"EarlyMedia", "Confirmed", "Disconnected"} : StackCallState(c, st)

Spec == Init /\ [][Next]_vars

-----------------------------------------------------------------------------
(* Properties.                                                             *)

\* The main thread has caught up with the stack.
CaughtUp == queue = <<>>

\* Whatever the order of events, handlers and policies, a call that is over
\* has exactly one row in the history once the queue is drained, and that row
\* has talk time exactly if the call was answered; a call without a remote
\* identity has none.
HistoryComplete ==
  /\ \A c \in CallIds : Len(rows[c]) <= 1
  /\ CaughtUp =>
       \A c \in CallIds : inv[c] = "Disconnected" =>
         rows[c] = IF c \in identified THEN <<c \in everConfirmed>> ELSE <<>>

\* "a burst of Enter presses would otherwise stack several identical
\* concurrent calls": no two outbound calls to one target are up at a time.
NoDuplicateOutbound ==
  \A c, d \in Live \ inbound :
    c # d /\ dialedTarget[c] # NoTarget => dialedTarget[c] # dialedTarget[d]

\* "a re-dial after this call ends [is] still allowed": once the queue is
\* drained the tracker has a session for exactly the live calls.
SessionsMatchCalls == CaughtUp => sessions = Live

\* Once the queue is drained the ringtone plays exactly while a call rings, and
\* the state shown is that of the calls that are up.
RingingSettles ==
  CaughtUp =>
    /\ m_ringing = IsRinging(m_records)
    /\ Live # {} => m_callState = AggregateCallState("Calling")

\* The prompt and the current call never outlive the call they are about: its
\* end is at least queued.
PromptsAreCurrent ==
  \A c \in {m_incomingCallId, m_currentCallId} \ {kInvalidCallId} :
    c \in Live \/ \E i \in 1..Len(queue) : queue[i] = CallEvent(c, "Disconnected")

\* A timer armed when the call arrived never forwards, and so never hangs up,
\* a call that has been answered in the meantime.
AnsweredNotForwarded == \A c \in answered : ended[c] # "forwarded"

\* "On no-answer: After the configured timeout": when the timer of a call that
\* still rings runs out, the call is forwarded.
NoAnswerForwards ==
  [][\A c \in CallIds :
       NoAnswerFires(c) /\ c \in Live /\ c \notin answered /\ Up(c)
         => ended'[c] = "forwarded"]_vars

=============================================================================
