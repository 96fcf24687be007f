---------------------------- MODULE CallManager ----------------------------
(***************************************************************************)
(* CallManager: the call policy of the phone.  It runs on the Qt main      *)
(* thread only, keeps one record per live call, and drives the SIP backend *)
(* through ISipBackend.  Everything the backend reports (incoming calls,   *)
(* call states, transfer NOTIFYs) reaches it through one FIFO of queued    *)
(* events, so its records lag behind the stack's own state: the variables  *)
(* of the second group are the stack's truth, those of the first group are *)
(* what the manager believes.                                              *)
(*                                                                         *)
(* Mute, recording and file playback share no state with what is here and  *)
(* are modelled in CallMedia.                                              *)
(***************************************************************************)
EXTENDS Integers, Sequences, FiniteSets

CONSTANTS
  Accounts,         \* domain accounts
  MaxCalls,         \* bound: call ids minted
  MaxAccountIds,    \* bound: backend account ids minted
  MaxEvents,        \* bound: queued events
  MaxTransfers,     \* bound: transfer attempts per call
  MaxRetryTimers,   \* bound: unhold timers per call a command may add to
  MaxMerges,        \* bound: merges that resume a held call, distinct pairs
  UnholdRetries,    \* retry budget of a user unhold (5 in the code)
  PromoteRetries,   \* retry budget of the unhold after a promotion (3)
  BridgeRetries,    \* retry budget of the conference bridge (5)
  BackendErrors,    \* the stack may refuse a request for no local reason
  PromptPeer        \* a re-INVITE is answered before any 300 ms timer fires

ASSUME BoundsAssumption ==
  /\ MaxCalls \in Nat
  /\ UnholdRetries \in Nat \ {0}
  /\ PromoteRetries \in Nat \ {0}
  /\ BridgeRetries \in Nat \ {0}
ASSUME FlagsAssumption == BackendErrors \in BOOLEAN /\ PromptPeer \in BOOLEAN

CallIds == 1..MaxCalls
kInvalidCallId == 0
kInvalidAccountId == 0

\* Idle, Calling and EarlyMedia are told apart by nothing in this component:
\* "Calling" stands for every state before Confirmed.
RecordStates == {"Absent", "Calling", "Confirmed"}
Budgets == 0..(UnholdRetries + PromoteRetries)
BridgeBudgets == 0..BridgeRetries

VARIABLES
  m_records,        \* CallId -> state of the live record, "Absent" if none
  held,             \* ids whose record has held = true
  m_lingering,      \* m_lingeringCalls: ended calls still shown
  m_transfers,      \* TransferTracker::m_pending: id -> legs, {} if none
  m_activeCallId,
  unholdTimers,     \* id -> remaining retries -> armed 300 ms timers
  bridgeTimers,     \* <<active, held>> -> remaining retries -> armed timers
  lingerTimers      \* ids with an armed linger timer

VARIABLES
  m_backendIds,     \* AccountsManager: account -> backend id, 0 unregistered
  nextAccountId,
  nextCallId,
  m_calls,          \* PjsipBackend::m_calls: ids with a live wrapper
  inv,              \* the stack's INVITE session state
  mayConfirm,       \* outbound, or inbound and answered
  media,            \* negotiated audio: "none", "active" or "held"
  reinvite,         \* re-INVITE in flight: "none", "hold" or "unhold"
  bridged,          \* {a, b} cross-connected in the conference bridge
  refers,           \* id -> REFER subscriptions still open
  hungUp,           \* sessions the manager has asked the stack to end
  events            \* EventDispatch: queued listener events

\* History: the leg sets of every transfer the stack accepted, per call, the
\* number of transfers attempted, and the <<active, held>> pairs whose merge
\* resumed the held call first.
VARIABLES accepted, attempts, resumed

manager == <<m_records, held, m_lingering, m_transfers, m_activeCallId,
             unholdTimers, bridgeTimers, lingerTimers>>
accountIds == <<m_backendIds, nextAccountId>>
history == <<accepted, attempts, resumed>>
transfers == <<m_transfers, refers, accepted, attempts>>
stack == <<nextCallId, m_calls, inv, mayConfirm, media, reinvite, bridged,
           hungUp, events>>
vars == <<manager, accountIds, stack, refers, history>>

Event ==
  [type : {"incoming"}, call : CallIds, acc : Nat]
    \cup [type : {"state"}, call : CallIds, st : {"Confirmed", "Disconnected"}]
    \cup [type : {"transfer"}, call : CallIds, code : {"progress", "ok", "fail"}]

Live == {c \in CallIds : m_records[c] # "Absent"}
Confirmed == {c \in CallIds : m_records[c] = "Confirmed"}

Init ==
  /\ m_records = [c \in CallIds |-> "Absent"]
  /\ held = {} /\ m_lingering = {} /\ lingerTimers = {}
  /\ m_transfers = [c \in CallIds |-> {}]
  /\ m_activeCallId = kInvalidCallId
  /\ unholdTimers = [c \in CallIds |-> [n \in Budgets |-> 0]]
  /\ bridgeTimers = [p \in CallIds \X CallIds |-> [n \in BridgeBudgets |-> 0]]
  /\ m_backendIds = [a \in Accounts |-> kInvalidAccountId]
  /\ nextAccountId = 1 /\ nextCallId = 1
  /\ m_calls = {} /\ mayConfirm = {} /\ bridged = {} /\ hungUp = {}
  /\ inv = [c \in CallIds |-> "none"]
  /\ media = [c \in CallIds |-> "none"]
  /\ reinvite = [c \in CallIds |-> "none"]
  /\ refers = [c \in CallIds |-> 0]
  /\ events = <<>>
  /\ accepted = [c \in CallIds |-> {}]
  /\ attempts = [c \in CallIds |-> 0]
  /\ resumed = {}

-----------------------------------------------------------------------------
(* What the stack answers to a synchronous request.                        *)

\* A request on a call can succeed when the wrapper is live and the stack
\* accepts it; pj::Error is reported as false.
Outcomes(possible) ==
  {b \in BOOLEAN : b => possible} \ (IF possible /\ ~BackendErrors THEN {FALSE} ELSE {})

\* hold()/unhold() send a re-INVITE: the session must be confirmed and must
\* have none in flight.
ReinviteOutcomes(c) ==
  Outcomes(c \in m_calls /\ inv[c] = "Confirmed" /\ reinvite[c] = "none")

Arm(timers, c, n) == [timers EXCEPT ![c][n] = @ + 1]
Disarm(timers, c, n) == [timers EXCEPT ![c][n] = @ - 1]

-----------------------------------------------------------------------------
(* Active-call promotion, hold and unhold.                                 *)

\* The call that gives up the active role is put on hold if it is confirmed
\* and not already held; nothing is held otherwise.
AutoHeld == {m_activeCallId} \cap (Confirmed \ held)

\* setActiveCall(id): the held flags move whatever the stack answers.
SetActiveCall(id) ==
  \/ /\ m_activeCallId = id
     /\ UNCHANGED <<m_activeCallId, held, reinvite>>
  \/ /\ m_activeCallId # id
     /\ m_activeCallId' = id
     /\ held' = (held \cup AutoHeld) \ {id}
     /\ \E sent \in SUBSET (AutoHeld \cup ({id} \cap held)) :
          /\ \A c \in AutoHeld \cup ({id} \cap held) :
               (c \in sent) \in ReinviteOutcomes(c)
          /\ reinvite' = [c \in CallIds |->
               IF c \notin sent THEN reinvite[c]
               ELSE IF c = id THEN "unhold" ELSE "hold"]

\* requestUnhold(id, n), with `timers' the timers armed before it runs.
RequestUnhold(id, n, timers) ==
  \/ \* the stack refuses and the budget is not exhausted: try again later
     /\ FALSE \in ReinviteOutcomes(id)
     /\ n > 0
     /\ unholdTimers' = Arm(timers, id, n - 1)
     /\ held' = held \ {id}
     /\ UNCHANGED <<m_activeCallId, reinvite>>
  \/ \* the stack refuses for the last time
     /\ FALSE \in ReinviteOutcomes(id)
     /\ n = 0
     /\ unholdTimers' = timers
     /\ UNCHANGED <<held, m_activeCallId, reinvite>>
  \/ \* the re-INVITE goes out: promote, holding whichever call was active
     /\ TRUE \in ReinviteOutcomes(id)
     /\ unholdTimers' = timers
     /\ m_activeCallId' = id
     /\ held' = (held \cup AutoHeld) \ {id}
     /\ \E sent \in SUBSET (AutoHeld \ {id}) :
          /\ \A c \in AutoHeld \ {id} : (c \in sent) \in ReinviteOutcomes(c)
          /\ reinvite' = [c \in CallIds |->
               IF c = id THEN "unhold"
               ELSE IF c \in sent THEN "hold" ELSE reinvite[c]]

\* hold(id)
Hold(id) ==
  /\ id \in Live
  /\ TRUE \in ReinviteOutcomes(id)
  /\ held' = held \cup {id}
  /\ reinvite' = [reinvite EXCEPT ![id] = "hold"]
  /\ UNCHANGED <<m_records, m_lingering, m_activeCallId, unholdTimers,
                 bridgeTimers, lingerTimers, accountIds, transfers, resumed,
                 nextCallId, m_calls, inv, mayConfirm, media, bridged,
                 hungUp, events>>

TimersOf(id) == {n \in Budgets : unholdTimers[id][n] > 0}

\* unhold(id)
Unhold(id) ==
  /\ id \in Live
  /\ Cardinality(TimersOf(id)) < MaxRetryTimers
  /\ RequestUnhold(id, UnholdRetries, unholdTimers)
  /\ UNCHANGED <<m_records, m_lingering, bridgeTimers, lingerTimers,
                 accountIds, transfers, resumed, nextCallId, m_calls, inv, mayConfirm,
                 media, bridged, hungUp, events>>

\* Timers race re-INVITEs unless the peer is prompt.
TimersDue == PromptPeer => \A c \in CallIds : reinvite[c] = "none"

\* With a prompt peer the 300 ms timers also run out before the 400 and 600 ms
\* ones.
BridgeTimersDue ==
  TimersDue /\ (PromptPeer => \A c \in CallIds : TimersOf(c) = {})

\* Mutant: the retry gives up when another call has become active.
UnholdTimerOnlyIfActive(id, n) ==
  /\ TimersDue
  /\ unholdTimers[id][n] > 0
  /\ LET timers == Disarm(unholdTimers, id, n)
     IN  \/ /\ id \in Live /\ m_activeCallId = id
            /\ RequestUnhold(id, n, timers)
         \/ /\ id \notin Live \/ m_activeCallId # id
            /\ unholdTimers' = timers
            /\ UNCHANGED <<held, m_activeCallId, reinvite>>
  /\ UNCHANGED <<m_records, m_lingering, bridgeTimers, lingerTimers,
                 accountIds, transfers, resumed, nextCallId, m_calls, inv, mayConfirm,
                 media, bridged, hungUp, events>>

\* The 300 ms timer of a refused unhold.
UnholdTimerFires(id, n) ==
  /\ TimersDue
  /\ unholdTimers[id][n] > 0
  /\ LET timers == Disarm(unholdTimers, id, n)
     IN  \/ /\ id \in Live
            /\ RequestUnhold(id, n, timers)
         \/ /\ id \notin Live
            /\ unholdTimers' = timers
            /\ UNCHANGED <<held, m_activeCallId, reinvite>>
  /\ UNCHANGED <<m_records, m_lingering, bridgeTimers, lingerTimers,
                 accountIds, transfers, resumed, nextCallId, m_calls, inv, mayConfirm,
                 media, bridged, hungUp, events>>

-----------------------------------------------------------------------------
(* Conference.                                                             *)

\* The adapter cross-connects two calls only while both have active audio.
BridgeOutcomes(a, h) ==
  Outcomes({a, h} \subseteq m_calls /\ media[a] = "active" /\ media[h] = "active")

\* wireBridge(a, h, n), with `timers' the bridge timers armed before it runs.
WireBridge(a, h, n, timers) ==
  \/ /\ {a, h} \subseteq Live
     /\ TRUE \in BridgeOutcomes(a, h)
     /\ bridged' = bridged \cup {{a, h}}
     /\ bridgeTimers' = timers
  \/ /\ {a, h} \subseteq Live
     /\ FALSE \in BridgeOutcomes(a, h)
     /\ bridgeTimers' = IF n > 0 THEN Arm(timers, <<a, h>>, n - 1) ELSE timers
     /\ UNCHANGED bridged
  \/ /\ ~ ({a, h} \subseteq Live)
     /\ bridgeTimers' = timers
     /\ UNCHANGED bridged

BridgeTimersOf(p) == {n \in BridgeBudgets : bridgeTimers[p][n] > 0}

\* mergeCalls(a, h): a held second leg is resumed first (which auto-holds the
\* active call) and the bridge is wired by a 600 ms timer.  a # h is the
\* caller's doing (PhoneController::firstHeldCallId).
MergeCalls(a, h) ==
  /\ {a, h} \subseteq Confirmed
  /\ a # h
  /\ BridgeTimersOf(<<a, h>>) = {}
  /\ Cardinality(resumed \cup {<<a, h>>}) <= MaxMerges
  /\ resumed' = IF h \in held THEN resumed \cup {<<a, h>>} ELSE resumed
  /\ Cardinality(TimersOf(h)) < MaxRetryTimers
  /\ \/ /\ h \in held
        /\ RequestUnhold(h, UnholdRetries, unholdTimers)
        /\ bridgeTimers' = Arm(bridgeTimers, <<a, h>>, BridgeRetries)
        /\ UNCHANGED bridged
     \/ /\ h \notin held
        /\ WireBridge(a, h, BridgeRetries, bridgeTimers)
        /\ UNCHANGED <<held, m_activeCallId, reinvite, unholdTimers>>
  /\ UNCHANGED <<m_records, m_lingering, lingerTimers, accountIds, transfers,
                 nextCallId, m_calls, inv, mayConfirm, media, hungUp, events>>

\* The 600 ms timer of mergeCalls and the 400 ms retry of wireBridge.
BridgeTimerFires(a, h, n) ==
  /\ BridgeTimersDue
  /\ bridgeTimers[<<a, h>>][n] > 0
  /\ WireBridge(a, h, n, Disarm(bridgeTimers, <<a, h>>, n))
  /\ UNCHANGED <<m_records, held, m_lingering, m_activeCallId, unholdTimers,
                 lingerTimers, accountIds, transfers, resumed, nextCallId, m_calls,
                 inv, mayConfirm, media, reinvite, hungUp, events>>

-----------------------------------------------------------------------------
(* Call setup and teardown commands.                                       *)

\* makeCall(account, uri): the id is minted before the stack can refuse.
MakeCall(acc) ==
  /\ nextCallId \in CallIds
  /\ m_backendIds[acc] # kInvalidAccountId
  /\ nextCallId' = nextCallId + 1
  /\ \/ /\ m_records' = [m_records EXCEPT ![nextCallId] = "Calling"]
        /\ m_calls' = m_calls \cup {nextCallId}
        /\ mayConfirm' = mayConfirm \cup {nextCallId}
        /\ inv' = [inv EXCEPT ![nextCallId] = "Calling"]
        /\ SetActiveCall(nextCallId)
     \/ /\ BackendErrors
        /\ UNCHANGED <<m_records, m_calls, mayConfirm, inv, m_activeCallId,
                       held, reinvite>>
  /\ UNCHANGED <<m_lingering, unholdTimers, bridgeTimers, lingerTimers,
                 accountIds, transfers, resumed, media, bridged, hungUp, events>>

\* accept(id): promoted first, answered second.
Accept(id) ==
  /\ id \in Live
  /\ SetActiveCall(id)
  /\ \E ok \in Outcomes(id \in m_calls /\ inv[id] = "Calling") :
       mayConfirm' = IF ok THEN mayConfirm \cup {id} ELSE mayConfirm
  /\ UNCHANGED <<m_records, m_lingering, unholdTimers, bridgeTimers,
                 lingerTimers, accountIds, transfers, resumed, nextCallId, m_calls,
                 inv, media, bridged, hungUp, events>>

\* decline(id) (486), forwardCall(id, uri) (302) and hangup(id): each asks the
\* stack to end the session; the record goes when Disconnected comes back.
EndCall(id) ==
  /\ id \in Live
  /\ hungUp' = hungUp \cup {id}
  /\ UNCHANGED <<manager, accountIds, refers, history, nextCallId,
                 m_calls, inv, mayConfirm, media, reinvite, bridged, events>>

-----------------------------------------------------------------------------
(* Transfers.                                                              *)

\* Mutant: the entry of a call that ends is left behind.
NothingForgotten(id) == m_transfers

\* TransferTracker::drop(id)
Forget(id) == [m_transfers EXCEPT ![id] = {}]

\* blindTransfer(id) has legs {id}, attendedTransfer(id, dest) {id, dest}:
\* the legs are recorded first, replacing whatever was pending for id, and
\* dropped again when the stack refuses the REFER.
Transfer(id, legs) ==
  /\ legs \subseteq Live
  /\ attempts[id] < MaxTransfers
  /\ attempts' = [attempts EXCEPT ![id] = @ + 1]
  /\ \/ /\ \A c \in legs : c \in m_calls /\ inv[c] = "Confirmed"
        /\ m_transfers' = [m_transfers EXCEPT ![id] = legs]
        /\ refers' = [refers EXCEPT ![id] = @ + 1]
        /\ accepted' = [accepted EXCEPT ![id] = @ \cup {legs}]
     \/ /\ BackendErrors \/ \E c \in legs : inv[c] # "Confirmed"
        /\ m_transfers' = Forget(id)
        /\ UNCHANGED <<refers, accepted>>
  /\ UNCHANGED <<m_records, held, m_lingering, m_activeCallId, unholdTimers,
                 bridgeTimers, lingerTimers, accountIds, resumed, stack>>

BlindTransfer(id) == Transfer(id, {id})

AttendedTransfer(id, dest) == id # dest /\ Transfer(id, {id, dest})

\* Mutant: any final NOTIFY ends the legs, a failed one included.
LegsOfAnyFinalNotify(id, code) == IF code # "progress" THEN m_transfers[id] ELSE {}

\* TransferTracker::takeLegsToHangup: what it returns, and what is pending
\* after it.
LegsToHangup(id, code) == IF code = "ok" THEN m_transfers[id] ELSE {}
PendingAfter(id, code) == IF code = "progress" THEN m_transfers ELSE Forget(id)

\* onTransferStatus: a final NOTIFY consumes the entry whatever its outcome;
\* legs that are already gone are skipped.
OnTransferStatus ==
  /\ events # <<>>
  /\ Head(events).type = "transfer"
  /\ LET e == Head(events)
     IN  /\ m_transfers' = PendingAfter(e.call, e.code)
         /\ hungUp' = hungUp \cup (LegsToHangup(e.call, e.code) \cap Live)
  /\ events' = Tail(events)
  /\ UNCHANGED <<m_records, held, m_lingering, m_activeCallId, unholdTimers,
                 bridgeTimers, lingerTimers, accountIds, refers, history,
                 nextCallId, m_calls, inv, mayConfirm, media, reinvite,
                 bridged>>

-----------------------------------------------------------------------------
(* Delivery of the stack's events.                                         *)

\* AccountsManager::accountIdForBackend(backendId) finds an account.
KnownBackendId(backendId) == \E acc \in Accounts : m_backendIds[acc] = backendId

\* Mutant: only calls with a record are released.
ReleaseRecordedCall(id) == m_calls' = m_calls \ ({id} \cap Live)

\* ISipBackend::releaseCall(id)
ReleaseCall(id) == m_calls' = m_calls \ {id}

\* onIncomingCall: a call whose account went away while the event was queued
\* is declined (480) and released at once.
OnIncomingCall ==
  /\ events # <<>>
  /\ Head(events).type = "incoming"
  /\ LET e == Head(events)
     IN  \/ /\ KnownBackendId(e.acc)
            /\ m_records' = [m_records EXCEPT ![e.call] = "Calling"]
            /\ UNCHANGED <<hungUp, m_calls>>
         \/ /\ ~KnownBackendId(e.acc)
            /\ hungUp' = hungUp \cup {e.call}
            /\ ReleaseCall(e.call)
            /\ UNCHANGED m_records
  /\ events' = Tail(events)
  /\ UNCHANGED <<held, m_lingering, m_activeCallId, unholdTimers,
                 bridgeTimers, lingerTimers, accountIds, transfers, resumed,
                 nextCallId, inv, mayConfirm, media, reinvite, bridged>>

\* Mutant: the ended call is still a candidate.
PromotableBeforeErase(id) == Confirmed \cap held

\* The calls handleDisconnected may promote, its own record being erased.
Promotable(id) == (Confirmed \cap held) \ {id}

\* handleDisconnected, from "if (id == m_activeCallId)": one of the held
\* confirmed calls (unordered_map order) becomes active and is resumed; when
\* the stack refuses, a retry timer is armed and the held flag drops anyway.
PromoteAfter(id) ==
  \/ /\ m_activeCallId # id
     /\ held' = held \ {id}
     /\ UNCHANGED <<m_activeCallId, unholdTimers, reinvite>>
  \/ /\ m_activeCallId = id
     /\ Promotable(id) = {}
     /\ m_activeCallId' = kInvalidCallId
     /\ held' = held \ {id}
     /\ UNCHANGED <<unholdTimers, reinvite>>
  \/ /\ m_activeCallId = id
     /\ \E next \in Promotable(id) :
          /\ m_activeCallId' = next
          /\ held' = held \ {id, next}
          /\ \/ /\ TRUE \in ReinviteOutcomes(next)
                /\ reinvite' = [reinvite EXCEPT ![next] = "unhold"]
                /\ UNCHANGED unholdTimers
             \/ /\ FALSE \in ReinviteOutcomes(next)
                /\ unholdTimers' = Arm(unholdTimers, next, PromoteRetries - 1)
                /\ UNCHANGED reinvite

\* onCallState(id, Disconnected) and handleDisconnected: the record is
\* dropped, its pending transfer too, the backend id is released and the call
\* lingers on screen until its timer fires.
Disconnect(id) ==
  /\ m_records' = [m_records EXCEPT ![id] = "Absent"]
  /\ m_transfers' = Forget(id)
  /\ ReleaseCall(id)
  /\ m_lingering' = m_lingering \cup {id}
  /\ lingerTimers' = lingerTimers \cup {id}
  /\ PromoteAfter(id)

\* onCallState: an unknown id is tolerated.
OnCallState ==
  /\ events # <<>>
  /\ Head(events).type = "state"
  /\ LET e == Head(events)
     IN  \/ /\ e.call \notin Live
            /\ UNCHANGED <<manager, m_calls, reinvite>>
         \/ /\ e.call \in Live
            /\ e.st = "Disconnected"
            /\ Disconnect(e.call)
            /\ UNCHANGED bridgeTimers
         \/ /\ e.call \in Live
            /\ e.st = "Confirmed"
            /\ m_records' = [m_records EXCEPT ![e.call] = "Confirmed"]
            /\ UNCHANGED <<held, m_lingering, m_transfers, m_activeCallId,
                           unholdTimers, bridgeTimers, lingerTimers, m_calls,
                           reinvite>>
  /\ events' = Tail(events)
  /\ UNCHANGED <<accountIds, refers, history, nextCallId, inv,
                 mayConfirm, media, bridged, hungUp>>

\* Mutant: an ended call stays on screen while another call is up.
LingerWhileBusy(id) ==
  /\ id \in lingerTimers
  /\ lingerTimers' = lingerTimers \ {id}
  /\ m_lingering' = IF Live = {} THEN m_lingering \ {id} ELSE m_lingering
  /\ UNCHANGED <<m_records, held, m_activeCallId, unholdTimers, bridgeTimers,
                 accountIds, transfers, resumed, stack>>

\* The linger timer: eraseLingering(id).
LingerTimerFires(id) ==
  /\ id \in lingerTimers
  /\ lingerTimers' = lingerTimers \ {id}
  /\ m_lingering' = m_lingering \ {id}
  /\ UNCHANGED <<m_records, held, m_activeCallId, unholdTimers, bridgeTimers,
                 accountIds, transfers, resumed, stack>>

-----------------------------------------------------------------------------
(* The stack's worker thread and the far end.                              *)

\* Mutant: a state event for a call the manager does not know yet is dropped.
PostIfKnown(e) ==
  /\ Len(events) < MaxEvents
  /\ events' = IF e.type = "state" /\ e.call \notin Live THEN events ELSE Append(events, e)

Post(e) == /\ Len(events) < MaxEvents
           /\ events' = Append(events, e)

\* PjsipAccount::onIncomingCall / wrapIncomingCall: the wrapper is in m_calls
\* before the event is posted.
WrapIncomingCall(acc) ==
  /\ nextCallId \in CallIds
  /\ m_backendIds[acc] # kInvalidAccountId
  /\ nextCallId' = nextCallId + 1
  /\ m_calls' = m_calls \cup {nextCallId}
  /\ inv' = [inv EXCEPT ![nextCallId] = "Calling"]
  /\ Post([type |-> "incoming", call |-> nextCallId, acc |-> m_backendIds[acc]])
  /\ UNCHANGED <<manager, accountIds, refers, history, mayConfirm,
                 media, reinvite, bridged, hungUp>>

\* The INVITE is answered: PjsipCall::onCallState(CONFIRMED), audio active.
SessionConfirmed(c) ==
  /\ inv[c] = "Calling"
  /\ c \in mayConfirm
  /\ inv' = [inv EXCEPT ![c] = "Confirmed"]
  /\ media' = [media EXCEPT ![c] = "active"]
  /\ Post([type |-> "state", call |-> c, st |-> "Confirmed"])
  /\ UNCHANGED <<manager, accountIds, refers, history, nextCallId,
                 m_calls, mayConfirm, reinvite, bridged, hungUp>>

\* The session ends, by the far end or because it was asked to:
\* PjsipCall::onCallState(DISCONNECTED), or getInfo() failing in it.
SessionDisconnected(c) ==
  /\ inv[c] \in {"Calling", "Confirmed"}
  /\ inv' = [inv EXCEPT ![c] = "Disconnected"]
  /\ media' = [media EXCEPT ![c] = "none"]
  /\ reinvite' = [reinvite EXCEPT ![c] = "none"]
  /\ bridged' = {p \in bridged : c \notin p}
  /\ mayConfirm' = mayConfirm \ {c}
  /\ hungUp' = hungUp \ {c}
  /\ Post([type |-> "state", call |-> c, st |-> "Disconnected"])
  /\ UNCHANGED <<manager, accountIds, refers, history, nextCallId,
                 m_calls>>

\* A re-INVITE is answered; a rejected one leaves the media as it was.
ReinviteAnswered(c) ==
  /\ reinvite[c] # "none"
  /\ reinvite' = [reinvite EXCEPT ![c] = "none"]
  /\ \/ /\ media' = [media EXCEPT ![c] =
                       IF reinvite[c] = "hold" THEN "held" ELSE "active"]
        /\ bridged' = IF reinvite[c] = "hold"
                      THEN {p \in bridged : c \notin p} ELSE bridged
     \/ BackendErrors /\ UNCHANGED <<media, bridged>>
  /\ UNCHANGED <<manager, accountIds, refers, history, nextCallId,
                 m_calls, inv, mayConfirm, hungUp, events>>

\* PjsipCall::onCallTransferStatus: a NOTIFY of an open REFER subscription.
TransferNotify(c, code) ==
  /\ refers[c] > 0
  /\ refers' = IF code = "progress" THEN refers
               ELSE [refers EXCEPT ![c] = @ - 1]
  /\ Post([type |-> "transfer", call |-> c, code |-> code])
  /\ UNCHANGED <<manager, accountIds, history, nextCallId, m_calls,
                 inv, mayConfirm, media, reinvite, bridged, hungUp>>

\* AccountsManager registers and unregisters accounts (own module); a new
\* registration always has a new backend id.
RegisterAccount(acc) ==
  /\ m_backendIds[acc] = kInvalidAccountId
  /\ nextAccountId <= MaxAccountIds
  /\ m_backendIds' = [m_backendIds EXCEPT ![acc] = nextAccountId]
  /\ nextAccountId' = nextAccountId + 1
  /\ UNCHANGED <<manager, stack, refers, history>>

UnregisterAccount(acc) ==
  /\ m_backendIds[acc] # kInvalidAccountId
  /\ m_backendIds' = [m_backendIds EXCEPT ![acc] = kInvalidAccountId]
  /\ UNCHANGED <<manager, nextAccountId, stack, refers, history>>

-----------------------------------------------------------------------------
Command(c) ==
  \/ Accept(c)
  \/ EndCall(c)
  \/ Hold(c)
  \/ Unhold(c)
  \/ BlindTransfer(c)
  \/ \E d \in CallIds : AttendedTransfer(c, d) \/ MergeCalls(c, d)

Deliver == OnIncomingCall \/ OnCallState \/ OnTransferStatus

RetryTimer ==
  \/ \E c \in CallIds, n \in Budgets : UnholdTimerFires(c, n)
  \/ \E a, h \in CallIds, n \in BridgeBudgets : BridgeTimerFires(a, h, n)

Session(c) ==
  \/ SessionConfirmed(c)
  \/ SessionDisconnected(c)
  \/ ReinviteAnswered(c)
  \/ \E code \in {"progress", "ok", "fail"} : TransferNotify(c, code)

Next ==
  \/ \E acc \in Accounts : \/ MakeCall(acc) \/ WrapIncomingCall(acc)
                           \/ RegisterAccount(acc) \/ UnregisterAccount(acc)
  \/ \E c \in CallIds : Command(c) \/ Session(c) \/ LingerTimerFires(c)
  \/ Deliver
  \/ RetryTimer

Spec == Init /\ [][Next]_vars

\* The Qt event loop delivers queued events and runs expired timers, and the
\* peer answers re-INVITEs.  A retry timer expires whatever else happens; that
\* it is disabled while a re-INVITE is in flight is PromptPeer's doing, hence
\* strong fairness.  Nothing obliges the user or the far end to do anything
\* else.
Fairness ==
  /\ WF_vars(Deliver)
  /\ \A c \in CallIds :
       /\ WF_vars(LingerTimerFires(c))
       /\ WF_vars(ReinviteAnswered(c))
       /\ SF_vars(\E n \in Budgets : UnholdTimerFires(c, n))

FairSpec == Spec /\ Fairness

-----------------------------------------------------------------------------
(* Properties.                                                             *)

ManagerTypeOK ==
  /\ m_records \in [CallIds -> RecordStates]
  /\ held \subseteq Live
  /\ m_lingering \subseteq CallIds
  /\ m_transfers \in [CallIds -> SUBSET CallIds]
  /\ m_activeCallId \in CallIds \cup {kInvalidCallId}

TimersTypeOK ==
  /\ lingerTimers \subseteq CallIds
  /\ unholdTimers \in [CallIds -> [Budgets -> Nat]]
  /\ bridgeTimers \in [CallIds \X CallIds -> [BridgeBudgets -> Nat]]

AccountsTypeOK ==
  /\ m_backendIds \in [Accounts -> Nat]
  /\ nextAccountId \in Nat \ {0}

StackTypeOK ==
  /\ nextCallId \in Nat \ {0}
  /\ m_calls \subseteq CallIds
  /\ inv \in [CallIds -> {"none", "Calling", "Confirmed", "Disconnected"}]
  /\ mayConfirm \subseteq CallIds
  /\ media \in [CallIds -> {"none", "active", "held"}]
  /\ reinvite \in [CallIds -> {"none", "hold", "unhold"}]
  /\ hungUp \subseteq CallIds
  /\ refers \in [CallIds -> Nat]
  /\ attempts \in [CallIds -> Nat]

PairsTypeOK ==
  /\ bridged \subseteq SUBSET CallIds
  /\ accepted \in [CallIds -> SUBSET SUBSET CallIds]
  /\ resumed \subseteq CallIds \X CallIds

\* Every table of the manager and of the stack is well typed; the held flag
\* lives in a record, so no handler may set it for a call that has none.
TypeOK ==
  /\ ManagerTypeOK
  /\ TimersTypeOK
  /\ AccountsTypeOK
  /\ StackTypeOK
  /\ PairsTypeOK
  /\ events \in Seq(Event)

QueuedIncoming(c) ==
  \E i \in 1..Len(events) : events[i].type = "incoming" /\ events[i].call = c

QueuedState(c, st) ==
  \E i \in 1..Len(events) :
    events[i].type = "state" /\ events[i].call = c /\ events[i].st = st

\* The adapter holds a wrapper for exactly the calls the manager has a record
\* of or is about to be told of: releaseCall() is never forgotten (no leaked
\* pj::Call) and never early (no record whose commands find no wrapper),
\* whatever order incoming calls, unregistrations and hang-ups arrive in.
WrappersAccountedFor ==
  \A c \in CallIds : c \in m_calls <=> c \in Live \/ QueuedIncoming(c)

\* The active call is a live one: neither a retry timer, nor a promotion, nor
\* an event for a call that is gone can leave m_activeCallId at an ended call.
ActiveIsLive == m_activeCallId # kInvalidCallId => m_activeCallId \in Live

\* A pending transfer belongs to a live call and covers that call: no NOTIFY
\* that arrives after the call has ended finds an entry to act on.
PendingTransfersLive ==
  \A c \in CallIds : m_transfers[c] # {} => c \in Live /\ c \in m_transfers[c]

\* No zombie call: a record whose session is over has its Disconnected event
\* queued, and a session that was answered is shown as such or about to be.
NoZombieRecord ==
  \A c \in Live :
    /\ inv[c] = "Disconnected" => QueuedState(c, "Disconnected")
    /\ inv[c] = "Confirmed" /\ m_records[c] # "Confirmed" => QueuedState(c, "Confirmed")
    /\ inv[c] # "none"

\* A NOTIFY is delivered in this step.
NotifyDelivered(code) ==
  /\ events # <<>>
  /\ Head(events).type = "transfer"
  /\ Head(events).code = code
  /\ events' = Tail(events)

\* "a 2xx hangs up the originating call", and for an attended transfer both:
\* when the NOTIFY reports success and the originating call is still up, every
\* accepted leg that is still up is hung up, and no call that is not such a leg;
\* a NOTIFY of progress or failure hangs up nothing.
NotifyHangsUpTheTransfer ==
  [][/\ NotifyDelivered("ok") =>
          LET legs == UNION accepted[Head(events).call]
          IN /\ Head(events).call \in Live => legs \cap Live \subseteq hungUp'
             /\ hungUp' \ hungUp \subseteq legs
     /\ NotifyDelivered("progress") \/ NotifyDelivered("fail") => hungUp' = hungUp]_vars

\* The last attempt to wire a conference finds both parties ready: a merge that
\* resumed the held call, both calls staying up, does not give up without
\* cross-connecting them ("After this both remote parties hear each other").
MergeBridges ==
  [][\A p \in resumed :
       BridgeTimerFires(p[1], p[2], 0) /\ inv[p[1]] = "Confirmed" /\ inv[p[2]] = "Confirmed"
         => {p[1], p[2]} \in bridged']_vars

\* A call whose session is over leaves the call list, screen linger included.
EndedCallsLeave ==
  \A c \in CallIds :
    c \in Live /\ inv[c] = "Disconnected" ~> c \notin Live \cup m_lingering

\* An unhold the stack refused because a re-INVITE was in flight is not
\* forgotten: the retries resume the audio unless the call ends or is put on
\* hold again.
UnholdResolves ==
  \A c \in CallIds :
    TimersOf(c) # {} /\ inv[c] = "Confirmed" ~> media[c] = "active" \/ c \notin Live \/ c \in held

=============================================================================
