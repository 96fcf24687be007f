---------------------------- MODULE PjsipBackend ----------------------------
(***************************************************************************)
(* PjsipBackend: who owns which stack object, and what is still delivered  *)
(* to whom, while the main thread commands and tears down and the PJSUA    *)
(* worker thread is inside a callback.                                     *)
(*                                                                         *)
(* The worker holds the PJSUA lock from the start of a callback until it   *)
(* has posted; the destructors of pj::Account, pj::Buddy and pj::Call take *)
(* that lock.  The tail of a call's callback, after the post, still reads  *)
(* the PjsipCall and is not covered by any lock.                           *)
(***************************************************************************)
EXTENDS Integers, Sequences, FiniteSets

CONSTANTS
  MaxCalls,        \* bound: call ids minted
  MaxAccounts,     \* bound: account ids minted
  MaxWatches,      \* bound: watch ids minted
  MaxQueue,        \* bound: queued events when a callback or command starts
  MaxListeners,    \* bound: setListener calls
  MaxStops         \* bound: stop() calls

ASSUME BoundsAssumption ==
  {MaxCalls, MaxAccounts, MaxWatches, MaxQueue, MaxListeners, MaxStops} \subseteq Nat

CallIds == 1..MaxCalls
AccountIds == 1..MaxAccounts
WatchIds == 1..MaxWatches
None == 0

VARIABLES
  alive,           \* m_events exists
  running,         \* SipEngine::m_running
  m_listener,      \* a listener is set
  m_accounts,      \* ids with a pj::Account
  m_watches,       \* watch id -> account id, None when there is no such watch
  buddies,         \* watch ids with a pj::Buddy
  m_calls,
  m_graceCalls,
  doomed,          \* the local map of stop() and of the destructor
  m_epoch,         \* EventDispatch
  queue,           \* lambdas in the main thread's event queue
  graceTimers,     \* armed postDelayed timers
  main,            \* main thread: idle, or the next step of a teardown
  worker           \* PJSUA worker thread: the callback it is in

VARIABLES
  nextCallId, nextAccountId, nextWatchId,
  known,           \* history: call ids the listener was given and has not released
  listeners, stops \* history: setListener and stop calls so far

objects == <<m_accounts, m_watches, buddies, m_calls, m_graceCalls, doomed>>
dispatch == <<alive, m_epoch, queue, graceTimers>>
ids == <<nextCallId, nextAccountId, nextWatchId>>
counts == <<listeners, stops>>
vars == <<running, m_listener, objects, dispatch, main, worker, ids, known, counts>>

\* A callback is the steps it has left; its thread is idle when there are none.
Idle == [kind |-> "none", id |-> None, epoch |-> 0, steps |-> <<>>]

Init ==
  /\ alive = TRUE /\ running = FALSE /\ m_listener = FALSE
  /\ m_accounts = {} /\ buddies = {}
  /\ m_watches = [w \in WatchIds |-> None]
  /\ m_calls = {} /\ m_graceCalls = {} /\ doomed = {}
  /\ m_epoch = 0 /\ queue = <<>> /\ graceTimers = {}
  /\ main = [at |-> "idle", dying |-> FALSE]
  /\ worker = Idle
  /\ nextCallId = 1 /\ nextAccountId = 1 /\ nextWatchId = 1
  /\ known = {} /\ listeners = 0 /\ stops = 0

MainIdle == main.at = "idle" /\ alive
PjsuaLockFree == worker.steps \in {<<>>, <<"tail">>}
Event(type, id) == [type |-> type, id |-> id, epoch |-> m_epoch]

-----------------------------------------------------------------------------
(* Commands of the main thread.                                            *)

Start ==
  /\ MainIdle /\ ~running
  /\ running' = TRUE
  /\ UNCHANGED <<m_listener, objects, dispatch, main, worker, ids, known, counts>>

\* setListener(listener): everything queued so far is dropped, then the
\* listener changes; the new one has been given no call yet.
SetListener(listener) ==
  /\ MainIdle /\ listeners < MaxListeners
  /\ listeners' = listeners + 1
  /\ m_epoch' = m_epoch + 1
  /\ m_listener' = listener
  /\ known' = {}
  /\ UNCHANGED <<running, objects, alive, queue, graceTimers, main, worker, ids, stops>>

AddAccount ==
  /\ MainIdle /\ running
  /\ nextAccountId \in AccountIds
  /\ m_accounts' = m_accounts \cup {nextAccountId}
  /\ nextAccountId' = nextAccountId + 1
  /\ UNCHANGED <<running, m_listener, m_watches, buddies, m_calls, m_graceCalls,
                 doomed, dispatch, main, worker, nextCallId, nextWatchId, known, counts>>

WatchesOf(acc) == {w \in WatchIds : m_watches[w] = acc}

RemoveAccount(acc) ==
  /\ MainIdle /\ PjsuaLockFree
  /\ acc \in m_accounts
  /\ m_accounts' = m_accounts \ {acc}
  /\ m_watches' = [w \in WatchIds |-> IF w \in WatchesOf(acc) THEN None ELSE m_watches[w]]
  /\ buddies' = buddies \ WatchesOf(acc)
  /\ UNCHANGED <<running, m_listener, m_calls, m_graceCalls, doomed, dispatch,
                 main, worker, ids, known, counts>>

\* watch(acc, uri): the id is live even when the buddy cannot be created.
WatchAccount(acc) ==
  /\ MainIdle /\ running
  /\ acc \in m_accounts
  /\ nextWatchId \in WatchIds
  /\ m_watches' = [m_watches EXCEPT ![nextWatchId] = acc]
  /\ buddies' \in {buddies, buddies \cup {nextWatchId}}
  /\ nextWatchId' = nextWatchId + 1
  /\ UNCHANGED <<running, m_listener, m_accounts, m_calls, m_graceCalls, doomed,
                 dispatch, main, worker, nextCallId, nextAccountId, known, counts>>

Unwatch(w) ==
  /\ MainIdle /\ PjsuaLockFree
  /\ m_watches[w] # None
  /\ m_watches' = [m_watches EXCEPT ![w] = None]
  /\ buddies' = buddies \ {w}
  /\ UNCHANGED <<running, m_listener, m_accounts, m_calls, m_graceCalls, doomed,
                 dispatch, main, worker, ids, known, counts>>

\* makeCall(acc, uri): the stack re-enters onCallState(CALLING) before the
\* wrapper is in m_calls.
MakeCall(acc) ==
  /\ MainIdle
  /\ acc \in m_accounts
  /\ nextCallId \in CallIds
  /\ Len(queue) < MaxQueue
  /\ nextCallId' = nextCallId + 1
  /\ \/ /\ queue' = Append(queue, Event("state", nextCallId))
        /\ m_calls' = m_calls \cup {nextCallId}
        /\ known' = known \cup {nextCallId}
     \/ UNCHANGED <<queue, m_calls, known>>
  /\ UNCHANGED <<running, m_listener, m_accounts, m_watches, buddies,
                 m_graceCalls, doomed, alive, m_epoch, graceTimers, main, worker,
                 nextAccountId, nextWatchId, counts>>

\* Mutant: the wrapper is destroyed on the spot.
DestroyAtOnce(c) == UNCHANGED <<m_graceCalls, graceTimers>>

\* The wrapper is parked and its destruction scheduled.
Park(c) ==
  /\ m_graceCalls' = m_graceCalls \cup {c}
  /\ graceTimers' = graceTimers \cup {Event("grace", c)}

\* releaseCall(id), of a call the listener was given.
ReleaseCall(c) ==
  /\ MainIdle
  /\ c \in known
  /\ known' = known \ {c}
  /\ IF c \in m_calls
     THEN m_calls' = m_calls \ {c} /\ Park(c)
     ELSE UNCHANGED <<m_calls, m_graceCalls, graceTimers>>
  /\ UNCHANGED <<running, m_listener, m_accounts, m_watches, buddies, doomed,
                 alive, m_epoch, queue, main, worker, ids, counts>>

\* The lambda of a posted event calls the listener.
Accepted(e) == e.epoch = m_epoch /\ m_listener

\* The event loop runs the next lambda.
Deliver ==
  /\ MainIdle /\ queue # <<>>
  /\ queue' = Tail(queue)
  /\ known' = IF Accepted(Head(queue)) /\ Head(queue).type = "incoming"
              THEN known \cup {Head(queue).id} ELSE known
  /\ UNCHANGED <<running, m_listener, objects, alive, m_epoch, graceTimers, main,
                 worker, ids, counts>>

\* The grace window is long: it ends after any callback of the call returned.
GraceTimerFires(t) ==
  /\ MainIdle /\ PjsuaLockFree
  /\ t \in graceTimers
  /\ ~(worker.kind = "state" /\ worker.id = t.id)
  /\ graceTimers' = graceTimers \ {t}
  /\ m_graceCalls' = IF t.epoch = m_epoch THEN m_graceCalls \ {t.id} ELSE m_graceCalls
  /\ UNCHANGED <<running, m_listener, m_accounts, m_watches, buddies, m_calls,
                 doomed, alive, m_epoch, queue, main, worker, ids, known, counts>>

-----------------------------------------------------------------------------
(* stop() and the destructor, step by step.                                *)

\* The media objects go first (CallMedia); the swap takes the mutex and
\* releases it.
BeginStop ==
  /\ MainIdle /\ stops < MaxStops
  /\ stops' = stops + 1
  /\ main' = [at |-> "swap", dying |-> FALSE]
  /\ UNCHANGED <<running, m_listener, objects, dispatch, worker, ids, known, listeners>>

BeginDestructor ==
  /\ MainIdle
  /\ main' = [at |-> "swap", dying |-> TRUE]
  /\ UNCHANGED <<running, m_listener, objects, dispatch, worker, ids, known, counts>>

\* Mutant: the destructors run inside the mutex's scope.
DestroyUnderMutex == {"calls", "stragglers"}

\* The steps of a teardown that are taken with m_callsMutex held.
MutexHeldAt == {}

\* Mutant: the second swap is missing.
SkipSweep == UNCHANGED <<doomed, m_calls>>

\* The straggler sweep swaps m_calls out once more.
SweepStragglers == doomed' = m_calls /\ m_calls' = {}

Go(at) == main' = [main EXCEPT !.at = at]

SwapCalls ==
  /\ main.at = "swap"
  /\ doomed' = m_calls /\ m_calls' = {}
  /\ Go("calls")
  /\ UNCHANGED <<running, m_listener, m_accounts, m_watches, buddies,
                 m_graceCalls, dispatch, worker, ids, known, counts>>

DestroyCalls ==
  /\ main.at = "calls" /\ PjsuaLockFree
  /\ doomed' = {} /\ m_graceCalls' = {}
  /\ Go("watches")
  /\ UNCHANGED <<running, m_listener, m_accounts, m_watches, buddies, m_calls,
                 dispatch, worker, ids, known, counts>>

ClearWatches ==
  /\ main.at = "watches" /\ PjsuaLockFree
  /\ m_watches' = [w \in WatchIds |-> None] /\ buddies' = {}
  /\ Go("accounts")
  /\ UNCHANGED <<running, m_listener, m_accounts, m_calls, m_graceCalls, doomed,
                 dispatch, worker, ids, known, counts>>

\* Mutant: the destructor leaves the accounts to the member's own destruction,
\* which comes after that of m_events.
LeftToMember == IF main.dying THEN m_accounts ELSE {}

\* m_accounts.clear(), in stop() as in the destructor.
AccountsLeft == {}

ClearAccounts ==
  /\ main.at = "accounts" /\ PjsuaLockFree
  /\ m_accounts' = AccountsLeft
  /\ Go("sweep")
  /\ UNCHANGED <<running, m_listener, m_watches, buddies, m_calls, m_graceCalls,
                 doomed, dispatch, worker, ids, known, counts>>

Sweep ==
  /\ main.at = "sweep"
  /\ SweepStragglers
  /\ Go("stragglers")
  /\ UNCHANGED <<running, m_listener, m_accounts, m_watches, buddies,
                 m_graceCalls, dispatch, worker, ids, known, counts>>

DestroyStragglers ==
  /\ main.at = "stragglers" /\ PjsuaLockFree
  /\ doomed' = {}
  /\ Go("finish")
  /\ UNCHANGED <<running, m_listener, m_accounts, m_watches, buddies, m_calls,
                 m_graceCalls, dispatch, worker, ids, known, counts>>

\* Mutant: stop() relies on the engine going away.
NotInvalidated == m_epoch

\* The epoch stop() leaves behind: invalidate() is its last word.
EpochAfterStop == m_epoch + 1

\* stop() ends with invalidate() and the engine, the destructor with the
\* destruction of m_events, which cancels every queued lambda and timer.
Finish ==
  /\ main.at = "finish"
  /\ Go("idle")
  /\ \/ /\ ~main.dying
        /\ m_epoch' = EpochAfterStop
        /\ running' = FALSE
        /\ known' = {}
        /\ UNCHANGED <<alive, queue, graceTimers>>
     \/ /\ main.dying
        /\ alive' = FALSE
        /\ queue' = <<>> /\ graceTimers' = {}
        /\ UNCHANGED <<m_epoch, running, known>>
  /\ UNCHANGED <<m_listener, objects, worker, ids, counts>>

-----------------------------------------------------------------------------
(* Callbacks of the PJSUA worker thread.                                   *)

\* Mutant: the event is posted before the wrapper is in the map.
PostThenInsert(kind) ==
  IF kind = "incoming" THEN <<"load", "enqueue", "insert", "tail">>
  ELSE <<"load", "enqueue", "tail">>

\* wrapIncomingCall inserts the wrapper, then posts as every callback does.
CallbackSteps(kind) ==
  IF kind = "incoming" THEN <<"insert", "load", "enqueue", "tail">>
  ELSE <<"load", "enqueue", "tail">>

Begin(kind, id) ==
  /\ worker.steps = <<>>
  /\ Len(queue) < MaxQueue
  /\ worker' = [kind |-> kind, id |-> id, epoch |-> 0, steps |-> CallbackSteps(kind)]
  /\ UNCHANGED <<running, m_listener, objects, dispatch, main, nextAccountId,
                 nextWatchId, known, counts>>

\* PjsipAccount::onIncomingCall: the id is minted and the wrapper constructed.
OnIncomingCall(acc) ==
  /\ acc \in m_accounts
  /\ nextCallId \in CallIds
  /\ nextCallId' = nextCallId + 1
  /\ Begin("incoming", nextCallId)

\* PjsipAccount::onRegState, onInstantMessage and onMwiInfo.
OnAccountEvent(acc) ==
  acc \in m_accounts /\ Begin("account", acc) /\ UNCHANGED nextCallId

OnBuddyState(w) ==
  w \in buddies /\ Begin("presence", w) /\ UNCHANGED nextCallId

\* PjsipCall::onCallState, onCallMediaState and onCallTransferStatus.
OnCallEvent(c) ==
  /\ c \in m_calls \cup m_graceCalls \cup doomed
  /\ Begin("state", c)
  /\ UNCHANGED nextCallId

At(step) == worker.steps # <<>> /\ Head(worker.steps) = step
Rest == Tail(worker.steps)

InsertCall ==
  /\ At("insert")
  /\ main.at \notin MutexHeldAt
  /\ m_calls' = m_calls \cup {worker.id}
  /\ worker' = [worker EXCEPT !.steps = Rest]
  /\ UNCHANGED <<running, m_listener, m_accounts, m_watches, buddies,
                 m_graceCalls, doomed, dispatch, main, ids, known, counts>>

\* EventDispatch::post reads the epoch, then queues the lambda.
LoadEpoch ==
  /\ At("load")
  /\ worker' = [worker EXCEPT !.steps = Rest, !.epoch = m_epoch]
  /\ UNCHANGED <<running, m_listener, objects, dispatch, main, ids, known, counts>>

Enqueue ==
  /\ At("enqueue")
  /\ queue' = Append(queue, [type |-> worker.kind, id |-> worker.id, epoch |-> worker.epoch])
  /\ worker' = [worker EXCEPT !.steps = Rest]
  /\ UNCHANGED <<running, m_listener, objects, alive, m_epoch, graceTimers, main,
                 ids, known, counts>>

Return ==
  /\ At("tail")
  /\ worker' = Idle
  /\ UNCHANGED <<running, m_listener, objects, dispatch, main, ids, known, counts>>

-----------------------------------------------------------------------------
Teardown ==
  \/ SwapCalls \/ DestroyCalls \/ ClearWatches \/ ClearAccounts
  \/ Sweep \/ DestroyStragglers \/ Finish

Command ==
  \/ Start \/ AddAccount \/ BeginStop \/ BeginDestructor
  \/ \E listener \in BOOLEAN : SetListener(listener)
  \/ \E acc \in AccountIds : RemoveAccount(acc) \/ WatchAccount(acc) \/ MakeCall(acc)
  \/ \E w \in WatchIds : Unwatch(w)
  \/ \E c \in CallIds : ReleaseCall(c)

Callback ==
  \/ \E acc \in AccountIds : OnIncomingCall(acc) \/ OnAccountEvent(acc)
  \/ \E w \in WatchIds : OnBuddyState(w)
  \/ \E c \in CallIds : OnCallEvent(c)

WorkerStep == InsertCall \/ LoadEpoch \/ Enqueue \/ Return

Next ==
  \/ Command \/ Deliver \/ Teardown
  \/ \E t \in graceTimers : GraceTimerFires(t)
  \/ Callback \/ WorkerStep

Spec == Init /\ [][Next]_vars

\* The worker finishes the callback it is in, and the main thread gets the
\* PJSUA lock when it keeps becoming free.
FairSpec == Spec /\ WF_vars(WorkerStep) /\ SF_vars(Teardown)

-----------------------------------------------------------------------------
(* Properties.                                                             *)

QueuedEvent ==
  [type : {"incoming", "account", "presence", "state", "grace"}, id : Nat, epoch : Nat]

\* The adapter's maps, queue and threads are well typed.
TypeOK ==
  /\ {alive, running, m_listener} \subseteq BOOLEAN
  /\ m_accounts \subseteq AccountIds
  /\ m_watches \in [WatchIds -> AccountIds \cup {None}]
  /\ buddies \subseteq WatchIds
  /\ m_calls \cup m_graceCalls \cup doomed \cup known \subseteq CallIds
  /\ m_epoch \in Nat
  /\ queue \in Seq(QueuedEvent)
  /\ graceTimers \subseteq QueuedEvent
  /\ main.at \in {"idle", "swap", "calls", "watches", "accounts", "sweep",
                 "stragglers", "finish"}
  /\ {nextCallId, nextAccountId, nextWatchId, listeners, stops} \subseteq Nat

\* "A CallId is live from makeCall() return / onIncomingCall delivery until
\* releaseCall()": every call the listener was given has its wrapper, even when
\* an incoming call races a stop() or a change of listener.
KnownCallsLive == MainIdle => known \subseteq m_calls

\* A buddy never outlives the pj::Account it is attached to, and "stop() drops
\* all accounts, calls, and watches - a restarted backend starts empty", an
\* incoming call that was being wrapped during stop() included.
OwnersOutliveObjects ==
  /\ \A w \in buddies : m_watches[w] \in m_accounts
  /\ MainIdle /\ ~running =>
       m_accounts \cup m_calls \cup m_graceCalls \cup doomed \cup buddies = {}

\* "Quiesce all posting threads BEFORE destroying EventDispatch": once m_events
\* is gone no callback is on its way to post, and none can start.
PostersQuiesced == ~alive => PjsuaLockFree

\* "After stop() returns [...] none will be delivered": whatever callbacks ran
\* during stop(), the listener hears nothing until the next start().
QuietAfterStop ==
  [][Deliver /\ Accepted(Head(queue)) => running]_vars

Wrappers == m_calls \cup m_graceCalls \cup doomed
InUse(c) == worker.kind = "state" /\ worker.id = c

\* While the backend is up a wrapper is not destroyed under a callback that is
\* still executing: releaseCall() from the queued Disconnected leaves it to
\* the grace timer.
ReleaseKeepsWrapper ==
  [][\A c \in Wrappers :
       main.at = "idle" /\ main'.at = "idle" /\ InUse(c) => c \in Wrappers']_vars

\* Neither lock order nor a stream of callbacks keeps stop() or the destructor
\* from returning.
TeardownCompletes == main.at # "idle" ~> main.at = "idle"

Contract == INSTANCE SipBackend WITH
  phase <- IF ~alive THEN "gone" ELSE IF main.at # "idle" THEN "stopping"
           ELSE IF running THEN "running" ELSE "stopped",
  listening <- m_listener,
  accounts <- m_accounts,
  watches <- {w \in WatchIds : m_watches[w] # None},
  calls <- known \cap m_calls

\* The adapter, with its worker thread, its grace list and its stepwise
\* teardown, implements the rules of ISipBackend.h that the managers rely on.
ImplementsContract == Contract!Spec

=============================================================================
