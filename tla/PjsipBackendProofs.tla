------------------------- MODULE PjsipBackendProofs -------------------------
(***************************************************************************)
(* TLAPS proofs about the PJSIP adapter: which objects exist at which step  *)
(* of a teardown, what may still be posted, and that the adapter implements *)
(* the contract of ISipBackend.h, for any number of ids, events, listeners  *)
(* and stops.                                                              *)
(***************************************************************************)
EXTENDS PjsipBackend, TLAPS

\* What a callback can have left to do.
ToInsert == <<"insert", "load", "enqueue", "tail">>
ToLoad == <<"load", "enqueue", "tail">>
ToEnqueue == <<"enqueue", "tail">>
ToReturn == <<"tail">>
StepLists == {<<>>, ToReturn, ToEnqueue, ToLoad, ToInsert}

MainSteps ==
  {"idle", "swap", "calls", "watches", "accounts", "sweep", "stragglers", "finish"}

\* The records of the two threads; only an incoming call is inserted.
ThreadsOK ==
  /\ main \in [at : MainSteps, dying : BOOLEAN]
  /\ worker \in [kind : {"none", "incoming", "account", "presence", "state"},
                 id : Nat, epoch : Nat, steps : StepLists]
  /\ worker.steps = ToInsert => worker.kind = "incoming"
  /\ worker.steps # <<>> => worker.kind # "none"
  /\ ~alive => main.at = "idle"

\* An id in use was minted, by the counter of its kind.
FreshIds ==
  /\ \A c \in Wrappers \cup known : c < nextCallId
  /\ \A a \in m_accounts : a < nextAccountId
  /\ \A w \in WatchIds : m_watches[w] # None => w < nextWatchId
  /\ worker.kind = "incoming" => worker.id \in CallIds /\ worker.id < nextCallId
  /\ \A i \in DOMAIN queue :
       queue[i].type = "incoming" => queue[i].id \in CallIds /\ queue[i].id < nextCallId

\* Nothing is left that could call back, and no callback is on its way to post.
Dismantled ==
  /\ m_accounts = {} /\ buddies = {}
  /\ \A w \in WatchIds : m_watches[w] = None
  /\ Wrappers = {}
  /\ PjsuaLockFree

\* What each step of a teardown has left behind, and what stays that way.
StagesOK ==
  /\ main.at \notin {"calls", "stragglers"} => doomed = {}
  /\ main.at \in {"watches", "accounts", "sweep", "stragglers", "finish"} => m_graceCalls = {}
  /\ main.at \in {"accounts", "sweep", "stragglers", "finish"} =>
       buddies = {} /\ \A w \in WatchIds : m_watches[w] = None
  /\ main.at \in {"sweep", "stragglers", "finish"} =>
       m_accounts = {} /\ (worker.kind = "incoming" => PjsuaLockFree)
  /\ main.at \in {"stragglers", "finish"} => m_calls = {}
  /\ main.at = "finish" \/ ~alive \/ (main.at = "idle" /\ ~running) => Dismantled

\* A buddy hangs off an account that exists.
BuddiesOwned == \A w \in buddies : m_watches[w] \in m_accounts

\* An incoming call whose callback has not posted is nowhere else.
WorkerFresh ==
  worker.kind = "incoming" /\ ~PjsuaLockFree =>
    /\ worker.id \notin known
    /\ \A i \in DOMAIN queue : queue[i].type = "incoming" => queue[i].id # worker.id

\* A queued incoming call is queued once, and its listener does not know it yet.
QueuedOnce ==
  /\ \A i \in DOMAIN queue : queue[i].type = "incoming" => queue[i].id \notin known
  /\ \A i, j \in DOMAIN queue :
       queue[i].type = "incoming" /\ queue[j].type = "incoming" /\ queue[i].id = queue[j].id
         => i = j

\* An incoming call on its way to the listener has its wrapper.
OnItsWayLive ==
  MainIdle =>
    /\ worker.kind = "incoming" /\ worker.steps \in {ToLoad, ToEnqueue} =>
         worker.id \in m_calls
    /\ \A i \in DOMAIN queue :
         queue[i].type = "incoming" /\ queue[i].epoch = m_epoch => queue[i].id \in m_calls

IncomingOK == WorkerFresh /\ QueuedOnce /\ OnItsWayLive

\* No event is of a later epoch, and of the present one only while running.
EpochsOK ==
  /\ worker.epoch <= m_epoch
  /\ \A i \in DOMAIN queue : queue[i].epoch <= m_epoch
  /\ MainIdle /\ ~running => \A i \in DOMAIN queue : queue[i].epoch < m_epoch

IInv ==
  /\ TypeOK /\ ThreadsOK /\ FreshIds /\ StagesOK /\ BuddiesOwned
  /\ IncomingOK /\ EpochsOK /\ KnownCallsLive

-----------------------------------------------------------------------------
(* Facts about the operators.                                              *)

\* The lists of steps differ, and tell whether the PJSUA lock is held.
LEMMA StepFacts ==
  /\ PjsuaLockFree <=> worker.steps \in {<<>>, ToReturn}
  /\ ToReturn # <<>> /\ ToEnqueue # <<>> /\ ToLoad # <<>> /\ ToInsert # <<>>
  /\ ToEnqueue # ToReturn /\ ToLoad # ToReturn /\ ToInsert # ToReturn
  /\ ToLoad # ToEnqueue /\ ToInsert # ToEnqueue /\ ToLoad # ToInsert
  BY DEF PjsuaLockFree, ToReturn, ToEnqueue, ToLoad, ToInsert

\* The next step of a callback tells what it has left.
LEMMA AtFacts ==
  ASSUME worker.steps \in StepLists
  PROVE  /\ At("insert") => worker.steps = ToInsert /\ Rest = ToLoad
         /\ At("load") => worker.steps = ToLoad /\ Rest = ToEnqueue
         /\ At("enqueue") => worker.steps = ToEnqueue /\ Rest = ToReturn
         /\ At("tail") => worker.steps = ToReturn
  <1> USE DEF At, Rest
  <1>1. CASE worker.steps = <<>>
    BY <1>1
  <1>2. CASE worker.steps = ToReturn
    BY <1>2 DEF ToReturn
  <1>3. CASE worker.steps = ToEnqueue
    <2>1. Head(ToEnqueue) = "enqueue" /\ Tail(ToEnqueue) = ToReturn
      BY DEF ToEnqueue, ToReturn
    <2> QED
      BY <1>3, <2>1
  <1>4. CASE worker.steps = ToLoad
    <2>1. Head(ToLoad) = "load" /\ Tail(ToLoad) = ToEnqueue
      BY DEF ToLoad, ToEnqueue
    <2> QED
      BY <1>4, <2>1
  <1>5. CASE worker.steps = ToInsert
    <2>1. Head(ToInsert) = "insert" /\ Tail(ToInsert) = ToLoad
      BY DEF ToInsert, ToLoad
    <2> QED
      BY <1>5, <2>1
  <1> QED
    BY <1>1, <1>2, <1>3, <1>4, <1>5 DEF StepLists

\* The steps a new callback starts with.
LEMMA ListFacts ==
  /\ CallbackSteps("incoming") = ToInsert
  /\ CallbackSteps("account") = ToLoad /\ CallbackSteps("presence") = ToLoad
  /\ CallbackSteps("state") = ToLoad
  BY DEF CallbackSteps, ToInsert, ToLoad

\* An event at the end of the queue.
LEMMA AppendFacts ==
  ASSUME NEW S, NEW q \in Seq(S), NEW e \in S
  PROVE  /\ Append(q, e) \in Seq(S)
         /\ Len(q) \in Nat /\ DOMAIN q = 1..Len(q)
         /\ \A i \in DOMAIN Append(q, e) :
              \/ i \in DOMAIN q /\ Append(q, e)[i] = q[i]
              \/ i = Len(q) + 1 /\ Append(q, e)[i] = e
  OBVIOUS

\* The queue without its first event.
LEMMA TailFacts ==
  ASSUME NEW S, NEW q \in Seq(S), q # <<>>
  PROVE  /\ Tail(q) \in Seq(S)
         /\ 1 \in DOMAIN q /\ Head(q) = q[1] /\ q[1] \in S
         /\ \A i \in DOMAIN Tail(q) : i \in Nat \ {0} /\ i + 1 \in DOMAIN q /\ Tail(q)[i] = q[i + 1]
  OBVIOUS

\* The fields of a queued event have their types.
LEMMA QueueTyped ==
  ASSUME TypeOK
  PROVE  \A i \in DOMAIN queue :
           queue[i] \in QueuedEvent /\ queue[i].id \in Nat /\ queue[i].epoch \in Nat
  <1> SUFFICES ASSUME NEW i \in DOMAIN queue
               PROVE  queue[i] \in QueuedEvent /\ queue[i].id \in Nat /\ queue[i].epoch \in Nat
    OBVIOUS
  <1>1. queue[i] \in QueuedEvent
    BY DEF TypeOK
  <1> QED
    BY <1>1 DEF QueuedEvent

\* A step that touches neither the queue, the worker nor the calls.
LEMMA IncomingFrame ==
  ASSUME IncomingOK, UNCHANGED <<alive, main, worker, queue, m_epoch, known, m_calls>>
  PROVE  IncomingOK'
  BY DEF IncomingOK, WorkerFresh, QueuedOnce, OnItsWayLive, MainIdle, PjsuaLockFree

\* A step of a teardown that touches neither the queue nor the worker.
LEMMA IncomingBusy ==
  ASSUME IncomingOK, main'.at # "idle", UNCHANGED <<worker, queue, known>>
  PROVE  IncomingOK'
  BY DEF IncomingOK, WorkerFresh, QueuedOnce, OnItsWayLive, MainIdle, PjsuaLockFree

-----------------------------------------------------------------------------
(* Each operation preserves the invariant.                                 *)

\* start() only changes the running flag.
LEMMA StartInv ==
  ASSUME IInv, Start
  PROVE  IInv'
  <1> USE DEF IInv, objects, dispatch, ids, counts
  <1>1. TypeOK'
    BY DEF Start, TypeOK
  <1>2. ThreadsOK'
    BY DEF Start, ThreadsOK
  <1>3. FreshIds'
    BY DEF Start, FreshIds, Wrappers
  <1>4. StagesOK'
    BY DEF Start, StagesOK, MainIdle
  <1>5. BuddiesOwned'
    BY DEF Start, BuddiesOwned
  <1>6. IncomingOK'
    BY IncomingFrame DEF Start
  <1>7. EpochsOK'
    BY DEF Start, EpochsOK
  <1>8. KnownCallsLive'
    BY DEF Start, KnownCallsLive
  <1> QED
    BY <1>1, <1>2, <1>3, <1>4, <1>5, <1>6, <1>7, <1>8

\* setListener() makes everything queued an earlier epoch's.
LEMMA SetListenerInv ==
  ASSUME IInv, NEW listener \in BOOLEAN, SetListener(listener)
  PROVE  IInv'
  <1> USE DEF IInv, objects, dispatch, ids, counts
  <1>1. TypeOK'
    BY DEF SetListener, TypeOK
  <1>2. ThreadsOK'
    BY DEF SetListener, ThreadsOK
  <1>3. FreshIds'
    BY DEF SetListener, FreshIds, Wrappers
  <1>4. StagesOK'
    BY DEF SetListener, StagesOK, Dismantled, Wrappers, PjsuaLockFree
  <1>5. BuddiesOwned'
    BY DEF SetListener, BuddiesOwned
  <1>6. IncomingOK'
    <2>1. m_epoch' = m_epoch + 1 /\ known' = {}
          /\ UNCHANGED <<alive, main, worker, queue, m_calls>>
      BY DEF SetListener
    <2>2. \A i \in DOMAIN queue : queue[i].epoch <= m_epoch /\ queue[i].epoch \in Nat
      BY QueueTyped DEF EpochsOK
    <2>3. \A i \in DOMAIN queue : queue[i].epoch # m_epoch'
      BY <2>1, <2>2 DEF TypeOK
    <2> QED
      BY <2>1, <2>3
         DEF IncomingOK, WorkerFresh, QueuedOnce, OnItsWayLive, MainIdle, PjsuaLockFree
  <1>7. EpochsOK'
    <2>1. m_epoch' = m_epoch + 1 /\ UNCHANGED <<worker, queue>>
      BY DEF SetListener
    <2>2. \A i \in DOMAIN queue : queue[i].epoch <= m_epoch /\ queue[i].epoch \in Nat
      BY QueueTyped DEF EpochsOK
    <2>3. worker.epoch \in Nat /\ m_epoch \in Nat /\ worker.epoch <= m_epoch
      BY DEF ThreadsOK, TypeOK, EpochsOK
    <2> QED
      BY <2>1, <2>2, <2>3 DEF EpochsOK
  <1>8. KnownCallsLive'
    BY DEF SetListener, KnownCallsLive
  <1> QED
    BY <1>1, <1>2, <1>3, <1>4, <1>5, <1>6, <1>7, <1>8

\* A new account has a new id.
LEMMA AddAccountInv ==
  ASSUME IInv, AddAccount
  PROVE  IInv'
  <1> USE DEF IInv, objects, dispatch, ids, counts
  <1>1. TypeOK'
    BY DEF AddAccount, TypeOK
  <1>2. ThreadsOK'
    BY DEF AddAccount, ThreadsOK
  <1>3. FreshIds'
    BY DEF AddAccount, AccountIds, FreshIds, TypeOK, Wrappers
  <1>4. StagesOK'
    BY DEF AddAccount, MainIdle, StagesOK
  <1>5. BuddiesOwned'
    BY DEF AddAccount, BuddiesOwned
  <1>6. IncomingOK'
    BY IncomingFrame DEF AddAccount
  <1>7. EpochsOK'
    BY DEF AddAccount, EpochsOK
  <1>8. KnownCallsLive'
    BY DEF AddAccount, KnownCallsLive
  <1> QED
    BY <1>1, <1>2, <1>3, <1>4, <1>5, <1>6, <1>7, <1>8

\* The watches of a removed account go with it.
LEMMA RemoveAccountInv ==
  ASSUME IInv, NEW acc \in AccountIds, RemoveAccount(acc)
  PROVE  IInv'
  <1> USE DEF IInv, objects, dispatch, ids, counts
  <1>1. TypeOK'
    BY DEF RemoveAccount, TypeOK
  <1>2. ThreadsOK'
    BY DEF RemoveAccount, ThreadsOK
  <1>3. FreshIds'
    BY DEF RemoveAccount, FreshIds, Wrappers
  <1>4. StagesOK'
    BY DEF RemoveAccount, StagesOK, Dismantled
  <1>5. BuddiesOwned'
    BY DEF RemoveAccount, WatchesOf, BuddiesOwned, TypeOK
  <1>6. IncomingOK'
    BY IncomingFrame DEF RemoveAccount
  <1>7. EpochsOK'
    BY DEF RemoveAccount, EpochsOK
  <1>8. KnownCallsLive'
    BY DEF RemoveAccount, KnownCallsLive
  <1> QED
    BY <1>1, <1>2, <1>3, <1>4, <1>5, <1>6, <1>7, <1>8

\* A new watch has a new id and belongs to an account.
LEMMA WatchAccountInv ==
  ASSUME IInv, NEW acc \in AccountIds, WatchAccount(acc)
  PROVE  IInv'
  <1> USE DEF IInv, objects, dispatch, ids, counts
  <1>1. TypeOK'
    <2>1. m_watches' \in [WatchIds -> AccountIds \cup {None}]
      BY DEF WatchAccount, TypeOK
    <2>2. buddies' \subseteq WatchIds /\ nextWatchId' \in Nat
      BY DEF WatchAccount, TypeOK
    <2> QED
      BY <2>1, <2>2 DEF WatchAccount, TypeOK
  <1>2. ThreadsOK'
    BY DEF WatchAccount, ThreadsOK
  <1>3. FreshIds'
    BY DEF WatchAccount, WatchIds, FreshIds, Wrappers
  <1>4. StagesOK'
    BY DEF WatchAccount, MainIdle, StagesOK
  <1>5. BuddiesOwned'
    BY DEF WatchAccount, BuddiesOwned, TypeOK
  <1>6. IncomingOK'
    BY IncomingFrame DEF WatchAccount
  <1>7. EpochsOK'
    BY DEF WatchAccount, EpochsOK
  <1>8. KnownCallsLive'
    BY DEF WatchAccount, KnownCallsLive
  <1> QED
    BY <1>1, <1>2, <1>3, <1>4, <1>5, <1>6, <1>7, <1>8

\* An unwatched id has no buddy.
LEMMA UnwatchInv ==
  ASSUME IInv, NEW w \in WatchIds, Unwatch(w)
  PROVE  IInv'
  <1> USE DEF IInv, objects, dispatch, ids, counts
  <1>1. TypeOK'
    BY DEF Unwatch, TypeOK
  <1>2. ThreadsOK'
    BY DEF Unwatch, ThreadsOK
  <1>3. FreshIds'
    BY DEF Unwatch, FreshIds, Wrappers
  <1>4. StagesOK'
    BY DEF Unwatch, StagesOK, Dismantled
  <1>5. BuddiesOwned'
    BY DEF Unwatch, BuddiesOwned
  <1>6. IncomingOK'
    BY IncomingFrame DEF Unwatch
  <1>7. EpochsOK'
    BY DEF Unwatch, EpochsOK
  <1>8. KnownCallsLive'
    BY DEF Unwatch, KnownCallsLive
  <1> QED
    BY <1>1, <1>2, <1>3, <1>4, <1>5, <1>6, <1>7, <1>8

\* makeCall() queues at most a state event, no incoming call.
LEMMA MakeCallQueue ==
  ASSUME IInv, NEW acc \in AccountIds, MakeCall(acc)
  PROVE  \A i \in DOMAIN queue' :
           queue'[i].type = "incoming" => i \in DOMAIN queue /\ queue'[i] = queue[i]
  <1>1. Event("state", nextCallId) \in QueuedEvent /\ Event("state", nextCallId).type = "state"
    BY DEF IInv, TypeOK, Event, QueuedEvent
  <1> QED
    <2>1. CASE queue' = queue
      BY <2>1
    <2>2. CASE queue' = Append(queue, Event("state", nextCallId))
      BY <1>1, <2>2 DEF IInv
    <2> QED
      BY <2>1, <2>2 DEF MakeCall

\* An outgoing call has a new id and is known with its wrapper.
LEMMA MakeCallInv ==
  ASSUME IInv, NEW acc \in AccountIds, MakeCall(acc)
  PROVE  IInv'
  <1> USE DEF IInv, objects, dispatch, ids, counts
  <1>1. TypeOK'
    <2>1. Event("state", nextCallId) \in QueuedEvent
      BY DEF TypeOK, Event, QueuedEvent
    <2>2. Append(queue, Event("state", nextCallId)) \in Seq(QueuedEvent)
      <3>1. queue \in Seq(QueuedEvent)
        BY DEF TypeOK
      <3> QED
        BY <2>1, <3>1
    <2>3. queue' \in Seq(QueuedEvent)
      BY <2>2 DEF MakeCall
    <2> QED
      BY <2>3 DEF MakeCall, TypeOK
  <1>2. ThreadsOK'
    BY DEF MakeCall, ThreadsOK
  <1>3. FreshIds'
    <2>1. nextCallId \in Nat /\ nextCallId' = nextCallId + 1
      BY DEF MakeCall, TypeOK
    <2>2. Wrappers' \cup known' \subseteq Wrappers \cup known \cup {nextCallId}
      BY DEF MakeCall, Wrappers
    <2>3. \A c \in Wrappers \cup known : c \in Nat
      BY DEF TypeOK, Wrappers, CallIds
    <2>4. \A c \in Wrappers' \cup known' : c < nextCallId'
      BY <2>1, <2>2, <2>3 DEF FreshIds
    <2>5. UNCHANGED <<m_accounts, m_watches, nextAccountId, nextWatchId, worker>>
      BY DEF MakeCall
    <2>6. worker.kind = "incoming" => worker.id \in CallIds /\ worker.id < nextCallId'
      BY <2>1 DEF FreshIds, CallIds
    <2>7. \A i \in DOMAIN queue' : queue'[i].type = "incoming" => i \in DOMAIN queue /\ queue'[i] = queue[i]
      BY MakeCallQueue
    <2>8. \A i \in DOMAIN queue' :
             queue'[i].type = "incoming" => queue'[i].id \in CallIds /\ queue'[i].id < nextCallId'
      BY <2>1, <2>7 DEF FreshIds, CallIds
    <2> QED
      BY <2>4, <2>5, <2>6, <2>8 DEF FreshIds
  <1>4. StagesOK'
    BY DEF MakeCall, StagesOK, Dismantled
  <1>5. BuddiesOwned'
    BY DEF MakeCall, BuddiesOwned
  <1>6. IncomingOK'
    <2>1. \A i \in DOMAIN queue' : queue'[i].type = "incoming" => i \in DOMAIN queue /\ queue'[i] = queue[i]
      BY MakeCallQueue
    <2>2. known' \subseteq known \cup {nextCallId} /\ m_calls \subseteq m_calls'
          /\ UNCHANGED <<alive, main, worker, m_epoch>>
      BY DEF MakeCall
    <2>3. worker.kind = "incoming" => worker.id # nextCallId
      BY DEF FreshIds, CallIds
    <2>4. \A i \in DOMAIN queue : queue[i].type = "incoming" => queue[i].id # nextCallId
      BY DEF FreshIds, CallIds
    <2>5. WorkerFresh'
      BY <2>1, <2>2, <2>3 DEF IncomingOK, WorkerFresh, PjsuaLockFree
    <2>6. QueuedOnce'
      BY <2>1, <2>2, <2>4 DEF IncomingOK, QueuedOnce
    <2>7. OnItsWayLive'
      BY <2>1, <2>2 DEF IncomingOK, OnItsWayLive, MainIdle
    <2> QED
      BY <2>5, <2>6, <2>7 DEF IncomingOK
  <1>7. EpochsOK'
    <2>1. running /\ UNCHANGED <<running, worker, m_epoch>>
      BY DEF MakeCall, MainIdle, StagesOK, Dismantled
    <2>2. Event("state", nextCallId) \in QueuedEvent /\ Event("state", nextCallId).epoch <= m_epoch
      BY DEF TypeOK, Event, QueuedEvent
    <2>3. \A i \in DOMAIN queue' : queue'[i].epoch <= m_epoch
      BY <2>2 DEF MakeCall, EpochsOK
    <2> QED
      BY <2>1, <2>3 DEF EpochsOK
  <1>8. KnownCallsLive'
    BY DEF MakeCall, KnownCallsLive
  <1> QED
    BY <1>1, <1>2, <1>3, <1>4, <1>5, <1>6, <1>7, <1>8

\* The wrapper of a released call is parked; it was on no other path.
LEMMA ReleaseCallInv ==
  ASSUME IInv, NEW c \in CallIds, ReleaseCall(c)
  PROVE  IInv'
  <1> USE DEF IInv, objects, dispatch, ids, counts
  <1>1. TypeOK'
    <2>1. Event("grace", c) \in QueuedEvent
      BY DEF TypeOK, Event, QueuedEvent, CallIds
    <2>2. graceTimers' \subseteq QueuedEvent
      BY <2>1 DEF ReleaseCall, Park, TypeOK
    <2>3. m_calls' \cup m_graceCalls' \cup doomed \cup known' \subseteq CallIds
      BY DEF ReleaseCall, Park, TypeOK
    <2> QED
      BY <2>2, <2>3 DEF ReleaseCall, TypeOK
  <1>2. ThreadsOK'
    BY DEF ReleaseCall, ThreadsOK
  <1>3. FreshIds'
    BY DEF ReleaseCall, Park, FreshIds, Wrappers
  <1>4. StagesOK'
    BY DEF ReleaseCall, MainIdle, StagesOK, Dismantled, Wrappers, PjsuaLockFree
  <1>5. BuddiesOwned'
    BY DEF ReleaseCall, BuddiesOwned
  <1>6. IncomingOK'
    <2>1. c \in known /\ known' = known \ {c} /\ m_calls \ {c} \subseteq m_calls'
          /\ UNCHANGED <<alive, main, worker, queue, m_epoch>>
      BY DEF ReleaseCall
    <2>2. worker.kind = "incoming" /\ worker.steps \in {ToLoad, ToEnqueue} => worker.id # c
      BY <2>1, StepFacts DEF IncomingOK, WorkerFresh
    <2> QED
      BY <2>1, <2>2
         DEF IncomingOK, WorkerFresh, QueuedOnce, OnItsWayLive, MainIdle, PjsuaLockFree
  <1>7. EpochsOK'
    BY DEF ReleaseCall, EpochsOK
  <1>8. KnownCallsLive'
    BY DEF ReleaseCall, KnownCallsLive
  <1> QED
    BY <1>1, <1>2, <1>3, <1>4, <1>5, <1>6, <1>7, <1>8

\* Delivery shifts the queue, and a listener learns at most the call at its head.
LEMMA DeliverQueue ==
  ASSUME IInv, Deliver
  PROVE  /\ \A i \in DOMAIN queue' :
              i \in Nat \ {0} /\ i + 1 \in DOMAIN queue /\ queue'[i] = queue[i + 1]
         /\ 1 \in DOMAIN queue
         /\ \/ known' = known
            \/ /\ queue[1].type = "incoming" /\ queue[1].epoch = m_epoch
               /\ known' = known \cup {queue[1].id}
  BY DEF IInv, Deliver, Accepted

\* A delivered incoming call had its wrapper and becomes known once.
LEMMA DeliverInv ==
  ASSUME IInv, Deliver
  PROVE  IInv'
  <1> USE DEF IInv, objects, dispatch, ids, counts
  <1>1. TypeOK'
    <2>1. queue' \in Seq(QueuedEvent)
      BY DEF Deliver, TypeOK
    <2>2. known' \subseteq CallIds
      BY DeliverQueue DEF TypeOK, FreshIds
    <2> QED
      BY <2>1, <2>2 DEF Deliver, TypeOK
  <1>2. ThreadsOK'
    BY DEF Deliver, ThreadsOK
  <1>3. FreshIds'
    <2>1. UNCHANGED <<objects, ids, worker>>
      BY DEF Deliver
    <2>2. \A c \in known' : c < nextCallId
      BY DeliverQueue DEF FreshIds
    <2>3. \A i \in DOMAIN queue' :
            queue'[i].type = "incoming" => queue'[i].id \in CallIds /\ queue'[i].id < nextCallId
      BY DeliverQueue DEF FreshIds
    <2> QED
      BY <2>1, <2>2, <2>3 DEF FreshIds, Wrappers
  <1>4. StagesOK'
    BY DEF Deliver, StagesOK, Dismantled, Wrappers, PjsuaLockFree
  <1>5. BuddiesOwned'
    BY DEF Deliver, BuddiesOwned
  <1>6. IncomingOK'
    <2>1. UNCHANGED <<alive, main, worker, m_epoch, m_calls>> /\ MainIdle
      BY DEF Deliver
    <2>2. WorkerFresh'
      BY <2>1, DeliverQueue DEF IncomingOK, WorkerFresh, PjsuaLockFree
    <2>3. \A i \in DOMAIN queue' : queue'[i].type = "incoming" => queue'[i].id \notin known'
      BY DeliverQueue DEF IncomingOK, QueuedOnce
    <2>4. \A i, j \in DOMAIN queue' :
            queue'[i].type = "incoming" /\ queue'[j].type = "incoming"
              /\ queue'[i].id = queue'[j].id => i = j
      BY DeliverQueue DEF IncomingOK, QueuedOnce
    <2>5. OnItsWayLive'
      BY <2>1, DeliverQueue DEF IncomingOK, OnItsWayLive
    <2> QED
      BY <2>2, <2>3, <2>4, <2>5 DEF IncomingOK, QueuedOnce
  <1>7. EpochsOK'
    <2>1. UNCHANGED <<alive, main, running, worker, m_epoch>>
      BY DEF Deliver
    <2> QED
      BY <2>1, DeliverQueue DEF EpochsOK, MainIdle
  <1>8. KnownCallsLive'
    <2>1. UNCHANGED <<alive, main, m_epoch, m_calls>> /\ MainIdle
      BY DEF Deliver
    <2> QED
      BY <2>1, DeliverQueue DEF KnownCallsLive, IncomingOK, OnItsWayLive
  <1> QED
    BY <1>1, <1>2, <1>3, <1>4, <1>5, <1>6, <1>7, <1>8

\* A grace timer only takes parked wrappers.
LEMMA GraceTimerFiresInv ==
  ASSUME IInv, NEW t \in graceTimers, GraceTimerFires(t)
  PROVE  IInv'
  <1> USE DEF IInv, objects, dispatch, ids, counts
  <1>1. TypeOK'
    BY DEF GraceTimerFires, TypeOK
  <1>2. ThreadsOK'
    BY DEF GraceTimerFires, ThreadsOK
  <1>3. FreshIds'
    BY DEF GraceTimerFires, FreshIds, Wrappers
  <1>4. StagesOK'
    BY DEF GraceTimerFires, StagesOK, Dismantled, Wrappers, PjsuaLockFree
  <1>5. BuddiesOwned'
    BY DEF GraceTimerFires, BuddiesOwned
  <1>6. IncomingOK'
    BY IncomingFrame DEF GraceTimerFires
  <1>7. EpochsOK'
    BY DEF GraceTimerFires, EpochsOK
  <1>8. KnownCallsLive'
    BY DEF GraceTimerFires, KnownCallsLive
  <1> QED
    BY <1>1, <1>2, <1>3, <1>4, <1>5, <1>6, <1>7, <1>8

\* stop() begins with every object in place.
LEMMA BeginStopInv ==
  ASSUME IInv, BeginStop
  PROVE  IInv'
  <1> USE DEF IInv, objects, dispatch, ids, counts
  <1>1. TypeOK'
    BY DEF BeginStop, TypeOK
  <1>2. ThreadsOK'
    BY DEF BeginStop, MainIdle, ThreadsOK, MainSteps
  <1>3. FreshIds'
    BY DEF BeginStop, FreshIds, Wrappers
  <1>4. StagesOK'
    BY DEF BeginStop, StagesOK, MainIdle
  <1>5. BuddiesOwned'
    BY DEF BeginStop, BuddiesOwned
  <1>6. IncomingOK'
    BY IncomingBusy DEF BeginStop
  <1>7. EpochsOK'
    BY DEF BeginStop, EpochsOK
  <1>8. KnownCallsLive'
    BY DEF BeginStop, KnownCallsLive
  <1> QED
    BY <1>1, <1>2, <1>3, <1>4, <1>5, <1>6, <1>7, <1>8

\* So does the destructor.
LEMMA BeginDestructorInv ==
  ASSUME IInv, BeginDestructor
  PROVE  IInv'
  <1> USE DEF IInv, objects, dispatch, ids, counts
  <1>1. TypeOK'
    BY DEF BeginDestructor, TypeOK
  <1>2. ThreadsOK'
    BY DEF BeginDestructor, MainIdle, ThreadsOK, MainSteps
  <1>3. FreshIds'
    BY DEF BeginDestructor, FreshIds, Wrappers
  <1>4. StagesOK'
    BY DEF BeginDestructor, StagesOK, MainIdle
  <1>5. BuddiesOwned'
    BY DEF BeginDestructor, BuddiesOwned
  <1>6. IncomingOK'
    BY IncomingBusy DEF BeginDestructor
  <1>7. EpochsOK'
    BY DEF BeginDestructor, EpochsOK
  <1>8. KnownCallsLive'
    BY DEF BeginDestructor, KnownCallsLive
  <1> QED
    BY <1>1, <1>2, <1>3, <1>4, <1>5, <1>6, <1>7, <1>8

\* The calls are swapped out.
LEMMA SwapCallsInv ==
  ASSUME IInv, SwapCalls
  PROVE  IInv'
  <1> USE DEF IInv, objects, dispatch, ids, counts
  <1>1. TypeOK'
    BY DEF SwapCalls, Go, TypeOK
  <1>2. ThreadsOK'
    BY DEF SwapCalls, Go, ThreadsOK, MainSteps
  <1>3. FreshIds'
    BY DEF SwapCalls, FreshIds, Wrappers
  <1>4. StagesOK'
    BY DEF SwapCalls, Go, StagesOK, ThreadsOK
  <1>5. BuddiesOwned'
    BY DEF SwapCalls, BuddiesOwned
  <1>6. IncomingOK'
    BY IncomingBusy DEF SwapCalls, Go
  <1>7. EpochsOK'
    BY DEF SwapCalls, Go, EpochsOK, MainIdle
  <1>8. KnownCallsLive'
    BY DEF SwapCalls, Go, KnownCallsLive, MainIdle
  <1> QED
    BY <1>1, <1>2, <1>3, <1>4, <1>5, <1>6, <1>7, <1>8

\* The calls swapped out and the parked ones are gone.
LEMMA DestroyCallsInv ==
  ASSUME IInv, DestroyCalls
  PROVE  IInv'
  <1> USE DEF IInv, objects, dispatch, ids, counts
  <1>1. TypeOK'
    BY DEF DestroyCalls, Go, TypeOK
  <1>2. ThreadsOK'
    BY DEF DestroyCalls, Go, ThreadsOK, MainSteps
  <1>3. FreshIds'
    BY DEF DestroyCalls, FreshIds, Wrappers
  <1>4. StagesOK'
    BY DEF DestroyCalls, Go, StagesOK, ThreadsOK
  <1>5. BuddiesOwned'
    BY DEF DestroyCalls, BuddiesOwned
  <1>6. IncomingOK'
    BY IncomingBusy DEF DestroyCalls, Go
  <1>7. EpochsOK'
    BY DEF DestroyCalls, Go, EpochsOK, MainIdle
  <1>8. KnownCallsLive'
    BY DEF DestroyCalls, Go, KnownCallsLive, MainIdle
  <1> QED
    BY <1>1, <1>2, <1>3, <1>4, <1>5, <1>6, <1>7, <1>8

\* No watch and no buddy is left.
LEMMA ClearWatchesInv ==
  ASSUME IInv, ClearWatches
  PROVE  IInv'
  <1> USE DEF IInv, objects, dispatch, ids, counts
  <1>1. TypeOK'
    BY DEF ClearWatches, Go, TypeOK
  <1>2. ThreadsOK'
    BY DEF ClearWatches, Go, ThreadsOK, MainSteps
  <1>3. FreshIds'
    BY DEF ClearWatches, FreshIds, Wrappers
  <1>4. StagesOK'
    BY DEF ClearWatches, Go, StagesOK, ThreadsOK
  <1>5. BuddiesOwned'
    BY DEF ClearWatches, BuddiesOwned
  <1>6. IncomingOK'
    BY IncomingBusy DEF ClearWatches, Go
  <1>7. EpochsOK'
    BY DEF ClearWatches, Go, EpochsOK, MainIdle
  <1>8. KnownCallsLive'
    BY DEF ClearWatches, Go, KnownCallsLive, MainIdle
  <1> QED
    BY <1>1, <1>2, <1>3, <1>4, <1>5, <1>6, <1>7, <1>8

\* No account is left, and no callback of one is under way.
LEMMA ClearAccountsInv ==
  ASSUME IInv, ClearAccounts
  PROVE  IInv'
  <1> USE DEF IInv, objects, dispatch, ids, counts
  <1>1. TypeOK'
    BY DEF ClearAccounts, AccountsLeft, Go, TypeOK
  <1>2. ThreadsOK'
    BY DEF ClearAccounts, Go, ThreadsOK, MainSteps
  <1>3. FreshIds'
    BY DEF ClearAccounts, AccountsLeft, FreshIds, Wrappers
  <1>4. StagesOK'
    BY DEF ClearAccounts, AccountsLeft, Go, StagesOK, ThreadsOK, PjsuaLockFree
  <1>5. BuddiesOwned'
    BY DEF ClearAccounts, BuddiesOwned, StagesOK
  <1>6. IncomingOK'
    BY IncomingBusy DEF ClearAccounts, Go
  <1>7. EpochsOK'
    BY DEF ClearAccounts, Go, EpochsOK, MainIdle
  <1>8. KnownCallsLive'
    BY DEF ClearAccounts, Go, KnownCallsLive, MainIdle
  <1> QED
    BY <1>1, <1>2, <1>3, <1>4, <1>5, <1>6, <1>7, <1>8

\* What an incoming call inserted meanwhile is swapped out.
LEMMA SweepInv ==
  ASSUME IInv, Sweep
  PROVE  IInv'
  <1> USE DEF IInv, objects, dispatch, ids, counts
  <1>1. TypeOK'
    BY DEF Sweep, SweepStragglers, Go, TypeOK
  <1>2. ThreadsOK'
    BY DEF Sweep, Go, ThreadsOK, MainSteps
  <1>3. FreshIds'
    BY DEF Sweep, SweepStragglers, FreshIds, Wrappers
  <1>4. StagesOK'
    BY DEF Sweep, SweepStragglers, Go, StagesOK, ThreadsOK, PjsuaLockFree
  <1>5. BuddiesOwned'
    BY DEF Sweep, BuddiesOwned
  <1>6. IncomingOK'
    BY IncomingBusy DEF Sweep, Go
  <1>7. EpochsOK'
    BY DEF Sweep, Go, EpochsOK, MainIdle
  <1>8. KnownCallsLive'
    BY DEF Sweep, Go, KnownCallsLive, MainIdle
  <1> QED
    BY <1>1, <1>2, <1>3, <1>4, <1>5, <1>6, <1>7, <1>8

\* With the stragglers gone nothing is left to call back.
LEMMA DestroyStragglersInv ==
  ASSUME IInv, DestroyStragglers
  PROVE  IInv'
  <1> USE DEF IInv, objects, dispatch, ids, counts
  <1>1. TypeOK'
    BY DEF DestroyStragglers, Go, TypeOK
  <1>2. ThreadsOK'
    BY DEF DestroyStragglers, Go, ThreadsOK, MainSteps
  <1>3. FreshIds'
    BY DEF DestroyStragglers, FreshIds, Wrappers
  <1>4. StagesOK'
    BY DEF DestroyStragglers, StagesOK, Dismantled, Wrappers, PjsuaLockFree
  <1>5. BuddiesOwned'
    BY DEF DestroyStragglers, BuddiesOwned
  <1>6. IncomingOK'
    BY IncomingBusy DEF DestroyStragglers, Go
  <1>7. EpochsOK'
    BY DEF DestroyStragglers, Go, EpochsOK, MainIdle
  <1>8. KnownCallsLive'
    BY DEF DestroyStragglers, Go, KnownCallsLive, MainIdle
  <1> QED
    BY <1>1, <1>2, <1>3, <1>4, <1>5, <1>6, <1>7, <1>8

\* stop() ends the epoch, the destructor the queue.
LEMMA FinishInv ==
  ASSUME IInv, Finish
  PROVE  IInv'
  <1> USE DEF IInv, objects, dispatch, ids, counts
  <1>1. TypeOK'
    <2>1. {alive', running', m_listener'} \subseteq BOOLEAN
      BY Zenon DEF Finish, TypeOK
    <2>2. m_epoch' \in Nat /\ known' \subseteq CallIds
      BY DEF Finish, EpochAfterStop, TypeOK
    <2>3. queue' \in Seq(QueuedEvent) /\ graceTimers' \subseteq QueuedEvent
      <3>1. CASE queue' = queue /\ graceTimers' = graceTimers
        BY <3>1 DEF TypeOK
      <3>2. CASE queue' = <<>> /\ graceTimers' = {}
        BY <3>2
      <3> QED
        BY <3>1, <3>2 DEF Finish
    <2>4. main'.at = "idle"
      BY DEF Finish, Go
    <2>5. UNCHANGED <<objects, ids, counts>>
      BY DEF Finish
    <2> QED
      BY <2>1, <2>2, <2>3, <2>4, <2>5 DEF TypeOK
  <1>2. ThreadsOK'
    BY DEF Finish, Go, ThreadsOK, MainSteps
  <1>3. FreshIds'
    BY DEF Finish, FreshIds, Wrappers
  <1>4. StagesOK'
    BY DEF Finish, StagesOK, Dismantled, Wrappers, PjsuaLockFree
  <1>5. BuddiesOwned'
    BY DEF Finish, BuddiesOwned
  <1>6. IncomingOK'
    <2>1. PjsuaLockFree /\ UNCHANGED worker
      BY DEF Finish, StagesOK, Dismantled
    <2>2. WorkerFresh' /\ worker'.steps \notin {ToLoad, ToEnqueue}
      BY <2>1, StepFacts DEF WorkerFresh, PjsuaLockFree
    <2>3. CASE main.dying
      <3>1. queue' = <<>> /\ ~MainIdle'
        BY <2>3 DEF Finish, MainIdle
      <3> QED
        BY <2>2, <3>1 DEF IncomingOK, QueuedOnce, OnItsWayLive
    <2>4. CASE ~main.dying
      <3>1. known' = {} /\ queue' = queue /\ m_epoch' = m_epoch + 1
        BY <2>4 DEF Finish, EpochAfterStop
      <3>2. \A i \in DOMAIN queue : queue[i].epoch # m_epoch'
        BY <3>1 DEF EpochsOK, TypeOK
      <3> QED
        BY <2>2, <3>1, <3>2 DEF IncomingOK, QueuedOnce, OnItsWayLive
    <2> QED
      BY <2>3, <2>4
  <1>7. EpochsOK'
    <2>1. worker' = worker /\ worker.epoch \in Nat /\ worker.epoch <= m_epoch /\ m_epoch \in Nat
      BY DEF Finish, ThreadsOK, EpochsOK, TypeOK
    <2>2. CASE main.dying
      <3>1. queue' = <<>> /\ m_epoch' = m_epoch
        BY <2>2 DEF Finish
      <3> QED
        BY <2>1, <3>1 DEF EpochsOK
    <2>3. CASE ~main.dying
      <3>1. queue' = queue /\ m_epoch' = m_epoch + 1
        BY <2>3 DEF Finish, EpochAfterStop
      <3>2. \A i \in DOMAIN queue : queue[i].epoch < m_epoch + 1 /\ queue[i].epoch <= m_epoch + 1
        BY <2>1, QueueTyped DEF EpochsOK
      <3> QED
        BY <2>1, <3>1, <3>2 DEF EpochsOK
    <2> QED
      BY <2>2, <2>3
  <1>8. KnownCallsLive'
    BY DEF Finish, KnownCallsLive, MainIdle
  <1> QED
    BY <1>1, <1>2, <1>3, <1>4, <1>5, <1>6, <1>7, <1>8

\* An incoming call has a new id.
LEMMA OnIncomingCallInv ==
  ASSUME IInv, NEW acc \in AccountIds, OnIncomingCall(acc)
  PROVE  IInv'
  <1> USE DEF IInv, objects, dispatch, ids, counts
  <1>1. TypeOK'
    BY DEF OnIncomingCall, Begin, TypeOK
  <1>2. ThreadsOK'
    BY ListFacts DEF OnIncomingCall, Begin, ThreadsOK, StepLists, CallIds
  <1>3. FreshIds'
    BY StepFacts DEF OnIncomingCall, Begin, CallIds, FreshIds, TypeOK, Wrappers
  <1>4. StagesOK'
    BY DEF OnIncomingCall, Begin, StagesOK, Dismantled
  <1>5. BuddiesOwned'
    BY DEF OnIncomingCall, Begin, BuddiesOwned
  <1>6. IncomingOK'
    <2>1. UNCHANGED <<alive, main, queue, m_epoch, known, m_calls>>
          /\ worker'.id = nextCallId /\ worker'.steps = ToInsert
      BY ListFacts DEF OnIncomingCall, Begin
    <2>2. nextCallId \notin known
      BY DEF FreshIds, TypeOK
    <2>3. \A i \in DOMAIN queue : queue[i].type = "incoming" => queue[i].id # nextCallId
      BY DEF FreshIds, TypeOK
    <2> QED
      BY <2>1, <2>2, <2>3, StepFacts
         DEF IncomingOK, WorkerFresh, QueuedOnce, OnItsWayLive, MainIdle
  <1>7. EpochsOK'
    BY DEF OnIncomingCall, Begin, EpochsOK, MainIdle, TypeOK
  <1>8. KnownCallsLive'
    BY DEF OnIncomingCall, Begin, KnownCallsLive, MainIdle
  <1> QED
    BY <1>1, <1>2, <1>3, <1>4, <1>5, <1>6, <1>7, <1>8

\* An account's callback begins only where an account is left.
LEMMA OnAccountEventInv ==
  ASSUME IInv, NEW acc \in AccountIds, OnAccountEvent(acc)
  PROVE  IInv'
  <1> USE DEF IInv, objects, dispatch, ids, counts
  <1>1. TypeOK'
    BY DEF OnAccountEvent, Begin, TypeOK
  <1>2. ThreadsOK'
    BY ListFacts, StepFacts DEF OnAccountEvent, Begin, ThreadsOK, StepLists, AccountIds
  <1>3. FreshIds'
    BY DEF OnAccountEvent, Begin, FreshIds, Wrappers
  <1>4. StagesOK'
    BY DEF OnAccountEvent, Begin, StagesOK, Dismantled
  <1>5. BuddiesOwned'
    BY DEF OnAccountEvent, Begin, BuddiesOwned
  <1>6. IncomingOK'
    <2>1. UNCHANGED <<alive, main, queue, m_epoch, known, m_calls>> /\ worker'.kind = "account"
      BY DEF OnAccountEvent, Begin
    <2> QED
      BY <2>1 DEF IncomingOK, WorkerFresh, QueuedOnce, OnItsWayLive, MainIdle
  <1>7. EpochsOK'
    BY DEF OnAccountEvent, Begin, EpochsOK, MainIdle, TypeOK
  <1>8. KnownCallsLive'
    BY DEF OnAccountEvent, Begin, KnownCallsLive, MainIdle
  <1> QED
    BY <1>1, <1>2, <1>3, <1>4, <1>5, <1>6, <1>7, <1>8

\* A buddy's callback begins only where a buddy is left.
LEMMA OnBuddyStateInv ==
  ASSUME IInv, NEW w \in WatchIds, OnBuddyState(w)
  PROVE  IInv'
  <1> USE DEF IInv, objects, dispatch, ids, counts
  <1>1. TypeOK'
    BY DEF OnBuddyState, Begin, TypeOK
  <1>2. ThreadsOK'
    BY ListFacts, StepFacts DEF OnBuddyState, Begin, ThreadsOK, StepLists, WatchIds
  <1>3. FreshIds'
    BY DEF OnBuddyState, Begin, FreshIds, Wrappers
  <1>4. StagesOK'
    BY DEF OnBuddyState, Begin, StagesOK, Dismantled
  <1>5. BuddiesOwned'
    BY DEF OnBuddyState, Begin, BuddiesOwned
  <1>6. IncomingOK'
    <2>1. UNCHANGED <<alive, main, queue, m_epoch, known, m_calls>> /\ worker'.kind = "presence"
      BY DEF OnBuddyState, Begin
    <2> QED
      BY <2>1 DEF IncomingOK, WorkerFresh, QueuedOnce, OnItsWayLive, MainIdle
  <1>7. EpochsOK'
    BY DEF OnBuddyState, Begin, EpochsOK, MainIdle, TypeOK
  <1>8. KnownCallsLive'
    BY DEF OnBuddyState, Begin, KnownCallsLive, MainIdle
  <1> QED
    BY <1>1, <1>2, <1>3, <1>4, <1>5, <1>6, <1>7, <1>8

\* A call's callback begins only where a wrapper is left.
LEMMA OnCallEventInv ==
  ASSUME IInv, NEW c \in CallIds, OnCallEvent(c)
  PROVE  IInv'
  <1> USE DEF IInv, objects, dispatch, ids, counts
  <1>1. TypeOK'
    BY DEF OnCallEvent, Begin, TypeOK
  <1>2. ThreadsOK'
    BY ListFacts, StepFacts DEF OnCallEvent, Begin, ThreadsOK, StepLists, CallIds
  <1>3. FreshIds'
    BY DEF OnCallEvent, Begin, Wrappers, FreshIds
  <1>4. StagesOK'
    BY DEF OnCallEvent, Begin, Wrappers, StagesOK, Dismantled
  <1>5. BuddiesOwned'
    BY DEF OnCallEvent, Begin, BuddiesOwned
  <1>6. IncomingOK'
    <2>1. UNCHANGED <<alive, main, queue, m_epoch, known, m_calls>> /\ worker'.kind = "state"
      BY DEF OnCallEvent, Begin
    <2> QED
      BY <2>1 DEF IncomingOK, WorkerFresh, QueuedOnce, OnItsWayLive, MainIdle
  <1>7. EpochsOK'
    BY DEF OnCallEvent, Begin, EpochsOK, MainIdle, TypeOK
  <1>8. KnownCallsLive'
    BY DEF OnCallEvent, Begin, KnownCallsLive, MainIdle
  <1> QED
    BY <1>1, <1>2, <1>3, <1>4, <1>5, <1>6, <1>7, <1>8

\* The wrapper of an incoming call is inserted before it is posted.
LEMMA InsertCallInv ==
  ASSUME IInv, InsertCall
  PROVE  IInv'
  <1> USE DEF IInv, objects, dispatch, ids, counts
  <1>1. TypeOK'
    <2>1. worker.id \in CallIds
      BY AtFacts DEF InsertCall, ThreadsOK, FreshIds
    <2> QED
      BY <2>1 DEF InsertCall, TypeOK
  <1>2. ThreadsOK'
    BY AtFacts DEF InsertCall, ThreadsOK, StepLists
  <1>3. FreshIds'
    BY AtFacts DEF InsertCall, Wrappers, FreshIds, ThreadsOK
  <1>4. StagesOK'
    BY AtFacts, StepFacts DEF InsertCall, StagesOK, ThreadsOK, Dismantled
  <1>5. BuddiesOwned'
    BY DEF InsertCall, BuddiesOwned
  <1>6. IncomingOK'
    <2>1. UNCHANGED <<alive, main, queue, m_epoch, known>> /\ m_calls' = m_calls \cup {worker.id}
      BY DEF InsertCall
    <2>2. worker.steps = ToInsert /\ worker'.kind = worker.kind /\ worker'.id = worker.id
      BY AtFacts DEF InsertCall, ThreadsOK
    <2> QED
      BY <2>1, <2>2, StepFacts DEF IncomingOK, WorkerFresh, QueuedOnce, OnItsWayLive, MainIdle
  <1>7. EpochsOK'
    BY DEF InsertCall, EpochsOK, MainIdle
  <1>8. KnownCallsLive'
    BY DEF InsertCall, KnownCallsLive, MainIdle
  <1> QED
    BY <1>1, <1>2, <1>3, <1>4, <1>5, <1>6, <1>7, <1>8

\* The epoch a callback reads is the present one.
LEMMA LoadEpochInv ==
  ASSUME IInv, LoadEpoch
  PROVE  IInv'
  <1> USE DEF IInv, objects, dispatch, ids, counts
  <1>1. TypeOK'
    BY DEF LoadEpoch, TypeOK
  <1>2. ThreadsOK'
    BY AtFacts, StepFacts DEF LoadEpoch, ThreadsOK, StepLists, TypeOK
  <1>3. FreshIds'
    BY DEF LoadEpoch, FreshIds, Wrappers
  <1>4. StagesOK'
    BY AtFacts, StepFacts DEF LoadEpoch, StagesOK, ThreadsOK, Dismantled
  <1>5. BuddiesOwned'
    BY DEF LoadEpoch, BuddiesOwned
  <1>6. IncomingOK'
    <2>1. UNCHANGED <<alive, main, queue, m_epoch, known, m_calls>>
      BY DEF LoadEpoch
    <2>2. worker.steps = ToLoad /\ worker'.kind = worker.kind /\ worker'.id = worker.id
      BY AtFacts DEF LoadEpoch, ThreadsOK
    <2> QED
      BY <2>1, <2>2, StepFacts DEF IncomingOK, WorkerFresh, QueuedOnce, OnItsWayLive, MainIdle
  <1>7. EpochsOK'
    BY DEF LoadEpoch, EpochsOK, MainIdle, TypeOK
  <1>8. KnownCallsLive'
    BY DEF LoadEpoch, KnownCallsLive, MainIdle
  <1> QED
    BY <1>1, <1>2, <1>3, <1>4, <1>5, <1>6, <1>7, <1>8

\* The worker's event goes to the end of the queue.
LEMMA EnqueueQueue ==
  ASSUME IInv, Enqueue
  PROVE  /\ queue' \in Seq(QueuedEvent)
         /\ \A i \in DOMAIN queue' :
              \/ i \in DOMAIN queue /\ queue'[i] = queue[i]
              \/ /\ i = Len(queue) + 1 /\ queue'[i].type = worker.kind
                 /\ queue'[i].id = worker.id /\ queue'[i].epoch = worker.epoch
  <1> DEFINE e == [type |-> worker.kind, id |-> worker.id, epoch |-> worker.epoch]
  <1>1. worker.kind # "none"
    BY AtFacts, StepFacts DEF IInv, Enqueue, ThreadsOK
  <1>2. e \in QueuedEvent
    BY <1>1 DEF IInv, ThreadsOK, QueuedEvent
  <1>3. queue' = Append(queue, e) /\ queue \in Seq(QueuedEvent)
    BY DEF IInv, TypeOK, Enqueue
  <1>4. e.type = worker.kind /\ e.id = worker.id /\ e.epoch = worker.epoch
    OBVIOUS
  <1> HIDE DEF e
  <1> QED
    BY <1>2, <1>3, <1>4

\* A posted incoming call is queued once, and posts only while running.
LEMMA EnqueueInv ==
  ASSUME IInv, Enqueue
  PROVE  IInv'
  <1> USE DEF IInv, objects, dispatch, ids, counts
  <1>1. TypeOK'
    <2>1. queue' \in Seq(QueuedEvent)
      BY EnqueueQueue
    <2> QED
      BY <2>1 DEF Enqueue, TypeOK
  <1>2. ThreadsOK'
    BY AtFacts, StepFacts DEF Enqueue, ThreadsOK, StepLists
  <1>3. FreshIds'
    <2>1. UNCHANGED <<objects, ids, known>> /\ worker'.kind = worker.kind /\ worker'.id = worker.id
      BY DEF Enqueue
    <2>2. \A i \in DOMAIN queue' :
            queue'[i].type = "incoming" => queue'[i].id \in CallIds /\ queue'[i].id < nextCallId
      BY EnqueueQueue DEF FreshIds
    <2> QED
      BY <2>1, <2>2 DEF FreshIds, Wrappers
  <1>4. StagesOK'
    BY AtFacts, StepFacts DEF Enqueue, StagesOK, ThreadsOK, Dismantled
  <1>5. BuddiesOwned'
    BY DEF Enqueue, BuddiesOwned
  <1>6. IncomingOK'
    <2>1. UNCHANGED <<alive, main, m_epoch, known, m_calls>>
      BY DEF Enqueue
    <2>2. worker.steps = ToEnqueue /\ worker'.steps = ToReturn
      BY AtFacts DEF Enqueue, ThreadsOK
    <2>3. WorkerFresh'
      BY <2>2 DEF WorkerFresh, PjsuaLockFree, ToReturn
    <2>4. worker.kind = "incoming" => worker.id \notin known
            /\ \A i \in DOMAIN queue : queue[i].type = "incoming" => queue[i].id # worker.id
      BY <2>2, StepFacts DEF IncomingOK, WorkerFresh
    <2>5. \A i \in DOMAIN queue' : queue'[i].type = "incoming" => queue'[i].id \notin known'
      BY <2>1, <2>4, EnqueueQueue DEF IncomingOK, QueuedOnce
    <2>6. \A i, j \in DOMAIN queue' :
            queue'[i].type = "incoming" /\ queue'[j].type = "incoming"
              /\ queue'[i].id = queue'[j].id => i = j
      BY <2>4, EnqueueQueue DEF IncomingOK, QueuedOnce
    <2>7. OnItsWayLive'
      BY <2>1, <2>2, StepFacts, EnqueueQueue DEF IncomingOK, OnItsWayLive, MainIdle
    <2> QED
      BY <2>3, <2>5, <2>6, <2>7 DEF IncomingOK, QueuedOnce
  <1>7. EpochsOK'
    <2>1. UNCHANGED <<alive, main, running, m_epoch>> /\ worker'.epoch = worker.epoch
      BY DEF Enqueue
    <2>2. ~(MainIdle /\ ~running)
      BY AtFacts, StepFacts DEF Enqueue, MainIdle, ThreadsOK, StagesOK, Dismantled
    <2> QED
      BY <2>1, <2>2, EnqueueQueue DEF EpochsOK, MainIdle
  <1>8. KnownCallsLive'
    BY DEF Enqueue, KnownCallsLive, MainIdle
  <1> QED
    BY <1>1, <1>2, <1>3, <1>4, <1>5, <1>6, <1>7, <1>8

\* A callback that has returned holds nothing.
LEMMA ReturnInv ==
  ASSUME IInv, Return
  PROVE  IInv'
  <1> USE DEF IInv, objects, dispatch, ids, counts
  <1>1. TypeOK'
    BY DEF Return, TypeOK
  <1>2. ThreadsOK'
    BY StepFacts DEF Return, Idle, None, ThreadsOK, StepLists
  <1>3. FreshIds'
    BY DEF Return, Idle, FreshIds, Wrappers
  <1>4. StagesOK'
    <2>1. worker'.steps = <<>> /\ PjsuaLockFree'
      BY DEF Return, Idle, PjsuaLockFree
    <2>2. UNCHANGED <<alive, running, main, objects>>
      BY DEF Return
    <2> QED
      BY <2>1, <2>2 DEF StagesOK, Dismantled, Wrappers
  <1>5. BuddiesOwned'
    BY DEF Return, BuddiesOwned
  <1>6. IncomingOK'
    <2>1. UNCHANGED <<alive, main, queue, m_epoch, known, m_calls>> /\ worker'.kind = "none"
      BY DEF Return, Idle
    <2> QED
      BY <2>1 DEF IncomingOK, WorkerFresh, QueuedOnce, OnItsWayLive, MainIdle
  <1>7. EpochsOK'
    BY DEF Return, Idle, EpochsOK, MainIdle, TypeOK
  <1>8. KnownCallsLive'
    BY DEF Return, KnownCallsLive, MainIdle
  <1> QED
    BY <1>1, <1>2, <1>3, <1>4, <1>5, <1>6, <1>7, <1>8

-----------------------------------------------------------------------------
(* The invariant holds.                                                    *)

\* A new backend is stopped and empty.
LEMMA InitInv == Init => IInv
  <1> SUFFICES ASSUME Init PROVE IInv
    OBVIOUS
  <1>1. TypeOK
    <2>1. {alive, running, m_listener} \subseteq BOOLEAN
      BY Zenon DEF Init
    <2> QED
      BY <2>1 DEF Init, TypeOK
  <1>2. ThreadsOK
    BY StepFacts DEF Init, Idle, None, ThreadsOK, StepLists, MainSteps
  <1>3. FreshIds
    BY DEF Init, FreshIds, Wrappers, Idle
  <1>4. StagesOK
    BY DEF Init, StagesOK, Dismantled, Wrappers, PjsuaLockFree, Idle
  <1>5. BuddiesOwned
    BY DEF Init, BuddiesOwned
  <1>6. IncomingOK
    BY DEF Init, IncomingOK, WorkerFresh, QueuedOnce, OnItsWayLive, Idle
  <1>7. EpochsOK
    BY DEF Init, EpochsOK, Idle
  <1>8. KnownCallsLive
    BY DEF Init, KnownCallsLive
  <1> QED
    BY <1>1, <1>2, <1>3, <1>4, <1>5, <1>6, <1>7, <1>8 DEF IInv

\* Nothing in the invariant depends on anything but the state.
LEMMA StutterInv == IInv /\ UNCHANGED vars => IInv'
  <1> SUFFICES ASSUME IInv, UNCHANGED vars PROVE IInv'
    OBVIOUS
  <1> USE DEF vars, objects, dispatch, ids, counts
  <1>1. TypeOK' /\ ThreadsOK' /\ FreshIds' /\ BuddiesOwned' /\ EpochsOK' /\ KnownCallsLive'
    BY DEF IInv, TypeOK, ThreadsOK, FreshIds, BuddiesOwned, EpochsOK, KnownCallsLive, MainIdle,
           Wrappers
  <1>2. StagesOK'
    BY DEF IInv, StagesOK, Dismantled, Wrappers, PjsuaLockFree
  <1>3. IncomingOK'
    BY IncomingFrame DEF IInv
  <1> QED
    BY <1>1, <1>2, <1>3 DEF IInv

\* Every step of either thread preserves the invariant.
LEMMA NextInv == IInv /\ [Next]_vars => IInv'
  <1> SUFFICES ASSUME IInv, [Next]_vars PROVE IInv'
    OBVIOUS
  <1>1. CASE Command
    BY <1>1, StartInv, SetListenerInv, AddAccountInv, RemoveAccountInv, WatchAccountInv,
       UnwatchInv, MakeCallInv, ReleaseCallInv, BeginStopInv, BeginDestructorInv DEF Command
  <1>2. CASE Teardown
    BY <1>2, SwapCallsInv, DestroyCallsInv, ClearWatchesInv, ClearAccountsInv, SweepInv,
       DestroyStragglersInv, FinishInv DEF Teardown
  <1>3. CASE Callback
    BY <1>3, OnIncomingCallInv, OnAccountEventInv, OnBuddyStateInv, OnCallEventInv DEF Callback
  <1>4. CASE WorkerStep
    BY <1>4, InsertCallInv, LoadEpochInv, EnqueueInv, ReturnInv DEF WorkerStep
  <1>5. CASE Deliver \/ \E t \in graceTimers : GraceTimerFires(t)
    BY <1>5, DeliverInv, GraceTimerFiresInv
  <1> QED
    BY <1>1, <1>2, <1>3, <1>4, <1>5, StutterInv DEF Next

\* The inductive invariant holds in every reachable state, for any number of
\* calls, accounts, watches, events, listeners and stops.
THEOREM BackendInvariant == Spec => []IInv
  BY InitInv, NextInv, PTL DEF Spec

\* Every reachable state of the adapter is well typed.
THEOREM TypeCorrect == Spec => []TypeOK
  <1>1. IInv => TypeOK
    BY DEF IInv
  <1> QED
    BY <1>1, BackendInvariant, PTL

\* Every call the listener holds has its wrapper, whichever way incoming calls,
\* setListener() and stop() interleave.
THEOREM HeldCallsLive == Spec => []KnownCallsLive
  <1>1. IInv => KnownCallsLive
    BY DEF IInv
  <1> QED
    BY <1>1, BackendInvariant, PTL

\* No buddy outlives its account, and a stopped backend is empty.
THEOREM OwnersOutlive == Spec => []OwnersOutliveObjects
  <1>1. IInv => OwnersOutliveObjects
    BY DEF IInv, BuddiesOwned, StagesOK, Dismantled, Wrappers, MainIdle, OwnersOutliveObjects
  <1> QED
    BY <1>1, BackendInvariant, PTL

\* Once EventDispatch is destroyed no callback is on its way to post to it.
THEOREM NoPosterLeft == Spec => []PostersQuiesced
  <1>1. IInv => PostersQuiesced
    BY DEF IInv, StagesOK, Dismantled, PostersQuiesced
  <1> QED
    BY <1>1, BackendInvariant, PTL

-----------------------------------------------------------------------------
(* Action properties.                                                      *)

\* A stopped backend delivers nothing: whatever is still queued is of an
\* earlier epoch.
THEOREM StoppedIsQuiet == Spec => QuietAfterStop
  <1>1. IInv => (Deliver /\ Accepted(Head(queue)) => running)
    <2> SUFFICES ASSUME IInv, Deliver, Accepted(Head(queue)), ~running PROVE FALSE
      OBVIOUS
    <2>1. 1 \in DOMAIN queue /\ Head(queue) = queue[1]
      BY DEF IInv, Deliver
    <2>2. queue[1].epoch < m_epoch
      BY <2>1 DEF IInv, EpochsOK, Deliver
    <2>3. queue[1].epoch = m_epoch /\ m_epoch \in Nat
      BY <2>1 DEF Accepted, IInv, TypeOK
    <2> QED
      BY <2>2, <2>3
  <1> QED
    BY <1>1, BackendInvariant, PTL DEF QuietAfterStop

\* Which steps take a wrapper away while no teardown is under way: only the
\* grace timer, and not under a callback of that call.
LEMMA WrapperKept ==
  ASSUME IInv, [Next]_vars, NEW c \in Wrappers,
         main.at = "idle", main'.at = "idle", InUse(c)
  PROVE  c \in Wrappers'
  <1> USE DEF Wrappers, objects, dispatch, ids, counts
  <1>1. CASE Command
    <2>1. ASSUME NEW d \in CallIds, ReleaseCall(d) PROVE c \in Wrappers'
      BY <2>1 DEF ReleaseCall, Park
    <2>2. ASSUME NEW acc \in AccountIds, MakeCall(acc) PROVE c \in Wrappers'
      BY <2>2 DEF MakeCall
    <2>3. ASSUME NEW acc \in AccountIds, RemoveAccount(acc) \/ WatchAccount(acc)
          PROVE  c \in Wrappers'
      BY <2>3 DEF RemoveAccount, WatchAccount
    <2>4. ASSUME NEW w \in WatchIds, Unwatch(w) PROVE c \in Wrappers'
      BY <2>4 DEF Unwatch
    <2>5. ASSUME NEW listener \in BOOLEAN, SetListener(listener) PROVE c \in Wrappers'
      BY <2>5 DEF SetListener
    <2>6. CASE Start \/ AddAccount \/ BeginStop \/ BeginDestructor
      BY <2>6 DEF Start, AddAccount, BeginStop, BeginDestructor
    <2> QED
      BY <1>1, <2>1, <2>2, <2>3, <2>4, <2>5, <2>6 DEF Command
  <1>2. CASE Teardown
    BY <1>2
       DEF Teardown, SwapCalls, DestroyCalls, ClearWatches, ClearAccounts, Sweep,
           DestroyStragglers, Finish
  <1>3. CASE Callback
    BY <1>3 DEF Callback, OnIncomingCall, OnAccountEvent, OnBuddyState, OnCallEvent, Begin
  <1>4. CASE WorkerStep
    BY <1>4 DEF WorkerStep, InsertCall, LoadEpoch, Enqueue, Return
  <1>5. CASE Deliver
    BY <1>5 DEF Deliver
  <1>6. ASSUME NEW t \in graceTimers, GraceTimerFires(t) PROVE c \in Wrappers'
    BY <1>6 DEF GraceTimerFires, InUse
  <1>7. CASE UNCHANGED vars
    BY <1>7 DEF vars
  <1> QED
    BY <1>1, <1>2, <1>3, <1>4, <1>5, <1>6, <1>7 DEF Next

\* While the backend is up no wrapper is destroyed under a callback of its own.
THEOREM WrapperOutlivesCallback == Spec => ReleaseKeepsWrapper
  <1>1. IInv /\ [Next]_vars =>
          \A c \in Wrappers :
            main.at = "idle" /\ main'.at = "idle" /\ InUse(c) => c \in Wrappers'
    BY WrapperKept
  <1> QED
    BY <1>1, BackendInvariant, PTL DEF ReleaseKeepsWrapper, Spec

-----------------------------------------------------------------------------
(* The adapter implements the contract.                                    *)

\* The mapped state.
phaseOf == IF ~alive THEN "gone" ELSE IF main.at # "idle" THEN "stopping"
           ELSE IF running THEN "running" ELSE "stopped"
watchesOf == {w \in WatchIds : m_watches[w] # None}
callsOf == known \cap m_calls

\* A step that the interface does not show.
LEMMA HiddenStep ==
  ASSUME UNCHANGED <<alive, main, running, m_listener, m_accounts, m_watches, callsOf>>
  PROVE  UNCHANGED Contract!vars
  BY DEF Contract!vars, callsOf

\* A step of stop() or of the destructor only takes objects away.
LEMMA DismantleStep ==
  ASSUME alive, main.at # "idle", main'.at # "idle",
         UNCHANGED <<alive, m_listener>>,
         m_accounts' \subseteq m_accounts, watchesOf' \subseteq watchesOf,
         callsOf' \subseteq callsOf
  PROVE  Contract!Dismantle
  BY DEF Contract!Dismantle, watchesOf, callsOf

\* The commands of the main thread are the contract's own steps.
LEMMA CommandRefines ==
  ASSUME IInv, Command
  PROVE  [Contract!Next]_(Contract!vars)
  <1> USE DEF objects, dispatch, ids, counts, MainIdle
  <1>k. main.at = "idle" /\ alive => known \subseteq m_calls
    BY DEF IInv, KnownCallsLive
  <1>r. main.at = "idle" /\ alive /\ m_accounts # {} => running
    BY DEF IInv, StagesOK, Dismantled
  <1>1. CASE Start
    <2>1. Contract!Start
      BY <1>1 DEF Start, Contract!Start
    <2> QED
      BY <2>1 DEF Contract!Next
  <1>2. ASSUME NEW listener \in BOOLEAN, SetListener(listener)
        PROVE  Contract!Next
    <2>1. Contract!SetListener(listener)
      BY <1>2 DEF SetListener, Contract!SetListener, Contract!Usable
    <2> QED
      BY <2>1 DEF Contract!Next
  <1>3. CASE AddAccount
    <2>1. nextAccountId \notin m_accounts
      BY DEF IInv, TypeOK, FreshIds
    <2>2. Contract!AddAccount(nextAccountId)
      BY <1>3, <2>1 DEF AddAccount, Contract!AddAccount
    <2> QED
      BY <1>3, <2>2 DEF AddAccount, Contract!Next
  <1>4. ASSUME NEW acc \in AccountIds, RemoveAccount(acc)
        PROVE  Contract!Next
    <2>1. Contract!RemoveAccount(acc)
      BY <1>4 DEF RemoveAccount, Contract!RemoveAccount
    <2> QED
      BY <2>1 DEF Contract!Next
  <1>5. ASSUME NEW acc \in AccountIds, WatchAccount(acc)
        PROVE  Contract!Next
    <2>1. PICK w \in WatchIds : w = nextWatchId
      BY <1>5 DEF WatchAccount
    <2>2. m_watches[w] = None
      BY <2>1 DEF IInv, TypeOK, FreshIds
    <2>3. acc # None /\ m_watches' = [m_watches EXCEPT ![w] = acc]
          /\ m_watches \in [WatchIds -> AccountIds \cup {None}]
      BY <1>5, <2>1 DEF WatchAccount, IInv, TypeOK, AccountIds, None
    <2>4. watchesOf' = watchesOf \cup {w} /\ w \notin watchesOf
      BY <2>2, <2>3 DEF watchesOf
    <2>5. Contract!Watch(w)
      BY <1>5, <2>4 DEF WatchAccount, Contract!Watch, watchesOf
    <2> QED
      BY <2>5 DEF Contract!Next
  <1>6. ASSUME NEW w \in WatchIds, Unwatch(w)
        PROVE  Contract!Next
    <2>1. watchesOf' = watchesOf \ {w} /\ w \in watchesOf
      BY <1>6 DEF Unwatch, IInv, TypeOK, watchesOf
    <2>2. Contract!Unwatch(w)
      BY <1>6, <2>1 DEF Unwatch, Contract!Unwatch, watchesOf
    <2> QED
      BY <2>2 DEF Contract!Next
  <1>7. ASSUME NEW acc \in AccountIds, MakeCall(acc)
        PROVE  [Contract!Next]_(Contract!vars)
    <2>1. nextCallId \notin known
      BY DEF IInv, TypeOK, FreshIds
    <2>2. CASE known' = known \cup {nextCallId} /\ m_calls' = m_calls \cup {nextCallId}
      <3>1. Contract!MakeCall(nextCallId)
        BY <1>7, <1>r, <2>1, <2>2 DEF MakeCall, Contract!MakeCall
      <3> QED
        BY <1>7, <3>1 DEF MakeCall, Contract!Next
    <2>3. CASE UNCHANGED <<known, m_calls>>
      BY <1>7, <2>3, HiddenStep DEF MakeCall, callsOf
    <2> QED
      BY <1>7, <2>2, <2>3 DEF MakeCall
  <1>8. ASSUME NEW c \in CallIds, ReleaseCall(c)
        PROVE  Contract!Next
    <2>1. c \in known /\ c \in m_calls /\ known' = known \ {c} /\ m_calls' = m_calls \ {c}
      BY <1>8, <1>k DEF ReleaseCall
    <2>2. Contract!ReleaseCall(c)
      BY <1>8, <2>1 DEF ReleaseCall, Contract!ReleaseCall
    <2> QED
      BY <2>2 DEF Contract!Next
  <1>9. CASE BeginStop \/ BeginDestructor
    <2>1. Contract!BeginStop
      BY <1>9 DEF BeginStop, BeginDestructor, Contract!BeginStop, Contract!Usable
    <2> QED
      BY <2>1 DEF Contract!Next
  <1> QED
    BY <1>1, <1>2, <1>3, <1>4, <1>5, <1>6, <1>7, <1>8, <1>9 DEF Command

\* The steps of a teardown dismantle; its last one finds everything gone.
LEMMA TeardownRefines ==
  ASSUME IInv, Teardown
  PROVE  [Contract!Next]_(Contract!vars)
  <1> USE DEF objects, dispatch, ids, counts
  <1>1. main \in [at : MainSteps, dying : BOOLEAN] /\ (main.at # "idle" => alive)
    BY DEF IInv, ThreadsOK
  <1>2. CASE SwapCalls \/ DestroyCalls \/ ClearWatches \/ ClearAccounts \/ Sweep
             \/ DestroyStragglers
    <2>1. main.at # "idle" /\ main'.at # "idle" /\ UNCHANGED <<alive, m_listener>>
      BY <1>1, <1>2
         DEF SwapCalls, DestroyCalls, ClearWatches, ClearAccounts, Sweep, DestroyStragglers, Go
    <2>2. m_accounts' \subseteq m_accounts
      BY <1>2
         DEF SwapCalls, DestroyCalls, ClearWatches, ClearAccounts, Sweep, DestroyStragglers,
             AccountsLeft
    <2>3. watchesOf' \subseteq watchesOf
      BY <1>2
         DEF SwapCalls, DestroyCalls, ClearWatches, ClearAccounts, Sweep, DestroyStragglers,
             watchesOf
    <2>4. callsOf' \subseteq callsOf
      BY <1>2
         DEF SwapCalls, DestroyCalls, ClearWatches, ClearAccounts, Sweep, DestroyStragglers,
             SweepStragglers, callsOf
    <2>5. Contract!Dismantle
      BY <1>1, <2>1, <2>2, <2>3, <2>4, DismantleStep
    <2> QED
      BY <2>5 DEF Contract!Next
  <1>3. CASE Finish
    <2>1. main.at = "finish" /\ alive /\ Dismantled
      BY <1>1, <1>3 DEF Finish, IInv, StagesOK
    <2>2. main'.at = "idle" /\ UNCHANGED <<m_listener, m_accounts, m_watches, m_calls>>
      BY <1>1, <1>3 DEF Finish, Go
    <2>3. ~alive' \/ (alive' /\ ~running')
      BY <1>3, <2>1 DEF Finish
    <2>4. Contract!EndStop
      BY <2>1, <2>2, <2>3 DEF Contract!EndStop, Dismantled, Wrappers
    <2> QED
      BY <2>4 DEF Contract!Next
  <1> QED
    BY <1>2, <1>3 DEF Teardown

\* A delivered incoming call is the contract's, any other event is hidden.
LEMMA DeliverRefines ==
  ASSUME IInv, Deliver
  PROVE  [Contract!Next]_(Contract!vars)
  <1> USE DEF objects, MainIdle
  <1>1. UNCHANGED <<alive, main, running, m_listener, m_accounts, m_watches, m_calls>>
        /\ main.at = "idle" /\ alive
    BY DEF Deliver
  <1>2. CASE known' = known
    BY <1>1, <1>2, HiddenStep DEF callsOf
  <1>3. CASE known' # known
    <2> DEFINE c == Head(queue).id
    <2>1. known' = known \cup {c} /\ Accepted(Head(queue)) /\ Head(queue).type = "incoming"
      BY <1>3 DEF Deliver
    <2>2. 1 \in DOMAIN queue /\ Head(queue) = queue[1]
      BY DEF IInv, TypeOK, Deliver
    <2>3. queue[1].epoch = m_epoch /\ m_listener
      BY <2>1, <2>2 DEF Accepted
    <2>4. running
      BY <1>1, <2>2, <2>3 DEF IInv, EpochsOK, TypeOK
    <2>5. c \in CallIds /\ c \notin known /\ c \in m_calls
      BY <1>1, <2>1, <2>2, <2>3 DEF IInv, FreshIds, IncomingOK, QueuedOnce, OnItsWayLive
    <2> HIDE DEF c
    <2>6. Contract!IncomingCall(c)
      BY <1>1, <2>1, <2>3, <2>4, <2>5 DEF Contract!IncomingCall
    <2> QED
      BY <2>5, <2>6 DEF Contract!Next
  <1> QED
    BY <1>2, <1>3

\* The worker thread and the grace timers are below the interface.
LEMMA WorkerRefines ==
  ASSUME IInv, Callback \/ WorkerStep \/ \E t \in graceTimers : GraceTimerFires(t)
  PROVE  UNCHANGED Contract!vars
  <1> USE DEF objects, dispatch, ids, counts
  <1>1. UNCHANGED <<alive, main, running, m_listener, m_accounts, m_watches, known>>
    BY DEF Callback, OnIncomingCall, OnAccountEvent, OnBuddyState, OnCallEvent, Begin,
           WorkerStep, InsertCall, LoadEpoch, Enqueue, Return, GraceTimerFires
  <1>2. CASE InsertCall
    <2>1. worker.id \notin known
      BY <1>2, AtFacts, StepFacts DEF InsertCall, IInv, ThreadsOK, IncomingOK, WorkerFresh
    <2>2. UNCHANGED callsOf
      BY <1>1, <1>2, <2>1 DEF InsertCall, callsOf
    <2> QED
      BY <1>1, <2>2, HiddenStep
  <1>3. CASE UNCHANGED m_calls
    BY <1>1, <1>3, HiddenStep DEF callsOf
  <1>4. InsertCall \/ UNCHANGED m_calls
    BY DEF Callback, OnIncomingCall, OnAccountEvent, OnBuddyState, OnCallEvent, Begin,
           WorkerStep, LoadEpoch, Enqueue, Return, GraceTimerFires
  <1> QED
    BY <1>2, <1>3, <1>4

\* The adapter, with its worker thread, its grace list and its stepwise
\* teardown, implements the rules of ISipBackend.h.
THEOREM AdapterImplements == Spec => ImplementsContract
  <1>1. Init => Contract!Init
    BY DEF Init, Contract!Init
  <1>2. IInv /\ [Next]_vars => [Contract!Next]_(Contract!vars)
    <2> SUFFICES ASSUME IInv, [Next]_vars
                 PROVE  [Contract!Next]_(Contract!vars)
      OBVIOUS
    <2>1. CASE UNCHANGED vars
      BY <2>1, HiddenStep DEF vars, objects, dispatch, callsOf
    <2> QED
      BY <2>1, CommandRefines, TeardownRefines, DeliverRefines, WorkerRefines DEF Next
  <1> QED
    BY <1>1, <1>2, BackendInvariant, PTL DEF Spec, ImplementsContract, Contract!Spec

=============================================================================
