------------------------ MODULE FakeSipBackendProofs ------------------------
(***************************************************************************)
(* TLAPS proof that the scripted backend of the tests implements the        *)
(* contract of ISipBackend.h, for any number of ids, events and epochs.     *)
(***************************************************************************)
EXTENDS FakeSipBackend, TLAPS

FakeEvent == [type : {"account", "state", "incoming", "transfer"}, id : Nat, epoch : Nat]

\* The tables and the queue are well typed.
FakeTypeOK ==
  /\ m_running \in BOOLEAN /\ m_listener \in BOOLEAN
  /\ m_accounts \subseteq AccountIds /\ m_watches \subseteq WatchIds
  /\ m_calls \in [CallIds -> FakeCall \cup {NoCall}]
  /\ known \subseteq CallIds
  /\ {nextAccountId, nextWatchId, nextCallId, m_epoch} \subseteq Nat
  /\ queue \in Seq(FakeEvent)

\* An id in use was minted.
FakeFreshIds ==
  /\ \A a \in m_accounts : a < nextAccountId
  /\ \A w \in m_watches : w < nextWatchId
  /\ \A c \in CallIds : liveCall(c) => c < nextCallId
  /\ \A c \in known : c < nextCallId
  /\ \A i \in DOMAIN queue :
       queue[i].type = "incoming" => queue[i].id \in CallIds /\ queue[i].id < nextCallId

\* A stopped backend has nothing, and nothing of the present epoch is queued.
FakeStopped ==
  ~m_running =>
    /\ m_accounts = {} /\ m_watches = {}
    /\ \A c \in CallIds : ~liveCall(c)
    /\ \A i \in DOMAIN queue : queue[i].epoch < m_epoch

\* The calls a listener holds are live; a queued incoming call is queued once,
\* not held yet, and live in its epoch.
FakeCallsOK ==
  /\ \A c \in known : liveCall(c)
  /\ \A i \in DOMAIN queue :
       /\ queue[i].epoch <= m_epoch
       /\ queue[i].type = "incoming" => queue[i].id \notin known
       /\ queue[i].type = "incoming" /\ queue[i].epoch = m_epoch => liveCall(queue[i].id)
  /\ \A i, j \in DOMAIN queue :
       queue[i].type = "incoming" /\ queue[j].type = "incoming" /\ queue[i].id = queue[j].id
         => i = j

FakeInv == FakeTypeOK /\ FakeFreshIds /\ FakeStopped /\ FakeCallsOK

FakeSpec == FakeInit /\ [][FakeNext]_fakeVars

-----------------------------------------------------------------------------
(* Facts about the operators.                                              *)

\* A call that changes its state is still a call.
LEMMA CallFacts == NoCall \notin FakeCall /\ NewCall("calling") \in FakeCall /\ NewCall("early") \in FakeCall
  BY DEF NoCall, FakeCall, NewCall

\* What post() makes of the queue.
LEMMA PostFacts ==
  ASSUME FakeTypeOK, NEW type \in {"account", "state", "incoming", "transfer"}, NEW id \in Nat,
         Post(type, id)
  PROVE  /\ queue' \in Seq(FakeEvent)
         /\ \A i \in DOMAIN queue' :
              \/ i \in DOMAIN queue /\ queue'[i] = queue[i]
              \/ /\ i = Len(queue) + 1
                 /\ queue'[i].type = type /\ queue'[i].id = id /\ queue'[i].epoch = m_epoch
  <1> DEFINE e == [type |-> type, id |-> id, epoch |-> m_epoch]
  <1>1. e \in FakeEvent /\ e.type = type /\ e.id = id /\ e.epoch = m_epoch
    BY DEF FakeTypeOK, FakeEvent
  <1>2. queue \in Seq(FakeEvent) /\ queue' = Append(queue, e)
    BY DEF FakeTypeOK, Post
  <1> HIDE DEF e
  <1> QED
    BY <1>1, <1>2

\* What delivery makes of the queue and of what the listener holds.
LEMMA DeliverFacts ==
  ASSUME FakeTypeOK, Deliver
  PROVE  /\ queue' \in Seq(FakeEvent)
         /\ \A i \in DOMAIN queue' :
              i \in Nat \ {0} /\ i + 1 \in DOMAIN queue /\ queue'[i] = queue[i + 1]
         /\ 1 \in DOMAIN queue
         /\ \/ known' = known
            \/ /\ queue[1].type = "incoming" /\ queue[1].epoch = m_epoch /\ m_listener
               /\ known' = known \cup {queue[1].id}
  <1>1. queue \in Seq(FakeEvent) /\ queue # <<>> /\ queue' = Tail(queue)
    BY DEF FakeTypeOK, Deliver
  <1>2. 1 \in DOMAIN queue /\ Head(queue) = queue[1]
    BY <1>1
  <1>3. known' = known \/ (/\ queue[1].type = "incoming" /\ queue[1].epoch = m_epoch /\ m_listener
                           /\ known' = known \cup {queue[1].id})
    BY <1>2 DEF Deliver, Delivers
  <1> QED
    BY <1>1, <1>2, <1>3

\* The fields of a queued event have their types.
LEMMA FakeQueueTyped ==
  ASSUME FakeTypeOK
  PROVE  m_epoch \in Nat /\ \A i \in DOMAIN queue : queue[i].id \in Nat /\ queue[i].epoch \in Nat
  <1>1. \A i \in DOMAIN queue : queue[i] \in FakeEvent
    BY DEF FakeTypeOK
  <1> QED
    BY <1>1 DEF FakeTypeOK, FakeEvent

-----------------------------------------------------------------------------
(* Each operation preserves the invariant.                                 *)

\* A step that leaves the calls and the queue alone, of a backend that runs.
LEMMA TablesInv ==
  ASSUME FakeInv, UNCHANGED <<callTable, m_epoch, queue>>, m_running',
         FakeTypeOK',
         \A a \in m_accounts' : a < nextAccountId',
         \A w \in m_watches' : w < nextWatchId'
  PROVE  FakeInv'
  <1>1. FakeFreshIds'
    BY DEF FakeInv, FakeFreshIds, callTable, liveCall
  <1>2. FakeStopped' /\ FakeCallsOK'
    BY DEF FakeInv, FakeStopped, FakeCallsOK, callTable, liveCall
  <1> QED
    BY <1>1, <1>2 DEF FakeInv

\* Start and stop, accounts and watches.
LEMMA LifecycleInv ==
  ASSUME FakeInv,
         \/ Start \/ Stop \/ AddAccount
         \/ \E listener \in BOOLEAN : SetListener(listener)
         \/ \E a \in AccountIds : RemoveAccount(a) \/ Watch(a)
         \/ \E w \in WatchIds : Unwatch(w)
  PROVE  FakeInv'
  <1> USE DEF FakeInv, tables, callTable
  <1>1. CASE Start
    <2>1. FakeTypeOK' /\ m_running'
      BY <1>1 DEF Start, FakeTypeOK
    <2> QED
      BY <1>1, <2>1, TablesInv DEF Start, FakeFreshIds
  <1>2. CASE Stop
    <2>1. FakeTypeOK'
      <3>1. m_calls' = [c \in CallIds |-> NoCall]
        BY <1>2 DEF Stop
      <3>2. m_calls' \in [CallIds -> FakeCall \cup {NoCall}]
        BY <3>1
      <3>3. m_running' \in BOOLEAN /\ m_listener' \in BOOLEAN
        BY <1>2, Zenon DEF Stop, FakeTypeOK
      <3> QED
        BY <1>2, <3>2, <3>3 DEF Stop, Invalidate, WatchesAfterStop, FakeTypeOK
    <2>2. m_epoch' = m_epoch + 1 /\ UNCHANGED <<queue, nextCallId>> /\ known' = {}
          /\ m_accounts' = {} /\ m_watches' = {} /\ (\A c \in CallIds : ~liveCall(c)')
      BY <1>2 DEF Stop, Invalidate, WatchesAfterStop, liveCall
    <2>3. \A i \in DOMAIN queue : queue[i].epoch < m_epoch' /\ queue[i].epoch \in Nat
      BY <2>2, FakeQueueTyped DEF FakeCallsOK
    <2>4. FakeFreshIds'
      BY <2>2 DEF FakeFreshIds
    <2>5. FakeStopped'
      BY <2>2, <2>3 DEF FakeStopped
    <2>6. FakeCallsOK'
      BY <2>1, <2>2, <2>3 DEF FakeCallsOK, FakeTypeOK
    <2> QED
      BY <2>1, <2>4, <2>5, <2>6
  <1>3. CASE AddAccount
    <2>1. FakeTypeOK' /\ m_running'
      BY <1>3 DEF AddAccount, FakeTypeOK
    <2>2. \A a \in m_accounts' : a < nextAccountId'
      <3>1. nextAccountId \in Nat /\ \A a \in m_accounts : a \in Nat /\ a < nextAccountId
        <4>1. nextAccountId \in Nat /\ m_accounts \subseteq AccountIds
          BY DEF FakeTypeOK
        <4>2. \A a \in AccountIds : a \in Nat
          BY FakeBounds DEF AccountIds
        <4>3. \A a \in m_accounts : a < nextAccountId
          BY DEF FakeFreshIds
        <4> QED
          BY <4>1, <4>2, <4>3
      <3> QED
        BY <1>3, <3>1 DEF AddAccount
    <2> QED
      BY <1>3, <2>1, <2>2, TablesInv DEF AddAccount, FakeFreshIds
  <1>4. ASSUME NEW listener \in BOOLEAN, SetListener(listener) PROVE FakeInv'
    <2>1. FakeTypeOK'
      BY <1>4 DEF SetListener, Invalidate, FakeTypeOK
    <2>2. m_epoch' = m_epoch + 1 /\ known' = {}
          /\ UNCHANGED <<m_running, tables, m_calls, nextCallId, queue>>
      BY <1>4 DEF SetListener, Invalidate
    <2>3. \A i \in DOMAIN queue : queue[i].epoch < m_epoch' /\ queue[i].epoch \in Nat
      BY <2>2, FakeQueueTyped DEF FakeCallsOK
    <2>4. FakeFreshIds'
      BY <2>2 DEF FakeFreshIds, liveCall
    <2>5. FakeStopped'
      BY <2>2, <2>3 DEF FakeStopped, liveCall
    <2>6. FakeCallsOK'
      BY <2>1, <2>2, <2>3 DEF FakeCallsOK, FakeTypeOK
    <2> QED
      BY <2>1, <2>4, <2>5, <2>6
  <1>5. ASSUME NEW a \in AccountIds, RemoveAccount(a) PROVE FakeInv'
    <2>1. FakeTypeOK' /\ m_running'
      BY <1>5 DEF RemoveAccount, FakeTypeOK, FakeStopped
    <2> QED
      BY <1>5, <2>1, TablesInv DEF RemoveAccount, FakeFreshIds
  <1>6. ASSUME NEW a \in AccountIds, Watch(a) PROVE FakeInv'
    <2>1. FakeTypeOK' /\ m_running'
      BY <1>6 DEF Watch, FakeTypeOK
    <2>2. \A w \in m_watches' : w < nextWatchId'
      <3>1. nextWatchId \in Nat /\ m_watches \subseteq WatchIds
        BY DEF FakeTypeOK
      <3>2. \A w \in WatchIds : w \in Nat
        BY FakeBounds DEF WatchIds
      <3>3. \A w \in m_watches : w < nextWatchId
        BY DEF FakeFreshIds
      <3> QED
        BY <1>6, <3>1, <3>2, <3>3 DEF Watch
    <2> QED
      BY <1>6, <2>1, <2>2, TablesInv DEF Watch, FakeFreshIds
  <1>7. ASSUME NEW w \in WatchIds, Unwatch(w) PROVE FakeInv'
    <2>1. FakeTypeOK' /\ m_running'
      BY <1>7 DEF Unwatch, FakeTypeOK, FakeStopped
    <2> QED
      BY <1>7, <2>1, TablesInv DEF Unwatch, FakeFreshIds
  <1> QED
    BY <1>1, <1>2, <1>3, <1>4, <1>5, <1>6, <1>7

\* A step of a running backend that keeps the live calls live and posts an event
\* that announces no call.
LEMMA PostInv ==
  ASSUME FakeInv, m_running,
         NEW type \in {"account", "state", "transfer"}, NEW id \in Nat, Post(type, id),
         UNCHANGED <<m_running, m_listener, tables, nextCallId, known, m_epoch>>,
         m_calls' \in [CallIds -> FakeCall \cup {NoCall}],
         \A c \in CallIds : liveCall(c)' = liveCall(c)
  PROVE  FakeInv'
  <1> USE DEF FakeInv, tables
  <1>1. FakeTypeOK'
    BY PostFacts DEF FakeTypeOK
  <1>2. \A i \in DOMAIN queue' :
          \/ i \in DOMAIN queue /\ queue'[i] = queue[i]
          \/ queue'[i].type # "incoming" /\ queue'[i].epoch = m_epoch
    BY PostFacts
  <1>3. FakeFreshIds'
    BY <1>2 DEF FakeFreshIds
  <1>4. FakeCallsOK'
    <2>1. \A c \in known' : liveCall(c)'
      BY DEF FakeCallsOK, FakeTypeOK
    <2>2. \A i \in DOMAIN queue' :
            /\ queue'[i].epoch <= m_epoch
            /\ queue'[i].type = "incoming" => queue'[i].id \notin known
            /\ queue'[i].type = "incoming" /\ queue'[i].epoch = m_epoch =>
                 m_calls'[queue'[i].id] # NoCall
      <3> SUFFICES ASSUME NEW i \in DOMAIN queue',
                          i \in DOMAIN queue, queue'[i] = queue[i]
                   PROVE  /\ queue'[i].epoch <= m_epoch
                          /\ queue'[i].type = "incoming" => queue'[i].id \notin known
                          /\ queue'[i].type = "incoming" /\ queue'[i].epoch = m_epoch =>
                               m_calls'[queue'[i].id] # NoCall
        BY <1>2, FakeQueueTyped
      <3> QED
        BY DEF FakeCallsOK, FakeFreshIds, liveCall
    <2>3. \A i, j \in DOMAIN queue' :
            queue'[i].type = "incoming" /\ queue'[j].type = "incoming"
              /\ queue'[i].id = queue'[j].id => i = j
      BY <1>2 DEF FakeCallsOK
    <2> QED
      BY <2>1, <2>2, <2>3 DEF FakeCallsOK, liveCall
  <1> QED
    BY <1>1, <1>3, <1>4 DEF FakeStopped

\* A live call that changes and is reported.
LEMMA ChangeInv ==
  ASSUME FakeInv, NEW c \in CallIds, liveCall(c), NEW call \in FakeCall,
         ChangeAndTell(c, call)
  PROVE  FakeInv'
  <1>1. m_running /\ c \in Nat
    BY DEF FakeInv, FakeStopped, CallIds
  <1>2. m_calls' = [m_calls EXCEPT ![c] = call] /\ m_calls \in [CallIds -> FakeCall \cup {NoCall}]
    BY DEF ChangeAndTell, FakeInv, FakeTypeOK
  <1>3. \A d \in CallIds : liveCall(d)' = liveCall(d)
    BY <1>2, CallFacts DEF liveCall
  <1>4. m_calls' \in [CallIds -> FakeCall \cup {NoCall}]
    BY <1>2
  <1>5. Post("state", c) /\ UNCHANGED <<m_running, m_listener, tables, nextCallId, known, m_epoch>>
    BY DEF ChangeAndTell
  <1> QED
    BY <1>1, <1>3, <1>4, <1>5, PostInv

\* makeCall and an incoming call take a new id.
LEMMA NewCallInv ==
  ASSUME FakeInv, NEW a \in AccountIds, MakeCall(a) \/ SimulateIncomingCall(a)
  PROVE  FakeInv'
  <1> USE DEF FakeInv, tables
  <1>1. PICK type \in {"state", "incoming"} :
          Post(type, nextCallId) /\ known' = IF type = "state" THEN known \cup {nextCallId} ELSE known
    BY DEF MakeCall, SimulateIncomingCall
  <1>2. m_running /\ nextCallId \in CallIds /\ nextCallId \in Nat /\ nextCallId' = nextCallId + 1
        /\ UNCHANGED <<m_running, m_listener, tables, m_epoch>>
    BY DEF MakeCall, SimulateIncomingCall, FakeTypeOK
  <1>3. m_calls' \in [CallIds -> FakeCall \cup {NoCall}]
        /\ \A c \in CallIds : m_calls'[c] # NoCall <=> (m_calls[c] # NoCall \/ c = nextCallId)
    BY <1>2, CallFacts DEF MakeCall, SimulateIncomingCall, FakeTypeOK
  <1>4. queue' \in Seq(FakeEvent)
        /\ \A i \in DOMAIN queue' :
             \/ i \in DOMAIN queue /\ queue'[i] = queue[i]
             \/ /\ i = Len(queue) + 1
                /\ queue'[i].type = type /\ queue'[i].id = nextCallId /\ queue'[i].epoch = m_epoch
    BY <1>1, <1>2, PostFacts
  <1>5. FakeTypeOK'
    BY <1>1, <1>2, <1>3, <1>4 DEF FakeTypeOK
  <1>6. FakeFreshIds'
    <2>1. (\A c \in CallIds : liveCall(c)' => c < nextCallId') /\ (\A c \in known' : c < nextCallId')
      BY <1>1, <1>2, <1>3 DEF FakeFreshIds, FakeTypeOK, liveCall, CallIds
    <2>2. \A i \in DOMAIN queue' :
            queue'[i].type = "incoming" => queue'[i].id \in CallIds /\ queue'[i].id < nextCallId'
      BY <1>2, <1>4 DEF FakeFreshIds, CallIds
    <2> QED
      BY <1>2, <2>1, <2>2 DEF FakeFreshIds
  <1>7. FakeCallsOK'
    <2>1. nextCallId \notin known
          /\ \A i \in DOMAIN queue : queue[i].type = "incoming" => queue[i].id # nextCallId
      BY <1>2 DEF FakeFreshIds
    <2>2. \A c \in known' : liveCall(c)'
      BY <1>1, <1>2, <1>3 DEF FakeCallsOK, FakeTypeOK, liveCall
    <2>3. \A i \in DOMAIN queue' :
            /\ queue'[i].epoch <= m_epoch
            /\ queue'[i].type = "incoming" => queue'[i].id \notin known'
            /\ queue'[i].type = "incoming" /\ queue'[i].epoch = m_epoch =>
                 m_calls'[queue'[i].id] # NoCall
      <3> SUFFICES ASSUME NEW i \in DOMAIN queue'
                   PROVE  /\ queue'[i].epoch <= m_epoch
                          /\ queue'[i].type = "incoming" => queue'[i].id \notin known'
                          /\ queue'[i].type = "incoming" /\ queue'[i].epoch = m_epoch =>
                               m_calls'[queue'[i].id] # NoCall
        OBVIOUS
      <3>1. CASE i \in DOMAIN queue /\ queue'[i] = queue[i]
        BY <1>1, <1>3, <2>1, <3>1 DEF FakeCallsOK, FakeFreshIds, liveCall
      <3>2. CASE queue'[i].type = type /\ queue'[i].id = nextCallId /\ queue'[i].epoch = m_epoch
        BY <1>1, <1>2, <1>3, <2>1, <3>2, FakeQueueTyped
      <3> QED
        BY <1>4, <3>1, <3>2
    <2>4. \A i, j \in DOMAIN queue' :
            queue'[i].type = "incoming" /\ queue'[j].type = "incoming"
              /\ queue'[i].id = queue'[j].id => i = j
      BY <1>4, <2>1 DEF FakeCallsOK
    <2> QED
      BY <1>2, <2>2, <2>3, <2>4 DEF FakeCallsOK, liveCall
  <1> QED
    BY <1>2, <1>5, <1>6, <1>7 DEF FakeStopped

\* A released call was held, so no event announces it any more.
LEMMA FakeReleaseInv ==
  ASSUME FakeInv, NEW c \in CallIds, ReleaseCall(c)
  PROVE  FakeInv'
  <1> USE DEF FakeInv, tables
  <1>1. c \in known /\ known' = known \ {c} /\ m_calls' = [m_calls EXCEPT ![c] = NoCall]
        /\ UNCHANGED <<m_running, m_listener, tables, nextCallId, m_epoch, queue>>
    BY DEF ReleaseCall
  <1>2. m_calls' \in [CallIds -> FakeCall \cup {NoCall}]
        /\ \A d \in CallIds : m_calls'[d] = IF d = c THEN NoCall ELSE m_calls[d]
    BY <1>1 DEF FakeTypeOK
  <1>3. FakeTypeOK'
    BY <1>1, <1>2 DEF FakeTypeOK
  <1>4. FakeFreshIds' /\ FakeStopped'
    BY <1>1, <1>2 DEF FakeFreshIds, FakeStopped, liveCall
  <1>5. FakeCallsOK'
    BY <1>1, <1>2 DEF FakeCallsOK, FakeFreshIds, FakeTypeOK, liveCall
  <1> QED
    BY <1>3, <1>4, <1>5

\* A delivered incoming call is live and becomes held once.
LEMMA FakeDeliverInv ==
  ASSUME FakeInv, Deliver
  PROVE  FakeInv'
  <1> USE DEF FakeInv, tables
  <1>1. UNCHANGED <<m_running, m_listener, tables, m_calls, nextCallId, m_epoch>>
    BY DEF Deliver
  <1>2. FakeTypeOK'
    <2>1. known' \subseteq CallIds
      BY DeliverFacts DEF FakeTypeOK, FakeFreshIds
    <2> QED
      BY <1>1, <2>1, DeliverFacts DEF FakeTypeOK
  <1>3. FakeFreshIds'
    BY <1>1, DeliverFacts DEF FakeFreshIds, liveCall
  <1>4. FakeStopped'
    BY <1>1, DeliverFacts DEF FakeStopped, liveCall
  <1>5. FakeCallsOK'
    <2>1. \A c \in known' : liveCall(c)'
      BY <1>1, DeliverFacts DEF FakeCallsOK, liveCall
    <2>2. \A i \in DOMAIN queue' :
            /\ queue'[i].epoch <= m_epoch
            /\ queue'[i].type = "incoming" /\ queue'[i].epoch = m_epoch =>
                 m_calls[queue'[i].id] # NoCall
      BY DeliverFacts DEF FakeCallsOK, liveCall
    <2>3. \A i \in DOMAIN queue' : queue'[i].type = "incoming" => queue'[i].id \notin known'
      BY DeliverFacts DEF FakeCallsOK
    <2>4. \A i, j \in DOMAIN queue' :
            queue'[i].type = "incoming" /\ queue'[j].type = "incoming"
              /\ queue'[i].id = queue'[j].id => i = j
      BY DeliverFacts DEF FakeCallsOK
    <2> QED
      BY <1>1, <2>1, <2>2, <2>3, <2>4 DEF FakeCallsOK, liveCall
  <1> QED
    BY <1>2, <1>3, <1>4, <1>5

\* What a command or the peer does to a call that exists.
LEMMA CallStepInv ==
  ASSUME FakeInv, NEW c \in CallIds,
         CallCommand(c) \/ SimulateRemoteAnswer(c) \/ SimulateTransferStatus(c)
  PROVE  FakeInv'
  <1>1. liveCall(c) <=> m_calls[c] \in FakeCall
    BY CallFacts DEF FakeInv, FakeTypeOK, liveCall
  <1>2. c \in known => liveCall(c)
    BY DEF FakeInv, FakeCallsOK
  <1>3. ASSUME Answer(c) \/ SimulateRemoteAnswer(c) \/ Decline(c) \/ Hangup(c) \/ Hold(c) \/ Unhold(c)
        PROVE  FakeInv'
    <2>1. liveCall(c)
      BY <1>2, <1>3 DEF Answer, SimulateRemoteAnswer, Decline, Hangup, Hold, Unhold
    <2>2. \E call \in FakeCall : ChangeAndTell(c, call)
      <3>1. m_calls[c] \in FakeCall
        BY <1>1, <2>1
      <3>2. /\ [m_calls[c] EXCEPT !.state = "confirmed", !.mediaActive = TRUE] \in FakeCall
            /\ [m_calls[c] EXCEPT !.state = "disconnected"] \in FakeCall
            /\ [m_calls[c] EXCEPT !.state = "disconnected", !.mediaActive = FALSE] \in FakeCall
            /\ [m_calls[c] EXCEPT !.held = TRUE, !.mediaActive = FALSE] \in FakeCall
            /\ [m_calls[c] EXCEPT !.held = FALSE, !.mediaActive = TRUE] \in FakeCall
        BY <3>1 DEF FakeCall
      <3> QED
        BY <1>3, <3>2 DEF Answer, SimulateRemoteAnswer, Confirm, Decline, Hangup, Hold, Unhold
    <2> QED
      BY <2>1, <2>2, ChangeInv
  <1>4. CASE SimulateTransferStatus(c)
    <2>1. m_running /\ c \in Nat /\ Post("transfer", c)
      BY <1>4 DEF SimulateTransferStatus, FakeInv, FakeStopped, CallIds
    <2>2. UNCHANGED <<m_running, m_listener, tables, callTable, m_epoch>>
      BY <1>4 DEF SimulateTransferStatus
    <2> QED
      BY <2>1, <2>2, PostInv DEF callTable, FakeInv, FakeTypeOK, liveCall
  <1> QED
    BY <1>3, <1>4, FakeReleaseInv DEF CallCommand

\* The invariant holds in every state of the scripted backend.
LEMMA FakeInvariant == FakeSpec => []FakeInv
  <1>1. FakeInit => FakeInv
    <2> SUFFICES ASSUME FakeInit PROVE FakeInv
      OBVIOUS
    <2>1. FakeTypeOK
      <3>1. m_calls \in [CallIds -> FakeCall \cup {NoCall}]
        BY DEF FakeInit
      <3>2. m_running \in BOOLEAN /\ m_listener \in BOOLEAN
        BY Zenon DEF FakeInit
      <3> QED
        BY <3>1, <3>2 DEF FakeInit, FakeTypeOK
    <2>2. FakeFreshIds /\ FakeStopped /\ FakeCallsOK
      BY DEF FakeInit, FakeFreshIds, FakeStopped, FakeCallsOK, liveCall
    <2> QED
      BY <2>1, <2>2 DEF FakeInv
  <1>2. FakeInv /\ [FakeNext]_fakeVars => FakeInv'
    <2> SUFFICES ASSUME FakeInv, [FakeNext]_fakeVars PROVE FakeInv'
      OBVIOUS
    <2>1. CASE UNCHANGED fakeVars
      BY <2>1 DEF fakeVars, tables, callTable, FakeInv, FakeTypeOK, FakeFreshIds, FakeStopped,
                  FakeCallsOK, liveCall
    <2>2. ASSUME NEW a \in AccountIds, SimulateAccountEvent(a) PROVE FakeInv'
      <3>1. m_running /\ a \in Nat /\ Post("account", a)
            /\ UNCHANGED <<m_running, m_listener, tables, callTable, m_epoch>>
        BY <2>2 DEF SimulateAccountEvent, AccountIds
      <3> QED
        BY <3>1, PostInv DEF callTable, FakeInv, FakeTypeOK, liveCall
    <2> QED
      BY <2>1, <2>2, LifecycleInv, NewCallInv, CallStepInv, FakeDeliverInv DEF FakeNext
  <1> QED
    BY <1>1, <1>2, PTL DEF FakeSpec

-----------------------------------------------------------------------------
(* The scripted backend implements the contract.                           *)

\* The calls the contract sees are those the listener holds.
LEMMA HeldCalls == FakeInv => {c \in known : liveCall(c)} = known
  BY DEF FakeInv, FakeCallsOK

\* Start and stop, accounts and watches are the contract's own steps.
LEMMA LifecycleRefines ==
  ASSUME FakeInv, FakeInv',
         \/ Start \/ Stop \/ AddAccount
         \/ \E listener \in BOOLEAN : SetListener(listener)
         \/ \E a \in AccountIds : RemoveAccount(a) \/ Watch(a)
         \/ \E w \in WatchIds : Unwatch(w)
  PROVE  Contract!Next
  <1> USE DEF tables, callTable
  <1>h. {c \in known : liveCall(c)} = known /\ {c \in known' : liveCall(c)'} = known'
    BY HeldCalls DEF FakeInv, FakeCallsOK
  <1>1. CASE Start
    <2>1. Contract!Start
      BY <1>1 DEF Start, Contract!Start, liveCall
    <2> QED
      BY <2>1 DEF Contract!Next
  <1>2. CASE Stop
    <2>1. Contract!Stop
      BY <1>2 DEF Stop, WatchesAfterStop, Contract!Stop, Contract!Usable
    <2> QED
      BY <2>1 DEF Contract!Next
  <1>3. CASE AddAccount
    <2>1. PICK a \in AccountIds : a = nextAccountId
      BY <1>3 DEF AddAccount
    <2>2. a \notin m_accounts
      BY <2>1 DEF FakeInv, FakeTypeOK, FakeFreshIds
    <2>3. Contract!AddAccount(a)
      BY <1>3, <2>1, <2>2 DEF AddAccount, Contract!AddAccount, liveCall
    <2> QED
      BY <2>3 DEF Contract!Next
  <1>4. ASSUME NEW listener \in BOOLEAN, SetListener(listener) PROVE Contract!Next
    <2>1. Contract!SetListener(listener)
      BY <1>4 DEF SetListener, Contract!SetListener, Contract!Usable
    <2> QED
      BY <2>1 DEF Contract!Next
  <1>5. ASSUME NEW a \in AccountIds, RemoveAccount(a) PROVE Contract!Next
    <2>1. Contract!RemoveAccount(a)
      BY <1>5 DEF RemoveAccount, Contract!RemoveAccount, liveCall
    <2> QED
      BY <2>1 DEF Contract!Next
  <1>6. ASSUME NEW a \in AccountIds, Watch(a) PROVE Contract!Next
    <2>1. PICK w \in WatchIds : w = nextWatchId
      BY <1>6 DEF Watch
    <2>2. w \notin m_watches
      BY <2>1 DEF FakeInv, FakeTypeOK, FakeFreshIds
    <2>3. Contract!Watch(w)
      BY <1>6, <2>1, <2>2 DEF Watch, Contract!Watch, liveCall
    <2> QED
      BY <2>3 DEF Contract!Next
  <1>7. ASSUME NEW w \in WatchIds, Unwatch(w) PROVE Contract!Next
    <2>1. Contract!Unwatch(w)
      BY <1>7 DEF Unwatch, Contract!Unwatch, liveCall
    <2> QED
      BY <2>1 DEF Contract!Next
  <1> QED
    BY <1>1, <1>2, <1>3, <1>4, <1>5, <1>6, <1>7

\* A step that changes nothing the interface shows.
LEMMA FakeHidden ==
  ASSUME FakeInv, FakeInv', UNCHANGED <<m_running, m_listener, tables, known>>
  PROVE  UNCHANGED Contract!vars
  <1>1. {c \in known : liveCall(c)} = known /\ {c \in known' : liveCall(c)'} = known'
    BY HeldCalls DEF FakeInv, FakeCallsOK
  <1> QED
    BY <1>1 DEF Contract!vars, tables

\* Calls come and go as the contract says.
LEMMA CallRefines ==
  ASSUME FakeInv, FakeInv',
         \/ Deliver
         \/ \E a \in AccountIds : \/ MakeCall(a) \/ SimulateIncomingCall(a)
                                  \/ SimulateAccountEvent(a)
         \/ \E c \in CallIds :
              CallCommand(c) \/ SimulateRemoteAnswer(c) \/ SimulateTransferStatus(c)
  PROVE  [Contract!Next]_(Contract!vars)
  <1> USE DEF tables, callTable
  <1>h. {c \in known : liveCall(c)} = known /\ {c \in known' : liveCall(c)'} = known'
    BY HeldCalls DEF FakeInv, FakeCallsOK
  <1>1. ASSUME NEW a \in AccountIds, MakeCall(a) PROVE Contract!Next
    <2>1. PICK c \in CallIds : c = nextCallId
      BY <1>1 DEF MakeCall
    <2>2. c \notin known
      BY <2>1 DEF FakeInv, FakeTypeOK, FakeFreshIds
    <2>3. m_running /\ m_accounts # {} /\ known' = known \cup {c}
          /\ UNCHANGED <<m_running, m_listener, tables>>
      BY <1>1, <2>1 DEF MakeCall
    <2>4. Contract!MakeCall(c)
      BY <1>h, <2>2, <2>3 DEF Contract!MakeCall
    <2> QED
      BY <2>4 DEF Contract!Next
  <1>2. ASSUME NEW a \in AccountIds, SimulateIncomingCall(a) \/ SimulateAccountEvent(a)
        PROVE  UNCHANGED Contract!vars
    BY <1>2, FakeHidden DEF SimulateIncomingCall, SimulateAccountEvent
  <1>3. ASSUME NEW c \in CallIds, ReleaseCall(c) PROVE Contract!Next
    <2>1. c \in known /\ known' = known \ {c} /\ UNCHANGED <<m_running, m_listener, tables>>
      BY <1>3 DEF ReleaseCall
    <2>2. Contract!ReleaseCall(c)
      BY <1>h, <2>1 DEF Contract!ReleaseCall
    <2> QED
      BY <2>2 DEF Contract!Next
  <1>4. ASSUME NEW c \in CallIds,
               \/ Answer(c) \/ Decline(c) \/ Hangup(c) \/ Hold(c) \/ Unhold(c)
               \/ SimulateRemoteAnswer(c) \/ SimulateTransferStatus(c)
        PROVE  UNCHANGED Contract!vars
    BY <1>4, FakeHidden
       DEF Answer, Decline, Hangup, Hold, Unhold, SimulateRemoteAnswer, Confirm, ChangeAndTell,
           SimulateTransferStatus
  <1>5. ASSUME Deliver PROVE [Contract!Next]_(Contract!vars)
    <2>1. UNCHANGED <<m_running, m_listener, tables>>
      BY <1>5 DEF Deliver
    <2>2. CASE known' = known
      BY <2>1, <2>2, FakeHidden
    <2>3. CASE known' # known
      <3>1. PICK c \in CallIds : c = queue[1].id
        BY <1>5, <2>3, DeliverFacts DEF FakeInv, FakeFreshIds
      <3>2. c \notin known /\ known' = known \cup {c} /\ m_listener
        BY <1>5, <2>3, <3>1, DeliverFacts DEF FakeInv, FakeCallsOK
      <3>3. m_running
        BY <1>5, <2>3, DeliverFacts, FakeQueueTyped DEF FakeInv, FakeStopped
      <3>4. Contract!IncomingCall(c)
        BY <1>h, <2>1, <3>2, <3>3 DEF Contract!IncomingCall
      <3> QED
        BY <3>4 DEF Contract!Next
    <2> QED
      BY <2>2, <2>3
  <1> QED
    BY <1>1, <1>2, <1>3, <1>4, <1>5 DEF CallCommand

\* A manager tested against the scripted backend meets only what the rules of
\* ISipBackend.h allow.
THEOREM ScriptImplements == FakeSpec => ImplementsContract
  <1>1. FakeInit => Contract!Init
    BY DEF FakeInit, Contract!Init
  <1>2. FakeInv /\ FakeInv' /\ [FakeNext]_fakeVars => [Contract!Next]_(Contract!vars)
    <2> SUFFICES ASSUME FakeInv, FakeInv', [FakeNext]_fakeVars
                 PROVE  [Contract!Next]_(Contract!vars)
      OBVIOUS
    <2>1. CASE UNCHANGED fakeVars
      BY <2>1, FakeHidden DEF fakeVars, callTable
    <2> QED
      BY <2>1, LifecycleRefines, CallRefines DEF FakeNext
  <1> QED
    BY <1>1, <1>2, FakeInvariant, PTL DEF FakeSpec, ImplementsContract, Contract!Spec
=============================================================================
