--------------------------- MODULE FakeSipBackend ---------------------------
(***************************************************************************)
(* FakeSipBackend: the scripted backend every manager test runs against.   *)
(* It is single-threaded; its commands change the tables at once and queue *)
(* the listener's events through EventDispatch.  simulate*() plays the     *)
(* remote side.  The flags of a call that no event carries (muted, recording, *)
(* playing a file, the digits sent) are left out.                          *)
(***************************************************************************)
EXTENDS Integers, Sequences

CONSTANTS
  MaxCalls, MaxAccounts, MaxWatches,  \* bounds: ids minted
  MaxQueue,                           \* bound: events queued at a time
  MaxEpoch                            \* bound: invalidate() calls

ASSUME FakeBounds ==
  {MaxCalls, MaxAccounts, MaxWatches, MaxQueue, MaxEpoch} \subseteq Nat

CallIds == 1..MaxCalls
AccountIds == 1..MaxAccounts
WatchIds == 1..MaxWatches

VARIABLES
  m_running, m_listener,
  m_accounts, m_watches,
  m_calls,                \* call id -> FakeCall, or NoCall
  nextAccountId, nextWatchId, nextCallId,
  m_epoch, queue          \* EventDispatch

VARIABLE known            \* history: call ids the listener holds

tables == <<m_accounts, m_watches, nextAccountId, nextWatchId>>
callTable == <<m_calls, nextCallId, known>>
fakeVars == <<m_running, m_listener, tables, callTable, m_epoch, queue>>

NoCall == [state |-> "none"]

FakeCall == [state : {"calling", "early", "confirmed", "disconnected"},
             held : BOOLEAN, mediaActive : BOOLEAN]

NewCall(state) == [state |-> state, held |-> FALSE, mediaActive |-> FALSE]

FakeInit ==
  /\ m_running = FALSE /\ m_listener = FALSE
  /\ m_accounts = {} /\ m_watches = {}
  /\ m_calls = [c \in CallIds |-> NoCall]
  /\ nextAccountId = 1 /\ nextWatchId = 1 /\ nextCallId = 1
  /\ m_epoch = 0 /\ queue = <<>>
  /\ known = {}

liveCall(c) == m_calls[c] # NoCall

\* post(): the lambda is queued with the epoch it was posted in.
Post(type, id) ==
  /\ Len(queue) < MaxQueue
  /\ queue' = Append(queue, [type |-> type, id |-> id, epoch |-> m_epoch])

Invalidate == m_epoch < MaxEpoch /\ m_epoch' = m_epoch + 1

-----------------------------------------------------------------------------
(* Lifecycle, accounts and watches.                                        *)

SetListener(listener) ==
  /\ Invalidate
  /\ m_listener' = listener
  /\ known' = {}
  /\ UNCHANGED <<m_running, tables, m_calls, nextCallId, queue>>

Start ==
  /\ ~m_running
  /\ m_running' = TRUE
  /\ UNCHANGED <<m_listener, tables, callTable, m_epoch, queue>>

\* Mutant: the watches survive into the next run of the backend.
KeepsWatches == m_watches

\* The watches left after stop().
WatchesAfterStop == {}

Stop ==
  /\ Invalidate
  /\ m_running' = FALSE
  /\ m_accounts' = {} /\ m_watches' = WatchesAfterStop
  /\ m_calls' = [c \in CallIds |-> NoCall]
  /\ known' = {}
  /\ UNCHANGED <<m_listener, nextAccountId, nextWatchId, nextCallId, queue>>

AddAccount ==
  /\ m_running
  /\ nextAccountId \in AccountIds
  /\ m_accounts' = m_accounts \cup {nextAccountId}
  /\ nextAccountId' = nextAccountId + 1
  /\ UNCHANGED <<m_running, m_listener, m_watches, nextWatchId, callTable,
                 m_epoch, queue>>

\* removeAccount(id): unlike the PJSIP adapter, the watches stay.
RemoveAccount(a) ==
  /\ a \in m_accounts
  /\ m_accounts' = m_accounts \ {a}
  /\ UNCHANGED <<m_running, m_listener, m_watches, nextAccountId, nextWatchId,
                 callTable, m_epoch, queue>>

Watch(a) ==
  /\ m_running /\ a \in m_accounts
  /\ nextWatchId \in WatchIds
  /\ m_watches' = m_watches \cup {nextWatchId}
  /\ nextWatchId' = nextWatchId + 1
  /\ UNCHANGED <<m_running, m_listener, m_accounts, nextAccountId, callTable,
                 m_epoch, queue>>

Unwatch(w) ==
  /\ w \in m_watches
  /\ m_watches' = m_watches \ {w}
  /\ UNCHANGED <<m_running, m_listener, m_accounts, nextAccountId, nextWatchId,
                 callTable, m_epoch, queue>>

\* simulateRegState, simulateMwi, simulateInstantMessage and simulatePresence:
\* any id, a removed or unknown one included.
SimulateAccountEvent(id) ==
  /\ m_running
  /\ Post("account", id)
  /\ UNCHANGED <<m_running, m_listener, tables, callTable, m_epoch>>

-----------------------------------------------------------------------------
(* Calls.                                                                  *)

MakeCall(a) ==
  /\ m_running /\ a \in m_accounts
  /\ nextCallId \in CallIds
  /\ nextCallId' = nextCallId + 1
  /\ m_calls' = [m_calls EXCEPT ![nextCallId] = NewCall("calling")]
  /\ known' = known \cup {nextCallId}
  /\ Post("state", nextCallId)
  /\ UNCHANGED <<m_running, m_listener, tables, m_epoch>>

SimulateIncomingCall(a) ==
  /\ m_running /\ a \in m_accounts
  /\ nextCallId \in CallIds
  /\ nextCallId' = nextCallId + 1
  /\ m_calls' = [m_calls EXCEPT ![nextCallId] = NewCall("early")]
  /\ Post("incoming", nextCallId)
  /\ UNCHANGED <<m_running, m_listener, tables, known, m_epoch>>

\* Call c becomes `call' and the listener is told.
ChangeAndTell(c, call) ==
  /\ m_calls' = [m_calls EXCEPT ![c] = call]
  /\ Post("state", c)
  /\ UNCHANGED <<m_running, m_listener, tables, nextCallId, known, m_epoch>>

Confirm(c) == ChangeAndTell(c, [m_calls[c] EXCEPT !.state = "confirmed", !.mediaActive = TRUE])

Answer(c) ==
  /\ c \in known /\ m_calls[c].state = "early"
  /\ Confirm(c)

SimulateRemoteAnswer(c) ==
  /\ liveCall(c) /\ m_calls[c].state = "calling"
  /\ Confirm(c)

\* decline() and redirect(): the code tells them apart, the state does not.
Decline(c) ==
  /\ c \in known /\ m_calls[c].state = "early"
  /\ ChangeAndTell(c, [m_calls[c] EXCEPT !.state = "disconnected"])

\* hangup() by the user and simulateRemoteHangup() by the peer.
Hangup(c) ==
  /\ liveCall(c) /\ m_calls[c].state # "disconnected"
  /\ ChangeAndTell(c, [m_calls[c] EXCEPT !.state = "disconnected", !.mediaActive = FALSE])

Hold(c) ==
  /\ c \in known /\ m_calls[c].state = "confirmed" /\ ~m_calls[c].held
  /\ ChangeAndTell(c, [m_calls[c] EXCEPT !.held = TRUE, !.mediaActive = FALSE])

Unhold(c) ==
  /\ c \in known /\ m_calls[c].state = "confirmed" /\ m_calls[c].held
  /\ ChangeAndTell(c, [m_calls[c] EXCEPT !.held = FALSE, !.mediaActive = TRUE])

SimulateTransferStatus(c) ==
  /\ liveCall(c)
  /\ Post("transfer", c)
  /\ UNCHANGED <<m_running, m_listener, tables, callTable, m_epoch>>

ReleaseCall(c) ==
  /\ c \in known
  /\ known' = known \ {c}
  /\ m_calls' = [m_calls EXCEPT ![c] = NoCall]
  /\ UNCHANGED <<m_running, m_listener, tables, nextCallId, m_epoch, queue>>

\* EventDispatch drops a lambda of an older epoch, post() one without listener.
Delivers(e) == e.epoch = m_epoch /\ m_listener

Deliver ==
  LET e == Head(queue)
      given == e.type = "incoming" /\ Delivers(e)
  IN /\ queue # <<>>
     /\ queue' = Tail(queue)
     /\ known' = IF given THEN known \cup {e.id} ELSE known
     /\ UNCHANGED <<m_running, m_listener, tables, m_calls, nextCallId, m_epoch>>

-----------------------------------------------------------------------------
CallCommand(c) ==
  \/ Answer(c) \/ Decline(c) \/ Hangup(c) \/ Hold(c) \/ Unhold(c)
  \/ ReleaseCall(c)

FakeNext ==
  \/ Start \/ Stop \/ AddAccount \/ Deliver
  \/ \E listener \in BOOLEAN : SetListener(listener)
  \/ \E a \in AccountIds :
       \/ RemoveAccount(a) \/ Watch(a) \/ MakeCall(a) \/ SimulateIncomingCall(a)
       \/ SimulateAccountEvent(a)
  \/ \E w \in WatchIds : Unwatch(w)
  \/ \E c \in CallIds :
       CallCommand(c) \/ SimulateRemoteAnswer(c) \/ SimulateTransferStatus(c)

-----------------------------------------------------------------------------
(* Properties.                                                             *)

Contract == INSTANCE SipBackend WITH
  phase <- IF m_running THEN "running" ELSE "stopped",
  listening <- m_listener,
  accounts <- m_accounts,
  watches <- m_watches,
  calls <- {c \in known : liveCall(c)}

\* The scripted backend keeps the rules of ISipBackend.h, so a manager tested
\* against it has met every backend the rules allow it to expect.
ImplementsContract == Contract!Spec

=============================================================================
