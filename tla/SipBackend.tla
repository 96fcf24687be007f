----------------------------- MODULE SipBackend -----------------------------
(***************************************************************************)
(* ISipBackend: what the managers above the SIP stack may rely on, whichever *)
(* backend is below it.  The rules are those stated in ISipBackend.h; the   *)
(* PJSIP adapter (PjsipBackend) and the scripted one (FakeSipBackend) are   *)
(* shown to implement this specification.                                  *)
(***************************************************************************)

CONSTANTS CallIds, AccountIds, WatchIds

VARIABLES
  phase,      \* "stopped", "running", "stopping" (stop() has not returned), "gone"
  listening,  \* a listener is set
  accounts,   \* account ids addAccount() returned and that are still valid
  watches,    \* watch ids that are still valid
  calls       \* call ids the listener holds and the backend resolves

vars == <<phase, listening, accounts, watches, calls>>

Phases == {"stopped", "running", "stopping", "gone"}

\* The states of a backend seen through its interface.
TypeOK ==
  /\ phase \in Phases
  /\ listening \in BOOLEAN
  /\ accounts \subseteq AccountIds
  /\ watches \subseteq WatchIds
  /\ calls \subseteq CallIds

Init ==
  /\ phase = "stopped"
  /\ listening = FALSE
  /\ accounts = {} /\ watches = {} /\ calls = {}

Usable == phase \in {"stopped", "running"}

Start ==
  /\ phase = "stopped"
  /\ phase' = "running"
  /\ UNCHANGED <<listening, accounts, watches, calls>>

\* setListener: the new listener has been given no call.
SetListener(listener) ==
  /\ Usable
  /\ listening' = listener
  /\ calls' = {}
  /\ UNCHANGED <<phase, accounts, watches>>

AddAccount(a) ==
  /\ phase = "running"
  /\ a \notin accounts
  /\ accounts' = accounts \cup {a}
  /\ UNCHANGED <<phase, listening, watches, calls>>

\* removeAccount: the watches of the account may go with it.
RemoveAccount(a) ==
  /\ a \in accounts
  /\ accounts' = accounts \ {a}
  /\ watches' \in SUBSET watches
  /\ UNCHANGED <<phase, listening, calls>>

Watch(w) ==
  /\ phase = "running" /\ accounts # {}
  /\ w \notin watches
  /\ watches' = watches \cup {w}
  /\ UNCHANGED <<phase, listening, accounts, calls>>

Unwatch(w) ==
  /\ w \in watches
  /\ watches' = watches \ {w}
  /\ UNCHANGED <<phase, listening, accounts, calls>>

\* makeCall() returns an id of a valid account's new call.
MakeCall(c) ==
  /\ phase = "running" /\ accounts # {}
  /\ c \notin calls
  /\ calls' = calls \cup {c}
  /\ UNCHANGED <<phase, listening, accounts, watches>>

\* onIncomingCall() is delivered: never to a stopped backend's listener.
IncomingCall(c) ==
  /\ phase = "running" /\ listening
  /\ c \notin calls
  /\ calls' = calls \cup {c}
  /\ UNCHANGED <<phase, listening, accounts, watches>>

\* releaseCall(): the only way a call id the listener holds is lost while the
\* backend runs for that listener.
ReleaseCall(c) ==
  /\ c \in calls
  /\ calls' = calls \ {c}
  /\ UNCHANGED <<phase, listening, accounts, watches>>

\* stop() or the destructor, as one step.
Stop ==
  /\ Usable
  /\ phase' \in {"stopped", "gone"}
  /\ accounts' = {} /\ watches' = {} /\ calls' = {}
  /\ UNCHANGED listening

\* The same where a thread of the stack runs meanwhile: objects go one by one,
\* nothing is delivered, and everything is gone when it returns.
BeginStop ==
  /\ Usable
  /\ phase' = "stopping"
  /\ UNCHANGED <<listening, accounts, watches, calls>>

Dismantle ==
  /\ phase = "stopping"
  /\ accounts' \in SUBSET accounts
  /\ watches' \in SUBSET watches
  /\ calls' \in SUBSET calls
  /\ UNCHANGED <<phase, listening>>

EndStop ==
  /\ phase = "stopping"
  /\ accounts = {} /\ watches = {} /\ calls = {}
  /\ phase' \in {"stopped", "gone"}
  /\ UNCHANGED <<listening, accounts, watches, calls>>

Next ==
  \/ Start \/ Stop \/ BeginStop \/ Dismantle \/ EndStop
  \/ \E listener \in BOOLEAN : SetListener(listener)
  \/ \E a \in AccountIds : AddAccount(a) \/ RemoveAccount(a)
  \/ \E w \in WatchIds : Watch(w) \/ Unwatch(w)
  \/ \E c \in CallIds : MakeCall(c) \/ IncomingCall(c) \/ ReleaseCall(c)

Spec == Init /\ [][Next]_vars

=============================================================================
