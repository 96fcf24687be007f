------------------------------ MODULE Accounts ------------------------------
(***************************************************************************)
(* AccountsManager and AccountsController: the accounts in memory, their   *)
(* rows in SQLite, their passwords in the keychain, and their bindings in  *)
(* the SIP backend, through edits of the user, results of REGISTER, changes *)
(* of network, failing steps and restarts of the program.                  *)
(*                                                                         *)
(* Everything runs on the main thread; backend events and the controller's *)
(* own re-queued handlers come through one event queue.  The backend is    *)
(* seen through ISipBackend (SipBackend): addAccount returns a fresh id or *)
(* fails, events of a removed id may still be queued.                      *)
(***************************************************************************)
EXTENDS Integers, Sequences, FiniteSets, FiniteSetsExt

CONSTANTS
  MaxId,          \* bound: row ids
  Codes,          \* classes of SIP codes a REGISTER may end with
  MaxFaults       \* bound: operations in which the keychain, SQLite or the
                  \* backend's addAccount may fail

ASSUME AccountsBounds ==
  /\ {MaxId, MaxFaults} \subseteq Nat
  /\ Codes \subseteq {"none", "success", "failure"}

Ids == 1..MaxId
Refs == 1..(3 * MaxId)
None == 0

VARIABLES
  m_entries,      \* id -> account, or NoAccount
  rows,           \* the accounts table, as the connection sees it
  saved,          \* the accounts table, as the last commit left it
  transaction,    \* a transaction is open on the connection
  keychain,       \* reference -> password, None when there is none
  m_passwordCache,
  m_backendIds,   \* id -> the password its binding uses, None without a binding
  regs,           \* m_regStates
  faults,         \* operations so far in which something could fail
  removing        \* history: references whose removal was begun

stores == <<rows, saved, transaction>>
secrets == <<keychain, m_passwordCache, removing>>
bindings == <<m_backendIds, regs>>
vars == <<m_entries, stores, secrets, bindings, faults>>

NoAccount == [ref |-> None, enabled |-> FALSE, startup |-> FALSE, isDefault |-> FALSE]

Init ==
  /\ m_entries = [id \in Ids |-> NoAccount]
  /\ rows = m_entries /\ saved = m_entries /\ transaction = FALSE
  /\ keychain = [r \in Refs |-> None]
  /\ m_passwordCache = keychain
  /\ m_backendIds = [id \in Ids |-> None]
  /\ regs = [id \in Ids |-> "Unregistered"]
  /\ removing = {} /\ faults = 0

Listed(entries) == {id \in Ids : entries[id] # NoAccount}
Bound(id) == m_backendIds[id] # None

\* An operation is one in which steps may fail, or one in which all succeed.
MayFail == faults' \in {faults, faults + 1} \cap 0..MaxFaults
Faulty == faults' # faults
Outcomes == IF Faulty THEN BOOLEAN ELSE {TRUE}

\* A reference is random, so it never comes back.  The model takes the least of
\* the account's own that no row refers to, and forgets a password, or that its
\* removal was begun, with its last row.
InUse(ref) == \E id \in Ids : rows[id].ref = ref \/ saved[id].ref = ref
UsedRefs == {ref \in Refs : InUse(ref)}
FreshRef(id) == Min({id + k * MaxId : k \in 0..2} \ UsedRefs)
Remembered(passwords) == [ref \in Refs |-> IF InUse(ref)' THEN passwords[ref] ELSE None]

-----------------------------------------------------------------------------
(* Parts the operations share.                                             *)

\* registerAccount's password: the cache, else the keychain.
PasswordOf(ref, cache, chain) == IF cache[ref] # None THEN cache[ref] ELSE chain[ref]

\* Mutant: the state of the binding that went is kept.
KeepRegs(drop) == regs

\* unregisterAccount: a binding that went leaves Unregistered, without error.
RegsAfter(drop) == [id \in Ids |-> IF id \in drop /\ Bound(id) THEN "Unregistered" ELSE regs[id]]

\* unregisterAccount for the ids of `drop', then registerAccount for those of
\* `want', given the accounts, the cache and the keychain of that moment.
Rebind(drop, want, entries, cache, chain) ==
  LET ready == {id \in want : PasswordOf(entries[id].ref, cache, chain) # None
                              /\ (id \in drop \/ ~Bound(id))}
  IN \E done \in SUBSET ready :
       /\ Faulty \/ done = ready
       /\ m_backendIds' =
            [id \in Ids |-> IF id \in done THEN PasswordOf(entries[id].ref, cache, chain)
                            ELSE IF id \in drop THEN None ELSE m_backendIds[id]]
       /\ regs' = RegsAfter(drop)
       /\ m_passwordCache' =
            Remembered([r \in Refs |-> IF \E id \in ready : entries[id].ref = r
                                       THEN PasswordOf(r, cache, chain) ELSE cache[r]])

\* A statement outside setDefault: durable unless a transaction was left open.
Write(table) ==
  /\ rows' = table
  /\ saved' = IF transaction THEN saved ELSE table
  /\ UNCHANGED transaction

MakeDefault(table, id) ==
  [j \in Ids |-> IF table[j] = NoAccount THEN NoAccount
                 ELSE [ref |-> table[j].ref, enabled |-> table[j].enabled,
                       startup |-> table[j].startup, isDefault |-> j = id]]

\* Mutant: the flag in memory does not wait for the commit.
EagerDefault(table, entries, id) ==
  {[rows |-> MakeDefault(table, id), entries |-> MakeDefault(entries, id), commit |-> TRUE],
   [rows |-> table, entries |-> MakeDefault(entries, id), commit |-> TRUE]}

\* setDefault(id) from the given table and accounts: BEGIN fails inside an open
\* transaction; a failed UPDATE is rolled back; a failed COMMIT is not, and
\* leaves the transaction open; memory follows only a commit.
DefaultOutcomes(table, entries, id) ==
  LET kept == [rows |-> table, entries |-> entries, commit |-> TRUE]
      done == [rows |-> MakeDefault(table, id), entries |-> MakeDefault(entries, id),
               commit |-> TRUE]
      open == [rows |-> MakeDefault(table, id), entries |-> entries, commit |-> FALSE]
  IN IF transaction THEN {kept} ELSE IF Faulty THEN {kept, done, open} ELSE {done}

\* The table and the accounts after one of these outcomes.
Apply(table, outcome) ==
  /\ rows' = outcome.rows
  /\ m_entries' = outcome.entries
  /\ IF transaction THEN UNCHANGED <<saved, transaction>>
     ELSE /\ saved' = IF outcome.commit THEN outcome.rows ELSE table
          /\ transaction' = ~outcome.commit

-----------------------------------------------------------------------------
(* Operations of the user, each with all that AccountsController makes the *)
(* manager do.                                                             *)

\* applyParams: the settings of the dialog, a command line or a provider.
ApplyParams(ref, enabled, startup, isDefault) ==
  [ref |-> ref, enabled |-> enabled, startup |-> startup, isDefault |-> isDefault]

\* insertRow: sqlite picks the largest id plus one, so that of a removed account
\* comes back.
NewId == 1 + Max({0} \cup Listed(rows))
InsertRow(table, account) == [table EXCEPT ![NewId] = account]

\* Mutant: the row is written although the keychain refused the password.
InsertAnyway(stored) == TRUE

\* add() goes on to the row only with the password stored.
Stored(stored) == stored

\* addAccount(params): the first account becomes the default unless told
\* otherwise; a later one that asks for it goes through setDefault().
AddAccount(enabled, startup, wants) ==
  LET first == Listed(m_entries) = {}
      ref == FreshRef(NewId)
      account == ApplyParams(ref, enabled, startup, first /\ wants # "no")
      with(table) == InsertRow(table, account)
      chain(stored) == [keychain EXCEPT ![ref] = IF stored THEN 1 ELSE None]
  IN /\ NewId \in Ids /\ MayFail
     /\ \E stored \in Outcomes :
          /\ Stored(stored)
          /\ \E o \in IF wants = "yes" /\ ~first
                      THEN DefaultOutcomes(with(rows), with(m_entries), NewId)
                      ELSE {[rows |-> with(rows), entries |-> with(m_entries),
                             commit |-> TRUE]} : Apply(with(rows), o)
          /\ keychain' = Remembered(chain(stored))
          /\ Rebind({}, IF enabled /\ startup THEN {NewId} ELSE {}, with(m_entries),
                    [m_passwordCache EXCEPT ![ref] = chain(stored)[ref]], chain(stored))
     /\ UNCHANGED <<removing>>

\* remove() erases the password first, deleteRow() then takes the row.
Erased(ref) == [keychain EXCEPT ![ref] = None]
DeleteRow(table, id) == [table EXCEPT ![id] = NoAccount]

\* removeAccount(id): unregistered and without password before the row goes;
\* when the DELETE fails the account stays listed in that state.
RemoveAccount(id) ==
  LET ref == m_entries[id].ref
  IN /\ id \in Listed(m_entries) /\ MayFail
     /\ \/ Write(DeleteRow(rows, id)) /\ m_entries' = DeleteRow(m_entries, id)
        \/ Faulty /\ UNCHANGED <<stores, m_entries>>
     /\ removing' = (removing \cup {ref}) \cap UsedRefs'
     /\ \E erased \in Outcomes :
          /\ keychain' = Remembered(IF erased THEN Erased(ref) ELSE keychain)
          /\ Rebind({id}, {}, m_entries, [m_passwordCache EXCEPT ![ref] = None], keychain)

\* Mutant: setPassword leaves the cache alone.
StaleCache(ref, password) == m_passwordCache

\* The cache after setPassword stored a new password.
CacheAfter(ref, password) == [m_passwordCache EXCEPT ![ref] = password]

\* update() keeps the reference and whether the account is the default.
Edited(table, id, enabled, startup) ==
  [table EXCEPT ![id] = ApplyParams(table[id].ref, enabled, startup, table[id].isDefault)]

\* updateAccount(id, params): update(), then setDefault() and setPassword() when
\* the dialog asks for them; the account is rebound with the final settings.
UpdateAccount(id, enabled, startup, asDefault, retyped) ==
  LET old == m_entries[id]
      edited(table) == Edited(table, id, enabled, startup)
  IN /\ id \in Listed(m_entries) /\ MayFail
     /\ \E o \in IF asDefault THEN DefaultOutcomes(edited(rows), edited(m_entries), id)
                 ELSE {[rows |-> edited(rows), entries |-> edited(m_entries),
                        commit |-> TRUE]} : Apply(edited(rows), o)
     /\ \E stored \in Outcomes :
          LET changes == retyped /\ stored
              chain == IF changes THEN [keychain EXCEPT ![old.ref] = 2] ELSE keychain
          IN /\ keychain' = chain
             /\ Rebind({id}, IF enabled /\ (Bound(id) \/ startup) THEN {id} ELSE {},
                       edited(m_entries),
                       IF changes THEN CacheAfter(old.ref, 2) ELSE m_passwordCache, chain)
     /\ UNCHANGED <<removing>>

SetDefaultAccount(id) ==
  /\ id \in Listed(m_entries) /\ MayFail
  /\ \E o \in DefaultOutcomes(rows, m_entries, id) : Apply(rows, o)
  /\ UNCHANGED <<secrets, bindings>>

\* setEnabled, where the flag changes.
SetEnabled(table, id) == Edited(table, id, ~m_entries[id].enabled, table[id].startup)

\* setAccountEnabled(id, enabled).
SetAccountEnabled(id) ==
  /\ id \in Listed(m_entries) /\ MayFail
  /\ Write(SetEnabled(rows, id))
  /\ m_entries' = SetEnabled(m_entries, id)
  /\ IF m_entries[id].enabled
     THEN Rebind({id}, {}, m_entries, m_passwordCache, keychain)
     ELSE Rebind({}, {id}, m_entries, m_passwordCache, keychain)
  /\ UNCHANGED <<keychain, removing>>

-----------------------------------------------------------------------------
(* Network and power.                                                      *)

\* The accounts registerStartupAccounts and reregisterAllEnabled go through.
StartupTargets(entries) == {id \in Listed(entries) : entries[id].enabled /\ entries[id].startup}

\* reregisterAllEnabled: nothing shown is refreshed until the next REGISTER result.
ReregisterAllEnabled ==
  /\ MayFail
  /\ UNCHANGED <<m_entries, stores, keychain, removing>>
  /\ Rebind(StartupTargets(m_entries), StartupTargets(m_entries), m_entries,
            m_passwordCache, keychain)

-----------------------------------------------------------------------------
(* Events.                                                                 *)

\* mapRegEvent, where a code of 0 says that the REGISTER is under way.
mapRegEvent(active, code) ==
  IF active /\ code = "success" THEN "Registered"
  ELSE IF code = "none" THEN "Registering"
  ELSE IF code = "success" THEN "Unregistered"
  ELSE "Failed"

\* The binding of account i is numbered i, any older one Late.
Late == 0
accountIdForBackend(binding) == {id \in Ids : Bound(id) /\ id = binding}

\* onRegState: an event of a binding that is gone is dropped; the controller's
\* handler goes through the event queue once more.
onRegState(binding, active, code) ==
  LET target == accountIdForBackend(binding)
  IN /\ regs' = [id \in Ids |-> IF id \in target THEN mapRegEvent(active, code) ELSE regs[id]]
     /\ UNCHANGED <<m_entries, stores, secrets, m_backendIds, faults>>

-----------------------------------------------------------------------------
(* The program ends and starts again.                                      *)

\* loadFromDatabase: the accounts are those of the last commit.
LoadFromDatabase == rows' = saved /\ m_entries' = saved /\ transaction' = FALSE /\ UNCHANGED saved

\* A new AccountsManager, and registerStartupAccounts.
StartWith(chain) ==
  LET ready == {id \in StartupTargets(saved) : chain[saved[id].ref] # None}
  IN /\ MayFail
     /\ LoadFromDatabase
     /\ keychain' = Remembered(chain)
     /\ \E done \in SUBSET ready :
          /\ Faulty \/ done = ready
          /\ m_backendIds' =
               [id \in Ids |-> IF id \in done THEN chain[saved[id].ref] ELSE None]
     /\ m_passwordCache' =
          [r \in Refs |-> IF \E id \in ready : saved[id].ref = r THEN chain[r] ELSE None]
     /\ regs' = [id \in Ids |-> "Unregistered"]

\* The program ends and starts.  A crash in add() between the password and the
\* row leaves a password no row refers to, and is the same to the accounts.
Restart ==
  /\ StartWith(keychain)
  /\ removing' = removing \cap UsedRefs'

\* A crash in remove(), after the password was erased and before the row was.
CrashInRemove(id) ==
  /\ id \in Listed(m_entries)
  /\ StartWith(Erased(m_entries[id].ref))
  /\ removing' = (removing \cup {m_entries[id].ref}) \cap UsedRefs'

-----------------------------------------------------------------------------
UserStep ==
  \/ \E enabled, startup \in BOOLEAN, wants \in {"unsaid", "no", "yes"} :
       AddAccount(enabled, startup, wants)
  \/ \E id \in Ids :
       \/ RemoveAccount(id) \/ SetDefaultAccount(id) \/ SetAccountEnabled(id)
       \/ \E enabled, startup, asDefault, retyped \in BOOLEAN :
            UpdateAccount(id, enabled, startup, asDefault, retyped)

EnvironmentStep ==
  \/ ReregisterAllEnabled
  \/ \E binding \in Ids \cup {Late}, active \in BOOLEAN, code \in Codes :
       onRegState(binding, active, code)

Next == UserStep \/ EnvironmentStep \/ Restart \/ \E id \in Ids : CrashInRemove(id)

Spec == Init /\ [][Next]_vars

-----------------------------------------------------------------------------
(* Properties.                                                             *)

\* A step that fails half-way never leaves the accounts in memory and those a
\* restart would load apart: both agree, and at most one is the default, unless
\* a failed COMMIT has left setDefault's transaction open.
MemoryMatchesDatabase ==
  ~transaction =>
    /\ rows = m_entries /\ saved = m_entries
    /\ \A i, j \in Listed(m_entries) :
         m_entries[i].isDefault /\ m_entries[j].isDefault => i = j

\* No sequence of edits, failures, crashes and restarts loses the password of an
\* account that nobody tried to remove.
SecretsKept ==
  \A id \in Listed(saved) :
    saved[id].ref \notin removing => keychain[saved[id].ref] # None

\* The stack never keeps authenticating with a password that was replaced: a
\* binding uses the one in the keychain, whether it came from the cache or not.
CredentialsCurrent ==
  \A id \in Ids : Bound(id) /\ m_entries[id].ref \notin removing =>
    m_backendIds[id] = keychain[m_entries[id].ref]

\* An account without a binding shows as Unregistered without error, and a bound
\* account is one the user has enabled: a late event of a removed binding never
\* changes the account, or the next one that gets its id.
StateBelongsToBinding ==
  \A id \in Ids :
    /\ ~Bound(id) => regs[id] = "Unregistered"
    /\ Bound(id) => m_entries[id].enabled

=============================================================================
