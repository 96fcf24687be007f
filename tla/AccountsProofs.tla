--------------------------- MODULE AccountsProofs ---------------------------
(***************************************************************************)
(* TLAPS proofs about the accounts: that memory, database, keychain, cache  *)
(* and bindings stay together through failing steps, crashes and restarts,  *)
(* for any number of accounts and faults.                                   *)
(***************************************************************************)
EXTENDS Accounts, Induction

Passwords == {None, 1, 2}
Account == [ref : Refs \cup {None}, enabled : BOOLEAN, startup : BOOLEAN, isDefault : BOOLEAN]
Tables == [Ids -> Account]

\* The references the model gives the account with this id.
OwnRefs(id) == {id, id + MaxId, id + 2 * MaxId}

\* The accounts, their stores and their bindings are well typed.
TypeOK ==
  /\ m_entries \in Tables /\ rows \in Tables /\ saved \in Tables
  /\ transaction \in BOOLEAN
  /\ keychain \in [Refs -> Passwords] /\ m_passwordCache \in [Refs -> Passwords]
  /\ m_backendIds \in [Ids -> Passwords]
  /\ regs \in [Ids -> {"Unregistered", "Registering", "Registered", "Failed"}]
  /\ removing \subseteq Refs

\* A table's accounts have references of their own, and nothing else has one.
OwnsRefs(table) ==
  \A id \in Ids : IF table[id] = NoAccount THEN TRUE ELSE table[id].ref \in OwnRefs(id)

\* Two tables hold the same accounts, but for which one is the default.
SameAccounts(one, other) ==
  \A id \in Ids : /\ one[id].ref = other[id].ref
                  /\ one[id].enabled = other[id].enabled
                  /\ one[id].startup = other[id].startup
                  /\ one[id] = NoAccount <=> other[id] = NoAccount

OneDefault(table) ==
  \A i, j \in Listed(table) : table[i].isDefault /\ table[j].isDefault => i = j

\* The table, as the connection and as a restart would see it, and memory.
TablesOK ==
  /\ OwnsRefs(m_entries) /\ OwnsRefs(rows) /\ OwnsRefs(saved)
  /\ SameAccounts(rows, m_entries)
  /\ OneDefault(m_entries) /\ OneDefault(saved)
  /\ ~transaction => rows = m_entries /\ saved = m_entries

\* A cached password is the keychain's, unless its removal was begun.
CacheCurrent ==
  \A ref \in Refs : m_passwordCache[ref] # None /\ ref \notin removing =>
    m_passwordCache[ref] = keychain[ref]

IInv ==
  /\ TypeOK /\ TablesOK /\ CacheCurrent
  /\ SecretsKept /\ CredentialsCurrent /\ StateBelongsToBinding

-----------------------------------------------------------------------------
(* References.                                                             *)

\* Only NoAccount is without a reference of its own.
LEMMA AccountFacts ==
  /\ NoAccount \in Account /\ NoAccount.ref = None /\ ~NoAccount.enabled
  /\ \A id \in Ids : OwnRefs(id) \subseteq Refs /\ None \notin OwnRefs(id)
  /\ None \notin Refs
  /\ \A i, j \in Ids : i # j => OwnRefs(i) \cap OwnRefs(j) = {}
  BY AccountsBounds DEF NoAccount, Account, None, OwnRefs, Refs, Ids

\* insertRow's id is that of no listed account.
LEMMA NewIdIsNew ==
  ASSUME TypeOK, TablesOK, NewId \in Ids
  PROVE  rows[NewId] = NoAccount /\ m_entries[NewId] = NoAccount
  <1> DEFINE S == {0} \cup Listed(rows)
  <1>1. MaxId \in Nat /\ S \in SUBSET (0..MaxId) /\ S # {}
    BY AccountsBounds DEF Listed, Ids
  <1>2. Max(S) \in S /\ \A y \in S : Max(S) >= y
    BY <1>1, MaxFacts
  <1>3. Max(S) \in Int /\ NewId = 1 + Max(S)
    BY <1>1, <1>2 DEF NewId
  <1> HIDE DEF S
  <1>4. NewId \notin S
    BY <1>2, <1>3
  <1>5. NewId \notin Listed(rows)
    BY <1>4 DEF S
  <1>6. rows[NewId] = NoAccount
    BY <1>5 DEF Listed
  <1> QED
    BY <1>6 DEF TablesOK, SameAccounts

\* Two accounts never share a reference.
LEMMA RefsDistinct ==
  ASSUME NEW one, NEW other, OwnsRefs(one), OwnsRefs(other),
         NEW i \in Ids, NEW j \in Ids, i # j,
         one[i] # NoAccount, one[i].ref = other[j].ref
  PROVE  FALSE
  <1>1. one[i].ref \in OwnRefs(i) /\ one[i].ref # None
    BY AccountFacts DEF OwnsRefs
  <1>2. other[j] # NoAccount
    BY <1>1, AccountFacts
  <1> QED
    BY <1>1, <1>2, AccountFacts DEF OwnsRefs

\* The reference of a new account is its own and in no row, not even in one that
\* only a rollback would bring back.
LEMMA FreshRefIsFresh ==
  ASSUME TypeOK, TablesOK, NewId \in Ids
  PROVE  FreshRef(NewId) \in OwnRefs(NewId) /\ ~InUse(FreshRef(NewId))
  <1> DEFINE i == NewId
             S == OwnRefs(i) \ UsedRefs
  <1>0. MaxId \in Nat /\ i \in Ids
    BY AccountsBounds
  <1>1. {i + k * MaxId : k \in 0..2} = OwnRefs(i)
    <2>1. 0..2 = {0, 1, 2}
      OBVIOUS
    <2>2. i + 0 * MaxId = i /\ i + 1 * MaxId = i + MaxId
      BY <1>0 DEF Ids
    <2> QED
      BY <2>1, <2>2 DEF OwnRefs
  <1>2. \A ref \in OwnRefs(i) : InUse(ref) => ref = saved[i].ref
    <2> SUFFICES ASSUME NEW ref \in OwnRefs(i), NEW j \in Ids,
                        rows[j].ref = ref \/ saved[j].ref = ref
                 PROVE  ref = saved[i].ref
      BY DEF InUse
    <2>1. ref # None
      BY <1>0, AccountFacts
    <2>2. CASE rows[j].ref = ref
      <3>1. rows[j] # NoAccount
        BY <2>1, <2>2, AccountFacts
      <3>2. ref \in OwnRefs(j)
        BY <2>2, <3>1 DEF TablesOK, OwnsRefs
      <3> QED
        BY <1>0, <3>1, <3>2, AccountFacts, NewIdIsNew
    <2>3. CASE saved[j].ref = ref
      <3>1. saved[j] # NoAccount
        BY <2>1, <2>3, AccountFacts
      <3>2. ref \in OwnRefs(j)
        BY <2>3, <3>1 DEF TablesOK, OwnsRefs
      <3> QED
        BY <1>0, <2>3, <3>2, AccountFacts
    <2> QED
      BY <2>2, <2>3
  <1>3. i # i + MaxId
    BY <1>0 DEF Ids
  <1>4. S # {} /\ S \subseteq OwnRefs(i)
    <2>1. {i, i + MaxId} \subseteq OwnRefs(i) /\ OwnRefs(i) \subseteq Refs
      BY <1>0, AccountFacts DEF OwnRefs
    <2> QED
      BY <1>2, <1>3, <2>1 DEF UsedRefs
  <1>5. \E x \in S : \A y \in S : x =< y
    BY <1>0, <1>4 DEF OwnRefs, Ids
  <1>6. Min(S) \in S
    BY <1>5 DEF Min
  <1>7. FreshRef(i) \in S
    BY <1>1, <1>6 DEF FreshRef
  <1> QED
    BY <1>0, <1>7, AccountFacts DEF UsedRefs

-----------------------------------------------------------------------------
(* Tables.                                                                 *)

\* What every table of accounts is like.
GoodTable(table) == table \in Tables /\ OwnsRefs(table)

\* An account is listed exactly when it has a reference.
LEMMA ListedHasRef ==
  ASSUME NEW table, GoodTable(table), NEW id \in Ids
  PROVE  /\ table[id] \in Account
         /\ table[id] # NoAccount => table[id].ref \in OwnRefs(id) /\ table[id].ref \in Refs
         /\ table[id] = NoAccount => table[id].ref = None /\ ~table[id].enabled
         /\ table[id] = NoAccount <=> table[id].ref = None
  BY AccountFacts DEF GoodTable, Tables, OwnsRefs

\* setDefault changes only who is the default, and leaves one.
LEMMA MakeDefaultFacts ==
  ASSUME NEW table, GoodTable(table), NEW id \in Ids
  PROVE  /\ GoodTable(MakeDefault(table, id))
         /\ SameAccounts(MakeDefault(table, id), table)
         /\ OneDefault(MakeDefault(table, id))
  <1> DEFINE T == MakeDefault(table, id)
  <1>1. ASSUME NEW j \in Ids
        PROVE  /\ T[j] \in Account
               /\ T[j].ref = table[j].ref
               /\ T[j].enabled = table[j].enabled
               /\ T[j].startup = table[j].startup
               /\ T[j] = NoAccount <=> table[j] = NoAccount
               /\ T[j] # NoAccount => T[j].isDefault = (j = id)
    <2>1. CASE table[j] = NoAccount
      BY <2>1, AccountFacts DEF MakeDefault
    <2>2. CASE table[j] # NoAccount
      <3> DEFINE a == [ref |-> table[j].ref, enabled |-> table[j].enabled,
                       startup |-> table[j].startup, isDefault |-> j = id]
      <3>1. T[j] = a
        BY <2>2 DEF MakeDefault
      <3>2. (j = id) \in BOOLEAN
        BY Zenon
      <3>3. a \in Account
        BY <2>2, <3>2, ListedHasRef DEF Account
      <3>4. a.ref # None
        BY <2>2, ListedHasRef
      <3>5. a # NoAccount
        BY <3>4, AccountFacts
      <3> QED
        BY <2>2, <3>1, <3>3, <3>5
    <2> QED
      BY <2>1, <2>2
  <1>2. T \in Tables
    BY <1>1 DEF MakeDefault, Tables
  <1> HIDE DEF T
  <1>3. OwnsRefs(T)
    BY <1>1 DEF GoodTable, OwnsRefs
  <1>4. SameAccounts(T, table)
    BY <1>1 DEF SameAccounts
  <1>5. OneDefault(T)
    BY <1>1 DEF OneDefault, Listed
  <1> QED
    BY <1>2, <1>3, <1>4, <1>5 DEF GoodTable, T

\* Tables that hold the same accounts, as memory and the connection do.
Twins(table, entries) ==
  /\ GoodTable(table) /\ GoodTable(entries)
  /\ SameAccounts(table, entries)
  /\ OneDefault(entries)
  /\ ~transaction => table = entries

\* What a statement, or setDefault on top of it, makes of the tables: memory and
\* the connection hold the same accounts as before, and so does the database
\* unless a transaction keeps the statement from it.
Applied(entries) ==
  /\ {m_entries', rows', saved'} \subseteq Tables /\ transaction' \in BOOLEAN
  /\ TablesOK'
  /\ SameAccounts(m_entries', entries) /\ SameAccounts(rows', entries)
  /\ saved' = saved \/ (~transaction /\ SameAccounts(saved', entries))

\* Each outcome of a statement and of setDefault keeps the tables together.
LEMMA ApplyKeeps ==
  ASSUME TypeOK, TablesOK, NEW table, NEW entries, Twins(table, entries), NEW id \in Ids,
         NEW o, o \in DefaultOutcomes(table, entries, id)
                \/ o = [rows |-> table, entries |-> entries, commit |-> TRUE],
         Apply(table, o)
  PROVE  Applied(entries)
  <1> DEFINE T == MakeDefault(table, id)
             E == MakeDefault(entries, id)
  <1>1. GoodTable(T) /\ SameAccounts(T, table) /\ GoodTable(E) /\ SameAccounts(E, entries)
        /\ OneDefault(E) /\ (table = entries => T = E)
    BY MakeDefaultFacts DEF Twins
  <1> HIDE DEF T, E
  <1>2. \/ o.rows = table /\ o.entries = entries /\ o.commit = TRUE
        \/ ~transaction /\ o.rows = T /\ o.entries = E /\ o.commit = TRUE
        \/ ~transaction /\ o.rows = T /\ o.entries = entries /\ o.commit = FALSE
    BY DEF DefaultOutcomes, T, E
  <1>3. SameAccounts(T, entries) /\ SameAccounts(T, E) /\ SameAccounts(entries, entries)
        /\ SameAccounts(E, E) /\ (table = entries => SameAccounts(table, entries))
    BY <1>1 DEF SameAccounts, Twins
  <1>4. CASE o.rows = table /\ o.entries = entries /\ o.commit = TRUE
    BY <1>3, <1>4 DEF Apply, Applied, TablesOK, Twins, GoodTable, TypeOK
  <1>5. CASE ~transaction /\ o.rows = T /\ o.entries = E /\ o.commit = TRUE
    BY <1>1, <1>3, <1>5 DEF Apply, Applied, TablesOK, Twins, GoodTable, TypeOK
  <1>6. CASE ~transaction /\ o.rows = T /\ o.entries = entries /\ o.commit = FALSE
    BY <1>1, <1>3, <1>6 DEF Apply, Applied, TablesOK, Twins, GoodTable, TypeOK
  <1> QED
    BY <1>2, <1>4, <1>5, <1>6

\* A statement outside setDefault keeps them together too.
LEMMA WriteKeeps ==
  ASSUME TypeOK, TablesOK, NEW table, NEW entries, Twins(table, entries),
         Write(table), m_entries' = entries
  PROVE  Applied(entries)
  <1>1. SameAccounts(entries, entries)
    BY DEF SameAccounts
  <1> QED
    BY <1>1 DEF Write, Applied, TablesOK, Twins, GoodTable, TypeOK

\* Memory and the connection, before a step.
LEMMA TwinsNow ==
  ASSUME TypeOK, TablesOK
  PROVE  Twins(rows, m_entries)
  BY DEF TypeOK, TablesOK, Twins, GoodTable

\* A restart loads what was committed.
LEMMA LoadKeeps ==
  ASSUME TypeOK, TablesOK, LoadFromDatabase
  PROVE  Applied(saved)
  <1>1. SameAccounts(saved, saved)
    BY DEF SameAccounts
  <1> QED
    BY <1>1 DEF LoadFromDatabase, Applied, TablesOK, TypeOK

\* One row inserted, changed or taken out, in memory as on the connection.
LEMMA RowChanged ==
  ASSUME TypeOK, TablesOK, NEW id \in Ids, NEW a \in Account, NEW b \in Account,
         a.ref = b.ref, a.enabled = b.enabled, a.startup = b.startup,
         ~transaction => a = b,
         \/ a = NoAccount /\ b = NoAccount
         \/ a.ref \in OwnRefs(id),
         \/ ~b.isDefault
         \/ Listed(m_entries) = {}
         \/ m_entries[id] # NoAccount /\ m_entries[id].isDefault
  PROVE  Twins([rows EXCEPT ![id] = a], [m_entries EXCEPT ![id] = b])
  <1> DEFINE R == [rows EXCEPT ![id] = a]
             E == [m_entries EXCEPT ![id] = b]
  <1>1. R \in Tables /\ E \in Tables
    BY DEF TypeOK, Tables
  <1>2. /\ R[id] = a /\ E[id] = b
        /\ \A j \in Ids \ {id} : R[j] = rows[j] /\ E[j] = m_entries[j]
    BY DEF TypeOK, Tables
  <1>3. ~transaction => R = E
    BY DEF TablesOK
  <1>4. a = NoAccount <=> b = NoAccount
    BY AccountFacts
  <1> HIDE DEF R, E
  <1>5. OwnsRefs(R) /\ OwnsRefs(E)
    BY <1>2, <1>4, AccountFacts DEF OwnsRefs, TablesOK
  <1>6. SameAccounts(R, E)
    BY <1>2, <1>4 DEF SameAccounts, TablesOK
  <1>7. OneDefault(E)
    BY <1>2 DEF OneDefault, Listed, TablesOK
  <1> QED
    BY <1>1, <1>3, <1>5, <1>6, <1>7 DEF Twins, GoodTable, R, E

\* update() and setEnabled keep the reference and the default.
LEMMA EditedTwins ==
  ASSUME TypeOK, TablesOK, NEW id \in Listed(m_entries),
         NEW enabled \in BOOLEAN, NEW startup \in BOOLEAN
  PROVE  /\ Twins(Edited(rows, id, enabled, startup), Edited(m_entries, id, enabled, startup))
         /\ Edited(m_entries, id, enabled, startup)[id].ref = m_entries[id].ref
         /\ Edited(m_entries, id, enabled, startup)[id].enabled = enabled
         /\ \A j \in Ids \ {id} : Edited(m_entries, id, enabled, startup)[j] = m_entries[j]
  <1> DEFINE a == ApplyParams(rows[id].ref, enabled, startup, rows[id].isDefault)
             b == ApplyParams(m_entries[id].ref, enabled, startup, m_entries[id].isDefault)
  <1>0. id \in Ids /\ m_entries[id] # NoAccount
    BY DEF Listed
  <1>1. rows[id] \in Account /\ m_entries[id] \in Account
    BY <1>0 DEF TypeOK, Tables
  <1>2. a \in Account /\ b \in Account
    BY <1>1 DEF ApplyParams, Account
  <1>3. /\ a.ref = b.ref /\ a.enabled = b.enabled /\ a.startup = b.startup
        /\ b.isDefault = m_entries[id].isDefault
        /\ b.ref = m_entries[id].ref /\ b.enabled = enabled
    BY <1>0 DEF ApplyParams, TablesOK, SameAccounts
  <1>4. ~transaction => a = b
    BY DEF TablesOK
  <1>5. a.ref \in OwnRefs(id)
    BY <1>0, <1>3 DEF TablesOK, OwnsRefs
  <1>6. Edited(rows, id, enabled, startup) = [rows EXCEPT ![id] = a]
        /\ Edited(m_entries, id, enabled, startup) = [m_entries EXCEPT ![id] = b]
    BY DEF Edited
  <1> HIDE DEF a, b
  <1>7. Twins([rows EXCEPT ![id] = a], [m_entries EXCEPT ![id] = b])
    BY <1>0, <1>2, <1>3, <1>4, <1>5, RowChanged
  <1> QED
    BY <1>0, <1>3, <1>6, <1>7 DEF TypeOK, Tables

\* insertRow gives the new account a row of its own.
LEMMA InsertTwins ==
  ASSUME TypeOK, TablesOK, NewId \in Ids, NEW account \in Account,
         account.ref \in OwnRefs(NewId),
         account.isDefault => Listed(m_entries) = {}
  PROVE  Twins(InsertRow(rows, account), InsertRow(m_entries, account))
  <1> DEFINE i == NewId
  <1>1. i \in Ids
    OBVIOUS
  <1> HIDE DEF i
  <1>2. account.ref \in OwnRefs(i)
    BY DEF i
  <1>3. Twins([rows EXCEPT ![i] = account], [m_entries EXCEPT ![i] = account])
    BY <1>1, <1>2, RowChanged
  <1> QED
    BY <1>3 DEF InsertRow, i

\* deleteRow takes one account.
LEMMA DeleteTwins ==
  ASSUME TypeOK, TablesOK, NEW id \in Ids
  PROVE  Twins(DeleteRow(rows, id), DeleteRow(m_entries, id))
  <1>1. NoAccount \in Account /\ ~NoAccount.isDefault
    BY AccountFacts DEF NoAccount
  <1> QED
    BY <1>1, RowChanged DEF DeleteRow

-----------------------------------------------------------------------------
(* Bindings and secrets.                                                   *)

\* The bindings and the cache are well typed after a step.
BindingsTyped ==
  /\ m_backendIds' \in [Ids -> Passwords]
  /\ regs' \in [Ids -> {"Unregistered", "Registering", "Registered", "Failed"}]
  /\ m_passwordCache' \in [Refs -> Passwords]

\* A binding the step leaves alone belongs to an account that stays as it is.
Untouched(id) ==
  /\ m_entries'[id].enabled /\ m_entries'[id].ref = m_entries[id].ref
  /\ m_entries[id].ref \notin removing' =>
       /\ m_entries[id].ref \notin removing
       /\ keychain'[m_entries[id].ref] = keychain[m_entries[id].ref]

\* A reference some row has after the step.
UsedNext(ref) == \E id \in Ids : rows'[id].ref = ref \/ saved'[id].ref = ref

\* Only those of these references keep their passwords.
LEMMA RememberedFacts ==
  ASSUME NEW chain \in [Refs -> Passwords]
  PROVE  /\ Remembered(chain) \in [Refs -> Passwords]
         /\ \A r \in Refs : Remembered(chain)[r] = IF UsedNext(r) THEN chain[r] ELSE None
  BY DEF Remembered, Passwords, InUse, UsedNext

\* Unregistering and registering again, from a cache that agrees with the
\* keychain, gives every binding the password the keychain has.
LEMMA RebindKeeps ==
  ASSUME TypeOK, CredentialsCurrent, StateBelongsToBinding,
         NEW drop \in SUBSET Ids, NEW want \in SUBSET Ids, NEW entries,
         NEW cache \in [Refs -> Passwords], NEW chain \in [Refs -> Passwords],
         Rebind(drop, want, entries, cache, chain),
         \A r \in Refs : UsedNext(r) /\ cache[r] # None /\ r \notin removing' => cache[r] = chain[r],
         \A r \in Refs : UsedNext(r) /\ r \notin removing' => keychain'[r] = chain[r],
         \A id \in want : /\ entries[id].ref \in Refs /\ UsedNext(entries[id].ref)
                          /\ m_entries'[id].ref = entries[id].ref /\ m_entries'[id].enabled,
         \A id \in Ids \ drop : Bound(id) => Untouched(id)
  PROVE  BindingsTyped /\ CacheCurrent' /\ CredentialsCurrent' /\ StateBelongsToBinding'
  <1> DEFINE ready == {id \in want : PasswordOf(entries[id].ref, cache, chain) # None
                                     /\ (id \in drop \/ ~Bound(id))}
             fetched == [r \in Refs |-> IF \E id \in ready : entries[id].ref = r
                                        THEN PasswordOf(r, cache, chain) ELSE cache[r]]
  <1>1. PICK done \in SUBSET ready :
          /\ m_backendIds' =
               [id \in Ids |-> IF id \in done THEN PasswordOf(entries[id].ref, cache, chain)
                               ELSE IF id \in drop THEN None ELSE m_backendIds[id]]
          /\ regs' = RegsAfter(drop)
          /\ m_passwordCache' = Remembered(fetched)
    BY DEF Rebind
  <1>2. \A r \in Refs : PasswordOf(r, cache, chain) \in Passwords
    BY DEF PasswordOf
  <1>3. \A r \in Refs : UsedNext(r) /\ r \notin removing' => PasswordOf(r, cache, chain) = chain[r]
    BY DEF PasswordOf
  <1>4. \A id \in done : id \in want /\ PasswordOf(entries[id].ref, cache, chain) # None
    OBVIOUS
  <1>5. fetched \in [Refs -> Passwords]
        /\ \A r \in Refs : UsedNext(r) /\ fetched[r] # None /\ r \notin removing' =>
             fetched[r] = chain[r]
    BY <1>2, <1>3
  <1> HIDE DEF ready, fetched
  <1>6. m_passwordCache' \in [Refs -> Passwords]
        /\ \A r \in Refs : m_passwordCache'[r] # None =>
             UsedNext(r) /\ m_passwordCache'[r] = fetched[r]
    BY <1>1, <1>5, RememberedFacts
  <1>7. CacheCurrent'
    BY <1>5, <1>6 DEF CacheCurrent
  <1>8. m_backendIds' \in [Ids -> Passwords]
    BY <1>1, <1>2, <1>4 DEF TypeOK, Passwords
  <1>9. regs' \in [Ids -> {"Unregistered", "Registering", "Registered", "Failed"}]
    BY <1>1 DEF RegsAfter, TypeOK
  <1>10. ASSUME NEW id \in Ids
         PROVE  \/ /\ id \in done
                   /\ m_backendIds'[id] = PasswordOf(entries[id].ref, cache, chain)
                \/ id \in drop /\ m_backendIds'[id] = None
                \/ id \notin drop /\ id \notin done /\ m_backendIds'[id] = m_backendIds[id]
    BY <1>1
  <1>11. ASSUME NEW id \in Ids, m_backendIds'[id] # None, m_entries'[id].ref \notin removing'
         PROVE  m_backendIds'[id] = keychain'[m_entries'[id].ref]
    <2>1. CASE id \in done /\ m_backendIds'[id] = PasswordOf(entries[id].ref, cache, chain)
      BY <1>3, <1>4, <1>11, <2>1
    <2>2. CASE id \notin drop /\ id \notin done /\ m_backendIds'[id] = m_backendIds[id]
      BY <1>11, <2>2 DEF Untouched, Bound, CredentialsCurrent
    <2> QED
      BY <1>10, <1>11, <2>1, <2>2
  <1>12. CredentialsCurrent'
    BY <1>11 DEF CredentialsCurrent, Bound
  <1>13. ASSUME NEW id \in Ids
         PROVE  /\ m_backendIds'[id] = None => regs'[id] = "Unregistered"
                /\ m_backendIds'[id] # None => m_entries'[id].enabled
    <2>1. regs'[id] = IF id \in drop /\ Bound(id) THEN "Unregistered" ELSE regs[id]
      BY <1>1 DEF RegsAfter
    <2>2. CASE id \in done /\ m_backendIds'[id] = PasswordOf(entries[id].ref, cache, chain)
      BY <1>4, <2>2
    <2>3. CASE id \in drop /\ m_backendIds'[id] = None
      BY <2>1, <2>3 DEF Bound, StateBelongsToBinding
    <2>4. CASE id \notin drop /\ id \notin done /\ m_backendIds'[id] = m_backendIds[id]
      BY <2>1, <2>4 DEF Bound, StateBelongsToBinding, Untouched
    <2> QED
      BY <1>10, <2>2, <2>3, <2>4
  <1>14. StateBelongsToBinding'
    BY <1>13 DEF StateBelongsToBinding, Bound
  <1> QED
    BY <1>6, <1>7, <1>8, <1>9, <1>12, <1>14 DEF BindingsTyped

-----------------------------------------------------------------------------
(* The steps.                                                              *)

\* A step that leaves every table alone.
LEMMA StayKeeps ==
  ASSUME TypeOK, TablesOK, UNCHANGED <<stores, m_entries>>
  PROVE  Applied(m_entries)
  <1>1. SameAccounts(m_entries, m_entries)
    BY DEF SameAccounts
  <1> QED
    BY <1>1 DEF stores, Applied, TablesOK, TypeOK

\* What is listed after a step keeps its reference, and the reference is in use.
LEMMA AppliedFacts ==
  ASSUME TypeOK, NEW entries, Applied(entries), NEW id \in Ids
  PROVE  /\ m_entries'[id].ref = entries[id].ref
         /\ m_entries'[id].enabled = entries[id].enabled
         /\ UsedNext(entries[id].ref) /\ UsedNext(saved'[id].ref)
         /\ saved'[id] # NoAccount => saved'[id].ref \in Refs
         /\ \/ saved'[id] = saved[id]
            \/ /\ ~transaction /\ saved'[id].ref = entries[id].ref
               /\ saved'[id] = NoAccount <=> entries[id] = NoAccount
  <1>1. rows'[id].ref = entries[id].ref
    BY DEF Applied, SameAccounts
  <1>2. UsedNext(entries[id].ref) /\ UsedNext(saved'[id].ref)
    BY <1>1 DEF UsedNext
  <1>3. saved'[id] # NoAccount => saved'[id].ref \in Refs
    BY AccountFacts DEF Applied, TablesOK, OwnsRefs
  <1> QED
    BY <1>2, <1>3 DEF Applied, SameAccounts

\* The account of a binding is listed, and its reference is in use.
LEMMA BoundIsListed ==
  ASSUME IInv, NEW id \in Ids, Bound(id)
  PROVE  /\ m_entries[id] # NoAccount /\ m_entries[id].enabled
         /\ m_entries[id].ref \in Refs /\ InUse(m_entries[id].ref)
  <1>1. m_entries[id].enabled /\ m_entries[id] # NoAccount
    BY AccountFacts DEF IInv, StateBelongsToBinding
  <1>2. m_entries[id].ref \in Refs
    BY <1>1, AccountFacts DEF IInv, TablesOK, OwnsRefs
  <1>3. rows[id].ref = m_entries[id].ref
    BY DEF IInv, TablesOK, SameAccounts
  <1> QED
    BY <1>1, <1>2, <1>3 DEF InUse

\* addAccount keeps the invariant.
LEMMA AddAccountKeeps ==
  ASSUME IInv, NEW enabled \in BOOLEAN, NEW startup \in BOOLEAN, NEW wants,
         AddAccount(enabled, startup, wants)
  PROVE  IInv'
  <1> DEFINE first == Listed(m_entries) = {}
             i == NewId
             ref == FreshRef(NewId)
             account == ApplyParams(ref, enabled, startup, first /\ wants # "no")
             entries == InsertRow(m_entries, account)
             table == InsertRow(rows, account)
             chain == [keychain EXCEPT ![ref] = 1]
             cache == [m_passwordCache EXCEPT ![ref] = chain[ref]]
             want == IF enabled /\ startup THEN {NewId} ELSE {}
  <1>1. NewId \in Ids /\ TypeOK /\ TablesOK
    BY DEF AddAccount, IInv
  <1>2. PICK o : /\ \/ o \in DefaultOutcomes(table, entries, NewId)
                    \/ o = [rows |-> table, entries |-> entries, commit |-> TRUE]
                 /\ Apply(table, o)
    BY DEF AddAccount
  <1>3. keychain' = Remembered(chain) /\ Rebind({}, want, entries, cache, chain)
        /\ removing' = removing
    BY DEF AddAccount, Stored
  <1>4. ref \in OwnRefs(i) /\ ref \in Refs /\ ~InUse(ref)
    BY <1>1, FreshRefIsFresh, AccountFacts
  <1>5. i \in Ids /\ m_entries[i] = NoAccount
    BY <1>1, NewIdIsNew
  <1>6. (first /\ wants # "no") \in BOOLEAN
    BY Zenon
  <1>7. /\ account \in Account /\ account.ref = ref /\ account.enabled = enabled
        /\ account.isDefault => Listed(m_entries) = {}
    BY <1>4, <1>6 DEF ApplyParams, Account
  <1> HIDE DEF ref, account
  <1>8. entries[i] = account /\ \A j \in Ids \ {i} : entries[j] = m_entries[j]
    BY <1>1 DEF InsertRow, TypeOK, Tables
  <1>9. Twins(table, entries)
    BY <1>1, <1>4, <1>7, InsertTwins
  <1> HIDE DEF i, table, entries
  <1>10. Applied(entries)
    <2>1. i = NewId
      BY DEF i
    <2> QED
      BY <1>1, <1>2, <1>5, <1>9, <2>1, ApplyKeeps
  <1>11. /\ chain \in [Refs -> Passwords] /\ chain[ref] = 1
         /\ \A r \in Refs \ {ref} : chain[r] = keychain[r]
    BY <1>1, <1>4 DEF TypeOK, Passwords, None
  <1>12. /\ cache \in [Refs -> Passwords] /\ cache[ref] = chain[ref]
         /\ \A r \in Refs \ {ref} : cache[r] = m_passwordCache[r]
    BY <1>1, <1>4, <1>11 DEF TypeOK
  <1>13. want \in SUBSET Ids /\ \A id \in want : id = i /\ enabled
    BY <1>5 DEF i
  <1> HIDE DEF chain, cache, want
  <1>14. \A r \in Refs : UsedNext(r) => keychain'[r] = chain[r]
    BY <1>3, <1>11, RememberedFacts
  <1>15. \A r \in Refs : UsedNext(r) /\ cache[r] # None /\ r \notin removing' => cache[r] = chain[r]
    BY <1>3, <1>11, <1>12 DEF IInv, CacheCurrent
  <1>16. \A id \in want : /\ entries[id].ref \in Refs /\ UsedNext(entries[id].ref)
                          /\ m_entries'[id].ref = entries[id].ref /\ m_entries'[id].enabled
    BY <1>1, <1>4, <1>5, <1>7, <1>8, <1>10, <1>13, AppliedFacts
  <1>17. ASSUME NEW id \in Ids, Bound(id) PROVE Untouched(id)
    <2>1. /\ m_entries[id] # NoAccount /\ m_entries[id].enabled
          /\ m_entries[id].ref \in Refs /\ InUse(m_entries[id].ref)
      BY <1>17, BoundIsListed
    <2>2. entries[id] = m_entries[id] /\ m_entries[id].ref # ref
      BY <1>4, <1>5, <1>8, <2>1
    <2>3. m_entries'[id].ref = m_entries[id].ref /\ m_entries'[id].enabled
          /\ UsedNext(m_entries[id].ref)
      BY <1>1, <1>10, <2>1, <2>2, AppliedFacts
    <2> QED
      BY <1>3, <1>11, <1>14, <2>1, <2>2, <2>3 DEF Untouched
  <1>18. BindingsTyped /\ CacheCurrent' /\ CredentialsCurrent' /\ StateBelongsToBinding'
    <2>1. {} \in SUBSET Ids /\ CredentialsCurrent /\ StateBelongsToBinding
      BY DEF IInv
    <2> QED
      BY <1>1, <1>3, <1>11, <1>12, <1>13, <1>14, <1>15, <1>16, <1>17, <2>1, RebindKeeps
  <1>19. ASSUME NEW id \in Ids, saved'[id] # NoAccount, saved'[id].ref \notin removing'
         PROVE  keychain'[saved'[id].ref] # None
    <2>1. saved'[id].ref \in Refs /\ UsedNext(saved'[id].ref)
      BY <1>1, <1>10, <1>19, AppliedFacts
    <2>2. keychain'[saved'[id].ref] = chain[saved'[id].ref]
      BY <1>14, <2>1
    <2>3. CASE saved'[id].ref = ref
      BY <1>11, <2>2, <2>3 DEF None
    <2>4. CASE saved'[id].ref # ref
      <3>1. saved'[id] = saved[id]
            \/ (~transaction /\ saved'[id].ref = m_entries[id].ref /\ m_entries[id] # NoAccount)
        BY <1>1, <1>5, <1>7, <1>8, <1>10, <1>19, <2>4, AppliedFacts
      <3>2. saved[id] # NoAccount /\ saved'[id].ref = saved[id].ref
        BY <1>1, <1>19, <3>1 DEF TablesOK
      <3>3. keychain[saved[id].ref] # None
        BY <1>3, <1>19, <3>2 DEF IInv, SecretsKept, Listed
      <3> QED
        BY <1>11, <2>1, <2>2, <2>4, <3>2, <3>3
    <2> QED
      BY <2>3, <2>4
  <1>20. SecretsKept'
    BY <1>19 DEF SecretsKept, Listed
  <1>21. TypeOK'
    BY <1>1, <1>3, <1>10, <1>11, <1>18, RememberedFacts DEF TypeOK, BindingsTyped, Applied
  <1> QED
    BY <1>10, <1>18, <1>20, <1>21 DEF IInv, Applied

\* What a step that keeps the passwords of the accounts it leaves does to them.
LEMMA SecretsStay ==
  ASSUME IInv, NEW entries, Applied(entries),
         \A id \in Ids : ~transaction /\ entries[id] # NoAccount =>
           m_entries[id] # NoAccount /\ entries[id].ref = m_entries[id].ref,
         \A r \in Refs : UsedNext(r) /\ r \notin removing' =>
           r \notin removing /\ (keychain[r] # None => keychain'[r] # None)
  PROVE  SecretsKept'
  <1> SUFFICES ASSUME NEW id \in Ids, saved'[id] # NoAccount, saved'[id].ref \notin removing'
               PROVE  keychain'[saved'[id].ref] # None
    BY DEF SecretsKept, Listed
  <1>1. TypeOK /\ TablesOK
    BY DEF IInv
  <1>2. saved'[id].ref \in Refs /\ UsedNext(saved'[id].ref)
    BY <1>1, AppliedFacts
  <1>3. saved[id] # NoAccount /\ saved'[id].ref = saved[id].ref
    BY <1>1, AppliedFacts DEF TablesOK
  <1> QED
    BY <1>2, <1>3 DEF IInv, SecretsKept, Listed

\* removeAccount keeps the invariant.
LEMMA RemoveAccountKeeps ==
  ASSUME IInv, NEW id \in Ids, RemoveAccount(id)
  PROVE  IInv'
  <1> DEFINE ref == m_entries[id].ref
             cache == [m_passwordCache EXCEPT ![ref] = None]
  <1>1. TypeOK /\ TablesOK /\ m_entries[id] # NoAccount
    BY DEF RemoveAccount, IInv, Listed
  <1>2. ref \in OwnRefs(id) /\ ref \in Refs
    BY <1>1, AccountFacts DEF TablesOK, OwnsRefs
  <1>3. PICK entries : /\ entries \in {m_entries, DeleteRow(m_entries, id)}
                       /\ Applied(entries)
    <2>1. CASE Write(DeleteRow(rows, id)) /\ m_entries' = DeleteRow(m_entries, id)
      BY <1>1, <2>1, DeleteTwins, WriteKeeps
    <2>2. CASE UNCHANGED <<stores, m_entries>>
      BY <1>1, <2>2, StayKeeps
    <2> QED
      BY <2>1, <2>2 DEF RemoveAccount
  <1>4. /\ entries[id] \in {m_entries[id], NoAccount}
        /\ \A j \in Ids \ {id} : entries[j] = m_entries[j]
    BY <1>1, <1>3 DEF DeleteRow, TypeOK, Tables
  <1>5. PICK erased : keychain' = Remembered(IF erased THEN Erased(ref) ELSE keychain)
                      /\ Rebind({id}, {}, m_entries, cache, keychain)
    BY DEF RemoveAccount
  <1>6. /\ removing' \subseteq Refs
        /\ \A r \in Refs : r \in removing' <=> (r \in removing \/ r = ref) /\ UsedNext(r)
    BY DEF RemoveAccount, UsedRefs, InUse, UsedNext
  <1> DEFINE chain == IF erased THEN Erased(ref) ELSE keychain
  <1>7. chain \in [Refs -> Passwords] /\ \A r \in Refs \ {ref} : chain[r] = keychain[r]
    BY <1>1 DEF Erased, TypeOK, Passwords
  <1>8. cache \in [Refs -> Passwords] /\ keychain \in [Refs -> Passwords]
        /\ cache[ref] = None /\ \A r \in Refs \ {ref} : cache[r] = m_passwordCache[r]
    BY <1>1, <1>2 DEF TypeOK, Passwords
  <1>9. keychain' = Remembered(chain)
    BY <1>5
  <1> HIDE DEF chain, cache, ref
  <1>10. \A r \in Refs : UsedNext(r) /\ r \notin removing' =>
           r \notin removing /\ r # ref /\ keychain'[r] = keychain[r]
    BY <1>6, <1>7, <1>9, RememberedFacts
  <1>11. \A r \in Refs : UsedNext(r) /\ cache[r] # None /\ r \notin removing' => cache[r] = keychain[r]
    BY <1>8, <1>10 DEF IInv, CacheCurrent
  <1>12. ASSUME NEW j \in Ids \ {id}, Bound(j) PROVE Untouched(j)
    <2>1. m_entries[j].enabled /\ m_entries[j].ref \in Refs
      BY <1>12, BoundIsListed
    <2>2. m_entries'[j].ref = m_entries[j].ref /\ m_entries'[j].enabled
          /\ UsedNext(m_entries[j].ref)
      BY <1>1, <1>3, <1>4, <2>1, AppliedFacts
    <2> QED
      BY <1>10, <2>1, <2>2 DEF Untouched
  <1>13. BindingsTyped /\ CacheCurrent' /\ CredentialsCurrent' /\ StateBelongsToBinding'
    <2>1. {} \in SUBSET Ids /\ {id} \in SUBSET Ids /\ CredentialsCurrent /\ StateBelongsToBinding
      BY DEF IInv
    <2>2. \A r \in Refs : UsedNext(r) /\ r \notin removing' => keychain'[r] = keychain[r]
      BY <1>10
    <2>3. Rebind({id}, {}, m_entries, cache, keychain)
      BY <1>5
    <2> QED
      BY <1>1, <1>8, <1>11, <1>12, <2>1, <2>2, <2>3, RebindKeeps
  <1>14. SecretsKept'
    <2>1. \A j \in Ids : ~transaction /\ entries[j] # NoAccount =>
            m_entries[j] # NoAccount /\ entries[j].ref = m_entries[j].ref
      BY <1>4
    <2> QED
      BY <1>3, <1>10, <2>1, SecretsStay
  <1>15. TypeOK'
    BY <1>3, <1>6, <1>7, <1>9, <1>13, RememberedFacts DEF TypeOK, BindingsTyped, Applied
  <1> QED
    BY <1>3, <1>13, <1>14, <1>15 DEF IInv, Applied

\* updateAccount keeps the invariant.
LEMMA UpdateAccountKeeps ==
  ASSUME IInv, NEW id \in Ids, NEW enabled \in BOOLEAN, NEW startup \in BOOLEAN,
         NEW asDefault \in BOOLEAN, NEW retyped \in BOOLEAN,
         UpdateAccount(id, enabled, startup, asDefault, retyped)
  PROVE  IInv'
  <1> DEFINE ref == m_entries[id].ref
             entries == Edited(m_entries, id, enabled, startup)
             table == Edited(rows, id, enabled, startup)
             want == IF enabled /\ (Bound(id) \/ startup) THEN {id} ELSE {}
  <1>1. TypeOK /\ TablesOK /\ id \in Listed(m_entries) /\ m_entries[id] # NoAccount
    BY DEF UpdateAccount, IInv, Listed
  <1>2. ref \in OwnRefs(id) /\ ref \in Refs
    BY <1>1, AccountFacts DEF TablesOK, OwnsRefs
  <1>3. /\ Twins(table, entries) /\ entries[id].ref = ref /\ entries[id].enabled = enabled
        /\ \A j \in Ids \ {id} : entries[j] = m_entries[j]
    BY <1>1, EditedTwins
  <1>4. PICK o : /\ \/ o \in DefaultOutcomes(table, entries, id)
                    \/ o = [rows |-> table, entries |-> entries, commit |-> TRUE]
                 /\ Apply(table, o)
    BY DEF UpdateAccount
  <1>5. PICK changes, chain :
          /\ chain = IF changes THEN [keychain EXCEPT ![ref] = 2] ELSE keychain
          /\ keychain' = chain
          /\ Rebind({id}, want, entries,
                    IF changes THEN CacheAfter(ref, 2) ELSE m_passwordCache, chain)
    BY DEF UpdateAccount
  <1> DEFINE cache == IF changes THEN CacheAfter(ref, 2) ELSE m_passwordCache
  <1>6. /\ chain \in [Refs -> Passwords] /\ chain[ref] \in {2, keychain[ref]}
        /\ \A r \in Refs \ {ref} : chain[r] = keychain[r]
    BY <1>1, <1>2, <1>5 DEF TypeOK, Passwords
  <1>7. /\ cache \in [Refs -> Passwords]
        /\ \/ cache[ref] = chain[ref]
           \/ cache[ref] = m_passwordCache[ref] /\ chain[ref] = keychain[ref]
        /\ \A r \in Refs \ {ref} : cache[r] = m_passwordCache[r]
    BY <1>1, <1>2, <1>5 DEF TypeOK, Passwords, CacheAfter
  <1>8. removing' = removing
    BY DEF UpdateAccount
  <1>9. want \in SUBSET Ids /\ \A j \in want : j = id /\ enabled
    OBVIOUS
  <1>10. keychain' = chain /\ Rebind({id}, want, entries, cache, chain)
    BY <1>5
  <1> HIDE DEF ref, entries, table, want, cache
  <1>11. Applied(entries)
    BY <1>1, <1>3, <1>4, ApplyKeeps
  <1>12. \A r \in Refs : UsedNext(r) /\ cache[r] # None /\ r \notin removing' => cache[r] = chain[r]
    <2> SUFFICES ASSUME NEW r \in Refs, cache[r] # None, r \notin removing
                 PROVE  cache[r] = chain[r]
      BY <1>8
    <2>1. m_passwordCache[r] # None => m_passwordCache[r] = keychain[r]
      BY DEF IInv, CacheCurrent
    <2> QED
      BY <1>6, <1>7, <2>1
  <1>13. \A j \in want : /\ entries[j].ref \in Refs /\ UsedNext(entries[j].ref)
                         /\ m_entries'[j].ref = entries[j].ref /\ m_entries'[j].enabled
    BY <1>1, <1>2, <1>3, <1>9, <1>11, AppliedFacts
  <1>14. ASSUME NEW j \in Ids \ {id}, Bound(j) PROVE Untouched(j)
    <2>1. m_entries[j] # NoAccount /\ m_entries[j].enabled /\ m_entries[j].ref \in Refs
      BY <1>14, BoundIsListed
    <2>2. m_entries[j].ref # ref
      BY <1>1, <2>1, RefsDistinct DEF TablesOK, ref
    <2>3. m_entries'[j].ref = m_entries[j].ref /\ m_entries'[j].enabled
      BY <1>1, <1>3, <1>11, <2>1, AppliedFacts
    <2> QED
      BY <1>6, <1>8, <1>10, <2>1, <2>2, <2>3 DEF Untouched
  <1>15. BindingsTyped /\ CacheCurrent' /\ CredentialsCurrent' /\ StateBelongsToBinding'
    <2>1. {id} \in SUBSET Ids /\ CredentialsCurrent /\ StateBelongsToBinding
      BY DEF IInv
    <2>2. \A r \in Refs : UsedNext(r) /\ r \notin removing' => keychain'[r] = chain[r]
      BY <1>10
    <2> QED
      BY <1>1, <1>6, <1>7, <1>9, <1>10, <1>12, <1>13, <1>14, <2>1, <2>2, RebindKeeps
  <1>16. SecretsKept'
    <2>1. \A j \in Ids : ~transaction /\ entries[j] # NoAccount =>
            m_entries[j] # NoAccount /\ entries[j].ref = m_entries[j].ref
      BY <1>1, <1>3 DEF ref
    <2>2. \A r \in Refs : keychain[r] # None => keychain'[r] # None
      <3> SUFFICES ASSUME NEW r \in Refs, keychain[r] # None PROVE chain[r] # None
        BY <1>10
      <3>1. 2 # None
        BY DEF None
      <3> QED
        BY <1>6, <3>1
    <2> QED
      BY <1>8, <1>11, <2>1, <2>2, SecretsStay
  <1>17. TypeOK'
    BY <1>1, <1>6, <1>8, <1>10, <1>11, <1>15 DEF TypeOK, BindingsTyped, Applied
  <1> QED
    BY <1>11, <1>15, <1>16, <1>17 DEF IInv, Applied

\* setDefaultAccount keeps the invariant.
LEMMA SetDefaultAccountKeeps ==
  ASSUME IInv, NEW id \in Ids, SetDefaultAccount(id)
  PROVE  IInv'
  <1>1. TypeOK /\ TablesOK
    BY DEF IInv
  <1>2. UNCHANGED <<keychain, m_passwordCache, removing, m_backendIds, regs>>
    BY DEF SetDefaultAccount, secrets, bindings
  <1>3. PICK o \in DefaultOutcomes(rows, m_entries, id) : Apply(rows, o)
    BY DEF SetDefaultAccount
  <1>4. Applied(m_entries)
    BY <1>1, <1>3, TwinsNow, ApplyKeeps
  <1>5. SecretsKept'
    BY <1>2, <1>4, SecretsStay
  <1>6. CredentialsCurrent' /\ StateBelongsToBinding'
    BY <1>1, <1>2, <1>4, AppliedFacts DEF IInv, CredentialsCurrent, StateBelongsToBinding, Bound
  <1>7. CacheCurrent'
    BY <1>2 DEF IInv, CacheCurrent
  <1>8. TypeOK'
    BY <1>1, <1>2, <1>4 DEF TypeOK, Applied
  <1> QED
    BY <1>4, <1>5, <1>6, <1>7, <1>8 DEF IInv, Applied

\* setAccountEnabled keeps the invariant.
LEMMA SetAccountEnabledKeeps ==
  ASSUME IInv, NEW id \in Ids, SetAccountEnabled(id)
  PROVE  IInv'
  <1> DEFINE on == ~m_entries[id].enabled
             startup == m_entries[id].startup
             entries == Edited(m_entries, id, on, startup)
             table == Edited(rows, id, on, startup)
  <1>1. TypeOK /\ TablesOK /\ id \in Listed(m_entries) /\ m_entries[id] # NoAccount
    BY DEF SetAccountEnabled, IInv, Listed
  <1>2. m_entries[id].ref \in Refs
    BY <1>1, AccountFacts DEF TablesOK, OwnsRefs
  <1>3. on \in BOOLEAN /\ startup \in BOOLEAN
    <2>1. m_entries[id] \in Account
      BY <1>1 DEF TypeOK, Tables
    <2>2. startup \in BOOLEAN
      BY <2>1 DEF Account
    <2>3. on \in BOOLEAN
      BY Zenon
    <2> QED
      BY <2>2, <2>3
  <1>4. SetEnabled(rows, id) = table /\ SetEnabled(m_entries, id) = entries
    BY DEF SetEnabled, IInv, TablesOK, SameAccounts
  <1>5. Write(table) /\ m_entries' = entries
    BY <1>4 DEF SetAccountEnabled
  <1>6. PICK drop, want : /\ Rebind(drop, want, m_entries, m_passwordCache, keychain)
                          /\ drop \in SUBSET {id} /\ want \in SUBSET {id}
                          /\ m_entries[id].enabled => id \in drop
                          /\ id \in want => on
    <2>1. CASE m_entries[id].enabled
      BY <2>1 DEF SetAccountEnabled
    <2>2. CASE ~m_entries[id].enabled
      BY <2>2 DEF SetAccountEnabled
    <2> QED
      BY <2>1, <2>2
  <1>7. keychain' = keychain /\ removing' = removing
    BY DEF SetAccountEnabled
  <1> HIDE DEF on, startup
  <1>8. /\ Twins(table, entries) /\ entries[id].ref = m_entries[id].ref
        /\ entries[id].enabled = on
        /\ \A j \in Ids \ {id} : entries[j] = m_entries[j]
    BY <1>1, <1>3, EditedTwins
  <1> HIDE DEF entries, table
  <1>9. Applied(entries)
    BY <1>1, <1>5, <1>8, WriteKeeps
  <1>10. \A j \in want : /\ m_entries[j].ref \in Refs /\ UsedNext(m_entries[j].ref)
                         /\ m_entries'[j].ref = m_entries[j].ref /\ m_entries'[j].enabled
    BY <1>1, <1>2, <1>6, <1>8, <1>9, AppliedFacts
  <1>11. ASSUME NEW j \in Ids \ drop, Bound(j) PROVE Untouched(j)
    <2>1. m_entries[j].enabled
      BY <1>11, BoundIsListed
    <2>2. j # id
      BY <1>6, <2>1
    <2>3. m_entries'[j].ref = m_entries[j].ref /\ m_entries'[j].enabled
      BY <1>1, <1>8, <1>9, <2>1, <2>2, AppliedFacts
    <2> QED
      BY <1>7, <2>3 DEF Untouched
  <1>12. BindingsTyped /\ CacheCurrent' /\ CredentialsCurrent' /\ StateBelongsToBinding'
    <2>1. drop \in SUBSET Ids /\ want \in SUBSET Ids /\ CredentialsCurrent /\ StateBelongsToBinding
      BY <1>6 DEF IInv
    <2>2. m_passwordCache \in [Refs -> Passwords] /\ keychain \in [Refs -> Passwords]
      BY <1>1 DEF TypeOK
    <2>3. \A r \in Refs : m_passwordCache[r] # None /\ r \notin removing' =>
            m_passwordCache[r] = keychain[r]
      BY <1>7 DEF IInv, CacheCurrent
    <2> QED
      BY <1>1, <1>6, <1>7, <1>10, <1>11, <2>1, <2>2, <2>3, RebindKeeps
  <1>13. SecretsKept'
    <2>1. \A j \in Ids : ~transaction /\ entries[j] # NoAccount =>
            m_entries[j] # NoAccount /\ entries[j].ref = m_entries[j].ref
      BY <1>1, <1>8
    <2> QED
      BY <1>7, <1>9, <2>1, SecretsStay
  <1>14. TypeOK'
    BY <1>1, <1>7, <1>9, <1>12 DEF TypeOK, BindingsTyped, Applied
  <1> QED
    BY <1>9, <1>12, <1>13, <1>14 DEF IInv, Applied

\* reregisterAllEnabled keeps the invariant.
LEMMA ReregisterAllEnabledKeeps ==
  ASSUME IInv, ReregisterAllEnabled
  PROVE  IInv'
  <1> DEFINE all == StartupTargets(m_entries)
  <1>1. TypeOK /\ TablesOK
    BY DEF IInv
  <1>2. /\ UNCHANGED <<m_entries, stores, keychain, removing>>
        /\ Rebind(all, all, m_entries, m_passwordCache, keychain)
    BY DEF ReregisterAllEnabled
  <1>3. Applied(m_entries)
    BY <1>1, <1>2, StayKeeps
  <1>4. all \in SUBSET Ids /\ \A j \in all : m_entries[j] # NoAccount /\ m_entries[j].enabled
    BY DEF StartupTargets, Listed
  <1> HIDE DEF all
  <1>5. \A j \in all : /\ m_entries[j].ref \in Refs /\ UsedNext(m_entries[j].ref)
                       /\ m_entries'[j].ref = m_entries[j].ref /\ m_entries'[j].enabled
    <2> SUFFICES ASSUME NEW j \in all
                 PROVE  /\ m_entries[j].ref \in Refs /\ UsedNext(m_entries[j].ref)
                        /\ m_entries'[j].ref = m_entries[j].ref /\ m_entries'[j].enabled
      OBVIOUS
    <2>1. m_entries[j].ref \in Refs
      BY <1>1, <1>4, AccountFacts DEF TablesOK, OwnsRefs
    <2> QED
      BY <1>1, <1>3, <1>4, <2>1, AppliedFacts
  <1>6. ASSUME NEW j \in Ids, Bound(j) PROVE Untouched(j)
    BY <1>2, <1>6, BoundIsListed DEF Untouched
  <1>7. BindingsTyped /\ CacheCurrent' /\ CredentialsCurrent' /\ StateBelongsToBinding'
    <2>1. m_passwordCache \in [Refs -> Passwords] /\ keychain \in [Refs -> Passwords]
          /\ CredentialsCurrent /\ StateBelongsToBinding
      BY <1>1 DEF TypeOK, IInv
    <2>2. \A r \in Refs : m_passwordCache[r] # None /\ r \notin removing' =>
            m_passwordCache[r] = keychain[r]
      BY <1>2 DEF IInv, CacheCurrent
    <2> QED
      BY <1>1, <1>2, <1>4, <1>5, <1>6, <2>1, <2>2, RebindKeeps
  <1>8. SecretsKept'
    BY <1>2, <1>3, SecretsStay
  <1>9. TypeOK'
    BY <1>1, <1>2, <1>3, <1>7 DEF TypeOK, BindingsTyped, Applied
  <1> QED
    BY <1>3, <1>7, <1>8, <1>9 DEF IInv, Applied

\* onRegState keeps the invariant: only a bound account changes its state.
LEMMA onRegStateKeeps ==
  ASSUME IInv, NEW binding, NEW active, NEW code, onRegState(binding, active, code)
  PROVE  IInv'
  <1>1. UNCHANGED <<m_entries, rows, saved, transaction, keychain, m_passwordCache,
                    removing, m_backendIds>>
    BY DEF onRegState, stores, secrets
  <1>2. mapRegEvent(active, code) \in {"Unregistered", "Registering", "Registered", "Failed"}
    BY DEF mapRegEvent
  <1>3. /\ regs' \in [Ids -> {"Unregistered", "Registering", "Registered", "Failed"}]
        /\ \A id \in Ids : ~Bound(id) => regs'[id] = regs[id]
    BY <1>2 DEF onRegState, accountIdForBackend, IInv, TypeOK
  <1>4. TypeOK'
    BY <1>1, <1>3 DEF IInv, TypeOK
  <1>5. StateBelongsToBinding'
    BY <1>1, <1>3 DEF IInv, StateBelongsToBinding, Bound
  <1>6. CredentialsCurrent' /\ CacheCurrent' /\ SecretsKept'
    BY <1>1 DEF IInv, CredentialsCurrent, Bound, CacheCurrent, SecretsKept, Listed
  <1>7. TablesOK'
    BY <1>1 DEF IInv, TablesOK, OwnsRefs, SameAccounts, OneDefault, Listed
  <1> QED
    BY <1>4, <1>5, <1>6, <1>7 DEF IInv

\* A new start from what the database and the keychain hold, when a crash took
\* no password but one whose removal was begun.
LEMMA StartKeeps ==
  ASSUME IInv, NEW chain \in [Refs -> Passwords], StartWith(chain),
         removing' \subseteq Refs,
         \A r \in Refs : UsedNext(r) /\ r \notin removing' =>
           r \notin removing /\ chain[r] = keychain[r]
  PROVE  IInv'
  <1> DEFINE ready == {id \in StartupTargets(saved) : chain[saved[id].ref] # None}
  <1>1. TypeOK /\ TablesOK
    BY DEF IInv
  <1>2. LoadFromDatabase /\ keychain' = Remembered(chain)
        /\ regs' = [id \in Ids |-> "Unregistered"]
        /\ m_passwordCache' =
             [r \in Refs |-> IF \E id \in ready : saved[id].ref = r THEN chain[r] ELSE None]
    BY DEF StartWith
  <1>3. PICK done \in SUBSET ready :
          m_backendIds' = [id \in Ids |-> IF id \in done THEN chain[saved[id].ref] ELSE None]
    BY DEF StartWith
  <1>4. Applied(saved)
    BY <1>1, <1>2, LoadKeeps
  <1>5. \A id \in ready : /\ id \in Ids /\ saved[id].enabled
                          /\ saved[id].ref \in Refs /\ UsedNext(saved[id].ref)
    <2> SUFFICES ASSUME NEW id \in ready
                 PROVE  /\ id \in Ids /\ saved[id].enabled
                        /\ saved[id].ref \in Refs /\ UsedNext(saved[id].ref)
      OBVIOUS
    <2>1. id \in Ids /\ saved[id] # NoAccount /\ saved[id].enabled
      BY DEF StartupTargets, Listed
    <2>2. saved[id].ref \in Refs
      BY <1>1, <2>1, AccountFacts DEF TablesOK, OwnsRefs
    <2> QED
      BY <1>1, <1>4, <2>1, <2>2, AppliedFacts
  <1>6. \A id \in done : id \in ready /\ chain[saved[id].ref] # None
    OBVIOUS
  <1> HIDE DEF ready
  <1>7. /\ keychain' \in [Refs -> Passwords]
        /\ \A r \in Refs : UsedNext(r) => keychain'[r] = chain[r]
    BY <1>2, RememberedFacts
  <1>8. BindingsTyped
    BY <1>2, <1>3, <1>5, <1>6 DEF BindingsTyped, Passwords
  <1>9. CacheCurrent'
    BY <1>2, <1>5, <1>7 DEF CacheCurrent
  <1>10. m_entries' = saved
    BY <1>2 DEF LoadFromDatabase
  <1>11. CredentialsCurrent'
    <2> SUFFICES ASSUME NEW id \in Ids, m_backendIds'[id] # None
                 PROVE  m_backendIds'[id] = keychain'[m_entries'[id].ref]
      BY DEF CredentialsCurrent, Bound
    <2>1. id \in done /\ m_backendIds'[id] = chain[saved[id].ref]
      BY <1>3
    <2> QED
      BY <1>5, <1>6, <1>7, <1>10, <2>1
  <1>12. StateBelongsToBinding'
    <2> SUFFICES ASSUME NEW id \in Ids
                 PROVE  /\ m_backendIds'[id] = None => regs'[id] = "Unregistered"
                        /\ m_backendIds'[id] # None => m_entries'[id].enabled
      BY DEF StateBelongsToBinding, Bound
    <2>1. regs'[id] = "Unregistered"
      BY <1>2
    <2>2. m_backendIds'[id] # None => id \in done
      BY <1>3
    <2> QED
      BY <1>5, <1>6, <1>10, <2>1, <2>2
  <1>13. SecretsKept'
    <2> SUFFICES ASSUME NEW id \in Ids, saved[id] # NoAccount, saved[id].ref \notin removing'
                 PROVE  keychain'[saved[id].ref] # None
      BY <1>2 DEF SecretsKept, Listed, LoadFromDatabase
    <2>1. saved[id].ref \in Refs
      BY <1>1, AccountFacts DEF TablesOK, OwnsRefs
    <2>2. UsedNext(saved[id].ref)
      BY <1>1, <1>4, AppliedFacts
    <2>3. keychain[saved[id].ref] # None
      BY <2>1, <2>2 DEF IInv, SecretsKept, Listed
    <2> QED
      BY <1>7, <2>1, <2>2, <2>3
  <1>14. TypeOK'
    BY <1>4, <1>7, <1>8 DEF TypeOK, BindingsTyped, Applied
  <1> QED
    BY <1>4, <1>8, <1>9, <1>11, <1>12, <1>13, <1>14 DEF IInv, Applied

\* A restart keeps the invariant.
LEMMA RestartKeeps ==
  ASSUME IInv, Restart
  PROVE  IInv'
  <1>1. removing' \subseteq Refs /\ \A r \in Refs : UsedNext(r) /\ r \notin removing' => r \notin removing
    BY DEF Restart, UsedRefs, InUse, UsedNext
  <1>2. keychain \in [Refs -> Passwords] /\ StartWith(keychain)
    BY DEF Restart, IInv, TypeOK
  <1> QED
    BY <1>1, <1>2, StartKeeps

\* A crash half-way through remove() keeps the invariant.
LEMMA CrashInRemoveKeeps ==
  ASSUME IInv, NEW id \in Ids, CrashInRemove(id)
  PROVE  IInv'
  <1> DEFINE ref == m_entries[id].ref
  <1>1. /\ removing' \subseteq Refs
        /\ \A r \in Refs : UsedNext(r) /\ r \notin removing' => r \notin removing /\ r # ref
    BY DEF CrashInRemove, UsedRefs, InUse, UsedNext
  <1>2. /\ Erased(ref) \in [Refs -> Passwords]
        /\ \A r \in Refs \ {ref} : Erased(ref)[r] = keychain[r]
    BY DEF Erased, IInv, TypeOK, Passwords
  <1>3. StartWith(Erased(ref))
    BY DEF CrashInRemove
  <1> QED
    BY <1>1, <1>2, <1>3, StartKeeps

\* Every step keeps the invariant.
LEMMA StepKeeps ==
  ASSUME IInv, [Next]_vars
  PROVE  IInv'
  <1>1. CASE UserStep
    BY <1>1, AddAccountKeeps, RemoveAccountKeeps, SetDefaultAccountKeeps,
       SetAccountEnabledKeeps, UpdateAccountKeeps DEF UserStep
  <1>2. CASE EnvironmentStep
    BY <1>2, ReregisterAllEnabledKeeps, onRegStateKeeps DEF EnvironmentStep
  <1>3. CASE Restart \/ \E id \in Ids : CrashInRemove(id)
    BY <1>3, RestartKeeps, CrashInRemoveKeeps
  <1>4. CASE UNCHANGED vars
    <2>1. UNCHANGED <<m_entries, rows, saved, transaction, keychain, m_passwordCache,
                      removing, m_backendIds, regs>>
      BY <1>4 DEF vars, stores, secrets, bindings
    <2>2. TypeOK'
      BY <2>1 DEF IInv, TypeOK
    <2>3. TablesOK'
      BY <2>1 DEF IInv, TablesOK, OwnsRefs, SameAccounts, OneDefault, Listed
    <2>4. CredentialsCurrent' /\ CacheCurrent' /\ SecretsKept' /\ StateBelongsToBinding'
      BY <2>1 DEF IInv, CredentialsCurrent, Bound, CacheCurrent, SecretsKept, Listed,
                  StateBelongsToBinding
    <2> QED
      BY <2>2, <2>3, <2>4 DEF IInv
  <1> QED
    BY <1>1, <1>2, <1>3, <1>4 DEF Next

\* The first start, with no account, satisfies the invariant.
LEMMA InitHolds ==
  ASSUME Init
  PROVE  IInv
  <1> USE DEF Init
  <1>1. TypeOK
    BY AccountFacts DEF TypeOK, Tables, Passwords
  <1>2. \A id \in Ids : m_entries[id] = NoAccount /\ m_backendIds[id] = None
    OBVIOUS
  <1>3. TablesOK
    BY <1>2 DEF TablesOK, OwnsRefs, SameAccounts, OneDefault, Listed
  <1>4. CacheCurrent
    BY DEF CacheCurrent
  <1>5. SecretsKept /\ CredentialsCurrent /\ StateBelongsToBinding
    BY <1>2 DEF SecretsKept, CredentialsCurrent, StateBelongsToBinding, Bound, Listed
  <1> QED
    BY <1>1, <1>3, <1>4, <1>5 DEF IInv

-----------------------------------------------------------------------------
(* The theorems.                                                           *)

\* The inductive invariant holds in every reachable state.
THEOREM AccountsInvariant == Spec => []IInv
  <1>1. Init => IInv
    BY InitHolds
  <1>2. IInv /\ [Next]_vars => IInv'
    BY StepKeeps
  <1> QED
    BY <1>1, <1>2, PTL DEF Spec

\* After a step that failed half-way, memory and database still agree and at most
\* one account is the default, unless a COMMIT of setDefault failed.
THEOREM MemoryIsDatabase == Spec => []MemoryMatchesDatabase
  <1>1. IInv => MemoryMatchesDatabase
    BY DEF IInv, TablesOK, OneDefault, MemoryMatchesDatabase
  <1> QED
    BY <1>1, AccountsInvariant, PTL

\* No password is lost but that of an account whose removal was begun.
THEOREM PasswordsKept == Spec => []SecretsKept
  <1>1. IInv => SecretsKept
    BY DEF IInv
  <1> QED
    BY <1>1, AccountsInvariant, PTL

\* Every binding authenticates with the password the keychain holds.
THEOREM BindingsUseKeychain == Spec => []CredentialsCurrent
  <1>1. IInv => CredentialsCurrent
    BY DEF IInv
  <1> QED
    BY <1>1, AccountsInvariant, PTL

\* What an account shows comes from its own binding, which only an enabled
\* account has.
THEOREM StateIsTheBindings == Spec => []StateBelongsToBinding
  <1>1. IInv => StateBelongsToBinding
    BY DEF IInv
  <1> QED
    BY <1>1, AccountsInvariant, PTL
=============================================================================
