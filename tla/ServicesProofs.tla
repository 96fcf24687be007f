--------------------------- MODULE ServicesProofs ---------------------------
(***************************************************************************)
(* TLAPS proofs about the services around calling, each on its own: the    *)
(* file keychain, the migrations of the database, signing in, the check    *)
(* for updates, the boot configuration, the messages and the watched lines. *)
(***************************************************************************)
EXTENDS FileKeychain, Schema, Lines, Messages, UpdateCheck, Provisioning, Boot,
        Induction, FiniteSetTheorems

-----------------------------------------------------------------------------
(* The file keychain.                                                      *)

KeychainSpec == KeychainInit /\ [][KeychainNext]_keychainVars

Contents == [KeychainRefs -> Secrets \cup {NoSecret}]

\* The files and the store in memory are well typed.
KeychainTypeOK ==
  /\ {keyFile, keychainUp, m_masterKey, m_salt, unread} \subseteq BOOLEAN
  /\ m_store \in Contents
  /\ storeFile \in [values : Contents, salted : BOOLEAN, exists : BOOLEAN]
  /\ promised \in [KeychainRefs -> SUBSET (Secrets \cup {NoSecret})]

\* There is a key before there is a store, and a program that has its key writes
\* under a salt unless it could not read the store.
KeychainInv ==
  /\ KeychainTypeOK
  /\ storeFile.exists \/ m_masterKey => keyFile
  /\ storeFile.exists \/ storeFile = NoStore
  /\ keychainUp /\ m_masterKey /\ ~unread => m_salt
  /\ KeychainKeepsPromises

\* What encrypt() makes is well typed and readable under a salt.
LEMMA EncryptedFacts ==
  ASSUME NEW values \in Contents, NEW salt \in BOOLEAN
  PROVE  /\ Encrypted(values, salt) \in [values : Contents, salted : BOOLEAN, exists : BOOLEAN]
         /\ Encrypted(values, salt).values = values
         /\ Encrypted(values, salt).exists
         /\ salt => Decrypts(Encrypted(values, salt))
  BY DEF Encrypted, Decrypts

\* makeKeychain keeps the invariant.
LEMMA MakeKeychainKeeps ==
  ASSUME KeychainInv, MakeKeychain
  PROVE  KeychainInv'
  <1>1. PICK keyOk \in BOOLEAN, storeOk \in BOOLEAN :
          /\ LoadOrCreateMasterKey(keyOk)
          /\ \/ keyOk /\ OpenStore(storeOk)
             \/ /\ ~keyOk
                /\ m_salt' = FALSE /\ m_store' = NoSecrets
                /\ UNCHANGED <<storeFile, unread>>
    BY DEF MakeKeychain
  <1>2. keychainUp' = TRUE /\ promised' = promised
    BY DEF MakeKeychain
  <1>3. keyFile' = (keyFile \/ keyOk) /\ m_masterKey' = keyOk /\ keyFile' \in BOOLEAN
    BY <1>1, Zenon DEF LoadOrCreateMasterKey
  <1>4. NoSecrets \in Contents
    BY DEF NoSecrets, Contents
  <1>5. CASE ~keyOk /\ m_salt' = FALSE /\ m_store' = NoSecrets /\ UNCHANGED <<storeFile, unread>>
    BY <1>2, <1>3, <1>4, <1>5 DEF KeychainInv, KeychainTypeOK, KeychainKeepsPromises, Decrypts
  <1>6. CASE keyOk /\ OpenStore(storeOk)
    <2>1. CASE /\ ~storeFile.exists
               /\ m_salt' = TRUE /\ m_store' = NoSecrets
               /\ storeFile' = IF storeOk THEN Encrypted(NoSecrets, TRUE) ELSE storeFile
               /\ UNCHANGED unread
      <3>1. storeFile = NoStore /\ storeFile.values = NoSecrets /\ storeFile.salted = TRUE
        BY <2>1 DEF KeychainInv, NoStore
      <3>2. storeFile' = storeFile \/ storeFile' = Encrypted(NoSecrets, TRUE)
        BY <2>1
      <3>3. /\ storeFile'.values = NoSecrets /\ Decrypts(storeFile')
            /\ storeFile' \in [values : Contents, salted : BOOLEAN, exists : BOOLEAN]
            /\ storeFile'.exists \/ storeFile' = NoStore
        <4>1. CASE storeFile' = storeFile
          BY <3>1, <4>1 DEF KeychainInv, KeychainTypeOK, Decrypts
        <4>2. CASE storeFile' = Encrypted(NoSecrets, TRUE)
          <5>1. TRUE \in BOOLEAN
            OBVIOUS
          <5> QED
            BY <1>4, <4>2, <5>1, EncryptedFacts
        <4> QED
          BY <3>2, <4>1, <4>2
      <3> QED
        BY <1>2, <1>3, <1>4, <1>6, <2>1, <3>1, <3>3
           DEF KeychainInv, KeychainTypeOK, KeychainKeepsPromises, Decrypts
    <2>2. CASE /\ storeFile.exists /\ m_salt' = TRUE /\ m_store' = storeFile.values
               /\ UNCHANGED <<storeFile, unread>>
      BY <1>2, <1>3, <1>6, <2>2 DEF KeychainInv, KeychainTypeOK, KeychainKeepsPromises, Decrypts
    <2>3. CASE /\ storeFile.exists /\ m_salt' \in {FALSE, storeOk}
               /\ m_store' = NoSecrets /\ unread' = TRUE /\ UNCHANGED storeFile
      BY <1>2, <1>3, <1>4, <1>6, <2>3 DEF KeychainInv, KeychainTypeOK, KeychainKeepsPromises
    <2> QED
      BY <1>6, <2>1, <2>2, <2>3 DEF OpenStore
  <1> QED
    BY <1>1, <1>5, <1>6

\* A write through persist(), finished or cut off by a crash: the file is the old
\* one, or holds the new value under a salt.
LEMMA PersistKeeps ==
  ASSUME KeychainInv, keychainUp, NEW r \in KeychainRefs, NEW v \in Secrets \cup {NoSecret},
         NEW ok \in BOOLEAN, Persist([m_store EXCEPT ![r] = v], ok)
  PROVE  /\ [m_store EXCEPT ![r] = v] \in Contents
         /\ ~ok => storeFile' = storeFile
         /\ ok => /\ m_masterKey
                  /\ storeFile' \in [values : Contents, salted : BOOLEAN, exists : BOOLEAN]
                  /\ storeFile'.values = [m_store EXCEPT ![r] = v] /\ storeFile'.exists
                  /\ ~unread => Decrypts(storeFile')
  <1>1. [m_store EXCEPT ![r] = v] \in Contents
    BY DEF KeychainInv, KeychainTypeOK, Contents
  <1>2. m_salt \in BOOLEAN
    BY DEF KeychainInv, KeychainTypeOK
  <1> QED
    BY <1>1, <1>2, EncryptedFacts DEF Persist, DeriveKey, KeychainInv

\* set() and erase() keep the invariant.
LEMMA KeychainSetKeeps ==
  ASSUME KeychainInv, NEW r \in KeychainRefs, NEW v \in Secrets \cup {NoSecret}, KeychainSet(r, v)
  PROVE  KeychainInv'
  <1>1. PICK ok \in BOOLEAN :
          /\ m_store' = RolledBack(r, v, ok)
          /\ Persist([m_store EXCEPT ![r] = v], ok)
          /\ promised' = IF ok THEN [promised EXCEPT ![r] = {v}] ELSE promised
    BY DEF KeychainSet
  <1>2. keychainUp /\ UNCHANGED <<keyFile, keychainUp, m_masterKey, m_salt, unread>>
    BY DEF KeychainSet
  <1>3. CASE ~ok
    BY <1>1, <1>2, <1>3, PersistKeeps
       DEF RolledBack, KeychainInv, KeychainTypeOK, KeychainKeepsPromises, Decrypts
  <1>4. CASE ok
    <2>1. /\ m_store' = [m_store EXCEPT ![r] = v] /\ m_store' \in Contents
          /\ storeFile'.values = m_store' /\ storeFile'.exists /\ m_masterKey
          /\ storeFile' \in [values : Contents, salted : BOOLEAN, exists : BOOLEAN]
          /\ ~unread => Decrypts(storeFile')
      BY <1>1, <1>2, <1>4, PersistKeeps DEF RolledBack
    <2>2. /\ promised' \in [KeychainRefs -> SUBSET (Secrets \cup {NoSecret})]
          /\ promised'[r] = {v} /\ \A k \in KeychainRefs \ {r} : promised'[k] = promised[k]
      BY <1>1, <1>4 DEF KeychainInv, KeychainTypeOK
    <2>3. m_store'[r] = v /\ \A k \in KeychainRefs \ {r} : m_store'[k] = m_store[k]
      BY <2>1 DEF KeychainInv, KeychainTypeOK, Contents
    <2>4. KeychainKeepsPromises'
      BY <1>2, <2>1, <2>2, <2>3 DEF KeychainInv, KeychainKeepsPromises, Decrypts
    <2> QED
      BY <1>2, <2>1, <2>2, <2>4 DEF KeychainInv, KeychainTypeOK
  <1> QED
    BY <1>3, <1>4

\* A crash inside set() or erase() keeps the invariant.
LEMMA CrashInSetKeeps ==
  ASSUME KeychainInv, NEW r \in KeychainRefs, NEW v \in Secrets \cup {NoSecret}, CrashInSet(r, v)
  PROVE  KeychainInv'
  <1>1. PICK renamed \in BOOLEAN : Persist([m_store EXCEPT ![r] = v], renamed)
    BY DEF CrashInSet
  <1>2. /\ keychainUp /\ UNCHANGED <<keyFile, unread>>
        /\ keychainUp' = FALSE /\ m_masterKey' = FALSE /\ m_salt' = FALSE /\ m_store' = NoSecrets
    BY DEF CrashInSet, Forgotten
  <1>3. NoSecrets \in Contents
    BY DEF NoSecrets, Contents
  <1>4. /\ promised' \in [KeychainRefs -> SUBSET (Secrets \cup {NoSecret})]
        /\ v \in promised'[r] /\ \A k \in KeychainRefs : promised[k] \subseteq promised'[k]
    BY DEF CrashInSet, KeychainInv, KeychainTypeOK
  <1>5. CASE ~renamed
    <2>1. storeFile' = storeFile
      BY <1>1, <1>2, <1>5, PersistKeeps
    <2> QED
      BY <1>2, <1>3, <1>4, <2>1 DEF KeychainInv, KeychainTypeOK, KeychainKeepsPromises, Decrypts
  <1>6. CASE renamed
    <2> DEFINE new == [m_store EXCEPT ![r] = v]
    <2>1. /\ storeFile'.values = new /\ storeFile'.exists /\ m_masterKey
          /\ storeFile' \in [values : Contents, salted : BOOLEAN, exists : BOOLEAN]
          /\ ~unread => Decrypts(storeFile')
      BY <1>1, <1>2, <1>6, PersistKeeps
    <2>2. new[r] = v /\ \A k \in KeychainRefs \ {r} : new[k] = m_store[k]
      BY DEF KeychainInv, KeychainTypeOK, Contents
    <2> HIDE DEF new
    <2>3. KeychainKeepsPromises'
      BY <1>2, <1>4, <2>1, <2>2 DEF KeychainInv, KeychainKeepsPromises, Decrypts
    <2> QED
      BY <1>2, <1>3, <1>4, <2>1, <2>3 DEF KeychainInv, KeychainTypeOK
  <1> QED
    BY <1>5, <1>6

\* Every step keeps the promises.
LEMMA KeychainStepKeeps ==
  ASSUME KeychainInv, [KeychainNext]_keychainVars
  PROVE  KeychainInv'
  <1>1. CASE KeychainExit
    <2>1. NoSecrets \in Contents
      BY DEF NoSecrets, Contents
    <2> QED
      BY <1>1, <2>1 DEF KeychainExit, Forgotten, KeychainInv, KeychainTypeOK,
                        KeychainKeepsPromises, Decrypts
  <1>2. CASE CrashInOpen
    BY <1>2 DEF CrashInOpen, KeychainInv, KeychainTypeOK, KeychainKeepsPromises, Decrypts
  <1>3. CASE UNCHANGED keychainVars
    BY <1>3 DEF keychainVars, KeychainInv, KeychainTypeOK, KeychainKeepsPromises, Decrypts
  <1> QED
    BY <1>1, <1>2, <1>3, MakeKeychainKeeps, KeychainSetKeeps, CrashInSetKeeps DEF KeychainNext

\* For any references and passwords, through failing writes and crashes: the store
\* stays readable and holds what set() accepted last, as long as every start that
\* found a store could read it.
THEOREM KeychainIsDurable == KeychainSpec => []KeychainKeepsPromises
  <1>1. KeychainInit => KeychainInv
    <2> SUFFICES ASSUME KeychainInit PROVE KeychainInv
      OBVIOUS
    <2>1. NoSecrets \in Contents /\ \A r \in KeychainRefs : NoSecrets[r] = NoSecret
      BY DEF NoSecrets, Contents
    <2>2. /\ storeFile \in [values : Contents, salted : BOOLEAN, exists : BOOLEAN]
          /\ storeFile.values = NoSecrets /\ ~storeFile.exists /\ storeFile = NoStore
      BY <2>1 DEF KeychainInit, NoStore
    <2>3. promised \in [KeychainRefs -> SUBSET (Secrets \cup {NoSecret})]
          /\ \A r \in KeychainRefs : promised[r] = {NoSecret}
      BY DEF KeychainInit
    <2> QED
      BY <2>1, <2>2, <2>3 DEF KeychainInit, KeychainInv, KeychainTypeOK, KeychainKeepsPromises
  <1>2. KeychainInv /\ [KeychainNext]_keychainVars => KeychainInv'
    BY KeychainStepKeeps
  <1>3. KeychainInv => KeychainKeepsPromises
    BY DEF KeychainInv
  <1> QED
    BY <1>1, <1>2, <1>3, PTL DEF KeychainSpec

-----------------------------------------------------------------------------
(* The migrations.                                                         *)

SchemaSpec == SchemaInit /\ [][SchemaNext]_schemaVars

Places == {"closed", "read", "begin", "migrate", "write", "commit", "open", "failed"}
Migrating == {"begin", "migrate", "write", "commit"}
Working(p) == opener[p].at \in Migrating \cup {"read"}
UpToDateSchema == [tables |-> TRUE, provider |-> TRUE, version |-> 2]

\* The openers are well typed; the database is always one that some release left.
SchemaTypeOK ==
  /\ disk \in Shipped
  /\ writer \in Openers \cup {NoOpener}
  /\ opener \in [Openers -> [at : Places, v : Nat, base : Databases, view : Databases]]
  /\ excused \subseteq Openers

\* Where an opener is in its transaction: the version it makes is one the database
\* is ready for, a migrated view is that of its snapshot, and who is about to
\* commit holds the lock and has seen the last commit.
Progress(p) ==
  /\ opener[p].at \in Migrating => opener[p].v \in {1, 2} /\ opener[p].v <= disk.version + 1
  /\ opener[p].at = "write" => /\ Fits(opener[p].v, opener[p].base)
                               /\ opener[p].view = Migrations(opener[p].v, opener[p].base)
  /\ opener[p].at = "commit" =>
       /\ writer = p /\ opener[p].view \in Shipped
       /\ opener[p].view.version = Larger(disk.version, opener[p].v)
  /\ opener[p].at = "open" => disk = UpToDateSchema
  /\ opener[p].at = "failed" => p \in excused

\* An opener without excuse is alone at work, and nothing has changed under it.
Alone(p) ==
  Working(p) /\ p \notin excused =>
    /\ \A q \in Openers \ {p} : ~Working(q)
    /\ writer \in {NoOpener, p}
    /\ opener[p].at \in Migrating => opener[p].v = disk.version + 1
    /\ opener[p].at = "write" => opener[p].base = disk

SchemaInv == SchemaTypeOK /\ \A p \in Openers : Progress(p) /\ Alone(p)

\* A database is its tables, its column and its version.
LEMMA SameDatabase ==
  ASSUME NEW a \in Databases, NEW b \in Databases,
         a.tables = b.tables, a.provider = b.provider, a.version = b.version
  PROVE  a = b
  BY DEF Databases

\* Setting the version changes nothing else.
LEMMA VersionSet ==
  ASSUME NEW d \in Databases, NEW n \in {0, 1, 2}
  PROVE  /\ [d EXCEPT !.version = n] \in Databases
         /\ [d EXCEPT !.version = n].version = n
         /\ [d EXCEPT !.version = n].tables = d.tables
         /\ [d EXCEPT !.version = n].provider = d.provider
  BY DEF Databases, Latest

\* What the databases of the releases have in common.
LEMMA ShippedFacts ==
  /\ UpToDateSchema \in Shipped /\ [Baseline EXCEPT !.version = 1] \in Shipped
  /\ [Baseline EXCEPT !.version = 2] = UpToDateSchema
  /\ \A d \in Shipped :
       /\ d \in Databases /\ d.version \in {0, 1, 2}
       /\ d.version = 0 => d = Empty /\ ~d.tables
       /\ d.version >= 1 => d.tables
       /\ d.version >= 2 <=> d = UpToDateSchema
  <1>0. /\ Baseline \in Databases /\ Baseline.tables = TRUE /\ Baseline.provider = TRUE
        /\ \A n \in {1, 2} : [tables |-> TRUE, provider |-> TRUE, version |-> n] \in Databases
    BY DEF Baseline, Databases, Latest
  <1>1. [Baseline EXCEPT !.version = 1] = [tables |-> TRUE, provider |-> TRUE, version |-> 1]
    <2> DEFINE d == [Baseline EXCEPT !.version = 1]
               e == [tables |-> TRUE, provider |-> TRUE, version |-> 1]
    <2>1. d \in Databases /\ d.version = 1 /\ d.tables = TRUE /\ d.provider = TRUE
      BY <1>0, VersionSet
    <2>2. e \in Databases /\ e.version = 1 /\ e.tables = TRUE /\ e.provider = TRUE
      BY <1>0
    <2> HIDE DEF d, e
    <2>3. d = e
      BY <2>1, <2>2, SameDatabase
    <2> QED
      BY <2>3 DEF d, e
  <1>2. [Baseline EXCEPT !.version = 2] = UpToDateSchema
    <2> DEFINE d == [Baseline EXCEPT !.version = 2]
    <2>1. d \in Databases /\ d.version = 2 /\ d.tables = TRUE /\ d.provider = TRUE
      BY <1>0, VersionSet
    <2>2. /\ UpToDateSchema \in Databases /\ UpToDateSchema.version = 2
          /\ UpToDateSchema.tables = TRUE /\ UpToDateSchema.provider = TRUE
      BY <1>0 DEF UpToDateSchema
    <2> HIDE DEF d
    <2>3. d = UpToDateSchema
      BY <2>1, <2>2, SameDatabase
    <2> QED
      BY <2>3 DEF d
  <1>3. UpToDateSchema \in Shipped /\ [Baseline EXCEPT !.version = 1] \in Shipped
    BY <1>2 DEF Shipped
  <1>4. ASSUME NEW d \in Shipped
        PROVE  /\ d \in Databases /\ d.version \in {0, 1, 2}
               /\ d.version = 0 => d = Empty /\ ~d.tables
               /\ d.version >= 1 => d.tables
               /\ d.version >= 2 <=> d = UpToDateSchema
    <2>1. CASE d = Empty
      BY <2>1 DEF Empty, UpToDateSchema, Databases, Latest
    <2>2. CASE d = [tables |-> TRUE, provider |-> FALSE, version |-> 1]
      BY <2>2 DEF UpToDateSchema, Databases, Latest
    <2>3. CASE d = [tables |-> TRUE, provider |-> TRUE, version |-> 1]
      BY <2>3 DEF UpToDateSchema, Databases, Latest
    <2>4. CASE d = UpToDateSchema
      BY <2>4 DEF UpToDateSchema, Databases, Latest
    <2> QED
      BY <1>1, <1>2, <2>1, <2>2, <2>3, <2>4 DEF Shipped
  <1> QED
    BY <1>2, <1>3, <1>4

\* What writeVersion makes of a migrated database.
Versioned(db, v) == [db EXCEPT !.version = Larger(@, v)]

\* A migration that fits makes one of them, of the version it is for.
LEMMA MigrationFacts ==
  ASSUME NEW d \in Shipped, NEW v \in {1, 2}, v <= d.version + 1, Fits(v, d)
  PROVE  /\ Migrations(v, d) \in Databases
         /\ Versioned(Migrations(v, d), v) \in Shipped
         /\ Versioned(Migrations(v, d), v).version = Larger(d.version, v)
  <1> DEFINE m == Migrations(v, d)
  <1>1. d \in Databases /\ d.version \in {0, 1, 2}
    BY ShippedFacts
  <1>2. CASE v = 1
    <2>1. d = Empty /\ d.version = 0
      BY <1>2, ShippedFacts DEF Fits
    <2>2. Baseline \in Databases /\ m = [Baseline EXCEPT !.version = 0]
      BY <1>2, <2>1 DEF Migrations, Baseline, Databases, Latest
    <2>3. m \in Databases /\ m.version = 0 /\ m.tables = Baseline.tables /\ m.provider = Baseline.provider
      BY <2>2, VersionSet
    <2> HIDE DEF m
    <2>4. Larger(m.version, v) = 1
      BY <1>2, <2>3 DEF Larger
    <2>5. Versioned(m, v) = [m EXCEPT !.version = 1]
      BY <2>4 DEF Versioned
    <2>6. Versioned(m, v) = [Baseline EXCEPT !.version = 1] /\ Versioned(m, v).version = 1
      BY <2>2, <2>3, <2>5, VersionSet, SameDatabase
    <2> QED
      BY <1>2, <2>1, <2>3, <2>4, <2>6, ShippedFacts DEF m
  <1>3. CASE v = 2
    <2>1. d.version \in {1, 2} /\ d.tables = TRUE
      BY <1>3, ShippedFacts DEF Databases
    <2>2. m = [d EXCEPT !.provider = TRUE]
      BY <1>3 DEF Migrations, AddProviderColumn
    <2>3. m \in Databases /\ m.version = d.version /\ m.tables = TRUE /\ m.provider = TRUE
      BY <1>1, <2>1, <2>2 DEF Databases
    <2> HIDE DEF m
    <2>4. Larger(m.version, v) = 2
      BY <1>3, <2>1, <2>3 DEF Larger
    <2>5. Versioned(m, v) = [m EXCEPT !.version = 2]
      BY <2>4 DEF Versioned
    <2>6. /\ UpToDateSchema \in Databases /\ UpToDateSchema.version = 2
          /\ UpToDateSchema.tables = TRUE /\ UpToDateSchema.provider = TRUE
      BY DEF UpToDateSchema, Databases, Latest
    <2>7. /\ Versioned(m, v) \in Databases /\ Versioned(m, v).version = 2
          /\ Versioned(m, v).tables = TRUE /\ Versioned(m, v).provider = TRUE
      BY <2>3, <2>5, VersionSet
    <2>8. Versioned(m, v) = UpToDateSchema
      BY <2>6, <2>7, SameDatabase
    <2> QED
      BY <2>3, <2>4, <2>6, <2>8, ShippedFacts DEF m
  <1> QED
    BY <1>2, <1>3

\* How a step of p can look to the other openers.
StepOf(p) ==
  /\ \A q \in Openers \ {p} : opener'[q] = opener[q]
  /\ \/ disk' = disk
     \/ opener[p].at = "commit" /\ disk' = opener[p].view
  /\ \/ writer' = writer
     \/ writer = p /\ writer' = NoOpener
     \/ Working(p) /\ writer \in {NoOpener, p} /\ writer' = p
  /\ excused \ {p} \subseteq excused' /\ excused' \subseteq Openers
  /\ \/ opener'[p].at \notin Migrating \cup {"read"}
     \/ Working(p)
     \/ \A q \in Openers \ {p} : Working(q) => q \in excused'

\* None of this disturbs the others.
LEMMA OthersKeep ==
  ASSUME SchemaInv, NEW p \in Openers, StepOf(p), NEW q \in Openers \ {p}
  PROVE  Progress(q)' /\ Alone(q)'
  <1>1. opener'[q] = opener[q] /\ Progress(q) /\ Alone(q) /\ Progress(p)
    BY DEF StepOf, SchemaInv
  <1>2. disk.version \in {0, 1, 2}
    BY ShippedFacts DEF SchemaInv, SchemaTypeOK
  <1>3. /\ disk'.version \in {0, 1, 2} /\ disk'.version >= disk.version
        /\ disk = UpToDateSchema => disk' = UpToDateSchema
    <2>1. CASE disk' = disk
      BY <1>2, <2>1
    <2>2. CASE opener[p].at = "commit" /\ disk' = opener[p].view
      <3>1. /\ opener[p].view \in Shipped /\ opener[p].v \in {1, 2}
            /\ opener[p].view.version = Larger(disk.version, opener[p].v)
        BY <1>1, <2>2 DEF Progress, Migrating
      <3>2. opener[p].view.version >= disk.version /\ opener[p].view.version \in {0, 1, 2}
        BY <1>2, <3>1 DEF Larger
      <3>3. disk \in Shipped
        BY DEF SchemaInv, SchemaTypeOK
      <3> QED
        BY <1>2, <2>2, <3>1, <3>2, <3>3, ShippedFacts
    <2> QED
      BY <2>1, <2>2 DEF StepOf
  <1>4. q \in excused => q \in excused'
    BY DEF StepOf
  <1>5. writer = q => writer' = q /\ disk' = disk
    BY <1>1, OpenersAssumption DEF StepOf, Progress
  <1>6. opener[q].v \in Nat
    BY DEF SchemaInv, SchemaTypeOK
  <1>7. Progress(q)'
    BY <1>1, <1>2, <1>3, <1>4, <1>5, <1>6 DEF Progress, Migrating, Fits
  <1>8. ASSUME Working(q), q \notin excused' PROVE Alone(q)'
    <2>1. /\ \A r \in Openers \ {q} : ~Working(r)
          /\ writer \in {NoOpener, q}
          /\ opener[q].at \in Migrating => opener[q].v = disk.version + 1
          /\ opener[q].at = "write" => opener[q].base = disk
      BY <1>1, <1>4, <1>8 DEF Alone
    <2>2. ~Working(p) /\ opener'[p].at \notin Migrating \cup {"read"}
      BY <1>8, <2>1 DEF StepOf
    <2>3. disk' = disk /\ writer' \in {NoOpener, q}
      BY <2>1, <2>2, OpenersAssumption DEF StepOf, Working, Migrating
    <2>4. \A r \in Openers \ {q} : opener'[r].at \notin Migrating \cup {"read"}
      BY <2>1, <2>2 DEF StepOf, Working
    <2> QED
      BY <1>1, <2>1, <2>3, <2>4 DEF Alone, Working
  <1> QED
    BY <1>1, <1>7, <1>8 DEF Alone, Working

\* It is enough to look at the opener that takes the step.
LEMMA StepKeepsSchema ==
  ASSUME SchemaInv, NEW p \in Openers, StepOf(p), SchemaTypeOK', Progress(p)', Alone(p)'
  PROVE  SchemaInv'
  <1>1. \A q \in Openers \ {p} : Progress(q)' /\ Alone(q)'
    BY OthersKeep
  <1> QED
    BY <1>1 DEF SchemaInv

\* An opener that moves on, with all else as it was.
LEMMA ToFacts ==
  ASSUME SchemaTypeOK, NEW p \in Openers, NEW place \in Places, To(p, place)
  PROVE  /\ opener' \in [Openers -> [at : Places, v : Nat, base : Databases, view : Databases]]
         /\ opener'[p].at = place /\ opener'[p].v = opener[p].v
         /\ opener'[p].base = opener[p].base /\ opener'[p].view = opener[p].view
         /\ \A q \in Openers \ {p} : opener'[q] = opener[q]
  BY DEF To, SchemaTypeOK

\* open() returns false to an opener that has an excuse.
LEMMA FailOpenKeeps ==
  ASSUME SchemaInv, NEW p \in Openers, FailOpen(p),
         excused' \in {excused, excused \cup {p}}, p \in excused'
  PROVE  SchemaInv'
  <1>1. SchemaTypeOK /\ To(p, "failed") /\ Release(p) /\ disk' = disk /\ "failed" \in Places
    BY DEF FailOpen, SchemaInv, Places
  <1>2. /\ opener' \in [Openers -> [at : Places, v : Nat, base : Databases, view : Databases]]
        /\ opener'[p].at = "failed" /\ \A q \in Openers \ {p} : opener'[q] = opener[q]
    BY <1>1, ToFacts
  <1>3. writer' = writer \/ (writer = p /\ writer' = NoOpener)
    BY <1>1 DEF Release
  <1>4. StepOf(p)
    BY <1>1, <1>2, <1>3 DEF StepOf, Migrating, SchemaTypeOK
  <1>5. SchemaTypeOK'
    BY <1>1, <1>2, <1>3 DEF SchemaTypeOK
  <1>6. Progress(p)' /\ Alone(p)'
    BY <1>2 DEF Progress, Alone, Working, Migrating
  <1> QED
    BY <1>4, <1>5, <1>6, StepKeepsSchema

\* openWithPath keeps the invariant.
LEMMA OpenWithPathKeeps ==
  ASSUME SchemaInv, NEW p \in Openers, OpenWithPath(p)
  PROVE  SchemaInv'
  <1>1. SchemaTypeOK /\ opener[p].at = "closed"
    BY DEF SchemaInv, OpenWithPath, At
  <1>2. CASE FailOpen(p) /\ Excuse(p)
    BY <1>2, FailOpenKeeps DEF Excuse
  <1>3. CASE /\ To(p, "read") /\ MayWrite(p) /\ UNCHANGED <<disk, writer>>
             /\ excused' = IF OthersAtWork(p) THEN excused \cup {p} \cup {q \in Openers : ~At(q, "closed")}
                           ELSE excused \ {p}
    <2>1. /\ opener' \in [Openers -> [at : Places, v : Nat, base : Databases, view : Databases]]
          /\ opener'[p].at = "read" /\ \A q \in Openers \ {p} : opener'[q] = opener[q]
      <3>1. "read" \in Places
        BY DEF Places
      <3> QED
        BY <1>1, <1>3, <3>1, ToFacts
    <2>2. excused \ {p} \subseteq excused' /\ excused' \subseteq Openers
      BY <1>1, <1>3 DEF SchemaTypeOK
    <2>3. \A q \in Openers \ {p} : Working(q) => q \in excused' /\ p \in excused'
      BY <1>3 DEF Working, Migrating, OthersAtWork, At
    <2>4. StepOf(p)
      BY <1>3, <2>1, <2>2, <2>3 DEF StepOf
    <2>5. SchemaTypeOK'
      BY <1>1, <1>3, <2>1, <2>2 DEF SchemaTypeOK
    <2>6. Progress(p)'
      BY <2>1 DEF Progress, Migrating
    <2>7. Alone(p)'
      BY <1>3, <2>1, <2>3 DEF Alone, Working, Migrating, MayWrite
    <2> QED
      BY <2>4, <2>5, <2>6, <2>7, StepKeepsSchema
  <1> QED
    BY <1>2, <1>3 DEF OpenWithPath

\* readVersion keeps the invariant.
LEMMA ReadVersionKeeps ==
  ASSUME SchemaInv, NEW p \in Openers, ReadVersion(p)
  PROVE  SchemaInv'
  <1>1. SchemaTypeOK /\ opener[p].at = "read" /\ UNCHANGED <<disk, writer, excused>> /\ Alone(p)
    BY DEF SchemaInv, ReadVersion, At
  <1>2. disk.version \in {0, 1, 2} /\ (disk.version >= Latest => disk = UpToDateSchema)
    BY <1>1, ShippedFacts DEF SchemaTypeOK, Latest
  <1> DEFINE place == IF disk.version >= Latest THEN "open" ELSE "begin"
  <1>3. place \in Places /\ disk.version + 1 \in Nat
    BY <1>2 DEF Places
  <1>4. /\ opener' \in [Openers -> [at : Places, v : Nat, base : Databases, view : Databases]]
        /\ opener'[p].at = place /\ opener'[p].v = disk.version + 1
        /\ \A q \in Openers \ {p} : opener'[q] = opener[q]
    BY <1>1, <1>3 DEF ReadVersion, SchemaTypeOK
  <1>5. StepOf(p)
    BY <1>1, <1>4 DEF StepOf, Working, SchemaTypeOK
  <1>6. SchemaTypeOK'
    BY <1>1, <1>4 DEF SchemaTypeOK
  <1>7. Progress(p)'
    BY <1>1, <1>2, <1>4 DEF Progress, Migrating, Latest
  <1>8. Alone(p)'
    BY <1>1, <1>4 DEF Alone, Working, Migrating
  <1> QED
    BY <1>5, <1>6, <1>7, <1>8, StepKeepsSchema

\* BEGIN keeps the invariant.
LEMMA BeginKeeps ==
  ASSUME SchemaInv, NEW p \in Openers, Begin(p)
  PROVE  SchemaInv'
  <1>1. SchemaTypeOK /\ opener[p].at = "begin" /\ Progress(p) /\ Alone(p)
    BY DEF SchemaInv, Begin, At
  <1>2. CASE FailOpen(p) /\ Excuse(p)
    BY <1>2, FailOpenKeeps DEF Excuse
  <1>3. CASE To(p, "migrate") /\ UNCHANGED <<disk, writer, excused>>
    <2>1. /\ opener' \in [Openers -> [at : Places, v : Nat, base : Databases, view : Databases]]
          /\ opener'[p].at = "migrate" /\ opener'[p].v = opener[p].v
          /\ \A q \in Openers \ {p} : opener'[q] = opener[q]
      <3>1. "migrate" \in Places
        BY DEF Places
      <3> QED
        BY <1>1, <1>3, <3>1, ToFacts
    <2>2. StepOf(p)
      BY <1>1, <1>3, <2>1 DEF StepOf, Working, Migrating, SchemaTypeOK
    <2>3. SchemaTypeOK'
      BY <1>1, <1>3, <2>1 DEF SchemaTypeOK
    <2>4. Progress(p)' /\ Alone(p)'
      BY <1>1, <1>3, <2>1 DEF Progress, Alone, Working, Migrating
    <2> QED
      BY <2>2, <2>3, <2>4, StepKeepsSchema
  <1> QED
    BY <1>2, <1>3 DEF Begin

\* A migration keeps the invariant.
LEMMA MigrateKeeps ==
  ASSUME SchemaInv, NEW p \in Openers, Migrate(p)
  PROVE  SchemaInv'
  <1> DEFINE v == opener[p].v
             done == Migrations(v, disk)
  <1>1. SchemaTypeOK /\ opener[p].at = "migrate" /\ Progress(p) /\ Alone(p)
    BY DEF SchemaInv, Migrate, At
  <1>2. /\ v \in {1, 2} /\ v <= disk.version + 1 /\ disk \in Shipped /\ disk \in Databases
        /\ disk.version \in {0, 1, 2}
    BY <1>1, ShippedFacts DEF Progress, Migrating, SchemaTypeOK
  <1>3. CASE FailOpen(p) /\ (IF Fits(v, disk) /\ MayWrite(p) THEN Excuse(p) ELSE UNCHANGED excused)
    <2>1. p \in excused' /\ excused' \in {excused, excused \cup {p}}
      <3>1. ASSUME p \notin excused PROVE Fits(v, disk) /\ MayWrite(p)
        <4>1. v = disk.version + 1 /\ writer \in {NoOpener, p}
          BY <1>1, <3>1 DEF Alone, Working, Migrating
        <4>2. v = 1 => ~disk.tables
          BY <1>2, <4>1, ShippedFacts
        <4> QED
          BY <4>1, <4>2 DEF Fits, MayWrite
      <3> QED
        BY <1>3, <3>1 DEF Excuse
    <2> QED
      BY <1>3, <2>1, FailOpenKeeps
  <1>4. CASE /\ Fits(v, disk) /\ (done # disk => MayWrite(p))
             /\ opener' = [opener EXCEPT ![p] = [at |-> "write", v |-> v, base |-> disk, view |-> done]]
             /\ writer' = IF done = disk THEN writer ELSE p
             /\ UNCHANGED <<disk, excused>>
    <2>1. done \in Databases
      BY <1>2, <1>4, MigrationFacts
    <2> HIDE DEF done
    <2>2. /\ opener' \in [Openers -> [at : Places, v : Nat, base : Databases, view : Databases]]
          /\ opener'[p].at = "write" /\ opener'[p].v = v /\ opener'[p].base = disk
          /\ opener'[p].view = done
          /\ \A q \in Openers \ {p} : opener'[q] = opener[q]
      BY <1>1, <1>2, <1>4, <2>1 DEF SchemaTypeOK, Places
    <2>3. writer' = writer \/ (writer \in {NoOpener, p} /\ writer' = p)
      BY <1>4 DEF MayWrite
    <2>4. StepOf(p)
      BY <1>1, <1>4, <2>2, <2>3 DEF StepOf, Working, Migrating, SchemaTypeOK
    <2>5. SchemaTypeOK'
      BY <1>1, <1>4, <2>2, <2>3 DEF SchemaTypeOK
    <2>6. Progress(p)'
      BY <1>2, <1>4, <2>2 DEF Progress, Migrating, done
    <2>7. Alone(p)'
      BY <1>1, <1>4, <2>2, <2>3 DEF Alone, Working, Migrating
    <2> QED
      BY <2>4, <2>5, <2>6, <2>7, StepKeepsSchema
  <1> QED
    BY <1>3, <1>4 DEF Migrate

\* writeVersion keeps the invariant.
LEMMA WriteVersionKeeps ==
  ASSUME SchemaInv, NEW p \in Openers, WriteVersion(p)
  PROVE  SchemaInv'
  <1> DEFINE v == opener[p].v
             made == Versioned(opener[p].view, v)
  <1>1. SchemaTypeOK /\ opener[p].at = "write" /\ Progress(p) /\ Alone(p)
    BY DEF SchemaInv, WriteVersion, At
  <1>2. /\ v \in {1, 2} /\ v <= disk.version + 1 /\ disk \in Shipped
        /\ disk.version \in {0, 1, 2}
    BY <1>1, ShippedFacts DEF Progress, Migrating, SchemaTypeOK
  <1>3. CASE FailOpen(p) /\ (IF MayWrite(p) /\ opener[p].base = disk THEN Excuse(p)
                             ELSE UNCHANGED excused)
    <2>1. p \in excused' /\ excused' \in {excused, excused \cup {p}}
      <3>1. p \notin excused => MayWrite(p) /\ opener[p].base = disk
        BY <1>1 DEF Alone, Working, Migrating, MayWrite
      <3> QED
        BY <1>3, <3>1 DEF Excuse
    <2> QED
      BY <1>3, <2>1, FailOpenKeeps
  <1>4. CASE /\ MayWrite(p) /\ opener[p].base = disk
             /\ opener' = [opener EXCEPT ![p].at = "commit", ![p].view.version = Larger(@, opener[p].v)]
             /\ writer' = p /\ UNCHANGED <<disk, excused>>
    <2>1. made \in Shipped /\ made.version = Larger(disk.version, v)
      BY <1>1, <1>2, <1>4, MigrationFacts DEF Progress
    <2>2. made \in Databases
      BY <2>1, ShippedFacts
    <2>3. /\ opener'[p].at = "commit" /\ opener'[p].v = v /\ opener'[p].base = opener[p].base
          /\ opener'[p].view = made
          /\ \A q \in Openers \ {p} : opener'[q] = opener[q]
      BY <1>1, <1>4 DEF SchemaTypeOK, Versioned
    <2> HIDE DEF made
    <2>4. opener' = [opener EXCEPT ![p] = [opener[p] EXCEPT !.at = "commit", !.view = made]]
      BY <1>1, <1>4 DEF SchemaTypeOK, Versioned, made
    <2>5. opener' \in [Openers -> [at : Places, v : Nat, base : Databases, view : Databases]]
      BY <1>1, <2>2, <2>4 DEF SchemaTypeOK, Places
    <2>6. StepOf(p)
      BY <1>1, <1>4, <2>3 DEF StepOf, Working, Migrating, SchemaTypeOK, MayWrite
    <2>7. SchemaTypeOK'
      BY <1>1, <1>4, <2>5 DEF SchemaTypeOK
    <2>8. Progress(p)'
      BY <1>2, <1>4, <2>1, <2>3 DEF Progress, Migrating
    <2>9. Alone(p)'
      BY <1>1, <1>4, <2>3 DEF Alone, Working, Migrating
    <2> QED
      BY <2>6, <2>7, <2>8, <2>9, StepKeepsSchema
  <1> QED
    BY <1>3, <1>4 DEF WriteVersion

\* COMMIT, done or refused, keeps the invariant.
LEMMA CommitKeeps ==
  ASSUME SchemaInv, NEW p \in Openers, Commit(p)
  PROVE  SchemaInv'
  <1> DEFINE v == opener[p].v
             place == IF v = Latest THEN "open" ELSE "begin"
  <1>1. SchemaTypeOK /\ opener[p].at = "commit" /\ Progress(p) /\ Alone(p)
    BY DEF SchemaInv, Commit, At
  <1>2. /\ v \in {1, 2} /\ writer = p /\ opener[p].view \in Shipped
        /\ opener[p].view.version = Larger(disk.version, v)
        /\ disk.version \in {0, 1, 2} /\ opener[p].view.version \in {0, 1, 2}
    BY <1>1, ShippedFacts DEF Progress, Migrating, SchemaTypeOK
  <1>3. CASE To(p, "failed") /\ Excuse(p) /\ UNCHANGED <<disk, writer>>
    <2>1. /\ opener' \in [Openers -> [at : Places, v : Nat, base : Databases, view : Databases]]
          /\ opener'[p].at = "failed" /\ \A q \in Openers \ {p} : opener'[q] = opener[q]
      <3>1. "failed" \in Places
        BY DEF Places
      <3> QED
        BY <1>1, <1>3, <3>1, ToFacts
    <2>2. StepOf(p)
      BY <1>1, <1>3, <2>1 DEF StepOf, Migrating, SchemaTypeOK, Excuse
    <2>3. SchemaTypeOK'
      BY <1>1, <1>3, <2>1 DEF SchemaTypeOK, Excuse
    <2>4. Progress(p)' /\ Alone(p)'
      BY <1>3, <2>1 DEF Progress, Alone, Working, Migrating, Excuse
    <2> QED
      BY <2>2, <2>3, <2>4, StepKeepsSchema
  <1>4. CASE /\ disk' = opener[p].view /\ Release(p)
             /\ opener' = [opener EXCEPT ![p].v = @ + 1, ![p].at = place]
             /\ UNCHANGED excused
    <2>1. writer' = NoOpener
      BY <1>2, <1>4 DEF Release
    <2>2. /\ opener' \in [Openers -> [at : Places, v : Nat, base : Databases, view : Databases]]
          /\ opener'[p].at = place /\ opener'[p].v = v + 1
          /\ \A q \in Openers \ {p} : opener'[q] = opener[q]
      <3>1. place \in Places /\ v + 1 \in Nat
        BY <1>2 DEF Places
      <3> QED
        BY <1>1, <1>4, <3>1 DEF SchemaTypeOK
    <2>3. StepOf(p)
      BY <1>1, <1>2, <1>4, <2>1, <2>2 DEF StepOf, Working, Migrating, SchemaTypeOK
    <2>4. SchemaTypeOK'
      BY <1>1, <1>2, <1>4, <2>1, <2>2 DEF SchemaTypeOK
    <2>5. v = Latest => disk' = UpToDateSchema
      BY <1>2, <1>4, ShippedFacts DEF Latest, Larger
    <2>6. Progress(p)'
      BY <1>2, <1>4, <2>2, <2>5 DEF Progress, Migrating, Latest, Larger
    <2>7. ASSUME p \notin excused PROVE v # Latest => v + 1 = disk'.version + 1
      <3>1. v = disk.version + 1
        BY <1>1, <2>7 DEF Alone, Working, Migrating
      <3> QED
        BY <1>2, <1>4, <3>1 DEF Larger
    <2>8. Alone(p)'
      BY <1>1, <1>4, <2>1, <2>2, <2>7 DEF Alone, Working, Migrating
    <2> QED
      BY <2>3, <2>4, <2>6, <2>8, StepKeepsSchema
  <1> QED
    BY <1>3, <1>4 DEF Commit

\* An exit or a crash keeps the invariant.
LEMMA CloseDatabaseKeeps ==
  ASSUME SchemaInv, NEW p \in Openers, CloseDatabase(p)
  PROVE  SchemaInv'
  <1>1. SchemaTypeOK /\ UNCHANGED <<disk, excused>>
    BY DEF SchemaInv, CloseDatabase
  <1>2. Closed \in [at : Places, v : Nat, base : Databases, view : Databases] /\ Closed.at = "closed"
    BY DEF Closed, Places, Empty, Databases, Latest
  <1>3. /\ opener' \in [Openers -> [at : Places, v : Nat, base : Databases, view : Databases]]
        /\ opener'[p].at = "closed" /\ \A q \in Openers \ {p} : opener'[q] = opener[q]
    BY <1>1, <1>2 DEF CloseDatabase, SchemaTypeOK
  <1>4. writer' = writer \/ (writer = p /\ writer' = NoOpener)
    BY DEF CloseDatabase, Release
  <1>5. StepOf(p)
    BY <1>1, <1>3, <1>4 DEF StepOf, Migrating, SchemaTypeOK
  <1>6. SchemaTypeOK'
    BY <1>1, <1>3, <1>4 DEF SchemaTypeOK
  <1>7. Progress(p)' /\ Alone(p)'
    BY <1>3 DEF Progress, Alone, Working, Migrating
  <1> QED
    BY <1>5, <1>6, <1>7, StepKeepsSchema

\* For any number of programs started at once on a database any release left: the
\* recorded version is never ahead of the tables, open() succeeds only on the latest
\* version, and fails only for a fault or another opener.
THEOREM MigrationsAreSound == SchemaSpec => []SchemaSound
  <1>1. SchemaInit => SchemaInv
    <2> SUFFICES ASSUME SchemaInit PROVE SchemaInv
      OBVIOUS
    <2>1. Closed \in [at : Places, v : Nat, base : Databases, view : Databases] /\ Closed.at = "closed"
      BY DEF Closed, Places, Empty, Databases, Latest
    <2>2. SchemaTypeOK
      BY <2>1 DEF SchemaInit, SchemaTypeOK
    <2>3. \A p \in Openers : opener[p].at = "closed"
      BY <2>1 DEF SchemaInit
    <2> QED
      BY <2>2, <2>3 DEF SchemaInv, Progress, Alone, Working, Migrating
  <1>2. SchemaInv /\ [SchemaNext]_schemaVars => SchemaInv'
    <2>1. SchemaInv /\ UNCHANGED schemaVars => SchemaInv'
      BY DEF schemaVars, SchemaInv, SchemaTypeOK, Progress, Alone, Working, Migrating
    <2> QED
      BY <2>1, OpenWithPathKeeps, ReadVersionKeeps, BeginKeeps, MigrateKeeps, WriteVersionKeeps,
         CommitKeeps, CloseDatabaseKeeps DEF SchemaNext
  <1>3. SchemaInv => SchemaSound
    <2> SUFFICES ASSUME SchemaInv PROVE SchemaSound
      OBVIOUS
    <2>1. disk \in Shipped /\ \A p \in Openers : Progress(p)
      BY DEF SchemaInv, SchemaTypeOK
    <2>2. UpToDateSchema = [Baseline EXCEPT !.version = Latest] /\ UpToDateSchema.provider
      BY ShippedFacts DEF Latest, UpToDateSchema
    <2> QED
      BY <2>1, <2>2, ShippedFacts DEF SchemaSound, Progress, At
  <1> QED
    BY <1>1, <1>2, <1>3, PTL DEF SchemaSpec

-----------------------------------------------------------------------------
(* Signing in.                                                             *)

SignInSpec == SignInInit /\ [][SignInNext]_signInVars

\* The accounts under way join what one sign-in has learnt, and the one that waits
\* for its password is the one shown.
ParamsOK ==
  /\ added.domain = added.username
  /\ m_pendingParams # NoParams =>
       m_pendingParams = prompted /\ m_pendingParams.domain = m_pendingParams.username

\* At most one request is in flight, of the last sign-in, with the members it is
\* about.
ChainOK ==
  /\ m_accessToken \in {Nobody, signIns}
  /\ \A r, s \in requests : r = s
  /\ \A r \in requests : /\ r.host = signIns /\ r.token \in {Nobody, signIns}
                         /\ m_host = signIns
                         /\ r.stage = "device" => m_extensionRecord = signIns

SignInInv == ~overlapping => ParamsOK /\ ChainOK

\* What a request is made of.
LEMMA RequestFacts ==
  ASSUME NEW stage, NEW host, NEW token
  PROVE  /\ Request(stage, host, token).stage = stage
         /\ Request(stage, host, token).host = host
         /\ Request(stage, host, token).token = token
  BY DEF Request

\* Both halves of an account built from one sign-in are that sign-in's.
LEMMA BuildFacts ==
  ASSUME NEW s
  PROVE  BuildAccountParams(s, s).domain = BuildAccountParams(s, s).username
  BY DEF BuildAccountParams, NoParams

\* A prompt for the password keeps the accounts under way.
LEMMA PromptKeeps ==
  ASSUME ParamsOK, NEW params, params.domain = params.username, PromptForPassword(params)
  PROVE  ParamsOK'
  BY DEF ParamsOK, PromptForPassword, Pending, Fail

\* So does an account that is added.
LEMMA SucceedKeeps ==
  ASSUME ParamsOK, NEW params, params.domain = params.username, Succeed(params),
         m_pendingParams' \in {NoParams, m_pendingParams}, prompted' = prompted
  PROVE  ParamsOK'
  BY DEF ParamsOK, Succeed

\* A sign-in that begins without a request in flight keeps the invariant.
LEMMA BeginSignInKeeps ==
  ASSUME SignInInv, NEW token, NEW valid \in BOOLEAN, NEW stage,
         LET s == signIns + 1
         IN token \in {Nobody, s} /\ stage # "device"
            /\ BeginSignIn(s, token, valid, Request(stage, s, token))
  PROVE  SignInInv'
  <1> DEFINE s == signIns + 1
             request == Request(stage, s, token)
  <1> SUFFICES ASSUME ~overlapping' PROVE ParamsOK' /\ ChainOK'
    BY DEF SignInInv
  <1>1. ~overlapping /\ requests = {}
    BY DEF BeginSignIn
  <1>2. signIns' = s /\ m_accessToken' = token
    BY DEF BeginSignIn
  <1>3. UNCHANGED <<m_pendingParams, prompted, added>>
    BY DEF BeginSignIn, Fail
  <1>4. ParamsOK'
    BY <1>1, <1>3 DEF SignInInv, ParamsOK
  <1>5. \/ requests' = {request} /\ m_host' = s
        \/ requests' = {}
    BY <1>1 DEF BeginSignIn, Fail
  <1>6. request.stage # "device" /\ request.host = s /\ request.token \in {Nobody, s}
    BY RequestFacts
  <1> HIDE DEF request, s
  <1>7. token \in {Nobody, s}
    BY DEF s
  <1>8. ChainOK'
    BY <1>2, <1>5, <1>6, <1>7 DEF ChainOK
  <1> QED
    BY <1>4, <1>8

\* A reply to login or whoami keeps the invariant.
LEMMA ChainReplyKeeps ==
  ASSUME SignInInv, NEW r \in requests, OnLoginReply(r) \/ OnWhoamiReply(r)
  PROVE  SignInInv'
  <1> SUFFICES ASSUME ~overlapping' PROVE ParamsOK' /\ ChainOK'
    BY DEF SignInInv
  <1>1. ~overlapping /\ ParamsOK /\ ChainOK /\ signIns' = signIns /\ m_host' = m_host
    BY DEF OnLoginReply, OnWhoamiReply, SignInInv
  <1>2. UNCHANGED <<m_pendingParams, prompted, added>>
    BY DEF OnLoginReply, OnWhoamiReply, Fail
  <1>3. ParamsOK'
    BY <1>1, <1>2 DEF ParamsOK
  <1>4. requests \ {r} = {} /\ r.host = signIns /\ m_host = signIns /\ r.token \in {Nobody, signIns}
    BY <1>1 DEF ChainOK
  <1>5. m_accessToken' \in {Nobody, signIns}
    BY <1>1, <1>4 DEF OnLoginReply, OnWhoamiReply, ChainOK
  <1>6. \/ requests' = {}
        \/ requests' = {Request("whoami", signIns, signIns)}
        \/ requests' = {Request("device", signIns, m_accessToken)} /\ m_extensionRecord' = signIns
    BY <1>4 DEF OnLoginReply, OnWhoamiReply, StartWhoamiFetch, Fail
  <1>7. ChainOK'
    BY <1>1, <1>4, <1>5, <1>6, RequestFacts DEF ChainOK
  <1> QED
    BY <1>3, <1>7

\* The reply about the SIP device keeps the invariant.
LEMMA DeviceReplyKeeps ==
  ASSUME SignInInv, NEW r \in requests, OnSipDeviceReply(r)
  PROVE  SignInInv'
  <1> SUFFICES ASSUME ~overlapping' PROVE ParamsOK' /\ ChainOK'
    BY DEF SignInInv
  <1>1. ~overlapping /\ ParamsOK /\ ChainOK /\ UNCHANGED <<signIns, m_host, m_accessToken>>
    BY DEF OnSipDeviceReply, SignInInv, gathered
  <1>2. /\ requests' = {} /\ m_host = signIns /\ r.host = signIns /\ m_extensionRecord = signIns
    BY <1>1 DEF OnSipDeviceReply, ChainOK
  <1>3. ChainOK'
    BY <1>1, <1>2 DEF ChainOK
  <1> DEFINE params == BuildAccountParams(signIns, signIns)
  <1>4. params.domain = params.username
    BY BuildFacts
  <1>5. \/ Fail
        \/ PromptForPassword(params)
        \/ Succeed(params) /\ UNCHANGED <<m_pendingParams, prompted>>
    BY <1>2 DEF OnSipDeviceReply
  <1> HIDE DEF params
  <1>6. CASE Fail
    BY <1>1, <1>3, <1>6 DEF Fail, ParamsOK
  <1>7. CASE PromptForPassword(params)
    BY <1>1, <1>3, <1>4, <1>7, PromptKeeps
  <1>8. CASE Succeed(params) /\ UNCHANGED <<m_pendingParams, prompted>>
    BY <1>1, <1>3, <1>4, <1>8, SucceedKeeps
  <1> QED
    BY <1>5, <1>6, <1>7, <1>8

\* Every step keeps the invariant.
LEMMA SignInStepKeeps ==
  ASSUME SignInInv, [SignInNext]_signInVars
  PROVE  SignInInv'
  <1>1. CASE OpenWizard \/ CloseWizard \/ LeavePasswordStep \/ UNCHANGED signInVars
    BY <1>1 DEF OpenWizard, CloseWizard, LeavePasswordStep, signInVars, gathered,
                SignInInv, ParamsOK, ChainOK
  <1>2. ASSUME NEW valid \in BOOLEAN, Provision(valid) PROVE SignInInv'
    BY <1>2, BeginSignInKeeps DEF Provision
  <1>3. ASSUME NEW valid \in BOOLEAN, ProvisionWithToken(valid) PROVE SignInInv'
    BY <1>3, BeginSignInKeeps DEF ProvisionWithToken
  <1>4. CASE CompleteWithPassword
    <2> SUFFICES ASSUME ~overlapping' PROVE ParamsOK' /\ ChainOK'
      BY DEF SignInInv
    <2>1. ~overlapping /\ ParamsOK /\ ChainOK
          /\ UNCHANGED <<signIns, requests, m_host, m_accessToken, m_extensionRecord>>
      BY <1>4 DEF CompleteWithPassword, SignInInv, gathered
    <2>2. ChainOK'
      BY <2>1 DEF ChainOK
    <2>3. CASE Fail
      BY <2>1, <2>2, <2>3 DEF Fail, ParamsOK
    <2>4. CASE /\ m_pendingParams # NoParams /\ m_pendingParams' = NoParams
               /\ prompted' = prompted /\ Succeed(m_pendingParams)
      <3>1. m_pendingParams.domain = m_pendingParams.username
        BY <2>1, <2>4 DEF ParamsOK
      <3> QED
        BY <2>1, <2>2, <2>4, <3>1, SucceedKeeps
    <2> QED
      BY <1>4, <2>3, <2>4 DEF CompleteWithPassword
  <1> QED
    BY <1>1, <1>2, <1>3, <1>4, ChainReplyKeeps, DeviceReplyKeeps DEF SignInNext, Reply

\* For any number of sign-ins, none begun with a request in flight: the account
\* added joins the server and the extension of one sign-in, and the password typed
\* goes to the extension shown.
THEOREM SignInIsConsistent == SignInSpec => []SignInConsistent
  <1>1. SignInInit => SignInInv
    BY DEF SignInInit, SignInInv, ParamsOK, ChainOK, NoParams
  <1>2. SignInInv /\ [SignInNext]_signInVars => SignInInv'
    BY SignInStepKeeps
  <1>3. SignInInv => SignInConsistent
    BY DEF SignInInv, ParamsOK, ChainOK, SignInConsistent
  <1> QED
    BY <1>1, <1>2, <1>3, PTL DEF SignInSpec

-----------------------------------------------------------------------------
(* The check for updates.                                                  *)

UpdateSpec == UpdateInit /\ [][UpdateNext]_updateVars

\* The one flag belongs to the automatic check as long as that is in flight and the
\* user has not asked meanwhile, and a check of the user never runs under it: before
\* the startup timer fires, the stamp of such a check keeps the automatic one away.
FlagOK ==
  /\ m_autoUpdateCheckActive => inFlight.manual = 0
  /\ inFlight.auto > 0 /\ ~overlap => m_autoUpdateCheckActive
  /\ startupTimer => inFlight.auto = 0
  /\ startupTimer /\ inFlight.manual > 0 => lastUpdateCheck = "recent"

UpdateInv ==
  /\ m_autoUpdateCheckActive \in BOOLEAN
  /\ inFlight \in [auto : 0..1, manual : Nat]
  /\ FlagOK
  /\ UpdateAnswersAsAsked

\* An answer given under the right flag is as loud as it should be.
LEMMA AnswerFacts ==
  ASSUME NEW kind \in {"auto", "manual"}, NEW flag \in BOOLEAN, NEW version, NEW feed,
         \/ UpdateAvailable(kind, version, feed, flag)
         \/ UpToDate(kind, feed, flag)
         \/ CheckFailed(kind, flag),
         kind = "manual" => ~flag,
         kind = "auto" /\ ~overlap => flag
  PROVE  UpdateAnswersAsAsked'
  <1>1. ASSUME NEW said, NEW v, NEW ignored, NEW f, Answered(kind, said, v, ignored, f),
               flag => said = "nothing" \/ (said = "prompt" /\ ~ignored),
               ~flag => said # "nothing"
        PROVE  UpdateAnswersAsAsked'
    <2>1. /\ answer'.kind = kind /\ answer'.said = said
          /\ answer'.ignored = ignored /\ answer'.overlapped = overlap
      BY <1>1 DEF Answered
    <2> QED
      BY <1>1, <2>1 DEF UpdateAnswersAsAsked
  <1>2. CASE UpdateAvailable(kind, version, feed, flag)
    BY <1>1, <1>2 DEF UpdateAvailable
  <1>3. CASE UpToDate(kind, feed, flag)
    BY <1>1, <1>3 DEF UpToDate
  <1>4. CASE CheckFailed(kind, flag)
    BY <1>1, <1>4 DEF CheckFailed
  <1> QED
    BY <1>2, <1>3, <1>4

\* check() answers at once or sends a request.
LEMMA CheckFacts ==
  ASSUME UpdateInv, NEW kind \in {"auto", "manual"}, NEW flag \in BOOLEAN, Check(kind, flag),
         flag <=> kind = "auto"
  PROVE  /\ UpdateAnswersAsAsked'
         /\ \/ inFlight' = inFlight
            \/ inFlight' = [inFlight EXCEPT ![kind] = @ + 1]
  <1>1. CASE feedUrl = "https" /\ inFlight' = [inFlight EXCEPT ![kind] = @ + 1]
             /\ UNCHANGED <<latestUpdate, answer>>
    BY <1>1 DEF UpdateInv, UpdateAnswersAsAsked
  <1>2. CASE inFlight' = inFlight /\ (UpToDate(kind, {}, flag) \/ CheckFailed(kind, flag))
    BY <1>2, AnswerFacts
  <1> QED
    BY <1>1, <1>2 DEF Check

\* The user's check keeps the invariant.
LEMMA CheckForUpdatesKeeps ==
  ASSUME UpdateInv, CheckForUpdates
  PROVE  UpdateInv'
  <1>1. /\ m_autoUpdateCheckActive' = FALSE /\ lastUpdateCheck' = "recent"
        /\ overlap' = (overlap \/ inFlight.auto > 0) /\ startupTimer' = startupTimer
        /\ Check("manual", FALSE)
    BY DEF CheckForUpdates, Stamped
  <1>2. /\ UpdateAnswersAsAsked'
        /\ \/ inFlight' = inFlight
           \/ inFlight' = [inFlight EXCEPT !["manual"] = @ + 1]
    BY <1>1, CheckFacts
  <1>3. inFlight' \in [auto : 0..1, manual : Nat] /\ inFlight'.auto = inFlight.auto
    BY <1>2 DEF UpdateInv
  <1>4. FlagOK'
    BY <1>1, <1>3 DEF UpdateInv, FlagOK
  <1> QED
    BY <1>1, <1>2, <1>3, <1>4 DEF UpdateInv

\* So does the startup timer.
LEMMA MaybeCheckForUpdatesOnStartupKeeps ==
  ASSUME UpdateInv, MaybeCheckForUpdatesOnStartup
  PROVE  UpdateInv'
  <1>1. startupTimer /\ startupTimer' = FALSE /\ overlap' = overlap
    BY DEF MaybeCheckForUpdatesOnStartup
  <1>2. CASE /\ lastUpdateCheck # "recent" /\ m_autoUpdateCheckActive' = TRUE /\ Check("auto", TRUE)
    <2>1. /\ UpdateAnswersAsAsked'
          /\ \/ inFlight' = inFlight
             \/ inFlight' = [inFlight EXCEPT !["auto"] = @ + 1]
      BY <1>2, CheckFacts
    <2>2. inFlight.auto = 0 /\ inFlight.manual = 0
      BY <1>1, <1>2 DEF UpdateInv, FlagOK
    <2>3. inFlight' \in [auto : 0..1, manual : Nat] /\ inFlight'.manual = 0
      BY <2>1, <2>2 DEF UpdateInv
    <2>4. FlagOK'
      BY <1>1, <1>2, <2>3 DEF FlagOK
    <2> QED
      BY <1>2, <2>1, <2>3, <2>4 DEF UpdateInv
  <1>3. CASE UNCHANGED <<inFlight, m_autoUpdateCheckActive, lastUpdateCheck, latestUpdate, answer>>
    BY <1>1, <1>3 DEF UpdateInv, FlagOK, UpdateAnswersAsAsked
  <1> QED
    BY <1>2, <1>3 DEF MaybeCheckForUpdatesOnStartup

\* And the reply to either check.
LEMMA OnReplyFinishedKeeps ==
  ASSUME UpdateInv, NEW kind \in {"auto", "manual"},
         OnReplyFinished(kind)
  PROVE  UpdateInv'
  <1>1. /\ inFlight[kind] > 0 /\ inFlight' = [inFlight EXCEPT ![kind] = @ - 1]
        /\ overlap' = (overlap /\ kind # "auto")
        /\ UNCHANGED <<m_autoUpdateCheckActive, lastUpdateCheck, startupTimer>>
    BY DEF OnReplyFinished
  <1>2. PICK version, feed :
          \/ UpdateAvailable(kind, version, feed, m_autoUpdateCheckActive)
          \/ UpToDate(kind, feed, m_autoUpdateCheckActive)
          \/ CheckFailed(kind, m_autoUpdateCheckActive)
    BY DEF OnReplyFinished
  <1>3. /\ kind = "manual" => ~m_autoUpdateCheckActive
        /\ kind = "auto" /\ ~overlap => m_autoUpdateCheckActive
    BY <1>1 DEF UpdateInv, FlagOK
  <1>4. UpdateAnswersAsAsked'
    BY <1>2, <1>3, AnswerFacts DEF UpdateInv
  <1>5. /\ inFlight' \in [auto : 0..1, manual : Nat]
        /\ inFlight'.auto <= inFlight.auto /\ inFlight'.manual <= inFlight.manual
        /\ kind = "auto" => inFlight'.auto = 0
    BY <1>1 DEF UpdateInv
  <1>6. /\ {inFlight.auto, inFlight.manual, inFlight'.auto, inFlight'.manual} \subseteq Nat
        /\ FlagOK
    BY <1>5 DEF UpdateInv
  <1>7. /\ m_autoUpdateCheckActive => inFlight.manual = 0
        /\ inFlight.auto > 0 /\ ~overlap => m_autoUpdateCheckActive
        /\ startupTimer => inFlight.auto = 0
        /\ startupTimer /\ inFlight.manual > 0 => lastUpdateCheck = "recent"
    BY <1>6 DEF FlagOK
  <1>8. m_autoUpdateCheckActive => inFlight'.manual = 0
    BY <1>5, <1>6, <1>7
  <1>9. inFlight'.auto > 0 /\ ~overlap' => m_autoUpdateCheckActive
    <2>1. inFlight'.auto > 0 => kind # "auto" /\ inFlight.auto > 0
      BY <1>5, <1>6
    <2>2. kind # "auto" /\ ~overlap' => ~overlap
      BY <1>1, Zenon
    <2> QED
      BY <1>7, <2>1, <2>2, Zenon
  <1>10. startupTimer => inFlight'.auto = 0
    BY <1>5, <1>6, <1>7
  <1>11. startupTimer /\ inFlight'.manual > 0 => lastUpdateCheck = "recent"
    BY <1>5, <1>6, <1>7
  <1>12. FlagOK'
    BY <1>1, <1>8, <1>9, <1>10, <1>11 DEF FlagOK
  <1>13. m_autoUpdateCheckActive' \in BOOLEAN
    BY <1>1 DEF UpdateInv
  <1> QED
    BY <1>4, <1>5, <1>12, <1>13 DEF UpdateInv

\* Every step keeps the invariant.
LEMMA UpdateStepKeeps ==
  ASSUME UpdateInv, [UpdateNext]_updateVars
  PROVE  UpdateInv'
  <1>1. CASE SkipUpdateVersion \/ SetAutoUpdateCheckEnabled \/ DayPasses \/ UNCHANGED updateVars
    <2>1. /\ UNCHANGED <<inFlight, m_autoUpdateCheckActive, startupTimer, overlap, answer>>
          /\ startupTimer => lastUpdateCheck' = lastUpdateCheck
      BY <1>1 DEF SkipUpdateVersion, SetAutoUpdateCheckEnabled, DayPasses, updateVars
    <2> QED
      BY <2>1 DEF UpdateInv, FlagOK, UpdateAnswersAsAsked
  <1>2. CASE Relaunch
    <2>1. inFlight' \in [auto : 0..1, manual : Nat] /\ inFlight'.auto = 0 /\ inFlight'.manual = 0
      BY <1>2 DEF Relaunch
    <2>2. m_autoUpdateCheckActive' = FALSE /\ answer'.kind = "none"
      BY <1>2 DEF Relaunch, NoAnswer
    <2>3. FlagOK' /\ UpdateAnswersAsAsked'
      BY <2>1, <2>2 DEF FlagOK, UpdateAnswersAsAsked
    <2>4. m_autoUpdateCheckActive' \in BOOLEAN
      BY <2>2
    <2> QED
      BY <2>1, <2>3, <2>4 DEF UpdateInv
  <1>3. CASE CheckForUpdates
    BY <1>3, CheckForUpdatesKeeps DEF CheckForUpdates
  <1>4. CASE MaybeCheckForUpdatesOnStartup
    BY <1>4, MaybeCheckForUpdatesOnStartupKeeps DEF MaybeCheckForUpdatesOnStartup
  <1>5. CASE \E kind \in {"auto", "manual"} : OnReplyFinished(kind)
    BY <1>5, OnReplyFinishedKeeps DEF OnReplyFinished
  <1> QED
    BY <1>1, <1>2, <1>3, <1>4, <1>5 DEF UpdateNext

\* Whatever the appcast says and however often the user asks: their checks always
\* answer, and the automatic one stays quiet about a version they ignored.
THEOREM AnswersAsAsked == UpdateSpec => []UpdateAnswersAsAsked
  <1>1. UpdateInit => UpdateInv
    <2> SUFFICES ASSUME UpdateInit PROVE UpdateInv
      OBVIOUS
    <2>1. inFlight = [auto |-> 0, manual |-> 0] /\ m_autoUpdateCheckActive = FALSE /\ answer = NoAnswer
      BY DEF UpdateInit
    <2>2. inFlight \in [auto : 0..1, manual : Nat] /\ inFlight.auto = 0 /\ inFlight.manual = 0
      BY <2>1
    <2>3. answer.kind = "none"
      BY <2>1 DEF NoAnswer
    <2>4. FlagOK /\ UpdateAnswersAsAsked
      BY <2>1, <2>2, <2>3 DEF FlagOK, UpdateAnswersAsAsked
    <2>5. m_autoUpdateCheckActive \in BOOLEAN
      BY <2>1
    <2> QED
      BY <2>2, <2>4, <2>5 DEF UpdateInv
  <1>2. UpdateInv /\ [UpdateNext]_updateVars
          => UpdateInv'
    BY UpdateStepKeeps
  <1>3. UpdateInv => UpdateAnswersAsAsked
    BY DEF UpdateInv
  <1> QED
    BY <1>1, <1>2, <1>3, PTL DEF UpdateSpec

-----------------------------------------------------------------------------
(* Which version is offered.  Versions are compared as two sequences that   *)
(* never end: the release numbers with zeros after them, and the suffix     *)
(* after a sign that says whether there is one.                            *)

Version == [release : Seq(Nat), prerelease : Seq(Nat)]
Positive == Nat \ {0}

\* The release numbers, and the suffix, as sequences that never end.
ReleaseKey(v) == [i \in Positive |-> ReleasePart(v, i)]
SuffixKey(v) ==
  [i \in Positive |-> IF i = 1 THEN IF v.prerelease = <<>> THEN 1 ELSE 0
                      ELSE IF i - 1 \in DOMAIN v.prerelease THEN v.prerelease[i - 1] ELSE -1]

\* The first difference decides.
Lex(f, g) == \E i \in Positive : f[i] < g[i] /\ \A j \in 1..(i - 1) : f[j] = g[j]

\* An older version: by the release, or by the suffix of the same release.
Below(a, b) ==
  \/ Lex(ReleaseKey(a), ReleaseKey(b))
  \/ ReleaseKey(a) = ReleaseKey(b) /\ Lex(SuffixKey(a), SuffixKey(b))

\* Lexicographic comparison is a strict order.
LEMMA LexIsAnOrder ==
  ASSUME NEW f \in [Positive -> Int], NEW g \in [Positive -> Int], NEW h \in [Positive -> Int]
  PROVE  /\ ~Lex(f, f)
         /\ Lex(f, g) /\ Lex(g, h) => Lex(f, h)
  <1>1. ~Lex(f, f)
    BY DEF Lex
  <1>2. ASSUME Lex(f, g), Lex(g, h) PROVE Lex(f, h)
    <2>1. PICK i \in Positive : f[i] < g[i] /\ \A j \in 1..(i - 1) : f[j] = g[j]
      BY <1>2 DEF Lex
    <2>2. PICK k \in Positive : g[k] < h[k] /\ \A j \in 1..(k - 1) : g[j] = h[j]
      BY <1>2 DEF Lex
    <2>3. CASE i <= k
      <3>1. g[i] <= h[i]
        BY <2>2, <2>3 DEF Positive
      <3>2. f[i] < h[i] /\ \A j \in 1..(i - 1) : f[j] = h[j]
        BY <2>1, <2>2, <2>3, <3>1 DEF Positive
      <3> QED
        BY <3>2 DEF Lex
    <2>4. CASE k < i
      <3>1. f[k] < h[k] /\ \A j \in 1..(k - 1) : f[j] = h[j]
        BY <2>1, <2>2, <2>4 DEF Positive
      <3> QED
        BY <3>1 DEF Lex
    <2> QED
      BY <2>3, <2>4 DEF Positive
  <1> QED
    BY <1>1, <1>2

\* The keys never end.
LEMMA KeysTyped ==
  ASSUME NEW v \in Version
  PROVE  ReleaseKey(v) \in [Positive -> Int] /\ SuffixKey(v) \in [Positive -> Int]
  <1>1. \A i \in Positive : ReleasePart(v, i) \in Int
    BY DEF ReleasePart, Version
  <1>2. \A i \in Positive : i # 1 /\ i - 1 \in DOMAIN v.prerelease => v.prerelease[i - 1] \in Int
    BY DEF Version
  <1> QED
    BY <1>1, <1>2 DEF ReleaseKey, SuffixKey

\* Being below is a strict order.
LEMMA BelowIsAnOrder ==
  ASSUME NEW a \in Version, NEW b \in Version, NEW c \in Version
  PROVE  /\ ~Below(a, a)
         /\ Below(a, b) /\ Below(b, c) => Below(a, c)
  <1> DEFINE f == ReleaseKey(a) g == ReleaseKey(b) h == ReleaseKey(c)
             p == SuffixKey(a) q == SuffixKey(b) r == SuffixKey(c)
  <1>1. {f, g, h, p, q, r} \subseteq [Positive -> Int]
    BY KeysTyped
  <1> HIDE DEF f, g, h, p, q, r
  <1>2. ~Lex(f, f) /\ ~Lex(p, p)
    BY <1>1, LexIsAnOrder
  <1>3. /\ Lex(f, g) /\ Lex(g, h) => Lex(f, h)
        /\ Lex(p, q) /\ Lex(q, r) => Lex(p, r)
    BY <1>1, LexIsAnOrder
  <1> QED
    BY <1>2, <1>3 DEF Below, f, g, h, p, q, r

\* What Sign returns.
LEMMA SignFacts ==
  ASSUME NEW x \in Int, NEW y \in Int
  PROVE  /\ Sign(x, y) \in {-1, 0, 1}
         /\ Sign(x, y) < 0 <=> x < y
         /\ Sign(x, y) > 0 <=> y < x
         /\ Sign(x, y) = 0 <=> x = y
  BY DEF Sign

\* compareVersions compares the keys.
LEMMA ComparesKeys ==
  ASSUME NEW a \in Version, NEW b \in Version
  PROVE  /\ CompareVersions(a, b) \in {-1, 0, 1}
         /\ CompareVersions(a, b) < 0 => Below(a, b)
         /\ CompareVersions(a, b) > 0 => Below(b, a)
         /\ CompareVersions(a, b) = 0 =>
              ReleaseKey(a) = ReleaseKey(b) /\ SuffixKey(a) = SuffixKey(b)
  <1> DEFINE differ == {i \in DOMAIN a.release \cup DOMAIN b.release : ReleasePart(a, i) # ReleasePart(b, i)}
  <1>1. \A i \in Positive : ReleasePart(a, i) \in Int /\ ReleasePart(b, i) \in Int
    BY DEF ReleasePart, Version
  <1>2. differ \in SUBSET Positive /\ differ \in SUBSET Nat
    BY DEF Version, Positive
  <1>3. \A i \in Positive : i \notin differ => ReleasePart(a, i) = ReleasePart(b, i)
    BY DEF ReleasePart
  <1>4. CASE differ # {}
    <2> DEFINE m == Min(differ)
    <2>1. m \in differ /\ \A y \in differ : m <= y
      BY <1>2, <1>4, MinFacts
    <2>2. CompareVersions(a, b) = Sign(ReleasePart(a, m), ReleasePart(b, m))
      BY <1>4 DEF CompareVersions
    <2> HIDE DEF differ, m
    <2>3. m \in Positive /\ \A j \in 1..(m - 1) : ReleasePart(a, j) = ReleasePart(b, j)
      <3>1. m \in Positive
        BY <1>2, <2>1
      <3>2. ASSUME NEW j \in 1..(m - 1) PROVE j \in Positive /\ j \notin differ
        BY <2>1, <3>1 DEF Positive
      <3> QED
        BY <1>3, <3>1, <3>2
    <2>4. ReleasePart(a, m) # ReleasePart(b, m)
      BY <2>1 DEF differ
    <2>5. /\ ReleasePart(a, m) < ReleasePart(b, m) => Lex(ReleaseKey(a), ReleaseKey(b))
          /\ ReleasePart(b, m) < ReleasePart(a, m) => Lex(ReleaseKey(b), ReleaseKey(a))
      BY <2>3 DEF Lex, ReleaseKey, Positive
    <2> QED
      BY <1>1, <2>2, <2>3, <2>4, <2>5, SignFacts DEF Below
  <1>5. CASE differ = {}
    <2>1. ReleaseKey(a) = ReleaseKey(b)
      BY <1>3, <1>5 DEF ReleaseKey
    <2> DEFINE p == a.prerelease  q == b.prerelease
    <2>2. p \in Seq(Nat) /\ q \in Seq(Nat)
      BY DEF Version
    <2>3. SuffixKey(a)[1] = (IF p = <<>> THEN 1 ELSE 0) /\ SuffixKey(b)[1] = (IF q = <<>> THEN 1 ELSE 0)
      BY DEF SuffixKey, Positive
    <2>4. CASE (p = <<>>) # (q = <<>>)
      <3>1. CompareVersions(a, b) = IF p = <<>> THEN 1 ELSE -1
        BY <1>5, <2>4 DEF CompareVersions
      <3>2. 1 \in Positive /\ \A j \in 1..(1 - 1) : FALSE
        BY DEF Positive
      <3>3. IF p = <<>> THEN Lex(SuffixKey(b), SuffixKey(a)) ELSE Lex(SuffixKey(a), SuffixKey(b))
        BY <2>3, <2>4, <3>2 DEF Lex
      <3> QED
        BY <2>1, <3>1, <3>3 DEF Below
    <2>5. CASE (p = <<>>) = (q = <<>>)
      <3> DEFINE apart == {i \in DOMAIN p \cap DOMAIN q : p[i] # q[i]}
      <3>1. CompareVersions(a, b) = NaturalCompare(p, q)
        BY <1>5, <2>5 DEF CompareVersions
      <3>2. SuffixKey(a)[1] = SuffixKey(b)[1]
        BY <2>3, <2>5
      <3>3. \A i \in Positive : /\ SuffixKey(a)[i + 1] = IF i \in DOMAIN p THEN p[i] ELSE -1
                                /\ SuffixKey(b)[i + 1] = IF i \in DOMAIN q THEN q[i] ELSE -1
        BY DEF SuffixKey, Positive
      <3>4. apart \in SUBSET Nat
        BY <2>2
      <3>5. CASE apart # {}
        <4> DEFINE m == Min(apart)
        <4>1. m \in apart /\ \A y \in apart : m <= y
          BY <3>4, <3>5, MinFacts
        <4>2. CompareVersions(a, b) = Sign(p[m], q[m])
          BY <3>1, <3>5 DEF NaturalCompare
        <4> HIDE DEF m
        <4>3. m \in DOMAIN p \cap DOMAIN q /\ p[m] # q[m] /\ p[m] \in Nat /\ q[m] \in Nat
              /\ m \in Positive
          BY <2>2, <4>1 DEF Positive
        <4>4. ASSUME NEW j \in 1..m PROVE SuffixKey(a)[j] = SuffixKey(b)[j]
          <5>1. CASE j = 1
            BY <3>2, <5>1
          <5>2. CASE j # 1
            <6>1. j - 1 \in Positive /\ j - 1 \in DOMAIN p \cap DOMAIN q /\ ~(m <= j - 1) /\ (j - 1) + 1 = j
              BY <2>2, <4>3, <5>2 DEF Positive
            <6>2. p[j - 1] = q[j - 1]
              BY <4>1, <6>1
            <6> QED
              BY <3>3, <6>1, <6>2
          <5> QED
            BY <5>1, <5>2
        <4>5. m + 1 \in Positive /\ (m + 1) - 1 = m
              /\ SuffixKey(a)[m + 1] = p[m] /\ SuffixKey(b)[m + 1] = q[m]
          BY <3>3, <4>3 DEF Positive
        <4>6. /\ p[m] < q[m] => Lex(SuffixKey(a), SuffixKey(b))
              /\ q[m] < p[m] => Lex(SuffixKey(b), SuffixKey(a))
          BY <4>4, <4>5 DEF Lex
        <4>7. p[m] \in Int /\ q[m] \in Int
          BY <4>3
        <4> QED
          BY <2>1, <4>2, <4>3, <4>6, <4>7, SignFacts DEF Below
      <3>6. CASE apart = {}
        <4>1. CompareVersions(a, b) = Sign(Len(p), Len(q))
          BY <3>1, <3>6 DEF NaturalCompare
        <4>2. Len(p) \in Nat /\ Len(q) \in Nat /\ DOMAIN p = 1..Len(p) /\ DOMAIN q = 1..Len(q)
          BY <2>2
        <4>3. \A i \in DOMAIN p \cap DOMAIN q : p[i] = q[i]
          BY <3>6
        <4>4. \A i \in DOMAIN p : p[i] >= 0 /\ p[i] \in Int
          BY <2>2
        <4>5. \A i \in DOMAIN q : q[i] >= 0 /\ q[i] \in Int
          BY <2>2
        <4> HIDE DEF p, q, apart
        <4>6. ASSUME Len(p) < Len(q) PROVE Lex(SuffixKey(a), SuffixKey(b))
          <5> DEFINE m == Len(p) + 1
          <5>1. m \in Positive /\ m + 1 \in Positive /\ m \notin DOMAIN p /\ m \in DOMAIN q
            BY <4>2, <4>6 DEF Positive
          <5>2. SuffixKey(a)[m + 1] < SuffixKey(b)[m + 1]
            BY <3>3, <4>5, <5>1
          <5>3. ASSUME NEW j \in 1..((m + 1) - 1) PROVE SuffixKey(a)[j] = SuffixKey(b)[j]
            <6>1. CASE j = 1
              BY <3>2, <6>1
            <6>2. CASE j # 1
              <7>1. j - 1 \in Positive /\ j - 1 \in DOMAIN p \cap DOMAIN q /\ (j - 1) + 1 = j
                BY <4>2, <4>6, <6>2 DEF Positive
              <7> QED
                BY <3>3, <4>3, <7>1
            <6> QED
              BY <6>1, <6>2
          <5> QED
            BY <5>1, <5>2, <5>3 DEF Lex
        <4>7. ASSUME Len(q) < Len(p) PROVE Lex(SuffixKey(b), SuffixKey(a))
          <5> DEFINE m == Len(q) + 1
          <5>1. m \in Positive /\ m + 1 \in Positive /\ m \notin DOMAIN q /\ m \in DOMAIN p
            BY <4>2, <4>7 DEF Positive
          <5>2. SuffixKey(b)[m + 1] < SuffixKey(a)[m + 1]
            BY <3>3, <4>4, <5>1
          <5>3. ASSUME NEW j \in 1..((m + 1) - 1) PROVE SuffixKey(b)[j] = SuffixKey(a)[j]
            <6>1. CASE j = 1
              BY <3>2, <6>1
            <6>2. CASE j # 1
              <7>1. j - 1 \in Positive /\ j - 1 \in DOMAIN p \cap DOMAIN q /\ (j - 1) + 1 = j
                BY <4>2, <4>7, <6>2 DEF Positive
              <7> QED
                BY <3>3, <4>3, <7>1
            <6> QED
              BY <6>1, <6>2
          <5> QED
            BY <5>1, <5>2, <5>3 DEF Lex
        <4>8. ASSUME Len(p) = Len(q) PROVE SuffixKey(a) = SuffixKey(b)
          <5>1. \A i \in DOMAIN p : i \in DOMAIN q /\ p[i] = q[i]
            BY <4>2, <4>3, <4>8
          <5>2. DOMAIN p = DOMAIN q
            BY <4>2, <4>8
          <5> QED
            BY <2>5, <5>1, <5>2 DEF SuffixKey, p, q
        <4>9. /\ Sign(Len(p), Len(q)) \in {-1, 0, 1}
              /\ Sign(Len(p), Len(q)) < 0 => Len(p) < Len(q)
              /\ Sign(Len(p), Len(q)) > 0 => Len(q) < Len(p)
              /\ Sign(Len(p), Len(q)) = 0 => Len(p) = Len(q)
          <5>1. Len(p) \in Int /\ Len(q) \in Int
            BY <4>2
          <5> QED
            BY <5>1, SignFacts
        <4> QED
          BY <2>1, <4>1, <4>6, <4>7, <4>8, <4>9 DEF Below
      <3> QED
        BY <3>5, <3>6
    <2> QED
      BY <2>4, <2>5
  <1> QED
    BY <1>4, <1>5

\* The releases are written as versions, each above the one published before it.
PublishedInOrder ==
  /\ Releases \in Seq(Version)
  /\ \A i \in 1..(Len(Releases) - 1) : Below(Releases[i], Releases[i + 1])

\* Then any two of them compare as they were published.
LEMMA ReleasesCompare ==
  ASSUME PublishedInOrder, NEW u \in Versions, NEW v \in Versions
  PROVE  /\ CompareVersions(Releases[u], Releases[v]) < 0 <=> u < v
         /\ CompareVersions(Releases[u], Releases[v]) >= 0 <=> u >= v
  <1> DEFINE n == Len(Releases)
  <1>1. n \in Nat /\ Versions = 1..n /\ \A i \in 1..n : Releases[i] \in Version
    BY DEF PublishedInOrder, Versions
  <1>2. \A i \in 1..n : i + 1 \in 1..n => Below(Releases[i], Releases[i + 1])
    BY <1>1 DEF PublishedInOrder
  <1> HIDE DEF n
  <1>3. ASSUME NEW i \in 1..n, NEW j \in 1..n, i < j PROVE Below(Releases[i], Releases[j])
    <2> DEFINE S == {k \in Nat : i + k + 1 \in 1..n => Below(Releases[i], Releases[i + k + 1])}
    <2>1. 0 \in S
      BY <1>2
    <2>2. ASSUME NEW k \in Nat, k \in S PROVE k + 1 \in S
      <3> SUFFICES ASSUME i + (k + 1) + 1 \in 1..n
                   PROVE  Below(Releases[i], Releases[i + (k + 1) + 1])
        OBVIOUS
      <3>1. i + k + 1 \in 1..n /\ (i + k + 1) + 1 = i + (k + 1) + 1
        BY <1>1
      <3>2. Below(Releases[i], Releases[i + k + 1])
        BY <2>2, <3>1
      <3>3. Below(Releases[i + k + 1], Releases[i + (k + 1) + 1])
        BY <1>2, <3>1
      <3>4. Releases[i] \in Version /\ Releases[i + k + 1] \in Version /\ Releases[i + (k + 1) + 1] \in Version
        BY <1>1, <3>1
      <3> QED
        BY <3>2, <3>3, <3>4, BelowIsAnOrder
    <2> HIDE DEF S
    <2>3. Nat \subseteq S
      BY <2>1, <2>2, NatSetInduction
    <2>4. (j - i) - 1 \in Nat /\ i + ((j - i) - 1) + 1 = j
      BY <1>1, <1>3
    <2>5. (j - i) - 1 \in S
      BY <2>3, <2>4
    <2> QED
      BY <2>4, <2>5 DEF S
  <1> DEFINE a == Releases[u]  b == Releases[v]
  <1>4. a \in Version /\ b \in Version
    BY <1>1
  <1>5. u \in Int /\ v \in Int /\ u \in 1..n /\ v \in 1..n
    BY <1>1
  <1> HIDE DEF a, b
  <1>6. u < v => Below(a, b)
    BY <1>3, <1>5 DEF a, b
  <1>7. v < u => Below(b, a)
    BY <1>3, <1>5 DEF a, b
  <1>8. u = v => a = b
    BY DEF a, b
  <1>9. ~Below(a, a) /\ ~Below(b, b)
    BY <1>4, BelowIsAnOrder
  <1>10. ~(Below(a, b) /\ Below(b, a))
    BY <1>4, <1>9, BelowIsAnOrder
  <1>11. /\ CompareVersions(a, b) \in {-1, 0, 1}
         /\ CompareVersions(a, b) < 0 => Below(a, b)
         /\ CompareVersions(a, b) > 0 => Below(b, a)
         /\ CompareVersions(a, b) = 0 => ReleaseKey(a) = ReleaseKey(b) /\ SuffixKey(a) = SuffixKey(b)
    BY <1>4, ComparesKeys
  <1>12. ReleaseKey(a) = ReleaseKey(b) /\ SuffixKey(a) = SuffixKey(b) => ~Below(a, b) /\ ~Below(b, a)
    BY <1>9 DEF Below
  <1>13. /\ CompareVersions(a, b) < 0 <=> u < v
         /\ CompareVersions(a, b) >= 0 <=> u >= v
    <2>1. CASE u < v
      <3>1. CompareVersions(a, b) < 0
        BY <1>6, <1>10, <1>11, <1>12, <2>1
      <3> QED
        BY <1>5, <1>11, <2>1, <3>1
    <2>2. CASE v < u
      <3>1. CompareVersions(a, b) > 0
        BY <1>7, <1>10, <1>11, <1>12, <2>2
      <3> QED
        BY <1>5, <1>11, <2>2, <3>1
    <2>3. CASE u = v
      <3>1. CompareVersions(a, b) = 0
        BY <1>8, <1>9, <1>11, <2>3
      <3> QED
        BY <1>5, <2>3, <3>1
    <2> QED
      BY <1>5, <2>1, <2>2, <2>3
  <1> QED
    BY <1>13 DEF a, b

\* parseAppcast, entry by entry: what it is ready to offer after each.
Better(best, e) ==
  IF e.trusted /\ (best = NoVersion \/ CompareVersions(Releases[best], Releases[e.version]) < 0)
  THEN e.version ELSE best

\* The fold of parseAppcast in steps.
LEMMA ParsesInSteps ==
  ASSUME NEW feed \in Seq(Entry)
  PROVE  \E best : /\ best[0] = NoVersion
                   /\ \A k \in 1..Len(feed) : best[k] = Better(best[k - 1], feed[k])
                   /\ ParseAppcast(feed) = best[Len(feed)]
  <1> DEFINE n == Len(feed)
             Offers == Versions \cup {NoVersion}
             step == [p \in (1..n) \X Offers |-> Better(p[2], feed[p[1]])]
             Equation(it) == it = [s \in SUBSET DOMAIN feed |->
                               IF s = {} THEN NoVersion ELSE Better(it[s \ {Max(s)}], feed[Max(s)])]
  <1>1. n \in Nat /\ DOMAIN feed = 1..n /\ \A k \in 1..n : feed[k] \in Entry
    OBVIOUS
  <1>2. step \in [(1..n) \X Offers -> Offers]
    <2>1. \A p \in (1..n) \X Offers : p[2] \in Offers /\ feed[p[1]].version \in Versions
      BY <1>1 DEF Entry
    <2> QED
      BY <2>1 DEF Better
  <1>3. \E it : Equation(it)
    <2>1. NoVersion \in Offers
      OBVIOUS
    <2> HIDE DEF step, n, Offers
    <2>2. PICK it : Unrolling(it, n, Offers, NoVersion, step)
      BY <1>1, <1>2, <2>1, FoldDefined
    <2>3. /\ it \in [SUBSET (1..n) -> Offers]
          /\ \A s \in SUBSET (1..n) : it[s] = IF s = {} THEN NoVersion ELSE step[<<Max(s), it[s \ {Max(s)}]>>]
      BY <2>2 DEF Unrolling
    <2>4. ASSUME NEW s \in SUBSET (1..n), s # {}
          PROVE  step[<<Max(s), it[s \ {Max(s)}]>>] = Better(it[s \ {Max(s)}], feed[Max(s)])
      <3>1. s \in SUBSET (0..n)
        OBVIOUS
      <3>2. Max(s) \in s
        BY <1>1, <2>4, <3>1, MaxFacts
      <3>3. Max(s) \in 1..n /\ s \ {Max(s)} \in SUBSET (1..n)
        BY <3>2
      <3>4. it[s \ {Max(s)}] \in Offers
        BY <2>3, <3>3
      <3> QED
        BY <3>3, <3>4 DEF step
    <2>5. it = [s \in SUBSET DOMAIN feed |->
                  IF s = {} THEN NoVersion ELSE Better(it[s \ {Max(s)}], feed[Max(s)])]
      BY <1>1, <2>3, <2>4
    <2> QED
      BY <2>5
  <1> DEFINE it == CHOOSE it : Equation(it)
  <1>4. Equation(it)
    <2> HIDE DEF Equation
    <2> QED
      BY <1>3
  <1>5. ParseAppcast(feed) = it[DOMAIN feed]
    BY Zenon DEF ParseAppcast, FoldLeft, MapThenFoldSet, Better
  <1> HIDE DEF it, n, step
  <1> DEFINE best == [k \in 0..n |-> it[1..k]]
  <1>6. best[0] = NoVersion
    <2>1. 1..0 = {} /\ {} \in SUBSET DOMAIN feed /\ 0 \in 0..n
      BY <1>1
    <2> QED
      BY <1>4, <2>1
  <1>7. ASSUME NEW k \in 1..n PROVE best[k] = Better(best[k - 1], feed[k])
    <2>1. k \in Nat \ {0} /\ k \in 0..n /\ k - 1 \in 0..n /\ 1..k \in SUBSET DOMAIN feed
      BY <1>1
    <2>2. 1..k # {} /\ Max(1..k) = k /\ (1..k) \ {k} = 1..(k - 1)
      BY <2>1, PrefixFacts
    <2>3. it[1..k] = Better(it[1..(k - 1)], feed[k])
      BY <1>4, <2>1, <2>2
    <2> QED
      BY <2>1, <2>3
  <1>8. ParseAppcast(feed) = best[n]
    BY <1>1, <1>5
  <1> HIDE DEF best
  <1> QED
    BY <1>6, <1>7, <1>8 DEF n

\* The entries with a trusted download among the first k.
TrustedOf(feed, k) == {feed[i].version : i \in {j \in 1..k : feed[j].trusted}}

\* What parseAppcast offers is the trusted version published last.
LEMMA ParsesToNewest ==
  ASSUME PublishedInOrder, NEW feed \in Seq(Entry)
  PROVE  LET trusted == TrustedOf(feed, Len(feed)) IN
         IF ParseAppcast(feed) = NoVersion THEN trusted = {}
         ELSE ParseAppcast(feed) \in trusted /\ \A v \in trusted : v <= ParseAppcast(feed)
  <1> DEFINE n == Len(feed)
             Newest(k, v) ==
               IF v = NoVersion THEN TrustedOf(feed, k) = {}
               ELSE v \in TrustedOf(feed, k) /\ \A w \in TrustedOf(feed, k) : w <= v
  <1>1. PICK best : /\ best[0] = NoVersion
                    /\ \A k \in 1..n : best[k] = Better(best[k - 1], feed[k])
                    /\ ParseAppcast(feed) = best[n]
    BY ParsesInSteps
  <1>2. n \in Nat /\ DOMAIN feed = 1..n /\ \A k \in 1..n : feed[k] \in Entry
    OBVIOUS
  <1>3. \A v \in Versions : v \in Nat /\ v # 0
    BY DEF PublishedInOrder, Versions
  <1> HIDE DEF n
  <1> DEFINE S == {k \in 0..n : Newest(k, best[k])}
  <1>4. 0 \in S
    BY <1>1, <1>2 DEF TrustedOf
  <1>5. ASSUME NEW k \in 0..(n - 1), k \in S PROVE k + 1 \in S
    <2> DEFINE e == feed[k + 1]  b == best[k]  earlier == TrustedOf(feed, k)  later == TrustedOf(feed, k + 1)
    <2>1. k + 1 \in 1..n /\ k + 1 \in 0..n /\ (k + 1) - 1 = k
      BY <1>2
    <2>2. e.version \in Versions /\ e.trusted \in BOOLEAN
      BY <1>2, <2>1 DEF Entry
    <2>3. later = IF e.trusted THEN earlier \cup {e.version} ELSE earlier
      <3>1. {j \in 1..(k + 1) : feed[j].trusted}
              = {j \in 1..k : feed[j].trusted} \cup IF e.trusted THEN {k + 1} ELSE {}
        BY <1>2
      <3> QED
        BY <3>1 DEF TrustedOf
    <2>4. best[k + 1] = Better(b, e)
      BY <1>1, <2>1
    <2>5. Newest(k, b)
      BY <1>5
    <2>6. earlier \subseteq Versions
      BY <1>2, <2>1 DEF TrustedOf, Entry
    <2>7. b = NoVersion \/ b \in Versions
      BY <2>5, <2>6
    <2>8. b # NoVersion =>
            (CompareVersions(Releases[b], Releases[e.version]) < 0 <=> b < e.version)
      BY <2>2, <2>7, ReleasesCompare
    <2>9. NoVersion \notin Versions
      BY <1>3 DEF NoVersion
    <2> HIDE DEF e, b, earlier, later
    <2>10. Newest(k + 1, Better(b, e))
      <3>1. CASE ~e.trusted
        BY <2>3, <2>5, <3>1 DEF Better, earlier, later
      <3>2. CASE e.trusted /\ b = NoVersion
        <4>1. earlier = {} /\ later = {e.version} /\ Better(b, e) = e.version
          BY <2>3, <2>5, <3>2 DEF Better, earlier
        <4>2. e.version # NoVersion /\ e.version <= e.version
          BY <1>3, <2>2, <2>9
        <4> QED
          BY <4>1, <4>2 DEF later
      <3>3. CASE e.trusted /\ b # NoVersion /\ b < e.version
        <4>1. Better(b, e) = e.version /\ later = earlier \cup {e.version}
          BY <2>3, <2>8, <3>3 DEF Better
        <4>2. \A w \in earlier : w <= b
          BY <2>5, <3>3 DEF earlier
        <4>3. \A w \in later : w <= e.version
          BY <1>3, <2>2, <2>6, <2>7, <3>3, <4>1, <4>2
        <4> QED
          BY <2>2, <2>9, <4>1, <4>3 DEF later
      <3>4. CASE e.trusted /\ b # NoVersion /\ ~(b < e.version)
        <4>1. Better(b, e) = b /\ later = earlier \cup {e.version}
          BY <2>3, <2>8, <3>4 DEF Better
        <4>2. b \in earlier /\ \A w \in earlier : w <= b
          BY <2>5, <3>4 DEF earlier
        <4>3. \A w \in later : w <= b
          BY <1>3, <2>2, <2>7, <3>4, <4>1, <4>2
        <4> QED
          BY <3>4, <4>1, <4>2, <4>3 DEF later
      <3> QED
        BY <2>2, <3>1, <3>2, <3>3, <3>4
    <2> QED
      BY <2>1, <2>4, <2>10
  <1> HIDE DEF S
  <1>6. 0..n \subseteq S
    BY <1>2, <1>4, <1>5, RangeInduction
  <1>7. Newest(n, best[n])
    BY <1>2, <1>6 DEF S
  <1> QED
    BY <1>1, <1>7 DEF n

\* An answer after an appcast.
LEMMA ReplyOffersNewest ==
  ASSUME PublishedInOrder, UpdateOffersNewest, NEW kind, OnReplyFinished(kind)
  PROVE  UpdateOffersNewest'
  <1>1. Running \in Versions /\ \A v \in Versions : v \in Nat /\ v # 0
    BY UpdateAssumption DEF PublishedInOrder, Versions
  <1>2. CASE CheckFailed(kind, m_autoUpdateCheckActive)
    BY <1>2 DEF CheckFailed, Answered, UpdateOffersNewest
  <1>3. ASSUME NEW feed \in Feeds,
               LET best == ParseAppcast(feed)
                   trusted == {feed[i].version : i \in {j \in DOMAIN feed : feed[j].trusted}}
               IN \/ best = NoVersion /\ CheckFailed(kind, m_autoUpdateCheckActive)
                  \/ /\ best # NoVersion
                     /\ IF CompareVersions(Releases[Running], Releases[best]) >= 0
                        THEN UpToDate(kind, trusted, m_autoUpdateCheckActive)
                        ELSE UpdateAvailable(kind, best, trusted, m_autoUpdateCheckActive)
        PROVE  UpdateOffersNewest'
    <2> DEFINE best == ParseAppcast(feed)
               trusted == {feed[i].version : i \in {j \in DOMAIN feed : feed[j].trusted}}
    <2>1. feed \in Seq(Entry)
      <3>1. PICK n \in 0..MaxFeed : feed \in [1..n -> Entry]
        BY DEF Feeds
      <3>2. n \in Nat
        BY <3>1, UpdateAssumption
      <3> QED
        BY <3>1, <3>2
    <2>2. trusted = TrustedOf(feed, Len(feed))
      BY <2>1 DEF TrustedOf
    <2>3. IF best = NoVersion THEN trusted = {} ELSE best \in trusted /\ \A v \in trusted : v <= best
      BY <2>1, <2>2, ParsesToNewest
    <2>4. trusted \subseteq Versions
      <3>1. \A i \in DOMAIN feed : feed[i] \in Entry
        BY <2>1
      <3>2. \A e \in Entry : e.version \in Versions
        BY DEF Entry
      <3>3. \A i \in DOMAIN feed : feed[i].version \in Versions
        BY <3>1, <3>2
      <3> QED
        BY <3>3
    <2>5. \/ CheckFailed(kind, m_autoUpdateCheckActive)
          \/ /\ best # NoVersion /\ CompareVersions(Releases[Running], Releases[best]) >= 0
             /\ UpToDate(kind, trusted, m_autoUpdateCheckActive)
          \/ /\ best # NoVersion /\ ~(CompareVersions(Releases[Running], Releases[best]) >= 0)
             /\ UpdateAvailable(kind, best, trusted, m_autoUpdateCheckActive)
      BY <1>3
    <2> HIDE DEF best, trusted
    <2>6. best # NoVersion => best \in Versions
                              /\ (CompareVersions(Releases[Running], Releases[best]) >= 0 <=> Running >= best)
      BY <1>1, <2>3, <2>4, ReleasesCompare
    <2>7. CASE best # NoVersion /\ Running >= best /\ UpToDate(kind, trusted, m_autoUpdateCheckActive)
      <3>1. answer'.version = NoVersion /\ answer'.feed = trusted
        BY <2>7 DEF UpToDate, Answered
      <3>2. \A v \in trusted : v <= Running
        BY <1>1, <2>3, <2>4, <2>6, <2>7
      <3> QED
        BY <3>1, <3>2 DEF UpdateOffersNewest
    <2>8. CASE best # NoVersion /\ ~(Running >= best) /\ UpdateAvailable(kind, best, trusted, m_autoUpdateCheckActive)
      <3>1. answer'.version = best /\ answer'.feed = trusted
        BY <2>8 DEF UpdateAvailable, Answered
      <3>2. best > Running
        BY <1>1, <2>6, <2>8
      <3>3. best = Max(trusted)
        <4>1. best \in Nat /\ trusted \in SUBSET (0..best) /\ trusted # {}
          BY <1>1, <2>3, <2>4, <2>6, <2>8
        <4>2. Max(trusted) \in trusted /\ \A y \in trusted : Max(trusted) >= y
          BY <4>1, MaxFacts
        <4>3. Max(trusted) \in Nat /\ Max(trusted) <= best /\ Max(trusted) >= best
          BY <1>1, <2>3, <2>4, <2>8, <4>2
        <4> QED
          BY <4>1, <4>3
      <3> QED
        BY <2>8, <3>1, <3>2, <3>3 DEF UpdateOffersNewest
    <2> QED
      BY <1>2, <2>5, <2>6, <2>7, <2>8
  <1> QED
    BY <1>2, <1>3 DEF OnReplyFinished

\* Of the entries with a trusted download the one published last is offered, and
\* only if it is newer than the version that runs: for every list of releases each
\* above the one before it, and an appcast of any length in any order.
THEOREM NewestIsOffered ==
  ASSUME PublishedInOrder
  PROVE  UpdateSpec => []UpdateOffersNewest
  <1>1. UpdateInit => UpdateOffersNewest
    <2>1. NoAnswer.version = NoVersion /\ NoAnswer.feed = {}
      BY DEF NoAnswer
    <2> QED
      BY <2>1 DEF UpdateInit, UpdateOffersNewest
  <1>2. UpdateOffersNewest /\ [UpdateNext]_updateVars => UpdateOffersNewest'
    <2> SUFFICES ASSUME UpdateOffersNewest, [UpdateNext]_updateVars PROVE UpdateOffersNewest'
      OBVIOUS
    <2>1. CASE UNCHANGED answer
      BY <2>1 DEF UpdateOffersNewest
    <2>2. ASSUME NEW kind, NEW flag, UpToDate(kind, {}, flag) \/ CheckFailed(kind, flag)
          PROVE  UpdateOffersNewest'
      BY <2>2 DEF UpToDate, CheckFailed, Answered, UpdateOffersNewest
    <2>3. ASSUME NEW kind, NEW flag, Check(kind, flag) PROVE UpdateOffersNewest'
      BY <2>1, <2>2, <2>3 DEF Check
    <2>4. CASE CheckForUpdates
      BY <2>3, <2>4 DEF CheckForUpdates
    <2>5. CASE MaybeCheckForUpdatesOnStartup
      BY <2>1, <2>3, <2>5 DEF MaybeCheckForUpdatesOnStartup
    <2>6. CASE \E kind \in {"auto", "manual"} : OnReplyFinished(kind)
      BY <2>6, ReplyOffersNewest
    <2>7. CASE SkipUpdateVersion \/ SetAutoUpdateCheckEnabled \/ DayPasses \/ UNCHANGED updateVars
      BY <2>1, <2>7 DEF SkipUpdateVersion, SetAutoUpdateCheckEnabled, DayPasses, updateVars
    <2>8. CASE Relaunch
      BY <2>8 DEF Relaunch, UpdateOffersNewest, NoAnswer
    <2> QED
      BY <2>4, <2>5, <2>6, <2>7, <2>8 DEF UpdateNext
  <1> QED
    BY <1>1, <1>2, PTL DEF UpdateSpec

-----------------------------------------------------------------------------
(* The boot configuration.                                                 *)

BootSpec == BootInit /\ [][BootNext]_bootVars

NamedAccount == [id : Identities \cup {Incomplete}, password : Specs]
BootAccount == [id : Identities, password : {"given", ""}]

\* How often an identity is mentioned, as accounts come and go.
LEMMA CountFacts ==
  ASSUME NEW T, NEW s \in Seq(T), NEW id
  PROVE  /\ CountOf(s, id) \in Nat
         /\ CountOf(<<>>, id) = 0
         /\ \A a \in T : CountOf(Append(s, a), id) = CountOf(s, id) + IF a.id = id THEN 1 ELSE 0
         /\ s # <<>> => CountOf(s, id) = CountOf(Tail(s), id) + IF Head(s).id = id THEN 1 ELSE 0
         /\ CountOf(s, id) = 0 <=> \A i \in DOMAIN s : s[i].id # id
  <1> DEFINE at == {i \in DOMAIN s : s[i].id = id}
  <1>1. IsFiniteSet(at) /\ Cardinality(at) \in Nat
    <2>1. IsFiniteSet(1..Len(s)) /\ at \in SUBSET (1..Len(s))
      BY FS_Interval
    <2> QED
      BY <2>1, FS_Subset, FS_CardinalityType
  <1>2. CountOf(s, id) = Cardinality(at)
    BY DEF CountOf
  <1>3. CountOf(<<>>, id) = 0
    <2>1. {i \in DOMAIN <<>> : <<>>[i].id = id} = {}
      OBVIOUS
    <2> QED
      BY <2>1, FS_EmptySet DEF CountOf
  <1>4. ASSUME NEW a \in T
        PROVE  CountOf(Append(s, a), id) = CountOf(s, id) + IF a.id = id THEN 1 ELSE 0
    <2> DEFINE t == Append(s, a)  after == {i \in DOMAIN t : t[i].id = id}  n == Len(s) + 1
    <2>1. /\ DOMAIN t = 1..n /\ DOMAIN s = 1..(n - 1) /\ t[n] = a /\ n \in Nat \ {0}
          /\ \A i \in DOMAIN s : t[i] = s[i]
      OBVIOUS
    <2> HIDE DEF t
    <2>2. after = IF a.id = id THEN at \cup {n} ELSE at
      BY <2>1
    <2>3. n \notin at
      BY <2>1
    <2> HIDE DEF at, after
    <2>4. CountOf(t, id) = Cardinality(after)
      BY DEF CountOf, after
    <2>5. Cardinality(at \cup {n}) = Cardinality(at) + 1
      BY <1>1, <2>3, FS_AddElement
    <2>6. CountOf(t, id) = CountOf(s, id) + IF a.id = id THEN 1 ELSE 0
      BY <1>1, <1>2, <2>2, <2>4, <2>5
    <2> QED
      BY <2>6 DEF t
  <1>5. ASSUME s # <<>>
        PROVE  CountOf(s, id) = CountOf(Tail(s), id) + IF Head(s).id = id THEN 1 ELSE 0
    <2> DEFINE t == Tail(s)  after == {i \in DOMAIN t : t[i].id = id}
               next == {i + 1 : i \in after}
    <2>1. /\ DOMAIN t = 1..(Len(s) - 1) /\ DOMAIN s = 1..Len(s) /\ Len(s) \in Nat \ {0}
          /\ s[1] = Head(s) /\ \A i \in DOMAIN t : t[i] = s[i + 1]
      BY <1>5
    <2> HIDE DEF t
    <2>2. at = IF Head(s).id = id THEN next \cup {1} ELSE next
      <3>1. \A i \in DOMAIN s : i = 1 \/ (i - 1 \in DOMAIN t /\ (i - 1) + 1 = i)
        BY <2>1
      <3>2. \A i \in DOMAIN t : i + 1 \in DOMAIN s
        BY <2>1
      <3>3. ASSUME NEW i \in at PROVE IF i = 1 THEN Head(s).id = id ELSE i \in next
        <4>1. CASE i = 1
          BY <2>1, <4>1
        <4>2. CASE i # 1
          <5>1. i - 1 \in after /\ (i - 1) + 1 = i
            BY <2>1, <3>1, <4>2
          <5> QED
            BY <4>2, <5>1
        <4> QED
          BY <4>1, <4>2
      <3>4. \A j \in next : j \in at
        BY <2>1, <3>2
      <3>5. Head(s).id = id => 1 \in at
        BY <2>1
      <3> QED
        BY <3>3, <3>4, <3>5
    <2>3. 1 \notin next
      BY <2>1
    <2>4. IsFiniteSet(after) /\ IsFiniteSet(next) /\ Cardinality(next) = Cardinality(after)
          /\ Cardinality(after) \in Nat
      <3>1. IsFiniteSet(1..(Len(s) - 1)) /\ after \in SUBSET (1..(Len(s) - 1))
        BY <2>1, FS_Interval
      <3>2. IsFiniteSet(after) /\ Cardinality(after) \in Nat
        BY <3>1, FS_Subset, FS_CardinalityType
      <3> DEFINE f == [i \in after |-> i + 1]
      <3>3. f \in Bijection(after, next)
        <4>1. f \in [after -> next] /\ \A j \in next : \E i \in after : f[i] = j
          OBVIOUS
        <4>2. \A i, k \in after : f[i] = f[k] => i = k
          BY <2>1
        <4> QED
          BY <4>1, <4>2 DEF Bijection, Injection, Surjection, IsInjective
      <3> HIDE DEF after, next, f
      <3> QED
        BY <3>2, <3>3, FS_Bijection DEF ExistsBijection
    <2> HIDE DEF at, after, next
    <2>5. CountOf(t, id) = Cardinality(after)
      BY DEF CountOf, after
    <2>6. Cardinality(next \cup {1}) = Cardinality(next) + 1
      BY <2>3, <2>4, FS_AddElement
    <2>7. CountOf(s, id) = CountOf(t, id) + IF Head(s).id = id THEN 1 ELSE 0
      BY <1>2, <2>2, <2>4, <2>5, <2>6
    <2> QED
      BY <2>7 DEF t
  <1>6. CountOf(s, id) = 0 <=> \A i \in DOMAIN s : s[i].id # id
    <2>1. Cardinality(at) = 0 <=> at = {}
      BY <1>1, FS_EmptySet
    <2> QED
      BY <1>2, <2>1
  <1> QED
    BY <1>1, <1>2, <1>3, <1>4, <1>5, <1>6

\* What the variables hold.
Scalars == {Unset, "on", "off"}
Loaded == [taken : BOOLEAN, accounts : Seq(BootAccount)]

BootTypeOK ==
  /\ layer \in 0..Booted /\ stdinTaken \in BOOLEAN
  /\ asked \in [named : [Identities -> Nat], scalar : Scalars, replace : BOOLEAN]
  /\ bootConfig \in [accounts : Seq(BootAccount), scalar : Scalars, replace : BOOLEAN]
  /\ bootAccounts \in Seq(BootAccount) /\ before \in Seq(BootAccount)

\* While the layers are merged nothing is applied, and every mention is kept.
Merging ==
  layer \in 0..CommandLine =>
    bootAccounts = before /\ \A id \in Identities : CountOf(bootConfig.accounts, id) = asked.named[id]

\* The mentions of an identity that are left to apply, and how often it is there.
Applied(id) ==
  LET left == CountOf(bootConfig.accounts, id)
      had == CountOf(before, id)
      has == CountOf(bootAccounts, id)
      named == asked.named[id]
  IN IF ~asked.replace THEN has + left = had + named
     ELSE IF had > 0 THEN has = had
     ELSE (has = 0 /\ left = named) \/ (has = 1 /\ named > 0)

\* Every account there was still is, with a password if it had one.
PasswordsKept ==
  \A i \in DOMAIN before :
    i \in DOMAIN bootAccounts /\ (before[i].password = "given" => bootAccounts[i].password = "given")

\* The merged layers are what was asked for, and what was applied and what is left
\* to apply add up to it.
BootInv ==
  /\ BootTypeOK
  /\ bootConfig.scalar = asked.scalar /\ bootConfig.replace = asked.replace
  /\ Merging
  /\ \A id \in Identities : Applied(id)
  /\ PasswordsKept
  /\ layer = Booted => bootConfig.accounts = <<>>

\* The mentions of an identity in one list after another.
LEMMA CountOfBoth ==
  ASSUME NEW T, NEW s \in Seq(T), NEW t \in Seq(T), NEW id
  PROVE  CountOf(s \o t, id) = CountOf(s, id) + CountOf(t, id)
  <1> DEFINE m == Len(t)
             Sum(n) == CountOf(s \o SubSeq(t, 1, n), id) = CountOf(s, id) + CountOf(SubSeq(t, 1, n), id)
             S == {n \in 0..m : Sum(n)}
  <1>1. 0 \in S
    <2> DEFINE u == SubSeq(t, 1, 0)
    <2>1. u = <<>> /\ s \o u = s /\ 0 \in 0..m
      OBVIOUS
    <2>2. CountOf(s, id) \in Nat /\ CountOf(<<>>, id) = 0
      BY CountFacts
    <2> HIDE DEF u
    <2>3. CountOf(s \o u, id) = CountOf(s, id) + CountOf(u, id)
      <3>1. CountOf(s \o u, id) = CountOf(s, id) /\ CountOf(u, id) = 0
        BY <2>1, <2>2, Zenon
      <3> QED
        BY <2>2, <3>1
    <2> QED
      BY <2>1, <2>3 DEF u
  <1>2. ASSUME NEW n \in 0..(m - 1), n \in S PROVE n + 1 \in S
    <2> DEFINE u == SubSeq(t, 1, n)  v == SubSeq(t, 1, n + 1)  e == t[n + 1]  w == s \o u
    <2>1. u \in Seq(T) /\ e \in T /\ v = Append(u, e) /\ n + 1 \in 0..m
      OBVIOUS
    <2> HIDE DEF u, v, e
    <2>2. s \o v = Append(w, e) /\ w \in Seq(T)
      BY <2>1
    <2> HIDE DEF w
    <2>3. CountOf(v, id) = CountOf(u, id) + IF e.id = id THEN 1 ELSE 0
      BY <2>1, CountFacts
    <2>4. CountOf(Append(w, e), id) = CountOf(w, id) + IF e.id = id THEN 1 ELSE 0
      BY <2>1, <2>2, CountFacts
    <2>5. CountOf(w, id) = CountOf(s, id) + CountOf(u, id)
      BY <1>2 DEF u, w
    <2>6. CountOf(s, id) \in Nat /\ CountOf(u, id) \in Nat
      BY <2>1, CountFacts
    <2>7. CountOf(s \o v, id) = CountOf(s, id) + CountOf(v, id)
      BY <2>2, <2>3, <2>4, <2>5, <2>6
    <2> QED
      BY <2>1, <2>7 DEF v
  <1> HIDE DEF S
  <1>3. m \in Nat
    OBVIOUS
  <1>4. 0..m \subseteq S
    <2> HIDE DEF m
    <2> QED
      BY <1>1, <1>2, <1>3, RangeInduction
  <1>5. m \in 0..m /\ SubSeq(t, 1, m) = t
    OBVIOUS
  <1>6. Sum(m)
    BY <1>4, <1>5 DEF S
  <1> QED
    BY <1>5, <1>6

\* One account of a file adds its mention, unless it is incomplete.
LEMMA LoadAccountTyped ==
  ASSUME NEW l \in Loaded, NEW a \in NamedAccount
  PROVE  /\ LoadAccount(l, a) \in Loaded
         /\ \A id \in Identities :
              CountOf(LoadAccount(l, a).accounts, id)
                = CountOf(l.accounts, id) + IF a.id = id THEN 1 ELSE 0
  <1>1. ResolvePassword(a.password, l.taken) \in {"given", ""}
    BY DEF ResolvePassword
  <1>2. a.id \in Identities \cup {Incomplete} /\ l.accounts \in Seq(BootAccount) /\ l.taken \in BOOLEAN
    BY DEF NamedAccount, Loaded
  <1>3. a.id # Incomplete => ParseAccount(a, l.taken) \in BootAccount /\ ParseAccount(a, l.taken).id = a.id
    BY <1>1, <1>2 DEF ParseAccount, BootAccount
  <1>4. LoadAccount(l, a).accounts = IF a.id = Incomplete THEN l.accounts
                                     ELSE Append(l.accounts, ParseAccount(a, l.taken))
    BY DEF LoadAccount
  <1>5. LoadAccount(l, a) \in Loaded
    <2>1. LoadAccount(l, a).accounts \in Seq(BootAccount)
      BY <1>2, <1>3, <1>4
    <2>2. (l.taken \/ a.password = "stdin") \in BOOLEAN
      OBVIOUS
    <2> QED
      BY <2>1, <2>2 DEF LoadAccount, Loaded
  <1>6. ASSUME NEW id \in Identities
        PROVE  CountOf(LoadAccount(l, a).accounts, id)
                 = CountOf(l.accounts, id) + IF a.id = id THEN 1 ELSE 0
    <2>1. Incomplete # id
      BY BootAssumption
    <2>2. CountOf(l.accounts, id) \in Nat
      BY <1>2, CountFacts
    <2>3. CASE a.id = Incomplete
      BY <1>4, <2>1, <2>2, <2>3
    <2>4. CASE a.id # Incomplete
      <3>1. CountOf(Append(l.accounts, ParseAccount(a, l.taken)), id)
              = CountOf(l.accounts, id) + IF ParseAccount(a, l.taken).id = id THEN 1 ELSE 0
        BY <1>2, <1>3, <2>4, CountFacts
      <3> QED
        BY <1>3, <1>4, <2>4, <3>1
    <2> QED
      BY <2>3, <2>4
  <1> QED
    BY <1>5, <1>6

\* loadFromFile, account by account.
LEMMA LoadsInSteps ==
  ASSUME NEW accounts \in Seq(NamedAccount), NEW taken \in BOOLEAN
  PROVE  LET start == [taken |-> taken, accounts |-> <<>>]
         IN \E loaded :
              /\ loaded[0] = start
              /\ \A k \in 1..Len(accounts) : loaded[k] = LoadAccount(loaded[k - 1], accounts[k])
              /\ FoldLeft(LoadAccount, start, accounts) = loaded[Len(accounts)]
  <1> DEFINE n == Len(accounts)
             start == [taken |-> taken, accounts |-> <<>>]
             step == [p \in (1..n) \X Loaded |-> LoadAccount(p[2], accounts[p[1]])]
             Equation(it) == it = [s \in SUBSET DOMAIN accounts |->
                               IF s = {} THEN start ELSE LoadAccount(it[s \ {Max(s)}], accounts[Max(s)])]
  <1>1. n \in Nat /\ DOMAIN accounts = 1..n /\ \A k \in 1..n : accounts[k] \in NamedAccount
    OBVIOUS
  <1>2. step \in [(1..n) \X Loaded -> Loaded]
    <2>1. \A p \in (1..n) \X Loaded : LoadAccount(p[2], accounts[p[1]]) \in Loaded
      BY <1>1, LoadAccountTyped
    <2> QED
      BY <2>1
  <1>3. \E it : Equation(it)
    <2>1. start \in Loaded
      BY DEF Loaded
    <2> HIDE DEF step, n, start
    <2>2. PICK it : Unrolling(it, n, Loaded, start, step)
      BY <1>1, <1>2, <2>1, FoldDefined
    <2>3. /\ it \in [SUBSET (1..n) -> Loaded]
          /\ \A s \in SUBSET (1..n) : it[s] = IF s = {} THEN start ELSE step[<<Max(s), it[s \ {Max(s)}]>>]
      BY <2>2 DEF Unrolling
    <2>4. ASSUME NEW s \in SUBSET (1..n), s # {}
          PROVE  step[<<Max(s), it[s \ {Max(s)}]>>] = LoadAccount(it[s \ {Max(s)}], accounts[Max(s)])
      <3>1. s \in SUBSET (0..n)
        OBVIOUS
      <3>2. Max(s) \in s
        BY <1>1, <2>4, <3>1, MaxFacts
      <3>3. Max(s) \in 1..n /\ s \ {Max(s)} \in SUBSET (1..n)
        BY <3>2
      <3>4. it[s \ {Max(s)}] \in Loaded
        BY <2>3, <3>3
      <3> QED
        BY <3>3, <3>4 DEF step
    <2>5. it = [s \in SUBSET DOMAIN accounts |->
                  IF s = {} THEN start ELSE LoadAccount(it[s \ {Max(s)}], accounts[Max(s)])]
      BY <1>1, <2>3, <2>4
    <2> QED
      BY <2>5
  <1> DEFINE it == CHOOSE it : Equation(it)
  <1>4. Equation(it)
    <2> HIDE DEF Equation
    <2> QED
      BY <1>3
  <1>5. FoldLeft(LoadAccount, start, accounts) = it[DOMAIN accounts]
    BY Zenon DEF FoldLeft, MapThenFoldSet
  <1> HIDE DEF it, n, step, start
  <1> DEFINE loaded == [k \in 0..n |-> it[1..k]]
  <1>6. loaded[0] = start
    <2>1. 1..0 = {} /\ {} \in SUBSET DOMAIN accounts /\ 0 \in 0..n
      BY <1>1
    <2> QED
      BY <1>4, <2>1
  <1>7. ASSUME NEW k \in 1..n PROVE loaded[k] = LoadAccount(loaded[k - 1], accounts[k])
    <2>1. k \in Nat \ {0} /\ k \in 0..n /\ k - 1 \in 0..n /\ 1..k \in SUBSET DOMAIN accounts
      BY <1>1
    <2>2. 1..k # {} /\ Max(1..k) = k /\ (1..k) \ {k} = 1..(k - 1)
      BY <2>1, PrefixFacts
    <2>3. it[1..k] = LoadAccount(it[1..(k - 1)], accounts[k])
      BY <1>4, <2>1, <2>2
    <2> QED
      BY <2>1, <2>3
  <1>8. FoldLeft(LoadAccount, start, accounts) = loaded[n]
    BY <1>1, <1>5
  <1> HIDE DEF loaded
  <1> QED
    BY <1>6, <1>7, <1>8 DEF n, start

\* Loading a layer keeps every mention of an identity.
LEMMA LoadKeepsMentions ==
  ASSUME NEW c, c.accounts \in Seq(NamedAccount), NEW taken \in BOOLEAN
  PROVE  /\ LoadFromFile(c, taken) \in Loaded
         /\ \A id \in Identities : CountOf(LoadFromFile(c, taken).accounts, id) = CountOf(c.accounts, id)
  <1> DEFINE accounts == c.accounts
             n == Len(accounts)
             start == [taken |-> taken, accounts |-> <<>>]
  <1>1. PICK loaded :
          /\ loaded[0] = start
          /\ \A k \in 1..n : loaded[k] = LoadAccount(loaded[k - 1], accounts[k])
          /\ FoldLeft(LoadAccount, start, accounts) = loaded[n]
    <2>1. accounts \in Seq(NamedAccount)
      OBVIOUS
    <2> HIDE DEF accounts
    <2> QED
      BY <2>1, LoadsInSteps
  <1>2. LoadFromFile(c, taken) = loaded[n]
    BY <1>1 DEF LoadFromFile
  <1>3. accounts \in Seq(NamedAccount) /\ n \in Nat
    OBVIOUS
  <1>4. start \in Loaded /\ start.accounts = <<>>
    BY DEF Loaded
  <1> HIDE DEF accounts, start
  <1> DEFINE Kept(k) == /\ loaded[k] \in Loaded
                        /\ \A id \in Identities : CountOf(loaded[k].accounts, id) = CountOf(SubSeq(accounts, 1, k), id)
             S == {k \in 0..n : Kept(k)}
  <1>5. 0 \in S
    <2>1. SubSeq(accounts, 1, 0) = <<>> /\ 0 \in 0..n
      BY <1>3
    <2> QED
      BY <1>1, <1>4, <2>1
  <1>6. ASSUME NEW k \in 0..(n - 1), k \in S PROVE k + 1 \in S
    <2> DEFINE u == SubSeq(accounts, 1, k)  v == SubSeq(accounts, 1, k + 1)  a == accounts[k + 1]
    <2>1. u \in Seq(NamedAccount) /\ a \in NamedAccount /\ v = Append(u, a)
          /\ k + 1 \in 0..n /\ k + 1 \in 1..n /\ (k + 1) - 1 = k
      BY <1>3
    <2>2. loaded[k + 1] = LoadAccount(loaded[k], a)
      BY <1>1, <2>1
    <2> HIDE DEF u, v, a
    <2>3. loaded[k] \in Loaded /\ \A id \in Identities : CountOf(loaded[k].accounts, id) = CountOf(u, id)
      BY <1>6 DEF u
    <2>4. \A id \in Identities : CountOf(v, id) = CountOf(u, id) + IF a.id = id THEN 1 ELSE 0
      BY <2>1, CountFacts
    <2>5. /\ loaded[k + 1] \in Loaded
          /\ \A id \in Identities : CountOf(loaded[k + 1].accounts, id)
                                      = CountOf(loaded[k].accounts, id) + IF a.id = id THEN 1 ELSE 0
      BY <2>1, <2>2, <2>3, LoadAccountTyped
    <2>6. \A id \in Identities : CountOf(loaded[k + 1].accounts, id) = CountOf(v, id)
      BY <2>3, <2>4, <2>5
    <2> QED
      BY <2>1, <2>5, <2>6 DEF v
  <1> HIDE DEF S
  <1>7. 0..n \subseteq S
    BY <1>3, <1>5, <1>6, RangeInduction
  <1>8. n \in 0..n /\ SubSeq(accounts, 1, n) = accounts
    BY <1>3
  <1>9. Kept(n)
    BY <1>7, <1>8 DEF S
  <1> QED
    BY <1>2, <1>8, <1>9 DEF accounts

\* What a layer brings: every mention of an identity, from a file or the command line.
LEMMA LayerFacts ==
  ASSUME NEW c \in LayerContents, NEW taken \in BOOLEAN, NEW loaded,
         \/ loaded = LoadFromFile(c, taken)
         \/ FlagsOnly(c) /\ loaded = FromCommandLine(c, taken)
  PROVE  /\ loaded \in Loaded
         /\ \A id \in Identities : CountOf(c.accounts, id) \in Nat /\ CountOf(loaded.accounts, id) = CountOf(c.accounts, id)
  <1>1. c.accounts \in Seq(NamedAccount)
    <2>1. PICK n \in 0..MaxNamed : c.accounts \in [1..n -> NamedAccount]
      BY DEF LayerContents, NamedAccount
    <2>2. n \in Nat
      BY <2>1, BootAssumption
    <2> QED
      BY <2>1, <2>2
  <1>2. CASE loaded = LoadFromFile(c, taken)
    BY <1>1, <1>2, LoadKeepsMentions, CountFacts
  <1>3. CASE FlagsOnly(c) /\ loaded = FromCommandLine(c, taken) /\ CountOf(c.accounts, Incomplete) # 0
    <2>1. loaded = [taken |-> taken, accounts |-> <<>>]
      BY <1>3 DEF FromCommandLine
    <2>2. PICK i \in DOMAIN c.accounts : c.accounts[i].id = Incomplete
      BY <1>1, <1>3, CountFacts
    <2>3. \A j \in DOMAIN c.accounts : j = i
      BY <1>1, <1>3, <2>2 DEF FlagsOnly
    <2>4. \A id \in Identities : CountOf(c.accounts, id) = 0
      <3>1. \A id \in Identities : id # Incomplete
        BY BootAssumption
      <3>2. \A id \in Identities : \A j \in DOMAIN c.accounts : c.accounts[j].id # id
        BY <2>2, <2>3, <3>1
      <3> QED
        BY <1>1, <3>2, CountFacts
    <2>5. loaded.accounts = <<>> /\ loaded \in Loaded
      BY <2>1 DEF Loaded
    <2>6. \A id \in Identities : CountOf(<<>>, id) = 0
      BY <1>1, CountFacts
    <2> QED
      BY <2>4, <2>5, <2>6
  <1>4. CASE loaded = FromCommandLine(c, taken) /\ CountOf(c.accounts, Incomplete) = 0
    BY <1>1, <1>4, LoadKeepsMentions, CountFacts DEF FromCommandLine
  <1> QED
    BY <1>2, <1>3, <1>4

\* The accounts `s' once the i-th has the password p, and what stays the same.
SameButPassword(t, s, i, p) ==
  /\ \A j \in DOMAIN s : t[j].password = IF j = i THEN p ELSE s[j].password
  /\ \A id \in Identities : CountOf(t, id) = CountOf(s, id)
WithPassword(s, i, p) == [s EXCEPT ![i].password = p]

\* Giving an account a password does not change whose it is.
LEMMA PasswordGiven ==
  ASSUME NEW s \in Seq(BootAccount), NEW i \in DOMAIN s, NEW p \in {"given", ""},
         NEW t, t = WithPassword(s, i, p)
  PROVE  /\ t \in Seq(BootAccount) /\ DOMAIN t = DOMAIN s
         /\ SameButPassword(t, s, i, p)
  <1>1. DOMAIN s = 1..Len(s) /\ Len(s) \in Nat /\ \A j \in DOMAIN s : s[j] \in BootAccount
    BY ElementTyped
  <1>2. LET u == [s[i] EXCEPT !.password = p]
        IN u \in BootAccount /\ u.id = s[i].id /\ u.password = p
    BY <1>1 DEF BootAccount
  <1>3. DOMAIN t = DOMAIN s /\ \A j \in DOMAIN s : t[j] = IF j = i THEN [s[i] EXCEPT !.password = p] ELSE s[j]
    BY DEF WithPassword
  <1>4. t = [j \in 1..Len(s) |-> t[j]]
    BY <1>1 DEF WithPassword
  <1>5. t \in [1..Len(s) -> BootAccount]
    <2>1. \A j \in 1..Len(s) : t[j] \in BootAccount
      BY <1>1, <1>2, <1>3
    <2> QED
      BY <1>4, <2>1
  <1>6. t \in Seq(BootAccount)
    <2>1. Len(s) \in Nat
      BY <1>1
    <2> QED
      BY <1>5, <2>1, FunctionIsSeq
  <1>7. \A j \in DOMAIN s : t[j].id = s[j].id
    BY <1>2, <1>3
  <1>8. ASSUME NEW id \in Identities PROVE CountOf(t, id) = CountOf(s, id)
    <2>1. {j \in DOMAIN t : t[j].id = id} = {j \in DOMAIN s : s[j].id = id}
      BY <1>3, <1>7
    <2> QED
      BY <2>1 DEF CountOf
  <1> QED
    BY <1>2, <1>3, <1>6, <1>8 DEF SameButPassword

\* A layer is merged.
LEMMA MergeLayerKeeps ==
  ASSUME BootInv, NEW c \in LayerContents, MergeLayer(c)
  PROVE  BootInv'
  <1> DEFINE l == layer + 1
             loaded == IF l = CommandLine THEN FromCommandLine(c, stdinTaken) ELSE LoadFromFile(c, stdinTaken)
  <1>1. /\ l \in Layers /\ (l = CommandLine => FlagsOnly(c))
        /\ bootConfig' = MergeInto(bootConfig, [c EXCEPT !.accounts = loaded.accounts])
        /\ stdinTaken' = loaded.taken
        /\ asked' = [named |-> [i \in Identities |-> asked.named[i] + CountOf(c.accounts, i)],
                     scalar |-> IF c.scalar # Unset THEN c.scalar ELSE asked.scalar,
                     replace |-> asked.replace \/ c.replace]
        /\ layer' = IF l = CommandLine THEN Applying ELSE l
        /\ UNCHANGED <<bootAccounts, before>>
    BY DEF MergeLayer
  <1>2. layer \in 0..4
    BY <1>1 DEF BootInv, BootTypeOK, Layers
  <1>3. stdinTaken \in BOOLEAN
    BY DEF BootInv, BootTypeOK
  <1>4. loaded \in Loaded /\ \A id \in Identities :
          CountOf(c.accounts, id) \in Nat /\ CountOf(loaded.accounts, id) = CountOf(c.accounts, id)
    <2>1. loaded = LoadFromFile(c, stdinTaken) \/ (FlagsOnly(c) /\ loaded = FromCommandLine(c, stdinTaken))
      BY <1>1
    <2> HIDE DEF loaded
    <2> QED
      BY <1>3, <2>1, LayerFacts
  <1> HIDE DEF loaded
  <1>5. c.scalar \in Scalars /\ c.replace \in BOOLEAN
    BY DEF LayerContents, Scalars
  <1>6. /\ bootConfig'.accounts = bootConfig.accounts \o loaded.accounts
        /\ bootConfig'.scalar = LaterWins(bootConfig.scalar, c.scalar)
        /\ bootConfig'.replace = (bootConfig.replace \/ c.replace)
        /\ bootConfig' = [accounts |-> bootConfig'.accounts, scalar |-> bootConfig'.scalar,
                          replace |-> bootConfig'.replace]
    <2> DEFINE d == [c EXCEPT !.accounts = loaded.accounts]
    <2>1. d.accounts = loaded.accounts /\ d.scalar = c.scalar /\ d.replace = c.replace
      BY DEF LayerContents
    <2>2. bootConfig' = MergeInto(bootConfig, d)
      BY <1>1
    <2> HIDE DEF d
    <2> QED
      BY <2>1, <2>2 DEF MergeInto
  <1>7. /\ bootConfig.accounts \in Seq(BootAccount) /\ loaded.accounts \in Seq(BootAccount)
        /\ bootConfig.scalar \in Scalars /\ bootConfig.replace \in BOOLEAN
        /\ asked.named \in [Identities -> Nat] /\ asked.scalar \in Scalars /\ asked.replace \in BOOLEAN
        /\ bootAccounts \in Seq(BootAccount) /\ before \in Seq(BootAccount)
    BY <1>4 DEF BootInv, BootTypeOK, Loaded
  <1>8. \A id \in Identities :
          /\ CountOf(bootConfig'.accounts, id) = asked'.named[id]
          /\ asked'.named[id] \in Nat
    <2> SUFFICES ASSUME NEW id \in Identities
                 PROVE  /\ CountOf(bootConfig'.accounts, id) = asked'.named[id]
                        /\ asked'.named[id] \in Nat
      OBVIOUS
    <2>1. CountOf(bootConfig'.accounts, id) = CountOf(bootConfig.accounts, id) + CountOf(loaded.accounts, id)
      BY <1>6, <1>7, CountOfBoth
    <2>2. CountOf(bootConfig.accounts, id) = asked.named[id]
      BY <1>2 DEF BootInv, Merging, CommandLine
    <2>3. asked'.named[id] = asked.named[id] + CountOf(c.accounts, id)
      BY <1>1
    <2>4. asked.named[id] \in Nat
      BY <1>7
    <2> QED
      BY <1>4, <2>1, <2>2, <2>3, <2>4
  <1>9. layer' \in 1..Applying /\ layer' # Booted
    BY <1>1, <1>2 DEF Applying, Booted
  <1>10. BootTypeOK'
    <2>1. bootConfig'.accounts \in Seq(BootAccount)
      BY <1>6, <1>7
    <2>2. bootConfig'.scalar \in Scalars /\ bootConfig'.replace \in BOOLEAN
      BY <1>5, <1>6, <1>7 DEF LaterWins
    <2>3. bootConfig' \in [accounts : Seq(BootAccount), scalar : Scalars, replace : BOOLEAN]
      BY <1>6, <2>1, <2>2
    <2>4. asked' \in [named : [Identities -> Nat], scalar : Scalars, replace : BOOLEAN]
      <3>1. [i \in Identities |-> asked.named[i] + CountOf(c.accounts, i)] \in [Identities -> Nat]
        BY <1>4, <1>7
      <3> QED
        BY <1>1, <1>5, <1>7, <3>1
    <2>5. stdinTaken' \in BOOLEAN
      BY <1>1, <1>4 DEF Loaded
    <2> QED
      BY <1>1, <1>7, <1>9, <2>3, <2>4, <2>5 DEF BootTypeOK, Applying, Booted
  <1>11. bootConfig'.scalar = asked'.scalar /\ bootConfig'.replace = asked'.replace
    BY <1>1, <1>6 DEF BootInv, LaterWins
  <1>12. bootAccounts = before
    BY <1>2 DEF BootInv, Merging, CommandLine
  <1>13. Merging'
    BY <1>1, <1>8, <1>12 DEF Merging
  <1>14. \A id \in Identities : Applied(id)'
    <2> SUFFICES ASSUME NEW id \in Identities PROVE Applied(id)'
      OBVIOUS
    <2>1. CountOf(before, id) \in Nat
      BY <1>7, CountFacts
    <2> QED
      BY <1>1, <1>8, <1>12, <2>1 DEF Applied
  <1>15. PasswordsKept'
    BY <1>1 DEF BootInv, PasswordsKept
  <1> QED
    BY <1>9, <1>10, <1>11, <1>13, <1>14, <1>15 DEF BootInv

\* One of the accounts named is applied.
LEMMA ApplyAccountKeeps ==
  ASSUME BootInv, ApplyAccount
  PROVE  BootInv'
  <1> DEFINE a == Head(bootConfig.accounts)
             existing == IF bootConfig.replace THEN FindExisting(a.id) ELSE {}
             first == CHOOSE i \in existing : \A j \in existing : i <= j
  <1>1. /\ layer = Applying /\ bootConfig.accounts # <<>>
        /\ bootAccounts' = IF existing = {} THEN Append(bootAccounts, a)
                           ELSE [bootAccounts EXCEPT ![first].password = IF a.password = "" THEN @ ELSE a.password]
        /\ bootConfig' = [bootConfig EXCEPT !.accounts = Tail(@)]
        /\ UNCHANGED <<layer, asked, stdinTaken, before>>
    BY Zenon DEF ApplyAccount
  <1>2. /\ bootConfig \in [accounts : Seq(BootAccount), scalar : Scalars, replace : BOOLEAN]
        /\ bootConfig.accounts \in Seq(BootAccount)
        /\ bootAccounts \in Seq(BootAccount) /\ before \in Seq(BootAccount)
        /\ asked.named \in [Identities -> Nat] /\ asked.replace = bootConfig.replace
    BY DEF BootInv, BootTypeOK
  <1>3. a \in BootAccount /\ Tail(bootConfig.accounts) \in Seq(BootAccount)
    BY <1>1, <1>2, HeadTailTyped
  <1>4. a.id \in Identities /\ a.password \in {"given", ""}
    BY <1>3 DEF BootAccount
  <1>5. /\ bootConfig'.accounts = Tail(bootConfig.accounts) /\ bootConfig'.scalar = bootConfig.scalar
        /\ bootConfig'.replace = bootConfig.replace
        /\ bootConfig' \in [accounts : Seq(BootAccount), scalar : Scalars, replace : BOOLEAN]
    BY <1>1, <1>2, <1>3
  <1>6. \A id \in Identities :
          /\ CountOf(bootConfig.accounts, id) = CountOf(bootConfig'.accounts, id) + IF a.id = id THEN 1 ELSE 0
          /\ CountOf(bootConfig'.accounts, id) \in Nat
          /\ CountOf(before, id) \in Nat /\ CountOf(bootAccounts, id) \in Nat
    <2> DEFINE left == bootConfig.accounts  rest == Tail(left)
    <2>1. left \in Seq(BootAccount) /\ left # <<>> /\ rest \in Seq(BootAccount) /\ a = Head(left)
      BY <1>1, <1>2, <1>3 DEF a
    <2>2. \A id : /\ CountOf(left, id) = CountOf(rest, id) + IF a.id = id THEN 1 ELSE 0
                  /\ CountOf(rest, id) \in Nat
      <3> HIDE DEF left, a
      <3>1. ASSUME NEW id
            PROVE  /\ CountOf(left, id) = CountOf(Tail(left), id) + IF Head(left).id = id THEN 1 ELSE 0
                   /\ CountOf(Tail(left), id) \in Nat
        <4> HIDE DEF rest
        <4>1. CountOf(left, id) = CountOf(Tail(left), id) + IF Head(left).id = id THEN 1 ELSE 0
          BY <2>1, CountFacts
        <4>2. CountOf(rest, id) \in Nat
          BY <2>1, CountFacts
        <4> QED
          BY <4>1, <4>2 DEF rest
      <3> QED
        BY <2>1, <3>1
    <2>3. \A id : CountOf(before, id) \in Nat /\ CountOf(bootAccounts, id) \in Nat
      BY <1>2, CountFacts
    <2> QED
      BY <1>5, <2>2, <2>3
  <1> HIDE DEF a
  <1>7. layer' = Applying /\ layer' # Booted /\ layer' \notin 0..CommandLine /\ layer' \in 0..Booted
    <2>1. layer' = Applying
      BY <1>1
    <2> QED
      BY <2>1 DEF Applying, Booted, CommandLine
  <1>8. Merging' /\ bootConfig'.scalar = asked'.scalar /\ bootConfig'.replace = asked'.replace
    BY <1>1, <1>5, <1>7 DEF BootInv, Merging
  <1>9. stdinTaken \in BOOLEAN /\ asked \in [named : [Identities -> Nat], scalar : Scalars, replace : BOOLEAN]
    BY DEF BootInv, BootTypeOK
  <1>10. CASE existing = {}
    <2>1. bootAccounts' = Append(bootAccounts, a)
      BY <1>1, <1>10
    <2>2. bootAccounts' \in Seq(BootAccount) /\ DOMAIN bootAccounts \subseteq DOMAIN bootAccounts'
          /\ \A i \in DOMAIN bootAccounts : bootAccounts'[i] = bootAccounts[i]
      BY <1>2, <1>3, <2>1
    <2>3. \A id \in Identities : CountOf(bootAccounts', id) = CountOf(bootAccounts, id) + IF a.id = id THEN 1 ELSE 0
      BY <1>2, <1>3, <2>1, CountFacts
    <2>4. bootConfig.replace => CountOf(bootAccounts, a.id) = 0
      <3>1. bootConfig.replace => \A i \in DOMAIN bootAccounts : bootAccounts[i].id # a.id
        BY <1>10 DEF FindExisting
      <3> QED
        BY <1>2, <3>1, CountFacts
    <2>5. ASSUME NEW id \in Identities PROVE Applied(id)'
      <3>1. Applied(id) /\ asked' = asked /\ before' = before /\ asked.named[id] \in Nat
        BY <1>1, <1>2 DEF BootInv
      <3>2. CASE a.id # id
        BY <1>6, <2>3, <3>1, <3>2 DEF Applied
      <3>3. CASE a.id = id
        <4>1. /\ CountOf(bootConfig.accounts, id) = CountOf(bootConfig'.accounts, id) + 1
              /\ CountOf(bootAccounts', id) = CountOf(bootAccounts, id) + 1
          BY <1>6, <2>3, <3>3
        <4>2. asked.replace => CountOf(bootAccounts, id) = 0
          BY <1>2, <2>4, <3>3
        <4> QED
          BY <1>6, <3>1, <4>1, <4>2 DEF Applied
      <3> QED
        BY <3>2, <3>3
    <2>6. PasswordsKept'
      BY <1>1, <2>2 DEF BootInv, PasswordsKept
    <2>7. BootTypeOK'
      BY <1>1, <1>2, <1>5, <1>7, <1>9, <2>2 DEF BootTypeOK
    <2> QED
      BY <1>7, <1>8, <2>5, <2>6, <2>7 DEF BootInv
  <1>11. CASE existing # {}
    <2>1. existing \in SUBSET Nat /\ \A i \in existing : i \in DOMAIN bootAccounts /\ bootAccounts[i].id = a.id
      BY <1>2 DEF FindExisting
    <2>2. first \in existing
      BY <1>11, <2>1, LeastFacts
    <2> HIDE DEF first
    <2> DEFINE p == IF a.password = "" THEN bootAccounts[first].password ELSE a.password
    <2>3. first \in DOMAIN bootAccounts /\ bootAccounts[first].id = a.id /\ bootConfig.replace
      BY <1>11, <2>1, <2>2
    <2>4. bootAccounts' = WithPassword(bootAccounts, first, p)
      BY <1>1, <1>11 DEF WithPassword
    <2>5. p \in {"given", ""} /\ (bootAccounts[first].password = "given" => p = "given")
      <3>1. bootAccounts[first] \in BootAccount
        BY <1>2, <2>3
      <3> QED
        BY <1>4, <3>1 DEF BootAccount
    <2> HIDE DEF p, existing
    <2>6. /\ bootAccounts' \in Seq(BootAccount) /\ DOMAIN bootAccounts' = DOMAIN bootAccounts
          /\ \A j \in DOMAIN bootAccounts :
               bootAccounts'[j].password = IF j = first THEN p ELSE bootAccounts[j].password
          /\ \A id \in Identities : CountOf(bootAccounts', id) = CountOf(bootAccounts, id)
      <3> DEFINE t == WithPassword(bootAccounts, first, p)
      <3>1. t = WithPassword(bootAccounts, first, p)
        OBVIOUS
      <3> HIDE DEF t
      <3>2. /\ t \in Seq(BootAccount) /\ DOMAIN t = DOMAIN bootAccounts
            /\ SameButPassword(t, bootAccounts, first, p)
        <4>1. bootAccounts \in Seq(BootAccount) /\ first \in DOMAIN bootAccounts /\ p \in {"given", ""}
          BY <1>2, <2>3, <2>5
        <4> QED
          BY <3>1, <4>1, PasswordGiven
      <3>3. bootAccounts' = t
        BY <2>4, <3>1
      <3> QED
        BY <3>2, <3>3 DEF SameButPassword
    <2>7. CountOf(bootAccounts, a.id) # 0
      BY <1>2, <2>3, CountFacts
    <2>8. ASSUME NEW id \in Identities PROVE Applied(id)'
      <3>1. Applied(id) /\ asked' = asked /\ before' = before /\ asked.named[id] \in Nat
        BY <1>1, <1>2 DEF BootInv
      <3>2. CASE a.id # id
        BY <1>6, <2>6, <3>1, <3>2 DEF Applied
      <3>3. CASE a.id = id
        BY <1>2, <1>6, <2>3, <2>6, <2>7, <3>1, <3>3 DEF Applied
      <3> QED
        BY <3>2, <3>3
    <2>9. PasswordsKept'
      <3> SUFFICES ASSUME NEW i \in DOMAIN before
                   PROVE  i \in DOMAIN bootAccounts' /\ (before[i].password = "given" => bootAccounts'[i].password = "given")
        BY <1>1 DEF PasswordsKept
      <3>1. i \in DOMAIN bootAccounts /\ (before[i].password = "given" => bootAccounts[i].password = "given")
        BY DEF BootInv, PasswordsKept
      <3> QED
        BY <2>5, <2>6, <3>1
    <2>10. BootTypeOK'
      BY <1>1, <1>2, <1>5, <1>7, <1>9, <2>6 DEF BootTypeOK
    <2> QED
      BY <1>7, <1>8, <2>8, <2>9, <2>10 DEF BootInv
  <1> QED
    BY <1>10, <1>11

\* Before the first layer.
LEMMA NothingTyped ==
  /\ NothingAsked \in [named : [Identities -> Nat], scalar : Scalars, replace : BOOLEAN]
  /\ NoConfig \in [accounts : Seq(BootAccount), scalar : Scalars, replace : BOOLEAN]
  /\ 0 \in 0..Booted /\ FALSE \in BOOLEAN
  <1>1. [i \in Identities |-> 0] \in [Identities -> Nat] /\ <<>> \in Seq(BootAccount) /\ Unset \in Scalars
    BY DEF Scalars
  <1> QED
    BY <1>1 DEF NothingAsked, NoConfig, Booted

\* After every launch, whatever the files and the flags name and however often it
\* was launched before: the last scalar given counts, every identity is there as often
\* as its mentions or --replace-account say, and no password is lost.
THEOREM BootIsApplied == BootSpec => []BootApplied
  <1>1. BootInit => BootInv
    <2> SUFFICES ASSUME BootInit PROVE BootInv
      OBVIOUS
    <2>1. CountOf(<<>>, 0) = 0 /\ \A id \in Identities : CountOf(<<>>, id) = 0
      <3>1. <<>> \in Seq(BootAccount)
        OBVIOUS
      <3> QED
        BY <3>1, CountFacts
    <2>2. <<>> \in Seq(BootAccount) /\ DOMAIN <<>> = {}
      OBVIOUS
    <2>3. BootTypeOK
      BY <2>2, NothingTyped DEF BootInit, BootTypeOK
    <2>4. \A id \in Identities : Applied(id)
      BY <2>1 DEF BootInit, Applied, NothingAsked, NoConfig
    <2> QED
      BY <2>1, <2>2, <2>3, <2>4 DEF BootInit, BootInv, Merging, PasswordsKept, NothingAsked, NoConfig, Booted
  <1>2. BootInv /\ [BootNext]_bootVars => BootInv'
    <2> SUFFICES ASSUME BootInv, [BootNext]_bootVars PROVE BootInv'
      OBVIOUS
    <2>1. ASSUME NEW c \in LayerContents, MergeLayer(c) PROVE BootInv'
      BY <2>1, MergeLayerKeeps
    <2>2. CASE ApplyAccount
      BY <2>2, ApplyAccountKeeps
    <2>3. CASE FinishBoot
      <3>1. layer' = Booted /\ layer' \notin 0..CommandLine /\ layer' \in 0..Booted
            /\ bootConfig.accounts = <<>> /\ UNCHANGED <<asked, bootConfig, stdinTaken, bootAccounts, before>>
        BY <2>3 DEF FinishBoot, Booted, CommandLine
      <3>2. \A id \in Identities : Applied(id)'
        BY <3>1 DEF BootInv, Applied
      <3>3. BootTypeOK' /\ Merging' /\ PasswordsKept'
        BY <3>1 DEF BootInv, BootTypeOK, Merging, PasswordsKept
      <3> QED
        BY <3>1, <3>2, <3>3 DEF BootInv
    <2>4. CASE Reboot
      <3>1. /\ layer' = 0 /\ asked' = NothingAsked /\ bootConfig' = NoConfig /\ stdinTaken' = FALSE
            /\ before' = bootAccounts /\ bootAccounts' = bootAccounts
        BY <2>4 DEF Reboot
      <3>2. <<>> \in Seq(BootAccount) /\ bootAccounts \in Seq(BootAccount)
        BY DEF BootInv, BootTypeOK
      <3>3. \A id \in Identities : CountOf(<<>>, id) = 0 /\ CountOf(bootAccounts, id) \in Nat
        BY <3>2, CountFacts
      <3>4. BootTypeOK'
        BY <3>1, <3>2, NothingTyped DEF BootTypeOK
      <3>5. \A id \in Identities : Applied(id)'
        BY <3>1, <3>3 DEF Applied, NothingAsked, NoConfig
      <3>6. Merging' /\ PasswordsKept' /\ layer' # Booted
        BY <3>1, <3>3 DEF Merging, PasswordsKept, NothingAsked, NoConfig, Booted
      <3> QED
        BY <3>1, <3>4, <3>5, <3>6 DEF BootInv, NothingAsked, NoConfig
    <2>5. CASE UNCHANGED bootVars
      BY <2>5 DEF bootVars, BootInv, BootTypeOK, Merging, Applied, PasswordsKept
    <2> QED
      BY <2>1, <2>2, <2>3, <2>4, <2>5 DEF BootNext
  <1>3. BootInv => BootApplied
    <2> SUFFICES ASSUME BootInv, layer = Booted, NEW id \in Identities
                 PROVE  CountOf(bootAccounts, id) =
                          IF ~asked.replace THEN CountOf(before, id) + asked.named[id]
                          ELSE IF CountOf(before, id) = 0 /\ asked.named[id] > 0 THEN 1 ELSE CountOf(before, id)
      BY DEF BootApplied, BootInv, PasswordsKept
    <2>1. bootConfig.accounts = <<>> /\ before \in Seq(BootAccount) /\ bootAccounts \in Seq(BootAccount)
          /\ asked.named[id] \in Nat /\ asked.replace \in BOOLEAN
      BY DEF BootInv, BootTypeOK
    <2>2. CountOf(bootConfig.accounts, id) = 0 /\ CountOf(before, id) \in Nat /\ CountOf(bootAccounts, id) \in Nat
      BY <2>1, CountFacts
    <2> QED
      BY <2>1, <2>2 DEF BootInv, Applied
  <1> QED
    BY <1>1, <1>2, <1>3, PTL DEF BootSpec

-----------------------------------------------------------------------------
(* The messages.                                                           *)

MessagesSpec == MessagesInit /\ [][MessagesNext]_messagesVars

\* The views are what their queries return for the table of the moment.
MessagesInv ==
  /\ messages \in Seq(Message) /\ inbox \in Seq(Peers) /\ m_peer \in Peers \cup {NoPeer}
  /\ m_thread = IF m_peer = NoPeer THEN <<>> ELSE ListByPeer(messages, m_peer)
  /\ m_summaries = ConversationSummaries(messages)
  /\ badge = UnreadCount(messages)

\* The newest message of a conversation, as SelectLastInSeq finds it.
LEMMA SummaryFacts ==
  ASSUME NEW table \in Seq(Message), NEW p \in Peers
  PROVE  LET s == ConversationSummaries(table)[p] IN
         /\ s.last = 0 <=> \A i \in DOMAIN table : table[i].peer # p
         /\ \A i \in DOMAIN table : table[i].peer = p => i <= s.last
         /\ s.unread <=> \E i \in DOMAIN table : table[i].peer = p /\ table[i].incoming /\ ~table[i].read
  <1> DEFINE S == {i \in 1..Len(table) : table[i].peer = p}
             last == SelectLastInSeq(table, LAMBDA m : m.peer = p)
             anyUnread == \E i \in DOMAIN table : table[i].peer = p /\ table[i].incoming /\ ~table[i].read
  <1>1. ConversationSummaries(table)[p] = [last |-> last, unread |-> anyUnread]
    BY DEF ConversationSummaries
  <1>2. last = IF S # {} THEN Max(S) ELSE 0
    BY DEF SelectLastInSeq
  <1>3. DOMAIN table = 1..Len(table) /\ Len(table) \in Nat
    OBVIOUS
  <1>4. S # {} => Max(S) \in S /\ \A i \in S : Max(S) >= i
    <2>1. S \in SUBSET (0..Len(table))
      BY <1>3
    <2> QED
      BY <1>3, <2>1, MaxFacts
  <1>5. last = 0 <=> \A i \in DOMAIN table : table[i].peer # p
    BY <1>2, <1>3, <1>4
  <1>6. \A i \in DOMAIN table : table[i].peer = p => i <= last
    BY <1>2, <1>3, <1>4
  <1>7. ConversationSummaries(table)[p].last = last /\ ConversationSummaries(table)[p].unread = anyUnread
    <2> HIDE DEF last, anyUnread
    <2> QED
      BY <1>1
  <1>8. ConversationSummaries(table)[p].unread <=> anyUnread
    BY <1>7, Zenon
  <1> HIDE DEF last
  <1> QED
    BY <1>5, <1>6, <1>7, <1>8, Zenon

\* The badge is zero exactly when no received message is unread.
LEMMA UnreadFacts ==
  ASSUME NEW table \in Seq(Message)
  PROVE  UnreadCount(table) = 0 <=> \A i \in DOMAIN table : ~(table[i].incoming /\ ~table[i].read)
  <1> DEFINE U == {i \in DOMAIN table : table[i].incoming /\ ~table[i].read}
  <1>1. IsFiniteSet(1..Len(table)) /\ DOMAIN table = 1..Len(table)
    BY FS_Interval
  <1>2. IsFiniteSet(U)
    <2>1. U \in SUBSET (1..Len(table))
      BY <1>1
    <2> QED
      BY <1>1, <2>1, FS_Subset
  <1>3. Cardinality(U) = 0 <=> U = {}
    BY <1>2, FS_EmptySet
  <1> QED
    BY <1>3 DEF UnreadCount

\* Views that are their queries' results show what the table holds.
LEMMA ViewsShowTheTable ==
  ASSUME MessagesInv
  PROVE  MessagesViewsCurrent
  <1>1. messages \in Seq(Message) /\ \A i \in DOMAIN messages : messages[i] \in Message
    BY DEF MessagesInv
  <1>2. ASSUME NEW p \in Peers
        PROVE  /\ m_summaries[p].last = 0 <=> \A i \in DOMAIN messages : messages[i].peer # p
               /\ \A i \in DOMAIN messages : messages[i].peer = p => i <= m_summaries[p].last
               /\ m_summaries[p].unread <=> \E i \in DOMAIN messages :
                    messages[i].peer = p /\ messages[i].incoming /\ ~messages[i].read
    BY <1>1, SummaryFacts DEF MessagesInv
  <1>3. ASSUME NEW p \in Peers, NEW m \in Message
        PROVE  m = [peer |-> p, incoming |-> TRUE, read |-> FALSE] <=> m.peer = p /\ m.incoming /\ ~m.read
    <2>1. m = [peer |-> m.peer, incoming |-> m.incoming, read |-> m.read]
          /\ m.incoming \in BOOLEAN /\ m.read \in BOOLEAN
      BY DEF Message
    <2> QED
      BY <2>1
  <1>4. \A p \in Peers : m_summaries[p].unread <=> \E i \in DOMAIN messages :
                            messages[i] = [peer |-> p, incoming |-> TRUE, read |-> FALSE]
    BY <1>1, <1>2, <1>3
  <1>5. badge = 0 <=> \A p \in Peers : ~m_summaries[p].unread
    <2>1. badge = 0 <=> \A i \in DOMAIN messages : ~(messages[i].incoming /\ ~messages[i].read)
      BY <1>1, UnreadFacts DEF MessagesInv
    <2>2. \A i \in DOMAIN messages : messages[i].peer \in Peers
      BY <1>1 DEF Message
    <2> QED
      BY <1>2, <2>1, <2>2
  <1> QED
    BY <1>2, <1>4, <1>5 DEF MessagesViewsCurrent, MessagesInv

\* A message appended, or an insert that failed, keeps the views current.
LEMMA AppendMessageKeeps ==
  ASSUME MessagesInv, NEW m \in Message, AppendMessage(m), m_peer' = m_peer, inbox' \in Seq(Peers)
  PROVE  MessagesInv'
  <1>1. CASE MessagesChanged(Append(messages, m), m_peer)
    <2>1. messages' = Append(messages, m) /\ messages' \in Seq(Message)
      BY <1>1 DEF MessagesChanged, MessagesInv
    <2> QED
      BY <1>1, <2>1 DEF MessagesChanged, MessagesInv
  <1>2. CASE UNCHANGED <<messages, m_thread, m_summaries, badge>>
    BY <1>2 DEF MessagesInv
  <1> QED
    BY <1>1, <1>2 DEF AppendMessage

\* Selecting a conversation, and marking it read, keeps them current.
LEMMA SelectConversationKeeps ==
  ASSUME MessagesInv, NEW p \in Peers, SelectConversation(p)
  PROVE  MessagesInv'
  <1> DEFINE shown == IF p = m_peer THEN m_thread ELSE ListByPeer(messages, p)
  <1>1. m_peer' = p /\ p # NoPeer /\ inbox' = inbox
    BY MessagesAssumption DEF SelectConversation
  <1>2. shown = ListByPeer(messages, p)
    BY <1>1 DEF MessagesInv
  <1>3. CASE messages' = messages /\ m_thread' = shown /\ UNCHANGED <<m_summaries, badge>>
    BY <1>1, <1>2, <1>3 DEF MessagesInv
  <1>4. CASE MessagesChanged(PeerRead(p), m_peer')
    <2>1. PeerRead(p) \in Seq(Message)
      <3>1. messages \in Seq(Message)
        BY DEF MessagesInv
      <3>2. ASSUME NEW m \in Message PROVE [m EXCEPT !.read = TRUE] \in Message
        BY DEF Message
      <3>3. \A i \in DOMAIN messages : messages[i] \in Message
        BY <3>1
      <3> QED
        BY <3>1, <3>2, <3>3 DEF PeerRead
    <2>2. messages' = PeerRead(p)
      BY <1>4 DEF MessagesChanged
    <2> QED
      BY <1>1, <1>4, <2>1, <2>2 DEF MessagesChanged, MessagesInv
  <1>5. MarkPeerRead(p, shown) => \/ messages' = messages /\ m_thread' = shown /\ UNCHANGED <<m_summaries, badge>>
                                  \/ MessagesChanged(PeerRead(p), m_peer')
    BY DEF MarkPeerRead
  <1> QED
    BY <1>3, <1>4, <1>5 DEF SelectConversation

\* Every step keeps the views current.
LEMMA MessagesStepKeeps ==
  ASSUME MessagesInv, [MessagesNext]_messagesVars
  PROVE  MessagesInv'
  <1>1. CASE \E p \in Peers : InstantMessageReceived(p)
    <2>1. PICK p \in Peers : InstantMessageReceived(p)
      BY <1>1
    <2>2. inbox' \in Seq(Peers)
      BY <2>1 DEF InstantMessageReceived, MessagesInv
    <2> QED
      BY <2>1, <2>2 DEF InstantMessageReceived, MessagesInv
  <1>2. CASE \E p \in Peers : SendMessage(p)
    <2>1. PICK p \in Peers : SendMessage(p)
      BY <1>2
    <2>2. [peer |-> p, incoming |-> FALSE, read |-> TRUE] \in Message
      BY DEF Message
    <2> QED
      BY <2>1, <2>2, AppendMessageKeeps DEF SendMessage, MessagesInv
  <1>3. CASE \E p \in Peers : SelectConversation(p)
    BY <1>3, SelectConversationKeeps
  <1>4. CASE AppendReceived
    <2>1. Head(inbox) \in Peers /\ inbox' \in Seq(Peers)
      BY <1>4 DEF AppendReceived, MessagesInv
    <2>2. [peer |-> Head(inbox), incoming |-> TRUE, read |-> FALSE] \in Message
      BY <2>1 DEF Message
    <2> QED
      BY <1>4, <2>1, <2>2, AppendMessageKeeps DEF AppendReceived
  <1>5. CASE RestartMessages
    BY <1>5 DEF RestartMessages, MessagesChanged, MessagesInv
  <1>6. CASE UNCHANGED messagesVars
    BY <1>6 DEF messagesVars, MessagesInv
  <1> QED
    BY <1>1, <1>2, <1>3, <1>4, <1>5, <1>6 DEF MessagesNext

\* For any peers, any number of messages and any limit of a thread: whatever is
\* received, sent and read, and whichever statement fails, the views show the table.
THEOREM ViewsAreCurrent == MessagesSpec => []MessagesViewsCurrent
  <1>1. MessagesInit => MessagesInv
    <2> SUFFICES ASSUME MessagesInit PROVE MessagesInv
      OBVIOUS
    <2>1. UnreadCount(<<>>) = 0
      <3>1. <<>> \in Seq(Message) /\ DOMAIN <<>> = {}
        OBVIOUS
      <3> QED
        BY <3>1, UnreadFacts
    <2> QED
      BY <2>1 DEF MessagesInit, MessagesInv
  <1>2. MessagesInv /\ [MessagesNext]_messagesVars => MessagesInv'
    BY MessagesStepKeeps
  <1>3. MessagesInv => MessagesViewsCurrent
    BY ViewsShowTheTable
  <1> QED
    BY <1>1, <1>2, <1>3, PTL DEF MessagesSpec

-----------------------------------------------------------------------------
(* The watched lines.                                                      *)

LinesSpec == LinesInit /\ [][LinesNext]_linesVars

Line == [account : LineAccounts \cup {NoAccountId}, watch : Watches \cup {kInvalidWatchId}, state : LineState]

LinesTypeOK ==
  /\ lineRows \in [LineIds -> LineAccounts \cup {NoAccountId}]
  /\ m_lines \in [LineIds -> Line]
  /\ boundAccounts \in SUBSET LineAccounts
  /\ liveWatches \in [Watches -> LineAccounts \cup {NoAccountId}]
  /\ nextWatch \in 1..(MaxWatch + 1)
  /\ linesUp \in BOOLEAN

\* While the program runs: handles are used once, every live watch has its line,
\* and every line its row.
WatchesOwned ==
  /\ \A w \in Watches : liveWatches[w] # NoAccountId =>
       \E l \in LineIds : m_lines[l].watch = w /\ m_lines[l].account = liveWatches[w]
  /\ \A l \in LineIds : m_lines[l].watch < nextWatch
  /\ \A l, k \in LineIds :
       m_lines[l].watch = m_lines[k].watch /\ m_lines[l].watch # kInvalidWatchId => l = k
  /\ \A l \in LineIds : m_lines[l] # NoLine =>
       m_lines[l].account # NoAccountId /\ lineRows[l] = m_lines[l].account
  /\ shownLines = m_lines

LinesInv ==
  /\ LinesTypeOK
  /\ linesUp => WatchesOwned
  /\ ~linesUp => \A w \in Watches : liveWatches[w] = NoAccountId

\* The parts of a line, and its equality with NoLine.
LEMMA LineFacts ==
  /\ NoLine \in Line /\ NoLine.account = NoAccountId /\ NoLine.watch = kInvalidWatchId
  /\ \A l \in Line : /\ l.account \in LineAccounts \cup {NoAccountId}
                     /\ l.watch \in 0..MaxWatch /\ l.state \in LineState
  <1>1. NoLine \in Line /\ NoLine.account = NoAccountId /\ NoLine.watch = kInvalidWatchId
    BY DEF Line, NoLine, LineState
  <1>2. Watches \cup {kInvalidWatchId} = 0..MaxWatch
    BY LinesAssumption DEF Watches, kInvalidWatchId
  <1>3. \A l \in Line : /\ l.account \in LineAccounts \cup {NoAccountId}
                        /\ l.watch \in Watches \cup {kInvalidWatchId} /\ l.state \in LineState
    BY DEF Line
  <1> QED
    BY <1>1, <1>2, <1>3

\* The invariant says what LinesOwnWatches says, and that a handle is used once.
LEMMA OwnedWatches ==
  ASSUME LinesInv
  PROVE  LinesOwnWatches
  <1>1. CASE linesUp
    <2>1. \A w \in Watches : liveWatches[w] # NoAccountId =>
            \E l \in Listed : /\ m_lines[l].watch = w /\ m_lines[l].account = liveWatches[w]
                              /\ \A k \in Listed \ {l} : m_lines[k].watch # w
      <3> SUFFICES ASSUME NEW w \in Watches, liveWatches[w] # NoAccountId
                   PROVE  \E l \in Listed : /\ m_lines[l].watch = w /\ m_lines[l].account = liveWatches[w]
                                            /\ \A k \in Listed \ {l} : m_lines[k].watch # w
        OBVIOUS
      <3>1. PICK l \in LineIds : m_lines[l].watch = w /\ m_lines[l].account = liveWatches[w]
        BY <1>1 DEF LinesInv, WatchesOwned
      <3>2. l \in Listed /\ w # kInvalidWatchId
        BY <3>1, LineFacts DEF Listed, Watches, kInvalidWatchId
      <3>3. \A k \in LineIds : m_lines[k].watch = w => k = l
        BY <1>1, <3>1, <3>2 DEF LinesInv, WatchesOwned
      <3> QED
        BY <3>1, <3>2, <3>3 DEF Listed
    <2>2. shownLines = m_lines /\ \A l \in Listed : lineRows[l] = m_lines[l].account
      BY <1>1 DEF LinesInv, WatchesOwned, Listed
    <2> QED
      BY <1>1, <2>1, <2>2 DEF LinesOwnWatches
  <1>2. CASE ~linesUp
    BY <1>2 DEF LinesInv, LinesOwnWatches
  <1> QED
    BY <1>1, <1>2

\* A new row's id is not in use.
LEMMA NewLineIsNew ==
  ASSUME LinesTypeOK, NEW l, l = 1 + Max({0} \cup {k \in LineIds : lineRows[k] # NoAccountId}), l \in LineIds
  PROVE  lineRows[l] = NoAccountId
  <1> DEFINE S == {0} \cup {k \in LineIds : lineRows[k] # NoAccountId}
  <1>1. S \in SUBSET (0..MaxLine) /\ S # {} /\ MaxLine \in Nat
    BY LinesAssumption DEF LineIds
  <1>2. Max(S) \in S /\ \A y \in S : Max(S) >= y
    BY <1>1, MaxFacts
  <1>3. l \notin S
    <2>1. Max(S) \in Nat /\ l = 1 + Max(S)
      BY <1>1, <1>2
    <2> HIDE DEF S
    <2> QED
      BY <1>2, <2>1
  <1> QED
    BY <1>3

\* A line entered into the list, with the next handle or without one.
LEMMA WatchEntryKeeps ==
  ASSUME LinesInv, linesUp, linesUp' = linesUp, boundAccounts' = boundAccounts,
         NEW l \in LineIds, NEW a \in LineAccounts, lineRows[l] = NoAccountId,
         lineRows' = [lineRows EXCEPT ![l] = a],
         WatchEntry(l, a), RefreshLines
  PROVE  LinesInv'
  <1> USE LineFacts, LinesAssumption
  <1>1. LinesTypeOK /\ WatchesOwned /\ m_lines[l] = NoLine
    BY DEF LinesInv, WatchesOwned
  <1>2. ASSUME NEW h \in Watches \cup {kInvalidWatchId},
               m_lines' = [m_lines EXCEPT ![l] = [account |-> a, watch |-> h, state |-> "Unknown"]],
               \/ h = nextWatch /\ nextWatch <= MaxWatch /\ liveWatches' = [liveWatches EXCEPT ![h] = a]
                  /\ nextWatch' = nextWatch + 1
               \/ h = kInvalidWatchId /\ UNCHANGED <<liveWatches, nextWatch>>
        PROVE  LinesInv'
    <2>1. [account |-> a, watch |-> h, state |-> "Unknown"] \in Line
      BY DEF Line, LineState
    <2>2. LinesTypeOK'
      <3>1. lineRows' \in [LineIds -> LineAccounts \cup {NoAccountId}] /\ m_lines' \in [LineIds -> Line]
        BY <1>1, <1>2, <2>1 DEF LinesTypeOK
      <3>2. liveWatches' \in [Watches -> LineAccounts \cup {NoAccountId}]
        BY <1>1, <1>2 DEF LinesTypeOK
      <3>3. nextWatch' \in 1..(MaxWatch + 1)
        BY <1>1, <1>2 DEF LinesTypeOK
      <3> QED
        BY <1>1, <3>1, <3>2, <3>3 DEF LinesTypeOK
    <2>3. /\ m_lines'[l].account = a /\ m_lines'[l].watch = h
          /\ \A k \in LineIds : k # l => m_lines'[k] = m_lines[k]
      BY <1>1, <1>2 DEF LinesTypeOK
    <2>4. /\ nextWatch \in Nat /\ nextWatch' \in Nat /\ nextWatch <= nextWatch'
          /\ h < nextWatch' /\ (h = kInvalidWatchId \/ h = nextWatch)
      BY <1>1, <1>2 DEF LinesTypeOK, kInvalidWatchId
    <2>5. \A k \in LineIds : m_lines[k] \in Line /\ m_lines[k].watch \in Nat /\ m_lines[k].watch < nextWatch
      BY <1>1 DEF LinesTypeOK, WatchesOwned
    <2>6. \A k \in LineIds : m_lines'[k].watch < nextWatch'
      BY <2>3, <2>4, <2>5
    <2>7. \A j, k \in LineIds :
            m_lines'[j].watch = m_lines'[k].watch /\ m_lines'[j].watch # kInvalidWatchId => j = k
      BY <1>1, <2>3, <2>4, <2>5 DEF WatchesOwned
    <2>8. \A w \in Watches : liveWatches'[w] # NoAccountId =>
            \E k \in LineIds : m_lines'[k].watch = w /\ m_lines'[k].account = liveWatches'[w]
      <3> SUFFICES ASSUME NEW w \in Watches, liveWatches'[w] # NoAccountId
                   PROVE  \E k \in LineIds : m_lines'[k].watch = w /\ m_lines'[k].account = liveWatches'[w]
        OBVIOUS
      <3>1. (w = h /\ liveWatches'[w] = a) \/ liveWatches'[w] = liveWatches[w]
        BY <1>1, <1>2 DEF LinesTypeOK
      <3>2. CASE w = h /\ liveWatches'[w] = a
        BY <2>3, <3>2
      <3>3. CASE liveWatches'[w] = liveWatches[w]
        <4>1. PICK k \in LineIds : m_lines[k].watch = w /\ m_lines[k].account = liveWatches[w]
          BY <1>1, <3>3 DEF WatchesOwned
        <4>2. k # l
          BY <1>1, <3>3, <4>1
        <4> QED
          BY <2>3, <3>3, <4>1, <4>2
      <3> QED
        BY <3>1, <3>2, <3>3
    <2>9. \A k \in LineIds : m_lines'[k] # NoLine =>
            m_lines'[k].account # NoAccountId /\ lineRows'[k] = m_lines'[k].account
      BY <1>1, <2>3 DEF WatchesOwned, LinesTypeOK
    <2> QED
      BY <2>2, <2>6, <2>7, <2>8, <2>9 DEF LinesInv, WatchesOwned, RefreshLines
  <1>3. nextWatch <= MaxWatch => nextWatch \in Watches
    BY <1>1 DEF LinesTypeOK, Watches
  <1> QED
    BY <1>2, <1>3 DEF WatchEntry

\* Removing a line removes its watch.
LEMMA RemoveLineKeeps ==
  ASSUME LinesInv, NEW l \in LineIds, RemoveLine(l)
  PROVE  LinesInv'
  <1> USE LineFacts
  <1>1. LinesTypeOK /\ WatchesOwned /\ linesUp /\ linesUp' = linesUp
    BY DEF LinesInv, RemoveLine
  <1>2. LinesTypeOK'
    BY <1>1 DEF LinesTypeOK, RemoveLine, Unwatched
  <1>3. /\ m_lines'[l] = NoLine /\ \A k \in LineIds : k # l => m_lines'[k] = m_lines[k]
        /\ \A k \in LineIds : k # l => lineRows'[k] = lineRows[k]
        /\ nextWatch' = nextWatch /\ shownLines' = m_lines'
    BY <1>1 DEF LinesTypeOK, RemoveLine, RefreshLines
  <1>4. \A k \in LineIds : m_lines[k].watch < nextWatch /\ 0 < nextWatch
    BY <1>1 DEF WatchesOwned, LinesTypeOK
  <1>5. \A w \in Watches : liveWatches'[w] # NoAccountId =>
          \E k \in LineIds : m_lines'[k].watch = w /\ m_lines'[k].account = liveWatches'[w]
    <2> SUFFICES ASSUME NEW w \in Watches, liveWatches'[w] # NoAccountId
                 PROVE  \E k \in LineIds : m_lines'[k].watch = w /\ m_lines'[k].account = liveWatches'[w]
      OBVIOUS
    <2>1. w # m_lines[l].watch /\ liveWatches'[w] = liveWatches[w]
      BY DEF RemoveLine, Unwatched
    <2>2. PICK k \in LineIds : m_lines[k].watch = w /\ m_lines[k].account = liveWatches[w]
      BY <1>1, <2>1 DEF WatchesOwned
    <2> QED
      BY <1>3, <2>1, <2>2
  <1>6. \A k \in LineIds : m_lines'[k].watch < nextWatch'
    BY <1>3, <1>4 DEF kInvalidWatchId
  <1>7. \A j, k \in LineIds :
          m_lines'[j].watch = m_lines'[k].watch /\ m_lines'[j].watch # kInvalidWatchId => j = k
    BY <1>1, <1>3 DEF WatchesOwned
  <1>8. \A k \in LineIds : m_lines'[k] # NoLine =>
          m_lines'[k].account # NoAccountId /\ lineRows'[k] = m_lines'[k].account
    BY <1>1, <1>3 DEF WatchesOwned
  <1> QED
    BY <1>1, <1>2, <1>3, <1>5, <1>6, <1>7, <1>8 DEF LinesInv, WatchesOwned

\* A presence event only changes a state.
LEMMA OnPresenceKeeps ==
  ASSUME LinesInv, NEW w \in Watches, NEW state \in LineState, OnPresence(w, state)
  PROVE  LinesInv'
  <1> USE LineFacts
  <1>1. LinesTypeOK /\ WatchesOwned /\ linesUp
        /\ UNCHANGED <<lineRows, boundAccounts, liveWatches, nextWatch, linesUp>> /\ shownLines' = m_lines'
    BY DEF LinesInv, OnPresence, RefreshLines
  <1>2. PICK l \in Listed : m_lines[l].watch = w /\ m_lines' = [m_lines EXCEPT ![l].state = state]
    BY DEF OnPresence
  <1>3. l \in LineIds /\ m_lines[l] \in Line /\ m_lines[l] # NoLine
    BY <1>1 DEF LinesTypeOK, Listed
  <1>4. [m_lines[l] EXCEPT !.state = state] \in Line
    BY <1>3 DEF Line
  <1>5. LinesTypeOK'
    BY <1>1, <1>2, <1>4 DEF LinesTypeOK
  <1>6. \A k \in LineIds : /\ m_lines'[k].watch = m_lines[k].watch /\ m_lines'[k].account = m_lines[k].account
                           /\ m_lines'[k] # NoLine => m_lines[k] # NoLine
    <2>1. m_lines'[l] = [m_lines[l] EXCEPT !.state = state]
          /\ \A k \in LineIds \ {l} : m_lines'[k] = m_lines[k]
      BY <1>1, <1>2, <1>3 DEF LinesTypeOK
    <2>2. m_lines'[l].watch = m_lines[l].watch /\ m_lines'[l].account = m_lines[l].account
      BY <1>3, <2>1 DEF Line
    <2> QED
      BY <1>3, <2>1, <2>2
  <1>7. WatchesOwned'
    BY <1>1, <1>6 DEF WatchesOwned
  <1> QED
    BY <1>1, <1>5, <1>7 DEF LinesInv

\* Accounts that are bound, or lose their binding and their watches with it.
LEMMA BindingKeeps ==
  ASSUME LinesInv, NEW a \in LineAccounts, BindAccount(a) \/ UnbindAccount(a)
  PROVE  LinesInv'
  <1>1. /\ LinesTypeOK /\ WatchesOwned /\ linesUp /\ UNCHANGED <<lineRows, m_lines, shownLines, nextWatch, linesUp>>
        /\ boundAccounts' \in SUBSET LineAccounts
    BY DEF LinesInv, LinesTypeOK, BindAccount, UnbindAccount
  <1>2. /\ liveWatches' \in [Watches -> LineAccounts \cup {NoAccountId}]
        /\ \A w \in Watches : liveWatches'[w] \in {liveWatches[w], NoAccountId}
    BY <1>1 DEF LinesTypeOK, BindAccount, UnbindAccount
  <1>3. LinesTypeOK'
    BY <1>1, <1>2 DEF LinesTypeOK
  <1>4. WatchesOwned'
    BY <1>1, <1>2 DEF WatchesOwned
  <1> QED
    BY <1>1, <1>3, <1>4 DEF LinesInv

\* The destructor leaves no watch.
LEMMA StopLinesKeeps ==
  ASSUME LinesInv, StopLines
  PROVE  LinesInv'
  <1>1. /\ LinesTypeOK /\ WatchesOwned /\ linesUp' = FALSE
        /\ UNCHANGED <<lineRows, m_lines, shownLines, boundAccounts, nextWatch>>
    BY DEF LinesInv, StopLines
  <1>2. \A w \in Watches : liveWatches'[w] = NoAccountId
    <2> SUFFICES ASSUME NEW w \in Watches, liveWatches[w] # NoAccountId
                 PROVE  \E l \in Listed : m_lines[l].watch = w
      BY DEF StopLines
    <2>1. PICK l \in LineIds : m_lines[l].watch = w /\ m_lines[l].account = liveWatches[w]
      BY <1>1 DEF WatchesOwned
    <2> QED
      BY <2>1, LineFacts DEF Listed
  <1>3. LinesTypeOK'
    BY <1>1 DEF LinesTypeOK, StopLines
  <1> QED
    BY <1>1, <1>2, <1>3 DEF LinesInv

\* Numbering the lines that get a watch, in the order of their ids, gives each its
\* own number from 1 to how many there are.
LEMMA NumberedOnce ==
  ASSUME NEW P \in SUBSET LineIds
  PROVE  LET n(l) == Cardinality({k \in P : k <= l}) IN
         /\ Cardinality(P) \in Nat
         /\ \A l \in P : n(l) \in 1..Cardinality(P)
         /\ \A l, m \in P : n(l) = n(m) => l = m
  <1> DEFINE upTo(l) == {k \in P : k <= l}
             n(l) == Cardinality(upTo(l))
  <1>1. IsFiniteSet(P) /\ P \subseteq Nat
    <2>1. IsFiniteSet(LineIds) /\ LineIds \subseteq Nat
      BY LinesAssumption, FS_Interval DEF LineIds
    <2> QED
      BY <2>1, FS_Subset
  <1>2. Cardinality(P) \in Nat
    BY <1>1, FS_CardinalityType
  <1>3. ASSUME NEW l \in P
        PROVE  IsFiniteSet(upTo(l)) /\ n(l) \in 1..Cardinality(P)
    <2>1. upTo(l) \in SUBSET P /\ l \in upTo(l)
      BY <1>1
    <2>2. IsFiniteSet(upTo(l)) /\ n(l) <= Cardinality(P)
      BY <1>1, <2>1, FS_Subset
    <2>3. n(l) \in Nat /\ n(l) # 0
      BY <2>1, <2>2, FS_CardinalityType, FS_EmptySet
    <2> HIDE DEF n
    <2> QED
      BY <1>2, <2>2, <2>3
  <1>4. ASSUME NEW l \in P, NEW m \in P, n(l) = n(m), l < m
        PROVE  FALSE
    <2>a. l < m
      BY <1>4
    <2>1. upTo(l) \in SUBSET upTo(m) /\ m \in upTo(m) /\ m \notin upTo(l)
      <3>1. l \in Nat /\ m \in Nat /\ m <= m /\ ~(m <= l) /\ \A k \in P : k <= l => k <= m
        BY <1>1, <2>a
      <3> QED
        BY <3>1
    <2>2. upTo(l) = upTo(m)
      BY <1>3, <1>4, <2>1, FS_Subset
    <2> QED
      BY <2>1, <2>2
  <1>5. ASSUME NEW l \in P, NEW m \in P, n(l) = n(m)
        PROVE  l = m
    <2>1. l \in Nat /\ m \in Nat
      BY <1>1
    <2>2. ~(l < m) /\ ~(m < l)
      BY <1>4, <1>5
    <2> QED
      BY <2>1, <2>2
  <1> QED
    BY <1>2, <1>3, <1>5

\* Starting, the lines get handles of their own.
LEMMA StartLinesKeeps ==
  ASSUME LinesInv, NEW bound \in SUBSET LineAccounts, NEW turned \in SUBSET LineIds, StartLines(bound, turned)
  PROVE  LinesInv'
  <1> USE LineFacts
  <1> DEFINE loaded == {l \in LineIds : lineRows[l] # NoAccountId}
             placed == {l \in loaded : lineRows[l] \in bound} \ turned
             n(l) == Cardinality({k \in placed : k <= l})
             WatchOf(l) == IF l \in placed THEN n(l) ELSE kInvalidWatchId
             N == Cardinality(placed)
  <1>1. /\ linesUp' = TRUE /\ N <= MaxWatch /\ boundAccounts' = bound /\ nextWatch' = N + 1
        /\ m_lines' = [l \in LineIds |-> IF l \in loaded
              THEN [account |-> lineRows[l], watch |-> WatchOf(l), state |-> "Unknown"] ELSE NoLine]
        /\ liveWatches' = [w \in Watches |-> IF \E l \in placed : WatchOf(l) = w
              THEN lineRows[CHOOSE l \in placed : WatchOf(l) = w] ELSE NoAccountId]
        /\ shownLines' = m_lines' /\ lineRows' = lineRows
    BY DEF StartLines, RefreshLines
  <1>2. LinesTypeOK /\ MaxWatch \in Nat
    BY LinesAssumption DEF LinesInv
  <1>3. placed \in SUBSET LineIds /\ placed \in SUBSET loaded /\ loaded \in SUBSET LineIds
    OBVIOUS
  <1>4. N \in Nat /\ (\A l \in placed : n(l) \in 1..N) /\ (\A l, m \in placed : n(l) = n(m) => l = m)
    BY <1>3, NumberedOnce
  <1>a. \A l \in LineIds : lineRows[l] \in LineAccounts \cup {NoAccountId}
    BY <1>2 DEF LinesTypeOK
  <1>b. \A l \in loaded : lineRows[l] # NoAccountId
    OBVIOUS
  <1>c. \A l \in LineIds : l \notin loaded => lineRows[l] = NoAccountId
    OBVIOUS
  <1> HIDE DEF n, N, placed, loaded
  <1>5. \A l \in placed : WatchOf(l) \in Watches /\ WatchOf(l) = n(l) /\ WatchOf(l) < N + 1
    BY <1>1, <1>2, <1>4 DEF Watches
  <1>6. \A l \in LineIds : WatchOf(l) \in Watches \cup {kInvalidWatchId} /\ WatchOf(l) < N + 1
    BY <1>4, <1>5 DEF kInvalidWatchId
  <1>7. \A l, m \in LineIds : WatchOf(l) = WatchOf(m) /\ WatchOf(l) # kInvalidWatchId => l = m
    BY <1>4
  <1> HIDE DEF WatchOf
  <1>8. \A l \in LineIds : [account |-> lineRows[l], watch |-> WatchOf(l), state |-> "Unknown"] \in Line
    BY <1>6, <1>a DEF Line, LineState
  <1>9. m_lines' \in [LineIds -> Line]
    BY <1>1, <1>8
  <1>10. \A l \in LineIds : IF l \in loaded
           THEN m_lines'[l].account = lineRows[l] /\ m_lines'[l].watch = WatchOf(l)
           ELSE m_lines'[l] = NoLine
    BY <1>1
  <1>11. \A w \in Watches : liveWatches'[w] # NoAccountId =>
           \E l \in placed : WatchOf(l) = w /\ liveWatches'[w] = lineRows[l]
    BY <1>1
  <1>12. liveWatches' \in [Watches -> LineAccounts \cup {NoAccountId}]
    <2>1. \A w \in Watches : liveWatches'[w] \in LineAccounts \cup {NoAccountId}
      BY <1>3, <1>11, <1>a
    <2> QED
      BY <1>1, <2>1
  <1>13. LinesTypeOK'
    <2>1. nextWatch' \in 1..(MaxWatch + 1)
      BY <1>1, <1>2, <1>4
    <2> QED
      BY <1>1, <1>2, <1>9, <1>12, <2>1 DEF LinesTypeOK
  <1>14. WatchesOwned'
    <2>1. \A w \in Watches : liveWatches'[w] # NoAccountId =>
            \E l \in LineIds : m_lines'[l].watch = w /\ m_lines'[l].account = liveWatches'[w]
      BY <1>3, <1>10, <1>11
    <2>2. \A l \in LineIds : m_lines'[l].watch < nextWatch'
      BY <1>1, <1>4, <1>6, <1>10 DEF kInvalidWatchId
    <2>3. \A l, k \in LineIds :
            m_lines'[l].watch = m_lines'[k].watch /\ m_lines'[l].watch # kInvalidWatchId => l = k
      BY <1>7, <1>10
    <2>4. \A l \in LineIds : m_lines'[l] # NoLine =>
            m_lines'[l].account # NoAccountId /\ lineRows'[l] = m_lines'[l].account
      BY <1>1, <1>10, <1>b
    <2> QED
      BY <1>1, <2>1, <2>2, <2>3, <2>4 DEF WatchesOwned
  <1> QED
    BY <1>1, <1>13, <1>14 DEF LinesInv

\* For any accounts, lines and watches, whatever is added, removed, bound again or
\* refused: every subscription the backend holds belongs to one listed line.
THEOREM SubscriptionsOwned == LinesSpec => []LinesOwnWatches
  <1>1. LinesInit => LinesInv
    <2> SUFFICES ASSUME LinesInit PROVE LinesInv
      OBVIOUS
    <2>1. LinesTypeOK
      <3>1. lineRows \in [LineIds -> LineAccounts \cup {NoAccountId}] /\ m_lines \in [LineIds -> Line]
        BY LineFacts DEF LinesInit
      <3>2. liveWatches \in [Watches -> LineAccounts \cup {NoAccountId}]
        BY DEF LinesInit
      <3>3. nextWatch \in 1..(MaxWatch + 1) /\ boundAccounts \in SUBSET LineAccounts
        BY LinesAssumption DEF LinesInit
      <3> QED
        BY <3>1, <3>2, <3>3 DEF LinesInit, LinesTypeOK
    <2> QED
      BY <2>1 DEF LinesInit, LinesInv
  <1>2. LinesInv /\ [LinesNext]_linesVars => LinesInv'
    <2> SUFFICES ASSUME LinesInv, [LinesNext]_linesVars PROVE LinesInv'
      OBVIOUS
    <2>1. ASSUME NEW a \in LineAccounts, AddLine(a) PROVE LinesInv'
      <3> DEFINE l == 1 + Max({0} \cup {k \in LineIds : lineRows[k] # NoAccountId})
      <3>1. /\ linesUp /\ l \in LineIds /\ lineRows' = [lineRows EXCEPT ![l] = a]
            /\ WatchEntry(l, a) /\ RefreshLines /\ UNCHANGED <<boundAccounts, linesUp>>
        BY <2>1 DEF AddLine
      <3>2. lineRows[l] = NoAccountId
        BY <3>1, NewLineIsNew DEF LinesInv
      <3> HIDE DEF l
      <3> QED
        BY <3>1, <3>2, WatchEntryKeeps
    <2>2. ASSUME NEW a \in LineAccounts, BindAccount(a) \/ UnbindAccount(a) PROVE LinesInv'
      BY <2>2, BindingKeeps
    <2>3. ASSUME NEW l \in LineIds, RemoveLine(l) PROVE LinesInv'
      BY <2>3, RemoveLineKeeps
    <2>4. ASSUME NEW w \in Watches, NEW state \in LineState, OnPresence(w, state) PROVE LinesInv'
      BY <2>4, OnPresenceKeeps
    <2>5. ASSUME NEW bound \in SUBSET LineAccounts, NEW turned \in SUBSET LineIds, StartLines(bound, turned)
          PROVE  LinesInv'
      BY <2>5, StartLinesKeeps
    <2>6. CASE StopLines
      BY <2>6, StopLinesKeeps
    <2>7. CASE UNCHANGED linesVars
      BY <2>7 DEF linesVars, LinesInv, LinesTypeOK, WatchesOwned
    <2> QED
      BY <2>1, <2>2, <2>3, <2>4, <2>5, <2>6, <2>7 DEF LinesNext
  <1>3. LinesInv => LinesOwnWatches
    BY OwnedWatches
  <1> QED
    BY <1>1, <1>2, <1>3, PTL DEF LinesSpec

=============================================================================
