---------------------------- MODULE FileKeychain ----------------------------
(***************************************************************************)
(* FileKeychain: the passwords of the accounts in one encrypted file, with *)
(* the key in a second one.  Both files are written beside the old one and *)
(* renamed over it; any write may fail and the program may crash in any.   *)
(*                                                                         *)
(* The store file is known by what its reader can do with it: its values,  *)
(* and whether a salt stands before them.                                  *)
(***************************************************************************)
EXTENDS Naturals

CONSTANTS KeychainRefs, Secrets

NoSecret == 0

ASSUME SecretsAssumption == NoSecret \notin Secrets

VARIABLES
  keyFile,        \* <path>.key exists
  storeFile,      \* the encrypted file, or NoStore
  keychainUp,     \* the program runs and has made its keychain
  m_masterKey,    \* the master key is loaded
  m_salt,         \* a salt is set
  m_store,        \* the passwords in memory
  unread,         \* history: a store that exists was not loaded
  promised        \* history: per reference, what may be found there

keychainVars == <<keyFile, storeFile, keychainUp, m_masterKey, m_salt, m_store, unread, promised>>

NoSecrets == [r \in KeychainRefs |-> NoSecret]
NoStore == [values |-> NoSecrets, salted |-> TRUE, exists |-> FALSE]

KeychainInit ==
  /\ keyFile = FALSE /\ storeFile = NoStore /\ keychainUp = FALSE
  /\ m_masterKey = FALSE /\ m_salt = FALSE /\ m_store = NoSecrets
  /\ unread = FALSE
  /\ promised = [r \in KeychainRefs |-> {NoSecret}]

\* deriveKey: takes an empty salt, never an empty master key.
DeriveKey(key) == key

\* encrypt: the file for these passwords, written under the salt in memory.
Encrypted(values, salt) == [values |-> values, salted |-> salt, exists |-> TRUE]

\* decrypt: the tag verifies only if the salt the key was derived from is found.
Decrypts(file) == file.salted

\* persist(): the new file beside the old one, then the rename, unless entropy,
\* the key or the disk fails.
Persist(values, ok) ==
  /\ ok => DeriveKey(m_masterKey)
  /\ storeFile' = IF ok THEN Encrypted(values, m_salt) ELSE storeFile

\* loadOrCreateMasterKey: reads the key file or mints one; `ok' tells whether
\* the disk allowed it.
LoadOrCreateMasterKey(ok) ==
  /\ keyFile' = (keyFile \/ ok)
  /\ m_masterKey' = ok

\* open(), with the key loaded: a fresh salt and an empty store when there is no
\* file, whose writing may fail; else the passwords of the file, if it can be
\* read.  A file that has lost its salt is either too short, or its first bytes
\* are taken for one.
OpenStore(ok) ==
  \/ /\ ~storeFile.exists
     /\ m_salt' = TRUE /\ m_store' = NoSecrets
     /\ storeFile' = IF ok THEN Encrypted(NoSecrets, TRUE) ELSE storeFile
     /\ UNCHANGED unread
  \/ /\ storeFile.exists
     /\ ok /\ Decrypts(storeFile)
     /\ m_salt' = TRUE /\ m_store' = storeFile.values
     /\ UNCHANGED <<storeFile, unread>>
  \/ /\ storeFile.exists
     /\ ~ok \/ ~Decrypts(storeFile)
     /\ m_salt' \in {FALSE, ok}
     /\ m_store' = NoSecrets /\ unread' = TRUE
     /\ UNCHANGED storeFile

\* makeKeychain: the keychain is used whatever open() says.
MakeKeychain ==
  /\ ~keychainUp /\ keychainUp' = TRUE
  /\ \E keyOk, storeOk \in BOOLEAN :
       /\ LoadOrCreateMasterKey(keyOk)
       /\ \/ keyOk /\ OpenStore(storeOk)
          \/ /\ ~keyOk
             /\ m_salt' = FALSE /\ m_store' = NoSecrets
             /\ UNCHANGED <<storeFile, unread>>
  /\ UNCHANGED promised

\* Mutant: the value stays in memory although it could not be written.
SetAnyway(r, v, ok) == [m_store EXCEPT ![r] = v]

\* The store in memory after set() or erase() put v at r: the previous value is
\* put back when persist() failed.
RolledBack(r, v, ok) == IF ok THEN [m_store EXCEPT ![r] = v] ELSE m_store

\* set(r, v), or erase(r) for v = NoSecret.
KeychainSet(r, v) ==
  /\ keychainUp
  /\ v = NoSecret => m_store[r] # NoSecret
  /\ \E ok \in BOOLEAN :
       /\ m_store' = RolledBack(r, v, ok)
       /\ Persist([m_store EXCEPT ![r] = v], ok)
       /\ promised' = IF ok THEN [promised EXCEPT ![r] = {v}] ELSE promised
  /\ UNCHANGED <<keyFile, keychainUp, m_masterKey, m_salt, unread>>

Forgotten == keychainUp' = FALSE /\ m_masterKey' = FALSE /\ m_salt' = FALSE /\ m_store' = NoSecrets

\* The program ends, between two calls.
KeychainExit == keychainUp /\ Forgotten /\ UNCHANGED <<keyFile, storeFile, unread, promised>>

\* The program crashes inside set() or erase(), before or after the rename; the
\* caller is never told.
CrashInSet(r, v) ==
  /\ keychainUp /\ Forgotten
  /\ v = NoSecret => m_store[r] # NoSecret
  /\ \E renamed \in BOOLEAN : Persist([m_store EXCEPT ![r] = v], renamed)
  /\ promised' = [promised EXCEPT ![r] = @ \cup {v}]
  /\ UNCHANGED <<keyFile, unread>>

\* The program crashes inside open(), after the key file was put in place.
CrashInOpen ==
  /\ ~keychainUp /\ ~keyFile /\ keyFile' = TRUE
  /\ UNCHANGED <<storeFile, keychainUp, m_masterKey, m_salt, m_store, unread, promised>>

KeychainNext ==
  \/ MakeKeychain
  \/ \E r \in KeychainRefs, v \in Secrets \cup {NoSecret} : KeychainSet(r, v) \/ CrashInSet(r, v)
  \/ KeychainExit
  \/ CrashInOpen

-----------------------------------------------------------------------------
\* As long as no start left an existing store unread, the file stays readable,
\* holds for each reference the value set() accepted last (or one a crash left
\* undecided), never one it refused, and a program that has its key serves exactly
\* what the file holds: FileKeychain::set, erase, persist and open, with failing
\* reads and writes and crashes between the key file and the store.
KeychainKeepsPromises ==
  ~unread =>
    /\ storeFile.exists => keyFile /\ Decrypts(storeFile)
    /\ \A r \in KeychainRefs : storeFile.values[r] \in promised[r]
    /\ keychainUp /\ m_masterKey => m_store = storeFile.values
=============================================================================
