-------------------------------- MODULE Lines --------------------------------
(***************************************************************************)
(* LinesManager and LinesController: the watched lines, their rows in      *)
(* SQLite, and the presence watch of each in the SIP backend.  A watch     *)
(* belongs to the account it was placed through; when AccountsManager      *)
(* drops the binding of an account (an edit, a change of network, a wake   *)
(* from sleep) the backend drops its watches with it.                      *)
(***************************************************************************)
EXTENDS Naturals, FiniteSets, FiniteSetsExt

CONSTANTS
  LineAccounts,   \* domain ids of accounts, from 1
  MaxLine,        \* bound: row ids of watched lines
  MaxWatch        \* bound: watches placed while the program runs

VARIABLES
  lineRows,       \* watched_lines: id -> account, NoAccountId without a row
  m_lines,        \* LinesManager::m_entries: id -> account, watch, state
  shownLines,     \* LinesModel::m_snapshot
  boundAccounts,  \* accounts with a backend id
  liveWatches,    \* the backend's watches: id -> account, NoAccountId if none
  nextWatch,
  linesUp

linesVars == <<lineRows, m_lines, shownLines, boundAccounts, liveWatches, nextWatch, linesUp>>

LineIds == 1..MaxLine
Watches == 1..MaxWatch
NoAccountId == 0
kInvalidWatchId == 0
LineState == {"Unknown", "Available", "Busy"}
NoLine == [account |-> NoAccountId, watch |-> kInvalidWatchId, state |-> "Unknown"]

ASSUME LinesAssumption == MaxLine \in Nat /\ MaxWatch \in Nat /\ NoAccountId \notin LineAccounts

LinesInit ==
  /\ lineRows = [l \in LineIds |-> NoAccountId]
  /\ m_lines = [l \in LineIds |-> NoLine] /\ shownLines = m_lines
  /\ boundAccounts = {} /\ linesUp = FALSE
  /\ liveWatches = [w \in Watches |-> NoAccountId] /\ nextWatch = 1

Listed == {l \in LineIds : m_lines[l] # NoLine}

\* LinesModel::refresh, on linesChanged: the rows that went are removed, the
\* others updated or appended, one by one.
RefreshLines == shownLines' = m_lines'

\* watchEntry: a watch through the account's binding, if it has one; the backend
\* may refuse it.
WatchEntry(l, account) ==
  \/ /\ account \in boundAccounts /\ nextWatch <= MaxWatch
     /\ m_lines' = [m_lines EXCEPT ![l] = [account |-> account, watch |-> nextWatch, state |-> "Unknown"]]
     /\ liveWatches' = [liveWatches EXCEPT ![nextWatch] = account]
     /\ nextWatch' = nextWatch + 1
  \/ /\ m_lines' = [m_lines EXCEPT ![l] = [account |-> account, watch |-> kInvalidWatchId, state |-> "Unknown"]]
     /\ UNCHANGED <<liveWatches, nextWatch>>

\* add() for the active account, which LinesController asks for.
AddLine(account) ==
  /\ linesUp
  /\ LET l == 1 + Max({0} \cup {k \in LineIds : lineRows[k] # NoAccountId}) IN
       /\ l \in LineIds
       /\ lineRows' = [lineRows EXCEPT ![l] = account]
       /\ WatchEntry(l, account)
  /\ RefreshLines
  /\ UNCHANGED <<boundAccounts, linesUp>>

\* Mutant: the line goes, its subscription stays.
KeepsWatch(ws, w) == ws

\* ISipBackend::unwatch.
Unwatched(ws, w) == [k \in Watches |-> IF k = w THEN NoAccountId ELSE ws[k]]

\* remove(): unwatch, delete the row (the result is ignored), drop the entry.
RemoveLine(l) ==
  /\ linesUp /\ l \in Listed
  /\ liveWatches' = Unwatched(liveWatches, m_lines[l].watch)
  /\ lineRows' \in {lineRows, [lineRows EXCEPT ![l] = NoAccountId]}
  /\ m_lines' = [m_lines EXCEPT ![l] = NoLine]
  /\ RefreshLines
  /\ UNCHANGED <<boundAccounts, nextWatch, linesUp>>

\* onPresence: the first line with this handle takes the state.  The event may
\* have been queued before the watch went.
OnPresence(w, state) ==
  /\ linesUp /\ w < nextWatch
  /\ \E l \in Listed : m_lines[l].watch = w /\ m_lines' = [m_lines EXCEPT ![l].state = state]
  /\ RefreshLines
  /\ UNCHANGED <<lineRows, boundAccounts, liveWatches, nextWatch, linesUp>>

\* AccountsManager::unregisterAccount and registerAccount, as lines see them:
\* removeAccount takes the account's watches along, a new binding brings none.
UnbindAccount(a) ==
  /\ linesUp /\ a \in boundAccounts
  /\ boundAccounts' = boundAccounts \ {a}
  /\ liveWatches' = [w \in Watches |-> IF liveWatches[w] = a THEN NoAccountId ELSE liveWatches[w]]
  /\ UNCHANGED <<lineRows, m_lines, shownLines, nextWatch, linesUp>>

BindAccount(a) ==
  /\ linesUp /\ a \notin boundAccounts
  /\ boundAccounts' = boundAccounts \cup {a}
  /\ UNCHANGED <<lineRows, m_lines, shownLines, liveWatches, nextWatch, linesUp>>

\* PhoneController's constructor, then ours: the startup accounts are bound, the
\* rows loaded, and a watch asked for each line of a bound account.
StartLines(bound, refused) ==
  LET loaded == {l \in LineIds : lineRows[l] # NoAccountId}
      placed == {l \in loaded : lineRows[l] \in bound} \ refused
      WatchOf(l) == IF l \in placed THEN Cardinality({k \in placed : k <= l}) ELSE kInvalidWatchId
  IN /\ ~linesUp /\ linesUp' = TRUE
     /\ Cardinality(placed) <= MaxWatch
     /\ boundAccounts' = bound
     /\ m_lines' = [l \in LineIds |-> IF l \in loaded
                      THEN [account |-> lineRows[l], watch |-> WatchOf(l), state |-> "Unknown"] ELSE NoLine]
     /\ liveWatches' = [w \in Watches |-> IF \E l \in placed : WatchOf(l) = w
                          THEN lineRows[CHOOSE l \in placed : WatchOf(l) = w] ELSE NoAccountId]
     /\ nextWatch' = Cardinality(placed) + 1
     /\ RefreshLines
     /\ UNCHANGED lineRows

\* ~LinesManager unwatches every line, while the accounts are still bound.
StopLines ==
  /\ linesUp /\ linesUp' = FALSE
  /\ liveWatches' = [w \in Watches |-> IF \E l \in Listed : m_lines[l].watch = w THEN NoAccountId
                                       ELSE liveWatches[w]]
  /\ UNCHANGED <<lineRows, m_lines, shownLines, boundAccounts, nextWatch>>

LinesNext ==
  \/ \E a \in LineAccounts : AddLine(a) \/ UnbindAccount(a) \/ BindAccount(a)
  \/ \E l \in LineIds : RemoveLine(l)
  \/ \E w \in Watches, state \in LineState : OnPresence(w, state)
  \/ \E bound \in SUBSET LineAccounts, refused \in SUBSET LineIds : StartLines(bound, refused)
  \/ StopLines

-----------------------------------------------------------------------------
\* Every subscription the backend holds belongs to exactly one listed line of the
\* same account, none outlives its line or the program, and the list on screen is
\* the manager's, each of its lines backed by a row: LinesManager::add, remove,
\* watchEntry and its destructor, against accounts that come and go.
LinesOwnWatches ==
  LET live == {w \in Watches : liveWatches[w] # NoAccountId} IN
  /\ ~linesUp => live = {}
  /\ linesUp =>
       /\ \A w \in live : \E l \in Listed : /\ m_lines[l].watch = w /\ m_lines[l].account = liveWatches[w]
                                            /\ \A k \in Listed \ {l} : m_lines[k].watch # w
       /\ shownLines = m_lines
       /\ \A l \in Listed : lineRows[l] = m_lines[l].account

\* "for each row, a presence (BLF) watch through ISipBackend": a line whose account
\* is bound, and which was given a watch, has a live one (LinesManager.h:19).
LinesStayWatched ==
  linesUp => \A l \in Listed : m_lines[l].watch # kInvalidWatchId /\ m_lines[l].account \in boundAccounts
                                 => liveWatches[m_lines[l].watch] # NoAccountId
=============================================================================
