----------------------------- MODULE History -----------------------------
(***************************************************************************)
(* The call history: HistoryManager's table with its retention, and the    *)
(* list on screen.  A call is logged when it ends, under the time it       *)
(* started, so rows do not arrive in the order of their times, and the     *)
(* clock may have been set in between.                                     *)
(***************************************************************************)
EXTENDS Integers, FiniteSets

CONSTANTS
  HistoryAccounts,
  kMaxEntries, kMaxAge,    \* the retention
  MaxTime,                 \* bound: start times are 1..MaxTime
  MaxLogged                \* bound: calls logged

ASSUME HistoryAssumption ==
  kMaxEntries \in Nat \ {0} /\ {kMaxAge, MaxTime, MaxLogged} \subseteq Nat

VARIABLES
  historyAccounts,   \* rows of accounts, which call_history refers to
  callHistory,       \* rows of call_history; `call' tells the calls apart
  shownHistory       \* HistoryModel's snapshot

VARIABLES            \* history
  logged,            \* every call that was written, numbered as they came
  pruned             \* those after which no statement of prune failed, by number

historyVars == <<historyAccounts, callHistory, shownHistory, logged, pruned>>

HistoryInit ==
  /\ historyAccounts = HistoryAccounts
  /\ callHistory = {} /\ shownHistory = {}
  /\ logged = {} /\ pruned = {}

-----------------------------------------------------------------------------
\* ORDER BY started_at DESC, id DESC.
Newer(r, s) ==
  \/ r.startedAt > s.startedAt
  \/ r.startedAt = s.startedAt /\ r.id > s.id

AgeLimit(now) == IF now > kMaxAge THEN now - kMaxAge ELSE 0

\* Mutant: no row is too old.
OfAnyAge(rows, now) == rows

Young(rows, now) == {r \in rows : r.startedAt >= AgeLimit(now)}

Newest(rows) == {r \in rows : Cardinality({s \in rows : Newer(s, r)}) < kMaxEntries}

\* prune after `call': two statements, and a failing one is skipped.
Prune(rows, now, call) ==
  \/ callHistory' = Newest(Young(rows, now)) /\ pruned' = pruned \cup {call}
  \/ callHistory' \in {rows, Young(rows, now), Newest(rows)} /\ UNCHANGED pruned

\* The id INTEGER PRIMARY KEY gives: one more than the largest.
NextRowId == IF callHistory = {} THEN 1
             ELSE 1 + (CHOOSE r \in callHistory : \A s \in callHistory : s.id <= r.id).id

\* append: the age of the rows is measured from the call that is written, whichever
\* call is the newest.  The insert fails when the account is gone, and may fail otherwise.
AppendHistory(account, startedAt) ==
  LET call == Cardinality(logged) + 1
      row == [id |-> NextRowId, call |-> call, account |-> account, startedAt |-> startedAt]
  IN \/ UNCHANGED <<callHistory, logged, pruned>>
     \/ /\ account \in historyAccounts
        /\ logged' = logged \cup {[id |-> call, account |-> account, startedAt |-> startedAt]}
        /\ Prune(callHistory \cup {row}, startedAt, call)

\* list: its limit of 200 is above kMaxEntries.
HistoryList(rows) == rows

\* CallsController logs an ended call and refreshes the list in any case.
LogCall(account, startedAt) ==
  /\ Cardinality(logged) < MaxLogged
  /\ AppendHistory(account, startedAt)
  /\ shownHistory' = HistoryList(callHistory')
  /\ UNCHANGED historyAccounts

\* The row of an account is deleted, and its calls with it (ON DELETE CASCADE);
\* the list is not told.
DeleteAccountRow(account) ==
  /\ account \in historyAccounts
  /\ historyAccounts' = historyAccounts \ {account}
  /\ callHistory' = {r \in callHistory : r.account # account}
  /\ UNCHANGED <<shownHistory, logged, pruned>>

HistoryNext ==
  \/ \E account \in HistoryAccounts, startedAt \in 1..MaxTime : LogCall(account, startedAt)
  \/ \E account \in HistoryAccounts : DeleteAccountRow(account)

-----------------------------------------------------------------------------
(* Properties.                                                             *)

\* A logged call that append does not give up: its account is still there, it was
\* within the age limit of every call written since, itself included, and fewer than
\* kMaxEntries logged calls are newer.
Retained(c) ==
  /\ c.account \in historyAccounts
  /\ \A d \in logged : d.id >= c.id => c.startedAt >= AgeLimit(d.startedAt)
  /\ Cardinality({d \in logged : Newer(d, c)}) < kMaxEntries

\* The rows at work in a prune are those of its call and of the calls before it.
AgedOut(r, d) == r.call <= d.id /\ r.startedAt < AgeLimit(d.startedAt)

\* The retention as append and prune enforce it, both ways, for calls logged out of
\* order, with ids used twice, after a failed prune or a step of the clock.  Calls
\* are kept as long as the rule says.  No row outlives a prune, of whichever call
\* since, by whose start it was too old, and after a prune kMaxEntries rows are
\* left at most, unless a statement of that prune failed.  The list shows the rows.
HistoryKeepsNewest ==
  /\ \A c \in logged : Retained(c) =>
       \E r \in callHistory : r.call = c.id /\ r.startedAt = c.startedAt
  /\ \A d \in logged, r \in callHistory : d.id \in pruned => ~AgedOut(r, d)
  /\ Cardinality(logged) \in pruned => Cardinality(callHistory) <= kMaxEntries
  /\ {r \in shownHistory : r.account \in historyAccounts} = callHistory

\* "anything older than kMaxAgeMs (relative to the newest call) is dropped. Pruned on
\* every append" (HistoryManager.h): after a prune none of whose statements failed no
\* row is more than kMaxAge older than another.
AgeFollowsNewestCall ==
  Cardinality(logged) \in pruned =>
    \A r, s \in callHistory : s.startedAt - r.startedAt <= kMaxAge

=============================================================================
