----------------------------- MODULE UpdateCheck -----------------------------
(***************************************************************************)
(* The update checker and PhoneController's handling of its answers.  A    *)
(* check the user asks for and the automatic one after launch may be in    *)
(* flight together and are answered in any order; one flag, written when a *)
(* check starts, decides how loud every answer is.                         *)
(*                                                                         *)
(* A version is its parsed form: the numbers of the release, and the       *)
(* prerelease suffix as the runs naturalCompare compares, a letter standing *)
(* above every number.                                                     *)
(***************************************************************************)
EXTENDS Integers, Sequences, FiniteSets, FiniteSetsExt, SequencesExt

CONSTANTS
  Releases,       \* versions in the order in which they were published
  Running,        \* index of the version that runs
  MaxFeed,        \* bound: entries of the appcast
  MaxChecks       \* bound: checks of the user in flight

ASSUME UpdateAssumption == Running \in DOMAIN Releases /\ {MaxFeed, MaxChecks} \subseteq Nat

VARIABLES
  feedUrl,        \* "" (no appcast for this platform), "invalid" or "https"
  inFlight,       \* requests without a reply: of the startup timer, of the user
  m_autoUpdateCheckActive,
  lastUpdateCheck,         \* "never", "recent" (less than 24 h ago) or "old"
  autoUpdateCheckEnabled,
  skippedUpdate,  \* the version the user chose to ignore, 0 if none
  latestUpdate,   \* m_latestUpdateVersion, 0 if none
  startupTimer,   \* the three seconds after launch are not over
  overlap,        \* history: a user's check began with the automatic one in flight
  answer          \* history: the last answer and what the user saw of it

updateVars == <<feedUrl, inFlight, m_autoUpdateCheckActive, lastUpdateCheck, autoUpdateCheckEnabled,
                skippedUpdate, latestUpdate, startupTimer, overlap, answer>>

Versions == DOMAIN Releases
NoVersion == 0
NoAnswer == [kind |-> "none", said |-> "nothing", version |-> NoVersion, ignored |-> FALSE, feed |-> {},
             overlapped |-> FALSE]

UpdateInit ==
  /\ feedUrl \in {"", "invalid", "https"}
  /\ inFlight = [auto |-> 0, manual |-> 0]
  /\ m_autoUpdateCheckActive = FALSE
  /\ lastUpdateCheck \in {"never", "old"}
  /\ autoUpdateCheckEnabled = TRUE
  /\ skippedUpdate = NoVersion /\ latestUpdate = NoVersion
  /\ startupTimer = TRUE /\ overlap = FALSE /\ answer = NoAnswer

-----------------------------------------------------------------------------
(* Which version the appcast offers.                                       *)

Sign(x, y) == IF x < y THEN -1 ELSE IF y < x THEN 1 ELSE 0

\* naturalCompare: by the first pair of runs that differ, else by length.
NaturalCompare(a, b) ==
  LET differ == {i \in DOMAIN a \cap DOMAIN b : a[i] # b[i]}
  IN IF differ = {} THEN Sign(Len(a), Len(b)) ELSE Sign(a[Min(differ)], b[Min(differ)])

ReleasePart(v, i) == IF i \in DOMAIN v.release THEN v.release[i] ELSE 0

\* Mutant: the suffix is not looked at.
CompareReleases(a, b) ==
  LET differ == {i \in DOMAIN a.release \cup DOMAIN b.release : ReleasePart(a, i) # ReleasePart(b, i)}
  IN IF differ = {} THEN 0 ELSE Sign(ReleasePart(a, Min(differ)), ReleasePart(b, Min(differ)))

\* compareVersions: the release numbers, missing ones being zero, then a
\* prerelease below its release, then the suffixes.
CompareVersions(a, b) ==
  LET differ == {i \in DOMAIN a.release \cup DOMAIN b.release : ReleasePart(a, i) # ReleasePart(b, i)}
  IN IF differ # {} THEN Sign(ReleasePart(a, Min(differ)), ReleasePart(b, Min(differ)))
     ELSE IF (a.prerelease = <<>>) # (b.prerelease = <<>>)
     THEN IF a.prerelease = <<>> THEN 1 ELSE -1
     ELSE NaturalCompare(a.prerelease, b.prerelease)

Entry == [version : Versions, trusted : BOOLEAN]
Feeds == UNION {[1..n -> Entry] : n \in 0..MaxFeed}

\* parseAppcast: entries without a trusted https download are passed over; a later
\* one must be newer to replace the best so far.
ParseAppcast(feed) ==
  FoldLeft(LAMBDA best, e :
             IF e.trusted /\ (best = NoVersion \/ CompareVersions(Releases[best], Releases[e.version]) < 0)
             THEN e.version ELSE best,
           NoVersion, feed)

-----------------------------------------------------------------------------
(* PhoneController's three handlers, under the flag of the moment.         *)

Answered(kind, said, version, ignored, feed) ==
  answer' = [kind |-> kind, said |-> said, version |-> version, ignored |-> ignored, feed |-> feed,
             overlapped |-> overlap]

UpdateAvailable(kind, version, feed, flag) ==
  /\ latestUpdate' = version
  /\ Answered(kind, IF flag /\ version = skippedUpdate THEN "nothing" ELSE "prompt",
              version, version = skippedUpdate, feed)

UpToDate(kind, feed, flag) ==
  /\ latestUpdate' = NoVersion
  /\ Answered(kind, IF flag THEN "nothing" ELSE "notice", NoVersion, FALSE, feed)

CheckFailed(kind, flag) ==
  /\ UNCHANGED latestUpdate
  /\ Answered(kind, IF flag THEN "nothing" ELSE "notice", NoVersion, FALSE, {})

\* check(): without an https feed the answer comes at once.
Check(kind, flag) ==
  \/ feedUrl = "" /\ UpToDate(kind, {}, flag) /\ UNCHANGED inFlight
  \/ feedUrl = "invalid" /\ CheckFailed(kind, flag) /\ UNCHANGED inFlight
  \/ /\ feedUrl = "https" /\ inFlight' = [inFlight EXCEPT ![kind] = @ + 1]
     /\ UNCHANGED <<latestUpdate, answer>>

\* onReplyFinished, for any request in flight.
OnReplyFinished(kind) ==
  /\ inFlight[kind] > 0 /\ inFlight' = [inFlight EXCEPT ![kind] = @ - 1]
  /\ \/ CheckFailed(kind, m_autoUpdateCheckActive)
     \/ \E feed \in Feeds :
          LET best == ParseAppcast(feed)
              trusted == {feed[i].version : i \in {j \in DOMAIN feed : feed[j].trusted}}
          IN \/ best = NoVersion /\ CheckFailed(kind, m_autoUpdateCheckActive)
             \/ /\ best # NoVersion
                /\ IF CompareVersions(Releases[Running], Releases[best]) >= 0
                   THEN UpToDate(kind, trusted, m_autoUpdateCheckActive)
                   ELSE UpdateAvailable(kind, best, trusted, m_autoUpdateCheckActive)
  /\ overlap' = (overlap /\ kind # "auto")
  /\ UNCHANGED <<feedUrl, m_autoUpdateCheckActive, lastUpdateCheck, autoUpdateCheckEnabled,
                 skippedUpdate, startupTimer>>

-----------------------------------------------------------------------------
(* The user and the clock.                                                 *)

\* Mutant: a check of the user does not put off the automatic one.
KeepsClock == lastUpdateCheck

\* setLastUpdateCheckMs(now), which checkForUpdates does as well.
Stamped == "recent"

CheckForUpdates ==
  /\ inFlight.manual < MaxChecks
  /\ m_autoUpdateCheckActive' = FALSE
  /\ lastUpdateCheck' = Stamped
  /\ overlap' = (overlap \/ inFlight.auto > 0)
  /\ Check("manual", FALSE)
  /\ UNCHANGED <<feedUrl, autoUpdateCheckEnabled, skippedUpdate, startupTimer>>

\* maybeCheckForUpdatesOnStartup, once, three seconds after launch.
MaybeCheckForUpdatesOnStartup ==
  /\ startupTimer /\ startupTimer' = FALSE
  /\ \/ /\ autoUpdateCheckEnabled /\ lastUpdateCheck # "recent"
        /\ m_autoUpdateCheckActive' = TRUE
        /\ lastUpdateCheck' = "recent"
        /\ Check("auto", TRUE)
     \/ /\ ~autoUpdateCheckEnabled \/ lastUpdateCheck = "recent"
        /\ UNCHANGED <<inFlight, m_autoUpdateCheckActive, lastUpdateCheck, latestUpdate, answer>>
  /\ UNCHANGED <<feedUrl, autoUpdateCheckEnabled, skippedUpdate, overlap>>

\* skipUpdateVersion, from the prompt.
SkipUpdateVersion ==
  /\ latestUpdate # NoVersion /\ skippedUpdate' = latestUpdate
  /\ UNCHANGED <<feedUrl, inFlight, m_autoUpdateCheckActive, lastUpdateCheck, autoUpdateCheckEnabled,
                 latestUpdate, startupTimer, overlap, answer>>

SetAutoUpdateCheckEnabled ==
  /\ autoUpdateCheckEnabled' = ~autoUpdateCheckEnabled
  /\ UNCHANGED <<feedUrl, inFlight, m_autoUpdateCheckActive, lastUpdateCheck, skippedUpdate,
                 latestUpdate, startupTimer, overlap, answer>>

\* A day passes; not within the three seconds after launch.
DayPasses ==
  /\ ~startupTimer /\ lastUpdateCheck = "recent" /\ lastUpdateCheck' = "old"
  /\ UNCHANGED <<feedUrl, inFlight, m_autoUpdateCheckActive, autoUpdateCheckEnabled, skippedUpdate,
                 latestUpdate, startupTimer, overlap, answer>>

\* The program is launched again; settings stay.
Relaunch ==
  /\ inFlight' = [auto |-> 0, manual |-> 0]
  /\ m_autoUpdateCheckActive' = FALSE /\ latestUpdate' = NoVersion
  /\ startupTimer' = TRUE /\ overlap' = FALSE /\ answer' = NoAnswer
  /\ UNCHANGED <<feedUrl, lastUpdateCheck, autoUpdateCheckEnabled, skippedUpdate>>

UpdateNext ==
  \/ CheckForUpdates
  \/ MaybeCheckForUpdatesOnStartup
  \/ \E kind \in {"auto", "manual"} : OnReplyFinished(kind)
  \/ SkipUpdateVersion
  \/ SetAutoUpdateCheckEnabled
  \/ DayPasses
  \/ Relaunch

-----------------------------------------------------------------------------
\* A check the user asked for always tells them its result, a version they ignored
\* included, although the automatic check shares its flag; and the automatic one
\* says nothing but a prompt, never about the ignored version, unless the user
\* started a check while it was in flight (PhoneController::checkForUpdates,
\* maybeCheckForUpdatesOnStartup and the handlers of UpdateChecker's signals).
UpdateAnswersAsAsked ==
  /\ answer.kind = "manual" => answer.said # "nothing"
  /\ answer.kind = "auto" /\ ~answer.overlapped =>
       answer.said = "nothing" \/ (answer.said = "prompt" /\ ~answer.ignored)

\* Of the entries with a trusted download, in whatever order the appcast lists
\* them, the one published last is offered, and only if it is newer than the
\* version that runs; "up to date" is said only if none is (UpdateChecker's
\* parseAppcast, compareVersions and onReplyFinished, against the order in which
\* the versions were published).
UpdateOffersNewest ==
  IF answer.version = NoVersion THEN \A v \in answer.feed : v <= Running
  ELSE answer.version > Running /\ answer.version = Max(answer.feed)
=============================================================================
