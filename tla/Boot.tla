-------------------------------- MODULE Boot --------------------------------
(***************************************************************************)
(* BootConfig: the provisioning files and the command line are merged, one *)
(* layer after the other, and the accounts they name are applied to the    *)
(* accounts the program has, at every launch.                              *)
(*                                                                         *)
(* An account of a layer is its identity (user and server), incomplete     *)
(* when one is missing, and where its password comes from.  One scalar     *)
(* stands for all that mergeInto copies alike.                             *)
(***************************************************************************)
EXTENDS Naturals, Sequences, FiniteSets, SequencesExt

CONSTANTS
  Identities,     \* (user, server) pairs
  MaxNamed,       \* bound: accounts a file names
  MaxBoot         \* bound: accounts the program may end up with

Unset == "unset"
Incomplete == "incomplete"

ASSUME BootAssumption == {MaxNamed, MaxBoot} \subseteq Nat /\ Incomplete \notin Identities

VARIABLES
  layer,          \* layers merged so far; Applying and Booted after the last
  asked,          \* history: how often the layers name each identity, the last
                  \* value given to the scalar, whether one asks to replace accounts
  bootConfig,     \* the BootConfig merged so far
  stdinTaken,     \* a layer has read a password from standard input
  bootAccounts,   \* the program's accounts: identity, password
  before          \* history: those it had at launch

bootVars == <<layer, asked, bootConfig, stdinTaken, bootAccounts, before>>

Layers == 1..5    \* /etc, per user, COMPACTPHONE_CONFIG, --config, command line
CommandLine == 5
Applying == 6
Booted == 7
Specs == {"literal", "missing", "stdin"}   \* "missing": no spec, or an @env: or @file: that is not there

NoConfig == [accounts |-> <<>>, scalar |-> Unset, replace |-> FALSE]
NothingAsked == [named |-> [i \in Identities |-> 0], scalar |-> Unset, replace |-> FALSE]

\* What a layer can hold.  A file that is absent, unreadable, malformed or of another
\* schema is one that holds nothing.
LayerContents ==
  [accounts : UNION {[1..n -> [id : Identities \cup {Incomplete}, password : Specs]] : n \in 0..MaxNamed},
   scalar : {Unset, "on", "off"}, replace : BOOLEAN]

\* The command line names one account at most, and its switches can only be given,
\* not withdrawn.
FlagsOnly(c) == Len(c.accounts) <= 1 /\ c.scalar # "off"

CountOf(accounts, id) == Cardinality({i \in DOMAIN accounts : accounts[i].id = id})

BootInit ==
  /\ layer = 0 /\ asked = NothingAsked
  /\ bootConfig = NoConfig /\ stdinTaken = FALSE
  /\ bootAccounts = <<>> /\ before = <<>>

\* resolvePassword: standard input has one line for whoever asks first.
ResolvePassword(spec, taken) == IF spec = "literal" \/ (spec = "stdin" /\ ~taken) THEN "given" ELSE ""

\* parseAccountObject, and the account of the command line.
ParseAccount(a, taken) == [id |-> a.id, password |-> ResolvePassword(a.password, taken)]

\* One turn of loadFromFile's loop: an account without user or server is dropped,
\* its password spec already resolved.
LoadAccount(loaded, a) ==
  [taken |-> loaded.taken \/ a.password = "stdin",
   accounts |-> IF a.id = Incomplete THEN loaded.accounts
                ELSE Append(loaded.accounts, ParseAccount(a, loaded.taken))]

LoadFromFile(c, taken) == FoldLeft(LoadAccount, [taken |-> taken, accounts |-> <<>>], c.accounts)

\* parseCommandLine: only a complete account has its password resolved.
FromCommandLine(c, taken) ==
  IF CountOf(c.accounts, Incomplete) = 0 THEN LoadFromFile(c, taken)
  ELSE [taken |-> taken, accounts |-> <<>>]

\* Mutant: a scalar that is set is not overridden.
FirstWins(base, incoming) == IF base = Unset THEN incoming ELSE base

\* One of mergeInto's scalars.
LaterWins(base, incoming) == IF incoming = Unset THEN base ELSE incoming

\* mergeInto: accounts append, scalars are overridden, replace stays on.
MergeInto(base, incoming) ==
  [accounts |-> base.accounts \o incoming.accounts,
   scalar |-> LaterWins(base.scalar, incoming.scalar),
   replace |-> base.replace \/ incoming.replace]

\* discoverProvisioning, --config and the command line, in this order.
MergeLayer(c) ==
  LET l == layer + 1
      loaded == IF l = CommandLine THEN FromCommandLine(c, stdinTaken) ELSE LoadFromFile(c, stdinTaken)
  IN /\ l \in Layers
     /\ l = CommandLine => FlagsOnly(c)
     /\ Len(bootConfig.accounts) + Len(bootAccounts) + Len(c.accounts) <= MaxBoot
     /\ bootConfig' = MergeInto(bootConfig, [c EXCEPT !.accounts = loaded.accounts])
     /\ stdinTaken' = loaded.taken
     /\ asked' = [named |-> [i \in Identities |-> asked.named[i] + CountOf(c.accounts, i)],
                  scalar |-> IF c.scalar # Unset THEN c.scalar ELSE asked.scalar,
                  replace |-> asked.replace \/ c.replace]
     /\ layer' = IF l = CommandLine THEN Applying ELSE l
     /\ UNCHANGED <<bootAccounts, before>>

\* findExistingAccount, and the search in applyBootConfig.
FindExisting(id) == {i \in DOMAIN bootAccounts : bootAccounts[i].id = id}

\* applyAccounts, applyBootConfig: the first match is updated, keeping its password
\* unless one was given; without --replace-account or a match one is added.
ApplyAccount ==
  /\ layer = Applying /\ bootConfig.accounts # <<>>
  /\ LET a == Head(bootConfig.accounts)
         existing == IF bootConfig.replace THEN FindExisting(a.id) ELSE {}
     IN bootAccounts' =
          IF existing = {} THEN Append(bootAccounts, a)
          ELSE LET first == CHOOSE i \in existing : \A j \in existing : i <= j
               IN [bootAccounts EXCEPT ![first].password = IF a.password = "" THEN @ ELSE a.password]
  /\ bootConfig' = [bootConfig EXCEPT !.accounts = Tail(@)]
  /\ UNCHANGED <<layer, asked, stdinTaken, before>>

FinishBoot ==
  /\ layer = Applying /\ bootConfig.accounts = <<>>
  /\ layer' = Booted
  /\ UNCHANGED <<asked, bootConfig, stdinTaken, bootAccounts, before>>

\* The next launch, with other files or flags.
Reboot ==
  /\ layer = Booted
  /\ layer' = 0 /\ asked' = NothingAsked /\ bootConfig' = NoConfig
  /\ stdinTaken' = FALSE
  /\ before' = bootAccounts
  /\ UNCHANGED bootAccounts

BootNext == (\E c \in LayerContents : MergeLayer(c)) \/ ApplyAccount \/ FinishBoot \/ Reboot

-----------------------------------------------------------------------------
\* After a launch a setting has the value of the last layer that names it; an
\* identity the layers name is there once more for every mention, or, if any layer
\* asks to replace accounts, as often as before and at least once, however many
\* layers and launches named it; and no account has lost its password
\* (mergeInto, applyBootConfig, applyAccounts).
BootApplied ==
  layer = Booted =>
    /\ bootConfig.scalar = asked.scalar
    /\ \A id \in Identities :
         CountOf(bootAccounts, id) =
           IF ~asked.replace THEN CountOf(before, id) + asked.named[id]
           ELSE IF CountOf(before, id) = 0 /\ asked.named[id] > 0 THEN 1 ELSE CountOf(before, id)
    /\ \A i \in DOMAIN before : before[i].password = "given" => bootAccounts[i].password = "given"
=============================================================================
