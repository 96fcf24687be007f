----------------------------- MODULE MCServices -----------------------------
(***************************************************************************)
(* The services around calling, one at a time: Init chooses a service, and *)
(* only its actions are taken.  They share no state but the database and   *)
(* the accounts, which each abstracts to what it uses of them, so their    *)
(* interleavings would add nothing.  A service that was not chosen stays   *)
(* in an initial state in which none of its fair actions is enabled.       *)
(***************************************************************************)
EXTENDS FakeSipBackend, FileKeychain, Schema, Lines, Messages, UpdateCheck, Provisioning, Boot, Headless

VARIABLE unit     \* the service this behaviour is about

\* 0.1.9, 0.1.10-rc.2, 0.1.10-rc.10, 0.1.10, 0.2; letters count as 1000.
MCReleases == <<[release |-> <<0, 1, 9>>, prerelease |-> <<>>],
                [release |-> <<0, 1, 10>>, prerelease |-> <<1000, 2>>],
                [release |-> <<0, 1, 10>>, prerelease |-> <<1000, 10>>],
                [release |-> <<0, 1, 10>>, prerelease |-> <<>>],
                [release |-> <<0, 2>>, prerelease |-> <<>>]>>

MCInit ==
  /\ unit \in {"fake", "keychain", "schema", "lines", "messages", "update", "signIn", "boot", "headless"}
  /\ FakeInit /\ KeychainInit /\ SchemaInit /\ LinesInit /\ MessagesInit
  /\ UpdateInit /\ SignInInit /\ BootInit /\ HeadlessInit
  /\ unit # "schema" => disk = CHOOSE d \in Shipped : TRUE
  /\ unit # "update" => feedUrl = "https" /\ lastUpdateCheck = "never"
  /\ unit # "headless" => \A o \in DOMAIN options : ~options[o]

FakeStep ==
  /\ unit = "fake" /\ FakeNext
  /\ UNCHANGED <<unit, keychainVars, schemaVars, linesVars, messagesVars, updateVars,
                 signInVars, bootVars, headlessVars>>

KeychainStep ==
  /\ unit = "keychain" /\ KeychainNext
  /\ UNCHANGED <<unit, fakeVars, schemaVars, linesVars, messagesVars, updateVars,
                 signInVars, bootVars, headlessVars>>

SchemaStep ==
  /\ unit = "schema" /\ SchemaNext
  /\ UNCHANGED <<unit, fakeVars, keychainVars, linesVars, messagesVars, updateVars,
                 signInVars, bootVars, headlessVars>>

LinesStep ==
  /\ unit = "lines" /\ LinesNext
  /\ UNCHANGED <<unit, fakeVars, keychainVars, schemaVars, messagesVars, updateVars,
                 signInVars, bootVars, headlessVars>>

MessagesStep ==
  /\ unit = "messages" /\ MessagesNext
  /\ UNCHANGED <<unit, fakeVars, keychainVars, schemaVars, linesVars, updateVars,
                 signInVars, bootVars, headlessVars>>

UpdateStep ==
  /\ unit = "update" /\ UpdateNext
  /\ UNCHANGED <<unit, fakeVars, keychainVars, schemaVars, linesVars, messagesVars,
                 signInVars, bootVars, headlessVars>>

SignInStep ==
  /\ unit = "signIn" /\ SignInNext
  /\ UNCHANGED <<unit, fakeVars, keychainVars, schemaVars, linesVars, messagesVars,
                 updateVars, bootVars, headlessVars>>

BootStep ==
  /\ unit = "boot" /\ BootNext
  /\ UNCHANGED <<unit, fakeVars, keychainVars, schemaVars, linesVars, messagesVars,
                 updateVars, signInVars, headlessVars>>

HeadlessStep ==
  /\ unit = "headless" /\ HeadlessNext
  /\ UNCHANGED <<unit, fakeVars, keychainVars, schemaVars, linesVars, messagesVars,
                 updateVars, signInVars, bootVars>>

MCNext ==
  \/ FakeStep \/ KeychainStep \/ SchemaStep \/ LinesStep \/ MessagesStep
  \/ UpdateStep \/ SignInStep \/ BootStep \/ HeadlessStep

mcVars == <<unit, fakeVars, keychainVars, schemaVars, linesVars, messagesVars,
            updateVars, signInVars, bootVars, headlessVars>>

MCSpec == MCInit /\ [][MCNext]_mcVars /\ SignInFairness /\ HeadlessFairness
=============================================================================
