# Compact Phone: a TLA+ verification project

Compact Phone is a SIP softphone (C++17, Qt 6, PJSIP). This directory holds TLA+
modules that model it, TLC configurations that check them on small instances,
and TLAPS proofs, for instances of any size, of every safety property the runs
check.
Paths below are relative to the repository; code is in `src/core` unless a path
says otherwise.

## 1. Inventory

### How the system hangs together

```
 QML / tray ── PhoneController ── controllers (Calls, Accounts, Settings, ...)
 headless runner ──────┐                │ commands        ▲ Qt signals, some re-queued
                       └──────── managers (CallManager, AccountsManager, LinesManager, ...) ── SQLite, keychain
                                        │ ISipBackend     ▲ ISipBackendListener
                                  PjsipBackend ── EventDispatch (epoch, queued lambdas)
                                        │ pjsua2 calls    ▲ callbacks, PJSUA worker thread
                                  PJSIP / the network
```

Two threads matter. The **main thread** runs the Qt event loop: every command,
every manager and every controller. The **PJSUA worker** runs PJSIP's callbacks,
holding the PJSUA lock; a callback only posts lambdas to the main thread, inserts
incoming calls into `m_calls` (under `m_callsMutex`), and wires audio. So all
events reach the managers late, in order, after whatever the main thread did in
the meantime.

| Component | State | Operations | What is hard | What makes it correct | Module |
|---|---|---|---|---|---|
| `CallManager`, `TransferTracker` | records by call id, lingering records, active call, pending transfers, armed timers | make, accept, decline, forward, hang up, hold, unhold with retries, merge, transfers; events of the stack | events about calls that are gone, accounts removed under queued calls, retry timers, refused commands | records and stack objects correspond, the active call is live, only transferred legs are hung up, ended calls leave | `CallManager` |
| call media in `PjsipBackend` | `m_muted`, recorder, player, capture link | `setMuted`, recording, playback, `onCallMediaState` | main thread against worker, statement by statement | muted means the microphone is off; no recorder outlives its call | `CallMedia` |
| ringtone (`SettingsController`, `PjsipBackend`) | enabled, file, ringing, player | toggle, choose, test, ring | one player for tests and calls; any step may be refused | it sounds for ringing calls, with the chosen file, and never else, unless the stack refuses to start or to stop it | `Ringtone` |
| `CallsController`, `CallSessionTracker` | current call, prompt, ringing, shown state, sessions, timers | dial, accept, decline, incoming-call policies, queued `callEvent` | handlers one queue pass late; timers captured at arrival; one prompt for several calls | history, sessions, ringtone and prompt agree with the calls | `CallsController` |
| `HistoryManager` | call_history | append with retention, list | rows out of order, reused ids, failing prune | a call is dropped exactly when a complete prune finds it too old or beyond the newest `kMaxEntries` | `History` |
| `ISipBackend` | what a manager may rely on | the lifecycle of the backend, accounts, watches, calls | two implementations | both keep its rules | `SipBackend` |
| `PjsipBackend`, `EventDispatch`, `SipEngine` | accounts, buddies, calls, parked calls, epoch, queue | start, stop, destructor, listener change, accounts, watches, calls | teardown against callbacks, two locks, deferred destruction | nothing survives a stop, nothing is delivered after it, nothing is destroyed under a callback, no deadlock | `PjsipBackend` |
| `FakeSipBackend` | the same tables, single-threaded | the same commands, `simulate*` | tests trust it | it keeps the same rules | `FakeSipBackend` |
| `AccountsManager`, `AccountsController` | entries, rows, keychain references, password cache, bindings, registration states, default | add, edit, remove, enable, default, register, re-register all | persistence in several steps, each of which may fail | memory, rows, keychain, cache and bindings agree | `Accounts` |
| `LinesManager`, `LinesModel` | lines, watch ids | add, remove, subscribe, presence | watches lost when an account is bound anew | watches belong to lines | `Lines` |
| `MessagesManager`, `MessagesController` | messages, selected peer, three views | send, receive, select, mark read | queued reception against the open thread | every view shows the table | `Messages` |
| `ContactsManager`, `ContactsController`, `ContactImporter` | contacts, list | add, edit, favourite, remove, import | files with cards cut off, empty or out of place | the list shows the table, an import writes what the file says | `Contacts` |
| `Database` | tables, version | open, migrate | two instances, crashes between statements | the version never promises what is not there | `Schema` |
| `FileKeychain` | key file, store file, store in memory | open, get, set, erase | two files, failed writes, crashes | the file holds what `set` accepted | `FileKeychain` |
| `UpdateChecker`, update wiring in `PhoneController` | checks in flight, one flag, last check, skipped version | check by user, check at start, answers | one flag for two checks; version order | answers as asked; the newest version is offered | `UpdateCheck` |
| `DaktelaProvider`, `ProvisioningController`, wizard | host, token, records, wizard step | sign in, replies, password prompt | nothing cancels requests in flight | sign-ins that do not overlap are not mixed in one account; the wizard is answered | `Provisioning` |
| `BootConfig`, `main.cpp` | layers | merge, resolve passwords, apply | several layers, several launches | the last layer wins, nothing is duplicated or wiped | `Boot` |
| headless runner (`src/headless_main.cpp`) | options, call, timers | register, place, answer, play, exit | queued signals against timers | it places its call and ends | `Headless` |
| `NetworkMonitor`, `PowerMonitor` | reachability | trigger re-registration | at any time | no effect but re-registration | effect in `Accounts`, `Lines` |
| `UrlDispatcher`, `SipUri`, logging, tray, QML, platform glue | — | parsing, presentation, I/O | — | — | — |

`PROJECT.json` lists every component with its sources and status, and every
hazard at its source line with the properties that would catch it.

### Hazards

The hazards that drove the models: an incoming call whose account is unregistered
while its event is queued; state events for released calls; retries that outlive
their calls; NOTIFYs after the end of a leg; the mute flag against the media
callback; handlers that see records newer than their event; one prompt variable
for several incoming calls; an incoming call being wrapped while `stop()` sweeps;
deferred destruction of `pj::Call`; lock order; a password, a row and a binding
changed in three steps of which one fails; a REGISTER result for a binding that
is gone; two files written one after the other; two programs migrating one
database; two update checks, or two sign-ins, sharing one set of members; and
timers that race the events they guard against.

## 2. Plan

1. Done: `CallManager`, `CallMedia`, `CallsController`, `PjsipBackend`.
2. Done: `SipBackend`, the abstract specification of `ISipBackend`, implemented by
   `PjsipBackend` and `FakeSipBackend`.
3. Done: `Accounts`; the services `FileKeychain`, `Schema`, `Lines`, `Messages`,
   `UpdateCheck`, `Provisioning`, `Boot`, `Headless`; the local parts `Ringtone`,
   `History`, `Contacts`.
4. Done, proofs: every safety property of the passing runs, and the two
   refinements (section 6).
5. Left: what section 7 lists.

All modules take their parameters as CONSTANTS, have one action per operation and
no recursive operators.

## 3. Modules

### `CallManager.tla`

State: `m_records` (id to `Absent`, `Calling` or `Confirmed`; an ended call has no
record but is in `m_lingering`), `held`, `m_transfers`, `m_activeCallId`, and the
armed timers (`lingerTimers`; `unholdTimers` and `bridgeTimers` count the armed
single-shots per call or pair and remaining budget, because nothing in the code
prevents two chains for one call). The stack side has the sessions (`inv`),
wrappers (`m_calls`), `media`, the re-INVITE in flight (`reinvite`), REFERs, and
`events`, the queue of lambdas to the manager. Every command of `CallManager.h`
that changes call state is an action; the helpers `setActiveCall`,
`requestUnhold`, `wireBridge` and `handleDisconnected` are operators used by
them. `EarlyMedia` is folded into `Calling`, since the manager never tells the
two apart. `BackendErrors` lets every stack call throw; `PromptPeer` makes timers
wait for re-INVITEs in flight, i.e. the peer answers within a retry interval.
`CallManager::decline`, `forwardCall` and `hangup` are one action, `EndCall`: to
the manager they differ only in the SIP code.

### `CallMedia.tla`

One call. `setMuted` is split at its statements (`SetMutedBegin`, `SetMutedDefer`
or `SetMutedPublish` and `SetMutedTransmit`), `onCallMediaState` likewise
(`MediaChanged`, `LoadMuted`, `WireCapture`). The PJSUA lock is held by the
callback throughout and taken by each stack call of the main thread; the two
accesses of the atomic `m_muted` are outside it, which is the race. `lastMute`
records whether the last `setMuted` was applied, deferred or failed. Recorder and
player follow the manager's flags.

### `CallsController.tla`

One FIFO holds the stack's events and the controller's own queued lambdas. The
model contains `CallManager` as far as the controller can see it. Settings are a
set of features that are on (a forwarding counts as on when its target is not
empty). `rows` is the history table, one Boolean per row: does it have talk time.

### `SipBackend.tla`, `PjsipBackend.tla`, `FakeSipBackend.tla`

`SipBackend` states the rules of `ISipBackend.h` over five variables: the phase of
the backend, whether a listener is set, and the account, watch and call ids that
are valid. Its actions say which of these a command or an event may change and
when; a stop in progress (`"stopping"`) may only take away.

In `PjsipBackend` the main thread is idle or at one step of a teardown; the worker
has the list of steps its callback still has to take. `stop()` and the destructor
share their steps and differ in the last one. A callback holds the PJSUA lock
until it has posted; its tail (reads of the wrapper after the post) is not covered
by the lock, which is why `releaseCall` parks the wrapper. `Enqueue` uses the epoch
that `LoadEpoch` read earlier, as `EventDispatch::post` does.

`FakeSipBackend` is the test double: commands and `simulate*` change its tables at
once and queue events under an epoch. Both modules instantiate `SipBackend` with a
refinement mapping (`Contract`) and have `Contract!Spec` as a property: an event
lost to an epoch, a wrapper gone too early or a watch left over would be a step
the rules do not allow.

External behaviour assumed, from how the code uses it: one PJSUA worker; the
destructors of `pj::Account`, `pj::Buddy` and `pj::Call` take the PJSUA lock; the
grace window of 2.2 s is longer than the tail of any callback. `PjsipBackend.cpp`
and `EventDispatch.h` disagree on whether the `pj::Call` destructor waits for a
callback's tail; the model takes the weaker reading for `releaseCall` and claims
nothing about tails during `stop()`. In the application the order is
`setListener(nullptr)`, the destructor, then `SipEngine::stop`; `stop()` is the
contract's restartable form, and both are modelled.

### `Accounts.tla`

`m_entries`, the table as the connection sees it and as the last commit left it,
keychain, cache, bindings and registration states. An operation of
`AccountsController` is one action with all the manager does for it; in at most
`MaxFaults` operations each write to the keychain or SQLite and each `addAccount`
may fail. A binding is known by the password it authenticates with. `Restart`
loads what was committed; `CrashInRemove` stops between the keychain and the row.

### The services

* `FileKeychain`: key file and store file are written beside the old ones and
  renamed. The store is known by what a reader can do with it. `open`, `set`,
  `erase` and `persist` may fail or crash at each file operation.
* `Schema`: `Database::open` as its statements, for two openers at once, over
  SQLite's single writer and snapshots.
* `Lines`: rows, entries, the model's snapshot and the backend's watches, with
  accounts that are unbound and bound again.
* `Messages`: the table and its three views; a received message waits one turn of
  the event loop.
* `UpdateCheck`: checks of both kinds in flight together, answered in any order,
  an appcast with its entries in any order. `CompareVersions` is checked against
  the order of publication.
* `Provisioning`: the chain login, whoami, SIP device, each sent from the reply
  before; sign-ins are numbered, so a mixture shows.
* `Boot`: layers merged one at a time, accounts applied, over several launches. A
  file names up to `MaxNamed` accounts, read one after the other (`LoadAccount` is
  one turn of the loop), so that one layer can repeat an identity and two of its
  accounts can want the one line of standard input.
* `Headless`: registration results, calls, playback retries and timers as events.

### The local parts

* `Ringtone`: `tone` is the backend's player: the flag `m_ringtonePlaying`, the
  path, the player and, apart from the flag, whether the player is connected to the
  playback device, which is what one hears. An outcome of `playRingtone` or
  `stopRingtone` is the player afterwards and the result, since the stack may refuse
  any step: a refused stop clears the flag and leaves the player connected.
* `History`: rows carry the call they stand for, so reuse of ids shows; the
  database may fail either statement of `prune`. The history variable `pruned` holds
  the calls after which neither failed. The age limit is that of the call being
  written, as `append` passes it. Deleting an account's row deletes its calls.
* `Contacts`: `ParseVCard` is the fold of the parser's loop over lines,
  `PersonOf` the reference it is checked against: what a card says of a person, from
  the indexes of its lines, with nothing of the parser's state.

### MC modules

`MCServices` and `MCLocal` pool the parts that share no state: a variable fixed in
the initial state chooses one, and only its actions are taken. The others stay in
an initial state in which none of their fair actions is enabled, so their fairness
and properties hold there trivially and are checked where the part is chosen. In
`MCLocal` these parts are `Accounts`, `CallMedia`, `Ringtone`, `History` and
`Contacts`. The other MC modules extend one component.

## 4. Runs

| Run | Bounds | Shows |
|---|---|---|
| `calls_hold` | 2 calls, 1 account with 2 registrations, 2 queued events, 1 merge, 1 retry each, errors on | `WrappersAccountedFor`, `ActiveIsLive`, `NoZombieRecord` |
| `calls_transfer` | 2 calls, 1 transfer attempt per call, no retry timers, errors on | `PendingTransfersLive`, `NotifyHangsUpTheTransfer` |
| `calls_liveness` | 2 calls, fairness, prompt peer, no errors | `EndedCallsLeave`, `UnholdResolves` |
| `calls_merge` | prompt peer, no errors | violation of `MergeBridges` |
| `local` | accounts: 2 row ids, 1 operation with failures, REGISTERs that bind or unbind; media: one call, errors on; ringtone: 3 files, 2 tests; history: 2 rows kept, 5 times, 4 calls, 2 accounts; contacts: 2 sections of 2 lines, 2 columns | `MemoryMatchesDatabase`, `SecretsKept`, `CredentialsCurrent`, `StateBelongsToBinding`, `MicFollowsMute`, `MediaObjectsAccountedFor`, `RingtoneFollowsCalls`, `HistoryKeepsNewest`, `ContactsSound` |
| `history_age` | as `local` | violation of `AgeFollowsNewestCall` |
| `media_deferred_mute` | one call, no errors | violation of `MutedMeansDisconnected` |
| `controller` | 2 calls, 1 target, all 5 features, 1 toggle, 2 queued events, errors on | `HistoryComplete`, `NoDuplicateOutbound`, `SessionsMatchCalls`, `RingingSettles`, `PromptsAreCurrent`, `AnsweredNotForwarded` |
| `controller_no_answer` | 2 calls, forward on no answer | violation of `NoAnswerForwards` |
| `backend` | 2 calls, 2 accounts, 1 watch, 1 stop, 1 listener change, fairness | `KnownCallsLive`, `OwnersOutliveObjects`, `PostersQuiesced`, `QuietAfterStop`, `ReleaseKeepsWrapper`, `TeardownCompletes`, `ImplementsContract` |
| `services` | see below, fairness | `ImplementsContract` (of `FakeSipBackend`), `KeychainKeepsPromises`, `SchemaSound`, `LinesOwnWatches`, `MessagesViewsCurrent`, `UpdateAnswersAsAsked`, `UpdateOffersNewest`, `SignInConsistent`, `SignInAnswered`, `BootApplied`, `HeadlessEnds` |
| `lines_watched` | as `services` | violation of `LinesStayWatched` |

Run one with `tlc -config MCLocal.cfg MCLocal`.

**Bounds.** Every interaction between calls in this code is pairwise (active and
previously active, active and held, prompt and second prompt), so two calls reach
it; the queue bound of two lets an event wait behind another call's event. Retry
budgets of one keep the three cases (first try, retry, exhausted) of the code's
five and three. Two registrations of one account give a stale and a fresh backend
id. The queue bounds limit only when the stack may post more, never what the main
thread may do, so they remove no handler interleaving of the events there are.
Two accounts, one watch and one `stop()` cover a teardown after a removal.

Accounts: two row ids give a default that moves, an id that is reused and an
account that others must not disturb; one operation with failures covers every
partial failure once, followed by any history; nothing in the manager reads a
registration state back, so results other than success add no behaviour.
Services: two references with two values, two openers, two lines with three watches, two peers with a thread limit
of two and four messages (so the limit is exceeded), an appcast of two entries
out of five versions, three sign-ins, two identities over several launches with
two accounts to a file, two calls of the headless runner. Local parts: two history rows kept and four calls
logged, so that pruning happens with ties, older and newer times; imports go into
an empty table.

**Deadlock** is not checked: all instances have finitely many ids and stop when
these are used up, and a user may do nothing. That teardown cannot get stuck is
checked as a liveness property.

**Fairness.** `calls_liveness`: the event loop delivers queued events and fires
expired linger timers (weak fairness: both stay enabled until taken); the peer
answers re-INVITEs (PJSIP times out the transaction otherwise); unhold timers are
strongly fair because `PromptPeer` disables them while a re-INVITE is in flight,
which the real timer does not know of. Users and far ends are not obliged to do
anything. `backend`: the worker finishes its callback (callbacks do not block,
except on `m_callsMutex`), and the main thread eventually gets the PJSUA lock if
it keeps becoming free (strong fairness: a mutex that does not starve its waiter).
`services`: every HTTP request gets a reply, since each has a transfer timeout
whose expiry is a reply with an error; the headless runner's queued handlers and
one-shot timers run, and a call ends some time. The update check assumes that no
day passes in the 3 s between launch and the automatic check.

**Mutants.** Each property of a passing run has a mutant operator, next to the
definition it replaces and marked `Mutant:`, that changes one definition the way
a plausible bug would; TLC finds the property violated under it.

## 5. Where the code and its documents disagree

Shown by a run:

* **Conference** (`calls_merge`): `mergeCalls` un-holds the held call with
  `requestUnhold`, which puts the active call on hold, and a call on hold cannot be
  bridged. `CallManager.h` promises that afterwards "both remote parties hear each
  other and the local user".
* **Deferred mute** (`media_deferred_mute`): a mute that finds no active audio
  stores the flag only; a media callback that read the flag before the store opens
  the microphone of a muted call.
* **Forward on no answer** (`controller_no_answer`): a second incoming call takes
  over `m_incomingCallId`, and the first call is never forwarded.
* **Age of the history** (`history_age`): `append` prunes by the age limit of the call
  it writes (`HistoryManager.cpp:59`), while `HistoryManager.h:15-17` and `:36-38`
  speak of the newest call. The two differ when calls are logged out of the order of
  their starts, as after the clock was set back: the row just written, and rows that
  older calls leave alone, stay although they are more than `kMaxAgeMs` older than
  the newest. `HistoryKeepsNewest` states what the code does enforce: no row outlives
  a complete prune by whose call it was too old.
* **Watched lines** (`lines_watched`): lines are subscribed when the manager is
  built or a line is added; an account that is bound anew, as after a change of
  network, leaves its lines with a dead watch.

Met while modelling, and part of the models' behaviour:

* A second transfer that the stack refuses drops the pending entry of the first,
  whose 2xx then hangs nothing up (`CallManager.cpp:372`).
* Under do-not-disturb the ringtone and the tray notification start before the
  call is declined in the same turn (`CallsController.cpp:123`); `docs/interop.md`
  says "without ringing".
* A failed COMMIT in `setDefault` leaves its transaction open
  (`AccountsManager.cpp:393`): `MemoryMatchesDatabase` excepts it.
* A keychain file that cannot be opened is ignored (`Keychain_factory.cpp:24`), and
  the next `set` overwrites the store nobody has read: `KeychainKeepsPromises`
  excepts it.
* A message thread is the 500 oldest messages (`MessagesManager.cpp:112`).
* A password typed again after a failure finds nothing pending
  (`DaktelaProvider.cpp:539`, `ProviderSignInDialog.qml:142`).
* `"@stdin"` is accepted from configuration files too, not from the command line only
  (`docs/provisioning.md:141`, `BootConfig_secrets.cpp:35`): in `Boot` a file's
  account may take the one line.
* Qt lists the user's data directory first, so in `discoverProvisioning` the
  system's files are merged last and win.
* The headless runner exits after any call's end, not only that of the call it
  placed (`docs/provisioning.md:130`).
* When a new ringtone file cannot be opened, the broken player is kept under the
  old path, and the old ringtone stays silent until another file is chosen
  (`PjsipBackend.cpp:474`): `RingtoneFollowsCalls` speaks of attempts the stack
  accepted.
* When the stack refuses to stop the ringtone, `stopRingtone` clears the flag and the
  player goes on looping; every later stop returns early (`PjsipBackend.cpp:490`), so
  it is heard until the next ringtone has been started, with the same file and
  stopped again or with another file and so in a new player. `RingtoneFollowsCalls`
  excepts it: `stopRefused`.
* Overlapping sign-ins share one set of members, and an account may end up with parts
  of both: `SignInConsistent` speaks of sign-ins that do not overlap.
* The history list is not refreshed when the calls of a removed account are deleted
  with it; `HistoryKeepsNewest` speaks of the accounts there are.
* A stray second `END:VCARD` imports the card before it again
  (`ContactImporter.cpp:77`); the files of the run have none.

## 6. Proofs

The modules below are checked by TLAPS for all values of the constants, under the
named assumptions of the modules: bounds are naturals, switches Boolean, and a
value that stands for "none" (`NoPeer`, `NoOpener`, `NoSecret`, ...) is not one of
the values. TLC evaluates each assumption in the runs. The proof of a safety
property has three parts: the initial states satisfy an inductive invariant, every
step keeps it (one lemma or case per action, with a lemma for each operator that
several actions share), and it implies the property. Each inductive invariant was
first checked by TLC on a small instance.

### `CallManagerProofs`

* `TypeCorrect`, `ActiveCallIsLive`, `PendingTransfersBelong`: the three together
  form the inductive invariant `CallInv`. Typing is needed for the other two
  because it carries `held \subseteq Live`: promotion picks from the held calls, so
  without it the promoted call need not be live. One lemma per operator shared by
  actions (`SetActiveCall`, `RequestUnhold`, `PromoteAfter`) says what it may do to
  the active call.
* `WrappersReleased`, `NoZombies`: the manager lags behind the stack by what is
  queued, so `QueueInv` relates records and wrappers through the queue. Ids are
  minted once (`Minted`, `EventsKnown`); a call has no event before the one that
  announces it (`IncomingFirst`: otherwise an end could be delivered before there
  is a record to end); and what the manager does not know yet of a session is
  queued (`Announced`).
* `OnlyLegsEnd`: an action property for any number of transfers: a NOTIFY hangs up
  nothing but legs of a transfer that the stack accepted, and a provisional or
  failed one nothing at all.
* `NotifyEndsTransfer`: a NOTIFY of success hangs up all of the legs, under the
  hypothesis `MaxTransfers = 1`. The hypothesis is needed: a second attempt that
  the stack refuses drops the pending entry of the first (`CallManager.cpp:372`),
  and the NOTIFY of the first then finds no legs.

### `CallsControllerProofs`

One invariant, `IInv`, carries `HistoryIsComplete`, `NoDuplicateCalls`,
`SessionsFollowCalls`, `RingingIsSettled`, `PromptsFollowCalls` and
`AnsweredStaysAnswered`. The properties speak of a drained queue, so the invariant
has to say what is still queued when it is not. `Pending` is the queue seen as a
set; that loses nothing, since the events of a call to one receiver are queued in
the order of its states, so none occurs twice (`QueueOK`; lemmas `Push`, `Pop`,
`Relay`, `Consume`). Each call then satisfies `CallOK`:

* `Fresh`: nothing is known of an id that was not given out;
* `InStep`: the controller hears of a state before `CallManager` does of the next;
* `Coming`, `Alive`, `Over`: before it is announced, while it has a record, and
  after, the call has its session and its row exactly as far as its queued events
  say, which is what makes one row per call inductive;
* `Talk`: that a call was answered is known to its session or on the way there.

`TimersOK` says that no call has both timers and that an answered call that is
still prompted for has no no-answer timer.

### `PjsipBackendProofs` and `FakeSipBackendProofs`

* `IInv` follows the two threads: `StagesOK` says what each step of a teardown has
  left behind and what stays that way; `FreshIds`, `IncomingOK` that an incoming
  call is in one place only (its callback, the queue or the listener) and has its
  wrapper on the way; `EpochsOK` that nothing of the present epoch is queued for a
  stopped backend. `KnownCallsLive` needs them all: the listener learns of a call
  by an event that may have been posted before a stop or a change of listener.
* From it `HeldCallsLive`, `OwnersOutlive` and `NoPosterLeft`, and as action
  properties `StoppedIsQuiet` and `WrapperOutlivesCallback`.
* `AdapterImplements`: the initial states map to initial states of `SipBackend`, and
  under `IInv` every step maps to a step of the contract or changes none of its
  variables, shown action by action. The invariant is needed where the contract has
  a guard that the code does not test (an id that is handed out was not in use, an
  event is of a call that is valid).
* `ScriptImplements`: the same for the scripted backend, with `FakeInv`, which is
  simpler because commands take effect at once.

### `AccountsProofs`

`IInv` is typing, `TablesOK`, `CacheCurrent`, `SecretsKept`, `CredentialsCurrent`
and `StateBelongsToBinding`. `TablesOK` says that accounts have keychain references
of their own (without that, removing one could take another's password), that the
table and memory hold the same accounts, but for which is the default, even while a
failed COMMIT has left a transaction open, and that without one all copies are
equal. `CacheCurrent` is what makes a binding that takes its password from the
cache use the keychain's. Theorems: `MemoryIsDatabase`, `PasswordsKept`,
`BindingsUseKeychain`, `StateIsTheBindings`.

### `LocalProofs`

The parts of `MCLocal`.

* `MuteHolds`: `MicInv` says that outside of a `setMuted` between publishing and
  transmitting, the UI's flag, the published flag, the flag a callback has read and
  the capture link agree, and that during one the published flag is the wanted one.
  `MicFollowsMute` alone is not inductive: it says nothing of what a callback in
  flight has read.
* `MediaObjectsKept`: inductive together with typing (`MediaTypeCorrect`).
* `RingtoneIsRight`: `RingtoneInv` relates flag and sound (`Linked`: what plays by the
  flag is connected, and what is connected plays or could not be stopped) and says
  that without a test running the flag is up for a ringing call only. The property
  alone is not inductive: it does not say that a player whose flag is down and whose
  stop was not refused is silent, so that a stop may return early. A lemma for each
  operator of the backend (`PlayOutcomes`, `StoppedFacts`, ...) says what its
  outcomes keep; `ApplyRingtoneStateSettles` carries the argument.
* `HistoryIsKept`: rows are of logged calls, at most one of each, with ids in the
  order of logging: a row id is reused only when all larger ones are gone. What is
  in `pruned` was logged, so the call that comes next is not in it yet and a prune
  answers for the rows of its call and of those before it.
* `ContactsAreSound`: `ContactsSound` is inductive; the work is what the parsers
  compute. `CardRead` follows the lines of one card: after each the parser holds
  what the lines so far say of a person (`SaidMore`). `SectionRead` and `FileHasRead`
  follow the sections of a file: a card adds its person, or a drop, whatever a card
  cut off before it left behind, and a line outside any card changes nothing.
  `CsvCounted` follows the rows of a CSV file. `AllAdded` says that contacts numbered
  by position are as many as were parsed.

### `ServicesProofs`

The parts of `MCServices`.

| Theorem | What the invariant adds |
| --- | --- |
| `KeychainIsDurable` | There is a key before there is a store, and a program that has its key writes under a salt unless it could not read the store. |
| `MigrationsAreSound` | Per opener, `Progress` (what its transaction has seen, and that who commits holds the lock on the last commit) and `Alone` (an opener without excuse is alone at work). |
| `SignInIsConsistent` | Without overlap one request is in flight at most, of the last sign-in and about its members. |
| `AnswersAsAsked` | `FlagOK`: whose the shared flag is while checks are in flight; before the start-up timer fires the stamp of a manual check keeps the automatic one away. |
| `NewestIsOffered` | Nothing; see below. |
| `BootIsApplied` | `Merging`: until the last layer nothing is applied and every mention is kept; `Applied`: an identity is there as often as the mentions applied so far say, those left to apply counted apart; `PasswordsKept`: accounts keep their places. |
| `ViewsAreCurrent` | The three views equal their queries over the table of the moment. |
| `SubscriptionsOwned` | Handles are used once, every live watch has its line and every line its row. |

`NewestIsOffered` has a hypothesis, `PublishedInOrder`: the releases are versions,
each above the one published before it. Above is `Below`, stated without
`compareVersions`: the first difference of the release numbers (missing ones are
zero) decides, then that of the suffixes, a version without one being the highest.
Without the hypothesis "published last" and "newest" are different things; the
releases of the run satisfy it. The proof shows that `Below` is a strict order
(`BelowIsAnOrder`), that `CompareVersions` decides it (`ComparesKeys`), and that the
fold over an appcast keeps the newest trusted entry (`ParsesToNewest`).

### `Induction`

The facts about numbers and sequences that several proofs share.

* `MaxFacts`, `MinFacts`: the largest and the least of a set of numbers. New row ids
  in `Accounts`, `Lines` and `History`, the last message of a conversation, the
  retention rule, the first version number that differs rest on them.
* `NatSetInduction`, `RangeInduction`: a set that holds 0 and the successor of each
  of its members holds all numbers, from the fact that the order on them is
  well-founded. A proof by induction names the set of the numbers for which its
  claim holds, and so needs no theorem with an operator for a parameter.
* `FoldDefined`, `SameSteps`: the recursive equation that defines the library's folds
  has a solution, and two histories that start alike and go on alike end alike. So
  `FoldLeft` and `FlattenSeq` can be
  expanded step by step (`ReadsInSteps`, `FlattensInSteps`, `CsvInSteps`,
  `ParsesInSteps`, `LoadsInSteps`), for sequences of any length.

### Only model-checked

* Liveness (`EndedCallsLeave`, `UnholdResolves`, `TeardownCompletes`,
  `SignInAnswered`, `HeadlessEnds`): with fairness and `ENABLED` out of the prover's
  reach.
* The five runs that show where code and documents disagree (section 5).

## 7. Not modelled

* Formats: URIs, display names, SIP reasons, JSON, the command line's syntax, the
  splitting of vCard and CSV lines. The parsers' decisions are modelled, their
  strings are not.
* Audio devices, codecs, statistics, DTMF, endpoint and transport configuration
  (`SipEngine`): calls into PJSIP with no state of their own.
* `UrlDispatcher` and `SipUri`, logging, tray, QML (except the sign-in wizard),
  autostart, the keychains of macOS, Windows and libsecret: thin calls into the
  platform, or presentation of state kept elsewhere.
* Settings other than those named above: one assignment and one write each.
* Automatic recording in `CallsController` (one retry after 500 ms); `CallMedia`
  has the recording commands it calls. Message-waiting counts.
* A failing `addAccount` while `Boot` applies its accounts: `Accounts` has its
  failures; the boot goes on with the next account.
* Time is abstracted to the order in which timers fire; durations in the history
  to whether there was talk time.
