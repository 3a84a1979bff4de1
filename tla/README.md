# ReSide in TLA+

ReSide keeps sideloaded iOS apps alive: it signs an IPA with a free Apple account,
installs it on a phone and re-signs it before the seven-day profile runs out. The
source is under `src/`; paths below are relative to `src/crates/`. This directory
holds TLA+ models of the parts whose correctness depends on order, time and failure,
the TLC runs that check them on small instances, and theorems that TLAPS proves for
every value of the constants.

## The system

Two programs share one SQLite database, one lock file and one phone:

- the desktop app (`tauri-app/src-tauri`), whose commands run concurrently in one
  process: the frontend may issue any of them while others are in flight;
- `reside-agent` (`agent`), headless, started by a systemd timer every six hours
  (or looping, from an autostart entry), which runs one sweep of the refresh engine.

Both link `reside-core` (`core`).

| Component | State | Operations | What makes it correct |
|---|---|---|---|
| Refresh engine `core/src/refresh/scheduler.rs` | `jobs` rows, `installations.refresh_status` | `due_installs`, `refresh_installation`, `refresh_due` | due apps are found, refreshed once at a time, retried with backoff or blocked for the user; status and job never contradict each other |
| Process lock `core/src/proc_lock.rs` | flock on `agent.pid` | `try_acquire`, `release`, death of the process | one sweep at a time, never left behind |
| Inventory `core/src/installs.rs` | `devices`, `signing_profiles`, `apps`, `installations` | `record_install` (one transaction) | what is on record matches what is on the phone, erring on the early side |
| Tauri commands `tauri-app/src-tauri/src/lib.rs` | `AppState`: pool, session credentials, IPA store | `install_ipa`, `refresh_app`, `refresh_due_now`, credentials, devices, agent switch | they may overlap with each other and with the agent |
| Wi-Fi transport `core/src/transport/muxer.rs`, `wifi_cache.rs` | the supervised netmuxd child, the port, the cache | `route_to`, `ensure_netmuxd`, `resolve_wifi_devices`, `shutdown` | a routed flow keeps its bridge, the bridge does not outlive its use, one per port |
| Credentials `core/src/secure_storage.rs`, `signer.rs` | two keyring secrets, session copy | `store`, `load`, `clear`, `resolve_*` | never half of one account and half of another; a sign-in or sign-out that returned holds |
| Signer bridge `core/src/signer.rs` | a child process per run | `install`, `cert_list`, `revoke_cert` | its output is classified into the right `AppError` |
| Operation events `core/src/operation.rs` | a bounded broadcast channel | `start`, `stage`, `done`, `fail`; the bridge task of the app | the newest event reaches the dialog |
| Devices and tunnels `core/src/device`, `core/src/transport/tunneld.rs`, `remote_xpc.rs` | usbmuxd's pair records, the `devices` rows, the tunnel map | `pair_device`, `developer_mode_status`, `list_devices`, `connect`, `status` | one identity per host, trust that is real, names and cached answers that are right, no tunnel leaked |
| Autopilot `core/src/refresh/agent.rs` | unit files, the autostart entry, systemd's links | `install`, `uninstall`, `status` | what the toggle says is what the next login does |
| IPA store `core/src/ipa_store.rs`, `ipa_meta.rs` | files named by hash | `store_file`, `read_ipa_metadata` | a name promises the content |
| Parked signing path `core/src/signing` | scratch trees, quota rows, ADI libraries | `sign_ipa`, `check`, `record`, `authenticate` | identifiers stay associated, the quota mirror is conservative, the login stays local; no caller reaches it yet |
| Setup `core/src/setup` | the ADI libraries on disk | `provision_from_apk`, probes | what a killed extraction leaves is noticed |
| Database, paths, errors `core/src/db.rs`, `paths.rs`, `error.rs`, `locate.rs` | | open, migrate, look up | |
| Frontend `tauri-app/src` | views | `useOperation`, the dialogs | shows what the commands say |

Interactions. A refresh calls the credential store, then the transport (`route_to`),
then the signer, and last `record_install`; `install_ipa` does the same without the
engine's bookkeeping. `refresh_due` alone takes the process lock. Progress goes
through the operation channel to the window. The agent shuts its bridge down after
each sweep, the app on exit and after `resolve_wifi_devices`.

What is hard: the two programs and the commands interleave between SQL statements;
the signer runs for minutes, without a timeout, between reading the inventory and
writing it; a sweep works off a list, and dates everything it records, with what it
read at its start; any statement may fail and any process may die between two steps,
while the signer child lives on; and what hides an installation from the due query
(`refreshing`, `blocked`, a backoff) must be undone by somebody. `PROJECT.json`
lists each hazard with its line and the properties aimed at it.

## Modules

| Module | What it is |
|---|---|
| `RefreshScheduler` | the refresh engine, the lock, the inventory write and the commands beside them |
| `MCRefreshScheduler` | its instances for TLC |
| `RefreshScheduler_proofs` | type correctness |
| `RefreshSafety_proofs` | the lock, the recorded expiry and the `refreshing` status, with every task and fault; what holds because the refreshes are under the lock |
| `RefreshLedger_proofs` | the due list, the failed status, lapsed installations, blocked jobs, and the refinement |
| `ProfileLedger` | the abstract specification: what unattended refreshing promises |
| `Muxer` | the Wi-Fi bridge: routes, resolves, sweeps and the exit, over any number of processes |
| `MCMuxer` | its instances for TLC |
| `Muxer_proofs` | its types, its lock, what an on-demand process leaves behind, and what cuts a bridge off |
| `Credentials` | the Apple account in the keyring and in the session |
| `Autopilot` | the trigger of the background agent; what "on" and "off" mean |
| `Sideload` | `install_ipa` with the IPA store, the signer's verdicts and the record |
| `OperationEvents` | progress from an operation to its dialog |
| `DeviceTrust` | pairing, Developer Mode and the tunnel of one phone |
| `DeviceList` | the list of devices and the names in it |
| `SigningPipeline` | the parked `sign_ipa` |
| `AppleQuota` | the parked quota mirror |
| `Anisette` | the parked gate before the Apple login, and the extraction of its libraries |
| `Desktop`, `MCDesktop` | the nine modules above, from `Credentials` on, side by side |
| `Commands_proofs` | theorems on `Credentials`, `Autopilot`, `Sideload` and `OperationEvents` |
| `Devices_proofs` | theorems on `DeviceTrust` and `DeviceList` |
| `Parked_proofs` | theorems on `AppleQuota`, `Anisette` and `SigningPipeline` |
| `Desktop_proofs` | that `Desktop` behaves as each of its parts, and so keeps what they keep |

### RefreshScheduler

A *task* is one call in flight: a sweep of an agent process or of the app
(`refresh_due`), one `refresh_app` or one `install_ipa`. The app's tasks share a
process, each agent is one of its own. The steps of a task are the statements of the
code that another task could see between:

| Action | Code |
|---|---|
| `SweepStart` | `unix_now`, `ProcLock::try_acquire`, `due_installs`; when the lock is held, nothing changes |
| `TakeDue`, `SweepEnd` | the loop of `refresh_due`, soonest to expire first, and `lock.release` |
| `RefreshApp` | the `refresh_app` command |
| `Load`, `Mark` | `load_installation` (the stored IPA's path is read here), status `refreshing` |
| `SignOk`, `SignFail` | `refresh_inner` up to the signer: credentials, transport, IPA, signer |
| `Record` | `record_install`, dated with the `now` the caller read at its start |
| `JobSelect`, `JobWrite` | the two statements of `upsert_job`; `mem.upsert` says for whom: `clear_job`, the two upserts of `record_retry`, `block_job` |
| `Restore` | `set_refresh_status` after a failure |
| `InstallIpa`, `InstallSigned`, `InstallFail`, `InstallRecord` | `install_ipa`, which reads its `now` after the signer and after `device_row_for` |
| `DbError` | the `?` after each statement: inside `refresh_inner` the failure is recorded as transient, elsewhere the function returns |
| `Crash` | a process dies: its lock is dropped by the OS; the signer child is not killed with its parent, so a run in progress may go on alone (`orphans`) |
| `OrphanEnds` | a run nobody waits for exits: at any later time, with or without the app on the phone, whoever holds the lock or signs for the same installation by then |
| `Tick` | time |

State: `status`, `expiry`, `source` and `jobs` are the database columns the engine
reads, `lock` is the flock, `device` is what is really on the phone (the expiry of its
profile and the IPA it came from), `orphans` the signer runs that outlived their process,
and `pc`, `inst`, `due`, `mem` are the tasks' locals. `jobs[i]` is a sequence, because nothing in the schema keeps a second row out
and the due query would then return the installation twice. An IPA is a model value;
`AppError` values are strings split by `Disposition` exactly as the code splits them.

Left out: the activity log and progress events (no decision reads them), the rows of
`devices` and `signing_profiles`, and what the signer does inside. The profile is dated
at the end of the signer's run; Apple dates it some moments earlier.

### Muxer

A *flow* is one call in flight: a signing run that asks `route_to` for a way to its
phone (`Route`), a `resolve_wifi_devices` (`Resolver`), the agent's `sweep_once`
(`Sweep`: any number of routed runs, then `shutdown`) or the exit of the app (`Exit`).
A `refresh_due_now` is a `Route` flow that is repeated. A *bridge* is a netmuxd. The
steps lie between the awaits:

| Action | Code |
|---|---|
| `RouteStart`, `Reuse`, `Unserved` | `route_to`: the cable, then the port as it is |
| `Connect`, `Lock`, `Recheck`, `Spawn`, `SpawnFail` | `ensure_netmuxd`; the child that is replaced is killed with its handle |
| `Found`, `GiveUp`, `AnyFound`, `NoneFound` | the two polls and their deadline, which may pass at any time |
| `Used` | the signer's run over the route is over |
| `ResolveStart`, `Enumerate` | `resolve_wifi_devices`, with the session cache |
| `NothingToStop`, `Kill`, `Reap` | `shutdown`: the guard of the `if let` lives until `kill().await` returns |
| `SweepStart`, `SweepDone`, `AppExit`, `Terminate` | its callers in the agent and the app |
| `Crash` | a process is killed: no handle is dropped, the child is orphaned |
| `Listen`, `StrayListens`, `BridgeExit`, `StrayExit`, `Discover`, `Vanish`, `Plug` | netmuxd, usbmuxd and the phones, which are external |

State: `bridge[p]` is the child in `supervised()` of process `p` (a handle whose child
has exited is `"none"`: `kill` and the replacement do nothing to it), `mutex[p]` the
lock around it, `stray` a netmuxd nobody supervises, `sees` what the one on the port has
discovered, `cache[p]` the session cache, and `via[f]` what `route_to` answered, turned
to `"cut"` when that bridge goes: this last value is the model's, the code does not
learn of it. `Spawn` takes the refused connect and the assignment as one step, because
nothing is awaited between them; a phone, which takes tens of seconds to be discovered,
is not found in that gap.

Left out: protocol errors of a probe while the phone is there, which the poll repeats.

### The parts around the engine

Nine modules model what the app does besides refreshing. They share no variable: what
connects them (an install that reads the account, the transport, the store and the
device list) is in each of them a free choice of what the others may answer. `Desktop`
composes them as a choice: a behaviour picks one part that moves and leaves the others
in their initial state, so that one run serves the nine of them and their state spaces
add instead of multiplying. An invariant about one part holds of every interleaving of
the nine if it holds there, since no step of one changes, or reads, what the invariant
is about.

*Ghosts.* Some variables are the models' own, to say what the code promises and under
which conditions: `promise` and `alone` (Credentials), `switched` and `told` (what the last
switch did and what the toggle shows; Autopilot), `misfiled`,
`kept` and `alone` (Sideload), `lost` (OperationEvents), `agreed`, `churned`, `alone`,
`seen` (DeviceTrust), `doubted` (DeviceList), `sole` (AppleQuota), `calm` (Anisette).
Only ghosts and properties read them.

`Credentials`. A call of the app or of the agent is a sequence of keyring requests, one
step each. `SignInKeyring`, `SetId`, `SetPassword`, `SetFails` are
`set_apple_credentials` over `store_credentials`; `SignOut`, `DeleteId`,
`DeletePassword`, `DeleteFails`, `Forget` are `sign_out`; `UseSession`, `UseKeyring`,
`ReadId`, `ReadPassword`, `ReadFails`, `Sign` are `resolve_credentials` and the engine's
load. `Reach` is the Secret Service coming and going, `Restart` a process that probes it
anew: `SecureStore::detect` decides once per process. With `Unavailable`, `set` fails,
`get` and `delete` find nothing.

`Autopilot`. `Write`, `Reload`, `Enable` are `install_systemd` and `install_autostart`;
`Disable`, `RemoveFile`, `CheckTimer` are the two uninstalls; `Report` is the status
both end with, and `AgentStatus` the `agent_status` command, which asks for the same at any
time and backs the toggle; `Die` is the app dying, or `set_background_agent` returning early.
`Status` is what either may be answered: under systemd the word `is-enabled` prints, in an
autostart session whether the entry exists, and of the other mechanism nothing. A
`systemctl` that cannot run or prints nothing is read as "off" by `timer_is_enabled`; the
model calls this answer "mute", so that the properties can tell it from an "off" that
systemctl did say.
`Login` begins a session, perhaps under the other mechanism; `TimerFires` and `RunEnds`
are the agent that is started. `AutoFaults` says which steps may fail.

`Sideload`. One step per await or file operation of `install_ipa`: the two passes of
`store_file` read the picked file apart (`HashPass`, `CopyBegins`, `CopyEnds`),
`SignAndInstall` is the fork with every exit code and up to two of the phrases
`classify` looks for, in its order, and `RecordInstall` the transaction. `SourceChanges`
is the user saving another build under the path, `AppDies` the end of the process. A signer
that was launched is not killed with it: it stays as an `orphan` and may reach the phone at
any later time (`OrphanEnds`), beside whatever the restarted app installs by then. A call is
`alone` if no other ran beside it, the picked file did not change, and no orphan reached
the phone between its own signer and its record.

`OperationEvents`. `Emit` is a send into the ring of `Capacity` events, `Forward` and
`Lag` the receiver in `lib.rs`. `AdvanceOperation` and `FailOperation` follow the stages
the commands send, `ReturnSilently` the returns of `refresh_installation` that send
nothing.

`DeviceTrust`. `PairIdentity` to `PairSave` are `pair_device`, with the dialog in
between; `ReadLive`, `WriteCache` are `developer_mode_status`; `AppInstalled`,
`RecordDevice` are an install, which records the mode as on; `Establish`, `Insert` are
`connect_usb`, the handshake outside the lock and the exchange in the map under it.
`IdevicePair` and `Untrust` are other tools and the user.

`DeviceList`. `Enumerate` and `Merge` are `list_devices` of the core, `Overlay` that of
the app, `RecordRow` is `device_row_for` with the row `record_install` writes,
`ResolveWifi` the session cache being replaced. A name is the phone it belongs to.

`SigningPipeline`. One step per stage of `sign_ipa`; `RewritePlist` is one `Info.plist`.
An identifier is the sequence of its segments. `RewrittenMain`, `RewriteNested`,
`IsValid` and `FilterEntitlements` are the pure functions.

`AppleQuota`. `Check`, `AppleConfirms`, `Record` are the three steps a caller is told to
take; a registration has an age in Apple's books and another in ours.

`Anisette`. `WriteBegins` and `WriteEnds` are one library of `provision_from_apk`;
`RequireProvisioned`, `VerifyLocalProvider`, `AppleLogin` are `authenticate`.

## Runs

The first six are instances of `MCRefreshScheduler`, the next three of `MCMuxer`, then
`MCDesktop`, `Credentials` and `Autopilot`. Times are in abstract units: a lifetime of 2
or 3, a lead of 1, a backoff of 1 doubling to a cap of 1 or 2.

| Run | Instance | Shows |
|---|---|---|
| `sweeps` | 2 installations, an agent sweep, a UI sweep; any process may die, its signer running on, and any statement fail; fair | types; the lock is held exactly by the running sweep; one job row; the due list stays true while it is worked off; `failed` if and only if blocked; the recorded expiry never goes back and never overpromises; no sweep retries what waits for the user; every sweep gives the lock back, unless it waits for ever for its signer; the engine implements `ProfileLedger` |
| `manual` | empty database, one app; an agent sweep, a `refresh_app` and an `install_ipa`, each again and again | every status `refreshing` has a task behind it; the record never overpromises; a lapsed app is always found again |
| `overlap` (violated) | an agent sweep and a `refresh_app` | two signers on one installation |
| `stranded` (violated) | an agent sweep, failing statements | a row left in `refreshing` |
| `hidden_block` (violated) | an agent sweep and an `install_ipa` | a blocked job behind status `idle` |
| `stale_ipa` (violated) | an agent sweep and an `install_ipa`, two versions | an old IPA put back over a new one |
| `bridge` | an app (a signing run, a resolve, its exit) beside an agent; spawns fail, bridges exit, processes die | types; the lock is held exactly while the child changes; the agent leaves no child; a bridge in use is lost only to its own death or a shutdown of its owner |
| `bridge_ends` | the app alone, fair, spawns may fail | every route is decided, every shutdown returns |
| `pulled` (violated) | a signing run and a resolve, nothing fails | the resolve kills the bridge under the signing run |
| `desktop` | the nine parts, two calls in flight in each, two accounts, contents or phones, every fault | the promises listed below |
| `switch` (violated) | one user, two accounts | a keyring sign-in that does not replace the session copy |
| `toggle` (violated) | nothing fails, the next session offers another mechanism | the toggle shows "off" over a trigger that the next login starts |

What `desktop` checks of each part:

| Part | Properties |
|---|---|
| Credentials | `KeyringKept`: a sign-in or sign-out that returned, undisturbed, holds; `CleanRead`: no call signs with the halves of two accounts |
| Autopilot | `OnMeansTriggered`, `OffMeansNoTrigger`: a switch that returned Ok decides what later logins start; `ToggleIsRight`: what the toggle shows, whenever it asks, does not contradict that switch |
| Sideload | `KeptEverywhere`: phone, record and stored file of an undisturbed install agree, whatever cut-short copies, failed calls and signers left by a dead app surround it |
| OperationEvents | `NewestIsShown`: dropped events do not leave a dialog at the wrong end; `ProgressForward`: a dialog never goes back |
| DeviceTrust | `OneIdentity`, `PairedIsTrusted`, `FallbackIsNewest`, `TunnelsAccounted` |
| DeviceList | `KnownByItsName`: no known phone under the name of another |
| SigningPipeline | `AssociationKept`: nested identifiers stay below the main one and do not collide; `OkIsInstallable` |
| AppleQuota | `FailFast`: a check passed alone is not turned away; `OverrunBounded`: what a race costs |
| Anisette | `NoRemoteFallback`: no login slides into remote anisette |

They are conditional where the code is: the conditions are part of each property, and
what happens outside them is under *Known limits* below.

The violated runs are disagreements between the code and its own comments; the
findings in `PROJECT.json` quote both.

Bounds. `MaxTime` stops the clock; it is at least one lifetime plus one backoff, so
that an app falls due, is retried, and lapses within it. `RetryCap` saturates
`retry_count` once the delay is at its cap: no decision tells larger counts apart.
`RecordLag` bounds `device_row_for`, the one stretch in which a manual install can
date its record later than the device; it is 0 in the runs without installs. Two orphaned
runs of one version on one installation count as one (`orphans` is a set), and in `Sideload`
a dialog leaves one orphan behind at a time. Two
installations are enough for a due list with an order and for a second item that waits
while the first is worked on; two tasks that refresh, plus one that installs, for every
pair the code lets overlap. `manual` has one installation, since tasks on different
installations share only the lock there. The muxer has no counter to bound: its instances have one
flow of each kind, which is enough for two flows of one process at the lock, for two
processes at the port and for a bridge used by one process and owned by another, and one
phone, since a flow only asks whether its own is there. `CHECK_DEADLOCK` is off in `desktop`
alone, where the calls under one operation id run out (`Attempts`); elsewhere a task can
always begin.

In `desktop` two calls in flight make every pair of operations overlap, and two accounts,
contents or phones tell right from wrong. `Capacity` 2 (256 in the code) lets a call
outrun the receiver; `Attempts` 2 gives one retry; `Tunnel` names one tunnel for each
call and one for the map; `Depth` 2 gives identifiers with a child and a foreign sibling;
`Limit` 2 and `Window` 2 let registrations age out while others are under way, and `Slot`
has a name for each of them. `Framework` is empty there: frameworks are rewritten as
extensions are and get no profile, and a third bundle multiplies the state space by ten
without a case the pair lacks; with one framework the module alone was checked and holds.
Accounts, contents and phones are one set of interchangeable values, the callers another
(`Symmetry`); no part compares them with anything but equality.

Fairness. `sweeps` needs it for `SweepReleasesLock`: weak fairness of the steps
of a running sweep, but for those of the signer. They are statements and a pass of a loop,
and none of them waits for another task. The signer is awaited without a timeout
(`core/src/signer.rs:241`), so nothing is assumed of it: `SignOk` and `SignFail` may never
come, and the property says that every sweep gives the lock back or stays in the signer for
ever. That an orphan ends, a sweep starts, time passes, or a command is given is not
assumed either.
`bridge_ends` assumes weak fairness of the steps of a flow inside `route_to` or
`shutdown`: the polls end at their deadline and a child sent SIGKILL is reaped. The steps
that take the lock are strongly fair, because tokio's `Mutex` queues its waiters in
order. That netmuxd ever listens, or a phone is ever seen, is not assumed.
The parts in `desktop` have safety properties only: what they wait for is the user, the
keyring, a phone or Apple, and the code sets no limit to it.

## Theorems

All proofs are checked by TLAPS. Those of the refresh engine hold for any sets of
installations, tasks, versions and errors and any durations with `Lead < Lifetime`.
They rest on the three assumptions of `RefreshScheduler`: agents and the app's calls are different tasks
(`TaskAssumption`), the initial data refer to each other (`DataAssumption`), and the
durations are natural numbers (`TimeAssumption`).

| Theorem | Says | Argument |
|---|---|---|
| `TypeCorrect` | `Spec => [](TypeOK /\ HasInstall)` | `HasInstall` (every task at work has an installation) is what makes the types inductive |
| `LockMutex` | `Spec => []LockMeansSweep` | inductive with the types: only `SweepStart`, `SweepEnd` and `Crash` touch the lock, every other step of a sweep leaves it a sweep |
| `Promise` | `Spec => []NeverOverpromises` | with `TimeInv`: every `now` lies in the past, and between the signer and the write that records it the device already has the time about to be written; device expiries only grow, also when an orphan lands |
| `Backed` | without faults, `[]RefreshingIsBacked` | with `BackedInv`, which says more exactly who will still change the status: not a task that is already clearing the job |
| `SingleJob` | without `refresh_app`, `[]OneJobRow` | with the lock, and with `JobInv`: what `JobSelect` saw still holds when `JobWrite` acts on it |
| `NeverShrinks` | with sweeps alone, `ExpiryNeverShrinks` | with the lock, and with `FreshInv`: nothing on record is later than a lifetime after the running sweep's own `now` |
| `NotForgotten` | without faults and with `RecordLag <= Lead`, `[]LapsedNotForgotten` | what hides a lapsed installation has a task behind it or ends within the backoff |
| `ListStaysTrue` | with sweeps alone, `[]DueListStaysTrue` | under the lock nobody else writes what the due query read |
| `FailedTells` | with sweeps alone, `[]FailedIffBlocked` | status and job are written by one task, and the invariant says which of the two is ahead at each of its steps (`Surfacing`); wherever an attempt is given up, the row says `refreshing` or is not behind its job (`GivenUp`) |
| `BlockedWaits` | without `refresh_app`, `BlockedNotRetried` | with the lock and the single job row, and with `GateInv`: nothing that a running sweep still has to do on its list, nor the item it is about to mark, has a blocked job; only a sweep blocks a job, and only the item it has in hand, which it has taken off its list |
| `LedgerKept` | with sweeps alone, `Spec => KeepsLedger` | the refinement below, step by step, from the invariants above |

The theorems on `Backed`, `SingleJob` and `NeverShrinks` carry a premise, as do the last
five, and it is needed: with crashes or failing statements a row is stranded (run
`stranded`); with `refresh_app` beside a sweep a second job row can be inserted, or a job be
blocked that the sweep has on its list; and a command that finishes inside a sweep records
a later expiry than the one the sweep then writes.

*Refinement.* `ProfileLedger` states what unattended refreshing promises, with no tables,
statements, due lists or job rows: one sweep at a time renews; it renews only what has
come into its lead window and may be tried now; it books no less than was booked and no
more than the phone has; and it settles each attempt, so that the installation may be
tried again within the backoff cap or waits for a person. `RefreshScheduler` instantiates
it with the lock's holder as the sweep, the recorded and the real expiry, and for each
installation the gate that its job row stands for (`Gate`). A crash in the middle of a
renewal maps to the end of the sweep, which leaves that renewal `adrift`: `OrphanEnds` is the
ledger's `Drift`, a step of its own at any later time, beside any sweep. What the ledger
still promises then: only a renewal of an installation that was due is left adrift, and no
more is ever booked than the phone has. The run `sweeps` checks `KeepsLedger`,
`LedgerKept` proves it for any constants.

Only model-checked are the liveness properties `SweepReleasesLock`, `RouteDecides` and
`ShutdownReturns`, which are out of the prover's reach, and the properties of the violated
runs, which do not hold. Every other property that a run checks is stated by
a theorem, and where the theorem has a premise the instance of that run meets it.

`Muxer_proofs` rests on `FlowAssumption`: the kinds of flow are disjoint and each flow
belongs to a process. Its theorems hold for any processes, flows and phones, with every
fault.

| Theorem | Says | Argument |
|---|---|---|
| `TypeCorrect` | `Spec => []TypeOK` | inductive as it stands |
| `LockGuards` | `Spec => []LockedWhileChanging` | inductive with the types: `Lock` and `Kill` take the guard, `Ensure`, `Reap` and death give it back, every other step is outside the guarded stretches |
| `OnlyShutdownCuts` | `Spec => CutOnlyByShutdown` | from the types, one step at a time: the port is closed by a reaping, by the end of a process, or by a bridge that exits, and the first two have a child of that process being killed |
| `OnDemandOnly` | `Spec => []NothingLingers` | with `Kept`: as long as there is a child some *keeper* will still call `shutdown`; a resolve becomes one only past `ensure_netmuxd`, since a failed spawn returns without it, and `ExitPath` keeps the exit out of the routing steps |

`NothingLingers` is about processes without `Route` flows. The app keeps its bridge
between signing runs by design, and at its exit the promise of `lib.rs:1062` has a gap: a
flow queued for the lock behind the exit's `shutdown` may still spawn before the process
ends.

The parts around the engine, for any number of calls in flight, accounts, contents, phones
and bundles. Each part has an invariant of its own (`CredInv`, `AutoInv`, `SideInv`,
`EventInv`, `TrustInv`, `ListInv`, `PipeInv`, `QuotaInv`, `AdiInv`), which is inductive and
whose named conjuncts say what the argument says; TLC has checked all nine on the instance
of `desktop`.

| Theorem | Says | Argument |
|---|---|---|
| `PromiseKept` | `[]KeyringKept` | a promise stands only while nobody writes, and it is made by a writer that had no other beside it, of which `HalfWritten` knows at each step which of the two secrets it has written or deleted |
| `NoTornRead` | `[]CleanRead` | `CleanHand`: the id that a reader without a writer beside it holds is that of the promise when it asks for the password |
| `OnTriggers` | `[]OnMeansTriggered` | `Underway`: for each place of an install, which files are already whole; `Standing`: a switch stands only while no call is in flight, since a call forgets it as it begins, and then its trigger is `Complete` |
| `OffSilences` | `[]OffMeansNoTrigger` | the same: past `CheckTimer` the timer's file is gone, and a link to it starts nothing (`Cleared`) |
| `ToggleAgrees` | `[]ToggleIsRight` | what `Status` may answer over a trigger that is complete, or gone; the last switch leaves one or the other until the next call begins |
| `InstallStands` | `[]KeptEverywhere` | `Filed`: a whole file is what its name says or its name is misfiled; `ReadBack`: what a call that is alone has read is still in the store and, when it records, on the phone, since an orphan that reaches it meanwhile ends its being alone; `KeptUntouched`: no copy in flight has the name that is promised |
| `DialogsCatchUp` | `[]NewestIsShown`, for a ring of any capacity | `NewestLast`: the last event of an operation in the ring is the newest one; `CaughtUp`: an operation that has none there and is not `lost` is shown its newest |
| `DialogsGoForward` | `ProgressForward` | `InOrder`: shown, then waiting in the order of the ring, then sent, none earlier than the one before; a full ring drops from the front |
| `NoTunnelLeaks` | `[]TunnelsAccounted` | with: the tunnels of the commands are different, and none is in the map |
| `CacheIsNewest` | `[]FallbackIsNewest` | a known newest observation is the only one on its way, or is in the row |
| `IdentityShared` | `[]OneIdentity` | every identity that is trusted, on record or being asked for is the same, unless someone churned it |
| `PairedStands` | `[]PairedIsTrusted` | what a call asked for is trusted by the time it saves, unless its `alone` is gone |
| `NamedRight` | `KnownByItsName` | `CableRows`: until the overlay a row that is not on Wi-Fi has the phone's own name or none; `SoundRecords`: so has a recorded name that is not `doubted` |
| `FailsFast` | `[]FailFast`, for any limit, window and registrants | who is alone since its check still sees the room it saw then: nobody else has added a row, and rows only leave the window |
| `RaceIsBounded` | `[]OverrunBounded` | each registrant adds at most one to what the check let through |
| `StaysLocal` | `[]NoRemoteFallback` | `CalmSees`: a call that is calm and has passed both checks finds every library whole |
| `OkInstallable` | `[]OkIsInstallable` | `SignedFollows`: the profile is embedded before the signing that seals it, and what `verify` looks at is the archive that this run packed |
| `AssociationStands` | `[]AssociationKept`, for identifiers of any length | `TreeFollows`: a bundle that the walk has passed has its rewritten identifier; `ArchiveFollows`: an archive is packed from a tree the walk has finished. The lemmas on `RewriteNested` say what rewriting a prefix does to a sequence of segments |
| `DesktopTypes` | `DesktopSpec => []DesktopTypeOK` | `DesktopParts`: a behaviour of `Desktop` is a behaviour of each part, which starts as it does alone and whose variables no other part touches |
| `DesktopKeeps` | `DesktopSpec` keeps all of the above, with no premise | the same, with the theorems above |

They rest on the modules' own assumptions: that the values for "none" and "unknown" are
not accounts, contents or phones and that the app's calls are not the agent's
(`AccountAssumption`, `ContentAssumption`, `NameAssumption`), that an operation is an
install or a refresh and the ring has room for one event (`ChannelAssumption`), that the
main bundle is not one of its own extensions (`BundleAssumption`), that the registrants are
finitely many and the limit and the window natural numbers (`QuotaAssumption`), and which
steps may fail (`AutoFaultsAssumption`). Apple's clock and this one are taken to go at one
pace and never back.

## Known limits

The runs with an expected violation, and the findings, are disagreements between the code
and its own words. The models have met these besides, and the properties are stated
around them:

- `sign_out` with a store that was unavailable when the process probed it returns Ok, and
  a keyring copy from before stays (`Forget` then promises nothing).
- A process whose probe failed at its start sees no account until it restarts.
- A signer that never exits keeps its sweep, and with it the process lock: every later sweep
  declines, and the agent's `oneshot` service has no limit either. `SweepReleasesLock`
  makes just this exception.
- The signer is not killed with its parent, so the phone may get an app minutes after the
  process died. Recorded expiries only err on the early side then, but an orphan that lands
  between the signer and the record of another install leaves the record of the one and the
  phone with the other (`alone`).
- Turning the autopilot off does not end a looping agent that is running (`agents`).
- An autostart entry that cannot be removed is left where it is by an uninstall that returns
  Ok, and starts the agent again (`OffMeansNoTrigger` supposes that this removal works).
- A `systemctl` that cannot run or prints nothing makes the toggle show "off" over a trigger
  that stands ("mute", which `ToggleIsRight` allows).
- The status looks at the timer's link or at the existence of the entry, never at what is in
  them: after a write that failed half way (a full disk) `set_background_agent` returns its
  error, and the next `agent_status` says "on" over a file that starts nothing. With
  `"write"` in `AutoFaults`, `ShownIsInstalled` is violated so, too.
- A statement of `refresh_installation`'s bookkeeping that fails returns without a
  terminal event, although `refresh_app` relies on one (`lib.rs:665`).
- On a Wi-Fi install `device_row_for` takes the name of the card, before the overlay that
  distrusts it, and `record_install` writes it over the row (`doubted`).
- The store decides by name alone whether it has a file: a copy cut short, or made of a
  file that changed since it was hashed, is kept for ever (`misfiled`).
- Overlapping installs of one app may leave a record of the one and the phone with the
  other (`alone`).
- `sign_ipa` verifies after it has written the archive, so a failed verification leaves a
  whole archive behind.
- A tunnel whose phone is gone stays in the map and is reported as connected.

## Plan

1. `RefreshScheduler` with its runs and theorems, `Muxer` with its runs and theorems: done.
2. The parts around the engine (`Desktop`): modelled, checked and proved.
3. The abstract `ProfileLedger` and the refinement: checked and proved.
4. `BlockedNotRetried` under the lock and the muxer's `CutOnlyByShutdown`: proved.
5. Left: an abstract transport that route and shutdown implement; an unattended promise
   that survives a `refresh_app` beside the sweeps.

## Not modelled

- `core/src/db.rs`, `paths.rs`, `locate.rs`, `error.rs`: opening, looking up and tables of
  texts. SQLite's transactions are taken to be atomic; that statements fail is in the
  models that use them.
- `setup/permissions.rs`, `transport/mdns_discovery.rs`, the `paired` flag of the device
  list, the certificate commands, the activity log and the dashboard queries: reads of the
  host, of the network, of Apple or of the database that change no state.
- The text of the unit files, of `Info.plist` and of the profile; the protocols of the
  idevice library; apple-codesign; the login itself (`icloud_auth`); the parsing of a paid
  certificate. They are external or pure conversions, and enter as what they may answer.
- `TunnelManager::disconnect`, `IpaStore::remove` and `store_bytes` and
  `wifi_cache::clear` have no caller outside tests.
- The frontend, but for `useOperation`: views over the commands. That its buttons stay
  enabled while a call runs is why the models let commands overlap.
