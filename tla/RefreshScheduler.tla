--------------------------- MODULE RefreshScheduler ---------------------------
(***************************************************************************)
(* The refresh engine of reside-core: crates/core/src/refresh/scheduler.rs *)
(* with the process lock (proc_lock.rs), the inventory write it shares     *)
(* with a fresh install (installs.rs) and the Tauri commands that run      *)
(* beside it (refresh_app, install_ipa, refresh_due_now).                  *)
(*                                                                         *)
(* A task is one call in flight: a sweep (refresh_due) of the background   *)
(* agent or of the UI, one refresh_app or one install_ipa.  Every SQL      *)
(* statement, or transaction, is a step of its own, and so is the run of   *)
(* the external signer, so tasks interleave between them.                  *)
(***************************************************************************)
EXTENDS Integers, Sequences, FiniteSets

CONSTANTS
    Install,       \* installations rows: one (app, device) pair each
    App,           \* apps rows, one per bundle id
    AppOf,         \* [Install -> App]: an app row is shared by its devices
    Version,       \* stored IPAs of one bundle id (sha256 + path)
    FirstVersion,  \* the version everything in Initial was installed from
    Initial,       \* the installations on record at the start
    Agent,         \* sweeps of reside-agent, one process each
    UiSweep,       \* refresh_due_now calls in the UI process
    UiRefresh,     \* refresh_app calls in the UI process
    UiInstall,     \* install_ipa calls in the UI process
    Error,         \* the AppError values a refresh attempt may meet
    Faults,        \* what may go wrong around a task: "crash", "db"
    Lifetime,      \* FREE_PROFILE_LIFETIME_SECS
    Lead,          \* REFRESH_LEAD_SECS
    BackoffBase,   \* BACKOFF_BASE_SECS
    BackoffCap,    \* BACKOFF_CAP_SECS
    RetryCap,      \* bound: retry_count saturates once the backoff is capped
    RecordLag,     \* bound: longest device_row_for between sign and record
    MaxTime,       \* bound: the clock stops here
    None           \* no task, no installation

Sweeper == Agent \cup UiSweep
UiTask  == UiSweep \cup UiRefresh \cup UiInstall
Task    == Agent \cup UiTask

ASSUME TaskAssumption ==
    /\ Agent \cap UiTask = {}
    /\ UiSweep \cap (UiRefresh \cup UiInstall) = {}
    /\ UiRefresh \cap UiInstall = {}
    /\ None \notin Task \cup Install

ASSUME DataAssumption ==
    /\ AppOf \in [Install -> App]
    /\ FirstVersion \in Version
    /\ Initial \subseteq Install
    /\ Faults \subseteq {"crash", "db"}

ASSUME TimeAssumption ==
    /\ Lifetime \in Nat /\ Lead \in Nat /\ Lead < Lifetime
    /\ BackoffBase \in Nat /\ BackoffCap \in Nat
    /\ RetryCap \in Nat /\ RecordLag \in Nat /\ MaxTime \in Nat

VARIABLES
    clock,    \* unix_now()
    lock,     \* the task holding the flock on agent.pid, or None
    status,   \* installations.refresh_status, "absent" while there is no row
    expiry,   \* installations.expiration_ts
    source,   \* apps.source_ipa_sha256 / source_ipa_path
    jobs,     \* jobs rows of kind refresh_profile, in rowid order
    device,   \* what is on the phone: profile expiry and IPA version
    orphans,  \* signer runs that outlived the process that started them
    pc,       \* where each task is
    inst,     \* the installation each task works on
    due,      \* the rest of each sweep's due list
    mem       \* the other locals of each task

rowVars  == <<status, expiry, source>>
taskVars == <<pc, inst, due, mem>>
vars     == <<clock, lock, rowVars, jobs, device, orphans, taskVars>>

NULL == -1                      \* an SQL NULL next_run: earlier than any time

JobRow == [status: {"pending", "done", "blocked"}, next: Int, retries: Nat]
DueRow == [inst: Install, row: Nat, expiry: Int]
Run    == [inst: Install, version: Version]     \* of the signer
Upsert == {"clear", "retry", "defer", "block"}
Memory == [now: Nat, version: Version, upsert: Upsert,
           found: BOOLEAN, retries: Nat, bumped: Nat]
Locations == {"idle", "sweep", "load", "mark", "sign", "record", "select",
              "write", "restore", "install", "describe"}

TypeOK ==
    /\ clock \in Nat
    /\ lock \in Sweeper \cup {None}
    /\ status \in [Install -> {"absent", "idle", "refreshing", "failed"}]
    /\ expiry \in [Install -> Int]
    /\ source \in [App -> Version]
    /\ jobs \in [Install -> Seq(JobRow)]
    /\ device \in [Install -> [expiry: Int, version: Version]]
    /\ orphans \subseteq Run
    /\ pc \in [Task -> Locations]
    /\ inst \in [Task -> Install \cup {None}]
    /\ due \in [Task -> SUBSET DueRow]
    /\ mem \in [Task -> Memory]

Forgotten == [now |-> 0, version |-> FirstVersion, upsert |-> "clear",
              found |-> FALSE, retries |-> 0, bumped |-> 0]

Init ==
    /\ clock = 0
    /\ lock = None
    /\ status = [i \in Install |-> IF i \in Initial THEN "idle" ELSE "absent"]
    /\ expiry = [i \in Install |-> IF i \in Initial THEN Lifetime ELSE 0]
    /\ source = [a \in App |-> FirstVersion]
    /\ jobs = [i \in Install |-> <<>>]
    /\ device = [i \in Install |->
                    [expiry |-> IF i \in Initial THEN Lifetime ELSE 0,
                     version |-> FirstVersion]]
    /\ orphans = {}
    /\ pc = [t \in Task |-> "idle"]
    /\ inst = [t \in Task |-> None]
    /\ due = [t \in Task |-> {}]
    /\ mem = [t \in Task |-> Forgotten]

-----------------------------------------------------------------------------
(* Pure parts *)

\* What only a person can clear; every other AppError is retried.
NeedsAttention == {"AppleAuth2faRequired", "AppleAuthCredentialsInvalid",
                   "AppleAuthProtocolChanged", "AppleAppIdLimitReached",
                   "AppleDevDeviceRegLimitReached", "SigningCertExpired"}

Disposition(err) ==
    IF err \in NeedsAttention THEN "needs_attention" ELSE "transient"

\* BackoffBase * 2^retries, the shift clamped to 16, capped at BackoffCap.
BackoffSecs(retries) ==
    LET delay == BackoffBase * 2^(IF retries > 16 THEN 16 ELSE retries)
    IN  IF delay < BackoffCap THEN delay ELSE BackoffCap

\* Mutant: the query forgets that a blocked job waits for the user.
DueJobsBlockedToo(i, now) ==
    IF jobs[i] = <<>> THEN {0} ELSE {k \in DOMAIN jobs[i] : jobs[i][k].next <= now}

\* The job rows of i the due query joins with; row 0 is the LEFT JOIN's NULL row.
DueJobs(i, now) ==
    IF jobs[i] = <<>> THEN {0}
    ELSE {k \in DOMAIN jobs[i] : /\ jobs[i][k].status # "blocked"
                                 /\ jobs[i][k].next <= now}

\* Mutant: the lead is added to the wrong side.
InWindowLate(i, now) ==
    /\ status[i] \notin {"absent", "refreshing"}
    /\ expiry[i] + Lead <= now

InWindow(i, now) ==
    /\ status[i] \notin {"absent", "refreshing"}
    /\ expiry[i] <= now + Lead

DueInstalls(now) ==
    {e \in [inst: Install, row: UNION {DueJobs(i, now) : i \in Install},
            expiry: {expiry[i] : i \in Install}] :
        /\ InWindow(e.inst, now)
        /\ e.row \in DueJobs(e.inst, now)
        /\ e.expiry = expiry[e.inst]}

-----------------------------------------------------------------------------
(* Moving a task *)

Goto(t, l) == pc' = [pc EXCEPT ![t] = l]

\* What stays live of the locals of t once it turns to upsert u: its `now`.
Locals(t, u) == [Forgotten EXCEPT !.now = mem[t].now, !.upsert = u]

\* A refresh of one installation returned: a sweep takes its next item, a
\* refresh_app is over.
Return(t) ==
    /\ pc' = [pc EXCEPT ![t] = IF t \in Sweeper THEN "sweep" ELSE "idle"]
    /\ inst' = [inst EXCEPT ![t] = None]
    /\ mem' = [mem EXCEPT ![t] =
                  IF t \in Sweeper THEN Locals(t, "clear") ELSE Forgotten]
    /\ UNCHANGED due

\* The signer put version v on the device of i: a fresh seven-day profile.
Signed(v) == [expiry |-> clock + Lifetime, version |-> v]

\* record_install: one transaction over apps and installations.
RecordInstall(i, v, at) ==
    /\ status' = [status EXCEPT ![i] = "idle"]
    /\ expiry' = [expiry EXCEPT ![i] = at + Lifetime]
    /\ source' = [source EXCEPT ![AppOf[i]] = v]

-----------------------------------------------------------------------------
(* refresh_due *)

\* Mutant: the sweep does not ask whether the lock is free.
SweepStartUnlocked(t) ==
    /\ pc[t] = "idle"
    /\ lock' = t
    /\ Goto(t, "sweep")
    /\ due' = [due EXCEPT ![t] = DueInstalls(clock)]
    /\ mem' = [mem EXCEPT ![t].now = clock]
    /\ UNCHANGED <<clock, rowVars, jobs, device, orphans, inst>>

\* The caller reads unix_now(), takes the lock and runs the due query.  A sweep
\* that finds the lock held returns with ran = false and changes nothing.
SweepStart(t) ==
    /\ pc[t] = "idle"
    /\ lock = None
    /\ lock' = t
    /\ Goto(t, "sweep")
    /\ due' = [due EXCEPT ![t] = DueInstalls(clock)]
    /\ mem' = [mem EXCEPT ![t].now = clock]
    /\ UNCHANGED <<clock, rowVars, jobs, device, orphans, inst>>

\* Mutant: the item stays on the list.
TakeDueForever(t) ==
    /\ pc[t] = "sweep"
    /\ \E e \in due[t] :
          /\ \A f \in due[t] : e.expiry <= f.expiry
          /\ inst' = [inst EXCEPT ![t] = e.inst]
    /\ Goto(t, "load")
    /\ UNCHANGED <<clock, lock, rowVars, jobs, device, orphans, due, mem>>

\* The next item, soonest to expire first.
TakeDue(t) ==
    /\ pc[t] = "sweep"
    /\ \E e \in due[t] :
          /\ \A f \in due[t] : e.expiry <= f.expiry
          /\ due' = [due EXCEPT ![t] = @ \ {e}]
          /\ inst' = [inst EXCEPT ![t] = e.inst]
    /\ Goto(t, "load")
    /\ UNCHANGED <<clock, lock, rowVars, jobs, device, orphans, mem>>

SweepEnd(t) ==
    /\ pc[t] = "sweep"
    /\ due[t] = {}
    /\ lock' = None
    /\ Goto(t, "idle")
    /\ mem' = [mem EXCEPT ![t] = Forgotten]
    /\ UNCHANGED <<clock, rowVars, jobs, device, orphans, inst, due>>

-----------------------------------------------------------------------------
(* refresh_installation *)

\* The refresh_app command.  It takes no lock.
RefreshApp(t, i) ==
    /\ pc[t] = "idle"
    /\ status[i] # "absent"
    /\ Goto(t, "load")
    /\ inst' = [inst EXCEPT ![t] = i]
    /\ mem' = [mem EXCEPT ![t].now = clock]
    /\ UNCHANGED <<clock, lock, rowVars, jobs, device, orphans, due>>

\* load_installation: the stored IPA's path is read once, here.
Load(t) ==
    /\ pc[t] = "load"
    /\ mem' = [mem EXCEPT ![t].version = source[AppOf[inst[t]]]]
    /\ Goto(t, "mark")
    /\ UNCHANGED <<clock, lock, rowVars, jobs, device, orphans, inst, due>>

Mark(t) ==
    /\ pc[t] = "mark"
    /\ status' = [status EXCEPT ![inst[t]] = "refreshing"]
    /\ Goto(t, "sign")
    /\ UNCHANGED <<clock, lock, expiry, source, jobs, device, orphans>>
    /\ UNCHANGED <<inst, due, mem>>

\* refresh_inner up to and including the signer: it worked.
SignOk(t) ==
    /\ pc[t] = "sign"
    /\ device' = [device EXCEPT ![inst[t]] = Signed(mem[t].version)]
    /\ Goto(t, "record")
    /\ UNCHANGED <<clock, lock, rowVars, jobs, orphans, inst, due, mem>>

\* Credentials, transport, the stored IPA or the signer failed with err.
SignFail(t, err) ==
    /\ pc[t] = "sign"
    /\ mem' = [mem EXCEPT ![t] =
          Locals(t, IF Disposition(err) = "transient" THEN "retry" ELSE "block")]
    /\ Goto(t, "select")
    /\ UNCHANGED <<clock, lock, rowVars, jobs, device, orphans, inst, due>>

\* Mutant: the install is dated when it is recorded, not when the sweep began.
RecordAtClock(t) ==
    /\ pc[t] = "record"
    /\ RecordInstall(inst[t], mem[t].version, clock)
    /\ mem' = [mem EXCEPT ![t] = Locals(t, "clear")]
    /\ Goto(t, "select")
    /\ UNCHANGED <<clock, lock, jobs, device, orphans, inst, due>>

Record(t) ==
    /\ pc[t] = "record"
    /\ RecordInstall(inst[t], mem[t].version, mem[t].now)
    /\ mem' = [mem EXCEPT ![t] = Locals(t, "clear")]
    /\ Goto(t, "select")
    /\ UNCHANGED <<clock, lock, jobs, device, orphans, inst, due>>

\* Mutant: the select looks at pending rows only.
JobSelectPending(t) ==
    /\ pc[t] = "select"
    /\ LET rows == SelectSeq(jobs[inst[t]], LAMBDA r : r.status = "pending")
       IN  mem' = [mem EXCEPT ![t].found = rows # <<>>,
                              ![t].retries = IF rows = <<>> THEN 0
                                             ELSE rows[1].retries]
    /\ Goto(t, "write")
    /\ UNCHANGED <<clock, lock, rowVars, jobs, device, orphans, inst, due>>

\* upsert_job, first statement: does a row exist, and with what retry_count?
JobSelect(t) ==
    /\ pc[t] = "select"
    /\ LET rows == jobs[inst[t]]
       IN  mem' = [mem EXCEPT ![t].found = rows # <<>>,
                              ![t].retries = IF rows = <<>> THEN 0
                                             ELSE rows[1].retries]
    /\ Goto(t, "write")
    /\ UNCHANGED <<clock, lock, rowVars, jobs, device, orphans, inst, due>>

Capped(n) == IF n > RetryCap THEN RetryCap ELSE n

\* Mutant: block_job writes the installation's status word into the job row.
NewJobFailed(m) ==
    CASE m.upsert = "clear" ->
            [status |-> "done", next |-> NULL, retries |-> 0]
      [] m.upsert = "retry" ->
            [status |-> "pending", next |-> m.now, retries |-> Capped(m.retries + 1)]
      [] m.upsert = "defer" ->
            [status |-> "pending", next |-> m.now + BackoffSecs(m.bumped),
             retries |-> m.retries]
      [] m.upsert = "block" ->
            [status |-> "failed", next |-> NULL, retries |-> m.retries]

\* The row upsert_job writes, from what its select found: clear_job resets the
\* retries, record_retry bumps them and then sets the delay, block_job keeps them.
NewJob(m) ==
    CASE m.upsert = "clear" ->
            [status |-> "done", next |-> NULL, retries |-> 0]
      [] m.upsert = "retry" ->
            [status |-> "pending", next |-> m.now,
             retries |-> Capped(m.retries + 1)]
      [] m.upsert = "defer" ->
            [status |-> "pending", next |-> m.now + BackoffSecs(m.bumped),
             retries |-> m.retries]
      [] m.upsert = "block" ->
            [status |-> "blocked", next |-> NULL, retries |-> m.retries]

\* upsert_job, second statement, and what its caller does next: clear_job is
\* the last write of a success, record_retry upserts twice, and after a failure
\* the status is restored.
JobWrite(t) ==
    /\ pc[t] = "write"
    /\ jobs' = [jobs EXCEPT ![inst[t]] =
                  IF mem[t].found THEN [@ EXCEPT ![1] = NewJob(mem[t])]
                                  ELSE Append(@, NewJob(mem[t]))]
    /\ \/ /\ mem[t].upsert = "clear"
          /\ Return(t)
       \/ /\ mem[t].upsert = "retry"
          /\ mem' = [mem EXCEPT ![t] =
                        [Locals(t, "defer") EXCEPT !.bumped = NewJob(mem[t]).retries]]
          /\ Goto(t, "select")
          /\ UNCHANGED <<inst, due>>
       \/ /\ mem[t].upsert \in {"defer", "block"}
          /\ mem' = [mem EXCEPT ![t] = Locals(t, mem[t].upsert)]
          /\ Goto(t, "restore")
          /\ UNCHANGED <<inst, due>>
    /\ UNCHANGED <<clock, lock, rowVars, device, orphans>>

\* Mutants: every failure is restored to "idle" / none is restored at all.
RestoreIdle(t) ==
    /\ pc[t] = "restore"
    /\ status' = [status EXCEPT ![inst[t]] = "idle"]
    /\ Return(t)
    /\ UNCHANGED <<clock, lock, expiry, source, jobs, device, orphans>>

RestoreNothing(t) ==
    /\ pc[t] = "restore"
    /\ Return(t)
    /\ UNCHANGED <<clock, lock, rowVars, jobs, device, orphans>>

\* set_refresh_status once the disposition is on record.
Restore(t) ==
    /\ pc[t] = "restore"
    /\ status' = [status EXCEPT ![inst[t]] =
                     IF mem[t].upsert = "block" THEN "failed" ELSE "idle"]
    /\ Return(t)
    /\ UNCHANGED <<clock, lock, expiry, source, jobs, device, orphans>>

-----------------------------------------------------------------------------
(* install_ipa: a manual install of version v.  It takes no lock, and it      *)
(* never touches the jobs table.                                              *)

InstallIpa(t, i, v) ==
    /\ pc[t] = "idle"
    /\ Goto(t, "install")
    /\ inst' = [inst EXCEPT ![t] = i]
    /\ mem' = [mem EXCEPT ![t].version = v]
    /\ UNCHANGED <<clock, lock, rowVars, jobs, device, orphans, due>>

InstallSigned(t) ==
    /\ pc[t] = "install"
    /\ device' = [device EXCEPT ![inst[t]] = Signed(mem[t].version)]
    /\ mem' = [mem EXCEPT ![t].now = clock]
    /\ Goto(t, "describe")
    /\ UNCHANGED <<clock, lock, rowVars, jobs, orphans, inst, due>>

InstallFail(t) ==
    /\ pc[t] = "install"
    /\ Return(t)
    /\ UNCHANGED <<clock, lock, rowVars, jobs, device, orphans>>

\* device_row_for, then unix_now(), then record_install.
InstallRecord(t) ==
    /\ pc[t] = "describe"
    /\ RecordInstall(inst[t], mem[t].version, clock)
    /\ Return(t)
    /\ UNCHANGED <<clock, lock, jobs, device, orphans>>

-----------------------------------------------------------------------------
(* The surroundings *)

\* Time passes, but not more than RecordLag while an install is described.
Tick ==
    /\ clock < MaxTime
    /\ \A t \in UiInstall : pc[t] = "describe" => clock < mem[t].now + RecordLag
    /\ clock' = clock + 1
    /\ UNCHANGED <<lock, rowVars, jobs, device, orphans, taskVars>>

\* A statement fails and `?` returns early.  Inside refresh_inner the caller
\* still records the failure (a database error is transient); after it, the
\* function just returns.
DbError(t) ==
    /\ "db" \in Faults
    /\ \/ /\ pc[t] = "record"
          /\ mem' = [mem EXCEPT ![t] = Locals(t, "retry")]
          /\ Goto(t, "select")
          /\ UNCHANGED <<inst, due>>
       \/ /\ pc[t] \in {"load", "mark", "select", "write", "restore", "describe"}
          /\ Return(t)
    /\ UNCHANGED <<clock, lock, rowVars, jobs, device, orphans>>

\* Mutant: the lock is a pid file that outlives its process.
CrashKeepsLock(ts) ==
    /\ "crash" \in Faults
    /\ \E t \in ts : pc[t] # "idle"
    /\ pc' = [t \in Task |-> IF t \in ts THEN "idle" ELSE pc[t]]
    /\ inst' = [t \in Task |-> IF t \in ts THEN None ELSE inst[t]]
    /\ due' = [t \in Task |-> IF t \in ts THEN {} ELSE due[t]]
    /\ mem' = [t \in Task |-> IF t \in ts THEN Forgotten ELSE mem[t]]
    /\ UNCHANGED <<clock, lock, rowVars, jobs, device, orphans>>

\* A process dies: the OS drops its lock, its tasks are gone.  The signer is a
\* child that is not killed with its parent: a run in progress may go on alone.
\* Bound: two such runs of one version on one installation count as one.
Crash(ts) ==
    /\ "crash" \in Faults
    /\ \E t \in ts : pc[t] # "idle"
    /\ \E left \in SUBSET {t \in ts : pc[t] \in {"sign", "install"}} :
          orphans' = orphans \cup
              {[inst |-> inst[t], version |-> mem[t].version] : t \in left}
    /\ lock' = IF lock \in ts THEN None ELSE lock
    /\ pc' = [t \in Task |-> IF t \in ts THEN "idle" ELSE pc[t]]
    /\ inst' = [t \in Task |-> IF t \in ts THEN None ELSE inst[t]]
    /\ due' = [t \in Task |-> IF t \in ts THEN {} ELSE due[t]]
    /\ mem' = [t \in Task |-> IF t \in ts THEN Forgotten ELSE mem[t]]
    /\ UNCHANGED <<clock, rowVars, jobs, device>>

\* A run nobody waits for ends, whoever holds the lock by then and whatever else
\* signs for the same installation: it reached the phone, or it failed.
OrphanEnds(run) ==
    /\ \/ device' = [device EXCEPT ![run.inst] = Signed(run.version)]
       \/ UNCHANGED device
    /\ orphans' = orphans \ {run}
    /\ UNCHANGED <<clock, lock, rowVars, jobs, taskVars>>

-----------------------------------------------------------------------------

Sweep(t) == SweepStart(t) \/ TakeDue(t) \/ SweepEnd(t)

SignerStep(t) == SignOk(t) \/ \E err \in Error : SignFail(t, err)

EngineStep(t) ==
    \/ Load(t) \/ Mark(t) \/ Record(t)
    \/ JobSelect(t) \/ JobWrite(t) \/ Restore(t)

RefreshStep(t) == EngineStep(t) \/ SignerStep(t)

InstallStep(t) == InstallSigned(t) \/ InstallFail(t) \/ InstallRecord(t)

Next ==
    \/ Tick
    \/ \E t \in Sweeper : Sweep(t)
    \/ \E t \in UiRefresh, i \in Install : RefreshApp(t, i)
    \/ \E t \in UiInstall, i \in Install, v \in Version : InstallIpa(t, i, v)
    \/ \E t \in Sweeper \cup UiRefresh : RefreshStep(t)
    \/ \E t \in UiInstall : InstallStep(t)
    \/ \E t \in Task : DbError(t)
    \/ \E t \in Agent : Crash({t})
    \/ Crash(UiTask)
    \/ \E run \in orphans : OrphanEnds(run)

Spec == Init /\ [][Next]_vars

\* A running sweep keeps running: its statements return and nothing in them
\* waits for another task.  The signer is awaited without a timeout, so nothing
\* is assumed of it: a run may never end.
FairSpec ==
    /\ Spec
    /\ \A t \in Sweeper : WF_vars(TakeDue(t) \/ SweepEnd(t) \/ EngineStep(t))

-----------------------------------------------------------------------------
(* The abstract specification *)

\* What the first job row says of the next try, if there is one.
Gate(i) ==
    IF jobs[i] = <<>> THEN [blocked |-> FALSE, next |-> NULL]
    ELSE [blocked |-> jobs[i][1].status = "blocked", next |-> jobs[i][1].next]

Ledger == INSTANCE ProfileLedger WITH
            sweeper <- lock,
            phone   <- [i \in Install |-> device[i].expiry],
            booked  <- expiry,
            adrift  <- {run.inst : run \in orphans},
            gate    <- [i \in Install |-> Gate(i)],
            Slack   <- RecordLag

\* Sweeps, whichever process runs them, keep the promise of ProfileLedger: one
\* at a time renews, only what is due and may be tried, books no more than is
\* on the phone and never less than before, and leaves a way to the next try.
KeepsLedger == Ledger!Spec

-----------------------------------------------------------------------------
(* Properties *)

Busy(t, i) == inst[t] = i
Quiet(i)   == \A t \in Task : ~Busy(t, i)
Blocked(i) == \E k \in DOMAIN jobs[i] : jobs[i][k].status = "blocked"

\* The lock is held exactly while its holder sweeps: a sweep never runs without
\* it, and neither a return nor a crash leaves it behind.
LockMeansSweep == \A t \in Sweeper : pc[t] # "idle" <=> lock = t

\* There is at most one refresh_profile job row per installation, although no
\* constraint of the schema says so and upsert_job selects before it inserts.
OneJobRow == \A i \in Install : Len(jobs[i]) <= 1

\* The due list is read once and used for the whole sweep: whatever is still on
\* it, or was just taken from it, is exactly as due as when the query ran.
DueListStaysTrue ==
    \A t \in Sweeper :
        /\ \A e \in due[t] : e \in DueInstalls(mem[t].now)
        /\ pc[t] \in {"load", "mark"} =>
              \E e \in DueInstalls(mem[t].now) : e.inst = inst[t]

\* A row says "refreshing" only while some task is refreshing it.
RefreshingIsBacked ==
    \A i \in Install :
        status[i] = "refreshing" =>
            \E t \in Task : /\ inst[t] = i
                            /\ pc[t] \in {"sign", "record", "select", "write",
                                          "restore"}

\* Once nothing works on an installation, a blocked job shows as "failed".
BlockedIsSurfaced ==
    \A i \in Install : Quiet(i) /\ Blocked(i) => status[i] = "failed"

\* ... and nothing else shows as "failed", whatever was cut short: a row that an attempt
\* which died has left behind says "refreshing", and neither "failed" nor "idle" is wrong.
FailedIffBlocked ==
    \A i \in Install : Quiet(i) /\ status[i] # "refreshing" =>
                          (status[i] = "failed" <=> Blocked(i))

\* The expiry on record is never later than the one of the profile that is
\* really on the device, but for the lag of a manual install.
NeverOverpromises ==
    \A i \in Install : expiry[i] <= device[i].expiry + RecordLag

\* A refresh never takes away time that an earlier one put on record.
ExpiryNeverShrinks == [][\A i \in Install : expiry'[i] >= expiry[i]]_expiry

\* A profile that lapsed on the device is never lost sight of: unless a task is on
\* it or it waits for the user, the due query finds it, after one backoff at most.
LapsedNotForgotten ==
    \A i \in Install :
        /\ status[i] # "absent"
        /\ clock >= device[i].expiry
        /\ Quiet(i)
        /\ ~Blocked(i)
        => /\ InWindow(i, clock)
           /\ DueJobs(i, clock + BackoffCap) # {}

\* No two tasks refresh one installation at once.
NoDoubleRefresh ==
    \A t, u \in Task :
        t # u /\ inst[t] = inst[u] /\ inst[t] # None
            => ~(pc[t] \in {"sign", "install"} /\ pc[u] \in {"sign", "install"})

\* Only a manual install changes which version is on a device.
RefreshKeepsVersion ==
    [][\A i \in Install :
          device'[i].version # device[i].version
              => \E t \in UiInstall : inst[t] = i /\ pc[t] = "install"]_vars

\* No sweep starts to refresh an installation whose job waits for the user.
BlockedNotRetried ==
    [][\A t \in Sweeper :
          pc[t] = "mark" /\ pc'[t] = "sign" => ~Blocked(inst[t])]_vars

\* A sweep ends and gives the lock back, whatever its items do and however many
\* there are, unless a signer run it waits for never ends.
SweepReleasesLock ==
    \A t \in Sweeper : <>[](pc[t] = "sign") \/ (lock = t ~> lock # t)

=============================================================================
