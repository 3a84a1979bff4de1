-------------------------- MODULE RefreshLedger_proofs --------------------------
(***************************************************************************)
(* Sweeps alone: what is on the due list stays due, every "failed" is a    *)
(* blocked job, and RefreshScheduler implements ProfileLedger.             *)
(***************************************************************************)
EXTENDS RefreshSafety_proofs

-----------------------------------------------------------------------------
(* A lapsed profile is found again *)

\* No job row postpones the next try by more than the longest backoff.
NextInv ==
    \A i \in Install : \A k \in DOMAIN jobs[i] : jobs[i][k].next <= clock + BackoffCap

LEMMA BackoffBound == ASSUME NEW n \in Nat PROVE BackoffSecs(n) <= BackoffCap
<1> DEFINE delay == BackoffBase * 2^(IF n > 16 THEN 16 ELSE n)
<1>1. delay \in Int
  BY TimeAssumption
<1> HIDE DEF delay
<1>2. (IF delay < BackoffCap THEN delay ELSE BackoffCap) <= BackoffCap
  BY <1>1, TimeAssumption
<1>3. QED
  BY <1>2 DEF BackoffSecs, delay

\* Every row of the jobs table is typed.
LEMMA RowTyped ==
  ASSUME TypeOK, NEW i \in Install, NEW k \in DOMAIN jobs[i]
  PROVE  jobs[i][k] \in JobRow /\ jobs[i][k].next \in Int
<1>1. jobs[i] \in Seq(JobRow)
  BY DEF TypeOK
<1>2. k \in 1 .. Len(jobs[i])
  BY <1>1
<1>3. jobs[i][k] \in JobRow
  BY <1>1, <1>2, ElementOfSeq
<1>4. QED
  BY <1>3 DEF JobRow

\* What upsert_job writes: blocked, or to be tried again within BackoffCap.
LEMMA NewJobNext ==
  ASSUME NEW m \in Memory
  PROVE  /\ NewJob(m).next <= m.now + BackoffCap
         /\ m.upsert = "retry" => NewJob(m).next = m.now
         /\ NewJob(m).status = "blocked" <=> m.upsert = "block"
<1>1. /\ m.now \in Nat /\ m.bumped \in Nat /\ m.upsert \in Upsert
      /\ BackoffSecs(m.bumped) <= BackoffCap /\ BackoffSecs(m.bumped) \in Int
  BY BackoffBound, BackoffType DEF Memory
<1>2. QED
  BY <1>1, TimeAssumption DEF NewJob, Upsert, NULL

\* upsert_job changes one row of one installation, or adds one.
LEMMA JobWriteRows ==
  ASSUME TypeOK, HasInstall, NEW t \in Task, JobWrite(t), NEW i \in Install,
         NEW k \in DOMAIN jobs'[i]
  PROVE  \/ i = inst[t] /\ jobs'[i][k] = NewJob(mem[t])
         \/ k \in DOMAIN jobs[i] /\ jobs'[i][k] = jobs[i][k]
<1>1. inst[t] \in Install /\ jobs \in [Install -> Seq(JobRow)] /\ mem[t] \in Memory
  BY DEF HasInstall, JobWrite, TypeOK
<1> DEFINE row == NewJob(mem[t])
           old == jobs[inst[t]]
<1>2. jobs' = [jobs EXCEPT ![inst[t]] =
                  IF mem[t].found THEN [old EXCEPT ![1] = row] ELSE Append(old, row)]
  BY DEF JobWrite
<1>3. row \in JobRow /\ old \in Seq(JobRow)
  BY <1>1, NewJobType
<1> HIDE DEF row, old
<1>4. CASE i # inst[t]
  BY <1>1, <1>2, <1>4
<1>5. CASE i = inst[t] /\ mem[t].found
  <2>1. jobs'[i] = [old EXCEPT ![1] = row]
    BY <1>1, <1>2, <1>5
  <2>2. QED
    BY <1>5, <2>1 DEF row, old
<1>6. CASE i = inst[t] /\ ~mem[t].found
  <2>1. jobs'[i] = Append(old, row)
    BY <1>1, <1>2, <1>6
  <2>2. Len(old) \in Nat /\ DOMAIN Append(old, row) = 1 .. Len(old) + 1
    BY <1>3
  <2>3. k \in 1 .. Len(old) + 1 /\ k \in Int
    BY <2>1, <2>2
  <2>4. CASE k = Len(old) + 1
    BY <1>3, <1>6, <2>1, <2>4 DEF row
  <2>5. CASE k # Len(old) + 1
    <3>1. k \in 1 .. Len(old)
      BY <2>2, <2>3, <2>5
    <3>2. k \in DOMAIN old /\ Append(old, row)[k] = old[k]
      BY <1>3, <3>1
    <3>3. QED
      BY <1>6, <2>1, <3>2 DEF old
  <2>6. QED
    BY <2>4, <2>5
<1>7. QED
  BY <1>4, <1>5, <1>6

\* Every step but upsert_job's second statement leaves the jobs table alone, and
\* no step turns back the clock.
LEMMA JobsKept ==
  ASSUME TypeOK, [Next]_vars
  PROVE  /\ clock' = clock \/ clock' = clock + 1
         /\ jobs' = jobs \/ \E t \in Sweeper \cup UiRefresh : JobWrite(t)
<1>1. CASE Tick \/ UNCHANGED vars
  BY <1>1 DEF Tick, vars, taskVars
<1>2. ASSUME NEW t \in Task, Sweep(t) PROVE jobs' = jobs /\ clock' = clock
  BY <1>2 DEF Sweep, SweepStart, TakeDue, SweepEnd
<1>3. ASSUME NEW t \in Task, RefreshStep(t) \/ InstallStep(t) \/ DbError(t)
      PROVE  clock' = clock /\ (jobs' = jobs \/ JobWrite(t))
  BY <1>3 DEF RefreshStep, EngineStep, SignerStep,
              Load, Mark, SignOk, Record, SignFail, JobSelect, JobWrite,
              Restore, InstallStep, InstallSigned, InstallFail, InstallRecord, DbError
<1>4. ASSUME NEW ts, Crash(ts) PROVE jobs' = jobs /\ clock' = clock
  BY <1>4 DEF Crash
<1>5. ASSUME NEW t \in Task, InstallStep(t) \/ DbError(t)
      PROVE  jobs' = jobs /\ clock' = clock
  BY <1>5 DEF InstallStep, InstallSigned, InstallFail, InstallRecord, DbError
<1>6. CASE \E t \in UiRefresh, i \in Install : RefreshApp(t, i)
  BY <1>6 DEF RefreshApp
<1>7. CASE \E t \in UiInstall, i \in Install, v \in Version : InstallIpa(t, i, v)
  BY <1>7 DEF InstallIpa
<1>8. CASE \E run \in orphans : OrphanEnds(run)
  BY <1>8, OrphanApart
<1>9. QED
  BY <1>1, <1>2, <1>3, <1>4, <1>5, <1>6, <1>7, <1>8, Tasks DEF Next

LEMMA NextStep ==
  ASSUME TypeOK, HasInstall, TimeInv, NextInv, [Next]_vars
  PROVE  NextInv'
<1>1. clock \in Nat /\ clock' \in Int /\ clock' >= clock
  BY JobsKept DEF TypeOK
<1>2. \A i \in Install : \A k \in DOMAIN jobs[i] : jobs[i][k].next \in Int
  BY RowTyped
<1>3. CASE jobs' = jobs
  BY <1>1, <1>2, <1>3, TimeAssumption DEF NextInv
<1>4. ASSUME NEW t \in Task, JobWrite(t) PROVE NextInv'
  <2>1. NewJob(mem[t]).next <= clock' + BackoffCap
    <3>1. mem[t] \in Memory /\ mem[t].now <= clock
      BY DEF TypeOK, TimeInv
    <3>2. NewJob(mem[t]).next \in Int /\ mem[t].now \in Nat
      BY <3>1, NewJobType DEF JobRow, Memory
    <3>3. QED
      BY <1>1, <3>1, <3>2, NewJobNext, TimeAssumption
  <2>2. \A i \in Install : \A k \in DOMAIN jobs[i] : jobs[i][k].next <= clock' + BackoffCap
    BY <1>1, <1>2, TimeAssumption DEF NextInv
  <2>3. QED
    BY <1>4, <2>1, <2>2, JobWriteRows DEF NextInv
<1>5. QED
  BY <1>3, <1>4, JobsKept, Tasks

\* As long as nothing crashes or fails, an installation whose profile has lapsed is
\* found by the due query again, after one backoff at most: no attempt of any task
\* leaves it marked, unscheduled or scheduled too far away, and the expiry on record
\* never hides it (a manual install must describe its device within the lead).
THEOREM NotForgotten ==
  ASSUME Faults = {}, RecordLag <= Lead PROVE Spec => []LapsedNotForgotten
<1>1. Init => NextInv
  BY DEF Init, NextInv
<1>2. TypeOK /\ HasInstall /\ PromiseInv /\ NextInv /\ [Next]_vars => NextInv'
  BY NextStep DEF PromiseInv
<1>3. TypeOK /\ PromiseInv /\ RefreshingIsBacked /\ NextInv => LapsedNotForgotten
  <2> SUFFICES ASSUME TypeOK, NeverOverpromises, RefreshingIsBacked, NextInv,
                      NEW i \in Install, status[i] # "absent",
                      clock >= device[i].expiry, Quiet(i), ~Blocked(i)
               PROVE  InWindow(i, clock) /\ DueJobs(i, clock + BackoffCap) # {}
    BY DEF PromiseInv, LapsedNotForgotten
  <2>1. status[i] # "refreshing"
    BY DEF RefreshingIsBacked, Quiet, Busy
  <2>2. expiry[i] <= clock + Lead
    BY TimeAssumption DEF NeverOverpromises, TypeOK
  <2>3. DueJobs(i, clock + BackoffCap) # {}
    <3>1. CASE jobs[i] = <<>>
      BY <3>1 DEF DueJobs
    <3>2. CASE jobs[i] # <<>>
      <4>1. jobs[i] \in Seq(JobRow)
        BY DEF TypeOK
      <4>2. 1 \in DOMAIN jobs[i]
        BY <3>2, <4>1, FirstJob
      <4>3. 1 \in DueJobs(i, clock + BackoffCap)
        BY <3>2, <4>2 DEF DueJobs, Blocked, NextInv
      <4>4. QED
        BY <4>3
    <3>3. QED
      BY <3>1, <3>2
  <2>4. QED
    BY <2>1, <2>2, <2>3 DEF InWindow
<1>4. QED
  BY <1>1, <1>2, <1>3, TypeCorrect, PromiseInvariant, Backed, PTL DEF Spec

-----------------------------------------------------------------------------
(* What is on the due list stays due *)

\* The first job row of i lets it be tried at `now`.
Open(i, now) ==
    jobs[i] # <<>> => jobs[i][1].status # "blocked" /\ jobs[i][1].next <= now

\* What a sweep knows of the list it read at its `now`, of the item it has taken, and
\* of the part of the attempt that is still ahead.
SweepInv(t) ==
    /\ pc[t] # "install"
    /\ pc[t] = "idle" => due[t] = {}
    /\ \A e, f \in due[t] : e.inst = f.inst => e = f
    /\ \A e \in due[t] : /\ InWindow(e.inst, mem[t].now)
                         /\ e.row \in DueJobs(e.inst, mem[t].now)
                         /\ e.expiry = expiry[e.inst]
                         /\ pc[t] # "sweep" => e.inst # inst[t]
    /\ \A i \in Install : inst[t] = i =>
          /\ pc[t] \in {"load", "mark"} => InWindow(i, mem[t].now)
          /\ pc[t] \in {"load", "mark", "sign"} => expiry[i] <= mem[t].now + Lead
          /\ pc[t] \in {"load", "mark", "sign", "record", "select", "write"} =>
                Open(i, mem[t].now)

DueInv == \A t \in Sweeper : SweepInv(t)

\* One row at most: what the due query joins with is the first row or none.
LEMMA DueIsOpen ==
  ASSUME TypeOK, OneJobRow, NEW i \in Install, NEW now \in Int
  PROVE  /\ \A k \in DueJobs(i, now) : Open(i, now) /\ k = (IF jobs[i] = <<>> THEN 0 ELSE 1)
         /\ Open(i, now) => DueJobs(i, now) # {}
<1>1. jobs[i] \in Seq(JobRow) /\ Len(jobs[i]) \in Nat /\ Len(jobs[i]) <= 1
  BY DEF TypeOK, OneJobRow
<1>2. CASE jobs[i] = <<>>
  BY <1>2 DEF DueJobs, Open
<1>3. CASE jobs[i] # <<>>
  <2>1. DOMAIN jobs[i] = {1}
    <3>1. DOMAIN jobs[i] = 1 .. Len(jobs[i])
      BY <1>1
    <3>2. Len(jobs[i]) >= 1
      BY <1>1, <1>3, FirstJob
    <3> DEFINE n == Len(jobs[i])
    <3>3. n = 1
      <4>1. n \in Nat /\ n <= 1 /\ n >= 1
        BY <1>1, <3>2
      <4> HIDE DEF n
      <4>2. QED
        BY <4>1
    <3>4. QED
      BY <3>1, <3>3
  <2>2. QED
    BY <1>3, <2>1 DEF DueJobs, Open
<1>4. QED
  BY <1>2, <1>3

\* What an entry of the due list says of its installation.
LEMMA DueEntry ==
  ASSUME TypeOK, NEW now \in Int, NEW e \in DueRow
  PROVE  e \in DueInstalls(now) <=> /\ InWindow(e.inst, now)
                                   /\ e.row \in DueJobs(e.inst, now)
                                   /\ e.expiry = expiry[e.inst]
  BY DEF DueInstalls, DueRow

LEMMA DueListed ==
  ASSUME TypeOK, NEW now \in Int, NEW i \in Install, InWindow(i, now), DueJobs(i, now) # {}
  PROVE  \E e \in DueInstalls(now) : e.inst = i
<1>1. PICK k : k \in DueJobs(i, now)
  OBVIOUS
<1> DEFINE e == [inst |-> i, row |-> k, expiry |-> expiry[i]]
<1>2. e \in DueInstalls(now)
  BY <1>1 DEF DueInstalls
<1>3. QED
  BY <1>2

LEMMA OthersIdle ==
  ASSUME LockMeansSweep, NEW t \in Sweeper, pc[t] # "idle",
         NEW u \in Sweeper, u # t
  PROVE  pc[u] = "idle"
  BY DEF LockMeansSweep

\* A step of the running sweep that touches only its own item keeps the rest of its
\* list as it was read; what it owes is the part about its item.
LEMMA ItemStep ==
  ASSUME TypeOK, LockMeansSweep, DueInv, NEW t \in Sweeper, pc[t] \notin {"idle", "sweep"},
         pc'[t] \notin {"idle", "install"}, due' = due, mem'[t].now = mem[t].now,
         \A u \in Task : u # t => Same(u),
         inst'[t] = inst[t] \/ pc'[t] = "sweep",
         \A j \in Install : j # inst[t] => /\ status'[j] = status[j]
                                          /\ expiry'[j] = expiry[j]
                                          /\ jobs'[j] = jobs[j],
         \A i \in Install : inst'[t] = i =>
             /\ pc'[t] \in {"load", "mark"} => InWindow(i, mem[t].now)'
             /\ pc'[t] \in {"load", "mark", "sign"} => expiry'[i] <= mem'[t].now + Lead
             /\ pc'[t] \in {"load", "mark", "sign", "record", "select", "write"} =>
                   Open(i, mem[t].now)'
  PROVE  DueInv'
<1>1. ASSUME NEW u \in Sweeper, u # t PROVE SweepInv(u)'
  <2>1. pc[u] = "idle" /\ pc'[u] = "idle"
    BY <1>1, OthersIdle, Tasks DEF Same
  <2>2. due'[u] = {}
    BY <2>1 DEF DueInv, SweepInv
  <2>3. QED
    BY <2>1, <2>2 DEF SweepInv
<1>2. SweepInv(t)'
  <2>1. SweepInv(t) /\ due'[t] = due[t] /\ due[t] \subseteq DueRow
    BY Tasks DEF DueInv, TypeOK
  <2>2. ASSUME NEW e \in due[t]
        PROVE  /\ InWindow(e.inst, mem[t].now)'
               /\ e.row \in DueJobs(e.inst, mem[t].now)'
               /\ e.expiry = expiry'[e.inst]
               /\ pc'[t] # "sweep" => e.inst # inst'[t]
    <3>1. /\ InWindow(e.inst, mem[t].now) /\ e.row \in DueJobs(e.inst, mem[t].now)
          /\ e.expiry = expiry[e.inst] /\ e.inst # inst[t]
      BY <2>1 DEF SweepInv
    <3>2. e.inst \in Install
      BY <2>1 DEF DueRow
    <3>3. /\ status'[e.inst] = status[e.inst] /\ expiry'[e.inst] = expiry[e.inst]
          /\ jobs'[e.inst] = jobs[e.inst]
      BY <3>1, <3>2
    <3>4. QED
      BY <3>1, <3>3 DEF InWindow, DueJobs
  <2>3. QED
    BY <2>1, <2>2 DEF SweepInv
<1>3. QED
  BY <1>1, <1>2 DEF DueInv

\* The row written before the second upsert of record_retry leaves the gate open.
LEMMA RetryOpen ==
  ASSUME TypeOK, HasInstall, JobInv, DueInv, NEW t \in Sweeper, JobWrite(t),
         mem[t].upsert = "retry", NEW i \in Install, inst[t] = i
  PROVE  jobs'[i] # <<>> => jobs'[i][1].status # "blocked" /\ jobs'[i][1].next <= mem[t].now
<1> SUFFICES ASSUME jobs'[i] # <<>>
             PROVE  jobs'[i][1].status # "blocked" /\ jobs'[i][1].next <= mem[t].now
  OBVIOUS
<1>1. t \in Task /\ mem[t] \in Memory /\ mem[t].now \in Nat
  BY Tasks, MemNow DEF TypeOK
<1>2. jobs'[i] \in Seq(JobRow)
  <2>1. RefreshStep(t)
    BY DEF RefreshStep, EngineStep, SignerStep
  <2>2. TypeOK'
    BY <1>1, <2>1, RefreshTyped
  <2>3. QED
    BY <2>2 DEF TypeOK
<1>3. 1 \in DOMAIN jobs'[i]
  BY <1>2, FirstJob
<1>4. CASE jobs'[i][1] = NewJob(mem[t])
  BY <1>1, <1>4, NewJobNext
<1>5. CASE 1 \in DOMAIN jobs[i] /\ jobs'[i][1] = jobs[i][1]
  <2>1. pc[t] = "write" /\ Open(i, mem[t].now)
    BY DEF JobWrite, DueInv, SweepInv
  <2>2. jobs[i] # <<>>
    BY <1>5
  <2>3. QED
    BY <1>5, <2>1, <2>2 DEF Open
<1>6. QED
  BY <1>1, <1>3, <1>4, <1>5, JobWriteRows

LEMMA RefreshDue ==
  ASSUME TypeOK, HasInstall, LockMeansSweep, JobInv, DueInv, NEW t \in Sweeper,
         RefreshStep(t) \/ DbError(t)
  PROVE  DueInv'
<1>1. t \in Task /\ pc[t] \notin {"idle", "sweep"} /\ inst[t] \in Install
  BY Tasks DEF HasInstall, RefreshStep, EngineStep, SignerStep,
               Load, Mark, SignOk, SignFail, Record, JobSelect,
               JobWrite, Restore, DbError
<1>2. pc'[t] \notin {"idle", "install"} /\ \A u \in Task : u # t => Same(u)
  <2>1. pc'[t] # "idle" /\ \A u \in Task : u # t => Same(u)
    BY <1>1, RefreshKeepsLock, ErrorKeepsLock, OthersKeep DEF KeepsLock
  <2>2. pc'[t] # "install"
    BY <1>1 DEF RefreshStep, EngineStep, SignerStep,
                Load, Mark, SignOk, SignFail, Record, JobSelect, JobWrite,
                Restore, DbError, Return, Goto, TypeOK
  <2>3. QED
    BY <2>1, <2>2
<1>3. mem'[t].now = mem[t].now
  BY RefreshKeepsNow
<1>4. due' = due
  BY DEF RefreshStep, EngineStep, SignerStep,
         Load, Mark, SignOk, SignFail, Record, JobSelect, JobWrite, Restore,
         DbError, Return
<1>5. \A j \in Install : j # inst[t] => /\ status'[j] = status[j]
                                       /\ expiry'[j] = expiry[j]
                                       /\ jobs'[j] = jobs[j]
  BY <1>1 DEF RefreshStep, EngineStep, SignerStep,
              Load, Mark, SignOk, SignFail, Record, JobSelect, JobWrite,
              Restore, DbError, RecordInstall, rowVars, TypeOK
<1> DEFINE Owed(i) ==
              /\ pc'[t] \in {"load", "mark"} => InWindow(i, mem[t].now)'
              /\ pc'[t] \in {"load", "mark", "sign"} => expiry'[i] <= mem'[t].now + Lead
              /\ pc'[t] \in {"load", "mark", "sign", "record", "select", "write"} =>
                    Open(i, mem[t].now)'
<1>6. CASE Return(t)
  <2>1. pc'[t] = "sweep"
    BY <1>1, <1>6 DEF Return, TypeOK
  <2>2. \A i \in Install : Owed(i)
    BY <2>1
  <2>3. QED
    BY <1>1, <1>2, <1>3, <1>4, <1>5, <2>1, <2>2, ItemStep
<1>7. CASE inst' = inst
  <2> SUFFICES ASSUME NEW i \in Install, inst[t] = i PROVE Owed(i)
    BY <1>1, <1>2, <1>3, <1>4, <1>5, <1>7, ItemStep
  <2>1. SweepInv(t)
    BY DEF DueInv
  <2>2. ASSUME NEW l, Goto(t, l) PROVE pc'[t] = l
    BY <1>1, <2>2 DEF Goto, TypeOK
  <2>3. CASE Load(t) /\ pc'[t] = "mark"
    BY <1>3, <2>1, <2>3 DEF Load, SweepInv, Open, InWindow, rowVars
  <2>4. CASE Mark(t) /\ pc'[t] = "sign"
    BY <1>3, <2>1, <2>4 DEF Mark, SweepInv, Open
  <2>5. CASE SignOk(t) /\ pc'[t] = "record"
    BY <1>3, <2>1, <2>5 DEF SignOk, SweepInv, Open
  <2>6. CASE (\E err \in Error : SignFail(t, err)) /\ pc'[t] = "select"
    BY <1>3, <2>1, <2>6 DEF SignFail, SweepInv, Open
  <2>7. CASE Record(t) /\ pc'[t] = "select"
    BY <1>3, <2>1, <2>7 DEF Record, SweepInv, Open
  <2>8. CASE JobSelect(t) /\ pc'[t] = "write"
    BY <1>3, <2>1, <2>8 DEF JobSelect, SweepInv, Open
  <2>9. CASE JobWrite(t) /\ pc'[t] = "restore"
    BY <2>9
  <2>10. CASE JobWrite(t) /\ pc'[t] = "select" /\ mem[t].upsert = "retry"
    BY <1>3, <2>10, RetryOpen DEF Open
  <2>11. CASE DbError(t) /\ pc[t] = "record" /\ pc'[t] = "select"
    BY <1>3, <2>1, <2>11 DEF DbError, SweepInv, Open
  <2>12. CASE Return(t)
    BY <1>1, <2>12 DEF Return, TypeOK
  <2>13. QED
    <3>1. Load(t) => pc'[t] = "mark"
      BY <2>2 DEF Load
    <3>2. Mark(t) => pc'[t] = "sign"
      BY <2>2 DEF Mark
    <3>3. SignOk(t) => pc'[t] = "record"
      BY <2>2 DEF SignOk
    <3>4. (\E err \in Error : SignFail(t, err)) \/ Record(t) => pc'[t] = "select"
      BY <2>2 DEF SignFail, Record
    <3>5. JobSelect(t) => pc'[t] = "write"
      BY <2>2 DEF JobSelect
    <3>6. JobWrite(t) => \/ Return(t)
                         \/ pc'[t] = "restore"
                         \/ pc'[t] = "select" /\ mem[t].upsert = "retry"
      BY <2>2 DEF JobWrite
    <3>7. Restore(t) => Return(t)
      BY DEF Restore
    <3>8. DbError(t) => Return(t) \/ (pc[t] = "record" /\ pc'[t] = "select")
      BY <2>2 DEF DbError
    <3>9. QED
      BY <2>3, <2>4, <2>5, <2>6, <2>7, <2>8, <2>9, <2>10, <2>11, <2>12,
         <3>1, <3>2, <3>3, <3>4, <3>5, <3>6, <3>7, <3>8
            DEF RefreshStep, EngineStep, SignerStep
<1>8. Return(t) \/ inst' = inst
  BY DEF RefreshStep, EngineStep, SignerStep,
         Load, Mark, SignOk, SignFail, Record, JobSelect, JobWrite, Restore,
         DbError
<1>9. QED
  BY <1>6, <1>7, <1>8

\* Taking an item: the list shrinks, and what was true of the entry is true of the item.
LEMMA TakeDueStep ==
  ASSUME TypeOK, JobInv, DueInv, FreshInv, NEW t \in Sweeper, TakeDue(t)
  PROVE  SweepInv(t)'
<1>1. t \in Task /\ mem[t] \in Memory /\ mem[t].now \in Nat /\ due[t] \subseteq DueRow
  BY Tasks, MemNow DEF TypeOK
<1>2. SweepInv(t)
  BY DEF DueInv
<1>3. PICK e \in due[t] : due' = [due EXCEPT ![t] = @ \ {e}] /\ inst' = [inst EXCEPT ![t] = e.inst]
  BY DEF TakeDue
<1>4. due'[t] = due[t] \ {e} /\ inst'[t] = e.inst /\ pc'[t] = "load" /\ e.inst \in Install
  BY <1>1, <1>3 DEF TakeDue, Goto, TypeOK, DueRow
<1>5. mem' = mem /\ status' = status /\ expiry' = expiry /\ jobs' = jobs
  BY DEF TakeDue, rowVars
<1>6. \A f \in due'[t] : /\ InWindow(f.inst, mem[t].now)'
                         /\ f.row \in DueJobs(f.inst, mem[t].now)'
                         /\ f.expiry = expiry'[f.inst]
                         /\ f.inst # inst'[t]
  BY <1>2, <1>4, <1>5 DEF SweepInv, InWindow, DueJobs
<1>7. InWindow(e.inst, mem[t].now) /\ Open(e.inst, mem[t].now)
  <2>1. InWindow(e.inst, mem[t].now) /\ e.row \in DueJobs(e.inst, mem[t].now)
    BY <1>2 DEF SweepInv
  <2>2. QED
    BY <1>1, <1>4, <2>1, DueIsOpen DEF JobInv
<1>8. \A i \in Install : inst'[t] = i =>
          InWindow(i, mem[t].now)' /\ expiry'[i] <= mem'[t].now + Lead /\ Open(i, mem[t].now)'
  BY <1>4, <1>5, <1>7 DEF InWindow, Open
<1>9. \A f, g \in due'[t] : f.inst = g.inst => f = g
  BY <1>2, <1>4 DEF SweepInv
<1>10. QED
  BY <1>4, <1>6, <1>8, <1>9 DEF SweepInv

\* The query lists an installation once.
LEMMA ListedOnce ==
  ASSUME TypeOK, OneJobRow, NEW now \in Int
  PROVE  \A e, f \in DueInstalls(now) : e.inst = f.inst => e = f
<1>1. \A e \in DueInstalls(now) : /\ e.inst \in Install /\ e.expiry = expiry[e.inst]
                                 /\ e.row \in DueJobs(e.inst, now)
                                 /\ e = [inst |-> e.inst, row |-> e.row,
                                         expiry |-> e.expiry]
  BY DEF DueInstalls
<1>2. SUFFICES ASSUME NEW e \in DueInstalls(now), NEW f \in DueInstalls(now),
                      e.inst = f.inst
               PROVE  e = f
  OBVIOUS
<1>3. e.row = f.row
  BY <1>1, <1>2, DueIsOpen
<1>4. e.expiry = f.expiry
  BY <1>1, <1>2
<1>5. QED
  BY <1>1, <1>2, <1>3, <1>4

LEMMA SweepStartStep ==
  ASSUME TypeOK, JobInv, NEW t \in Sweeper, SweepStart(t)
  PROVE  SweepInv(t)'
<1>1. t \in Task /\ clock \in Nat
  BY Tasks DEF TypeOK
<1>2. due'[t] = DueInstalls(clock) /\ pc'[t] = "sweep" /\ mem'[t].now = clock
  BY <1>1 DEF SweepStart, Goto, TypeOK, Memory
<1>3. status' = status /\ expiry' = expiry /\ jobs' = jobs
  BY DEF SweepStart, rowVars
<1>4. \A e \in DueInstalls(clock) : /\ e.inst \in Install /\ e.expiry = expiry[e.inst]
                                   /\ InWindow(e.inst, clock)
                                   /\ e.row \in DueJobs(e.inst, clock)
  BY DEF DueInstalls
<1>5. \A e, f \in DueInstalls(clock) : e.inst = f.inst => e = f
  BY <1>1, ListedOnce DEF JobInv
<1>6. \A e \in due'[t] : /\ InWindow(e.inst, mem[t].now)'
                         /\ e.row \in DueJobs(e.inst, mem[t].now)'
                         /\ e.expiry = expiry'[e.inst]
  BY <1>2, <1>3, <1>4 DEF InWindow, DueJobs
<1>7. QED
  BY <1>2, <1>5, <1>6 DEF SweepInv

LEMMA SweepDue ==
  ASSUME TypeOK, LockMeansSweep, JobInv, FreshInv, DueInv, NEW t \in Sweeper, Sweep(t)
  PROVE  DueInv'
<1>1. t \in Task
  BY Tasks
<1>2. ASSUME NEW u \in Sweeper, u # t PROVE SweepInv(u)'
  <2>1. pc[u] = "idle"
    <3>1. lock # u
      BY <1>2, Tasks DEF Sweep, SweepStart, TakeDue, SweepEnd, LockMeansSweep
    <3>2. QED
      BY <3>1 DEF LockMeansSweep
  <2>2. pc'[u] = "idle" /\ due'[u] = due[u]
    BY <1>1, <1>2, <2>1, Tasks DEF Sweep, SweepStart, TakeDue, SweepEnd, Goto, TypeOK
  <2>3. due'[u] = {}
    BY <2>1, <2>2 DEF DueInv, SweepInv
  <2>4. QED
    BY <2>2, <2>3 DEF SweepInv
<1>3. CASE SweepEnd(t)
  <2>1. pc'[t] = "idle" /\ due'[t] = {}
    BY <1>1, <1>3 DEF SweepEnd, Goto, TypeOK
  <2>2. SweepInv(t)'
    BY <2>1 DEF SweepInv
  <2>3. QED
    BY <1>2, <2>2 DEF DueInv
<1>4. SweepStart(t) \/ TakeDue(t) => SweepInv(t)'
  BY SweepStartStep, TakeDueStep
<1>5. QED
  BY <1>2, <1>3, <1>4 DEF Sweep, DueInv

\* A sweep none of whose locals or rows change.
LEMMA SweepInvKept ==
  ASSUME NEW u \in Sweeper, SweepInv(u), pc'[u] = pc[u], due'[u] = due[u],
         mem'[u] = mem[u], inst'[u] = inst[u],
         status' = status, expiry' = expiry, jobs' = jobs
  PROVE  SweepInv(u)'
<1>1. ASSUME NEW i
      PROVE  /\ InWindow(i, mem[u].now)' <=> InWindow(i, mem[u].now)
             /\ DueJobs(i, mem[u].now)' = DueJobs(i, mem[u].now)
             /\ Open(i, mem[u].now)' <=> Open(i, mem[u].now)
  BY DEF InWindow, DueJobs, Open
<1>2. QED
  BY <1>1 DEF SweepInv

LEMMA DueStep ==
  ASSUME UiRefresh = {}, UiInstall = {},
         TypeOK, HasInstall, LockMeansSweep, JobInv, FreshInv, DueInv, [Next]_vars
  PROVE  DueInv'
<1>1. CASE Tick \/ UNCHANGED vars
  <2>1. /\ pc' = pc /\ due' = due /\ mem' = mem /\ inst' = inst
        /\ status' = status /\ expiry' = expiry /\ jobs' = jobs
    BY <1>1 DEF Tick, vars, rowVars, taskVars
  <2>2. QED
    BY <2>1, SweepInvKept DEF DueInv
<1>2. ASSUME NEW ts \in SUBSET Task, Crash(ts) PROVE DueInv'
  <2>1. /\ status' = status /\ expiry' = expiry /\ jobs' = jobs
    BY <1>2 DEF Crash, rowVars
  <2>2. \A u \in Sweeper : u \in ts => pc'[u] = "idle" /\ due'[u] = {}
    BY <1>2, Tasks DEF Crash
  <2>3. \A u \in Sweeper : u \notin ts => /\ pc'[u] = pc[u] /\ due'[u] = due[u]
                                         /\ mem'[u] = mem[u] /\ inst'[u] = inst[u]
    BY <1>2, Tasks DEF Crash
  <2>4. ASSUME NEW u \in Sweeper PROVE SweepInv(u)'
    <3>1. CASE u \in ts
      BY <2>2, <3>1 DEF SweepInv
    <3>2. CASE u \notin ts
      BY <2>1, <2>3, <3>2, SweepInvKept DEF DueInv
    <3>3. QED
      BY <3>1, <3>2
  <2>5. QED
    BY <2>4 DEF DueInv
<1>3. CASE \E run \in orphans : OrphanEnds(run)
  BY <1>3, OrphanApart, SweepInvKept DEF DueInv
<1>4. Task = Sweeper
  BY DEF Task, UiTask, Sweeper
<1>5. QED
  BY <1>1, <1>2, <1>3, <1>4, Tasks, SweepDue, RefreshDue DEF Next

LEMMA DueInvariant ==
  ASSUME UiRefresh = {}, UiInstall = {} PROVE Spec => []DueInv
<1>1. Init => DueInv
  BY Tasks, TaskAssumption DEF Init, DueInv, SweepInv
<1>2. TypeOK /\ HasInstall /\ LockMeansSweep /\ JobInv /\ FreshInv /\ DueInv
         /\ [Next]_vars => DueInv'
  BY DueStep
<1>3. QED
  BY <1>1, <1>2, TypeCorrect, LockMutex, JobInvariant, FreshInvariant, PTL DEF Spec

\* The due list of a sweep is read once and worked off while time passes and
\* statements fail: with sweeps alone, what is still on it is exactly as due as when
\* the query ran, and so is the item that was just taken.
THEOREM ListStaysTrue ==
  ASSUME UiRefresh = {}, UiInstall = {} PROVE Spec => []DueListStaysTrue
<1>1. TypeOK /\ HasInstall /\ JobInv /\ DueInv => DueListStaysTrue
  <2> SUFFICES ASSUME TypeOK, HasInstall, JobInv, DueInv, NEW t \in Sweeper
               PROVE  /\ \A e \in due[t] : e \in DueInstalls(mem[t].now)
                      /\ pc[t] \in {"load", "mark"} =>
                            \E e \in DueInstalls(mem[t].now) : e.inst = inst[t]
    BY DEF DueListStaysTrue
  <2>1. t \in Task /\ mem[t].now \in Int /\ due[t] \subseteq DueRow /\ SweepInv(t)
    BY Tasks, MemNow DEF TypeOK, DueInv
  <2>2. \A e \in due[t] : e \in DueInstalls(mem[t].now)
    BY <2>1, DueEntry DEF SweepInv
  <2>3. ASSUME pc[t] \in {"load", "mark"}
        PROVE  \E e \in DueInstalls(mem[t].now) : e.inst = inst[t]
    <3>1. inst[t] \in Install
      BY <2>1, <2>3 DEF HasInstall
    <3>2. InWindow(inst[t], mem[t].now) /\ Open(inst[t], mem[t].now)
      BY <2>1, <2>3, <3>1 DEF SweepInv
    <3>3. DueJobs(inst[t], mem[t].now) # {}
      BY <2>1, <3>1, <3>2, DueIsOpen DEF JobInv
    <3>4. QED
      BY <2>1, <3>1, <3>2, <3>3, DueListed
  <2>4. QED
    BY <2>2, <2>3
<1>2. QED
  BY <1>1, DueInvariant, JobInvariant, TypeCorrect, PTL

-----------------------------------------------------------------------------
(* The implementation of ProfileLedger *)

\* What the running sweep is about to do with its item is allowed by the ledger.
LEMMA ItemMayTry ==
  ASSUME TypeOK, HasInstall, TimeInv, DueInv, NEW t \in Sweeper,
         pc[t] \in {"load", "mark", "sign", "record", "select", "write"}
  PROVE  /\ inst[t] \in Install
         /\ ~Gate(inst[t]).blocked /\ Gate(inst[t]).next <= clock
         /\ pc[t] = "sign" => expiry[inst[t]] <= clock + Lead
<1>1. t \in Task /\ inst[t] \in Install /\ clock \in Nat
  BY Tasks DEF HasInstall, TypeOK
<1>2. mem[t].now <= clock /\ mem[t].now \in Nat /\ expiry[inst[t]] \in Int
  BY <1>1, MemNow DEF TimeInv, TypeOK
<1>3. Open(inst[t], mem[t].now) /\ (pc[t] = "sign" => expiry[inst[t]] <= mem[t].now + Lead)
  BY <1>1 DEF DueInv, SweepInv
<1>4. CASE jobs[inst[t]] = <<>>
  BY <1>1, <1>2, <1>3, <1>4, TimeAssumption DEF Gate, NULL
<1>5. CASE jobs[inst[t]] # <<>>
  <2>1. jobs[inst[t]] \in Seq(JobRow)
    BY <1>1 DEF TypeOK
  <2>2. jobs[inst[t]][1].next \in Int
    BY <1>5, <2>1, FirstJob DEF JobRow
  <2>3. ~Gate(inst[t]).blocked /\ Gate(inst[t]).next = jobs[inst[t]][1].next
    BY <1>3, <1>5 DEF Gate, Open
  <2>4. jobs[inst[t]][1].next <= mem[t].now
    BY <1>3, <1>5 DEF Open
  <2>5. QED
    BY <1>1, <1>2, <1>3, <2>2, <2>3, <2>4, TimeAssumption
<1>6. QED
  BY <1>4, <1>5

\* The part of the state the ledger sees, and the map to its steps.
Unseen ==
    /\ clock' = clock /\ lock' = lock /\ device' = device /\ orphans' = orphans
    /\ expiry' = expiry /\ jobs' = jobs

LEMMA UnseenStutters == ASSUME Unseen PROVE UNCHANGED Ledger!ledgerVars
  BY DEF Unseen, Ledger!ledgerVars, Gate

LEMMA HolderIsSweeper ==
  ASSUME LockMeansSweep, NEW t \in Sweeper, pc[t] # "idle"
  PROVE  lock = t /\ lock # None
  BY Tasks DEF LockMeansSweep

\* The signer's work is a renewal.
LEMMA SignRenews ==
  ASSUME TypeOK, HasInstall, LockMeansSweep, TimeInv, DueInv, NEW t \in Sweeper, SignOk(t),
         NEW i \in Install, inst[t] = i
  PROVE  Ledger!Renew(i)
<1>1. pc[t] = "sign"
  BY DEF SignOk
<1>2. device' = [device EXCEPT ![inst[t]] = Signed(mem[t].version)]
  BY DEF SignOk
<1>3. [j \in Install |-> device'[j].expiry]
        = [[j \in Install |-> device[j].expiry] EXCEPT ![i] = clock + Lifetime]
  BY <1>1, <1>2 DEF TypeOK, Signed
<1>4. UNCHANGED <<clock, lock, orphans, expiry, jobs>>
  BY DEF SignOk, rowVars
<1>5. Ledger!Due(i)
  BY <1>1, ItemMayTry DEF Ledger!Due, Ledger!MayTry
<1>6. QED
  BY <1>1, <1>3, <1>4, <1>5, HolderIsSweeper DEF Ledger!Renew, Ledger!Lands, Gate

\* record_install books what the phone has.
LEMMA RecordBooks ==
  ASSUME TypeOK, HasInstall, LockMeansSweep, TimeInv, FreshInv, NEW t \in Sweeper, Record(t),
         NEW i \in Install, inst[t] = i
  PROVE  Ledger!Book(i)
<1>1. pc[t] = "record" /\ t \in Task
  BY Tasks DEF Record
<1>2. expiry' = [expiry EXCEPT ![i] = mem[t].now + Lifetime]
  BY DEF Record, RecordInstall
<1>3. expiry'[i] = mem[t].now + Lifetime /\ expiry \in [Install -> Int]
  BY <1>1, <1>2 DEF TypeOK
<1>4. expiry[i] <= expiry'[i]
  BY <1>1, RecordFresh
<1>5. mem[t].now + Lifetime <= device[i].expiry + RecordLag
  <2>1. mem[t].now + Lifetime <= device[i].expiry /\ mem[t].now \in Nat
    BY <1>1, MemNow DEF TimeInv
  <2>2. device[i].expiry \in Int
    BY <1>1 DEF TypeOK
  <2>3. QED
    BY <2>1, <2>2, TimeAssumption
<1>6. UNCHANGED <<clock, lock, device, orphans, jobs>>
  BY DEF Record
<1>7. QED
  BY <1>1, <1>2, <1>3, <1>4, <1>5, <1>6, HolderIsSweeper DEF Ledger!Book, Gate

\* A write of upsert_job settles the attempt, for a while or for good.
LEMMA WriteSettles ==
  ASSUME TypeOK, HasInstall, LockMeansSweep, TimeInv, DueInv, NextInv, NEW t \in Sweeper,
         JobWrite(t), NEW i \in Install, inst[t] = i
  PROVE  Ledger!Settle(i)
<1>1. pc[t] = "write" /\ t \in Task /\ RefreshStep(t)
  BY Tasks DEF JobWrite, RefreshStep, EngineStep, SignerStep
<1>2. UNCHANGED <<clock, lock, device, orphans, expiry>>
  BY DEF JobWrite, rowVars
<1>3. \A j \in Install : j # i => jobs'[j] = jobs[j]
  BY <1>1 DEF JobWrite, TypeOK
<1> DEFINE gate == [j \in Install |-> Gate(j)]
<1>4. gate' = [gate EXCEPT ![i] = gate'[i]]
  BY <1>3 DEF Gate
<1>5. [Next]_vars
  BY <1>1 DEF Next
<1>6. TypeOK' /\ NextInv'
  BY <1>1, <1>5, RefreshTyped, NextStep
<1>7. gate'[i].next <= clock + BackoffCap
  <2>1. clock \in Nat
    BY DEF TypeOK
  <2>2. CASE jobs'[i] = <<>>
    <3>1. gate'[i].next = NULL
      BY <2>2 DEF Gate
    <3>2. QED
      BY <2>1, <3>1, TimeAssumption DEF NULL
  <2>3. CASE jobs'[i] # <<>>
    <3>1. jobs'[i] \in Seq(JobRow)
      BY <1>6 DEF TypeOK
    <3>2. 1 \in DOMAIN jobs'[i]
      BY <2>3, <3>1, FirstJob
    <3>3. jobs'[i][1].next <= clock' + BackoffCap
      BY <1>6, <3>2 DEF NextInv
    <3>4. gate'[i].next = jobs'[i][1].next
      BY <2>3 DEF Gate
    <3>5. QED
      BY <1>2, <3>3, <3>4
  <2>4. QED
    BY <2>2, <2>3
<1>8. ~gate[i].blocked /\ gate[i].next <= clock /\ lock # None
  BY <1>1, ItemMayTry, HolderIsSweeper
<1>9. QED
  BY <1>2, <1>4, <1>7, <1>8 DEF Ledger!Settle, Ledger!MayTry

\* A crash of the sweep's process ends it, and may leave its signer run adrift.
LEMMA CrashEnds ==
  ASSUME UiRefresh = {}, UiInstall = {},
         TypeOK, HasInstall, LockMeansSweep, TimeInv, DueInv,
         NEW ts \in SUBSET Task, Crash(ts)
  PROVE  Ledger!End
<1>1. Task = Sweeper
  BY DEF Task, UiTask, Sweeper
<1>2. PICK t \in ts : pc[t] # "idle"
  BY DEF Crash
<1>3. lock = t /\ lock # None /\ t \in Sweeper
  BY <1>1, <1>2, HolderIsSweeper
<1>4. lock' = None /\ UNCHANGED <<clock, device, expiry, jobs>>
  BY <1>2, <1>3 DEF Crash, rowVars
<1> DEFINE adrift == {run.inst : run \in orphans}
<1>5. adrift' = adrift \/ \E i \in Install : Ledger!Due(i) /\ adrift' = adrift \cup {i}
  <2>1. PICK left \in SUBSET {u \in ts : pc[u] \in {"sign", "install"}} :
              orphans' = orphans \cup
                 {[inst |-> inst[u], version |-> mem[u].version] : u \in left}
    BY DEF Crash
  <2>2. \A u \in left : u = t /\ pc[t] = "sign" /\ inst[t] \in Install
    <3>1. \A u \in left : u = t
      BY <1>1, <1>2, <1>3, OthersIdle
    <3>2. \A u \in left : pc[u] = "sign" /\ inst[u] \in Install
      BY <1>1 DEF DueInv, SweepInv, HasInstall
    <3>3. QED
      BY <3>1, <3>2
  <2>3. CASE left = {}
    BY <2>1, <2>3
  <2>4. CASE left # {}
    <3>1. left = {t} /\ pc[t] = "sign" /\ inst[t] \in Install
      BY <2>2, <2>4
    <3>2. PICK i \in Install : inst[t] = i
      BY <3>1
    <3>3. orphans' = orphans \cup {[inst |-> i, version |-> mem[t].version]}
      BY <2>1, <3>1, <3>2
    <3>4. adrift' = adrift \cup {i}
      <4> DEFINE run == [inst |-> i, version |-> mem[t].version]
      <4>1. run.inst = i
        OBVIOUS
      <4>2. orphans' = orphans \cup {run}
        BY <3>3
      <4> HIDE DEF run
      <4>3. QED
        BY <4>1, <4>2
    <3>5. Ledger!Due(i)
      BY <1>3, <3>1, <3>2, ItemMayTry DEF Ledger!Due, Ledger!MayTry
    <3>6. QED
      BY <3>4, <3>5
  <2>5. QED
    BY <2>3, <2>4
<1>6. QED
  BY <1>3, <1>4, <1>5 DEF Ledger!End, Gate

\* A run nobody waits for is a renewal adrift.
LEMMA OrphanDrifts ==
  ASSUME TypeOK, NEW run \in orphans, OrphanEnds(run),
         NEW i \in Install, run.inst = i
  PROVE  Ledger!Drift(i)
<1> DEFINE adrift == {r.inst : r \in orphans}
<1>1. i \in adrift
  OBVIOUS
<1>2. orphans' = orphans \ {run}
  BY DEF OrphanEnds
<1>3. adrift' \in {adrift, adrift \ {i}}
  <2>1. CASE \E r \in orphans : r # run /\ r.inst = i
    BY <1>2, <2>1
  <2>2. CASE ~\E r \in orphans : r # run /\ r.inst = i
    BY <1>2, <2>2
  <2>3. QED
    BY <2>1, <2>2
<1>4. UNCHANGED <<clock, lock, expiry, jobs>>
  BY OrphanApart
<1> DEFINE phone == [j \in Install |-> device[j].expiry]
<1>5. phone' = [phone EXCEPT ![i] = clock + Lifetime] \/ phone' = phone
  <2>1. CASE device' = [device EXCEPT ![i] = Signed(run.version)]
    <3>1. \A j \in Install : device'[j].expiry =
                IF j = i THEN clock + Lifetime ELSE device[j].expiry
      BY <2>1 DEF Signed, TypeOK
    <3>2. QED
      BY <3>1
  <2>2. CASE device' = device
    BY <2>2
  <2>3. QED
    BY <2>1, <2>2 DEF OrphanEnds
<1>6. QED
  BY <1>1, <1>3, <1>4, <1>5 DEF Ledger!Drift, Ledger!Lands, Gate

LEMMA LedgerStep ==
  ASSUME UiRefresh = {}, UiInstall = {},
         TypeOK, HasInstall, LockMeansSweep, TimeInv, JobInv, FreshInv, DueInv, NextInv,
         [Next]_vars
  PROVE  [Ledger!Next]_(Ledger!ledgerVars)
<1>1. Task = Sweeper
  BY DEF Task, UiTask, Sweeper
<1>2. CASE UNCHANGED vars
  BY <1>2, UnseenStutters DEF vars, rowVars, Unseen
<1>3. CASE Tick
  BY <1>3 DEF Tick, rowVars, Ledger!Next, Ledger!Tick, Gate
<1>4. ASSUME NEW t \in Sweeper, Sweep(t) PROVE [Ledger!Next]_(Ledger!ledgerVars)
  <2>1. CASE SweepStart(t)
    <3>1. lock = None /\ lock' = t /\ UNCHANGED <<clock, device, orphans, expiry, jobs>>
      BY <2>1 DEF SweepStart, rowVars
    <3>2. Ledger!Begin
      BY <3>1 DEF Ledger!Begin, Gate
    <3>3. QED
      BY <3>2 DEF Ledger!Next
  <2>2. CASE TakeDue(t)
    BY <2>2, UnseenStutters DEF TakeDue, Unseen, rowVars
  <2>3. CASE SweepEnd(t)
    <3>1. lock' = None /\ pc[t] = "sweep"
          /\ UNCHANGED <<clock, device, orphans, expiry, jobs>>
      BY <2>3 DEF SweepEnd, rowVars
    <3>2. Ledger!End
      BY <3>1, HolderIsSweeper DEF Ledger!End, Gate
    <3>3. QED
      BY <3>2 DEF Ledger!Next
  <2>4. QED
    BY <1>4, <2>1, <2>2, <2>3 DEF Sweep
<1>5. ASSUME NEW t \in Sweeper, RefreshStep(t) PROVE [Ledger!Next]_(Ledger!ledgerVars)
  <2>1. CASE Load(t) \/ Mark(t) \/ JobSelect(t) \/ Restore(t)
             \/ \E err \in Error : SignFail(t, err)
    BY <2>1, UnseenStutters DEF Load, Mark, JobSelect, Restore, SignFail, Unseen, rowVars
  <2>2. CASE SignOk(t) \/ Record(t) \/ JobWrite(t)
    <3>1. PICK i \in Install : inst[t] = i
      BY <2>2, Tasks DEF SignOk, Record, JobWrite, HasInstall
    <3>2. Ledger!Renew(i) \/ Ledger!Book(i) \/ Ledger!Settle(i)
      BY <2>2, <3>1, SignRenews, RecordBooks, WriteSettles
    <3>3. QED
      BY <3>2 DEF Ledger!Next
  <2>3. QED
    BY <1>5, <2>1, <2>2 DEF RefreshStep, EngineStep, SignerStep
<1>6. ASSUME NEW t \in Task, DbError(t) PROVE [Ledger!Next]_(Ledger!ledgerVars)
  BY <1>6, UnseenStutters DEF DbError, Unseen, rowVars
<1>7. ASSUME NEW ts \in SUBSET Task, Crash(ts) PROVE [Ledger!Next]_(Ledger!ledgerVars)
  BY <1>7, CrashEnds DEF Ledger!Next
<1>8. ASSUME NEW run \in orphans, OrphanEnds(run) PROVE [Ledger!Next]_(Ledger!ledgerVars)
  <2>1. run.inst \in Install
    BY DEF TypeOK, Run
  <2>2. PICK i \in Install : run.inst = i
    BY <2>1
  <2>3. QED
    BY <1>8, <2>2, OrphanDrifts DEF Ledger!Next
<1>9. QED
  BY <1>1, <1>2, <1>3, <1>4, <1>5, <1>6, <1>7, <1>8, Tasks DEF Next

\* Refinement: whatever fails or crashes, sweeps keep the promises of the ledger.  One
\* at a time renews, only what has come into its lead window and may be tried now,
\* books no more than the phone has and never less than before, and leaves every
\* attempt blocked or with a next try at most one backoff away.  The signer run of a
\* sweep that died may reach the phone at any later time, beside another sweep.
THEOREM LedgerKept ==
  ASSUME UiRefresh = {}, UiInstall = {} PROVE Spec => KeepsLedger
<1>1. Init => Ledger!Init
  <2> SUFFICES ASSUME Init PROVE Ledger!Init
    OBVIOUS
  <2>1. \A i \in Install : Gate(i) = [blocked |-> FALSE, next |-> NULL]
    BY DEF Init, Gate
  <2>2. \A i \in Install : expiry[i] <= device[i].expiry + RecordLag
    BY TimeAssumption DEF Init
  <2>3. QED
    BY <2>1, <2>2 DEF Init, Ledger!Init, NULL
<1>2. Init => NextInv
  BY DEF Init, NextInv
<1>3. TypeOK /\ HasInstall /\ PromiseInv /\ NextInv /\ [Next]_vars => NextInv'
  BY NextStep DEF PromiseInv
<1>4. TypeOK /\ HasInstall /\ LockMeansSweep /\ PromiseInv /\ JobInv /\ FreshInv /\ DueInv
         /\ NextInv /\ [Next]_vars => [Ledger!Next]_(Ledger!ledgerVars)
  BY LedgerStep DEF PromiseInv
<1>5. QED
  BY <1>1, <1>2, <1>3, <1>4, TypeCorrect, LockMutex, PromiseInvariant, JobInvariant,
     FreshInvariant, DueInvariant, PTL DEF Spec, KeepsLedger, Ledger!Spec

-----------------------------------------------------------------------------
(* "failed" is a blocked job *)

\* While i is worked on, what it still takes to make its status tell of its job.
Surfacing(t, i) ==
    /\ pc[t] \in {"load", "mark", "sign", "record", "select", "write", "restore"}
    /\ pc[t] # "restore" => ~Blocked(i)
    /\ pc[t] \in {"load", "mark"} => status[i] # "failed"
    /\ pc[t] = "write" /\ mem[t].found => jobs[i] # <<>>
    /\ pc[t] \in {"sign", "record", "restore"} => status[i] = "refreshing"
    /\ pc[t] \in {"select", "write"} =>
          status[i] = IF mem[t].upsert = "clear" THEN "idle" ELSE "refreshing"
    /\ pc[t] = "restore" => (Blocked(i) <=> mem[t].upsert = "block")

SurfaceInv ==
    /\ FailedIffBlocked
    /\ \A t \in Sweeper, i \in Install : inst[t] = i => Surfacing(t, i)

\* An attempt may be given up at any of its steps: the status tells of the job, or
\* still says "refreshing".
LEMMA GivenUp ==
  ASSUME NEW t, NEW i, Surfacing(t, i), status[i] # "refreshing"
  PROVE  status[i] = "failed" <=> Blocked(i)
  BY DEF Surfacing

\* With one row at most, an open job is not blocked.
LEMMA OpenNotBlocked ==
  ASSUME TypeOK, OneJobRow, NEW i \in Install, NEW now, Open(i, now)
  PROVE  ~Blocked(i)
<1>1. jobs[i] \in Seq(JobRow) /\ Len(jobs[i]) \in Nat /\ Len(jobs[i]) <= 1
  BY DEF TypeOK, OneJobRow
<1> DEFINE n == Len(jobs[i])
<1>2. \A k \in DOMAIN jobs[i] : k = 1
  <2>1. n \in Nat /\ n <= 1 /\ DOMAIN jobs[i] = 1 .. n
    BY <1>1
  <2> HIDE DEF n
  <2>2. QED
    BY <2>1
<1>3. QED
  BY <1>2 DEF Open, Blocked

\* The write of upsert_job blocks the job exactly when it is block_job's.
LEMMA WriteBlocks ==
  ASSUME TypeOK, HasInstall, JobInv, JobInv', NEW t \in Sweeper, JobWrite(t),
         NEW i \in Install, inst[t] = i, ~Blocked(i), mem[t].found => jobs[i] # <<>>
  PROVE  Blocked(i)' <=> mem[t].upsert = "block"
<1>1. t \in Task /\ mem[t] \in Memory /\ RefreshStep(t)
  BY Tasks DEF TypeOK, RefreshStep, EngineStep, SignerStep
<1>2. jobs'[i] \in Seq(JobRow) /\ jobs[i] \in Seq(JobRow)
  <2>1. TypeOK'
    BY <1>1, RefreshTyped
  <2>2. QED
    BY <2>1 DEF TypeOK
<1>3. jobs'[i] # <<>> /\ jobs'[i][1] = NewJob(mem[t])
  <2> DEFINE row == NewJob(mem[t])
             old == jobs[i]
  <2>1. jobs'[i] = IF mem[t].found THEN [old EXCEPT ![1] = row] ELSE Append(old, row)
    BY DEF JobWrite, TypeOK
  <2>2. row \in JobRow /\ old \in Seq(JobRow)
    BY <1>1, <1>2, NewJobType
  <2> HIDE DEF row
  <2>3. CASE ~mem[t].found
    <3>1. old = <<>>
      BY <2>3 DEF JobInv, JobWrite
    <3>2. jobs'[i] = <<row>>
      BY <2>1, <2>2, <2>3, <3>1
    <3>3. QED
      BY <3>2 DEF row
  <2>4. CASE mem[t].found /\ old # <<>>
    <3>1. 1 \in DOMAIN old /\ 1 \in 1 .. Len(old)
      BY <2>2, <2>4, FirstJob
    <3>2. jobs'[i][1] = row /\ 1 \in DOMAIN jobs'[i]
      BY <2>1, <2>2, <2>4, <3>1
    <3>3. jobs'[i] # <<>>
      BY <3>2
    <3>4. QED
      BY <3>2, <3>3 DEF row
  <2>5. QED
    BY <2>3, <2>4
<1>4. Len(jobs'[i]) <= 1 /\ 1 \in DOMAIN jobs'[i]
  BY <1>2, <1>3, FirstJob DEF JobInv, OneJobRow
<1>5. \A k \in DOMAIN jobs'[i] : k = 1
  <2> DEFINE n == Len(jobs'[i])
  <2>1. n \in Nat /\ n <= 1 /\ DOMAIN jobs'[i] = 1 .. n
    BY <1>2, <1>4
  <2> HIDE DEF n
  <2>2. QED
    BY <2>1
<1>6. Blocked(i)' <=> jobs'[i][1].status = "blocked"
  BY <1>4, <1>5 DEF Blocked
<1>7. QED
  BY <1>1, <1>3, <1>6, NewJobNext

\* A step of a sweep on its item: everything else keeps its status and its job.
LEMMA SurfaceItem ==
  ASSUME Task = Sweeper, TypeOK, LockMeansSweep, SurfaceInv, NEW t \in Sweeper,
         \A u \in Task : u # t => Same(u) /\ pc[u] = "idle",
         \A i \in Install : i # inst[t] => status'[i] = status[i] /\ jobs'[i] = jobs[i],
         \A i \in Install : inst'[t] = i => Surfacing(t, i)',
         \A i \in Install : inst[t] = i /\ inst'[t] # i /\ status'[i] # "refreshing" =>
                               (status'[i] = "failed" <=> Blocked(i)')
  PROVE  SurfaceInv'
<1>1. \A u \in Task : u # t => inst'[u] = inst[u] /\ inst[u] \notin Install
  BY DEF Same, SurfaceInv, Surfacing
<1>2. ASSUME NEW i \in Install, Quiet(i)', status'[i] # "refreshing"
      PROVE  status'[i] = "failed" <=> Blocked(i)'
  <2>1. inst'[t] # i
    BY <1>2 DEF Quiet, Busy
  <2>2. CASE inst[t] = i
    BY <1>2, <2>1, <2>2
  <2>3. CASE inst[t] # i
    <3>1. Quiet(i)
      BY <1>1, <1>2, <2>3 DEF Quiet, Busy
    <3>2. status'[i] = status[i] /\ jobs'[i] = jobs[i]
      BY <2>3
    <3>3. QED
      BY <1>2, <3>1, <3>2 DEF SurfaceInv, FailedIffBlocked, Blocked
  <2>4. QED
    BY <2>2, <2>3
<1>3. FailedIffBlocked'
  BY <1>2 DEF FailedIffBlocked
<1>4. ASSUME NEW u \in Sweeper, NEW i \in Install, inst'[u] = i PROVE Surfacing(u, i)'
  BY <1>1, <1>4
<1>5. QED
  BY <1>3, <1>4 DEF SurfaceInv

LEMMA RefreshSurface ==
  ASSUME Task = Sweeper, TypeOK, HasInstall, LockMeansSweep, JobInv, JobInv', DueInv,
         SurfaceInv, NEW t \in Sweeper, RefreshStep(t)
  PROVE  SurfaceInv'
<1>1. t \in Task /\ pc[t] \notin {"idle", "sweep"}
  BY DEF RefreshStep, EngineStep, SignerStep,
         Load, Mark, SignOk, SignFail, Record, JobSelect, JobWrite, Restore
<1>2. PICK i \in Install : inst[t] = i
  BY <1>1 DEF HasInstall
<1>3. \A u \in Task : u # t => Same(u) /\ pc[u] = "idle"
  BY <1>1, OthersKeep, OthersIdle
<1>4. \A j \in Install : j # i => status'[j] = status[j] /\ jobs'[j] = jobs[j]
  BY <1>2 DEF RefreshStep, EngineStep, SignerStep,
              Load, Mark, SignOk, SignFail, Record, JobSelect, JobWrite,
              Restore, RecordInstall, rowVars, TypeOK
<1>5. Surfacing(t, i)
  BY <1>2 DEF SurfaceInv
<1>6. ASSUME inst' = inst, Surfacing(t, i)' PROVE SurfaceInv'
  BY <1>2, <1>3, <1>4, <1>6, SurfaceItem
<1>7. ASSUME Return(t), status'[i] # "refreshing" => (status'[i] = "failed" <=> Blocked(i)')
      PROVE  SurfaceInv'
  <2>1. inst'[t] = None /\ None \notin Install
    BY <1>1, <1>7, TaskAssumption DEF Return, TypeOK
  <2>2. QED
    BY <1>2, <1>3, <1>4, <1>7, <2>1, SurfaceItem
<1>8. ASSUME NEW l, Goto(t, l) PROVE pc'[t] = l
  BY <1>1, <1>8 DEF Goto, TypeOK
<1>9. \A u \in Upsert : Locals(t, u).upsert = u
  BY DEF Locals, Forgotten
<1>10. mem \in [Task -> Memory]
  BY DEF TypeOK
<1>11. CASE Load(t)
  <2>1. pc'[t] = "mark" /\ pc[t] = "load" /\ UNCHANGED <<status, jobs, inst>>
    BY <1>8, <1>11 DEF Load, rowVars
  <2>2. Surfacing(t, i)'
    BY <1>5, <2>1 DEF Surfacing, Blocked
  <2>3. QED
    BY <1>6, <2>1, <2>2
<1>12. CASE Mark(t)
  <2>1. pc'[t] = "sign" /\ pc[t] = "mark" /\ status'[i] = "refreshing" /\ UNCHANGED <<jobs, inst>>
    BY <1>2, <1>8, <1>12 DEF Mark, TypeOK
  <2>2. Surfacing(t, i)'
    BY <1>5, <2>1 DEF Surfacing, Blocked
  <2>3. QED
    BY <1>6, <2>1, <2>2
<1>13. CASE SignOk(t)
  <2>1. pc'[t] = "record" /\ pc[t] = "sign" /\ UNCHANGED <<status, jobs, inst>>
    BY <1>8, <1>13 DEF SignOk, rowVars
  <2>2. Surfacing(t, i)'
    BY <1>5, <2>1 DEF Surfacing, Blocked
  <2>3. QED
    BY <1>6, <2>1, <2>2
<1>14. CASE \E err \in Error : SignFail(t, err)
  <2>1. pc'[t] = "select" /\ pc[t] = "sign" /\ UNCHANGED <<status, jobs, inst>>
    BY <1>8, <1>14 DEF SignFail, rowVars
  <2>2. mem'[t].upsert \in {"retry", "block"}
    BY <1>1, <1>9, <1>10, <1>14 DEF SignFail, Upsert
  <2>3. Surfacing(t, i)'
    BY <1>5, <2>1, <2>2 DEF Surfacing, Blocked
  <2>4. QED
    BY <1>6, <2>1, <2>3
<1>15. CASE Record(t)
  <2>1. pc'[t] = "select" /\ pc[t] = "record" /\ UNCHANGED <<jobs, inst>>
    BY <1>8, <1>15 DEF Record
  <2>2. status'[i] = "idle" /\ mem'[t].upsert = "clear"
    BY <1>1, <1>2, <1>9, <1>10, <1>15 DEF Record, RecordInstall, TypeOK, Upsert
  <2>3. Surfacing(t, i)'
    BY <1>5, <2>1, <2>2 DEF Surfacing, Blocked
  <2>4. QED
    BY <1>6, <2>1, <2>3
<1>16. CASE JobSelect(t)
  <2>1. pc'[t] = "write" /\ pc[t] = "select" /\ UNCHANGED <<status, jobs, inst>>
    BY <1>8, <1>16 DEF JobSelect, rowVars
  <2>2. mem'[t].upsert = mem[t].upsert /\ mem'[t].found = (jobs[i] # <<>>)
    BY <1>1, <1>2, <1>10, <1>16 DEF JobSelect, Memory
  <2>3. Surfacing(t, i)'
    BY <1>5, <2>1, <2>2 DEF Surfacing, Blocked
  <2>4. QED
    BY <1>6, <2>1, <2>3
<1>17. CASE JobWrite(t)
  <2>1. pc[t] = "write" /\ status' = status
    BY <1>17 DEF JobWrite, rowVars
  <2>2. Blocked(i)' <=> mem[t].upsert = "block"
    BY <1>2, <1>5, <1>17, <2>1, WriteBlocks DEF Surfacing
  <2>3. CASE mem[t].upsert = "clear" /\ Return(t)
    <3>1. status'[i] = "idle"
      BY <1>5, <2>1, <2>3 DEF Surfacing
    <3>2. QED
      BY <1>7, <2>2, <2>3, <3>1
  <2>4. CASE /\ mem[t].upsert = "retry" /\ inst' = inst /\ pc'[t] = "select"
             /\ mem'[t].upsert = "defer"
    <3>1. Surfacing(t, i)'
      BY <1>5, <2>1, <2>2, <2>4 DEF Surfacing
    <3>2. QED
      BY <1>6, <2>4, <3>1
  <2>5. CASE /\ mem[t].upsert # "clear" /\ inst' = inst
             /\ pc'[t] = "restore" /\ mem'[t].upsert = mem[t].upsert
    <3>1. Surfacing(t, i)'
      BY <1>5, <2>1, <2>2, <2>5 DEF Surfacing
    <3>2. QED
      BY <1>6, <2>5, <3>1
  <2>6. QED
    <3>1. Locals(t, "defer").upsert = "defer" /\ Locals(t, mem[t].upsert).upsert = mem[t].upsert
      BY DEF Locals, Forgotten
    <3>2. [Locals(t, "defer") EXCEPT !.bumped = NewJob(mem[t]).retries].upsert = "defer"
      BY DEF Locals, Forgotten
    <3>3. QED
      BY <1>1, <1>8, <1>10, <1>17, <2>3, <2>4, <2>5, <3>1, <3>2 DEF JobWrite
<1>18. CASE Restore(t)
  <2>1. pc[t] = "restore" /\ jobs' = jobs /\ Return(t)
    BY <1>18 DEF Restore
  <2>2. status'[i] = IF mem[t].upsert = "block" THEN "failed" ELSE "idle"
    BY <1>2, <1>18 DEF Restore, TypeOK
  <2>3. Blocked(i)' <=> mem[t].upsert = "block"
    BY <1>5, <2>1 DEF Surfacing, Blocked
  <2>4. QED
    BY <1>7, <2>1, <2>2, <2>3
<1>19. QED
  BY <1>11, <1>12, <1>13, <1>14, <1>15, <1>16, <1>17, <1>18
     DEF RefreshStep, EngineStep, SignerStep

LEMMA SweepSurface ==
  ASSUME Task = Sweeper, TypeOK, LockMeansSweep, JobInv, DueInv, SurfaceInv,
         NEW t \in Sweeper, Sweep(t)
  PROVE  SurfaceInv'
<1>1. t \in Task /\ status' = status /\ jobs' = jobs
  BY DEF Sweep, SweepStart, TakeDue, SweepEnd, rowVars
<1>2. \A u \in Task : u # t => Same(u) /\ pc[u] = "idle"
  <2>1. ASSUME NEW u \in Task, u # t PROVE Same(u)
    BY <1>1, <2>1 DEF Sweep, SweepStart, TakeDue, SweepEnd, Goto, Same, TypeOK
  <2>2. \A u \in Sweeper : u # t => lock # u
    BY Tasks DEF Sweep, SweepStart, TakeDue, SweepEnd, LockMeansSweep
  <2>3. QED
    BY <2>1, <2>2 DEF LockMeansSweep
<1>3. inst[t] \notin Install
  BY DEF Sweep, SweepStart, TakeDue, SweepEnd, SurfaceInv, Surfacing
<1>4. CASE inst' = inst
  BY <1>1, <1>2, <1>3, <1>4, SurfaceItem
<1>5. CASE TakeDue(t)
  <2>1. PICK e \in due[t] : inst' = [inst EXCEPT ![t] = e.inst]
    BY <1>5 DEF TakeDue
  <2>2. inst'[t] = e.inst /\ pc'[t] = "load" /\ e.inst \in Install /\ mem[t].now \in Int
    <3>1. mem[t].now \in Int
      BY <1>1, MemNow
    <3>2. e \in DueRow
      BY <1>1 DEF TypeOK
    <3>3. inst'[t] = e.inst /\ pc'[t] = "load"
      BY <1>1, <1>5, <2>1 DEF TakeDue, Goto, TypeOK
    <3>4. QED
      BY <3>1, <3>2, <3>3 DEF DueRow
  <2>3. e.row \in DueJobs(e.inst, mem[t].now)
    BY DEF DueInv, SweepInv
  <2>4. ~Blocked(e.inst)
    BY <2>2, <2>3, DueIsOpen, OpenNotBlocked DEF JobInv
  <2>5. \A u \in Task : inst[u] \notin Install
    BY <1>2, <1>3 DEF SurfaceInv, Surfacing
  <2>6. status[e.inst] # "failed"
    BY <2>2, <2>4, <2>5 DEF SurfaceInv, FailedIffBlocked, Quiet, Busy
  <2>7. \A i \in Install : inst'[t] = i => Surfacing(t, i)'
    BY <1>1, <2>2, <2>4, <2>6 DEF Surfacing, Blocked
  <2>8. QED
    BY <1>1, <1>2, <1>3, <2>7, SurfaceItem
<1>6. QED
  BY <1>4, <1>5 DEF Sweep, SweepStart, SweepEnd

\* A statement that fails gives the attempt up, or leaves it to be recorded as failed.
LEMMA FailingSurface ==
  ASSUME Task = Sweeper, TypeOK, HasInstall, LockMeansSweep, SurfaceInv,
         NEW t \in Sweeper, DbError(t)
  PROVE  SurfaceInv'
<1>1. t \in Task /\ pc[t] \notin {"idle", "sweep"} /\ UNCHANGED <<status, jobs>>
  BY DEF DbError, rowVars
<1>2. PICK i \in Install : inst[t] = i
  BY <1>1 DEF HasInstall
<1>3. \A u \in Task : u # t => Same(u) /\ pc[u] = "idle"
  BY <1>1, OthersKeep, OthersIdle
<1>4. Surfacing(t, i)
  BY <1>2 DEF SurfaceInv
<1>5. CASE inst' = inst
  <2>1. pc[t] = "record" /\ pc'[t] = "select" /\ mem'[t].upsert = "retry"
    <3>1. ~Return(t)
      BY <1>1, <1>2, <1>5, TaskAssumption DEF Return, TypeOK
    <3>2. Locals(t, "retry").upsert = "retry"
      BY DEF Locals, Forgotten
    <3>3. QED
      BY <1>1, <3>1, <3>2 DEF DbError, Goto, TypeOK
  <2>2. Surfacing(t, i)'
    BY <1>1, <1>4, <2>1 DEF Surfacing, Blocked
  <2>3. QED
    BY <1>1, <1>2, <1>3, <1>5, <2>2, SurfaceItem
<1>6. CASE Return(t)
  <2>1. inst'[t] = None /\ None \notin Install
    BY <1>1, <1>6, TaskAssumption DEF Return, TypeOK
  <2>2. status'[i] # "refreshing" => (status'[i] = "failed" <=> Blocked(i)')
    BY <1>1, <1>4, GivenUp DEF Blocked
  <2>3. QED
    BY <1>1, <1>2, <1>3, <2>1, <2>2, SurfaceItem
<1>7. QED
  BY <1>5, <1>6 DEF DbError

\* So does the death of the process.
LEMMA CrashSurface ==
  ASSUME Task = Sweeper, TypeOK, SurfaceInv, NEW ts \in SUBSET Task, Crash(ts)
  PROVE  SurfaceInv'
<1>1. UNCHANGED <<status, jobs>>
  BY DEF Crash, rowVars
<1>2. ASSUME NEW u \in Task PROVE inst'[u] = None \/ Same(u)
  <2>1. inst'[u] = IF u \in ts THEN None ELSE inst[u]
    BY DEF Crash
  <2>2. pc'[u] = (IF u \in ts THEN "idle" ELSE pc[u])
        /\ mem'[u] = (IF u \in ts THEN Forgotten ELSE mem[u])
    BY DEF Crash
  <2>3. QED
    BY <2>1, <2>2 DEF Same
<1>3. None \notin Install
  BY TaskAssumption
<1>4. ASSUME NEW i \in Install, Quiet(i)', status[i] # "refreshing"
      PROVE  status[i] = "failed" <=> Blocked(i)
  <2>1. CASE Quiet(i)
    BY <1>4, <2>1 DEF SurfaceInv, FailedIffBlocked
  <2>2. CASE ~Quiet(i)
    <3>1. PICK t \in Task : inst[t] = i
      BY <2>2 DEF Quiet, Busy
    <3>2. QED
      BY <1>4, <3>1, GivenUp DEF SurfaceInv
  <2>3. QED
    BY <2>1, <2>2
<1>5. FailedIffBlocked'
  BY <1>1, <1>4 DEF FailedIffBlocked, Blocked
<1>6. ASSUME NEW u \in Sweeper, NEW i \in Install, inst'[u] = i PROVE Surfacing(u, i)'
  <2>1. Same(u) /\ Surfacing(u, i)
    BY <1>2, <1>3, <1>6 DEF SurfaceInv, Same
  <2>2. QED
    BY <1>1, <2>1 DEF Surfacing, Same, Blocked
<1>7. QED
  BY <1>5, <1>6 DEF SurfaceInv

\* With sweeps alone, "failed" is shown exactly for what no sweep will try again until a
\* person has acted, whatever fails or crashes: the two tables that are written by
\* separate statements never contradict each other once the attempt is over, or has
\* been given up in the middle.
THEOREM FailedTells ==
  ASSUME UiRefresh = {}, UiInstall = {} PROVE Spec => []FailedIffBlocked
<1>1. Task = Sweeper
  BY DEF Task, UiTask, Sweeper
<1>2. Init => SurfaceInv
  BY <1>1, TaskAssumption, DataAssumption
     DEF Init, SurfaceInv, FailedIffBlocked, Surfacing, Blocked
<1>3. TypeOK /\ HasInstall /\ LockMeansSweep /\ JobInv /\ JobInv' /\ DueInv /\ SurfaceInv
         /\ [Next]_vars => SurfaceInv'
  <2> SUFFICES ASSUME TypeOK, HasInstall, LockMeansSweep, JobInv, JobInv', DueInv,
                      SurfaceInv, [Next]_vars
               PROVE  SurfaceInv'
    OBVIOUS
  <2>1. CASE Tick \/ UNCHANGED vars
    <3>1. UNCHANGED <<status, jobs, pc, inst, mem>>
      BY <2>1 DEF Tick, vars, rowVars, taskVars
    <3>2. QED
      BY <3>1 DEF SurfaceInv, FailedIffBlocked, Surfacing, Blocked, Quiet, Busy
  <2>2. CASE (\E t \in Task : DbError(t)) \/ (\E t \in Agent : Crash({t})) \/ Crash(UiTask)
    BY <1>1, <2>2, Tasks, FailingSurface, CrashSurface
  <2>3. CASE \E run \in orphans : OrphanEnds(run)
    <3>1. UNCHANGED <<status, jobs, pc, inst, mem>>
      BY <2>3, OrphanApart
    <3>2. QED
      BY <3>1 DEF SurfaceInv, FailedIffBlocked, Surfacing, Blocked, Quiet, Busy
  <2>4. QED
    BY <1>1, <2>1, <2>2, <2>3, SweepSurface, RefreshSurface DEF Next
<1>4. SurfaceInv => FailedIffBlocked
  BY DEF SurfaceInv
<1>5. QED
  BY <1>2, <1>3, <1>4, TypeCorrect, LockMutex, JobInvariant, DueInvariant, PTL DEF Spec

-----------------------------------------------------------------------------
(* A blocked job waits for the user *)

\* What keeps a sweep off a blocked job, with manual installs beside it: nothing on
\* its list is blocked, nor is the item it is about to start on; the one job that
\* it may block itself is the item's, which is on the list no more.
Unblocked(t) ==
    /\ pc[t] = "idle" => due[t] = {}
    /\ \A e, f \in due[t] : e.inst = f.inst => e = f
    /\ \A e \in due[t] : /\ ~Blocked(e.inst)
                         /\ pc[t] # "sweep" => e.inst # inst[t]
    /\ \A i \in Install :
          inst[t] = i /\ pc[t] \in {"load", "mark"} => ~Blocked(i)

GateInv == \A t \in Sweeper : Unblocked(t)

LEMMA UnblockedKept ==
  ASSUME NEW t \in Sweeper, Unblocked(t), due'[t] = due[t], jobs' = jobs,
         pc[t] = "idle" <=> pc'[t] = "idle",
         \/ pc'[t] = "sweep"
         \/ /\ inst'[t] = inst[t] /\ (pc[t] = "sweep" <=> pc'[t] = "sweep")
            /\ pc'[t] \in {"load", "mark"} => pc[t] \in {"load", "mark"}
  PROVE  Unblocked(t)'
<1>1. \A i : Blocked(i)' <=> Blocked(i)
  BY DEF Blocked
<1>2. QED
  BY <1>1 DEF Unblocked

\* A sweep that is not running owes nothing.
LEMMA IdleUnblocked ==
  ASSUME NEW t \in Sweeper, pc'[t] = "idle", due'[t] = {}
  PROVE  Unblocked(t)'
  BY DEF Unblocked

LEMMA SweepGate ==
  ASSUME TypeOK, OneJobRow, GateInv, NEW t \in Sweeper, Sweep(t)
  PROVE  GateInv'
<1>1. t \in Task /\ clock \in Int /\ due[t] \subseteq DueRow /\ jobs' = jobs
  BY Tasks DEF TypeOK, Sweep, SweepStart, TakeDue, SweepEnd
<1>2. Unblocked(t)
  BY DEF GateInv
<1>3. ASSUME NEW u \in Sweeper, u # t PROVE Unblocked(u)'
  <2>1. pc'[u] = pc[u] /\ due'[u] = due[u] /\ inst'[u] = inst[u]
    BY <1>3, Tasks DEF Sweep, SweepStart, TakeDue, SweepEnd, Goto, TypeOK
  <2>2. QED
    BY <1>1, <2>1, UnblockedKept DEF GateInv
<1>4. \A i : Blocked(i)' <=> Blocked(i)
  BY <1>1 DEF Blocked
<1>5. CASE SweepStart(t)
  <2>1. due'[t] = DueInstalls(clock) /\ pc'[t] = "sweep"
    BY <1>1, <1>5 DEF SweepStart, Goto, TypeOK
  <2>2. ASSUME NEW e \in DueInstalls(clock) PROVE ~Blocked(e.inst)
    <3>1. e.inst \in Install /\ e.row \in DueJobs(e.inst, clock)
      BY DEF DueInstalls
    <3>2. QED
      BY <1>1, <3>1, DueIsOpen, OpenNotBlocked
  <2>3. \A e, f \in DueInstalls(clock) : e.inst = f.inst => e = f
    BY <1>1, ListedOnce
  <2>4. Unblocked(t)'
    BY <1>4, <2>1, <2>2, <2>3 DEF Unblocked
  <2>5. QED
    BY <1>3, <2>4 DEF GateInv
<1>6. CASE TakeDue(t)
  <2>1. PICK e \in due[t] : due' = [due EXCEPT ![t] = @ \ {e}] /\ inst' = [inst EXCEPT ![t] = e.inst]
    BY <1>6 DEF TakeDue
  <2>2. due'[t] = due[t] \ {e} /\ inst'[t] = e.inst /\ pc'[t] = "load"
    BY <1>1, <1>6, <2>1 DEF TakeDue, Goto, TypeOK
  <2>3. Unblocked(t)'
    BY <1>2, <1>4, <2>2 DEF Unblocked
  <2>4. QED
    BY <1>3, <2>3 DEF GateInv
<1>7. CASE SweepEnd(t)
  <2>1. due'[t] = {} /\ pc'[t] = "idle"
    BY <1>1, <1>7 DEF SweepEnd, Goto, TypeOK
  <2>2. QED
    BY <1>3, <2>1, IdleUnblocked DEF GateInv
<1>8. QED
  BY <1>5, <1>6, <1>7 DEF Sweep

\* The attempt at one item: only its last statements touch the jobs table, in the row
\* of an installation that the list does not hold any more.
LEMMA RefreshGate ==
  ASSUME TypeOK, HasInstall, LockMeansSweep, GateInv, NEW t \in Sweeper,
         RefreshStep(t) \/ DbError(t)
  PROVE  GateInv'
<1>1. t \in Task /\ pc[t] \notin {"idle", "sweep"} /\ inst[t] \in Install
  BY Tasks DEF HasInstall, RefreshStep, EngineStep, SignerStep,
               Load, Mark, SignOk, SignFail, Record, JobSelect,
               JobWrite, Restore, DbError
<1>2. pc'[t] # "idle" /\ \A u \in Task : u # t => Same(u)
  BY <1>1, RefreshKeepsLock, ErrorKeepsLock, OthersKeep DEF KeepsLock
<1>3. due' = due
  BY DEF RefreshStep, EngineStep, SignerStep,
         Load, Mark, SignOk, SignFail, Record, JobSelect, JobWrite, Restore,
         DbError, Return
<1>4. ASSUME NEW u \in Sweeper, u # t PROVE Unblocked(u)'
  <2>1. pc[u] = "idle" /\ pc'[u] = "idle"
    BY <1>1, <1>2, <1>4, OthersIdle, Tasks DEF Same
  <2>2. due'[u] = {}
    BY <1>3, <2>1 DEF GateInv, Unblocked
  <2>3. QED
    BY <2>1, <2>2, IdleUnblocked
<1>5. Unblocked(t)
  BY DEF GateInv
<1>6. \/ pc'[t] = "sweep"
      \/ /\ inst'[t] = inst[t] /\ pc'[t] # "sweep"
         /\ pc'[t] \in {"load", "mark"} => pc[t] = "load" /\ ~JobWrite(t)
  <2>1. Return(t) => pc'[t] = "sweep"
    BY <1>1 DEF Return, TypeOK
  <2>2. ASSUME NEW l, Goto(t, l) PROVE pc'[t] = l
    BY <1>1, <2>2 DEF Goto, TypeOK
  <2>3. CASE Load(t)
    BY <2>2, <2>3 DEF Load, JobWrite
  <2>4. CASE ~Load(t)
    BY <2>1, <2>2, <2>4 DEF RefreshStep, EngineStep, SignerStep,
                            Mark, SignOk, SignFail, Record, JobSelect, JobWrite,
                            Restore, DbError
  <2>5. QED
    BY <2>3, <2>4
<1>7. CASE JobWrite(t)
  <2>1. \A j \in Install : j # inst[t] => jobs'[j] = jobs[j]
    BY <1>1, <1>7 DEF JobWrite, TypeOK
  <2>2. \A e \in due[t] : e.inst \in Install /\ e.inst # inst[t] /\ ~Blocked(e.inst)
    BY <1>1, <1>5 DEF Unblocked, TypeOK, DueRow
  <2>3. \A e \in due[t] : ~Blocked(e.inst)'
    BY <2>1, <2>2 DEF Blocked
  <2>4. Unblocked(t)'
    BY <1>2, <1>3, <1>5, <1>6, <1>7, <2>2, <2>3 DEF Unblocked
  <2>5. QED
    BY <1>4, <2>4 DEF GateInv
<1>8. CASE ~JobWrite(t)
  <2>1. jobs' = jobs
    BY <1>8 DEF RefreshStep, EngineStep, SignerStep,
                Load, Mark, SignOk, SignFail, Record, JobSelect, Restore, DbError
  <2>2. Unblocked(t)'
    BY <1>1, <1>2, <1>3, <1>5, <1>6, <2>1, UnblockedKept
  <2>3. QED
    BY <1>4, <2>2 DEF GateInv
<1>9. QED
  BY <1>7, <1>8

\* A step of no sweep leaves what the sweeps know alone.
LEMMA BesideGate ==
  ASSUME GateInv, jobs' = jobs,
         \A u \in Sweeper : pc'[u] = pc[u] /\ due'[u] = due[u] /\ inst'[u] = inst[u]
  PROVE  GateInv'
  BY UnblockedKept DEF GateInv

LEMMA GateStep ==
  ASSUME UiRefresh = {}, TypeOK, HasInstall, LockMeansSweep, OneJobRow, GateInv, [Next]_vars
  PROVE  GateInv'
<1>1. CASE Tick \/ UNCHANGED vars
  BY <1>1, BesideGate DEF Tick, vars, taskVars
<1>2. ASSUME NEW t \in UiInstall, \/ \E i \in Install, v \in Version : InstallIpa(t, i, v)
                                 \/ InstallStep(t) \/ DbError(t)
      PROVE  GateInv'
  <2>1. t \in Task /\ t \notin Sweeper /\ jobs' = jobs /\ due' = due
    BY <1>2, Tasks DEF InstallIpa, InstallStep, InstallSigned, InstallFail, InstallRecord,
                       DbError, Return
  <2>2. \A u \in Sweeper : pc'[u] = pc[u] /\ inst'[u] = inst[u]
    <3>1. CASE InstallStep(t) \/ DbError(t)
      BY <2>1, <3>1, OthersKeep, Tasks DEF Same
    <3>2. CASE \E i \in Install, v \in Version : InstallIpa(t, i, v)
      BY <2>1, <3>2, Tasks DEF InstallIpa, Goto, TypeOK
    <3>3. QED
      BY <1>2, <3>1, <3>2
  <2>3. QED
    BY <2>1, <2>2, BesideGate
<1>3. ASSUME NEW ts \in SUBSET Task, Crash(ts) PROVE GateInv'
  <2>1. \A u \in Sweeper : u \in ts => pc'[u] = "idle" /\ due'[u] = {}
    BY <1>3, Tasks DEF Crash
  <2>2. \A u \in Sweeper : u \notin ts => /\ pc'[u] = pc[u] /\ due'[u] = due[u]
                                         /\ inst'[u] = inst[u]
    BY <1>3, Tasks DEF Crash
  <2>3. jobs' = jobs
    BY <1>3 DEF Crash
  <2>4. ASSUME NEW u \in Sweeper PROVE Unblocked(u)'
    BY <2>1, <2>2, <2>3, IdleUnblocked, UnblockedKept DEF GateInv
  <2>5. QED
    BY <2>4 DEF GateInv
<1>4. CASE \E run \in orphans : OrphanEnds(run)
  BY <1>4, OrphanApart, BesideGate
<1>5. \A t \in Task : t \in Sweeper \/ t \in UiInstall
  BY DEF Task, UiTask, Sweeper
<1>6. QED
  BY <1>1, <1>2, <1>3, <1>4, <1>5, Tasks, SweepGate, RefreshGate DEF Next

\* Whatever fails or crashes and whatever is installed by hand meanwhile, no sweep
\* starts on an installation whose job waits for the user, although the due query
\* (scheduler.rs:151-164) looked at the jobs table before the first item was signed.
THEOREM BlockedWaits == ASSUME UiRefresh = {} PROVE Spec => BlockedNotRetried
<1>1. Init => GateInv
  BY Tasks, TaskAssumption DEF Init, GateInv, Unblocked
<1>2. /\ TypeOK /\ HasInstall /\ LockMeansSweep /\ OneJobRow /\ GateInv /\ [Next]_vars => GateInv'
  BY GateStep
<1>3. TypeOK /\ HasInstall /\ GateInv => \A t \in Sweeper : pc[t] = "mark" => ~Blocked(inst[t])
  BY Tasks DEF GateInv, Unblocked, HasInstall
<1>4. Spec => []GateInv
  BY <1>1, <1>2, TypeCorrect, LockMutex, SingleJob, PTL DEF Spec
<1>5. (\A t \in Sweeper : pc[t] = "mark" => ~Blocked(inst[t]))
         => \A t \in Sweeper : pc[t] = "mark" /\ pc'[t] = "sign" => ~Blocked(inst[t])
  OBVIOUS
<1>6. QED
  BY <1>3, <1>4, <1>5, TypeCorrect, PTL DEF BlockedNotRetried

=============================================================================
