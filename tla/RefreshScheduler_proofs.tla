------------------------ MODULE RefreshScheduler_proofs ------------------------
(***************************************************************************)
(* Theorems about RefreshScheduler, for every value of its constants.      *)
(***************************************************************************)
EXTENDS RefreshScheduler, SequenceTheorems, TLAPS

-----------------------------------------------------------------------------
(* Type correctness *)

TaskTypes ==
    /\ pc \in [Task -> Locations]
    /\ inst \in [Task -> Install \cup {None}]
    /\ due \in [Task -> SUBSET DueRow]
    /\ mem \in [Task -> Memory]

\* backoff_secs returns an integer, whatever the retry count.
LEMMA BackoffType == ASSUME NEW n \in Nat PROVE BackoffSecs(n) \in Int
  BY TimeAssumption DEF BackoffSecs

LEMMA ForgottenType == Forgotten \in Memory
  BY DataAssumption DEF Forgotten, Memory, Upsert

LEMMA LocalsType ==
  ASSUME TaskTypes, NEW t \in Task, NEW u \in Upsert
  PROVE  Locals(t, u) \in Memory
  BY ForgottenType DEF TaskTypes, Locals, Forgotten, Memory

\* Whatever refresh_installation returns to, the task stays well-formed.
LEMMA ReturnType ==
  ASSUME TaskTypes, NEW t \in Task, Return(t)
  PROVE  TaskTypes'
<1>1. Locals(t, "clear") \in Memory
  BY LocalsType DEF Upsert
<1>2. QED
  BY <1>1, ForgottenType DEF TaskTypes, Return, Locations

\* The due query returns rows of the tables.
LEMMA DueType ==
  ASSUME TypeOK, NEW now \in Int
  PROVE  DueInstalls(now) \subseteq DueRow
<1>1. ASSUME NEW i \in Install PROVE DueJobs(i, now) \subseteq Nat
  <2>1. jobs[i] \in Seq(JobRow)
    BY DEF TypeOK
  <2>2. DOMAIN jobs[i] \subseteq Nat
    BY <2>1
  <2>3. QED
    BY <2>2 DEF DueJobs
<1>2. {expiry[i] : i \in Install} \subseteq Int
  BY DEF TypeOK
<1>3. ASSUME NEW e \in DueInstalls(now) PROVE e \in DueRow
  <2>1. e \in [inst: Install, row: UNION {DueJobs(i, now) : i \in Install},
               expiry: {expiry[i] : i \in Install}]
    BY <1>3 DEF DueInstalls
  <2>2. UNION {DueJobs(i, now) : i \in Install} \subseteq Nat
    BY <1>1
  <2>3. QED
    BY <1>2, <2>1, <2>2 DEF DueRow
<1>4. QED
  BY <1>3

\* A non-empty job list has a first row.
LEMMA FirstJob ==
  ASSUME NEW s \in Seq(JobRow), s # <<>>
  PROVE  /\ Len(s) \in Nat /\ Len(s) >= 1
         /\ s[1] \in JobRow
<1>1. Len(s) \in Nat /\ Len(s) # 0
  BY EmptySeq
<1>2. 1 \in 1..Len(s)
  BY <1>1
<1>3. QED
  BY <1>1, <1>2, ElementOfSeq

\* Updating the first job row keeps the rows, and their number.
LEMMA UpdateFirst ==
  ASSUME NEW s \in Seq(JobRow), NEW row \in JobRow
  PROVE  /\ [s EXCEPT ![1] = row] \in Seq(JobRow)
         /\ Len([s EXCEPT ![1] = row]) = Len(s)
<1>1. CASE s = <<>>
  <2>1. 1 \notin DOMAIN s
    BY <1>1
  <2>2. [s EXCEPT ![1] = row] = s
    BY <2>1, ExceptSeq
  <2>3. QED
    BY <2>2
<1>2. CASE s # <<>>
  <2>1. 1 \in 1..Len(s)
    BY <1>2, FirstJob
  <2>2. QED
    BY <2>1, ExceptSeq
<1>3. QED
  BY <1>1, <1>2

\* upsert_job writes a well-formed row.
LEMMA NewJobType ==
  ASSUME NEW m \in Memory
  PROVE  NewJob(m) \in JobRow
<1>1. BackoffSecs(m.bumped) \in Int
  BY BackoffType DEF Memory
<1>2. Capped(m.retries + 1) \in Nat
  BY TimeAssumption DEF Capped, Memory
<1>3. /\ m.now \in Nat /\ m.retries \in Nat
      /\ m.upsert \in {"clear", "retry", "defer", "block"}
  BY DEF Memory, Upsert
<1>4. CASE m.upsert = "clear"
  BY <1>4 DEF NewJob, JobRow, NULL
<1>5. CASE m.upsert = "retry"
  BY <1>2, <1>3, <1>5 DEF NewJob, JobRow
<1>6. CASE m.upsert = "defer"
  BY <1>1, <1>3, <1>6 DEF NewJob, JobRow
<1>7. CASE m.upsert = "block"
  BY <1>3, <1>7 DEF NewJob, JobRow, NULL
<1>8. QED
  BY <1>3, <1>4, <1>5, <1>6, <1>7

RowTypes ==
    /\ clock \in Nat
    /\ lock \in Sweeper \cup {None}
    /\ status \in [Install -> {"absent", "idle", "refreshing", "failed"}]
    /\ expiry \in [Install -> Int]
    /\ source \in [App -> Version]
    /\ jobs \in [Install -> Seq(JobRow)]
    /\ device \in [Install -> [expiry: Int, version: Version]]
    /\ orphans \subseteq Run

LEMMA TypeParts == TypeOK <=> RowTypes /\ TaskTypes
  BY DEF TypeOK, RowTypes, TaskTypes

\* At every step of a refresh or an install the task has an installation.
HasInstall == \A t \in Task : pc[t] \notin {"idle", "sweep"} => inst[t] \in Install

LEMMA InitTyped == Init => TypeOK /\ HasInstall
<1> SUFFICES ASSUME Init PROVE TypeOK /\ HasInstall
  OBVIOUS
<1> USE DEF Init
<1>1. RowTypes
  <2>1. jobs \in [Install -> Seq(JobRow)]
    OBVIOUS
  <2>2. device \in [Install -> [expiry: Int, version: Version]]
    BY DataAssumption, TimeAssumption
  <2>3. QED
    BY <2>1, <2>2, DataAssumption, TimeAssumption DEF RowTypes
<1>2. TaskTypes
  BY ForgottenType DEF TaskTypes, Locations
<1>3. QED
  BY <1>1, <1>2, TypeParts DEF HasInstall

\* What the shared transaction record_install writes.
LEMMA RecordInstallType ==
  ASSUME RowTypes, NEW i \in Install, NEW v \in Version, NEW at \in Int,
         RecordInstall(i, v, at)
  PROVE  /\ status' \in [Install -> {"absent", "idle", "refreshing", "failed"}]
         /\ expiry' \in [Install -> Int]
         /\ source' \in [App -> Version]
<1>1. status' \in [Install -> {"absent", "idle", "refreshing", "failed"}]
  BY DEF RowTypes, RecordInstall
<1>2. expiry' \in [Install -> Int]
  <2>1. at + Lifetime \in Int
    BY TimeAssumption
  <2>2. QED
    BY <2>1 DEF RowTypes, RecordInstall
<1>3. source' \in [App -> Version]
  BY DEF RowTypes, RecordInstall
<1>4. QED
  BY <1>1, <1>2, <1>3

LEMMA SweepTyped ==
  ASSUME TypeOK, HasInstall, NEW t \in Sweeper, Sweep(t)
  PROVE  TypeOK' /\ HasInstall'
<1> USE DEF Goto, rowVars
<1>1. t \in Task
  BY DEF Sweeper, Task, UiTask
<1>2. CASE SweepStart(t)
  <2>1. DueInstalls(clock) \subseteq DueRow
    BY DueType DEF TypeOK
  <2>2. mem' \in [Task -> Memory]
    BY <1>1, <1>2 DEF SweepStart, TypeOK, Memory
  <2>3. pc' \in [Task -> Locations]
    BY <1>1, <1>2 DEF SweepStart, TypeOK, Locations
  <2>4. HasInstall'
    BY <1>1, <1>2 DEF SweepStart, TypeOK, HasInstall
  <2>5. QED
    BY <1>1, <1>2, <2>1, <2>2, <2>3, <2>4 DEF SweepStart, TypeOK
<1>3. CASE TakeDue(t)
  <2>1. PICK e \in due[t] : /\ due' = [due EXCEPT ![t] = @ \ {e}]
                            /\ inst' = [inst EXCEPT ![t] = e.inst]
    BY <1>3 DEF TakeDue
  <2>2. e.inst \in Install
    BY <1>1, <2>1 DEF TypeOK, DueRow
  <2>3. pc' \in [Task -> Locations]
    BY <1>1, <1>3 DEF TakeDue, TypeOK, Locations
  <2>4. HasInstall'
    BY <1>1, <1>3, <2>1, <2>2 DEF TakeDue, TypeOK, HasInstall
  <2>5. QED
    BY <1>1, <1>3, <2>1, <2>2, <2>3, <2>4 DEF TakeDue, TypeOK
<1>4. CASE SweepEnd(t)
  <2>1. pc' \in [Task -> Locations]
    BY <1>1, <1>4 DEF SweepEnd, TypeOK, Locations
  <2>2. mem' \in [Task -> Memory]
    BY <1>1, <1>4, ForgottenType DEF SweepEnd, TypeOK
  <2>3. HasInstall'
    BY <1>1, <1>4 DEF SweepEnd, TypeOK, HasInstall
  <2>4. QED
    BY <1>4, <2>1, <2>2, <2>3 DEF SweepEnd, TypeOK
<1>5. QED
  BY <1>2, <1>3, <1>4 DEF Sweep

LEMMA SignedType ==
  ASSUME RowTypes, NEW v \in Version
  PROVE  Signed(v) \in [expiry: Int, version: Version]
  BY TimeAssumption DEF RowTypes, Signed

\* A step that only moves t among the places of a refresh or an install.
LEMMA MoveTyped ==
  ASSUME TaskTypes, HasInstall, NEW t \in Task, NEW l \in Locations, Goto(t, l),
         inst' = inst, due' = due, mem' \in [Task -> Memory],
         inst[t] \in Install
  PROVE  TaskTypes' /\ HasInstall'
  BY DEF TaskTypes, HasInstall, Goto

LEMMA ReturnHasInstall ==
  ASSUME TaskTypes, HasInstall, NEW t \in Task, Return(t)
  PROVE  HasInstall'
  BY DEF TaskTypes, HasInstall, Return

LEMMA RefreshTyped ==
  ASSUME TypeOK, HasInstall, NEW t \in Task, RefreshStep(t)
  PROVE  TypeOK' /\ HasInstall'
<1> USE DEF rowVars
<1>1. RowTypes /\ TaskTypes
  BY TypeParts
<1>2. pc[t] \notin {"idle", "sweep"} /\ inst[t] \in Install
  BY DEF RefreshStep, EngineStep, SignerStep,
         Load, Mark, SignOk, Record, SignFail, JobSelect, JobWrite,
         Restore, HasInstall
<1>3. /\ mem[t] \in Memory /\ mem[t].version \in Version /\ mem[t].now \in Int
      /\ mem[t].upsert \in {"clear", "retry", "defer", "block"}
  BY <1>1 DEF TaskTypes, Memory, Upsert
<1>4. CASE Load(t)
  <2>1. source[AppOf[inst[t]]] \in Version
    BY <1>1, <1>2, DataAssumption DEF RowTypes
  <2>2. mem' \in [Task -> Memory]
    BY <1>1, <1>4, <2>1 DEF Load, TaskTypes, Memory
  <2>3. TaskTypes' /\ HasInstall'
    BY <1>1, <1>2, <1>4, <2>2, MoveTyped DEF Load, Locations
  <2>4. RowTypes'
    BY <1>1, <1>4 DEF Load, RowTypes
  <2>5. QED
    BY <2>3, <2>4, TypeParts DEF TypeOK, RowTypes, TaskTypes
<1>5. CASE Mark(t)
  <2>1. TaskTypes' /\ HasInstall'
    BY <1>1, <1>2, <1>5, MoveTyped DEF Mark, Locations, TaskTypes
  <2>2. RowTypes'
    BY <1>1, <1>5 DEF Mark, RowTypes
  <2>3. QED
    BY <2>1, <2>2 DEF TypeOK, RowTypes, TaskTypes
<1>6. CASE SignOk(t)
  <2>1. TaskTypes' /\ HasInstall'
    BY <1>1, <1>2, <1>6, MoveTyped DEF SignOk, Locations, TaskTypes
  <2>2. device' \in [Install -> [expiry: Int, version: Version]]
    BY <1>1, <1>3, <1>6, SignedType DEF SignOk, RowTypes
  <2>3. RowTypes'
    BY <1>1, <1>6, <2>2 DEF SignOk, RowTypes
  <2>4. QED
    BY <2>1, <2>3 DEF TypeOK, RowTypes, TaskTypes
<1>7. CASE \E err \in Error : SignFail(t, err)
  <2>1. PICK u \in Upsert : mem' = [mem EXCEPT ![t] = Locals(t, u)]
    BY <1>7 DEF SignFail, Upsert
  <2>2. mem' \in [Task -> Memory]
    BY <1>1, <2>1, LocalsType DEF TaskTypes
  <2>3. TaskTypes' /\ HasInstall'
    BY <1>1, <1>2, <1>7, <2>2, MoveTyped DEF SignFail, Locations
  <2>4. RowTypes'
    BY <1>1, <1>7 DEF SignFail, RowTypes
  <2>5. QED
    BY <2>3, <2>4 DEF TypeOK, RowTypes, TaskTypes
<1>8. CASE Record(t)
  <2>1. mem' \in [Task -> Memory]
    BY <1>1, <1>8, LocalsType DEF Record, TaskTypes, Upsert
  <2>2. TaskTypes' /\ HasInstall'
    BY <1>1, <1>2, <1>8, <2>1, MoveTyped DEF Record, Locations
  <2>3. RowTypes'
    BY <1>1, <1>2, <1>3, <1>8, RecordInstallType DEF Record, RowTypes
  <2>4. QED
    BY <2>2, <2>3 DEF TypeOK, RowTypes, TaskTypes
<1>9. CASE JobSelect(t)
  <2> DEFINE rows == jobs[inst[t]]
             n == IF rows = <<>> THEN 0 ELSE rows[1].retries
  <2>1. n \in Nat
    BY <1>1, <1>2, FirstJob DEF RowTypes, JobRow
  <2>2. mem' \in [Task -> Memory]
    <3>1. mem' = [mem EXCEPT ![t].found = (rows # <<>>), ![t].retries = n]
      BY <1>9 DEF JobSelect
    <3>2. (rows # <<>>) \in BOOLEAN
      OBVIOUS
    <3> HIDE DEF rows, n
    <3>3. mem[t] \in Memory
      BY <1>1 DEF TaskTypes
    <3> DEFINE told == [mem[t] EXCEPT !.found = (rows # <<>>), !.retries = n]
    <3>4. told \in Memory
      BY <2>1, <3>2, <3>3 DEF Memory
    <3>5. mem' = [mem EXCEPT ![t] = told]
      BY <1>1, <3>1 DEF TaskTypes
    <3> HIDE DEF told
    <3>6. QED
      BY <1>1, <3>4, <3>5 DEF TaskTypes
  <2>3. TaskTypes' /\ HasInstall'
    BY <1>1, <1>2, <1>9, <2>2, MoveTyped DEF JobSelect, Locations
  <2>4. RowTypes'
    BY <1>1, <1>9 DEF JobSelect, RowTypes
  <2>5. QED
    BY <2>3, <2>4 DEF TypeOK, RowTypes, TaskTypes
<1>10. CASE JobWrite(t)
  <2> DEFINE row == NewJob(mem[t])
  <2>1. row \in JobRow
    BY <1>3, NewJobType
  <2>2. jobs' \in [Install -> Seq(JobRow)]
    <3>1. jobs[inst[t]] \in Seq(JobRow)
      BY <1>1, <1>2 DEF RowTypes
    <3>2. [jobs[inst[t]] EXCEPT ![1] = row] \in Seq(JobRow)
      BY <2>1, <3>1, UpdateFirst
    <3>3. Append(jobs[inst[t]], row) \in Seq(JobRow)
      BY <2>1, <3>1
    <3>4. jobs' = [jobs EXCEPT ![inst[t]] =
                     IF mem[t].found THEN [jobs[inst[t]] EXCEPT ![1] = row]
                                     ELSE Append(jobs[inst[t]], row)]
      BY <1>10 DEF JobWrite
    <3> HIDE DEF row
    <3>5. QED
      BY <1>1, <1>2, <3>2, <3>3, <3>4 DEF RowTypes
  <2>3. RowTypes'
    BY <1>1, <1>10, <2>2 DEF JobWrite, RowTypes
  <2>4. CASE Return(t)
    BY <1>1, <2>3, <2>4, ReturnType, ReturnHasInstall DEF TypeOK, RowTypes, TaskTypes
  <2>5. CASE /\ mem' = [mem EXCEPT ![t] = [Locals(t, "defer")
                            EXCEPT !.bumped = NewJob(mem[t]).retries]]
             /\ Goto(t, "select")
             /\ UNCHANGED <<inst, due>>
    <3>1. row.retries \in Nat
      BY <2>1 DEF JobRow
    <3>2. Locals(t, "defer") \in Memory
      BY <1>1, LocalsType DEF Upsert
    <3>3. mem' \in [Task -> Memory]
      BY <1>1, <2>5, <3>1, <3>2 DEF TaskTypes, Memory
    <3>4. TaskTypes' /\ HasInstall'
      BY <1>1, <1>2, <2>5, <3>3, MoveTyped DEF Locations
    <3>5. QED
      BY <2>3, <3>4 DEF TypeOK, RowTypes, TaskTypes
  <2>6. CASE /\ mem' = [mem EXCEPT ![t] = Locals(t, mem[t].upsert)]
             /\ Goto(t, "restore")
             /\ UNCHANGED <<inst, due>>
    <3>1. mem' \in [Task -> Memory]
      BY <1>1, <1>3, <2>6, LocalsType DEF TaskTypes, Upsert
    <3>2. TaskTypes' /\ HasInstall'
      BY <1>1, <1>2, <2>6, <3>1, MoveTyped DEF Locations
    <3>3. QED
      BY <2>3, <3>2 DEF TypeOK, RowTypes, TaskTypes
  <2>7. QED
    BY <1>10, <2>4, <2>5, <2>6 DEF JobWrite
<1>11. CASE Restore(t)
  <2>1. RowTypes'
    BY <1>1, <1>11 DEF Restore, RowTypes
  <2>2. TaskTypes' /\ HasInstall'
    BY <1>1, <1>11, ReturnType, ReturnHasInstall DEF Restore
  <2>3. QED
    BY <2>1, <2>2 DEF TypeOK, RowTypes, TaskTypes
<1>12. QED
  BY <1>4, <1>5, <1>6, <1>7, <1>8, <1>9, <1>10, <1>11
     DEF RefreshStep, EngineStep, SignerStep

\* The commands of the UI, as they begin and as install_ipa proceeds.
LEMMA CommandTyped ==
  ASSUME TypeOK, HasInstall, NEW t \in Task, NEW i \in Install, NEW v \in Version,
         RefreshApp(t, i) \/ InstallIpa(t, i, v)
  PROVE  TypeOK' /\ HasInstall'
<1>1. RowTypes /\ TaskTypes
  BY TypeParts
<1>2. CASE RefreshApp(t, i)
  <2>1. clock \in Nat
    BY <1>1 DEF RowTypes
  <2>2. mem' \in [Task -> Memory]
    BY <1>1, <1>2, <2>1 DEF RefreshApp, TaskTypes, Memory
  <2>3. TaskTypes' /\ HasInstall'
    BY <1>1, <1>2, <2>2 DEF RefreshApp, Goto, TaskTypes, HasInstall, Locations
  <2>4. QED
    BY <1>1, <1>2, <2>3 DEF RefreshApp, TypeOK, RowTypes, TaskTypes, rowVars
<1>3. CASE InstallIpa(t, i, v)
  <2>1. mem' \in [Task -> Memory]
    BY <1>1, <1>3 DEF InstallIpa, TaskTypes, Memory
  <2>2. TaskTypes' /\ HasInstall'
    BY <1>1, <1>3, <2>1 DEF InstallIpa, Goto, TaskTypes, HasInstall, Locations
  <2>3. QED
    BY <1>1, <1>3, <2>2 DEF InstallIpa, TypeOK, RowTypes, TaskTypes, rowVars
<1>4. QED
  BY <1>2, <1>3

LEMMA InstallTyped ==
  ASSUME TypeOK, HasInstall, NEW t \in Task, InstallStep(t)
  PROVE  TypeOK' /\ HasInstall'
<1> USE DEF rowVars
<1>1. RowTypes /\ TaskTypes
  BY TypeParts
<1>2. inst[t] \in Install
  BY DEF InstallStep, InstallSigned, InstallFail, InstallRecord, HasInstall
<1>3. mem[t].version \in Version
  BY <1>1 DEF TaskTypes, Memory
<1>4. CASE InstallSigned(t)
  <2>1. mem' \in [Task -> Memory]
    BY <1>1, <1>4 DEF InstallSigned, RowTypes, TaskTypes, Memory
  <2>2. TaskTypes' /\ HasInstall'
    BY <1>1, <1>2, <1>4, <2>1, MoveTyped DEF InstallSigned, Locations
  <2>3. device' \in [Install -> [expiry: Int, version: Version]]
    BY <1>1, <1>3, <1>4, SignedType DEF InstallSigned, RowTypes
  <2>4. QED
    BY <1>1, <1>4, <2>2, <2>3 DEF InstallSigned, TypeOK, RowTypes, TaskTypes
<1>5. CASE InstallFail(t)
  <2>1. TaskTypes' /\ HasInstall'
    BY <1>1, <1>5, ReturnType, ReturnHasInstall DEF InstallFail
  <2>2. QED
    BY <1>1, <1>5, <2>1 DEF InstallFail, TypeOK, RowTypes, TaskTypes
<1>6. CASE InstallRecord(t)
  <2>1. TaskTypes' /\ HasInstall'
    BY <1>1, <1>6, ReturnType, ReturnHasInstall DEF InstallRecord
  <2>2. RowTypes'
    <3>1. clock \in Int
      BY <1>1 DEF RowTypes
    <3>2. QED
      BY <1>1, <1>2, <1>3, <1>6, <3>1, RecordInstallType DEF InstallRecord, RowTypes
  <2>3. QED
    BY <2>1, <2>2 DEF TypeOK, RowTypes, TaskTypes
<1>7. QED
  BY <1>4, <1>5, <1>6 DEF InstallStep

LEMMA FaultTyped ==
  ASSUME TypeOK, HasInstall,
         \/ \E t \in Task : DbError(t)
         \/ \E ts \in SUBSET Task : Crash(ts)
  PROVE  TypeOK' /\ HasInstall'
<1> USE DEF rowVars
<1>1. RowTypes /\ TaskTypes
  BY TypeParts
<1>2. ASSUME NEW t \in Task, DbError(t) PROVE TypeOK' /\ HasInstall'
  <2>1. CASE Return(t)
    <3>1. TaskTypes' /\ HasInstall'
      BY <1>1, <2>1, ReturnType, ReturnHasInstall
    <3>2. QED
      BY <1>1, <1>2, <3>1 DEF DbError, TypeOK, RowTypes, TaskTypes
  <2>2. CASE /\ pc[t] = "record"
             /\ mem' = [mem EXCEPT ![t] = Locals(t, "retry")]
             /\ Goto(t, "select")
             /\ UNCHANGED <<inst, due>>
    <3>1. mem' \in [Task -> Memory]
      BY <1>1, <2>2, LocalsType DEF TaskTypes, Upsert
    <3>2. inst[t] \in Install
      BY <2>2 DEF HasInstall
    <3>3. TaskTypes' /\ HasInstall'
      BY <1>1, <2>2, <3>1, <3>2, MoveTyped DEF Locations
    <3>4. QED
      BY <1>1, <1>2, <3>3 DEF DbError, TypeOK, RowTypes, TaskTypes
  <2>3. QED
    BY <1>2, <2>1, <2>2 DEF DbError
<1>3. ASSUME NEW ts \in SUBSET Task, Crash(ts) PROVE TypeOK' /\ HasInstall'
  <2>1. TaskTypes' /\ HasInstall'
    BY <1>1, <1>3, ForgottenType DEF Crash, TaskTypes, HasInstall, Locations
  <2>2. orphans' \subseteq Run
    <3>1. PICK left \in SUBSET {t \in ts : pc[t] \in {"sign", "install"}} :
             orphans' = orphans \cup
                {[inst |-> inst[t], version |-> mem[t].version] : t \in left}
      BY <1>3 DEF Crash
    <3>2. ASSUME NEW t \in left
          PROVE  [inst |-> inst[t], version |-> mem[t].version] \in Run
      BY <1>1, <3>2 DEF HasInstall, TaskTypes, Memory, Run
    <3>3. QED
      BY <1>1, <3>1, <3>2 DEF RowTypes
  <2>3. lock' \in Sweeper \cup {None}
    BY <1>1, <1>3 DEF Crash, RowTypes
  <2>4. QED
    BY <1>1, <1>3, <2>1, <2>2, <2>3 DEF Crash, TypeOK, RowTypes, TaskTypes
<1>4. QED
  BY <1>2, <1>3

LEMMA OrphanTyped ==
  ASSUME TypeOK, HasInstall, NEW run \in orphans, OrphanEnds(run)
  PROVE  TypeOK' /\ HasInstall'
<1>1. RowTypes /\ TaskTypes
  BY TypeParts
<1>2. run.inst \in Install /\ run.version \in Version
  BY <1>1 DEF RowTypes, Run
<1>3. device' \in [Install -> [expiry: Int, version: Version]]
  BY <1>1, <1>2, SignedType DEF OrphanEnds, RowTypes
<1>4. orphans' \subseteq Run
  BY <1>1 DEF OrphanEnds, RowTypes
<1>5. QED
  BY <1>1, <1>3, <1>4 DEF OrphanEnds, rowVars, taskVars, TypeOK, HasInstall

LEMMA StepTyped ==
  ASSUME TypeOK, HasInstall, [Next]_vars
  PROVE  TypeOK' /\ HasInstall'
<1>1. /\ Sweeper \subseteq Task /\ UiRefresh \subseteq Task
      /\ UiInstall \subseteq Task /\ UiTask \subseteq Task /\ Agent \subseteq Task
  BY DEF Sweeper, Task, UiTask
<1>2. CASE Tick
  <2>1. clock' \in Nat
    BY <1>2 DEF Tick, TypeOK
  <2>2. QED
    BY <1>2, <2>1 DEF Tick, TypeOK, HasInstall, rowVars, taskVars
<1>3. CASE \E t \in Sweeper : Sweep(t)
  BY <1>3, SweepTyped
<1>4. CASE \E t \in UiRefresh, i \in Install : RefreshApp(t, i)
  BY <1>1, <1>4, CommandTyped, DataAssumption
<1>5. CASE \E t \in UiInstall, i \in Install, v \in Version : InstallIpa(t, i, v)
  BY <1>1, <1>5, CommandTyped
<1>6. CASE \E t \in Sweeper \cup UiRefresh : RefreshStep(t)
  BY <1>1, <1>6, RefreshTyped
<1>7. CASE \E t \in UiInstall : InstallStep(t)
  BY <1>1, <1>7, InstallTyped
<1>8. CASE \E t \in Task : DbError(t)
  BY <1>8, FaultTyped
<1>9. CASE (\E t \in Agent : Crash({t})) \/ Crash(UiTask)
  BY <1>1, <1>9, FaultTyped
<1>10. CASE \E run \in orphans : OrphanEnds(run)
  BY <1>10, OrphanTyped
<1>11. CASE UNCHANGED vars
  BY <1>11 DEF vars, rowVars, taskVars, TypeOK, HasInstall
<1>12. QED
  BY <1>2, <1>3, <1>4, <1>5, <1>6, <1>7, <1>8, <1>9, <1>10, <1>11 DEF Next

\* Every variable keeps its type, through interleavings, errors and crashes.
THEOREM TypeCorrect == Spec => [](TypeOK /\ HasInstall)
<1>1. Init => TypeOK /\ HasInstall
  BY InitTyped
<1>2. TypeOK /\ HasInstall /\ [Next]_vars => (TypeOK /\ HasInstall)'
  BY StepTyped
<1>3. QED
  BY <1>1, <1>2, PTL DEF Spec

=============================================================================
