-------------------------- MODULE RefreshSafety_proofs --------------------------
(***************************************************************************)
(* The safety properties of RefreshScheduler, proved for every number of   *)
(* installations, tasks and versions, and for every duration.              *)
(***************************************************************************)
EXTENDS RefreshScheduler_proofs

LEMMA Tasks ==
  /\ Sweeper \subseteq Task /\ UiRefresh \subseteq Task
  /\ UiInstall \subseteq Task /\ UiTask \subseteq Task /\ Agent \subseteq Task
  /\ UiInstall \cap Sweeper = {} /\ UiRefresh \cap Sweeper = {}
  /\ None \notin Sweeper
  BY TaskAssumption DEF Sweeper, Task, UiTask

\* A signer run nobody waits for changes the phone and nothing else.
LEMMA OrphanApart ==
  ASSUME NEW run, OrphanEnds(run)
  PROVE  /\ clock' = clock /\ lock' = lock /\ jobs' = jobs
         /\ status' = status /\ expiry' = expiry /\ source' = source
         /\ pc' = pc /\ inst' = inst /\ due' = due /\ mem' = mem
  BY DEF OrphanEnds, rowVars, taskVars

-----------------------------------------------------------------------------
(* The process lock *)

\* What every step of a running task does: it keeps the lock, it moves nobody
\* else, and a sweep that moves stays a sweep.
KeepsLock(t) ==
    /\ lock' = lock
    /\ \A u \in Task : u # t => pc'[u] = pc[u]
    /\ t \in Sweeper => pc[t] # "idle" /\ pc'[t] # "idle"

LEMMA ReturnKeepsLock ==
  ASSUME TypeOK, NEW t \in Task, Return(t), lock' = lock, pc[t] # "idle"
  PROVE  KeepsLock(t)
  BY DEF KeepsLock, Return, TypeOK

LEMMA GotoKeepsLock ==
  ASSUME TypeOK, NEW t \in Task, NEW l \in Locations, l # "idle", Goto(t, l),
         lock' = lock, pc[t] # "idle"
  PROVE  KeepsLock(t)
  BY DEF KeepsLock, Goto, TypeOK

LEMMA RefreshKeepsLock ==
  ASSUME TypeOK, NEW t \in Task, RefreshStep(t)
  PROVE  KeepsLock(t)
<1>1. CASE Load(t)
  BY <1>1, GotoKeepsLock DEF Load, Locations
<1>2. CASE Mark(t)
  BY <1>2, GotoKeepsLock DEF Mark, Locations
<1>3. CASE SignOk(t)
  BY <1>3, GotoKeepsLock DEF SignOk, Locations
<1>4. CASE \E err \in Error : SignFail(t, err)
  BY <1>4, GotoKeepsLock DEF SignFail, Locations
<1>5. CASE Record(t)
  BY <1>5, GotoKeepsLock DEF Record, Locations
<1>6. CASE JobSelect(t)
  BY <1>6, GotoKeepsLock DEF JobSelect, Locations
<1>7. CASE JobWrite(t)
  <2>1. lock' = lock /\ pc[t] # "idle"
    BY <1>7 DEF JobWrite
  <2>2. Return(t) \/ Goto(t, "select") \/ Goto(t, "restore")
    BY <1>7 DEF JobWrite
  <2>3. QED
    BY <2>1, <2>2, ReturnKeepsLock, GotoKeepsLock DEF Locations
<1>8. CASE Restore(t)
  BY <1>8, ReturnKeepsLock DEF Restore
<1>9. QED
  BY <1>1, <1>2, <1>3, <1>4, <1>5, <1>6, <1>7, <1>8
     DEF RefreshStep, EngineStep, SignerStep

LEMMA ErrorKeepsLock ==
  ASSUME TypeOK, NEW t \in Task, DbError(t)
  PROVE  KeepsLock(t)
<1>1. lock' = lock /\ pc[t] # "idle"
  BY DEF DbError
<1>2. Return(t) \/ Goto(t, "select")
  BY DEF DbError
<1>3. QED
  BY <1>1, <1>2, ReturnKeepsLock, GotoKeepsLock DEF Locations

LEMMA LockStep ==
  ASSUME TypeOK, LockMeansSweep, [Next]_vars
  PROVE  LockMeansSweep'
<1>1. ASSUME NEW t \in Task, KeepsLock(t) PROVE LockMeansSweep'
  BY <1>1, Tasks DEF KeepsLock, LockMeansSweep
<1>2. ASSUME NEW t \in Task \ Sweeper, lock' = lock,
             \A u \in Task : u # t => pc'[u] = pc[u]
      PROVE  LockMeansSweep'
  BY <1>2, Tasks DEF LockMeansSweep
<1>3. CASE Tick \/ UNCHANGED vars
  BY <1>3 DEF Tick, vars, taskVars, LockMeansSweep
<1>4. CASE \E t \in Sweeper : Sweep(t)
  <2>1. PICK t \in Sweeper : Sweep(t)
    BY <1>4
  <2>2. CASE SweepStart(t)
    BY <2>2, Tasks DEF SweepStart, Goto, LockMeansSweep, TypeOK
  <2>3. CASE TakeDue(t)
    BY <2>3, <1>1, Tasks, GotoKeepsLock DEF TakeDue, Locations
  <2>4. CASE SweepEnd(t)
    BY <2>4, Tasks DEF SweepEnd, Goto, LockMeansSweep, TypeOK
  <2>5. QED
    BY <2>1, <2>2, <2>3, <2>4 DEF Sweep
<1>5. CASE \E t \in UiRefresh, i \in Install : RefreshApp(t, i)
  BY <1>5, <1>2, Tasks DEF RefreshApp, Goto, TypeOK
<1>6. CASE \E t \in UiInstall, i \in Install, v \in Version : InstallIpa(t, i, v)
  BY <1>6, <1>2, Tasks DEF InstallIpa, Goto, TypeOK
<1>7. CASE \E t \in Sweeper \cup UiRefresh : RefreshStep(t)
  BY <1>7, <1>1, Tasks, RefreshKeepsLock
<1>8. CASE \E t \in UiInstall : InstallStep(t)
  BY <1>8, <1>2, Tasks
     DEF InstallStep, InstallSigned, InstallFail, InstallRecord, Goto, Return, TypeOK
<1>9. CASE \E t \in Task : DbError(t)
  BY <1>9, <1>1, ErrorKeepsLock
<1>10. ASSUME NEW ts \in SUBSET Task, Crash(ts) PROVE LockMeansSweep'
  BY <1>10, Tasks DEF Crash, LockMeansSweep
<1>11. CASE \E run \in orphans : OrphanEnds(run)
  BY <1>11, OrphanApart DEF LockMeansSweep
<1>12. QED
  BY <1>3, <1>4, <1>5, <1>6, <1>7, <1>8, <1>9, <1>10, <1>11, Tasks DEF Next

\* The advisory lock of refresh_due is held exactly while its holder sweeps,
\* whatever else runs, fails or dies: never two sweeps at once, and a lock is
\* never left behind by an early return or a crash.
THEOREM LockMutex == Spec => []LockMeansSweep
<1>1. Init => LockMeansSweep
  BY Tasks DEF Init, LockMeansSweep
<1>2. TypeOK /\ LockMeansSweep /\ [Next]_vars => LockMeansSweep'
  BY LockStep
<1>3. QED
  BY <1>1, <1>2, TypeCorrect, PTL DEF Spec

-----------------------------------------------------------------------------
(* One task at a time *)

Same(u) == pc'[u] = pc[u] /\ mem'[u] = mem[u] /\ inst'[u] = inst[u]

\* Only the task at work moves.
LEMMA OthersKeep ==
  ASSUME TypeOK, NEW t \in Task,
         RefreshStep(t) \/ DbError(t) \/ InstallStep(t)
  PROVE  \A u \in Task : u # t => Same(u)
<1>1. ASSUME NEW u \in Task, u # t, Return(t) PROVE Same(u)
  BY <1>1 DEF Same, Return, TypeOK
<1>2. ASSUME NEW u \in Task, u # t, NEW l, Goto(t, l) PROVE pc'[u] = pc[u]
  BY <1>2 DEF Goto, TypeOK
<1>3. ASSUME NEW u \in Task, u # t, JobWrite(t) PROVE Same(u)
  BY <1>1, <1>2, <1>3 DEF Same, JobWrite, TypeOK
<1>4. ASSUME NEW u \in Task, u # t, DbError(t) PROVE Same(u)
  BY <1>1, <1>2, <1>4 DEF Same, DbError, TypeOK
<1>5. ASSUME NEW u \in Task, u # t, Load(t) \/ JobSelect(t)
      PROVE  Same(u)
  BY <1>2, <1>5 DEF Same, Load, JobSelect, TypeOK
<1>6. ASSUME NEW u \in Task, u # t,
             \/ Mark(t) \/ SignOk(t) \/ Record(t) \/ Restore(t)
             \/ \E err \in Error : SignFail(t, err)
      PROVE  Same(u)
  BY <1>1, <1>2, <1>6 DEF Same, Mark, SignOk, Record, Restore, SignFail, TypeOK
<1>7. ASSUME NEW u \in Task, u # t, InstallStep(t)
      PROVE  Same(u)
  BY <1>1, <1>2, <1>7 DEF Same, InstallStep, InstallSigned, InstallFail, InstallRecord, TypeOK
<1>8. QED
  BY <1>3, <1>4, <1>5, <1>6, <1>7 DEF RefreshStep, EngineStep, SignerStep

-----------------------------------------------------------------------------
(* What is on record never outlives what is on the device *)

\* Every `now` was read in the past; between the signer and the write that
\* records its work the device already has at least the time about to be written.
TimeInv ==
    /\ \A i \in Install : device[i].expiry <= clock + Lifetime
    /\ \A t \in Task : mem[t].now <= clock
    /\ \A t \in Task :
          pc[t] = "record" => mem[t].now + Lifetime <= device[inst[t]].expiry
    /\ \A t \in Task :
          pc[t] = "describe" =>
              /\ t \in UiInstall
              /\ mem[t].now + Lifetime <= device[inst[t]].expiry
              /\ clock <= mem[t].now + RecordLag

PromiseInv == TimeInv /\ NeverOverpromises

\* A step of t that touches neither the clock nor the phones nor the inventory
\* and does not take t to a place that records.
QuietStep(t) ==
    /\ clock' = clock /\ device' = device /\ expiry' = expiry
    /\ \A u \in Task : u # t => /\ pc'[u] = pc[u]
                                /\ inst'[u] = inst[u]
                                /\ mem'[u] = mem[u]
    /\ pc'[t] \notin {"record", "describe"}
    /\ mem'[t].now <= clock

LEMMA QuietStepKeeps ==
  ASSUME TypeOK, PromiseInv, NEW t \in Task, QuietStep(t)
  PROVE  PromiseInv'
<1>1. ASSUME NEW u \in Task PROVE mem'[u].now <= clock'
  BY DEF PromiseInv, TimeInv, QuietStep
<1>2. ASSUME NEW u \in Task, pc'[u] \in {"record", "describe"} PROVE u # t
  BY <1>2 DEF QuietStep
<1>3. ASSUME NEW u \in Task, u # t
      PROVE  pc'[u] = pc[u] /\ inst'[u] = inst[u] /\ mem'[u] = mem[u]
  BY <1>3 DEF QuietStep
<1>4. TimeInv'
  BY <1>1, <1>2, <1>3 DEF PromiseInv, TimeInv, QuietStep
<1>5. NeverOverpromises'
  BY DEF PromiseInv, NeverOverpromises, QuietStep
<1>6. QED
  BY <1>4, <1>5 DEF PromiseInv

LEMMA ReturnNow ==
  ASSUME TypeOK, TimeInv, NEW t \in Task, Return(t)
  PROVE  /\ pc'[t] \in {"sweep", "idle"}
         /\ mem'[t].now <= clock
         /\ \A u \in Task : u # t => /\ pc'[u] = pc[u]
                                     /\ inst'[u] = inst[u]
                                     /\ mem'[u] = mem[u]
<1>1. 0 <= clock /\ mem[t].now <= clock
  BY DEF TypeOK, TimeInv
<1>2. pc'[t] \in {"sweep", "idle"}
  BY DEF Return, TypeOK
<1>3. mem'[t] \in {Locals(t, "clear"), Forgotten}
  BY DEF Return, TypeOK
<1>4. Locals(t, "clear").now = mem[t].now /\ Forgotten.now = 0
  BY DEF Locals, Forgotten
<1>5. QED
  BY <1>1, <1>2, <1>3, <1>4 DEF Return, TypeOK

LEMMA ReturnQuiet ==
  ASSUME TypeOK, TimeInv, NEW t \in Task, Return(t),
         clock' = clock, device' = device, expiry' = expiry
  PROVE  QuietStep(t)
  BY ReturnNow DEF QuietStep

LEMMA GotoQuiet ==
  ASSUME TypeOK, TimeInv, NEW t \in Task, NEW l, l \notin {"record", "describe"},
         Goto(t, l), clock' = clock, device' = device, expiry' = expiry,
         \A u \in Task : u # t => inst'[u] = inst[u] /\ mem'[u] = mem[u],
         mem'[t].now <= clock
  PROVE  QuietStep(t)
  BY DEF QuietStep, Goto, TypeOK

LEMMA LocalsNow ==
  ASSUME TypeOK, TimeInv, NEW t \in Task, NEW u
  PROVE  Locals(t, u).now <= clock
  BY DEF Locals, Forgotten, TypeOK, TimeInv

\* The signer only ever adds time to the device it works on.
LEMMA SignedLater ==
  ASSUME TypeOK, TimeInv, NEW i \in Install, NEW v \in Version,
         device' = [device EXCEPT ![i] = Signed(v)], clock' = clock
  PROVE  /\ \A j \in Install : /\ device'[j].expiry >= device[j].expiry
                               /\ device'[j].expiry <= clock + Lifetime
         /\ device'[i].expiry = clock + Lifetime
<1>1. device'[i].expiry = clock + Lifetime
  BY DEF Signed, TypeOK
<1>2. \A j \in Install : device[j].expiry \in Int
  BY DEF TypeOK
<1>3. QED
  BY <1>1, <1>2, TimeAssumption DEF TypeOK, TimeInv

LEMMA RefreshPromise ==
  ASSUME TypeOK, HasInstall, PromiseInv, NEW t \in Sweeper \cup UiRefresh, RefreshStep(t)
  PROVE  PromiseInv'
<1> USE DEF rowVars
<1>1. t \in Task /\ t \notin UiInstall /\ TimeInv
  BY Tasks, TaskAssumption DEF PromiseInv
<1>2. inst[t] \in Install
  BY <1>1 DEF RefreshStep, EngineStep, SignerStep,
              Load, Mark, SignOk, Record, SignFail, JobSelect, JobWrite,
              Restore, HasInstall
<1>3. mem[t].now <= clock
  BY <1>1 DEF TimeInv
<1>4. CASE Load(t)
  <2>1. mem'[t].now = mem[t].now
    BY <1>1, <1>4 DEF Load, TypeOK, Memory
  <2>2. \A u \in Task : u # t => inst'[u] = inst[u] /\ mem'[u] = mem[u]
    BY <1>4 DEF Load, TypeOK
  <2>3. QED
    BY <1>1, <1>3, <1>4, <2>1, <2>2, GotoQuiet, QuietStepKeeps DEF Load
<1>5. CASE Mark(t)
  BY <1>1, <1>3, <1>5, GotoQuiet, QuietStepKeeps DEF Mark
<1>6. CASE SignOk(t)
  <2>1. mem[t].version \in Version
    BY <1>1 DEF TypeOK, Memory
  <2>2. /\ \A j \in Install : /\ device'[j].expiry >= device[j].expiry
                              /\ device'[j].expiry <= clock + Lifetime
        /\ device'[inst[t]].expiry = clock + Lifetime
    BY <1>1, <1>2, <1>6, <2>1, SignedLater DEF SignOk
  <2>3. \A u \in Task : u # t => pc'[u] = pc[u]
    BY <1>6 DEF SignOk, Goto, TypeOK
  <2>4. pc'[t] = "record"
    BY <1>1, <1>6 DEF SignOk, Goto, TypeOK
  <2>5. clock' = clock /\ inst' = inst /\ mem' = mem /\ expiry' = expiry
    BY <1>6 DEF SignOk
  <2>6. \A j \in Install : device[j].expiry \in Int /\ device'[j].expiry \in Int
    BY <1>1, <1>6, RefreshTyped DEF TypeOK
  <2>7. clock \in Nat /\ \A u \in Task : mem[u].now \in Nat
    BY DEF TypeOK, Memory
  <2>8. \A u \in Task : pc[u] \in {"record", "describe"} => inst[u] \in Install
    BY DEF HasInstall
  <2>9. TimeInv'
    BY <1>1, <1>2, <1>3, <2>2, <2>3, <2>4, <2>5, <2>6, <2>7, <2>8, TimeAssumption
       DEF TimeInv
  <2>10. NeverOverpromises'
    BY <2>2, <2>5, <2>6, TimeAssumption DEF PromiseInv, NeverOverpromises, TypeOK
  <2>11. QED
    BY <2>9, <2>10 DEF PromiseInv
<1>7. CASE \E err \in Error : SignFail(t, err)
  <2>1. PICK u : mem' = [mem EXCEPT ![t] = Locals(t, u)]
    BY <1>7 DEF SignFail
  <2>2. /\ mem'[t].now <= clock
        /\ \A w \in Task : w # t => mem'[w] = mem[w]
    BY <1>1, <2>1, LocalsNow DEF TypeOK
  <2>3. QED
    BY <1>1, <1>7, <2>2, GotoQuiet, QuietStepKeeps DEF SignFail
<1>8. CASE Record(t)
  <2>1. /\ mem'[t].now <= clock
        /\ \A u \in Task : u # t => mem'[u] = mem[u]
    BY <1>1, <1>8, LocalsNow DEF Record, TypeOK
  <2>2. \A u \in Task : u # t => pc'[u] = pc[u]
    BY <1>8 DEF Record, Goto, TypeOK
  <2>3. pc'[t] = "select"
    BY <1>1, <1>8 DEF Record, Goto, TypeOK
  <2>4. clock' = clock /\ inst' = inst /\ device' = device
    BY <1>8 DEF Record
  <2>5. TimeInv'
    BY <1>1, <2>1, <2>2, <2>3, <2>4 DEF TimeInv
  <2>6. mem[t].now + Lifetime <= device[inst[t]].expiry
    BY <1>1, <1>8 DEF Record, TimeInv
  <2>7. expiry' = [expiry EXCEPT ![inst[t]] = mem[t].now + Lifetime]
    BY <1>8 DEF Record, RecordInstall
  <2>8. mem[t].now \in Nat /\ \A j \in Install : device[j].expiry \in Int
    BY <1>1 DEF TypeOK, Memory
  <2>9. NeverOverpromises'
    BY <1>2, <2>4, <2>6, <2>7, <2>8, TimeAssumption
       DEF PromiseInv, NeverOverpromises, TypeOK
  <2>10. QED
    BY <2>5, <2>9 DEF PromiseInv
<1>9. CASE JobSelect(t)
  <2>1. mem'[t].now = mem[t].now
    BY <1>1, <1>9 DEF JobSelect, TypeOK, Memory
  <2>2. \A u \in Task : u # t => inst'[u] = inst[u] /\ mem'[u] = mem[u]
    BY <1>9 DEF JobSelect, TypeOK
  <2>3. QED
    BY <1>1, <1>3, <1>9, <2>1, <2>2, GotoQuiet, QuietStepKeeps DEF JobSelect
<1>10. CASE JobWrite(t)
  <2>1. clock' = clock /\ device' = device /\ expiry' = expiry
    BY <1>10 DEF JobWrite
  <2>2. CASE Return(t)
    BY <1>1, <2>1, <2>2, ReturnQuiet, QuietStepKeeps
  <2>3. CASE /\ mem' = [mem EXCEPT ![t] = [Locals(t, "defer")
                            EXCEPT !.bumped = NewJob(mem[t]).retries]]
             /\ Goto(t, "select")
             /\ UNCHANGED <<inst, due>>
    <3>1. mem'[t].now = Locals(t, "defer").now
      BY <1>1, <2>3 DEF TypeOK, Locals, Forgotten
    <3>2. \A u \in Task : u # t => inst'[u] = inst[u] /\ mem'[u] = mem[u]
      BY <2>3 DEF TypeOK
    <3>3. QED
      BY <1>1, <2>1, <2>3, <3>1, <3>2, LocalsNow, GotoQuiet, QuietStepKeeps
  <2>4. CASE /\ mem' = [mem EXCEPT ![t] = Locals(t, mem[t].upsert)]
             /\ Goto(t, "restore")
             /\ UNCHANGED <<inst, due>>
    <3>1. mem'[t] = Locals(t, mem[t].upsert)
      BY <1>1, <2>4 DEF TypeOK
    <3>2. \A u \in Task : u # t => inst'[u] = inst[u] /\ mem'[u] = mem[u]
      BY <2>4 DEF TypeOK
    <3>3. QED
      BY <1>1, <2>1, <2>4, <3>1, <3>2, LocalsNow, GotoQuiet, QuietStepKeeps
  <2>5. QED
    BY <1>10, <2>2, <2>3, <2>4 DEF JobWrite
<1>11. CASE Restore(t)
  BY <1>1, <1>11, ReturnQuiet, QuietStepKeeps DEF Restore
<1>12. QED
  BY <1>4, <1>5, <1>6, <1>7, <1>8, <1>9, <1>10, <1>11
     DEF RefreshStep, EngineStep, SignerStep

LEMMA InstallPromise ==
  ASSUME TypeOK, HasInstall, PromiseInv, NEW t \in UiInstall, InstallStep(t)
  PROVE  PromiseInv'
<1> USE DEF rowVars
<1>1. t \in Task /\ TimeInv
  BY Tasks DEF PromiseInv
<1>2. inst[t] \in Install
  BY <1>1 DEF InstallStep, InstallSigned, InstallFail, InstallRecord, HasInstall
<1>3. CASE InstallSigned(t)
  <2>1. mem[t].version \in Version
    BY <1>1 DEF TypeOK, Memory
  <2>2. /\ \A j \in Install : /\ device'[j].expiry >= device[j].expiry
                              /\ device'[j].expiry <= clock + Lifetime
        /\ device'[inst[t]].expiry = clock + Lifetime
    BY <1>1, <1>2, <1>3, <2>1, SignedLater DEF InstallSigned
  <2>3. \A u \in Task : u # t => pc'[u] = pc[u] /\ mem'[u] = mem[u]
    BY <1>3 DEF InstallSigned, Goto, TypeOK
  <2>4. pc'[t] = "describe" /\ mem'[t].now = clock
    BY <1>1, <1>3 DEF InstallSigned, Goto, TypeOK, Memory
  <2>5. clock' = clock /\ inst' = inst /\ expiry' = expiry
    BY <1>3 DEF InstallSigned
  <2>6. \A j \in Install : device[j].expiry \in Int /\ device'[j].expiry \in Int
    BY <1>1, InstallTyped DEF TypeOK
  <2>7. clock \in Nat /\ \A u \in Task : mem[u].now \in Nat
    BY DEF TypeOK, Memory
  <2>8. \A u \in Task : pc[u] \in {"record", "describe"} => inst[u] \in Install
    BY DEF HasInstall
  <2>9. TimeInv'
    BY <1>1, <1>2, <2>2, <2>3, <2>4, <2>5, <2>6, <2>7, <2>8, TimeAssumption
       DEF TimeInv
  <2>10. NeverOverpromises'
    BY <2>2, <2>5, <2>6, TimeAssumption DEF PromiseInv, NeverOverpromises, TypeOK
  <2>11. QED
    BY <2>9, <2>10 DEF PromiseInv
<1>4. CASE InstallFail(t)
  BY <1>1, <1>4, ReturnQuiet, QuietStepKeeps DEF InstallFail
<1>5. CASE InstallRecord(t)
  <2>1. /\ mem[t].now + Lifetime <= device[inst[t]].expiry
        /\ clock <= mem[t].now + RecordLag
    BY <1>1, <1>5 DEF InstallRecord, TimeInv
  <2>2. /\ expiry' = [expiry EXCEPT ![inst[t]] = clock + Lifetime]
        /\ clock' = clock /\ device' = device
    BY <1>5 DEF InstallRecord, RecordInstall
  <2>3. mem[t].now \in Nat /\ clock \in Nat /\ \A j \in Install : device[j].expiry \in Int
    BY <1>1 DEF TypeOK, Memory
  <2>4. NeverOverpromises'
    BY <1>2, <2>1, <2>2, <2>3, TimeAssumption DEF PromiseInv, NeverOverpromises, TypeOK
  <2>5. TimeInv'
    BY <1>1, <1>5, <2>2, ReturnNow DEF InstallRecord, TimeInv
  <2>6. QED
    BY <2>4, <2>5 DEF PromiseInv
<1>6. QED
  BY <1>3, <1>4, <1>5 DEF InstallStep

LEMMA SweepPromise ==
  ASSUME TypeOK, PromiseInv, NEW t \in Sweeper, Sweep(t)
  PROVE  PromiseInv'
<1> USE DEF rowVars
<1>1. t \in Task /\ TimeInv /\ mem[t].now <= clock /\ clock \in Nat
  BY Tasks DEF PromiseInv, TimeInv, TypeOK
<1>2. CASE SweepStart(t)
  <2>1. mem'[t].now = clock /\ \A u \in Task : u # t => mem'[u] = mem[u]
    BY <1>1, <1>2 DEF SweepStart, TypeOK, Memory
  <2>2. QED
    BY <1>1, <1>2, <2>1, GotoQuiet, QuietStepKeeps DEF SweepStart
<1>3. CASE TakeDue(t)
  <2>1. \A u \in Task : u # t => inst'[u] = inst[u]
    BY <1>3 DEF TakeDue, TypeOK
  <2>2. QED
    BY <1>1, <1>3, <2>1, GotoQuiet, QuietStepKeeps DEF TakeDue
<1>4. CASE SweepEnd(t)
  <2>1. mem'[t].now = 0 /\ \A u \in Task : u # t => mem'[u] = mem[u]
    BY <1>1, <1>4 DEF SweepEnd, TypeOK, Forgotten
  <2>2. QED
    BY <1>1, <1>4, <2>1, GotoQuiet, QuietStepKeeps DEF SweepEnd
<1>5. QED
  BY <1>2, <1>3, <1>4 DEF Sweep

LEMMA CommandPromise ==
  ASSUME TypeOK, PromiseInv, NEW t \in Task, NEW i \in Install, NEW v \in Version,
         RefreshApp(t, i) \/ InstallIpa(t, i, v)
  PROVE  PromiseInv'
<1> USE DEF rowVars
<1>1. TimeInv /\ mem[t].now <= clock /\ clock \in Nat
  BY DEF PromiseInv, TimeInv, TypeOK
<1>2. \A u \in Task : u # t => inst'[u] = inst[u] /\ mem'[u] = mem[u]
  BY DEF RefreshApp, InstallIpa, TypeOK
<1>3. mem'[t].now <= clock
  BY <1>1 DEF RefreshApp, InstallIpa, TypeOK, Memory
<1>4. QED
  BY <1>1, <1>2, <1>3, GotoQuiet, QuietStepKeeps DEF RefreshApp, InstallIpa

LEMMA FaultPromise ==
  ASSUME TypeOK, HasInstall, PromiseInv,
         \/ \E t \in Task : DbError(t)
         \/ \E ts \in SUBSET Task : Crash(ts)
  PROVE  PromiseInv'
<1> USE DEF rowVars
<1>1. TimeInv /\ clock \in Nat
  BY DEF PromiseInv, TypeOK
<1>2. ASSUME NEW t \in Task, DbError(t) PROVE PromiseInv'
  <2>1. CASE Return(t)
    BY <1>1, <1>2, <2>1, ReturnQuiet, QuietStepKeeps DEF DbError
  <2>2. CASE /\ mem' = [mem EXCEPT ![t] = Locals(t, "retry")]
             /\ Goto(t, "select")
             /\ UNCHANGED <<inst, due>>
    <3>1. mem'[t].now <= clock /\ \A u \in Task : u # t => mem'[u] = mem[u]
      BY <1>1, <2>2, LocalsNow DEF TypeOK
    <3>2. QED
      BY <1>1, <1>2, <2>2, <3>1, GotoQuiet, QuietStepKeeps DEF DbError
  <2>3. QED
    BY <1>2, <2>1, <2>2 DEF DbError
<1>3. ASSUME NEW ts \in SUBSET Task, Crash(ts) PROVE PromiseInv'
  <2>1. /\ \A t \in ts : pc'[t] = "idle" /\ mem'[t] = Forgotten
        /\ \A t \in Task \ ts : /\ pc'[t] = pc[t]
                                /\ inst'[t] = inst[t]
                                /\ mem'[t] = mem[t]
        /\ clock' = clock /\ expiry' = expiry /\ device' = device
    BY <1>3 DEF Crash
  <2>2. \A i \in Install : device[i].expiry \in Int
    BY DEF TypeOK
  <2>3. \A t \in Task : mem[t].now \in Nat
    BY DEF TypeOK, Memory
  <2>4. \A t \in Task : pc[t] \in {"record", "describe"} => inst[t] \in Install
    BY DEF HasInstall
  <2>5. Forgotten.now = 0
    BY DEF Forgotten
  <2>6. TimeInv'
    BY <1>1, <2>1, <2>2, <2>3, <2>4, <2>5, TimeAssumption DEF TimeInv
  <2>7. NeverOverpromises'
    BY <2>1 DEF PromiseInv, NeverOverpromises
  <2>8. QED
    BY <2>6, <2>7 DEF PromiseInv
<1>4. QED
  BY <1>2, <1>3

\* A late landing only adds time to the phone, whoever records what by then.
LEMMA OrphanPromise ==
  ASSUME TypeOK, HasInstall, PromiseInv, NEW run \in orphans, OrphanEnds(run)
  PROVE  PromiseInv'
<1>1. TimeInv /\ run.inst \in Install /\ run.version \in Version
  BY DEF PromiseInv, TypeOK, Run
<1>2. /\ clock' = clock /\ pc' = pc /\ inst' = inst /\ mem' = mem /\ expiry' = expiry
  BY OrphanApart
<1>3. \A j \in Install : /\ device'[j].expiry >= device[j].expiry
                         /\ device'[j].expiry <= clock + Lifetime
  <2>1. CASE device' = device
    BY <1>1, <2>1, TimeAssumption DEF TypeOK, TimeInv
  <2>2. CASE device' # device
    BY <1>1, <1>2, <2>2, SignedLater DEF OrphanEnds
  <2>3. QED
    BY <2>1, <2>2
<1>4. \A j \in Install : device[j].expiry \in Int /\ device'[j].expiry \in Int
  BY OrphanTyped DEF TypeOK
<1>5. /\ clock \in Nat /\ \A t \in Task : mem[t].now \in Nat
      /\ \A t \in Task : pc[t] \in {"record", "describe"} => inst[t] \in Install
  BY DEF TypeOK, Memory, HasInstall
<1>6. TimeInv'
  BY <1>1, <1>2, <1>3, <1>4, <1>5, TimeAssumption DEF TimeInv
<1>7. NeverOverpromises'
  BY <1>2, <1>3, <1>4, TimeAssumption DEF PromiseInv, NeverOverpromises, TypeOK
<1>8. QED
  BY <1>6, <1>7 DEF PromiseInv

LEMMA TickPromise ==
  ASSUME TypeOK, PromiseInv, Tick
  PROVE  PromiseInv'
<1>1. clock' = clock + 1 /\ clock \in Nat /\ Lifetime \in Nat /\ RecordLag \in Nat
  BY TimeAssumption DEF Tick, TypeOK
<1>2. pc' = pc /\ inst' = inst /\ mem' = mem /\ device' = device /\ expiry' = expiry
  BY DEF Tick, taskVars, rowVars
<1>3. \A i \in Install : device[i].expiry \in Int
  BY DEF TypeOK
<1>4. \A t \in Task : mem[t].now \in Nat
  BY DEF TypeOK, Memory
<1>5. TimeInv'
  <2>1. \A t \in Task : pc[t] = "describe" => clock + 1 <= mem[t].now + RecordLag
    BY <1>1, <1>4 DEF Tick, PromiseInv, TimeInv
  <2>2. QED
    BY <1>1, <1>2, <1>3, <1>4, <2>1 DEF PromiseInv, TimeInv
<1>6. NeverOverpromises'
  BY <1>2 DEF PromiseInv, NeverOverpromises
<1>7. QED
  BY <1>5, <1>6 DEF PromiseInv

\* PromiseInv is inductive, and an invariant of the specification.
LEMMA PromiseInvariant == Spec => []PromiseInv
<1>1. Init => PromiseInv
  <2> SUFFICES ASSUME Init PROVE PromiseInv
    OBVIOUS
  <2>1. TimeInv
    BY TimeAssumption DEF Init, TimeInv, Forgotten
  <2>2. NeverOverpromises
    BY TimeAssumption DEF Init, NeverOverpromises
  <2>3. QED
    BY <2>1, <2>2 DEF PromiseInv
<1>2. TypeOK /\ HasInstall /\ PromiseInv /\ [Next]_vars => PromiseInv'
  <2> SUFFICES ASSUME TypeOK, HasInstall, PromiseInv, [Next]_vars PROVE PromiseInv'
    OBVIOUS
  <2>1. CASE UNCHANGED vars
    BY <2>1 DEF vars, rowVars, taskVars, PromiseInv, TimeInv, NeverOverpromises
  <2>2. CASE (\E t \in Agent : Crash({t})) \/ Crash(UiTask)
    BY <2>2, Tasks, FaultPromise
  <2>3. QED
    BY <2>1, <2>2, Tasks, DataAssumption, TickPromise, SweepPromise, CommandPromise,
       RefreshPromise, InstallPromise, FaultPromise, OrphanPromise DEF Next
<1>3. QED
  BY <1>1, <1>2, TypeCorrect, PTL DEF Spec

\* The expiry on record, which decides when to refresh, is never later than what
\* the phone has, but for the lag of install_ipa's own clock read: crashes, failed
\* statements and the stale `now` of a long sweep only ever err on the early side.
THEOREM Promise == Spec => []NeverOverpromises
<1>1. PromiseInv => NeverOverpromises
  BY DEF PromiseInv
<1>2. QED
  BY <1>1, PromiseInvariant, PTL

-----------------------------------------------------------------------------
(* "refreshing" is somebody's doing *)

\* t still has to give the installation another status: it signs, it records, or
\* it writes down a failure that it will then restore.
Backs(t, i) ==
    /\ inst[t] = i
    /\ \/ pc[t] \in {"sign", "record", "restore"}
       \/ pc[t] \in {"select", "write"} /\ mem[t].upsert # "clear"

BackedInv ==
    \A i \in Install : status[i] = "refreshing" => \E t \in Task : Backs(t, i)

LEMMA BackedStep ==
  ASSUME BackedInv, NEW t \in Task,
         \A u \in Task : u # t => Same(u),
         \A i \in Install : status'[i] = "refreshing" =>
             \/ Backs(t, i)'
             \/ status[i] = "refreshing" /\ ~Backs(t, i)
  PROVE  BackedInv'
<1>1. ASSUME NEW i \in Install, status'[i] = "refreshing", ~Backs(t, i)'
      PROVE  \E u \in Task : Backs(u, i)'
  <2>1. status[i] = "refreshing" /\ ~Backs(t, i)
    BY <1>1
  <2>2. PICK u \in Task : Backs(u, i)
    BY <2>1 DEF BackedInv
  <2>3. Same(u)
    BY <2>1, <2>2
  <2>4. Backs(u, i)'
    BY <2>2, <2>3 DEF Backs, Same
  <2>5. QED
    BY <2>4
<1>2. QED
  BY <1>1 DEF BackedInv

LEMMA RefreshBacked ==
  ASSUME TypeOK, HasInstall, BackedInv, NEW t \in Task, RefreshStep(t)
  PROVE  BackedInv'
<1> USE DEF rowVars
<1>1. \A u \in Task : u # t => Same(u)
  BY OthersKeep
<1>2. inst[t] \in Install
  BY DEF RefreshStep, EngineStep, SignerStep,
         Load, Mark, SignOk, Record, SignFail, JobSelect, JobWrite,
         Restore, HasInstall
<1>3. ASSUME status' = status, \A i \in Install : Backs(t, i) => Backs(t, i)'
      PROVE  BackedInv'
  BY <1>1, <1>3, BackedStep
<1>4. CASE Load(t)
  <2>1. \A i \in Install : ~Backs(t, i)
    BY <1>4 DEF Load, Backs
  <2>2. QED
    BY <1>3, <1>4, <2>1 DEF Load
<1>5. CASE Mark(t)
  <2>1. \A i \in Install : i = inst[t] => Backs(t, i)'
    BY <1>5 DEF Mark, Goto, Backs, TypeOK
  <2>2. \A i \in Install : ~Backs(t, i)
    BY <1>5 DEF Mark, Backs
  <2>3. \A i \in Install : i # inst[t] => status'[i] = status[i]
    BY <1>5 DEF Mark, TypeOK
  <2>4. QED
    BY <1>1, <2>1, <2>2, <2>3, BackedStep
<1>6. CASE SignOk(t)
  <2>1. pc'[t] = "record" /\ inst' = inst /\ status' = status
    BY <1>6 DEF SignOk, Goto, TypeOK
  <2>2. QED
    BY <1>3, <2>1 DEF Backs
<1>7. CASE \E err \in Error : SignFail(t, err)
  <2>1. pc'[t] = "select" /\ inst' = inst /\ status' = status
    BY <1>7 DEF SignFail, Goto, TypeOK
  <2>2. PICK u \in {"retry", "block"} : mem'[t] = Locals(t, u)
    BY <1>7 DEF SignFail, TypeOK
  <2>3. mem'[t].upsert # "clear"
    BY <2>2 DEF Locals, Forgotten
  <2>4. QED
    BY <1>3, <2>1, <2>3 DEF Backs
<1>8. CASE Record(t)
  <2>1. status' = [status EXCEPT ![inst[t]] = "idle"]
    BY <1>8 DEF Record, RecordInstall
  <2>2. \A i \in Install : status'[i] = "refreshing" =>
             status[i] = "refreshing" /\ ~Backs(t, i)
    BY <1>2, <2>1 DEF Backs, TypeOK
  <2>3. QED
    BY <1>1, <2>2, BackedStep
<1>9. CASE JobSelect(t)
  <2>1. pc'[t] = "write" /\ inst' = inst /\ status' = status
    BY <1>9 DEF JobSelect, Goto, TypeOK
  <2>2. mem'[t].upsert = mem[t].upsert /\ pc[t] = "select"
    BY <1>9 DEF JobSelect, TypeOK, Memory
  <2>3. QED
    BY <1>3, <2>1, <2>2 DEF Backs
<1>10. CASE JobWrite(t)
  <2>1. status' = status /\ pc[t] = "write"
    BY <1>10 DEF JobWrite
  <2>2. CASE mem[t].upsert = "clear"
    <3>1. \A i \in Install : ~Backs(t, i)
      BY <2>1, <2>2 DEF Backs
    <3>2. QED
      BY <1>3, <2>1, <3>1
  <2>3. CASE mem[t].upsert = "retry"
    <3>1. /\ mem'[t] = [Locals(t, "defer") EXCEPT !.bumped = NewJob(mem[t]).retries]
          /\ pc'[t] = "select" /\ inst' = inst
      BY <1>10, <2>3 DEF JobWrite, Goto, TypeOK
    <3>2. mem'[t].upsert # "clear"
      BY <3>1 DEF Locals, Forgotten
    <3>3. QED
      BY <1>3, <2>1, <3>1, <3>2 DEF Backs
  <2>4. CASE mem[t].upsert \in {"defer", "block"}
    <3>1. pc'[t] = "restore" /\ inst' = inst
      BY <1>10, <2>4 DEF JobWrite, Goto, TypeOK
    <3>2. QED
      BY <1>3, <2>1, <3>1 DEF Backs
  <2>5. QED
    BY <1>10, <2>2, <2>3, <2>4 DEF JobWrite
<1>11. CASE Restore(t)
  <2>1. \E s \in {"failed", "idle"} : status' = [status EXCEPT ![inst[t]] = s]
    BY <1>11 DEF Restore
  <2>2. \A i \in Install : status'[i] = "refreshing" =>
             status[i] = "refreshing" /\ ~Backs(t, i)
    BY <1>2, <2>1 DEF Backs, TypeOK
  <2>3. QED
    BY <1>1, <2>2, BackedStep
<1>12. QED
  BY <1>4, <1>5, <1>6, <1>7, <1>8, <1>9, <1>10, <1>11
     DEF RefreshStep, EngineStep, SignerStep

LEMMA InstallBacked ==
  ASSUME TypeOK, HasInstall, BackedInv, NEW t \in Task, InstallStep(t)
  PROVE  BackedInv'
<1>1. \A u \in Task : u # t => Same(u)
  BY OthersKeep
<1>2. \A i \in Install : ~Backs(t, i)
  BY DEF InstallStep, InstallSigned, InstallFail, InstallRecord, Backs
<1>3. \A i \in Install : status'[i] = "refreshing" => status[i] = "refreshing"
  BY DEF InstallStep, InstallSigned, InstallFail, InstallRecord, RecordInstall,
         rowVars, TypeOK
<1>4. QED
  BY <1>1, <1>2, <1>3, BackedStep

LEMMA BeginBacked ==
  ASSUME TypeOK, BackedInv, NEW t \in Task, NEW i \in Install, NEW v \in Version,
         \/ SweepStart(t) \/ TakeDue(t) \/ SweepEnd(t)
         \/ RefreshApp(t, i) \/ InstallIpa(t, i, v)
  PROVE  BackedInv'
<1>1. \A u \in Task : u # t => Same(u)
  BY DEF SweepStart, TakeDue, SweepEnd, RefreshApp, InstallIpa, Goto, Same, TypeOK
<1>2. \A j \in Install : ~Backs(t, j)
  BY DEF SweepStart, TakeDue, SweepEnd, RefreshApp, InstallIpa, Backs
<1>3. status' = status
  BY DEF SweepStart, TakeDue, SweepEnd, RefreshApp, InstallIpa, rowVars
<1>4. QED
  BY <1>1, <1>2, <1>3, BackedStep

\* While no process dies and no statement fails, "refreshing" always means that
\* some task will still set another status: every path through refresh_installation
\* restores one, also when commands and sweeps overlap on the same installation.
THEOREM Backed == ASSUME Faults = {} PROVE Spec => []RefreshingIsBacked
<1>1. Init => BackedInv
  BY DEF Init, BackedInv
<1>2. TypeOK /\ HasInstall /\ BackedInv /\ [Next]_vars => BackedInv'
  <2> SUFFICES ASSUME TypeOK, HasInstall, BackedInv, [Next]_vars PROVE BackedInv'
    OBVIOUS
  <2>1. CASE Tick \/ UNCHANGED vars
    BY <2>1 DEF Tick, vars, rowVars, taskVars, BackedInv, Backs
  <2>2. ASSUME NEW t \in Sweeper, Sweep(t) PROVE BackedInv'
    <3>1. CASE Install = {}
      BY <3>1 DEF BackedInv
    <3>2. CASE Install # {}
      BY <2>2, <3>2, Tasks, DataAssumption, BeginBacked DEF Sweep
    <3>3. QED
      BY <3>1, <3>2
  <2>3. ~(\E t \in Task : DbError(t)) /\ ~(\E ts : Crash(ts))
    BY DEF DbError, Crash
  <2>4. CASE \E run \in orphans : OrphanEnds(run)
    BY <2>4, OrphanApart DEF BackedInv, Backs
  <2>5. QED
    BY <2>1, <2>2, <2>3, <2>4, Tasks, DataAssumption, BeginBacked, RefreshBacked,
       InstallBacked DEF Next
<1>3. BackedInv => RefreshingIsBacked
  BY DEF BackedInv, Backs, RefreshingIsBacked
<1>4. QED
  BY <1>1, <1>2, <1>3, TypeCorrect, PTL DEF Spec

-----------------------------------------------------------------------------
(* What the process lock buys *)

\* With every refresh under the lock (no refresh_app beside the sweeps) the
\* bookkeeping of the jobs table and of the expiry is sound, whatever fails or
\* crashes.

-----------------------------------------------------------------------------
(* One job row per installation *)

\* upsert_job inserts only when its select saw no row, and nobody else has
\* inserted one since.
JobInv ==
    /\ OneJobRow
    /\ \A t \in Sweeper :
          pc[t] = "write" /\ ~mem[t].found => jobs[inst[t]] = <<>>

LEMMA JobQuiet ==
  ASSUME JobInv, jobs' = jobs,
         \A u \in Sweeper : pc'[u] = "write" =>
             pc[u] = "write" /\ mem'[u] = mem[u] /\ inst'[u] = inst[u]
  PROVE  JobInv'
  BY DEF JobInv, OneJobRow

LEMMA ReturnJob ==
  ASSUME TypeOK, JobInv, NEW t \in Task, Return(t), jobs' = jobs
  PROVE  JobInv'
<1>1. \A u \in Sweeper : pc'[u] = "write" =>
             pc[u] = "write" /\ mem'[u] = mem[u] /\ inst'[u] = inst[u]
  BY Tasks DEF Return, TypeOK
<1>2. QED
  BY <1>1, JobQuiet

LEMMA GotoJob ==
  ASSUME TypeOK, JobInv, NEW t \in Task, NEW l, l # "write", Goto(t, l), jobs' = jobs,
         \A u \in Task : u # t => mem'[u] = mem[u] /\ inst'[u] = inst[u]
  PROVE  JobInv'
<1>1. \A u \in Sweeper : pc'[u] = "write" =>
             pc[u] = "write" /\ mem'[u] = mem[u] /\ inst'[u] = inst[u]
  BY Tasks DEF Goto, TypeOK
<1>2. QED
  BY <1>1, JobQuiet

LEMMA JobSelectStep ==
  ASSUME TypeOK, JobInv, NEW t \in Sweeper, JobSelect(t)
  PROVE  JobInv'
<1>1. t \in Task
  BY Tasks
<1>2. mem'[t].found = (jobs[inst[t]] # <<>>)
  BY <1>1 DEF JobSelect, TypeOK, Memory
<1>3. \A u \in Sweeper : u # t => pc'[u] = pc[u] /\ mem'[u] = mem[u]
  BY Tasks DEF JobSelect, Goto, TypeOK
<1>4. jobs' = jobs /\ inst' = inst
  BY DEF JobSelect
<1>5. QED
  BY <1>2, <1>3, <1>4 DEF JobInv, OneJobRow

LEMMA JobWriteStep ==
  ASSUME TypeOK, HasInstall, LockMeansSweep, JobInv, NEW t \in Sweeper, JobWrite(t)
  PROVE  JobInv'
<1>1. t \in Task /\ pc[t] = "write" /\ inst[t] \in Install
  BY Tasks DEF JobWrite, HasInstall
<1> DEFINE row == NewJob(mem[t])
           old == jobs[inst[t]]
<1>2. row \in JobRow /\ old \in Seq(JobRow)
  BY <1>1, NewJobType DEF TypeOK
<1>3. jobs' = [jobs EXCEPT ![inst[t]] =
                  IF mem[t].found THEN [old EXCEPT ![1] = row] ELSE Append(old, row)]
  BY DEF JobWrite
<1>4. Len(old) <= 1 /\ (~mem[t].found => Len(old) = 0)
  BY <1>1 DEF JobInv, OneJobRow
<1>5. Len([old EXCEPT ![1] = row]) = Len(old) /\ Len(Append(old, row)) = Len(old) + 1
  BY <1>2, UpdateFirst
<1> HIDE DEF row, old
<1>6. Len(jobs'[inst[t]]) <= 1
  BY <1>1, <1>3, <1>4, <1>5 DEF TypeOK
<1>7. \A i \in Install : i # inst[t] => jobs'[i] = jobs[i]
  BY <1>3 DEF TypeOK
<1>8. OneJobRow'
  BY <1>6, <1>7 DEF JobInv, OneJobRow
<1>9. \A u \in Sweeper : pc'[u] # "write"
  <2>1. \A u \in Sweeper : u # t => pc[u] = "idle" /\ pc'[u] = pc[u]
    BY <1>1, Tasks DEF LockMeansSweep, JobWrite, Return, Goto, TypeOK
  <2>2. pc'[t] # "write"
    BY <1>1 DEF JobWrite, Return, Goto, TypeOK
  <2>3. QED
    BY <2>1, <2>2
<1>10. QED
  BY <1>8, <1>9 DEF JobInv

LEMMA JobStep ==
  ASSUME UiRefresh = {}, TypeOK, HasInstall, LockMeansSweep, JobInv, [Next]_vars
  PROVE  JobInv'
<1>1. CASE Tick \/ UNCHANGED vars
  BY <1>1, JobQuiet DEF Tick, vars, taskVars
<1>2. ASSUME NEW t \in Sweeper, Sweep(t) PROVE JobInv'
  <2>1. t \in Task
    BY Tasks
  <2>2. CASE SweepStart(t)
    BY <2>1, <2>2, GotoJob DEF SweepStart, TypeOK
  <2>3. CASE TakeDue(t)
    BY <2>1, <2>3, GotoJob DEF TakeDue, TypeOK
  <2>4. CASE SweepEnd(t)
    BY <2>1, <2>4, GotoJob DEF SweepEnd, TypeOK
  <2>5. QED
    BY <1>2, <2>2, <2>3, <2>4 DEF Sweep
<1>3. ASSUME NEW t \in UiInstall, NEW i \in Install, NEW v \in Version, InstallIpa(t, i, v)
      PROVE  JobInv'
  BY <1>3, Tasks, GotoJob DEF InstallIpa, TypeOK
<1>4. ASSUME NEW t \in Sweeper, RefreshStep(t) PROVE JobInv'
  <2>1. t \in Task
    BY Tasks
  <2>2. CASE Load(t)
    BY <2>1, <2>2, GotoJob DEF Load, TypeOK
  <2>3. CASE Mark(t)
    BY <2>1, <2>3, GotoJob DEF Mark
  <2>4. CASE SignOk(t)
    BY <2>1, <2>4, GotoJob DEF SignOk
  <2>5. CASE \E err \in Error : SignFail(t, err)
    BY <2>1, <2>5, GotoJob DEF SignFail, TypeOK
  <2>6. CASE Record(t)
    BY <2>1, <2>6, GotoJob DEF Record, TypeOK
  <2>7. CASE JobSelect(t)
    BY <2>7, JobSelectStep
  <2>8. CASE JobWrite(t)
    BY <2>8, JobWriteStep
  <2>9. CASE Restore(t)
    BY <2>1, <2>9, ReturnJob DEF Restore
  <2>10. QED
    BY <1>4, <2>2, <2>3, <2>4, <2>5, <2>6, <2>7, <2>8, <2>9
       DEF RefreshStep, EngineStep, SignerStep
<1>5. ASSUME NEW t \in UiInstall, InstallStep(t) PROVE JobInv'
  <2>1. t \in Task
    BY Tasks
  <2>2. CASE InstallSigned(t)
    BY <2>1, <2>2, GotoJob DEF InstallSigned, TypeOK
  <2>3. CASE InstallFail(t) \/ InstallRecord(t)
    BY <2>1, <2>3, ReturnJob DEF InstallFail, InstallRecord
  <2>4. QED
    BY <1>5, <2>2, <2>3 DEF InstallStep
<1>6. ASSUME NEW t \in Task, DbError(t) PROVE JobInv'
  <2>1. CASE Return(t)
    BY <1>6, <2>1, ReturnJob DEF DbError
  <2>2. CASE ~Return(t)
    BY <1>6, <2>2, GotoJob DEF DbError, TypeOK
  <2>3. QED
    BY <2>1, <2>2
<1>7. ASSUME NEW ts \in SUBSET Task, Crash(ts) PROVE JobInv'
  <2>1. \A u \in Sweeper : pc'[u] = "write" =>
             pc[u] = "write" /\ mem'[u] = mem[u] /\ inst'[u] = inst[u]
    BY <1>7, Tasks DEF Crash
  <2>2. QED
    BY <1>7, <2>1, JobQuiet DEF Crash
<1>8. CASE \E run \in orphans : OrphanEnds(run)
  BY <1>8, OrphanApart, JobQuiet
<1>9. QED
  BY <1>1, <1>2, <1>3, <1>4, <1>5, <1>6, <1>7, <1>8, Tasks DEF Next

\* JobInv is an invariant of the specification.
LEMMA JobInvariant == ASSUME UiRefresh = {} PROVE Spec => []JobInv
<1>1. Init => JobInv
  BY Tasks DEF Init, JobInv, OneJobRow
<1>2. TypeOK /\ HasInstall /\ LockMeansSweep /\ JobInv /\ [Next]_vars => JobInv'
  BY JobStep
<1>3. QED
  BY <1>1, <1>2, TypeCorrect, LockMutex, PTL DEF Spec

\* Without refresh_app beside the sweeps the select-then-insert of upsert_job is
\* atomic enough: no crash, failed statement or manual install ever leaves two
\* refresh_profile rows for one installation.
THEOREM SingleJob == ASSUME UiRefresh = {} PROVE Spec => []OneJobRow
<1>1. JobInv => OneJobRow
  BY DEF JobInv
<1>2. QED
  BY <1>1, JobInvariant, PTL

-----------------------------------------------------------------------------
(* A refresh never shortens what is on record *)

\* Nothing on record is later than a full lifetime from the running sweep's own
\* `now`, which is older than the clock.
FreshInv ==
    /\ \A t \in Sweeper : mem[t].now <= clock
    /\ \A i \in Install : expiry[i] <= clock + Lifetime
    /\ \A t \in Sweeper, i \in Install :
          pc[t] # "idle" => expiry[i] <= mem[t].now + Lifetime

\* A step that leaves the expiry alone: of the sweep it moves it keeps `now`.
SameExpiry ==
    /\ expiry' = expiry /\ clock' = clock
    /\ \A u \in Sweeper : \/ pc'[u] = "idle" /\ mem'[u].now <= clock
                          \/ pc[u] # "idle" /\ mem'[u].now = mem[u].now

LEMMA SameExpiryKeeps == ASSUME FreshInv, SameExpiry PROVE FreshInv'
  BY DEF FreshInv, SameExpiry

LEMMA MemNow ==
  ASSUME TypeOK, NEW t \in Task
  PROVE  /\ mem[t].now \in Nat /\ Forgotten.now = 0
         /\ \A u : Locals(t, u).now = mem[t].now
  BY DEF TypeOK, Memory, Locals, Forgotten

\* Every step of a running sweep keeps its `now`.
LEMMA RefreshKeepsNow ==
  ASSUME TypeOK, NEW t \in Sweeper, RefreshStep(t) \/ DbError(t)
  PROVE  mem'[t].now = mem[t].now
<1>1. t \in Task /\ mem \in [Task -> Memory]
  BY Tasks DEF TypeOK
<1>2. CASE Return(t)
  BY <1>1, <1>2, MemNow DEF Return
<1>3. CASE Load(t) \/ Mark(t) \/ SignOk(t) \/ JobSelect(t)
  BY <1>1, <1>3 DEF Load, Mark, SignOk, JobSelect, Memory
<1>4. CASE Record(t) \/ \E err \in Error : SignFail(t, err)
  BY <1>1, <1>4, MemNow DEF Record, SignFail
<1>5. CASE JobWrite(t)
  <2>1. CASE mem' = [mem EXCEPT ![t] = [Locals(t, "defer")
                         EXCEPT !.bumped = NewJob(mem[t]).retries]]
    <3>1. mem'[t].now = Locals(t, "defer").now
      BY <1>1, <2>1 DEF Locals, Forgotten
    <3>2. QED
      BY <1>1, <3>1, MemNow
  <2>2. CASE mem' = [mem EXCEPT ![t] = Locals(t, mem[t].upsert)]
    BY <1>1, <2>2, MemNow
  <2>3. QED
    BY <1>2, <1>5, <2>1, <2>2 DEF JobWrite
<1>6. CASE Restore(t)
  BY <1>2, <1>6 DEF Restore
<1>7. CASE DbError(t) /\ ~Return(t)
  BY <1>1, <1>7, MemNow DEF DbError
<1>8. QED
  BY <1>2, <1>3, <1>4, <1>5, <1>6, <1>7 DEF RefreshStep, EngineStep, SignerStep

LEMMA RecordFresh ==
  ASSUME TypeOK, HasInstall, FreshInv, LockMeansSweep, NEW t \in Sweeper, Record(t)
  PROVE  FreshInv' /\ \A i \in Install : expiry'[i] >= expiry[i]
<1>1. t \in Task /\ pc[t] = "record" /\ inst[t] \in Install
  BY Tasks DEF Record, HasInstall
<1>2. expiry' = [expiry EXCEPT ![inst[t]] = mem[t].now + Lifetime]
  BY DEF Record, RecordInstall
<1>3. \A i \in Install : expiry[i] \in Int
  BY DEF TypeOK
<1>4. mem[t].now \in Nat /\ mem[t].now <= clock /\ clock \in Nat
  BY <1>1, MemNow DEF FreshInv, TypeOK
<1>5. \A i \in Install : expiry'[i] >= expiry[i]
  BY <1>1, <1>2, <1>3, <1>4, TimeAssumption DEF FreshInv, TypeOK
<1>6. mem'[t].now = mem[t].now /\ clock' = clock
  BY RefreshKeepsNow DEF RefreshStep, EngineStep, SignerStep, Record
<1>7. \A u \in Sweeper : u # t => pc[u] = "idle" /\ pc'[u] = pc[u] /\ mem'[u] = mem[u]
  BY <1>1, OthersKeep, Tasks
     DEF Same, LockMeansSweep, RefreshStep, EngineStep, SignerStep
<1>8. \A i \in Install : expiry'[i] <= mem[t].now + Lifetime
  BY <1>1, <1>2, <1>3, <1>4, TimeAssumption DEF FreshInv, TypeOK
<1>9. \A i \in Install : expiry'[i] \in Int
  BY <1>1, <1>2, <1>3, <1>4, TimeAssumption DEF TypeOK
<1>10. FreshInv'
  BY <1>1, <1>4, <1>6, <1>7, <1>8, <1>9, TimeAssumption DEF FreshInv
<1>11. QED
  BY <1>5, <1>10

LEMMA SweepFresh ==
  ASSUME TypeOK, FreshInv, NEW t \in Sweeper, Sweep(t)
  PROVE  FreshInv' /\ expiry' = expiry
<1> USE DEF rowVars
<1>1. t \in Task /\ mem \in [Task -> Memory] /\ clock \in Nat /\ Sweeper \subseteq Task
  BY Tasks DEF TypeOK
<1>2. \A u \in Sweeper : u # t => pc'[u] = pc[u] /\ mem'[u].now = mem[u].now
  BY <1>1 DEF Sweep, SweepStart, TakeDue, SweepEnd, Goto, TypeOK
<1>3. clock' = clock /\ expiry' = expiry
  BY DEF Sweep, SweepStart, TakeDue, SweepEnd
<1>4. CASE SweepStart(t)
  <2>1. mem'[t].now = clock
    BY <1>1, <1>4 DEF SweepStart, Memory
  <2>2. QED
    BY <1>2, <1>3, <2>1, <1>1 DEF FreshInv
<1>5. CASE TakeDue(t)
  <2>1. mem' = mem /\ pc[t] # "idle"
    BY <1>5 DEF TakeDue
  <2>2. QED
    BY <1>2, <1>3, <2>1 DEF FreshInv
<1>6. CASE SweepEnd(t)
  <2>1. mem'[t].now = 0 /\ pc'[t] = "idle"
    BY <1>1, <1>6, MemNow DEF SweepEnd, Goto, TypeOK
  <2>2. QED
    BY <1>1, <1>2, <1>3, <2>1 DEF FreshInv
<1>7. QED
  BY <1>3, <1>4, <1>5, <1>6 DEF Sweep

LEMMA FreshStep ==
  ASSUME UiRefresh = {}, UiInstall = {},
         TypeOK, HasInstall, LockMeansSweep, FreshInv, [Next]_vars
  PROVE  FreshInv' /\ \A i \in Install : expiry'[i] >= expiry[i]
<1>1. \A i \in Install : expiry[i] \in Int
  BY DEF TypeOK
<1>2. ASSUME SameExpiry PROVE FreshInv' /\ \A i \in Install : expiry'[i] >= expiry[i]
  BY <1>1, <1>2, SameExpiryKeeps DEF SameExpiry
<1>3. clock \in Nat /\ \A t \in Task : mem[t].now \in Nat
  BY MemNow DEF TypeOK
<1>4. CASE Tick
  <2>1. /\ clock' = clock + 1 /\ expiry' = expiry /\ mem' = mem /\ pc' = pc
    BY <1>4 DEF Tick, rowVars, taskVars
  <2>2. QED
    BY <1>1, <1>3, <2>1, Tasks, TimeAssumption DEF FreshInv
<1>5. CASE UNCHANGED vars
  BY <1>1, <1>5 DEF vars, rowVars, taskVars, FreshInv
<1>6. CASE \E t \in Sweeper : Sweep(t)
  BY <1>1, <1>6, SweepFresh
<1>7. ASSUME NEW t \in Sweeper, RefreshStep(t), ~Record(t)
      PROVE  SameExpiry
  <2>1. t \in Task /\ pc[t] # "idle" /\ mem'[t].now = mem[t].now
    BY <1>7, Tasks, RefreshKeepsNow, RefreshKeepsLock DEF KeepsLock
  <2>2. \A u \in Sweeper : u # t => /\ pc'[u] = pc[u]
                                    /\ mem'[u] = mem[u]
                                    /\ mem[u].now <= clock
    BY <1>7, <2>1, Tasks, OthersKeep DEF Same, FreshInv
  <2>3. expiry' = expiry /\ clock' = clock
    BY <1>7 DEF RefreshStep, EngineStep, SignerStep,
                Load, Mark, SignOk, SignFail, JobSelect, JobWrite,
                Restore, rowVars
  <2>4. QED
    BY <2>1, <2>2, <2>3 DEF SameExpiry
<1>8. ASSUME NEW t \in Sweeper, DbError(t) PROVE SameExpiry
  <2>1. t \in Task /\ pc[t] # "idle" /\ mem'[t].now = mem[t].now
    BY <1>8, Tasks, RefreshKeepsNow, ErrorKeepsLock DEF KeepsLock
  <2>2. \A u \in Sweeper : u # t => /\ pc'[u] = pc[u]
                                    /\ mem'[u] = mem[u]
                                    /\ mem[u].now <= clock
    BY <1>8, <2>1, Tasks, OthersKeep DEF Same, FreshInv
  <2>3. QED
    BY <1>8, <2>1, <2>2 DEF SameExpiry, DbError, rowVars
<1>9. ASSUME NEW ts \in SUBSET Task, Crash(ts) PROVE SameExpiry
  <2>1. \A u \in Sweeper : u \in ts => pc'[u] = "idle" /\ mem'[u].now = 0
    BY <1>9, Tasks DEF Crash, Forgotten
  <2>2. \A u \in Sweeper : u \notin ts => pc'[u] = pc[u] /\ mem'[u] = mem[u]
    BY <1>9, Tasks DEF Crash
  <2>3. \A u \in Sweeper : mem[u].now <= clock
    BY DEF FreshInv
  <2>4. expiry' = expiry /\ clock' = clock
    BY <1>9 DEF Crash, rowVars
  <2>5. QED
    BY <1>3, <2>1, <2>2, <2>3, <2>4 DEF SameExpiry
<1>10. Task = Sweeper
  BY DEF Task, UiTask, Sweeper
<1>11. ASSUME NEW t \in Sweeper, RefreshStep(t)
       PROVE  FreshInv' /\ \A i \in Install : expiry'[i] >= expiry[i]
  BY <1>2, <1>7, <1>11, RecordFresh
<1>12. CASE \E run \in orphans : OrphanEnds(run)
  BY <1>1, <1>12, OrphanApart DEF FreshInv
<1>13. QED
  BY <1>2, <1>4, <1>5, <1>6, <1>8, <1>9, <1>10, <1>11, <1>12, Tasks DEF Next

\* FreshInv is an invariant of the specification.
LEMMA FreshInvariant ==
  ASSUME UiRefresh = {}, UiInstall = {} PROVE Spec => []FreshInv
<1>1. Init => FreshInv
  BY TimeAssumption, Tasks DEF Init, FreshInv, Forgotten
<1>2. TypeOK /\ HasInstall /\ LockMeansSweep /\ FreshInv /\ [Next]_vars => FreshInv'
  BY FreshStep
<1>3. QED
  BY <1>1, <1>2, TypeCorrect, LockMutex, PTL DEF Spec

\* With every refresh and no install beside the sweeps, no write of the inventory
\* takes back time: the `now` of a sweep is never older than the last one's, even
\* though it is read before the lock and used for every item of the list.
THEOREM NeverShrinks ==
  ASSUME UiRefresh = {}, UiInstall = {} PROVE Spec => ExpiryNeverShrinks
<1>1. TypeOK /\ HasInstall /\ LockMeansSweep /\ FreshInv /\ [Next]_vars
         => [\A i \in Install : expiry'[i] >= expiry[i]]_expiry
  BY FreshStep
<1>2. QED
  BY <1>1, FreshInvariant, TypeCorrect, LockMutex, PTL DEF Spec, ExpiryNeverShrinks

=============================================================================
