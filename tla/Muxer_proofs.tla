----------------------------- MODULE Muxer_proofs -----------------------------
(***************************************************************************)
(* Type correctness of the Wi-Fi transport, the lock around its supervised *)
(* bridge, and the promise that an on-demand process leaves none behind,   *)
(* for any processes, flows and phones and with every fault.               *)
(***************************************************************************)
EXTENDS Muxer, TLAPS

LEMMA FlowFacts ==
    /\ \A f \in Flow : ProcOf[f] \in Proc
    /\ \A f \in Flow : Return(f) \in {"next", "idle"}
    /\ \A f \in Flow : AfterShutdown(f) \in {"exit", "idle"}
    /\ None \notin Flow /\ None \notin Device
  BY FlowAssumption DEF Return, AfterShutdown

LEMMA RoutedTypes ==
    ASSUME TypeOK, NEW f \in Flow, Routed(f)
    PROVE  TypeOK'
  BY DEF TypeOK, Routed, Location

LEMMA SuperviseTypes ==
    ASSUME TypeOK, NEW p \in Proc, NEW c \in BridgeState, Supervise(p, c)
    PROVE  /\ bridge' \in [Proc -> BridgeState] /\ sees' \subseteq Device
           /\ via' \in [Flow -> {"none", "usb", "wifi", "cut"}]
           /\ \A g \in Flow : via'[g] = "none" <=> via[g] = "none"
  BY DEF TypeOK, Supervise, PortCloses

LEMMA BeginTypes ==
    ASSUME TypeOK, NEW f \in Flow, Begin(f)
    PROVE  TypeOK'
<1>1. ASSUME NEW d \in Device, RouteStart(f, d) PROVE TypeOK'
  BY <1>1 DEF TypeOK, RouteStart, Location, Asking
<1>2. CASE ResolveStart(f) \/ SweepStart(f) \/ AppExit(f)
  BY <1>2 DEF TypeOK, ResolveStart, SweepStart, AppExit, At, Location, Asking, Stopping
<1> QED BY <1>1, <1>2 DEF Begin

LEMMA AskTypes ==
    ASSUME TypeOK, NEW f \in Flow, Ask(f) \/ Acquire(f)
    PROVE  TypeOK'
<1>1. CASE Reuse(f) BY <1>1, RoutedTypes DEF Reuse
<1>2. CASE Unserved(f) \/ Connect(f)
  BY <1>2 DEF TypeOK, Unserved, Connect, At, Location, Asking
<1>3. CASE Lock(f) \/ Kill(f)
  BY <1>3, FlowFacts DEF TypeOK, Lock, Kill, At, Location, Asking, Stopping
<1>4. CASE NothingToStop(f)
  BY <1>4, FlowFacts DEF TypeOK, NothingToStop, At, Location
<1> QED BY <1>1, <1>2, <1>3, <1>4 DEF Ask, Acquire

LEMMA EnsureTypes ==
    ASSUME TypeOK, NEW f \in Flow, Ensure(f)
    PROVE  TypeOK'
<1>1. CASE Recheck(f)
  BY <1>1, FlowFacts DEF TypeOK, Recheck, Unlock, At, Location, Asking
<1>2. CASE Spawn(f)
  <2>1. "starting" \in BridgeState BY DEF BridgeState
  <2>2. Supervise(ProcOf[f], "starting") BY <1>2 DEF Spawn
  <2> QED BY <1>2, <2>1, <2>2, SuperviseTypes, FlowFacts DEF TypeOK, Spawn, Unlock, At, Location, Asking
<1>3. CASE SpawnFail(f)
  BY <1>3, FlowFacts DEF TypeOK, SpawnFail, Unlock, At, Location
<1> QED BY <1>1, <1>2, <1>3 DEF Ensure

LEMMA WaitTypes ==
    ASSUME TypeOK, NEW f \in Flow, Wait(f)
    PROVE  TypeOK'
<1>1. CASE Found(f) BY <1>1, RoutedTypes DEF Found
<1>2. CASE GiveUp(f)
  BY <1>2, FlowFacts DEF TypeOK, GiveUp, At, Location
<1>3. CASE AnyFound(f)
  BY <1>3 DEF TypeOK, AnyFound, At, Location
<1>4. CASE NoneFound(f)
  BY <1>4, FlowFacts DEF TypeOK, NoneFound, At, Location, Stopping
<1> QED BY <1>1, <1>2, <1>3, <1>4 DEF Wait

LEMMA DieTypes ==
    ASSUME TypeOK, NEW p \in Proc, Die(p)
    PROVE  TypeOK'
<1>1. bridge' \in [Proc -> BridgeState] /\ stray' \in BridgeState
  BY DEF TypeOK, Die, BridgeState
<1>2. usb' \subseteq Device /\ sees' \subseteq Device
  BY DEF TypeOK, Die
<1>3. mutex' \in [Proc -> Flow \cup {None}] /\ cache' \in [Proc -> SUBSET Device]
  BY DEF TypeOK, Die
<1>4. pc' \in [Flow -> Location] /\ target' \in [Flow -> Device \cup {None}]
  BY DEF TypeOK, Die, Location
<1>5. /\ via' \in [Flow -> {"none", "usb", "wifi", "cut"}]
      /\ \A f \in Flow : via'[f] # "none" <=> pc'[f] = "use"
  BY DEF TypeOK, Die
<1> QED BY <1>1, <1>2, <1>3, <1>4, <1>5 DEF TypeOK

LEMMA RestTypes ==
    ASSUME TypeOK, NEW f \in Flow,
           Used(f) \/ Enumerate(f) \/ SweepDone(f) \/ Reap(f) \/ Terminate(f)
    PROVE  TypeOK'
<1>1. CASE Used(f)
  BY <1>1, FlowFacts DEF TypeOK, Used, At, Location
<1>2. CASE Enumerate(f)
  BY <1>2, FlowFacts DEF TypeOK, Enumerate, At, Location, Stopping
<1>3. CASE SweepDone(f)
  BY <1>3 DEF TypeOK, SweepDone, At, Location, Stopping
<1>4. CASE Reap(f)
  <2>1. "none" \in BridgeState BY DEF BridgeState
  <2>2. Supervise(ProcOf[f], "none") BY <1>4 DEF Reap
  <2> QED BY <1>4, <2>1, <2>2, SuperviseTypes, FlowFacts DEF TypeOK, Reap, Unlock, At, Location
<1>5. CASE Terminate(f) BY <1>5, DieTypes, FlowFacts DEF Terminate
<1> QED BY <1>1, <1>2, <1>3, <1>4, <1>5

LEMMA WorldTypes ==
    ASSUME TypeOK, World
    PROVE  TypeOK'
<1>1. ASSUME NEW p \in Proc, Listen(p) PROVE TypeOK'
  BY <1>1 DEF TypeOK, Listen, BridgeState
<1>2. ASSUME NEW p \in Proc, BridgeExit(p) PROVE TypeOK'
  <2>1. "none" \in BridgeState BY DEF BridgeState
  <2>2. Supervise(p, "none") BY <1>2 DEF BridgeExit
  <2> QED BY <1>2, <2>1, <2>2, SuperviseTypes DEF TypeOK, BridgeExit
<1>3. ASSUME NEW p \in Proc, Crash(p) PROVE TypeOK'
  BY <1>3, DieTypes DEF Crash
<1>4. CASE StrayListens
  BY <1>4 DEF TypeOK, StrayListens, BridgeState
<1>5. CASE StrayExit
  BY <1>5 DEF TypeOK, StrayExit, PortCloses, BridgeState
<1>6. ASSUME NEW d \in Device, Discover(d) \/ Vanish(d) \/ Plug(d) PROVE TypeOK'
  BY <1>6 DEF TypeOK, Discover, Vanish, Plug
<1> QED BY <1>1, <1>2, <1>3, <1>4, <1>5, <1>6 DEF World

LEMMA InitTypes == Init => TypeOK
  BY DEF Init, TypeOK, BridgeState, Location

LEMMA StepTypes == TypeOK /\ [Next]_vars => TypeOK'
<1> SUFFICES ASSUME TypeOK, [Next]_vars PROVE TypeOK'
  OBVIOUS
<1>1. ASSUME NEW f \in Flow, FlowStep(f) PROVE TypeOK'
  BY <1>1, BeginTypes, AskTypes, EnsureTypes, WaitTypes, RestTypes DEF FlowStep
<1>2. CASE World BY <1>2, WorldTypes
<1>3. CASE UNCHANGED vars
  BY <1>3 DEF TypeOK, vars
<1> QED BY <1>1, <1>2, <1>3 DEF Next

\* Every variable of the transport keeps its type, and a route lives exactly as
\* long as the signing run it was asked for (route_to and its callers).
THEOREM TypeCorrect == Spec => []TypeOK
  BY InitTypes, StepTypes, PTL DEF Spec

-----------------------------------------------------------------------------
(***************************************************************************)
(* The lock.  A step of a flow outside the two guarded stretches leaves    *)
(* every guard alone; Lock and Kill enter one, the others leave it.        *)
(***************************************************************************)

LEMMA QuietStep ==
    ASSUME TypeOK, LockedWhileChanging, NEW f \in Flow, UNCHANGED mutex,
           pc[f] \notin {"ensure", "reap"},
           \A g \in Flow \ {f} : pc'[g] = pc[g],
           pc'[f] \notin {"ensure", "reap"}
    PROVE  LockedWhileChanging'
<1>1. \A g \in Flow : pc'[g] \in {"ensure", "reap"} => pc[g] = pc'[g] /\ g # f
  OBVIOUS
<1>2. \A p \in Proc : mutex[p] # None => mutex[p] \in Flow /\ mutex[p] # f
  BY DEF TypeOK, LockedWhileChanging
<1> QED BY <1>1, <1>2 DEF LockedWhileChanging

LEMMA GuardTaken ==
    ASSUME TypeOK, LockedWhileChanging, NEW f \in Flow, NEW l \in {"ensure", "reap"},
           mutex[ProcOf[f]] = None, mutex' = [mutex EXCEPT ![ProcOf[f]] = f],
           pc' = [pc EXCEPT ![f] = l]
    PROVE  LockedWhileChanging'
<1>1. \A g \in Flow : pc'[g] \in {"ensure", "reap"} => mutex'[ProcOf[g]] = g
  <2> TAKE g \in Flow
  <2>1. CASE g = f BY <2>1, FlowFacts DEF TypeOK
  <2>2. CASE g # f
    BY <2>2, FlowFacts DEF TypeOK, LockedWhileChanging
  <2> QED BY <2>1, <2>2
<1>2. \A p \in Proc : mutex'[p] # None =>
        ProcOf[mutex'[p]] = p /\ pc'[mutex'[p]] \in {"ensure", "reap"}
  <2> TAKE p \in Proc
  <2>1. CASE p = ProcOf[f] BY <2>1, FlowFacts DEF TypeOK
  <2>2. CASE p # ProcOf[f]
    <3>1. mutex'[p] = mutex[p] BY <2>2 DEF TypeOK
    <3>2. mutex[p] # None => mutex[p] \in Flow /\ mutex[p] # f
      BY <2>2 DEF TypeOK, LockedWhileChanging
    <3> QED BY <3>1, <3>2 DEF TypeOK, LockedWhileChanging
  <2> QED BY <2>1, <2>2
<1> QED BY <1>1, <1>2 DEF LockedWhileChanging

LEMMA GuardGivenBack ==
    ASSUME TypeOK, LockedWhileChanging, NEW f \in Flow,
           pc[f] \in {"ensure", "reap"}, Unlock(f),
           NEW l \in Location \ {"ensure", "reap"}, pc' = [pc EXCEPT ![f] = l]
    PROVE  LockedWhileChanging'
<1>1. mutex[ProcOf[f]] = f BY DEF LockedWhileChanging
<1>2. \A g \in Flow : pc'[g] \in {"ensure", "reap"} => mutex'[ProcOf[g]] = g
  <2> TAKE g \in Flow
  <2>1. CASE g = f BY <2>1 DEF TypeOK
  <2>2. CASE g # f BY <1>1, <2>2 DEF TypeOK, LockedWhileChanging, Unlock
  <2> QED BY <2>1, <2>2
<1>3. \A p \in Proc : mutex'[p] # None =>
        ProcOf[mutex'[p]] = p /\ pc'[mutex'[p]] \in {"ensure", "reap"}
  <2> SUFFICES ASSUME NEW p \in Proc, mutex'[p] # None
               PROVE  ProcOf[mutex'[p]] = p /\ pc'[mutex'[p]] \in {"ensure", "reap"}
    OBVIOUS
  <2>1. p # ProcOf[f] BY FlowFacts DEF TypeOK, Unlock
  <2>2. mutex'[p] = mutex[p] BY <2>1 DEF TypeOK, Unlock
  <2>3. mutex[p] \in Flow /\ mutex[p] # f
    BY <2>1, <2>2 DEF TypeOK, LockedWhileChanging
  <2> QED BY <2>2, <2>3 DEF TypeOK, LockedWhileChanging
<1> QED BY <1>2, <1>3 DEF LockedWhileChanging

LEMMA DieUnlocks ==
    ASSUME TypeOK, LockedWhileChanging, NEW p \in Proc, Die(p)
    PROVE  LockedWhileChanging'
<1>1. \A f \in Flow : pc'[f] = IF ProcOf[f] = p THEN "idle" ELSE pc[f]
  BY DEF Die
<1>2. \A q \in Proc : mutex'[q] = IF q = p THEN None ELSE mutex[q]
  BY DEF Die, TypeOK
<1>3. \A q \in Proc : mutex[q] # None => mutex[q] \in Flow
  BY DEF TypeOK
<1> QED BY <1>1, <1>2, <1>3, FlowFacts DEF LockedWhileChanging

LEMMA InitLocked == Init => LockedWhileChanging
  BY FlowFacts DEF Init, LockedWhileChanging

LEMMA FlowLocked ==
    ASSUME TypeOK, LockedWhileChanging, NEW f \in Flow, FlowStep(f)
    PROVE  LockedWhileChanging'
<1>1. CASE Begin(f)
  <2>1. ASSUME NEW d \in Device, RouteStart(f, d) PROVE LockedWhileChanging'
    <3>1. pc[f] \in {"idle", "next"} /\ UNCHANGED mutex BY <2>1 DEF RouteStart
    <3>2. /\ \A g \in Flow \ {f} : pc'[g] = pc[g]
          /\ pc'[f] \in {"use", "ask"}
      BY <2>1 DEF RouteStart, TypeOK
    <3> QED BY <3>1, <3>2, QuietStep
  <2>2. CASE ResolveStart(f) \/ SweepStart(f) \/ AppExit(f)
    <3>1. /\ pc[f] = "idle" /\ UNCHANGED mutex
          /\ \A g \in Flow \ {f} : pc'[g] = pc[g]
          /\ pc'[f] \in {"connect", "next", "down"}
      BY <2>2 DEF ResolveStart, SweepStart, AppExit, At, TypeOK
    <3> QED BY <3>1, QuietStep
  <2> QED BY <1>1, <2>1, <2>2 DEF Begin
<1>2. CASE Ask(f) \/ Wait(f)
  <2>1. /\ pc[f] \in {"ask", "connect", "wait"} /\ UNCHANGED mutex
        /\ \A g \in Flow \ {f} : pc'[g] = pc[g]
        /\ pc'[f] \in {"use", "connect", "wait", "lock", "idle", "next", "enumerate", "down"}
    BY <1>2, FlowFacts DEF Ask, Wait, Reuse, Unserved, Connect, Found, Routed, GiveUp,
       AnyFound, NoneFound, At, TypeOK
  <2> QED BY <2>1, QuietStep
<1>3. CASE Used(f) \/ Enumerate(f) \/ SweepDone(f) \/ NothingToStop(f)
  <2>1. /\ pc[f] \in {"use", "enumerate", "next", "down"} /\ UNCHANGED mutex
        /\ \A g \in Flow \ {f} : pc'[g] = pc[g]
        /\ pc'[f] \in {"idle", "next", "down", "exit"}
    BY <1>3, FlowFacts DEF Used, Enumerate, SweepDone, NothingToStop, At, TypeOK
  <2> QED BY <2>1, QuietStep
<1>4. CASE Lock(f) BY <1>4, GuardTaken DEF Lock, At
<1>5. CASE Kill(f) BY <1>5, GuardTaken DEF Kill, At
<1>6. CASE Ensure(f)
  <2>1. pc[f] = "ensure" /\ Unlock(f)
    BY <1>6 DEF Ensure, Recheck, Spawn, SpawnFail, At
  <2>2. PICK l \in {"wait", "idle", "next"} : pc' = [pc EXCEPT ![f] = l]
    BY <1>6, FlowFacts DEF Ensure, Recheck, Spawn, SpawnFail, At
  <2>3. l \in Location \ {"ensure", "reap"} BY DEF Location, Asking
  <2> QED BY <2>1, <2>2, <2>3, GuardGivenBack
<1>7. CASE Reap(f)
  <2>1. AfterShutdown(f) \in Location \ {"ensure", "reap"}
    BY FlowFacts DEF Location
  <2> QED BY <1>7, <2>1, GuardGivenBack DEF Reap, At
<1>8. CASE Terminate(f) BY <1>8, DieUnlocks, FlowFacts DEF Terminate
<1> QED BY <1>1, <1>2, <1>3, <1>4, <1>5, <1>6, <1>7, <1>8 DEF FlowStep, Acquire

LEMMA StepLocked ==
    TypeOK /\ LockedWhileChanging /\ [Next]_vars => LockedWhileChanging'
<1> SUFFICES ASSUME TypeOK, LockedWhileChanging, [Next]_vars
             PROVE  LockedWhileChanging'
  OBVIOUS
<1>1. ASSUME NEW f \in Flow, FlowStep(f) PROVE LockedWhileChanging'
  BY <1>1, FlowLocked
<1>2. CASE World
  <2>1. ASSUME NEW p \in Proc, Crash(p) PROVE LockedWhileChanging'
    BY <2>1, DieUnlocks DEF Crash
  <2>2. CASE UNCHANGED <<mutex, pc>> BY <2>2 DEF LockedWhileChanging
  <2> QED BY <1>2, <2>1, <2>2 DEF World, Listen, BridgeExit, StrayListens, StrayExit,
             Discover, Vanish, Plug
<1>3. CASE UNCHANGED vars BY <1>3 DEF vars, LockedWhileChanging
<1> QED BY <1>1, <1>2, <1>3 DEF Next

\* The supervised child changes hands one flow at a time: the guard is held just
\* while a flow re-checks and spawns, or reaps what it killed (muxer.rs:129-143
\* and 264-269), whichever return it leaves by and whoever dies meanwhile.
THEOREM LockGuards == Spec => []LockedWhileChanging
<1>1. Init => TypeOK /\ LockedWhileChanging BY InitTypes, InitLocked
<1>2. (TypeOK /\ LockedWhileChanging) /\ [Next]_vars => (TypeOK /\ LockedWhileChanging)'
  BY StepTypes, StepLocked
<1> QED BY <1>1, <1>2, PTL DEF Spec

-----------------------------------------------------------------------------
(***************************************************************************)
(* On demand.  A keeper is a flow that will still call shutdown, if it was *)
(* the one to find or start the bridge: a sweep at work, a resolve past    *)
(* ensure_netmuxd, an exit.  A resolve before that may still fail and      *)
(* return, so NothingLingers alone is not inductive.                       *)
(***************************************************************************)

Keeper(f) ==
    \/ f \in Sweep \cup Exit /\ pc[f] # "idle"
    \/ f \in Resolver /\ pc[f] \in {"wait", "enumerate", "down", "reap"}

Kept ==
    \A p \in Proc : OnDemand(p) =>
        bridge[p] = "none" \/ \E f \in Flow : ProcOf[f] = p /\ Keeper(f)

\* The exit of the app goes through shutdown and nothing else.
ExitPath == \A f \in Exit : pc[f] \in {"idle", "down", "reap", "exit"}

LEMMA KeptStays ==
    ASSUME Kept,
           \A p \in Proc : bridge'[p] \in {bridge[p], "none"},
           \A f \in Flow : Keeper(f) => Keeper(f)'
    PROVE  Kept'
  BY DEF Kept, OnDemand

\* A keeper keeps on until its own shutdown is over: only its last step matters.
LEMMA OthersKeep ==
    ASSUME NEW f \in Flow, \A g \in Flow \ {f} : pc'[g] = pc[g],
           Keeper(f) => Keeper(f)'
    PROVE  \A g \in Flow : Keeper(g) => Keeper(g)'
<1> TAKE g \in Flow
<1>1. CASE g = f BY <1>1
<1>2. CASE g # f BY <1>2 DEF Keeper
<1> QED BY <1>1, <1>2

\* The last step of a shutdown: the slot of its process is empty.
LEMMA KeptEmpties ==
    ASSUME Kept, NEW p \in Proc, bridge'[p] = "none",
           \A q \in Proc \ {p} : bridge'[q] = bridge[q],
           \A g \in Flow : ProcOf[g] # p => pc'[g] = pc[g]
    PROVE  Kept'
<1> SUFFICES ASSUME NEW q \in Proc, OnDemand(q), bridge'[q] # "none"
             PROVE  \E g \in Flow : ProcOf[g] = q /\ Keeper(g)'
  BY DEF Kept, OnDemand
<1>1. q # p /\ bridge[q] # "none" OBVIOUS
<1>2. PICK g \in Flow : ProcOf[g] = q /\ Keeper(g) BY <1>1 DEF Kept
<1> QED BY <1>1, <1>2 DEF Keeper

LEMMA SpawnKept ==
    ASSUME TypeOK, Kept, NEW f \in Flow, Spawn(f)
    PROVE  Kept'
<1>1. /\ \A g \in Flow \ {f} : pc'[g] = pc[g]
      /\ pc'[f] = "wait" /\ pc[f] = "ensure"
      /\ \A q \in Proc : q # ProcOf[f] => bridge'[q] = bridge[q]
  BY DEF TypeOK, Spawn, At, Supervise
<1>2. f \notin Route => Keeper(f)' BY <1>1 DEF Keeper, Flow
<1>3. Keeper(f) => Keeper(f)' BY <1>1 DEF Keeper
<1>4. \A g \in Flow : Keeper(g) => Keeper(g)' BY <1>1, <1>3, OthersKeep
<1> SUFFICES ASSUME NEW p \in Proc, OnDemand(p), bridge'[p] # "none"
             PROVE  \E g \in Flow : ProcOf[g] = p /\ Keeper(g)'
  BY DEF Kept, OnDemand
<1>5. CASE p = ProcOf[f] BY <1>2, <1>5 DEF OnDemand
<1>6. CASE p # ProcOf[f] BY <1>1, <1>4, <1>6 DEF Kept
<1> QED BY <1>5, <1>6

\* The steps of a flow that neither start nor end a child.
LEMMA FlowKept ==
    ASSUME TypeOK, Kept, ExitPath, NEW f \in Flow, FlowStep(f)
    PROVE  Kept'
<1>1. CASE Begin(f)
  <2>1. ASSUME NEW d \in Device, RouteStart(f, d)
        PROVE  /\ UNCHANGED bridge /\ \A g \in Flow \ {f} : pc'[g] = pc[g]
               /\ Keeper(f) => Keeper(f)'
    BY <2>1, FlowAssumption DEF RouteStart, TypeOK, Keeper
  <2>2. ASSUME ResolveStart(f) \/ SweepStart(f) \/ AppExit(f)
        PROVE  /\ UNCHANGED bridge /\ \A g \in Flow \ {f} : pc'[g] = pc[g]
               /\ Keeper(f) => Keeper(f)'
    BY <2>2 DEF ResolveStart, SweepStart, AppExit, At, TypeOK, Keeper
  <2>3. /\ UNCHANGED bridge /\ \A g \in Flow \ {f} : pc'[g] = pc[g]
        /\ Keeper(f) => Keeper(f)'
    BY <1>1, <2>1, <2>2 DEF Begin
  <2> QED BY <2>3, OthersKeep, KeptStays
<1>2. CASE Ask(f) \/ Wait(f) \/ Used(f)
  <2>1. /\ UNCHANGED bridge /\ \A g \in Flow \ {f} : pc'[g] = pc[g]
        /\ pc[f] \in {"ask", "connect", "wait", "use"}
        /\ pc'[f] \in {"use", "connect", "wait", "lock", Return(f), "enumerate", "down"}
        /\ pc[f] = "wait" /\ f \in Resolver => pc'[f] \in {"enumerate", "down"}
    BY <1>2, FlowAssumption DEF Ask, Wait, Used, Reuse, Unserved, Connect, Found, Routed,
       GiveUp, AnyFound, NoneFound, At, TypeOK
  <2>2. Keeper(f) => Keeper(f)'
    BY <2>1, FlowAssumption DEF Keeper, Return, ExitPath
  <2> QED BY <2>1, <2>2, OthersKeep, KeptStays
<1>3. CASE Lock(f) \/ Kill(f) \/ Enumerate(f) \/ SweepDone(f)
  <2>1. /\ UNCHANGED bridge /\ \A g \in Flow \ {f} : pc'[g] = pc[g]
        /\ \/ pc[f] = "lock" /\ pc'[f] = "ensure"
           \/ pc[f] \in {"down", "enumerate", "next"} /\ pc'[f] \in {"reap", "down"}
    BY <1>3 DEF Lock, Kill, Enumerate, SweepDone, At, TypeOK
  <2>2. Keeper(f) => Keeper(f)' BY <2>1 DEF Keeper
  <2> QED BY <2>1, <2>2, OthersKeep, KeptStays
<1>4. CASE Recheck(f) \/ SpawnFail(f)
  <2>1. /\ UNCHANGED bridge /\ \A g \in Flow \ {f} : pc'[g] = pc[g]
        /\ pc[f] = "ensure" /\ pc'[f] \in {"wait", Return(f)}
    BY <1>4 DEF Recheck, SpawnFail, At, TypeOK
  <2>2. Keeper(f) => Keeper(f)' BY <2>1 DEF Keeper, Return, ExitPath
  <2> QED BY <2>1, <2>2, OthersKeep, KeptStays
<1>5. CASE Spawn(f) BY <1>5, SpawnKept
<1>6. CASE NothingToStop(f) \/ Reap(f)
  <2>1. /\ bridge'[ProcOf[f]] = "none"
        /\ \A q \in Proc \ {ProcOf[f]} : bridge'[q] = bridge[q]
        /\ \A g \in Flow : ProcOf[g] # ProcOf[f] => pc'[g] = pc[g]
    BY <1>6, FlowFacts DEF NothingToStop, Reap, Supervise, At, TypeOK
  <2> QED BY <2>1, FlowFacts, KeptEmpties
<1>7. CASE Terminate(f)
  <2>1. /\ bridge'[ProcOf[f]] = "none"
        /\ \A q \in Proc \ {ProcOf[f]} : bridge'[q] = bridge[q]
        /\ \A g \in Flow : ProcOf[g] # ProcOf[f] => pc'[g] = pc[g]
    BY <1>7, FlowFacts DEF Terminate, Die, TypeOK
  <2> QED BY <2>1, FlowFacts, KeptEmpties
<1> QED BY <1>1, <1>2, <1>3, <1>4, <1>5, <1>6, <1>7 DEF FlowStep, Acquire, Ensure

LEMMA WorldKept ==
    ASSUME TypeOK, Kept, World
    PROVE  Kept'
<1>1. ASSUME NEW p \in Proc, Listen(p) PROVE Kept'
  <2>1. /\ UNCHANGED pc /\ bridge[p] # "none"
        /\ \A q \in Proc \ {p} : bridge'[q] = bridge[q]
    BY <1>1 DEF Listen, TypeOK
  <2>2. \A q \in Proc : bridge'[q] # "none" => bridge[q] # "none" BY <2>1
  <2> QED BY <2>1, <2>2 DEF Kept, Keeper, OnDemand
<1>2. ASSUME NEW p \in Proc, BridgeExit(p) \/ Crash(p) PROVE Kept'
  <2>1. /\ bridge'[p] = "none"
        /\ \A q \in Proc \ {p} : bridge'[q] = bridge[q]
        /\ \A g \in Flow : ProcOf[g] # p => pc'[g] = pc[g]
    BY <1>2 DEF BridgeExit, Supervise, Crash, Die, TypeOK
  <2> QED BY <2>1, KeptEmpties
<1>3. CASE UNCHANGED <<bridge, pc>> BY <1>3 DEF Kept, Keeper, OnDemand
<1> QED BY <1>1, <1>2, <1>3 DEF World, StrayListens, StrayExit, Discover, Vanish, Plug

LEMMA ExitStep ==
    ASSUME TypeOK, ExitPath, [Next]_vars
    PROVE  ExitPath'
<1>1. ASSUME NEW f \in Flow, FlowStep(f) PROVE ExitPath'
  <2>1. ASSUME Terminate(f) PROVE ExitPath'
    BY <2>1 DEF Terminate, Die, ExitPath, Flow
  <2>2. ASSUME ~Terminate(f) PROVE \A g \in Flow \ {f} : pc'[g] = pc[g]
    BY <1>1, <2>2 DEF FlowStep, Begin, RouteStart, ResolveStart, SweepStart, AppExit, Ask,
       Acquire, Ensure, Wait, Reuse, Unserved, Connect, Lock, NothingToStop, Kill, Recheck,
       Spawn, SpawnFail, Found, Routed, GiveUp, AnyFound, NoneFound, Used, Enumerate,
       SweepDone, Reap, At, TypeOK
  <2>3. ASSUME ~Terminate(f), f \in Exit PROVE pc'[f] \in {"idle", "down", "reap", "exit"}
    <3>1. \/ AppExit(f) \/ NothingToStop(f) \/ Kill(f) \/ Reap(f)
      BY <1>1, <2>3, FlowAssumption DEF ExitPath, FlowStep, Begin, RouteStart, ResolveStart,
         SweepStart, Ask, Acquire, Ensure, Wait, Reuse, Unserved, Connect, Lock, Recheck,
         Spawn, SpawnFail, Found, Routed, GiveUp, AnyFound, NoneFound, Used, Enumerate,
         SweepDone, At
    <3> QED BY <3>1, FlowFacts DEF AppExit, NothingToStop, Kill, Reap, At, TypeOK,
               AfterShutdown
  <2> QED BY <2>1, <2>2, <2>3 DEF ExitPath, Flow
<1>2. ASSUME NEW p \in Proc, Crash(p) PROVE ExitPath'
  BY <1>2 DEF Crash, Die, ExitPath, Flow
<1>3. CASE UNCHANGED pc BY <1>3 DEF ExitPath
<1> QED BY <1>1, <1>2, <1>3 DEF Next, World, Listen, BridgeExit, StrayListens, StrayExit,
           Discover, Vanish, Plug, vars

\* A process all of whose flows tear their bridge down (the agent: main.rs:100-102)
\* has no child once they have returned, whether the sweep found its phone, gave
\* up, could not start netmuxd or lost it, and whoever else used the port.
THEOREM OnDemandOnly == Spec => []NothingLingers
<1> DEFINE IInv == TypeOK /\ ExitPath /\ Kept
<1>1. Init => IInv
  BY InitTypes DEF Init, Kept, ExitPath, Flow
<1>2. IInv /\ [Next]_vars => IInv'
  <2> SUFFICES ASSUME IInv, [Next]_vars PROVE Kept'
    BY StepTypes, ExitStep
  <2>1. CASE UNCHANGED vars BY <2>1 DEF vars, Kept, Keeper, OnDemand
  <2> QED BY <2>1, FlowKept, WorldKept DEF Next
<1>3. IInv => NothingLingers
  BY DEF Kept, Keeper, NothingLingers
<1> QED BY <1>1, <1>2, <1>3, PTL DEF Spec

-----------------------------------------------------------------------------
(***************************************************************************)
(* Routes.  A flow is cut off in the step that closes the port, and there  *)
(* are four of those: the reaping of a child, the end of a process that    *)
(* was reaping one, and the two ways a bridge exits on its own.            *)
(***************************************************************************)

CutNow == \E f \in Flow : via[f] # "cut" /\ via'[f] = "cut"

\* A flow that only sets its own route, and never to "cut", cuts nobody off.
LEMMA OwnRoute ==
    ASSUME TypeOK, NEW f \in Flow,
           \/ UNCHANGED via
           \/ \E r \in {"none", "usb", "wifi"} : via' = [via EXCEPT ![f] = r]
    PROVE  ~CutNow
  BY DEF TypeOK, CutNow

\* The end of a process closes the port only under a child it was reaping.
LEMMA DieCuts ==
    ASSUME TypeOK, NEW p \in Proc, Die(p), CutNow
    PROVE  BeingKilled(p) /\ bridge'[p] = "none"
<1>1. bridge'[p] = "none" BY DEF Die, TypeOK
<1>2. PICK f \in Flow : via[f] # "cut" /\ via'[f] = "cut" BY DEF CutNow
<1>3. \E g \in {h \in Flow : ProcOf[h] = p} : pc[g] = "reap"
  BY <1>2 DEF Die
<1> QED BY <1>1, <1>3 DEF BeingKilled

LEMMA FlowCuts ==
    ASSUME TypeOK, NEW f \in Flow, FlowStep(f), CutNow
    PROVE  BeingKilled(ProcOf[f]) /\ bridge'[ProcOf[f]] = "none"
<1>1. ProcOf[f] \in Proc BY FlowFacts
<1>2. CASE Begin(f)
  <2>1. \A d \in Device : RouteStart(f, d) =>
          UNCHANGED via \/ via' = [via EXCEPT ![f] = "usb"]
    BY DEF RouteStart
  <2>2. ResolveStart(f) \/ SweepStart(f) \/ AppExit(f) => UNCHANGED via
    BY DEF ResolveStart, SweepStart, AppExit
  <2> QED BY <1>2, <2>1, <2>2, OwnRoute DEF Begin
<1>3. CASE Ask(f) \/ Wait(f) \/ Used(f) \/ Acquire(f)
  <2>1. UNCHANGED via \/ via' = [via EXCEPT ![f] = "wifi"] \/ via' = [via EXCEPT ![f] = "none"]
    BY <1>3 DEF Ask, Wait, Used, Acquire, Reuse, Unserved, Connect, Lock, NothingToStop,
                Kill, Found, Routed, GiveUp, AnyFound, NoneFound
  <2> QED BY <2>1, OwnRoute
<1>4. CASE Ensure(f)
  <2>1. Spawn(f) => UNCHANGED via
    BY <1>1 DEF Spawn, Supervise, Listening
  <2>2. Recheck(f) \/ SpawnFail(f) => UNCHANGED via BY DEF Recheck, SpawnFail
  <2> QED BY <1>4, <2>1, <2>2, OwnRoute DEF Ensure
<1>5. CASE Enumerate(f) \/ SweepDone(f)
  BY <1>5, OwnRoute DEF Enumerate, SweepDone
<1>6. CASE Reap(f)
  BY <1>1, <1>6 DEF Reap, At, Supervise, BeingKilled, TypeOK
<1>7. CASE Terminate(f) BY <1>1, <1>7, DieCuts DEF Terminate
<1> QED BY <1>2, <1>3, <1>4, <1>5, <1>6, <1>7 DEF FlowStep

\* Whoever signs over a bridge keeps it until that bridge fails or a shutdown of
\* its owner kills it: the re-check under the lock (muxer.rs:129-136) keeps a
\* second flow, of any process, from replacing a bridge that is in use.
THEOREM OnlyShutdownCuts == Spec => CutOnlyByShutdown
<1> DEFINE Excused ==
             \/ StrayExit
             \/ \E p \in Proc : BridgeExit(p) \/ (BeingKilled(p) /\ bridge'[p] = "none")
<1>1. ASSUME TypeOK, Next, CutNow PROVE Excused
  <2>1. ASSUME NEW f \in Flow, FlowStep(f) PROVE Excused
    BY <1>1, <2>1, FlowCuts, FlowFacts
  <2>2. ASSUME NEW p \in Proc, Crash(p) PROVE Excused
    BY <1>1, <2>2, DieCuts DEF Crash
  <2>3. CASE UNCHANGED via BY <1>1, <2>3 DEF CutNow
  <2> QED BY <1>1, <2>1, <2>2, <2>3 DEF Next, World, Listen, StrayListens,
             Discover, Vanish, Plug
<1>2. TypeOK /\ Next =>
        ((\E f \in Flow : via[f] # "cut" /\ via'[f] = "cut") => Excused)
  BY <1>1 DEF CutNow
<1> QED BY <1>2, TypeCorrect, PTL DEF Spec, CutOnlyByShutdown
=============================================================================
