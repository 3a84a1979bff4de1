-------------------------------- MODULE Muxer --------------------------------
(***************************************************************************)
(* The Wi-Fi transport of reside-core: crates/core/src/transport/muxer.rs, *)
(* wifi_cache.rs and their callers in the app and in the agent.            *)
(*                                                                         *)
(* A flow is one call in flight: a signing run that asks route_to for a    *)
(* way to its phone, a Wi-Fi resolve, a sweep of the agent, or the exit of *)
(* the app.  A bridge is a netmuxd.  Each process supervises at most one,  *)
(* and whichever binds the one TCP port first serves every process.        *)
(***************************************************************************)
CONSTANTS
    Proc,      \* processes linked with reside-core: the app, an agent
    Route,     \* install_ipa, refresh_app: route_to, then the signer
    Resolver,  \* resolve_wifi_devices
    Sweep,     \* sweep_once: any number of routed runs, then shutdown
    Exit,      \* RunEvent::Exit: shutdown, then the process ends
    ProcOf,    \* [Flow -> Proc]
    Device,    \* phones
    Faults,    \* what may go wrong: "spawn", "bridge", "crash"
    None       \* no flow, no device

Flow == Route \cup Resolver \cup Sweep \cup Exit

ASSUME FlowAssumption ==
    /\ Route \cap (Resolver \cup Sweep \cup Exit) = {}
    /\ Resolver \cap (Sweep \cup Exit) = {} /\ Sweep \cap Exit = {}
    /\ ProcOf \in [Flow -> Proc]
    /\ None \notin Flow \cup Device

VARIABLES
    usb,      \* the phones the system usbmuxd lists
    bridge,   \* the child each process has in supervised()
    stray,    \* a netmuxd no process supervises: external, or orphaned
    sees,     \* the phones the bridge on the port has discovered
    mutex,    \* who holds supervised().lock() in each process
    cache,    \* wifi_cache of each process
    pc,       \* where each flow is
    target,   \* the phone a flow wants to reach
    via       \* what route_to answered; "cut" when that bridge has gone since

vars == <<usb, bridge, stray, sees, mutex, cache, pc, target, via>>

BridgeState == {"none", "starting", "listening"}
Asking   == {"ask", "connect", "lock", "ensure", "wait"}
Stopping == {"down", "reap"}
Location == Asking \cup Stopping \cup {"idle", "use", "next", "enumerate", "exit"}

Listening == stray = "listening" \/ \E p \in Proc : bridge[p] = "listening"

Init ==
    /\ usb \in SUBSET Device
    /\ bridge = [p \in Proc |-> "none"]
    /\ stray \in {"none", "listening"}
    /\ sees = {}
    /\ mutex = [p \in Proc |-> None]
    /\ cache = [p \in Proc |-> {}]
    /\ pc = [f \in Flow |-> "idle"]
    /\ target = [f \in Flow |-> None]
    /\ via = [f \in Flow |-> "none"]

At(f, from, to) == pc[f] = from /\ pc' = [pc EXCEPT ![f] = to]

\* A routed run is over, or has failed: a sweep turns to its next app.
Return(f) == IF f \in Sweep THEN "next" ELSE "idle"

\* The bridge on the port is gone, and with it whoever was routed over it.
PortCloses ==
    /\ sees' = {}
    /\ via' = [f \in Flow |-> IF via[f] = "wifi" THEN "cut" ELSE via[f]]

\* The child in the slot of process p dies, or is replaced by a new one.
Supervise(p, child) ==
    /\ bridge' = [bridge EXCEPT ![p] = child]
    /\ IF bridge[p] = "listening" THEN PortCloses ELSE UNCHANGED <<sees, via>>

-----------------------------------------------------------------------------
(***************************************************************************)
(* route_to                                                                *)
(***************************************************************************)

\* Cable wins: with the phone on USB the bridge is not even looked at.
RouteStart(f, d) ==
    /\ \/ f \in Route /\ pc[f] = "idle"
       \/ f \in Sweep /\ pc[f] = "next"
    /\ target' = [target EXCEPT ![f] = d]
    /\ IF d \in usb
       THEN /\ pc' = [pc EXCEPT ![f] = "use"]
            /\ via' = [via EXCEPT ![f] = "usb"]
       ELSE pc' = [pc EXCEPT ![f] = "ask"] /\ UNCHANGED via
    /\ UNCHANGED <<usb, bridge, stray, sees, mutex, cache>>

\* The phone is on the port: the signer is pointed at it.
Routed(f) ==
    /\ target[f] \in sees
    /\ pc' = [pc EXCEPT ![f] = "use"]
    /\ via' = [via EXCEPT ![f] = "wifi"]
    /\ UNCHANGED <<usb, bridge, stray, sees, mutex, cache, target>>

\* A bridge, ours or not, already serves the phone.
Reuse(f) == pc[f] = "ask" /\ Routed(f)

Unserved(f) ==
    /\ target[f] \notin sees
    /\ At(f, "ask", "connect")
    /\ UNCHANGED <<usb, bridge, stray, sees, mutex, cache, target, via>>

\* The signer's run is over, whatever came of it.
UsedKeepsRoute(f) ==
    /\ At(f, "use", Return(f))
    /\ target' = [target EXCEPT ![f] = None]
    /\ UNCHANGED <<usb, bridge, stray, sees, mutex, cache, via>>

Used(f) ==
    /\ At(f, "use", Return(f))
    /\ via' = [via EXCEPT ![f] = "none"]
    /\ target' = [target EXCEPT ![f] = None]
    /\ UNCHANGED <<usb, bridge, stray, sees, mutex, cache>>

-----------------------------------------------------------------------------
(***************************************************************************)
(* ensure_netmuxd                                                          *)
(***************************************************************************)

Connect(f) ==
    /\ At(f, "connect", IF Listening THEN "wait" ELSE "lock")
    /\ UNCHANGED <<usb, bridge, stray, sees, mutex, cache, target, via>>

Lock(f) ==
    /\ mutex[ProcOf[f]] = None
    /\ At(f, "lock", "ensure")
    /\ mutex' = [mutex EXCEPT ![ProcOf[f]] = f]
    /\ UNCHANGED <<usb, bridge, stray, sees, cache, target, via>>

Unlock(f) == mutex' = [mutex EXCEPT ![ProcOf[f]] = None]

\* The re-check under the lock: another task has started it meanwhile.
Recheck(f) ==
    /\ Listening
    /\ At(f, "ensure", "wait")
    /\ Unlock(f)
    /\ UNCHANGED <<usb, bridge, stray, sees, cache, target, via>>

Unchecked(f) ==
    /\ Supervise(ProcOf[f], "starting")
    /\ At(f, "ensure", "wait")
    /\ Unlock(f)
    /\ UNCHANGED <<usb, stray, cache, target>>

SpawnKeepsGuard(f) ==
    /\ ~Listening
    /\ At(f, "ensure", "wait")
    /\ Supervise(ProcOf[f], "starting")
    /\ UNCHANGED <<usb, stray, mutex, cache, target>>

\* The re-check fails and a new child replaces the old, which is killed as its
\* handle is dropped.  Nothing is awaited between the refused connect and that.
Spawn(f) ==
    /\ ~Listening
    /\ At(f, "ensure", "wait")
    /\ Supervise(ProcOf[f], "starting")
    /\ Unlock(f)
    /\ UNCHANGED <<usb, stray, cache, target>>

\* A resolve returns the error at once; so does a routed run.
SpawnFail(f) ==
    /\ "spawn" \in Faults
    /\ ~Listening
    /\ At(f, "ensure", Return(f))
    /\ target' = [target EXCEPT ![f] = None]
    /\ Unlock(f)
    /\ UNCHANGED <<usb, bridge, stray, sees, cache, via>>

-----------------------------------------------------------------------------
(***************************************************************************)
(* wait_for_device and wait_for_any_device, which poll until a deadline    *)
(***************************************************************************)

Found(f) == f \in Route \cup Sweep /\ pc[f] = "wait" /\ Routed(f)

GiveUpUnheard(f) ==
    /\ f \in Route \cup Sweep
    /\ ~Listening
    /\ At(f, "wait", Return(f))
    /\ target' = [target EXCEPT ![f] = None]
    /\ UNCHANGED <<usb, bridge, stray, sees, mutex, cache, via>>

GiveUp(f) ==
    /\ f \in Route \cup Sweep
    /\ target[f] \notin sees
    /\ At(f, "wait", Return(f))
    /\ target' = [target EXCEPT ![f] = None]
    /\ UNCHANGED <<usb, bridge, stray, sees, mutex, cache, via>>

\* The resolve has seen some phone, and goes on to enumerate.
AnyFound(f) ==
    /\ f \in Resolver
    /\ sees # {}
    /\ At(f, "wait", "enumerate")
    /\ UNCHANGED <<usb, bridge, stray, sees, mutex, cache, target, via>>

NoneFound(f) ==
    /\ f \in Resolver
    /\ sees = {}
    /\ At(f, "wait", "down")
    /\ cache' = [cache EXCEPT ![ProcOf[f]] = {}]
    /\ UNCHANGED <<usb, bridge, stray, sees, mutex, target, via>>

\* enumerate_devices_at, whose failure counts as no device, and the cache.
Enumerate(f) ==
    /\ At(f, "enumerate", "down")
    /\ \E found \in {sees, {}} : cache' = [cache EXCEPT ![ProcOf[f]] = found]
    /\ UNCHANGED <<usb, bridge, stray, sees, mutex, target, via>>

-----------------------------------------------------------------------------
(***************************************************************************)
(* shutdown, and who calls it                                              *)
(***************************************************************************)

ResolveStart(f) ==
    /\ f \in Resolver
    /\ At(f, "idle", "connect")
    /\ UNCHANGED <<usb, bridge, stray, sees, mutex, cache, target, via>>

SweepStart(f) ==
    /\ f \in Sweep
    /\ At(f, "idle", "next")
    /\ UNCHANGED <<usb, bridge, stray, sees, mutex, cache, target, via>>

SweepDoneWithoutShutdown(f) ==
    /\ f \in Sweep
    /\ \/ At(f, "next", "down")
       \/ At(f, "next", "idle")
    /\ UNCHANGED <<usb, bridge, stray, sees, mutex, cache, target, via>>

\* refresh_due has returned, with or without an error.
SweepDone(f) ==
    /\ f \in Sweep
    /\ At(f, "next", "down")
    /\ UNCHANGED <<usb, bridge, stray, sees, mutex, cache, target, via>>

AppExit(f) ==
    /\ f \in Exit
    /\ At(f, "idle", "down")
    /\ UNCHANGED <<usb, bridge, stray, sees, mutex, cache, target, via>>

AfterShutdown(f) == IF f \in Exit THEN "exit" ELSE "idle"

\* take() finds no child; the lock is given back as it is got.
NothingToStop(f) ==
    /\ mutex[ProcOf[f]] = None
    /\ bridge[ProcOf[f]] = "none"
    /\ At(f, "down", AfterShutdown(f))
    /\ UNCHANGED <<usb, bridge, stray, sees, mutex, cache, target, via>>

KillUnguarded(f) ==
    /\ mutex[ProcOf[f]] = None
    /\ bridge[ProcOf[f]] # "none"
    /\ At(f, "down", "reap")
    /\ UNCHANGED <<usb, bridge, stray, sees, mutex, cache, target, via>>

\* The child is taken and killed; the guard lives on until kill() returns.
Kill(f) ==
    /\ mutex[ProcOf[f]] = None
    /\ bridge[ProcOf[f]] # "none"
    /\ At(f, "down", "reap")
    /\ mutex' = [mutex EXCEPT ![ProcOf[f]] = f]
    /\ UNCHANGED <<usb, bridge, stray, sees, cache, target, via>>

Reap(f) ==
    /\ At(f, "reap", AfterShutdown(f))
    /\ Supervise(ProcOf[f], "none")
    /\ Unlock(f)
    /\ UNCHANGED <<usb, stray, cache, target>>

\* The end of a process: its flows are gone, a child it has not killed is not.
Die(p) ==
    LET mine   == {f \in Flow : ProcOf[f] = p}
        killed == \E f \in mine : pc[f] = "reap"
        shuts  == killed /\ bridge[p] = "listening"
    IN  /\ bridge' = [bridge EXCEPT ![p] = "none"]
        /\ stray' = IF killed \/ stray = "listening" \/ bridge[p] = "none"
                    THEN stray ELSE bridge[p]
        /\ sees' = IF shuts THEN {} ELSE sees
        /\ via' = [f \in Flow |-> IF f \in mine THEN "none"
                                  ELSE IF shuts /\ via[f] = "wifi" THEN "cut" ELSE via[f]]
        /\ pc' = [f \in Flow |-> IF f \in mine THEN "idle" ELSE pc[f]]
        /\ target' = [f \in Flow |-> IF f \in mine THEN None ELSE target[f]]
        /\ mutex' = [mutex EXCEPT ![p] = None]
        /\ cache' = [cache EXCEPT ![p] = {}]
        /\ UNCHANGED usb

Terminate(f) == pc[f] = "exit" /\ Die(ProcOf[f])

Crash(p) == "crash" \in Faults /\ Die(p)

-----------------------------------------------------------------------------
(***************************************************************************)
(* netmuxd, the phones and the cable                                       *)
(***************************************************************************)

BeingKilled(p) == \E f \in Flow : ProcOf[f] = p /\ pc[f] = "reap"

\* The second bridge to bind the port fails and exits.
Listen(p) ==
    /\ bridge[p] = "starting"
    /\ ~BeingKilled(p)
    /\ bridge' = [bridge EXCEPT ![p] = IF Listening THEN "none" ELSE "listening"]
    /\ UNCHANGED <<usb, stray, sees, mutex, cache, pc, target, via>>

StrayListens ==
    /\ stray = "starting"
    /\ stray' = IF Listening THEN "none" ELSE "listening"
    /\ UNCHANGED <<usb, bridge, sees, mutex, cache, pc, target, via>>

\* The bridge exits on its own; its handle stays, and stands for nothing.
BridgeExit(p) ==
    /\ "bridge" \in Faults
    /\ bridge[p] # "none"
    /\ Supervise(p, "none")
    /\ UNCHANGED <<usb, stray, mutex, cache, pc, target>>

StrayExit ==
    /\ "bridge" \in Faults
    /\ stray # "none"
    /\ stray' = "none"
    /\ IF stray = "listening" THEN PortCloses ELSE UNCHANGED <<sees, via>>
    /\ UNCHANGED <<usb, bridge, mutex, cache, pc, target>>

Discover(d) ==
    /\ Listening
    /\ \A p \in Proc : bridge[p] = "listening" => ~BeingKilled(p)
    /\ d \notin sees
    /\ sees' = sees \cup {d}
    /\ UNCHANGED <<usb, bridge, stray, mutex, cache, pc, target, via>>

Vanish(d) ==
    /\ d \in sees
    /\ sees' = sees \ {d}
    /\ UNCHANGED <<usb, bridge, stray, mutex, cache, pc, target, via>>

Plug(d) ==
    /\ usb' = IF d \in usb THEN usb \ {d} ELSE usb \cup {d}
    /\ UNCHANGED <<bridge, stray, sees, mutex, cache, pc, target, via>>

-----------------------------------------------------------------------------
Exiting(p) == \E f \in Exit : ProcOf[f] = p /\ pc[f] # "idle"

\* The windows are closed by the time the app exits, and give no more commands.
Begin(f) ==
    /\ ~Exiting(ProcOf[f])
    /\ \/ \E d \in Device : RouteStart(f, d)
       \/ ResolveStart(f) \/ SweepStart(f) \/ AppExit(f)

Ask(f)     == Reuse(f) \/ Unserved(f) \/ Connect(f)
Ensure(f)  == Recheck(f) \/ Spawn(f) \/ SpawnFail(f)
Wait(f)    == Found(f) \/ GiveUp(f) \/ AnyFound(f) \/ NoneFound(f)
Acquire(f) == Lock(f) \/ NothingToStop(f) \/ Kill(f)

FlowStep(f) ==
    \/ Begin(f) \/ Ask(f) \/ Acquire(f) \/ Ensure(f) \/ Wait(f) \/ Used(f)
    \/ Enumerate(f) \/ SweepDone(f) \/ Reap(f) \/ Terminate(f)

World ==
    \/ \E p \in Proc : Listen(p) \/ BridgeExit(p) \/ Crash(p)
    \/ StrayListens \/ StrayExit
    \/ \E d \in Device : Discover(d) \/ Vanish(d) \/ Plug(d)

Next == (\E f \in Flow : FlowStep(f)) \/ World

Spec == Init /\ [][Next]_vars

(***************************************************************************)
(* A call that is running goes on, a poll ends at its deadline and a child *)
(* that was sent SIGKILL is reaped.  tokio's Mutex queues its waiters in   *)
(* order, so none of them is passed over for ever.                         *)
(***************************************************************************)
Fairness ==
    \A f \in Flow :
        /\ WF_vars(Ask(f)) /\ WF_vars(Ensure(f)) /\ WF_vars(Wait(f))
        /\ WF_vars(Enumerate(f)) /\ WF_vars(Reap(f))
        /\ SF_vars(Acquire(f))

FairSpec == Spec /\ Fairness

-----------------------------------------------------------------------------
(***************************************************************************)
(* Properties                                                              *)
(***************************************************************************)

\* Every variable has its type, and only a signing run has a route: the address
\* route_to answers is not kept beyond the run it was asked for.
TypeOK ==
    /\ usb \subseteq Device /\ sees \subseteq Device
    /\ bridge \in [Proc -> BridgeState] /\ stray \in BridgeState
    /\ mutex \in [Proc -> Flow \cup {None}]
    /\ cache \in [Proc -> SUBSET Device]
    /\ pc \in [Flow -> Location]
    /\ target \in [Flow -> Device \cup {None}]
    /\ via \in [Flow -> {"none", "usb", "wifi", "cut"}]
    /\ \A f \in Flow : via[f] # "none" <=> pc[f] = "use"

\* supervised() is locked exactly while a flow of that process re-checks and
\* spawns, or waits for the child it killed: at most one of them at a time, and
\* every return from ensure_netmuxd and shutdown gives the lock back.
LockedWhileChanging ==
    /\ \A f \in Flow : pc[f] \in {"ensure", "reap"} => mutex[ProcOf[f]] = f
    /\ \A p \in Proc : mutex[p] # None =>
          ProcOf[mutex[p]] = p /\ pc[mutex[p]] \in {"ensure", "reap"}

\* A process whose flows all promise to tear their bridge down (the agent's
\* sweeps, the resolve, the exit) has none once they have returned, whichever
\* way each of them ended.
OnDemand(p) == \A f \in Flow : ProcOf[f] = p => f \notin Route

NothingLingers ==
    \A p \in Proc : OnDemand(p) =>
        \/ bridge[p] = "none"
        \/ \E f \in Flow : ProcOf[f] = p /\ pc[f] # "idle"

\* A signing run loses the bridge it was routed over only when that bridge dies
\* on its own or a shutdown of its owner kills it.  Another flow that starts a
\* bridge of its own never replaces one in use.
CutOnlyByShutdown ==
    [][(\E f \in Flow : via[f] # "cut" /\ via'[f] = "cut") =>
         \/ StrayExit
         \/ \E p \in Proc : BridgeExit(p) \/ (BeingKilled(p) /\ bridge'[p] = "none")]_vars

\* route_to and ensure_netmuxd decide: no flow waits for ever for the lock, the
\* bridge or the phone.
RouteDecides == \A f \in Flow : pc[f] \in Asking ~> pc[f] \notin Asking

\* shutdown returns, also when it has to wait for a flow that is spawning.
ShutdownReturns == \A f \in Flow : pc[f] \in Stopping ~> pc[f] \notin Stopping

\* The doc of the module says that a bridge is reused for the life of the process
\* and torn down on exit or after the agent's sweep: then no signing run of the
\* app would lose its bridge while the app runs and netmuxd does not fail.
RouteKeepsBridge == \A f \in Route : via[f] # "cut"
=============================================================================
