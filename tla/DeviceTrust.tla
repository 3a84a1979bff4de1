---------------------------- MODULE DeviceTrust ----------------------------
(***************************************************************************)
(* One phone and the calls that need its trust: pairing, the Developer     *)
(* Mode answer with its cache in the database (device/mod.rs, lib.rs), and *)
(* the RSD tunnel the manager holds (tunneld.rs, remote_xpc.rs).           *)
(*                                                                         *)
(* usbmuxd's record store is shared with libimobiledevice: `idevicepair`   *)
(* and the user on the phone act between any two steps of a call.          *)
(***************************************************************************)
CONSTANTS
    Ui,         \* commands that are in flight together
    Tunnel      \* names for tunnels: one for each command, one in the map

\* The identities this host may pair with: the one derived from the machine id,
\* and one that idevicepair made.
HostId == {"reside", "idevicepair"}

VARIABLES
    cable,      \* the phone is on USB: usbmuxd runs, and lists it
    trusts,     \* the host identities the phone trusts
    pairRecord, \* the identity of usbmuxd's pair record
    devMode,    \* Developer Mode on the phone
    row,        \* developer_mode_enabled and _checked_ts of its devices row
    open,       \* the tunnels that are not closed
    held,       \* TunnelManager::tunnels
    task,       \* the commands
    agreed,     \* a pairing that returned Ok still stands, as far as one knows
    churned,    \* someone else gave, or ReSide misread, the identity meanwhile
    seen        \* the newest Developer Mode observation, as far as it is known

trustVars == <<cable, trusts, pairRecord, devMode, row, open, held, task,
               agreed, churned, seen>>

NoTask == [at |-> "idle", id |-> "none", mode |-> "none", tunnel |-> {}, alone |-> FALSE]

TrustPlace == {"idle", "identity", "ask", "save", "write", "record", "establish", "insert"}
Task  == [at: TrustPlace, id: HostId \cup {"none"}, mode: {"none", "on", "off"},
          tunnel: SUBSET Tunnel, alone: BOOLEAN]

TrustTypeOK ==
    /\ cable \in BOOLEAN /\ devMode \in BOOLEAN
    /\ agreed \in BOOLEAN /\ churned \in BOOLEAN
    /\ trusts \subseteq HostId
    /\ pairRecord \in HostId \cup {"none"}
    /\ row \in {"absent", "on", "off"}
    /\ open \subseteq Tunnel /\ held \subseteq Tunnel
    /\ task \in [Ui -> Task]
    /\ seen \in {"any", "on", "off"}

\* The migration seeds the row of a phone that has an app as "on".
TrustInit ==
    /\ cable = FALSE /\ devMode \in BOOLEAN
    /\ trusts = {} /\ pairRecord = "none"
    /\ row \in {"absent", "on"}
    /\ open = {} /\ held = {}
    /\ task = [u \in Ui |-> NoTask]
    /\ agreed = FALSE /\ churned = FALSE
    /\ seen = "any"

At(u, l)  == task[u].at = l
To(u, l)  == task' = [task EXCEPT ![u].at = l]
Over(u)   == task' = [task EXCEPT ![u] = NoTask]

-----------------------------------------------------------------------------
(* pair_device *)

Pairing == {u \in Ui : task[u].at \in {"ask", "save"}}

StartPair(u) ==
    /\ At(u, "idle") /\ cable
    /\ task' = [task EXCEPT ![u] = [NoTask EXCEPT !.at = "identity", !.alone = TRUE]]
    /\ UNCHANGED <<cable, trusts, pairRecord, devMode, row, open, held, agreed, churned, seen>>

\* Mutant: the identity is always derived anew.
AlwaysMint(u) ==
    /\ At(u, "identity") /\ cable
    /\ task' = [task EXCEPT ![u].at = "ask", ![u].id = "reside"]
    /\ UNCHANGED <<cable, trusts, pairRecord, devMode, row, open, held, agreed, churned, seen>>

\* The identity of the record is used again; any error is taken for no record.
PairIdentity(u) ==
    /\ At(u, "identity") /\ cable
    /\ \/ /\ task' = [task EXCEPT ![u].at = "ask",
                          ![u].id = IF pairRecord = "none" THEN "reside" ELSE pairRecord]
          /\ churned' = churned
       \/ /\ pairRecord # "none"
          /\ task' = [task EXCEPT ![u].at = "ask", ![u].id = "reside"]
          /\ churned' = TRUE
    /\ UNCHANGED <<cable, trusts, pairRecord, devMode, row, open, held, agreed, seen>>

\* Mutant: a dismissed dialog is taken for trust.
DenialIgnored(u) ==
    /\ At(u, "ask")
    /\ IF cable THEN To(u, "save") ELSE Over(u)
    /\ UNCHANGED <<cable, trusts, pairRecord, devMode, row, open, held, agreed, churned, seen>>

\* The dialog on the phone, for as long as it takes: denied, locked or gone.
PairRefused(u) ==
    /\ At(u, "ask")
    /\ Over(u)
    /\ UNCHANGED <<cable, trusts, pairRecord, devMode, row, open, held, agreed, churned, seen>>

PairTrusted(u) ==
    /\ At(u, "ask") /\ cable
    /\ trusts' = trusts \cup {task[u].id}
    /\ To(u, "save")
    /\ UNCHANGED <<cable, pairRecord, devMode, row, open, held, agreed, churned, seen>>

\* SavePairRecord goes through usbmuxd.
PairSave(u) ==
    /\ At(u, "save") /\ cable
    /\ pairRecord' = task[u].id
    /\ agreed' = task[u].alone
    /\ Over(u)
    /\ UNCHANGED <<cable, trusts, devMode, row, open, held, churned, seen>>

\* The phone trusts an identity that usbmuxd has no record of.
PairSaveFails(u) ==
    /\ At(u, "save")
    /\ churned' = (churned \/ pairRecord # task[u].id)
    /\ Over(u)
    /\ UNCHANGED <<cable, trusts, pairRecord, devMode, row, open, held, agreed, seen>>

-----------------------------------------------------------------------------
(* developer_mode_status, and the install that records the mode as on *)

\* paired_provider, and every trusted service: over USB, with the record.
Trusted == cable /\ pairRecord \in trusts

\* What was observed is on its way to the cache.
Observing == {u \in Ui : task[u].at \in {"write", "record"}}

\* Of two observations that are on their way, either may be written last.
Observe(u, l) ==
    LET mode == IF devMode THEN "on" ELSE "off"
    IN  /\ seen' = IF Observing = {} THEN mode ELSE "any"
        /\ task' = [task EXCEPT ![u] = [NoTask EXCEPT !.at = l, !.mode = mode]]

ReadLive(u) ==
    /\ At(u, "idle") /\ Trusted
    /\ Observe(u, "write")
    /\ UNCHANGED <<cable, trusts, pairRecord, devMode, row, open, held, agreed, churned>>

\* Mutant: the cache is only ever told of a mode that is on.
CacheOnlyOn(u) ==
    /\ At(u, "write")
    /\ row' = IF row # "absent" /\ task[u].mode = "on" THEN "on" ELSE row
    /\ seen' = IF row = "absent" THEN "any" ELSE seen
    /\ Over(u)
    /\ UNCHANGED <<cable, trusts, pairRecord, devMode, open, held, agreed, churned>>

\* The UPDATE finds a row or none; the answer is the live one either way.
WriteCache(u) ==
    /\ At(u, "write")
    /\ row' = IF row = "absent" THEN row ELSE task[u].mode
    /\ seen' = IF row = "absent" THEN "any" ELSE seen
    /\ Over(u)
    /\ UNCHANGED <<cable, trusts, pairRecord, devMode, open, held, agreed, churned>>

\* The error of the UPDATE is dropped; that of the install's record is not.
WriteCacheFails(u) ==
    /\ u \in Observing
    /\ seen' = "any"
    /\ Over(u)
    /\ UNCHANGED <<cable, trusts, pairRecord, devMode, row, open, held, agreed, churned>>

\* What the command answers when the live read fails: the cached value.
Fallback == IF row = "absent" THEN "error" ELSE row

\* An app is installed, over USB or Wi-Fi, on a phone with Developer Mode on ...
AppInstalled(u) ==
    /\ At(u, "idle") /\ devMode /\ pairRecord \in trusts
    /\ Observe(u, "record")
    /\ UNCHANGED <<cable, trusts, pairRecord, devMode, row, open, held, agreed, churned>>

\* ... and record_install writes the devices row, or makes it.
RecordDevice(u) ==
    /\ At(u, "record")
    /\ row' = "on"
    /\ Over(u)
    /\ UNCHANGED <<cable, trusts, pairRecord, devMode, open, held, agreed, churned, seen>>

-----------------------------------------------------------------------------
(* TunnelManager *)

\* A Wi-Fi request is refused before anything is done.
StartTunnel(u) ==
    /\ At(u, "idle") /\ cable /\ pairRecord # "none"
    /\ task' = [task EXCEPT ![u] = [NoTask EXCEPT !.at = "establish"]]
    /\ UNCHANGED <<cable, trusts, pairRecord, devMode, row, open, held, agreed, churned, seen>>

\* The handshake, outside the lock.  Tunnel bounds how many there are at once.
Establish(u) ==
    /\ At(u, "establish") /\ Trusted
    /\ open # Tunnel
    /\ LET t == CHOOSE x \in Tunnel : x \notin open
       IN  /\ open' = open \cup {t}
           /\ task' = [task EXCEPT ![u].at = "insert", ![u].tunnel = {t}]
    /\ UNCHANGED <<cable, trusts, pairRecord, devMode, row, held, agreed, churned, seen>>

EstablishFails(u) ==
    /\ At(u, "establish")
    /\ Over(u)
    /\ UNCHANGED <<cable, trusts, pairRecord, devMode, row, open, held, agreed, churned, seen>>

\* Mutant: the tunnel that was there goes on running.
InsertLeaks(u) ==
    /\ At(u, "insert")
    /\ held' = task[u].tunnel
    /\ Over(u)
    /\ UNCHANGED <<cable, trusts, pairRecord, devMode, row, open, agreed, churned, seen>>

\* Under the lock: the new tunnel replaces and closes the one that was there,
\* whichever of them was established first.
Insert(u) ==
    /\ At(u, "insert")
    /\ held' = task[u].tunnel
    /\ open' = open \ held
    /\ Over(u)
    /\ UNCHANGED <<cable, trusts, pairRecord, devMode, row, agreed, churned, seen>>

-----------------------------------------------------------------------------
(* The surroundings *)

\* A tunnel whose phone is gone stays in the map: status calls it connected.
PlugOrPull ==
    /\ cable' = ~cable
    /\ UNCHANGED <<trusts, pairRecord, devMode, row, open, held, task, agreed, churned, seen>>

\* After a restart of the phone.
ToggleDevMode ==
    /\ devMode' = ~devMode
    /\ UNCHANGED <<cable, trusts, pairRecord, row, open, held, task, agreed, churned, seen>>

\* `idevicepair pair`, with the identity of the record or one of its own.
IdevicePair ==
    /\ cable
    /\ pairRecord' = IF pairRecord = "none" THEN "idevicepair" ELSE pairRecord
    /\ trusts' = trusts \cup {pairRecord'}
    /\ churned' = (churned \/ Pairing # {})
    /\ UNCHANGED <<cable, devMode, row, open, held, task, agreed, seen>>

\* The phone forgets this computer, or `idevicepair unpair` makes it.
Untrust(unpair) ==
    /\ trusts' = {}
    /\ unpair => cable
    /\ pairRecord' = IF unpair THEN "none" ELSE pairRecord
    /\ agreed' = FALSE
    /\ churned' = (Pairing # {})
    /\ task' = [u \in Ui |-> [task[u] EXCEPT !.alone = FALSE]]
    /\ UNCHANGED <<cable, devMode, row, open, held, seen>>

PairStep(u)   == \/ StartPair(u) \/ PairIdentity(u) \/ PairTrusted(u)
                 \/ PairRefused(u) \/ PairSave(u) \/ PairSaveFails(u)
ModeStep(u)   == \/ ReadLive(u) \/ WriteCache(u) \/ WriteCacheFails(u)
                 \/ AppInstalled(u) \/ RecordDevice(u)
TunnelStep(u) == StartTunnel(u) \/ Establish(u) \/ EstablishFails(u) \/ Insert(u)

TrustNext ==
    \/ \E u \in Ui : PairStep(u) \/ ModeStep(u) \/ TunnelStep(u)
    \/ PlugOrPull \/ ToggleDevMode \/ IdevicePair
    \/ \E unpair \in BOOLEAN : Untrust(unpair)

TrustSpec == TrustInit /\ [][TrustNext]_trustVars

-----------------------------------------------------------------------------
(* Properties *)

\* ReSide's pairing does not clobber the trust it shares with idevicepair: the
\* phone knows this host by one identity, whoever paired it and how often, as
\* long as nobody pairs in the middle of a call and the record can be read.
OneIdentity == churned \/ \A a, b \in trusts : a = b

\* pair_device that returned Ok leaves a record the phone accepts, until the
\* trust is revoked on the phone or by idevicepair.
PairedIsTrusted == agreed => pairRecord \in trusts

\* A fallback answer is what was observed last: once no observation is on its
\* way, the cache has caught up with the newest one, live read or install, unless
\* that one overlapped another or its write failed.
FallbackIsNewest == Observing = {} /\ seen # "any" => Fallback = seen

\* Tunnels neither leak nor die early: the open ones are exactly the one in the
\* map and those that commands are about to put there.
TunnelsAccounted == open = held \cup UNION {task[u].tunnel : u \in Ui}

=============================================================================
