--------------------------- MODULE Devices_proofs ----------------------------
(***************************************************************************)
(* What holds of the phones, for any number of them and of commands: the   *)
(* pairing keeps one identity and leaves a record the phone accepts, the cached *)
(* answer is the newest observation, every open tunnel is accounted for, and a *)
(* row of the list does not go under another phone's name.                 *)
(***************************************************************************)
EXTENDS DeviceTrust, DeviceList, TLAPS

-----------------------------------------------------------------------------
(* DeviceTrust: pairing, the cached answer and the tunnels *)

\* The identity a pairing that begins now will use, if the record can be read.
Known == IF pairRecord = "none" THEN "reside" ELSE pairRecord

\* Trust without a record is trust that some pairing is about to record.
OneKnown ==
    ~ churned =>
        /\ trusts \subseteq {Known}
        /\ \A u \in Pairing : task[u].id = Known
        /\ pairRecord = "none" /\ trusts # {} => \E u \in Ui : At(u, "save")

\* The pairings that nobody revoked are trusted before they are recorded.
SavesTrusted ==
    /\ \A u \in Ui : At(u, "save") /\ task[u].alone => task[u].id \in trusts
    /\ agreed => pairRecord \in trusts

\* An observation that is the newest one is alone on its way.
NewestOnWay ==
    /\ \A u \in Ui : At(u, "record") => task[u].mode = "on"
    /\ seen # "any" =>
          /\ \A u, v \in Observing : u = v
          /\ \A u \in Observing : task[u].mode = seen
          /\ Observing = {} => row = seen

\* No tunnel is promised twice.
Distinct ==
    /\ \A u \in Ui : task[u].tunnel # {} => At(u, "insert")
    /\ \A u \in Ui : task[u].tunnel \cap held = {}
    /\ \A u, v \in Ui : u # v => task[u].tunnel \cap task[v].tunnel = {}

\* The invariants share what they say of a command's fields.
Typed == /\ TrustTypeOK
         /\ \A u \in Pairing : task[u].id \in HostId
         /\ \A u \in Observing : task[u].mode \in {"on", "off"}

-----------------------------------------------------------------------------
(* The fields of a command: what each form of update leaves in them *)

LEMMA ToFields ==
    ASSUME task \in [Ui -> Task], NEW u \in Ui, NEW l \in TrustPlace, To(u, l)
    PROVE  /\ task' \in [Ui -> Task]
           /\ task'[u].at = l /\ task'[u].id = task[u].id /\ task'[u].mode = task[u].mode
           /\ task'[u].tunnel = task[u].tunnel /\ task'[u].alone = task[u].alone
           /\ \A v \in Ui \ {u} : task'[v] = task[v]
<1>1. [task[u] EXCEPT !.at = l] \in Task
  BY DEF Task
<1> QED BY <1>1 DEF To, Task

LEMMA OverFields ==
    ASSUME task \in [Ui -> Task], NEW u \in Ui, Over(u)
    PROVE  /\ task' \in [Ui -> Task]
           /\ task'[u].at = "idle" /\ task'[u].tunnel = {}
           /\ \A v \in Ui \ {u} : task'[v] = task[v]
<1>1. NoTask \in Task
  BY DEF Task, NoTask, TrustPlace
<1> QED BY <1>1 DEF Over, NoTask

LEMMA BeginFields ==
    ASSUME task \in [Ui -> Task], NEW u \in Ui, NEW t \in Task,
           task' = [task EXCEPT ![u] = t]
    PROVE  /\ task' \in [Ui -> Task] /\ task'[u] = t
           /\ \A v \in Ui \ {u} : task'[v] = task[v]
  OBVIOUS

LEMMA FreshFields ==
    ASSUME NEW l \in TrustPlace, NEW m \in {"on", "off"}
    PROVE  /\ [NoTask EXCEPT !.at = l, !.alone = TRUE] \in Task
           /\ [NoTask EXCEPT !.at = l, !.alone = TRUE].at = l
           /\ [NoTask EXCEPT !.at = l, !.alone = TRUE].alone
           /\ [NoTask EXCEPT !.at = l, !.alone = TRUE].tunnel = {}
           /\ [NoTask EXCEPT !.at = l, !.mode = m] \in Task
           /\ [NoTask EXCEPT !.at = l, !.mode = m].at = l
           /\ [NoTask EXCEPT !.at = l, !.mode = m].mode = m
           /\ [NoTask EXCEPT !.at = l, !.mode = m].tunnel = {}
           /\ [NoTask EXCEPT !.at = l] \in Task
           /\ [NoTask EXCEPT !.at = l].at = l
           /\ [NoTask EXCEPT !.at = l].tunnel = {}
  BY DEF Task, NoTask

LEMMA IdFields ==
    ASSUME task \in [Ui -> Task], NEW u \in Ui, NEW i \in HostId,
           task' = [task EXCEPT ![u].at = "ask", ![u].id = i]
    PROVE  /\ task' \in [Ui -> Task]
           /\ task'[u].at = "ask" /\ task'[u].id = i
           /\ task'[u].tunnel = task[u].tunnel /\ task'[u].alone = task[u].alone
           /\ \A v \in Ui \ {u} : task'[v] = task[v]
<1>1. [task[u] EXCEPT !.at = "ask", !.id = i] \in Task
  BY DEF Task, TrustPlace
<1> QED BY <1>1 DEF Task

LEMMA TunnelFields ==
    ASSUME task \in [Ui -> Task], NEW u \in Ui, NEW x \in Tunnel,
           task' = [task EXCEPT ![u].at = "insert", ![u].tunnel = {x}]
    PROVE  /\ task' \in [Ui -> Task]
           /\ task'[u].at = "insert" /\ task'[u].tunnel = {x}
           /\ \A v \in Ui \ {u} : task'[v] = task[v]
<1>1. [task[u] EXCEPT !.at = "insert", !.tunnel = {x}] \in Task
  BY DEF Task, TrustPlace
<1> QED BY <1>1 DEF Task

LEMMA AloneFields ==
    ASSUME task \in [Ui -> Task],
           task' = [u \in Ui |-> [task[u] EXCEPT !.alone = FALSE]]
    PROVE  /\ task' \in [Ui -> Task]
           /\ \A u \in Ui : /\ task'[u].at = task[u].at /\ task'[u].id = task[u].id
                            /\ task'[u].mode = task[u].mode
                            /\ task'[u].tunnel = task[u].tunnel /\ task'[u].alone = FALSE
<1>1. \A u \in Ui : [task[u] EXCEPT !.alone = FALSE] \in Task
  BY DEF Task
<1> QED BY <1>1 DEF Task

\* A call starts from scratch.
LEMMA PairStarts ==
    ASSUME task \in [Ui -> Task], NEW u \in Ui, StartPair(u)
    PROVE  /\ task' \in [Ui -> Task] /\ task'[u].tunnel = {}
           /\ task'[u].at = "identity" /\ task'[u].alone
           /\ \A v \in Ui \ {u} : task'[v] = task[v]
<1>1. task' = [task EXCEPT ![u] = [NoTask EXCEPT !.at = "identity", !.alone = TRUE]]
  BY DEF StartPair
<1> QED BY <1>1, BeginFields, FreshFields DEF TrustPlace

LEMMA ReadStarts ==
    ASSUME task \in [Ui -> Task], NEW u \in Ui, ReadLive(u)
    PROVE  /\ task' \in [Ui -> Task] /\ task'[u].tunnel = {}
           /\ task'[u].at = "write" /\ task'[u].mode = IF devMode THEN "on" ELSE "off"
           /\ \A v \in Ui \ {u} : task'[v] = task[v]
<1> DEFINE mode == IF devMode THEN "on" ELSE "off"
           t == [NoTask EXCEPT !.at = "write", !.mode = mode]
<1>1. task' = [task EXCEPT ![u] = t]
  BY DEF ReadLive, Observe
<1>2. mode \in {"on", "off"} /\ "write" \in TrustPlace
  BY DEF TrustPlace
<1>3. t \in Task /\ t.at = "write" /\ t.mode = mode /\ t.tunnel = {}
  <2> HIDE DEF mode
  <2> QED BY <1>2 DEF Task, NoTask
<1> HIDE DEF t
<1>4. task'[u] = t /\ task' \in [Ui -> Task] /\ \A v \in Ui \ {u} : task'[v] = task[v]
  BY <1>1, <1>3
<1> QED BY <1>3, <1>4

LEMMA InstallStarts ==
    ASSUME task \in [Ui -> Task], NEW u \in Ui, AppInstalled(u)
    PROVE  /\ task' \in [Ui -> Task] /\ task'[u].tunnel = {}
           /\ task'[u].at = "record" /\ task'[u].mode = "on"
           /\ \A v \in Ui \ {u} : task'[v] = task[v]
<1>1. task' = [task EXCEPT ![u] = [NoTask EXCEPT !.at = "record", !.mode = "on"]]
  BY DEF AppInstalled, Observe
<1> QED BY <1>1, BeginFields, FreshFields DEF TrustPlace

LEMMA TunnelStarts ==
    ASSUME task \in [Ui -> Task], NEW u \in Ui, StartTunnel(u)
    PROVE  /\ task' \in [Ui -> Task] /\ task'[u].tunnel = {}
           /\ task'[u].at = "establish"
           /\ \A v \in Ui \ {u} : task'[v] = task[v]
<1>1. task' = [task EXCEPT ![u] = [NoTask EXCEPT !.at = "establish"]]
  BY DEF StartTunnel
<1> QED BY <1>1, BeginFields, FreshFields DEF TrustPlace

\* The steps that answer, refuse or end a call.
LEMMA EndFields ==
    ASSUME task \in [Ui -> Task], NEW u \in Ui,
           \/ PairRefused(u) \/ PairSave(u) \/ PairSaveFails(u)
           \/ WriteCache(u) \/ WriteCacheFails(u) \/ RecordDevice(u)
           \/ EstablishFails(u) \/ Insert(u)
    PROVE  /\ task' \in [Ui -> Task]
           /\ task'[u].at = "idle" /\ task'[u].tunnel = {}
           /\ \A v \in Ui \ {u} : task'[v] = task[v]
  BY OverFields DEF PairRefused, PairSave, PairSaveFails, WriteCache, WriteCacheFails,
     RecordDevice, EstablishFails, Insert

\* The steps of a pairing in between.
LEMMA AskFields ==
    ASSUME TrustTypeOK, NEW u \in Ui, PairIdentity(u) \/ PairTrusted(u)
    PROVE  /\ task' \in [Ui -> Task]
           /\ task'[u].tunnel = task[u].tunnel /\ task'[u].alone = task[u].alone
           /\ \A v \in Ui \ {u} : task'[v] = task[v]
           /\ PairIdentity(u) => /\ task[u].at = "identity" /\ task'[u].at = "ask"
                                 /\ task'[u].id \in HostId
                                 /\ (churned' \/ (task'[u].id = Known /\ churned' = churned))
           /\ PairTrusted(u) => /\ task[u].at = "ask" /\ task'[u].at = "save"
                                /\ task'[u].id = task[u].id
<1>1. CASE PairIdentity(u)
  <2>1. PICK i \in HostId : /\ task' = [task EXCEPT ![u].at = "ask", ![u].id = i]
                            /\ (churned' \/ (i = Known /\ churned' = churned))
    BY <1>1 DEF PairIdentity, TrustTypeOK, HostId, Known
  <2> QED BY <1>1, <2>1, IdFields DEF TrustTypeOK, PairIdentity, PairTrusted, At
<1>2. CASE PairTrusted(u)
  BY <1>2, ToFields DEF PairTrusted, PairIdentity, TrustTypeOK, TrustPlace, At
<1> QED BY <1>1, <1>2

LEMMA EstablishFields ==
    ASSUME TrustTypeOK, NEW u \in Ui, Establish(u)
    PROVE  /\ task' \in [Ui -> Task] /\ task'[u].at = "insert" /\ task[u].at = "establish"
           /\ \E t \in Tunnel \ open : open' = open \cup {t} /\ task'[u].tunnel = {t}
           /\ \A v \in Ui \ {u} : task'[v] = task[v]
<1> DEFINE x == CHOOSE t \in Tunnel : t \notin open
<1>1. x \in Tunnel \ open
  <2>1. \E t \in Tunnel : t \notin open BY DEF TrustTypeOK, Establish
  <2> QED BY <2>1
<1>2. open' = open \cup {x} /\ task' = [task EXCEPT ![u].at = "insert", ![u].tunnel = {x}]
  BY DEF Establish
<1> HIDE DEF x
<1> QED BY <1>1, <1>2, TunnelFields DEF TrustTypeOK, Establish, At

-----------------------------------------------------------------------------
(* Types *)

LEMMA TrustTypes == Typed /\ [TrustNext]_trustVars => Typed'
<1> SUFFICES ASSUME Typed, [TrustNext]_trustVars PROVE Typed'
  OBVIOUS
<1> USE DEF Typed, TrustTypeOK, Observing, Pairing
<1>1. ASSUME NEW u \in Ui, PairStep(u) PROVE Typed'
  <2>1. CASE StartPair(u)
    BY <2>1, PairStarts DEF StartPair
  <2>2. CASE PairIdentity(u) \/ PairTrusted(u)
    <3>1. churned' \in BOOLEAN /\ trusts' \subseteq HostId
      BY <1>1, <2>2 DEF PairIdentity, PairTrusted, PairStep, Task, At
    <3> QED BY <2>2, <3>1, AskFields DEF PairIdentity, PairTrusted
  <2>3. CASE PairRefused(u) \/ PairSave(u) \/ PairSaveFails(u)
    <3>1. /\ churned' \in BOOLEAN /\ agreed' \in BOOLEAN
          /\ pairRecord' \in HostId \cup {"none"}
      BY <2>3 DEF PairRefused, PairSave, PairSaveFails, Task
    <3> QED BY <2>3, <3>1, EndFields DEF PairRefused, PairSave, PairSaveFails
  <2> QED BY <1>1, <2>1, <2>2, <2>3 DEF PairStep
<1>2. ASSUME NEW u \in Ui, ModeStep(u) PROVE Typed'
  <2>1. CASE ReadLive(u)
    BY <2>1, ReadStarts DEF ReadLive, Observe
  <2>2. CASE AppInstalled(u)
    BY <2>2, InstallStarts DEF AppInstalled, Observe
  <2>3. CASE WriteCache(u) \/ WriteCacheFails(u) \/ RecordDevice(u)
    <3>1. row' \in {"absent", "on", "off"} /\ seen' \in {"any", "on", "off"}
      BY <2>3 DEF WriteCache, WriteCacheFails, RecordDevice, At
    <3> QED BY <2>3, <3>1, EndFields DEF WriteCache, WriteCacheFails, RecordDevice
  <2> QED BY <1>2, <2>1, <2>2, <2>3 DEF ModeStep
<1>3. ASSUME NEW u \in Ui, TunnelStep(u) PROVE Typed'
  <2>1. CASE StartTunnel(u)
    BY <2>1, TunnelStarts DEF StartTunnel
  <2>2. CASE Establish(u)
    BY <2>2, EstablishFields DEF Establish
  <2>3. CASE EstablishFails(u) \/ Insert(u)
    BY <2>3, EndFields DEF EstablishFails, Insert, Task
  <2> QED BY <1>3, <2>1, <2>2, <2>3 DEF TunnelStep
<1>4. CASE PlugOrPull \/ ToggleDevMode
  BY <1>4 DEF PlugOrPull, ToggleDevMode
<1>5. CASE IdevicePair
  BY <1>5 DEF IdevicePair, HostId
<1>6. ASSUME NEW unpair \in BOOLEAN, Untrust(unpair) PROVE Typed'
  BY <1>6, AloneFields DEF Untrust
<1>7. CASE UNCHANGED trustVars
  BY <1>7 DEF trustVars
<1> QED BY <1>1, <1>2, <1>3, <1>4, <1>5, <1>6, <1>7 DEF TrustNext

-----------------------------------------------------------------------------
(* The tunnels *)

\* A step that promises no tunnel and drops none leaves the account as it is.
LEMMA QuietKeeps ==
    ASSUME Typed, Distinct, TunnelsAccounted, task' \in [Ui -> Task],
           open' = open, held' = held, NEW u \in Ui,
           task[u].tunnel = {}, task'[u].tunnel = {},
           \A v \in Ui \ {u} : task'[v] = task[v]
    PROVE  (Distinct /\ TunnelsAccounted)'
<1>1. \A v \in Ui : task'[v].tunnel = task[v].tunnel
  OBVIOUS
<1>2. UNION {task'[v].tunnel : v \in Ui} = UNION {task[v].tunnel : v \in Ui}
  BY <1>1
<1>3. \A v \in Ui : task'[v].tunnel # {} => task'[v].at = "insert"
  BY DEF Distinct, At
<1> QED BY <1>1, <1>2, <1>3 DEF Distinct, TunnelsAccounted, At

LEMMA EstablishKeeps ==
    ASSUME Typed, Distinct, TunnelsAccounted, NEW u \in Ui, Establish(u)
    PROVE  (Distinct /\ TunnelsAccounted)'
<1>1. PICK t \in Tunnel \ open :
          /\ open' = open \cup {t} /\ task'[u].tunnel = {t}
          /\ task'[u].at = "insert" /\ task[u].at = "establish"
          /\ \A v \in Ui \ {u} : task'[v] = task[v]
  BY EstablishFields DEF Typed
<1>2. held' = held BY DEF Establish
<1>3. task[u].tunnel = {} BY <1>1 DEF Distinct, At
<1>4. \A v \in Ui : t \notin task[v].tunnel
  BY <1>1 DEF TunnelsAccounted
<1>5. t \notin held BY <1>1 DEF TunnelsAccounted
<1>6. Distinct' BY <1>1, <1>2, <1>4, <1>5 DEF Distinct, At
<1>7. UNION {task'[v].tunnel : v \in Ui} = (UNION {task[v].tunnel : v \in Ui}) \cup {t}
  BY <1>1, <1>3
<1> QED BY <1>1, <1>2, <1>6, <1>7 DEF TunnelsAccounted

LEMMA InsertKeeps ==
    ASSUME Typed, Distinct, TunnelsAccounted, NEW u \in Ui, Insert(u)
    PROVE  (Distinct /\ TunnelsAccounted)'
<1>1. /\ task'[u].tunnel = {} /\ \A v \in Ui \ {u} : task'[v] = task[v]
      /\ held' = task[u].tunnel /\ open' = open \ held
  BY EndFields DEF Insert, Typed, TrustTypeOK
<1>2. Distinct' BY <1>1 DEF Distinct, At
<1>3. (UNION {task'[v].tunnel : v \in Ui}) \cup task[u].tunnel = UNION {task[v].tunnel : v \in Ui}
  BY <1>1
<1>4. \A v \in Ui : task[v].tunnel \cap held = {}
  BY DEF Distinct
<1> QED BY <1>1, <1>2, <1>3, <1>4 DEF TunnelsAccounted

LEMMA TunnelsKept ==
    ASSUME Typed, Distinct, TunnelsAccounted, [TrustNext]_trustVars
    PROVE  (Distinct /\ TunnelsAccounted)'
<1> USE DEF Typed, TrustTypeOK
<1>1. ASSUME NEW u \in Ui,
             PairStep(u) \/ ModeStep(u) \/ StartTunnel(u) \/ EstablishFails(u)
      PROVE  (Distinct /\ TunnelsAccounted)'
  <2>1. open' = open /\ held' = held
    BY <1>1 DEF PairStep, StartPair, PairIdentity, PairTrusted, PairRefused, PairSave,
         PairSaveFails, ModeStep, ReadLive, WriteCache, WriteCacheFails, AppInstalled,
         RecordDevice, StartTunnel, EstablishFails
  <2>2. task[u].tunnel = {}
    <3>1. task[u].at # "insert"
      BY <1>1 DEF PairStep, StartPair, PairIdentity, PairTrusted, PairRefused, PairSave,
           PairSaveFails, ModeStep, ReadLive, WriteCache, WriteCacheFails, AppInstalled,
           RecordDevice, StartTunnel, EstablishFails, At, Observing
    <3> QED BY <3>1 DEF Distinct, At
  <2>3. /\ task' \in [Ui -> Task] /\ task'[u].tunnel = {}
        /\ \A v \in Ui \ {u} : task'[v] = task[v]
    BY <1>1, <2>2, PairStarts, ReadStarts, InstallStarts, TunnelStarts, AskFields, EndFields
       DEF PairStep, ModeStep
  <2> QED BY <2>1, <2>2, <2>3, QuietKeeps
<1>2. ASSUME NEW u \in Ui, Establish(u) PROVE (Distinct /\ TunnelsAccounted)'
  BY <1>2, EstablishKeeps
<1>3. ASSUME NEW u \in Ui, Insert(u) PROVE (Distinct /\ TunnelsAccounted)'
  BY <1>3, InsertKeeps
<1>4. CASE PlugOrPull \/ ToggleDevMode \/ IdevicePair \/ UNCHANGED trustVars
  BY <1>4 DEF PlugOrPull, ToggleDevMode, IdevicePair, trustVars, Distinct, TunnelsAccounted, At
<1>5. ASSUME NEW unpair \in BOOLEAN, Untrust(unpair) PROVE (Distinct /\ TunnelsAccounted)'
  <2>1. /\ \A u \in Ui : task'[u].at = task[u].at /\ task'[u].tunnel = task[u].tunnel
        /\ open' = open /\ held' = held
    BY <1>5, AloneFields DEF Untrust
  <2>2. UNION {task'[v].tunnel : v \in Ui} = UNION {task[v].tunnel : v \in Ui}
    BY <2>1
  <2> QED BY <2>1, <2>2 DEF Distinct, TunnelsAccounted, At
<1> QED BY <1>1, <1>2, <1>3, <1>4, <1>5 DEF TrustNext, TunnelStep

-----------------------------------------------------------------------------
(* The cache *)

LEMMA NewestKept ==
    ASSUME Typed, NewestOnWay, [TrustNext]_trustVars
    PROVE  NewestOnWay'
<1> USE DEF Typed, TrustTypeOK
<1>1. ASSUME NEW u \in Ui, PairStep(u) \/ TunnelStep(u) PROVE NewestOnWay'
  <2>1. task[u].at \notin {"write", "record"} /\ row' = row /\ seen' = seen
    BY <1>1 DEF PairStep, StartPair, PairIdentity, PairTrusted, PairRefused, PairSave,
         PairSaveFails, TunnelStep, StartTunnel, Establish, EstablishFails, Insert, At
  <2>2. /\ task'[u].at \notin {"write", "record"}
        /\ \A v \in Ui \ {u} : task'[v] = task[v]
    BY <1>1, PairStarts, TunnelStarts, AskFields, EndFields, EstablishFields
       DEF PairStep, TunnelStep
  <2>3. Observing' = Observing
    BY <2>1, <2>2 DEF Observing
  <2> QED BY <2>1, <2>2, <2>3 DEF NewestOnWay, Observing, At
<1>2. ASSUME NEW u \in Ui, ReadLive(u) \/ AppInstalled(u) PROVE NewestOnWay'
  <2> DEFINE mode == IF devMode THEN "on" ELSE "off"
  <2>1. /\ task'[u].at \in {"write", "record"} /\ task'[u].mode = mode
        /\ task'[u].at = "record" => task'[u].mode = "on"
        /\ \A v \in Ui \ {u} : task'[v] = task[v]
    BY <1>2, ReadStarts, InstallStarts DEF AppInstalled
  <2>2. task[u].at = "idle" /\ seen' = IF Observing = {} THEN mode ELSE "any"
    BY <1>2 DEF ReadLive, AppInstalled, Observe, At
  <2> HIDE DEF mode
  <2>3. Observing' = Observing \cup {u}
    BY <2>1, <2>2 DEF Observing
  <2> QED BY <2>1, <2>2, <2>3 DEF NewestOnWay, Observing, At
<1>3. ASSUME NEW u \in Ui, WriteCache(u) \/ WriteCacheFails(u) \/ RecordDevice(u)
      PROVE  NewestOnWay'
  <2>1. task'[u].at = "idle" /\ \A v \in Ui \ {u} : task'[v] = task[v]
    BY <1>3, EndFields
  <2>2. u \in Observing /\ Observing' = Observing \ {u}
    BY <1>3, <2>1 DEF Observing, WriteCache, WriteCacheFails, RecordDevice, At
  <2>3. /\ WriteCache(u) => row' = (IF row = "absent" THEN row ELSE task[u].mode)
                            /\ seen' = (IF row = "absent" THEN "any" ELSE seen)
        /\ WriteCacheFails(u) => seen' = "any"
        /\ RecordDevice(u) => row' = "on" /\ seen' = seen /\ task[u].at = "record"
    BY DEF WriteCache, WriteCacheFails, RecordDevice, At
  <2> QED BY <1>3, <2>1, <2>2, <2>3 DEF NewestOnWay, Observing, At
<1>4. CASE PlugOrPull \/ ToggleDevMode \/ IdevicePair \/ UNCHANGED trustVars
  BY <1>4 DEF PlugOrPull, ToggleDevMode, IdevicePair, trustVars, NewestOnWay, Observing, At
<1>5. ASSUME NEW unpair \in BOOLEAN, Untrust(unpair) PROVE NewestOnWay'
  <2>1. /\ \A u \in Ui : task'[u].at = task[u].at /\ task'[u].mode = task[u].mode
        /\ row' = row /\ seen' = seen
    BY <1>5, AloneFields DEF Untrust
  <2> QED BY <2>1 DEF NewestOnWay, Observing, At
<1> QED BY <1>1, <1>2, <1>3, <1>4, <1>5 DEF TrustNext, ModeStep

-----------------------------------------------------------------------------
(* The pairing *)

LEMMA PairingKept ==
    ASSUME Typed, OneKnown, SavesTrusted, [TrustNext]_trustVars
    PROVE  (OneKnown /\ SavesTrusted)'
<1> USE DEF Typed, TrustTypeOK
<1> SUFFICES OneKnown' /\ SavesTrusted' OBVIOUS
<1>1. ASSUME NEW u \in Ui, ModeStep(u) \/ TunnelStep(u) \/ StartPair(u)
      PROVE  OneKnown' /\ SavesTrusted'
  <2>1. /\ task[u].at \notin {"ask", "save"}
        /\ UNCHANGED <<trusts, pairRecord, churned, agreed>>
    BY <1>1 DEF ModeStep, ReadLive, WriteCache, WriteCacheFails, AppInstalled, RecordDevice,
         TunnelStep, StartTunnel, Establish, EstablishFails, Insert, StartPair, At, Observing
  <2>2. /\ task'[u].at \notin {"ask", "save"}
        /\ \A v \in Ui \ {u} : task'[v] = task[v]
    BY <1>1, PairStarts, TunnelStarts, ReadStarts, InstallStarts, EndFields, EstablishFields
       DEF ModeStep, TunnelStep
  <2>3. Pairing' = Pairing /\ Known' = Known
    BY <2>1, <2>2 DEF Pairing, Known
  <2>4. \A v \in Ui : task'[v].at = "save" <=> task[v].at = "save"
    BY <2>1, <2>2
  <2>5. \A v \in Pairing : task'[v] = task[v]
    BY <2>1, <2>2 DEF Pairing
  <2>6. OneKnown' BY <2>1, <2>3, <2>4, <2>5 DEF OneKnown, At
  <2>7. SavesTrusted' BY <2>1, <2>2 DEF SavesTrusted, At
  <2> QED BY <2>6, <2>7
<1>2. ASSUME NEW u \in Ui, PairIdentity(u) PROVE OneKnown' /\ SavesTrusted'
  <2>1. /\ task[u].at = "identity" /\ task'[u].at = "ask"
        /\ churned' \/ (task'[u].id = Known /\ churned' = churned)
        /\ \A v \in Ui \ {u} : task'[v] = task[v]
        /\ UNCHANGED <<trusts, pairRecord, agreed>>
    BY <1>2, AskFields DEF PairIdentity
  <2>2. Known' = Known /\ Pairing' = Pairing \cup {u}
    BY <2>1 DEF Known, Pairing
  <2>3. \A v \in Ui : task'[v].at = "save" <=> task[v].at = "save"
    BY <2>1
  <2>4. OneKnown' BY <2>1, <2>2, <2>3 DEF OneKnown, At, Pairing
  <2>5. SavesTrusted' BY <2>1 DEF SavesTrusted, At
  <2> QED BY <2>4, <2>5
<1>3. ASSUME NEW u \in Ui, PairTrusted(u) PROVE OneKnown' /\ SavesTrusted'
  <2>1. /\ task[u].at = "ask" /\ task'[u].at = "save" /\ task'[u].id = task[u].id
        /\ \A v \in Ui \ {u} : task'[v] = task[v]
        /\ trusts' = trusts \cup {task[u].id}
        /\ UNCHANGED <<pairRecord, agreed, churned>>
    BY <1>3, AskFields DEF PairTrusted
  <2>2. Known' = Known /\ Pairing' = Pairing /\ u \in Pairing
    BY <2>1 DEF Known, Pairing
  <2>3. OneKnown' BY <2>1, <2>2 DEF OneKnown, At, Pairing
  <2>4. SavesTrusted' BY <2>1 DEF SavesTrusted, At
  <2> QED BY <2>3, <2>4
<1>4. ASSUME NEW u \in Ui, PairRefused(u) PROVE OneKnown' /\ SavesTrusted'
  <2>1. /\ task[u].at = "ask" /\ task'[u].at = "idle"
        /\ \A v \in Ui \ {u} : task'[v] = task[v]
        /\ UNCHANGED <<trusts, pairRecord, agreed, churned>>
    BY <1>4, EndFields DEF PairRefused, At
  <2>2. Known' = Known /\ Pairing' = Pairing \ {u}
    BY <2>1 DEF Known, Pairing
  <2>3. OneKnown' BY <2>1, <2>2 DEF OneKnown, At, Pairing
  <2>4. SavesTrusted' BY <2>1 DEF SavesTrusted, At
  <2> QED BY <2>3, <2>4
<1>5. ASSUME NEW u \in Ui, PairSave(u) PROVE OneKnown' /\ SavesTrusted'
  <2>1. /\ task[u].at = "save" /\ task'[u].at = "idle"
        /\ pairRecord' = task[u].id /\ agreed' = task[u].alone
        /\ \A v \in Ui \ {u} : task'[v] = task[v]
        /\ UNCHANGED <<trusts, churned>>
    BY <1>5, EndFields DEF PairSave, At
  <2>2. Pairing' = Pairing \ {u} /\ u \in Pairing
    BY <2>1 DEF Pairing
  <2>3. pairRecord' # "none" /\ Known' = task[u].id
    BY <2>1, <2>2 DEF Known, HostId
  <2>4. OneKnown'
    <3>1. churned \/ task[u].id = Known
      BY <2>2 DEF OneKnown
    <3> QED BY <3>1, <2>1, <2>2, <2>3 DEF OneKnown, At, Pairing
  <2>5. SavesTrusted' BY <2>1 DEF SavesTrusted, At
  <2> QED BY <2>4, <2>5
<1>6. ASSUME NEW u \in Ui, PairSaveFails(u) PROVE OneKnown' /\ SavesTrusted'
  <2>1. /\ task[u].at = "save" /\ task'[u].at = "idle"
        /\ churned' = (churned \/ pairRecord # task[u].id)
        /\ \A v \in Ui \ {u} : task'[v] = task[v]
        /\ UNCHANGED <<trusts, pairRecord, agreed>>
    BY <1>6, EndFields DEF PairSaveFails, At
  <2>2. Pairing' = Pairing \ {u} /\ u \in Pairing /\ Known' = Known
    BY <2>1 DEF Pairing, Known
  <2>3. OneKnown'
    <3>1. ASSUME ~ churned' PROVE pairRecord # "none" /\ ~ churned
      BY <3>1, <2>1, <2>2 DEF HostId
    <3> QED BY <3>1, <2>1, <2>2 DEF OneKnown, At, Pairing
  <2>4. SavesTrusted' BY <2>1 DEF SavesTrusted, At
  <2> QED BY <2>3, <2>4
<1>7. CASE PlugOrPull \/ ToggleDevMode \/ UNCHANGED trustVars
  BY <1>7 DEF PlugOrPull, ToggleDevMode, trustVars, OneKnown, SavesTrusted, Pairing, Known, At
<1>8. CASE IdevicePair
  <2>1. /\ pairRecord' = IF pairRecord = "none" THEN "idevicepair" ELSE pairRecord
        /\ trusts' = trusts \cup {pairRecord'}
        /\ churned' = (churned \/ Pairing # {})
        /\ task' = task /\ agreed' = agreed
    BY <1>8 DEF IdevicePair
  <2>2. Pairing' = Pairing /\ pairRecord' # "none"
    BY <2>1 DEF Pairing
  <2>3. OneKnown'
    <3>1. ASSUME ~ churned' PROVE trusts \subseteq {pairRecord'} /\ Pairing = {}
      <4>1. ~ churned /\ Pairing = {}
        BY <3>1, <2>1
      <4>2. \A v \in Ui : ~ At(v, "save")
        BY <4>1 DEF Pairing, At
      <4> QED BY <4>1, <4>2, <2>1 DEF OneKnown, Known
    <3> QED BY <3>1, <2>1, <2>2 DEF OneKnown, Known
  <2>4. SavesTrusted' BY <2>1 DEF SavesTrusted, At
  <2> QED BY <2>3, <2>4
<1>9. ASSUME NEW unpair \in BOOLEAN, Untrust(unpair) PROVE OneKnown' /\ SavesTrusted'
  <2>1. /\ trusts' = {} /\ agreed' = FALSE /\ churned' = (Pairing # {})
        /\ \A v \in Ui : task'[v].at = task[v].at /\ task'[v].alone = FALSE
    BY <1>9, AloneFields DEF Untrust
  <2>2. Pairing' = Pairing BY <2>1 DEF Pairing
  <2> QED BY <2>1, <2>2 DEF OneKnown, SavesTrusted, At
<1> QED BY <1>1, <1>2, <1>3, <1>4, <1>5, <1>6, <1>7, <1>8, <1>9 DEF TrustNext, PairStep

-----------------------------------------------------------------------------

TrustInv == Typed /\ Distinct /\ TunnelsAccounted /\ NewestOnWay /\ OneKnown /\ SavesTrusted

LEMMA TrustInitial == TrustInit => TrustInv
<1> SUFFICES ASSUME TrustInit PROVE TrustInv
  OBVIOUS
<1>1. NoTask \in Task /\ NoTask.at = "idle" /\ NoTask.tunnel = {}
  BY DEF Task, NoTask, TrustPlace
<1>2. \A u \in Ui : task[u] = NoTask
  BY DEF TrustInit
<1>3. Typed
  BY <1>1, <1>2 DEF TrustInit, Typed, TrustTypeOK, Pairing, Observing
<1>4. Distinct /\ TunnelsAccounted
  BY <1>1, <1>2 DEF TrustInit, Distinct, TunnelsAccounted, At
<1>5. NewestOnWay /\ OneKnown /\ SavesTrusted
  BY <1>1, <1>2 DEF TrustInit, NewestOnWay, OneKnown, SavesTrusted, Pairing, Observing, Known, At
<1> QED BY <1>3, <1>4, <1>5 DEF TrustInv

LEMMA TrustInvariant == TrustSpec => []TrustInv
<1>1. TrustInv /\ [TrustNext]_trustVars => TrustInv'
  BY TrustTypes, TunnelsKept, NewestKept, PairingKept DEF TrustInv
<1> QED BY <1>1, TrustInitial, PTL DEF TrustSpec

\* connect and status of tunneld.rs: however many commands establish tunnels at
\* once, none of them leaks and none is closed under the command that made it.
THEOREM NoTunnelLeaks == TrustSpec => []TunnelsAccounted
<1>1. TrustInv => TunnelsAccounted BY DEF TrustInv
<1> QED BY <1>1, TrustInvariant, PTL

\* developer_mode_status of lib.rs: the cached answer it falls back to is the
\* newest observation, whichever command made it.
THEOREM CacheIsNewest == TrustSpec => []FallbackIsNewest
<1>1. TrustInv => FallbackIsNewest
  <2> SUFFICES ASSUME TrustInv, Observing = {}, seen # "any" PROVE Fallback = seen
    BY DEF FallbackIsNewest
  <2>1. row = seen BY DEF TrustInv, NewestOnWay
  <2>2. seen \in {"on", "off"} BY DEF TrustInv, Typed, TrustTypeOK
  <2> QED BY <2>1, <2>2 DEF Fallback
<1> QED BY <1>1, TrustInvariant, PTL

\* pair_device of device/mod.rs keeps the one identity it shares with
\* idevicepair, for any number of pairings that race.
THEOREM IdentityShared == TrustSpec => []OneIdentity
<1>1. TrustInv => OneIdentity
  BY DEF TrustInv, OneKnown, OneIdentity
<1> QED BY <1>1, TrustInvariant, PTL

\* pair_device answers Ok over a record the phone accepts, until it is revoked.
THEOREM PairedStands == TrustSpec => []PairedIsTrusted
<1>1. TrustInv => PairedIsTrusted
  BY DEF TrustInv, SavesTrusted, PairedIsTrusted
<1> QED BY <1>1, TrustInvariant, PTL

-----------------------------------------------------------------------------
(* DeviceList: whose name a row carries *)

\* A row that came over USB carries the phone's own name or none, ...
CableRows ==
    /\ listing = "merge" => \A p \in DOMAIN list : ~list[p].wifi
    /\ listing \in {"merge", "overlay"} =>
          \A p \in DOMAIN list : ~list[p].wifi => list[p].name \in {p, NoName}

\* ... and so does a record that was not taken from a card.
SoundRecords ==
    \A p \in DOMAIN rowName \ doubted : rowName[p] \in {p, NoName}

ListInv == ListTypeOK /\ CableRows /\ SoundRecords

\* What usbmux lists and what each phone answers.
LEMMA EnumerateKeeps ==
    ASSUME ListInv, Enumerate
    PROVE  ListInv'
<1>1. PICK found \in {plugged, {}} : \E named \in SUBSET found :
          list' = [p \in found |->
                      [wifi |-> FALSE, name |-> IF p \in named THEN p ELSE NoName]]
  BY DEF Enumerate
<1>2. PICK named \in SUBSET found :
          list' = [p \in found |->
                      [wifi |-> FALSE, name |-> IF p \in named THEN p ELSE NoName]]
  BY <1>1
<1>3. found \subseteq Phone BY DEF ListInv, ListTypeOK
<1>4. DOMAIN list' = found BY <1>2
<1>5. \A p \in found : /\ list'[p] \in Row /\ ~list'[p].wifi
                       /\ list'[p].name \in {p, NoName}
  BY <1>2, <1>3 DEF Row, Name
<1>6. list' \in [DOMAIN list' -> Row] BY <1>2, <1>4, <1>5
<1>7. ListTypeOK'
  BY <1>3, <1>4, <1>6 DEF ListInv, ListTypeOK, IsSome, Enumerate
<1> QED BY <1>4, <1>5, <1>7 DEF ListInv, CableRows, SoundRecords, Enumerate

\* The Wi-Fi rows come in with no name of their own but a card's.
LEMMA MergeKeeps ==
    ASSUME ListInv, Merge
    PROVE  ListInv'
<1>1. DOMAIN list' = DOMAIN list \cup DOMAIN card BY DEF Merge
<1>2. \A p \in DOMAIN list : list'[p] = list[p] BY DEF Merge
<1>3. \A p \in DOMAIN card \ DOMAIN list : list'[p] = [wifi |-> TRUE, name |-> card[p]]
  BY DEF Merge
<1>4. \A p \in DOMAIN list' : list'[p] \in Row
  <2>1. \A p \in DOMAIN list : list[p] \in Row BY DEF ListInv, ListTypeOK, IsSome
  <2>2. \A p \in DOMAIN card : card[p] \in Name BY DEF ListInv, ListTypeOK, IsSome
  <2>3. \A p \in DOMAIN card : [wifi |-> TRUE, name |-> card[p]] \in Row
    BY <2>2 DEF Row
  <2> QED BY <1>1, <1>2, <1>3, <2>1, <2>3
<1>5. list' \in [DOMAIN list' -> Row] BY <1>1, <1>4 DEF Merge
<1>6. ListTypeOK' BY <1>1, <1>5 DEF ListInv, ListTypeOK, IsSome, Merge
<1>7. listing' = "overlay" /\ UNCHANGED <<rowName, doubted>> BY DEF Merge
<1>8. \A p \in DOMAIN list' : ~list'[p].wifi => list'[p].name \in {p, NoName}
  BY <1>1, <1>2, <1>3 DEF ListInv, CableRows, Merge
<1> QED BY <1>6, <1>7, <1>8 DEF ListInv, CableRows, SoundRecords

\* The overlay: a name that is wrong is a card's that no sound record corrects.
LEMMA OverlayKeeps ==
    ASSUME ListInv, Overlay
    PROVE  /\ ListInv'
           /\ \A p \in DOMAIN list' :
                 \/ list'[p].name \in {p, NoName}
                 \/ list'[p].wifi /\ (p \in doubted \/ p \notin DOMAIN rowName)
<1>1. DOMAIN list' = DOMAIN list BY DEF Overlay
<1>2. ASSUME NEW p \in DOMAIN list
      PROVE  /\ list'[p] \in Row
             /\ \/ list'[p].name \in {p, NoName}
                \/ list'[p].wifi /\ (p \in doubted \/ p \notin DOMAIN rowName)
  <2>1. list[p] \in Row BY DEF ListInv, ListTypeOK, IsSome
  <2>2. CASE list[p].wifi /\ p \in DOMAIN rowName
    <3>1. list'[p] = [list[p] EXCEPT !.name = rowName[p]] BY <2>2 DEF Overlay
    <3>2. rowName[p] \in Name BY <2>2 DEF ListInv, ListTypeOK, IsSome
    <3>3. /\ list'[p] \in Row /\ list'[p].wifi /\ list'[p].name = rowName[p]
      BY <2>1, <2>2, <3>1, <3>2 DEF Row
    <3> QED BY <2>2, <3>3 DEF ListInv, SoundRecords
  <2>3. CASE ~(list[p].wifi /\ p \in DOMAIN rowName)
    <3>1. list'[p] = list[p] BY <2>3 DEF Overlay
    <3> QED BY <2>1, <2>3, <3>1 DEF ListInv, CableRows, Overlay
  <2> QED BY <2>2, <2>3
<1>3. list' \in [DOMAIN list' -> Row] BY <1>1, <1>2 DEF Overlay
<1>4. ListTypeOK' BY <1>1, <1>3 DEF ListInv, ListTypeOK, IsSome, Overlay
<1> QED BY <1>1, <1>2, <1>4 DEF ListInv, CableRows, SoundRecords, Overlay

\* device_row_for: a record taken from a card is doubted.
LEMMA RowKeeps ==
    ASSUME ListInv, NEW p \in Phone, RecordRow(p)
    PROVE  ListInv'
<1>1. PICK fromCard \in BOOLEAN, name \in Name :
          /\ IF fromCard THEN p \in DOMAIN card /\ name = card[p]
             ELSE name \in {NoName} \cup ({p} \cap plugged)
          /\ rowName' = [q \in DOMAIN rowName \cup {p} |->
                           IF q = p THEN name ELSE rowName[q]]
          /\ doubted' = IF fromCard THEN doubted \cup {p} ELSE doubted \ {p}
  BY DEF RecordRow
<1>2. DOMAIN rowName' = DOMAIN rowName \cup {p} BY <1>1
<1>3. \A q \in DOMAIN rowName' : rowName'[q] = IF q = p THEN name ELSE rowName[q]
  BY <1>1, <1>2
<1>4. \A q \in DOMAIN rowName' : rowName'[q] \in Name
  BY <1>2, <1>3 DEF ListInv, ListTypeOK, IsSome
<1>5. rowName' \in [DOMAIN rowName' -> Name] BY <1>1, <1>2, <1>4
<1>6. UNCHANGED <<plugged, card, listing, list>> BY DEF RecordRow
<1>7. doubted' \subseteq DOMAIN rowName' BY <1>1, <1>2 DEF ListInv, ListTypeOK
<1>8. ListTypeOK'
  BY <1>2, <1>5, <1>6, <1>7 DEF ListInv, ListTypeOK, IsSome
<1>9. SoundRecords'
  BY <1>1, <1>2, <1>3 DEF ListInv, SoundRecords
<1> QED BY <1>6, <1>8, <1>9 DEF ListInv, CableRows

\* Phones come and go.
LEMMA OutsideKeeps ==
    ASSUME ListInv, ResolveWifi \/ Replug \/ UNCHANGED listVars
    PROVE  ListInv'
<1>1. UNCHANGED <<rowName, doubted, listing, list>>
  BY DEF ResolveWifi, Replug, listVars
<1>2. plugged' \subseteq Phone /\ IsSome(card, Name)'
  BY DEF ResolveWifi, Replug, listVars, ListInv, ListTypeOK, IsSome
<1>3. ListTypeOK' BY <1>1, <1>2 DEF ListInv, ListTypeOK, IsSome
<1> QED BY <1>1, <1>3 DEF ListInv, CableRows, SoundRecords

LEMMA ListStart == ListInit => ListInv
  BY DEF ListInit, ListInv, ListTypeOK, CableRows, SoundRecords, IsSome, Empty

LEMMA ListStep == ListInv /\ [ListNext]_listVars => ListInv'
  BY EnumerateKeeps, MergeKeeps, OverlayKeeps, RowKeeps, OutsideKeeps DEF ListNext

LEMMA ListInvariant == ListSpec => []ListInv
  BY ListStart, ListStep, PTL DEF ListSpec

\* list_devices merges the rows of usbmux with the cards of the Wi-Fi browse
\* (device/mod.rs) and overlays the recorded names (lib.rs): no row of the list
\* carries the name of another phone, as long as the record it was overlaid with
\* was not itself taken from a card.
THEOREM NamedRight == ListSpec => KnownByItsName
<1> DEFINE Right == \A p \in DOMAIN list' :
                       \/ list'[p].name \in {p, NoName}
                       \/ list'[p].wifi /\ (p \in doubted \/ p \notin DOMAIN rowName)
<1>1. ASSUME ListInv, ListNext, listing # "shown", listing' = "shown" PROVE Right
  <2>1. Overlay
    BY <1>1 DEF ListNext, Enumerate, Merge, ResolveWifi, RecordRow, Replug
  <2> QED BY <1>1, <2>1, OverlayKeeps
<1>2. ListInv /\ ListNext => (listing # "shown" /\ listing' = "shown" => Right)
  BY <1>1
<1> QED BY <1>2, ListInvariant, PTL DEF ListSpec, KnownByItsName

=============================================================================
