-------------------------------- MODULE Desktop --------------------------------
(***************************************************************************)
(* The parts of the app around the refresh engine, side by side.  They     *)
(* share no variable, so whatever part a property is about, it holds of    *)
(* the whole if it holds of that part alone: a behaviour picks one part    *)
(* that moves and leaves the others where they start.                      *)
(***************************************************************************)
EXTENDS Credentials, Autopilot, Sideload, OperationEvents, DeviceTrust,
        DeviceList, SigningPipeline, AppleQuota, Anisette

VARIABLE part  \* the part that moves

Part == {"account", "autopilot", "sideload", "events", "trust", "list",
         "pipeline", "quota", "anisette"}

desktopVars == <<part, credVars, autoVars, sideVars, eventVars, trustVars,
                 listVars, pipeVars, quotaVars, adiVars>>

DesktopTypeOK ==
    /\ part \in Part
    /\ part = "account"   => CredTypeOK
    /\ part = "autopilot" => AutoTypeOK
    /\ part = "sideload"  => SideTypeOK
    /\ part = "events"    => EventTypeOK
    /\ part = "trust"     => TrustTypeOK
    /\ part = "list"      => ListTypeOK
    /\ part = "pipeline"  => PipeTypeOK
    /\ part = "quota"     => QuotaTypeOK
    /\ part = "anisette"  => AdiTypeOK

\* A part that does not move starts in one fixed state.
DesktopInit ==
    /\ part \in Part
    /\ CredInit /\ (part # "account" => reachable)
    /\ AutoInit /\ (part # "autopilot" => mechanism = "systemd")
    /\ SideInit
    /\ EventInit
    /\ TrustInit /\ (part # "trust" => devMode /\ row = "absent")
    /\ ListInit
    /\ PipeInit
    /\ part # "pipeline" =>
          /\ provider = [method |-> "PaidCert", profile |-> TRUE]
          /\ \A b \in Bundle : original[b] = <<CHOOSE s \in Segment : TRUE>>
    /\ QuotaInit
    /\ AdiInit

DesktopNext ==
    \/ /\ part = "account" /\ CredNext
       /\ UNCHANGED <<part, autoVars, sideVars, eventVars, trustVars, listVars,
                      pipeVars, quotaVars, adiVars>>
    \/ /\ part = "autopilot" /\ AutoNext
       /\ UNCHANGED <<part, credVars, sideVars, eventVars, trustVars, listVars,
                      pipeVars, quotaVars, adiVars>>
    \/ /\ part = "sideload" /\ SideNext
       /\ UNCHANGED <<part, credVars, autoVars, eventVars, trustVars, listVars,
                      pipeVars, quotaVars, adiVars>>
    \/ /\ part = "events" /\ EventNext
       /\ UNCHANGED <<part, credVars, autoVars, sideVars, trustVars, listVars,
                      pipeVars, quotaVars, adiVars>>
    \/ /\ part = "trust" /\ TrustNext
       /\ UNCHANGED <<part, credVars, autoVars, sideVars, eventVars, listVars,
                      pipeVars, quotaVars, adiVars>>
    \/ /\ part = "list" /\ ListNext
       /\ UNCHANGED <<part, credVars, autoVars, sideVars, eventVars, trustVars,
                      pipeVars, quotaVars, adiVars>>
    \/ /\ part = "pipeline" /\ PipeNext
       /\ UNCHANGED <<part, credVars, autoVars, sideVars, eventVars, trustVars,
                      listVars, quotaVars, adiVars>>
    \/ /\ part = "quota" /\ QuotaNext
       /\ UNCHANGED <<part, credVars, autoVars, sideVars, eventVars, trustVars,
                      listVars, pipeVars, adiVars>>
    \/ /\ part = "anisette" /\ AdiNext
       /\ UNCHANGED <<part, credVars, autoVars, sideVars, eventVars, trustVars,
                      listVars, pipeVars, quotaVars>>

DesktopSpec == DesktopInit /\ [][DesktopNext]_desktopVars

=============================================================================
