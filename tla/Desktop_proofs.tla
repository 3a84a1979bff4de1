---------------------------- MODULE Desktop_proofs ----------------------------
(***************************************************************************)
(* What is proved of a part alone holds of the parts side by side: seen    *)
(* through the variables of any one part, a behaviour of the desktop is a  *)
(* behaviour of that part.                                                 *)
(***************************************************************************)
EXTENDS Desktop, Commands_proofs, Devices_proofs, Parked_proofs

\* Each part starts as it does alone, ...
LEMMA PartsStart ==
    DesktopInit =>
        /\ part \in Part
        /\ CredInit /\ AutoInit /\ SideInit /\ EventInit /\ TrustInit
        /\ ListInit /\ PipeInit /\ QuotaInit /\ AdiInit
BY DEF DesktopInit

\* ... and moves as it does alone, or not at all.
LEMMA PartsMove ==
    [DesktopNext]_desktopVars =>
        /\ [CredNext]_credVars /\ [AutoNext]_autoVars /\ [SideNext]_sideVars
        /\ [EventNext]_eventVars /\ [TrustNext]_trustVars /\ [ListNext]_listVars
        /\ [PipeNext]_pipeVars /\ [QuotaNext]_quotaVars /\ [AdiNext]_adiVars
        /\ UNCHANGED part
BY DEF DesktopNext, desktopVars

\* The desktop behaves as each of its parts does.
LEMMA DesktopParts ==
    DesktopSpec =>
        /\ CredSpec /\ AutoSpec /\ SideSpec /\ EventSpec /\ TrustSpec
        /\ ListSpec /\ PipeSpec /\ QuotaSpec /\ AdiSpec
        /\ [](part \in Part)
<1>1. part \in Part /\ UNCHANGED part => (part \in Part)'
  OBVIOUS
<1> QED
  BY <1>1, PartsStart, PartsMove, PTL
     DEF DesktopSpec, CredSpec, AutoSpec, SideSpec, EventSpec, TrustSpec,
         ListSpec, PipeSpec, QuotaSpec, AdiSpec

\* What the parts' invariants say together is what they say alone.
LEMMA DesktopInvariant ==
    DesktopSpec =>
        [](/\ part \in Part
           /\ CredInv /\ AutoInv /\ SideInv /\ EventInv /\ TrustInv
           /\ ListInv /\ PipeInv /\ QuotaInv /\ AdiInv)
BY DesktopParts, CredInvariant, AutoInvariant, SideInvariant, EventInvariant,
   TrustInvariant, ListInvariant, PipeInvariant, QuotaInvariant, AdiInvariant,
   PTL

\* The part that moves keeps the shape of its state, whatever calls, phones and
\* failures it meets: the type invariant of the composition.
THEOREM DesktopTypes == DesktopSpec => []DesktopTypeOK
<1>1. /\ part \in Part
      /\ CredInv /\ AutoInv /\ SideInv /\ EventInv /\ TrustInv
      /\ ListInv /\ PipeInv /\ QuotaInv /\ AdiInv
      => DesktopTypeOK
  BY DEF DesktopTypeOK, CredInv, AutoInv, SideInv, EventInv, Sent, TrustInv,
         Typed, ListInv, PipeInv, QuotaInv, AdiInv
<1> QED BY <1>1, DesktopInvariant, PTL

\* The composition keeps what its parts promise: the commands of lib.rs over the
\* keyring (signer.rs), the agent's triggers (agent.rs), the IPA store and the
\* event ring (operation.rs), the phones (device/), and the parked signing path
\* (signing/).  The parts share no variable, so each promise is proved once, of
\* its own part.
THEOREM DesktopKeeps ==
    DesktopSpec =>
        /\ []KeyringKept /\ []CleanRead
        /\ []OnMeansTriggered /\ []OffMeansNoTrigger /\ []ToggleIsRight
        /\ []KeptEverywhere
        /\ []NewestIsShown /\ ProgressForward
        /\ []OneIdentity /\ []PairedIsTrusted
        /\ []FallbackIsNewest /\ []TunnelsAccounted
        /\ KnownByItsName
        /\ []AssociationKept /\ []OkIsInstallable
        /\ []FailFast /\ []OverrunBounded
        /\ []NoRemoteFallback
BY DesktopParts, PromiseKept, NoTornRead, OnTriggers, OffSilences,
   ToggleAgrees, InstallStands, DialogsCatchUp, DialogsGoForward, IdentityShared,
   PairedStands, CacheIsNewest, NoTunnelLeaks, NamedRight, AssociationStands,
   OkInstallable, FailsFast, RaceIsBounded, StaysLocal, PTL

=============================================================================
