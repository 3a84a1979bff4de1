SPECIFICATION DesktopSpec
CONSTANTS
  Account   = {a1, a2}
  Content   = {a1, a2}
  Phone     = {a1, a2}
  Command   = {c1, c2}
  Dialog    = {c1, c2}
  Ui        = {c1, c2}
  Attempt   = {c1, c2}
  Registrant = {c1, c2}
  Sweep     = {w1}
  NoAccount = "none"
  Unknown   = "unknown"
  NoContent = "none"
  NoName    = "none"
  AutoFaults = {"write", "systemctl", "timer", "service"}
  InstallOp = {"install"}
  RefreshOp = {"refresh"}
  Capacity  = 2
  Attempts  = 2
  Tunnel    = {"t1", "t2", "t3"}
  Segment   = {"s", "t"}
  Depth     = 2
  Main      = "main"
  Appex     = {"appex"}
  Framework = {}
  Slot      = {"s1", "s2", "s3", "s4"}
  Limit     = 2
  Window    = 2
  Lib       = {"l1", "l2"}
INVARIANTS
  DesktopTypeOK
  KeyringKept
  CleanRead
  OnMeansTriggered
  OffMeansNoTrigger
  ToggleIsRight
  KeptEverywhere
  NewestIsShown
  OneIdentity
  PairedIsTrusted
  FallbackIsNewest
  TunnelsAccounted
  AssociationKept
  OkIsInstallable
  FailFast
  OverrunBounded
  NoRemoteFallback
PROPERTIES
  ProgressForward
  KnownByItsName
SYMMETRY Symmetry
CHECK_DEADLOCK FALSE
