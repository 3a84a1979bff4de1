\* One user signs in for the session, then to the keyring with another account.
SPECIFICATION CredSpec
CONSTANTS
  Account   = {a1, a2}
  Command   = {c1}
  Sweep     = {w1}
  NoAccount = "none"
  Unknown   = "unknown"
INVARIANTS
  SwitchReplaces
