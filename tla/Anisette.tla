------------------------------- MODULE Anisette -------------------------------
(***************************************************************************)
(* The gate before the parked Apple login: authenticate of                 *)
(* signing/free_apple_id.rs with signing/adi.rs, on the two libraries that *)
(* setup/adi_provision.rs extracts one after the other.                    *)
(***************************************************************************)
CONSTANTS
    Lib,        \* ADI_LIB_NAMES
    Attempt     \* calls of authenticate that are in flight together

VARIABLES
    lib,        \* the files: absent, cut short, or whole
    extract,    \* the libraries provision_from_apk has yet to write
    login,      \* where each call is
    calm,       \* no provisioning ran since the call began
    remote      \* the calls that omnisette took to a remote server

adiVars == <<lib, extract, login, calm, remote>>

AdiTypeOK ==
    /\ lib \in [Lib -> {"absent", "short", "whole"}]
    /\ extract \subseteq Lib
    /\ login \in [Attempt -> {"idle", "verify", "apple"}]
    /\ calm \subseteq Attempt /\ remote \subseteq Attempt

AdiInit ==
    /\ lib = [l \in Lib |-> "absent"]
    /\ extract = {}
    /\ login = [c \in Attempt |-> "idle"]
    /\ calm = {} /\ remote = {}

-----------------------------------------------------------------------------
(* provision_from_apk: each run overwrites both libraries *)

Provision ==
    /\ extract = {}
    /\ extract' = Lib /\ calm' = {}
    /\ UNCHANGED <<lib, login, remote>>

\* fs::write truncates the file, then fills it.
WriteBegins(l) ==
    /\ l \in extract /\ lib[l] # "short"
    /\ lib' = [lib EXCEPT ![l] = "short"]
    /\ calm' = {}
    /\ UNCHANGED <<extract, login, remote>>

WriteEnds(l) ==
    /\ l \in extract /\ lib[l] = "short"
    /\ lib' = [lib EXCEPT ![l] = "whole"]
    /\ extract' = extract \ {l}
    /\ calm' = {}
    /\ UNCHANGED <<login, remote>>

\* The APK has no libraries for this host, the disk is full, the app dies.
ProvisionFails ==
    /\ extract # {}
    /\ extract' = {}
    /\ UNCHANGED <<lib, login, calm, remote>>

-----------------------------------------------------------------------------
(* authenticate *)

\* require_provisioned only asks whether the files are there.
RequireProvisioned(c) ==
    /\ login[c] = "idle"
    /\ \A l \in Lib : lib[l] # "absent"
    /\ login' = [login EXCEPT ![c] = "verify"]
    /\ calm' = IF extract = {} THEN calm \cup {c} ELSE calm \ {c}
    /\ remote' = remote \ {c}
    /\ UNCHANGED <<lib, extract>>

\* Mutant: files that are there are taken to load.
VerifyPresentOnly(c) ==
    /\ login[c] = "verify"
    /\ \/ (\A l \in Lib : lib[l] # "absent") /\ login' = [login EXCEPT ![c] = "apple"]
       \/ login' = [login EXCEPT ![c] = "idle"]
    /\ UNCHANGED <<lib, extract, calm, remote>>

\* verify_local_provider loads them: what does not load, or is answered by a
\* remote provider, is refused.
VerifyLocalProvider(c) ==
    /\ login[c] = "verify"
    /\ \/ (\A l \in Lib : lib[l] = "whole") /\ login' = [login EXCEPT ![c] = "apple"]
       \/ login' = [login EXCEPT ![c] = "idle"]
    /\ UNCHANGED <<lib, extract, calm, remote>>

\* icloud_auth has omnisette load them again, and omnisette falls back to a
\* remote server when they do not load.
AppleLogin(c) ==
    /\ login[c] = "apple"
    /\ remote' = IF \A l \in Lib : lib[l] = "whole" THEN remote ELSE remote \cup {c}
    /\ login' = [login EXCEPT ![c] = "idle"]
    /\ UNCHANGED <<lib, extract, calm>>

AdiNext ==
    \/ Provision \/ ProvisionFails
    \/ \E l \in Lib : WriteBegins(l) \/ WriteEnds(l)
    \/ \E c \in Attempt : RequireProvisioned(c) \/ VerifyLocalProvider(c) \/ AppleLogin(c)

AdiSpec == AdiInit /\ [][AdiNext]_adiVars

-----------------------------------------------------------------------------
(* Properties *)

\* No login ever slides into remote anisette, whatever an earlier provisioning
\* that failed or was killed left on disk, unless the libraries are provisioned
\* anew in the middle of the call.
NoRemoteFallback == remote \cap calm = {}

=============================================================================
