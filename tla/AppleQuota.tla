------------------------------ MODULE AppleQuota ------------------------------
(***************************************************************************)
(* The local mirror of Apple's rolling-window quota (signing/quota.rs,     *)
(* parked), for one Apple ID and one kind of event: device registrations   *)
(* or App ID creations, which are counted apart.                           *)
(*                                                                         *)
(* check, the call to Apple and record are three steps of a registrant,    *)
(* and time passes between them.  A registration is a slot; its age is     *)
(* counted from when Apple confirmed it, and again from when it was        *)
(* recorded; at age Window it has left the window.                         *)
(***************************************************************************)
EXTENDS Integers, FiniteSets

CONSTANTS
    Registrant, \* flows that register under this Apple ID
    Slot,       \* names for the registrations that are remembered
    Limit,      \* MAX_DEVICE_REGISTRATIONS, MAX_APP_IDS
    Window      \* WINDOW_SECS

ASSUME QuotaAssumption ==
    /\ IsFiniteSet(Registrant) /\ IsFiniteSet(Slot)
    /\ Limit \in Nat /\ Window \in Nat

VARIABLES
    apple,      \* age of each registration in Apple's own books
    logged,     \* age of its row in apple_quota_events
    phase,      \* where each registrant is
    fresh,      \* the confirmed registration it has to record
    sole        \* no other registrant was under way since its check

quotaVars == <<apple, logged, phase, fresh, sole>>

QuotaTypeOK ==
    /\ apple \in [Slot -> 0 .. Window] /\ logged \in [Slot -> 0 .. Window]
    /\ phase \in [Registrant -> {"idle", "call", "record"}]
    /\ fresh \in [Registrant -> SUBSET Slot]
    /\ sole \in [Registrant -> BOOLEAN]

QuotaInit ==
    /\ apple = [s \in Slot |-> Window] /\ logged = apple
    /\ phase = [r \in Registrant |-> "idle"]
    /\ fresh = [r \in Registrant |-> {}]
    /\ sole = [r \in Registrant |-> FALSE]

-----------------------------------------------------------------------------

\* The rows with ts > now - WINDOW_SECS.
InWindow(age) == {s \in Slot : age[s] < Window}

UnderWay == {r \in Registrant : phase[r] # "idle"}

Unused == {s \in Slot : apple[s] = Window /\ logged[s] = Window}
              \ UNION {fresh[r] : r \in Registrant}

\* Mutant: one more than the limit is let through.
CheckOneMore(r) ==
    /\ phase[r] = "idle"
    /\ ~ Cardinality(InWindow(logged)) > Limit
    /\ phase' = [phase EXCEPT ![r] = "call"]
    /\ sole' = [q \in Registrant |-> q = r /\ UnderWay = {}]
    /\ UNCHANGED <<apple, logged, fresh>>

\* check: at the limit it fails, and no call is made.
Check(r) ==
    /\ phase[r] = "idle"
    /\ ~ Cardinality(InWindow(logged)) >= Limit
    /\ phase' = [phase EXCEPT ![r] = "call"]
    /\ sole' = [q \in Registrant |-> q = r /\ UnderWay = {}]
    /\ UNCHANGED <<apple, logged, fresh>>

\* Apple counts for itself.
AppleConfirms(r) ==
    /\ phase[r] = "call"
    /\ Cardinality(InWindow(apple)) < Limit
    /\ \E s \in Unused :
          /\ apple' = [apple EXCEPT ![s] = 0]
          /\ fresh' = [fresh EXCEPT ![r] = {s}]
    /\ phase' = [phase EXCEPT ![r] = "record"]
    /\ UNCHANGED <<logged, sole>>

\* A call that is refused, or does not get through, is not recorded.
AppleRefuses(r) ==
    /\ phase[r] = "call"
    /\ phase' = [phase EXCEPT ![r] = "idle"]
    /\ UNCHANGED <<apple, logged, fresh, sole>>

\* record, with the time of the INSERT.
Record(r) ==
    /\ phase[r] = "record"
    /\ logged' = [s \in Slot |-> IF s \in fresh[r] THEN 0 ELSE logged[s]]
    /\ fresh' = [fresh EXCEPT ![r] = {}]
    /\ phase' = [phase EXCEPT ![r] = "idle"]
    /\ UNCHANGED <<apple, sole>>

\* The INSERT fails, or the process dies before it.
RecordLost(r) ==
    /\ phase[r] = "record"
    /\ fresh' = [fresh EXCEPT ![r] = {}]
    /\ phase' = [phase EXCEPT ![r] = "idle"]
    /\ UNCHANGED <<apple, logged, sole>>

\* The same Apple ID is used on another computer.
Elsewhere ==
    /\ Cardinality(InWindow(apple)) < Limit
    /\ \E s \in Unused : apple' = [apple EXCEPT ![s] = 0]
    /\ UNCHANGED <<logged, phase, fresh, sole>>

\* A unit of time; Apple's clock and this one go at one pace, never back.
Older(age) == [s \in Slot |-> IF age[s] < Window THEN age[s] + 1 ELSE Window]

Tick ==
    /\ apple' = Older(apple) /\ logged' = Older(logged)
    /\ UNCHANGED <<phase, fresh, sole>>

QuotaNext ==
    \/ \E r \in Registrant :
          \/ Check(r) \/ AppleConfirms(r) \/ AppleRefuses(r)
          \/ Record(r) \/ RecordLost(r)
    \/ Elsewhere \/ Tick

QuotaSpec == QuotaInit /\ [][QuotaNext]_quotaVars

-----------------------------------------------------------------------------
(* Properties *)

\* The mirror is conservative: although rows are written later than Apple
\* counts, and leave the window later, a registrant that got past its check
\* alone will not be turned away for the quota, as long as Apple counts nothing
\* that was never recorded here.
FailFast ==
    InWindow(apple) \subseteq InWindow(logged) =>
        \A r \in Registrant :
            phase[r] = "call" /\ sole[r] => Cardinality(InWindow(apple)) < Limit

\* Registrants that pass the check together overrun the limit by no more than
\* there are of them, less one.
OverrunBounded ==
    UnderWay # {} =>
        Cardinality(InWindow(logged)) + Cardinality(UnderWay)
            <= Limit - 1 + Cardinality(Registrant)

=============================================================================
