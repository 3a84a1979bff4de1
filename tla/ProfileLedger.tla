---------------------------- MODULE ProfileLedger ----------------------------
(***************************************************************************)
(* What unattended refreshing promises: RefreshScheduler, as long as only  *)
(* sweeps run, seen without its tables, statements and job queue.          *)
(*                                                                         *)
(* One sweep at a time may renew a profile.  It renews only what has come  *)
(* into its lead window and may be tried now, books no more time than the  *)
(* phone has and no less than was booked, and settles each attempt: the    *)
(* installation may be tried again within BackoffCap, or waits for a       *)
(* person.  What a sweep that died had begun may still reach the phone, at *)
(* any later time: such a renewal only adds to what the phone has.         *)
(***************************************************************************)
EXTENDS Integers

CONSTANTS
    Install,    \* the installations
    Sweeper,    \* the sweeps
    Lifetime,   \* of a profile
    Lead,       \* how long before its expiry a profile is renewed
    BackoffCap, \* the longest delay until the next try
    Slack,      \* how much later the booked expiry may be than the real one
    None        \* no sweep

VARIABLES
    clock,
    sweeper,    \* the sweep that may renew, or None
    phone,      \* expiry of the profile on the phone
    booked,     \* expiry on record
    adrift,     \* installations with a renewal under way that no sweep awaits
    gate        \* whether, and when, each installation may be tried again

ledgerVars == <<clock, sweeper, phone, booked, adrift, gate>>

Init ==
    /\ clock = 0 /\ sweeper = None /\ adrift = {}
    /\ \A i \in Install : booked[i] <= phone[i] + Slack
    /\ \A i \in Install : ~gate[i].blocked /\ gate[i].next <= clock

MayTry(i) == ~gate[i].blocked /\ gate[i].next <= clock

Tick ==
    /\ clock' = clock + 1
    /\ UNCHANGED <<sweeper, phone, booked, adrift, gate>>

Begin ==
    /\ sweeper = None
    /\ sweeper' \in Sweeper
    /\ UNCHANGED <<clock, phone, booked, adrift, gate>>

Due(i) == MayTry(i) /\ booked[i] <= clock + Lead

\* A fresh profile reaches the phone.
Lands(i) == phone' = [phone EXCEPT ![i] = clock + Lifetime]

Renew(i) ==
    /\ sweeper # None
    /\ Due(i)
    /\ Lands(i)
    /\ UNCHANGED <<clock, sweeper, booked, adrift, gate>>

Book(i) ==
    /\ sweeper # None
    /\ booked' = [booked EXCEPT ![i] = booked'[i]]
    /\ booked[i] <= booked'[i] /\ booked'[i] <= phone[i] + Slack
    /\ UNCHANGED <<clock, sweeper, phone, adrift, gate>>

Settle(i) ==
    /\ sweeper # None
    /\ MayTry(i)
    /\ gate' = [gate EXCEPT ![i] = gate'[i]]
    /\ gate'[i].blocked \/ gate'[i].next <= clock + BackoffCap
    /\ UNCHANGED <<clock, sweeper, phone, booked, adrift>>

\* It ends, or dies and leaves the renewal of a due installation to itself.
End ==
    /\ sweeper # None
    /\ sweeper' = None
    /\ UNCHANGED adrift \/ \E i \in Install : Due(i) /\ adrift' = adrift \cup {i}
    /\ UNCHANGED <<clock, phone, booked, gate>>

\* A renewal adrift ends, with or without a fresh profile on the phone; there may
\* be another of the same installation.
Drift(i) ==
    /\ i \in adrift
    /\ adrift' \in {adrift, adrift \ {i}}
    /\ Lands(i) \/ UNCHANGED phone
    /\ UNCHANGED <<clock, sweeper, booked, gate>>

Next ==
    \/ Tick \/ Begin \/ End
    \/ \E i \in Install : Renew(i) \/ Book(i) \/ Settle(i) \/ Drift(i)

Spec == Init /\ [][Next]_ledgerVars

=============================================================================
