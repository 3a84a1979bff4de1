-------------------------- MODULE OperationEvents --------------------------
(***************************************************************************)
(* Progress of the long-running commands: the broadcast channel of         *)
(* operation.rs, the task of lib.rs that forwards its events to the        *)
(* window, and the dialog that shows the newest one (useOperation).        *)
(* What an operation does between its events is left to Sideload and       *)
(* RefreshScheduler.                                                       *)
(***************************************************************************)
EXTENDS Naturals, Sequences

CONSTANTS
    InstallOp,  \* operation ids of import dialogs
    RefreshOp,  \* operation ids of refresh dialogs
    Capacity,   \* of the channel (256 in the code)
    Attempts    \* calls made under one operation id: bounds the retries

ASSUME ChannelAssumption ==
    /\ InstallOp \cap RefreshOp = {}
    /\ Capacity \in Nat \ {0} /\ Attempts \in Nat \ {0}

VARIABLES
    active,     \* the operations whose command has not returned
    sent,       \* the newest event of each operation
    queue,      \* the events the bridge has not received
    lagged,     \* its next recv answers Lagged
    lost,       \* the operations whose newest event was dropped
    shown       \* the event each dialog shows

eventVars == <<active, sent, queue, lagged, lost, shown>>

Operation == InstallOp \cup RefreshOp

\* OperationStage, as far as it is sent, and its progress in percent.
Progress == [none |-> 0, queued |-> 0, preparing |-> 10, locating |-> 20,
             signing |-> 30, awaiting2fa |-> 50, installing |-> 85,
             done |-> 100, failed |-> 100]

\* What may follow a stage within a call that comes to an end of its own.
Follows == [queued     |-> {"preparing"},
            preparing  |-> {"locating"},
            locating   |-> {"signing"},
            signing    |-> {"installing", "awaiting2fa"},
            installing |-> {"done"},
            done       |-> {"done"}]

Event   == [attempt: 0 .. Attempts, stage: DOMAIN Progress]
NoEvent == [attempt |-> 0, stage |-> "none"]

EventTypeOK ==
    /\ active \subseteq Operation
    /\ sent \in [Operation -> Event] /\ shown \in [Operation -> Event]
    /\ Len(queue) <= Capacity
    /\ \A i \in 1 .. Len(queue) : queue[i] \in [op: Operation, event: Event]
    /\ lagged \in BOOLEAN /\ lost \subseteq Operation

EventInit ==
    /\ active = {}
    /\ sent = [o \in Operation |-> NoEvent] /\ shown = sent
    /\ queue = <<>> /\ lagged = FALSE /\ lost = {}

-----------------------------------------------------------------------------
(* Operation *)

\* Mutant: the channel grows.
EmitUnbounded(o, event) ==
    /\ sent' = [sent EXCEPT ![o] = event]
    /\ queue' = Append(queue, [op |-> o, event |-> event])
    /\ UNCHANGED <<lagged, lost, shown>>

\* broadcast::Sender::send: a full ring drops its oldest event, and the
\* receiver will be told that it lagged.
Emit(o, event) ==
    LET full    == Len(queue) = Capacity
        dropped == {p \in Operation :
                      full /\ Head(queue) = [op |-> p, event |-> sent[p]]}
    IN  /\ sent' = [sent EXCEPT ![o] = event]
        /\ queue' = Append(IF full THEN Tail(queue) ELSE queue,
                           [op |-> o, event |-> event])
        /\ lagged' = (lagged \/ full)
        /\ lost' = (lost \cup dropped) \ {o}
        /\ shown' = shown

\* OperationChannel::start, in the first call under this id or in a retry.
StartOperation(o) ==
    /\ o \notin active /\ sent[o].attempt < Attempts
    /\ active' = active \cup {o}
    /\ Emit(o, [attempt |-> sent[o].attempt + 1, stage |-> "queued"])

\* Mutant: a failed call is put back to where it started.
FailAtZero(o) ==
    /\ o \in active /\ sent[o].stage # "done"
    /\ active' = active \ {o}
    /\ Emit(o, [sent[o] EXCEPT !.stage = "queued"])

\* Operation::fail, from any stage; the command returns.
FailOperation(o) ==
    /\ o \in active /\ sent[o].stage # "done"
    /\ active' = active \ {o}
    /\ Emit(o, [sent[o] EXCEPT !.stage = "failed"])

\* Operation::stage and Operation::done.  A refresh asks for no code, and its
\* engine sends Done twice.
AdvanceOperation(o) ==
    /\ o \in active
    /\ \E s \in Follows[sent[o].stage] :
          /\ s = "awaiting2fa" => o \in InstallOp
          /\ Emit(o, [sent[o] EXCEPT !.stage = s])
          /\ active' = IF \/ s = "awaiting2fa"
                          \/ s = "done" /\ (o \in InstallOp \/ sent[o].stage = s)
                       THEN active \ {o} ELSE active

\* refresh_installation: an error of a statement of its bookkeeping returns at
\* once, and sends nothing.
ReturnSilently(o) ==
    /\ o \in active \cap RefreshOp /\ sent[o].stage # "done"
    /\ active' = active \ {o}
    /\ UNCHANGED <<sent, queue, lagged, lost, shown>>

-----------------------------------------------------------------------------
(* The bridge task *)

\* recv answers the oldest event, and the window gets it.
Forward ==
    /\ queue # <<>> /\ ~lagged
    /\ shown' = [shown EXCEPT ![Head(queue).op] = Head(queue).event]
    /\ queue' = Tail(queue)
    /\ UNCHANGED <<active, sent, lagged, lost>>

\* Mutant: a receiver that lagged subscribes anew, to what is sent from now on.
LagResubscribes ==
    /\ lagged
    /\ lagged' = FALSE
    /\ queue' = <<>>
    /\ UNCHANGED <<active, sent, lost, shown>>

\* recv answers Lagged: go on with the oldest event that is still there.
Lag ==
    /\ lagged
    /\ lagged' = FALSE
    /\ UNCHANGED <<active, sent, queue, lost, shown>>

EventNext ==
    \/ \E o \in Operation :
          \/ StartOperation(o) \/ AdvanceOperation(o)
          \/ FailOperation(o) \/ ReturnSilently(o)
    \/ Forward \/ Lag

EventSpec == EventInit /\ [][EventNext]_eventVars

-----------------------------------------------------------------------------
(* Properties *)

\* Events may be dropped, but a dialog is not left at the wrong end for it:
\* once the bridge has caught up, each dialog whose newest event was not itself
\* dropped shows exactly that event.
NewestIsShown ==
    queue = <<>> => \A o \in Operation \ lost : shown[o] = sent[o]

\* Whatever was dropped on the way, a dialog never goes back to an earlier call
\* nor, within one call, to a lower progress.
ProgressForward ==
    [][\A o \in Operation :
          \/ shown'[o].attempt > shown[o].attempt
          \/ /\ shown'[o].attempt = shown[o].attempt
             /\ Progress[shown'[o].stage] >= Progress[shown[o].stage]]_eventVars

=============================================================================
