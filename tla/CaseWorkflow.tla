---------------------------- MODULE CaseWorkflow ----------------------------
(***************************************************************************)
(* PaymentCaseWorkflow as Temporal runs it.  Signals and the timer reach   *)
(* the workflow in activations: the signals that wait are delivered first, *)
(* the coroutine runs until it waits again or ends, and a timer that fires *)
(* in the same activation finds its wait over if a signal was delivered.   *)
(* A worker that dies replays the same activations, so a crash changes     *)
(* nothing.  The workflow applies any status it is sent: it does not       *)
(* consult the transition table of domain/state_machine.py.                *)
(***************************************************************************)
EXTENDS Naturals, SequencesExt

CONSTANTS Starts,     \* statuses the workflow may be started with
          Statuses,   \* statuses that may be signalled
          MaxSignals  \* bound on the signals of one workflow

VARIABLES phase,      \* "new", "waiting" (in wait_condition) or "done"
          status,     \* self.status
          inbox,      \* the statuses signalled and not yet delivered
          cancelled,  \* whether the cancellation was signalled
          expired,    \* whether the timer of the current wait has fired
          received,   \* every status signalled so far, delivered or not
          applied     \* the signalled statuses the workflow took, in order
vars == <<phase, status, inbox, cancelled, expired, received, applied>>

Terminal == {"PAID", "CLOSED", "CANCELLED"}

Init ==
    /\ phase = "new"
    /\ status \in Starts
    /\ inbox = <<>> /\ received = <<>> /\ applied = <<>>
    /\ cancelled = FALSE /\ expired = FALSE

Transition(next) ==
    /\ phase # "done"
    /\ Len(received) < MaxSignals
    /\ inbox' = Append(inbox, next)
    /\ received' = Append(received, next)
    /\ UNCHANGED <<phase, status, cancelled, expired, applied>>

Cancel ==
    /\ phase # "done" /\ ~ cancelled
    /\ cancelled' = TRUE
    /\ UNCHANGED <<phase, status, inbox, expired, received, applied>>

Expire ==
    /\ phase = "waiting" /\ ~ expired
    /\ expired' = TRUE
    /\ UNCHANGED <<phase, status, inbox, cancelled, received, applied>>

\* Mutant: the newest signal first.
NewestFirst == Reverse(inbox)
Pending == inbox

\* Mutant: the wait goes on when only the cancellation arrives.
CancelAfterTimeout == cancelled /\ expired
Stopped == cancelled

(* The statuses popped before the loop ends: up to the first terminal one, *)
(* none when the workflow starts in a terminal status.                     *)
Taken ==
    LET ends == {i \in DOMAIN Pending : Pending[i] \in Terminal}
        last == IF ends = {} THEN Len(Pending) ELSE CHOOSE i \in ends : \A j \in ends : i <= j
    IN IF status \in Terminal THEN <<>> ELSE SubSeq(Pending, 1, last)

(* The loop's condition is false at once when the cancellation came with   *)
(* the start: the workflow then ends with the status it was started with.  *)
Outcome ==
    IF Stopped THEN [status |-> IF phase = "new" THEN status ELSE "CANCELLED",
                     taken |-> <<>>, ends |-> TRUE]
    ELSE IF Taken # <<>> THEN [status |-> Last(Taken), taken |-> Taken,
                               ends |-> Last(Taken) \in Terminal]
    ELSE IF expired THEN [status |-> "OVERDUE", taken |-> <<>>, ends |-> FALSE]
    ELSE [status |-> status, taken |-> <<>>, ends |-> status \in Terminal]

Activate ==
    /\ phase = "new" \/ (phase = "waiting" /\ (inbox # <<>> \/ cancelled \/ expired))
    /\ status' = Outcome.status
    /\ applied' = applied \o Outcome.taken
    /\ phase' = IF Outcome.ends THEN "done" ELSE "waiting"
    /\ inbox' = <<>> /\ expired' = FALSE
    /\ UNCHANGED <<cancelled, received>>

Next == \/ \E next \in Statuses : Transition(next)
        \/ Cancel \/ Expire \/ Activate

Spec == Init /\ [][Next]_vars /\ WF_vars(Activate)

-----------------------------------------------------------------------------
(* Signals are applied in the order they were sent and none is skipped:    *)
(* while the workflow waits with an empty inbox all are applied, and only  *)
(* an end (a terminal status or a cancellation) leaves signals unapplied.  *)
(* It ends in a terminal status unless cancelled before it began.          *)
SignalsInOrder ==
    /\ IsPrefix(applied, received)
    /\ phase = "waiting" /\ inbox = <<>> => applied = received
    /\ phase = "done" => status \in Terminal \/ cancelled

(* A case that was cancelled ends, as does one that was sent a terminal    *)
(* status, however signals and timer fall together.                        *)
MustEnd == cancelled \/ \E i \in DOMAIN received : received[i] \in Terminal
CasesEnd == MustEnd ~> (phase = "done")
=============================================================================
