------------------------- MODULE ExecutionContract -------------------------
(***************************************************************************)
(* What an execution promises to whoever started it and to whoever pays    *)
(* for its steps, whatever is paused, cancelled, retried or replanned:     *)
(*                                                                         *)
(*   - the execution is closed once, with one outcome;                     *)
(*   - no step is tried more often than the retry budget allows, to which  *)
(*     every further execute() on the same context adds one try;           *)
(*                                                                         *)
(* and, as long as execute() is called once:                               *)
(*                                                                         *)
(*   - a step that has succeeded is never given to the executor again;     *)
(*   - an execution that is completed or failed makes no further try.      *)
(*                                                                         *)
(* A cancelled execution may go on trying steps: cancel() interrupts       *)
(* nothing, and the loop reads the abort signal only.                      *)
(***************************************************************************)
EXTENDS Naturals

CONSTANTS
    Steps,   \* step ids
    Budget   \* how often one step may be tried

VARIABLES
    calls,    \* how many execute() calls were accepted
    outcome,  \* "open", or how the execution was closed
    done,     \* the steps that have succeeded
    tries     \* how often each step has been tried

vars == <<calls, outcome, done, tries>>

Init ==
    /\ calls = 0
    /\ outcome = "open"
    /\ done = {}
    /\ tries = [s \in Steps |-> 0]

Call ==
    /\ outcome = "open"
    /\ calls' = calls + 1
    /\ UNCHANGED <<outcome, done, tries>>

Try(s) ==
    /\ calls > 0
    /\ calls = 1 => outcome \in {"open", "cancelled"} /\ s \notin done
    /\ tries[s] + 1 < Budget + calls
    /\ tries' = [tries EXCEPT ![s] = @ + 1]
    /\ done' \in {done, done \cup {s}}
    /\ UNCHANGED <<calls, outcome>>

Close(o) ==
    /\ outcome = "open"
    /\ outcome' = o
    /\ UNCHANGED <<calls, done, tries>>

Next ==
    \/ Call
    \/ \E s \in Steps : Try(s)
    \/ \E o \in {"completed", "cancelled", "failed"} : Close(o)

Spec == Init /\ [][Next]_vars
=============================================================================
