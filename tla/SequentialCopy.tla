---------------------------- MODULE SequentialCopy ----------------------------
(***************************************************************************)
(* What dpv(1) promises: the sources are copied one after the other, each  *)
(* to an output of its own, in order, and a source that is reported done   *)
(* was copied whole.                                                       *)
(***************************************************************************)
EXTENDS Integers, Sequences

VARIABLES
    src,      \* the contents of the sources
    current,  \* the source being copied, 0 before the first
    copied,   \* what each output received
    outcome,  \* what became of each source
    running   \* whether copying goes on

copyVars == <<src, current, copied, outcome, running>>

Outcome == {"RUNNING", "DONE", "FAILED"}
Sources == DOMAIN src

IsPrefixOf(s, t) == Len(s) <= Len(t) /\ s = SubSeq(t, 1, Len(s))

Init ==
    /\ current = 0 /\ running = TRUE
    /\ copied = [f \in Sources |-> << >>]
    /\ outcome = [f \in Sources |-> "RUNNING"]

\* Some more of the current source arrives at its output.
Copy ==
    /\ running /\ current \in Sources /\ outcome[current] = "RUNNING"
    /\ \E m \in (Len(copied[current]) + 1) .. Len(src[current]) :
          copied' = [copied EXCEPT ![current] = SubSeq(src[current], 1, m)]
    /\ UNCHANGED <<src, current, outcome, running>>

\* The current source is over: copied whole, or not readable at all.
End ==
    /\ running /\ current \in Sources /\ outcome[current] = "RUNNING"
    /\ \/ copied[current] = src[current] /\ outcome' = [outcome EXCEPT ![current] = "DONE"]
       \/ copied[current] = << >> /\ outcome' = [outcome EXCEPT ![current] = "FAILED"]
    /\ UNCHANGED <<src, current, copied, running>>

\* The next source is taken up when the current one is over.
Advance ==
    /\ running /\ current < Len(src)
    /\ current # 0 => outcome[current] # "RUNNING"
    /\ current' = current + 1
    /\ UNCHANGED <<src, copied, outcome, running>>

\* Copying stops: at the end of the list, or before it for good.
Stop ==
    /\ running
    /\ running' = FALSE
    /\ current' \in {current, current + 1}
    /\ UNCHANGED <<src, copied, outcome>>

Next == Copy \/ End \/ Advance \/ Stop

Spec == Init /\ [][Next]_copyVars
=============================================================================
