--------------------------- MODULE CombinationSlice ---------------------------
(***************************************************************************)
(* What cmb(3) promises: the combinations of the requested sizes are given *)
(* to the action one after the other, in a fixed order, from the start'th  *)
(* one, and no more than count of them, until an action returns non-zero.  *)
(*                                                                         *)
(* Nothing here says how a combination is computed.  A combination is a    *)
(* set of item positions, and its place in the order is the number of      *)
(* combinations before it.                                                 *)
(***************************************************************************)
EXTENDS Integers, Sequences, FiniteSetsExt

VARIABLES
    conf,    \* the arguments of the call
    given,   \* the combinations the action was called with, in order
    result,  \* what the last call of the action returned
    over     \* whether the calls have ended

sliceVars == <<conf, given, result, over>>

MaxOf(a, b) == IF a > b THEN a ELSE b
MinOf(a, b) == IF a < b THEN a ELSE b

\* The ends of the range of sizes; zero, or no request, is replaced.
First(c) == IF c.min = 0 /\ c.max = 0 THEN 1 ELSE MaxOf(c.min, 1)
Final(c) == IF c.min = 0 /\ c.max = 0 THEN c.n ELSE MaxOf(c.max, 1)
Decreases(c) == MinOf(First(c), c.n) > MinOf(Final(c), c.n)

\* Nothing has that many items.
TooLarge(c) == First(c) > c.n /\ Final(c) > c.n

\* The sizes to be combined.  A range beyond the items is taken for all the
\* items at once, but cmb() without the empty set refuses it.
Sizes(c) ==
    (IF c.empty THEN {0} ELSE {}) \cup
    (IF c.n = 0 \/ (TooLarge(c) /\ ~ c.empty /\ ~ c.bn) THEN {}
     ELSE IF TooLarge(c) THEN {c.n}
     ELSE {k \in 1 .. c.n : /\ MinOf(First(c), Final(c)) <= k
                            /\ k <= MaxOf(First(c), Final(c))})

Combinations(c) == {s \in SUBSET (1 .. c.n) : Cardinality(s) \in Sizes(c)}

\* Combinations come by size; those of one size come in the order of the first
\* item in which they differ.
Before(c, a, b) ==
    \/ /\ Cardinality(a) # Cardinality(b)
       /\ (Cardinality(a) < Cardinality(b)) # Decreases(c)
    \/ /\ Cardinality(a) = Cardinality(b)
       /\ a # b
       /\ Min((a \ b) \cup (b \ a)) \in a

\* The sequence number of a combination, from 1.
Rank(c, s) == 1 + Cardinality({t \in Combinations(c) : Before(c, t, s)})

Begin(c) == MaxOf(c.start, 1)
\* How many combinations there are to give.
Quota(c) ==
    LET rest == MaxOf(0, Cardinality(Combinations(c)) - Begin(c) + 1)
    IN  IF c.count = 0 THEN rest ELSE MinOf(rest, c.count)

-----------------------------------------------------------------------------
Init == given = << >> /\ result = 0 /\ over = FALSE

\* The next combination of the order is given to the action.
Give ==
    /\ ~ over /\ result = 0
    /\ Len(given) < Quota(conf)
    /\ \E s \in Combinations(conf) :
          /\ Rank(conf, s) = Begin(conf) + Len(given)
          /\ given' = Append(given, s)
    /\ result' \in {0, 1}
    /\ over' \in {over, result' # 0 \/ Len(given') = Quota(conf)}
    /\ UNCHANGED conf

End ==
    /\ ~ over
    /\ result # 0 \/ Len(given) = Quota(conf)
    /\ over' = TRUE
    /\ UNCHANGED <<conf, given, result>>

Next == Give \/ End

\* What may happen, and that it goes on until the calls have ended.
Safety == Init /\ [][Next]_sliceVars
Spec == Safety /\ WF_sliceVars(Next)
=============================================================================
