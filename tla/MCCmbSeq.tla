------------------------------- MODULE MCCmbSeq -------------------------------
(***************************************************************************)
(* Instances of CmbSeq for TLC: every range of sizes, also reversed and    *)
(* beyond the items, of up to four items.                                  *)
(***************************************************************************)
EXTENDS CmbSeq

Config(n, lo, hi, c, s, e, num, b, stop) ==
    [n |-> n, min |-> lo, max |-> hi, count |-> c, start |-> s,
     empty |-> e, numbers |-> num, bn |-> b, mayStop |-> stop]

\* An action that stops a call which goes down to the empty set is called once
\* more, with the empty set: such calls are left out.  Numbers matter to a start, and cmb_bn()
\* differs from cmb() only for sizes that are out of range.
ToldApart(c) ==
    /\ StopsCleanly(c)
    /\ c.numbers => c.start > 1
    /\ c.bn => OutOfRange(c)

Of(n, counts, starts) ==
    { Config(n, lo, hi, k, s, e, num, b, stop) :
        lo \in 0 .. (n + 1), hi \in 0 .. (n + 1), k \in counts, s \in starts,
        e \in BOOLEAN, num \in BOOLEAN, b \in BOOLEAN, stop \in BOOLEAN }

\* Per number of items: the limits and the starts.
SmallConfigs ==
    { c \in UNION { Of(0, {0, 1}, {0, 2}), Of(1, {0, 1, 2}, {0, 2, 3}),
                    Of(2, {0, 1, 3}, {0, 2, 3, 4, 5}), Of(3, {0, 2}, {0, 2, 4, 7, 8}),
                    Of(4, {0, 3}, {0, 5, 11, 16}) } : ToldApart(c) }

=============================================================================
