---------------------------- MODULE MCDistInstall ----------------------------
\* A release of two distributions; the name of the first begins that of the
\* second, which MANIFEST may not list.
EXTENDS DistInstall

TwoNames == <<<<"base">>, <<"base", "-dbg">>>>
OneAndTwo == <<1, 2>>
Line(d, n) == [name |-> d, count |-> n]
Base == [n |-> 2, lines |-> <<1, 1>>, limit |-> 0, rows |-> 24, base |-> 6,
         output |-> "NONE", noOverrun |-> FALSE, test |-> FALSE, increment |-> 1]
OneOrTwo == {Base, [Base EXCEPT !.n = 1, !.lines = <<1>>]}
Manifest == <<Line(TwoNames[2], 2), Line(TwoNames[1], 1)>>
AnyManifest == {Manifest, <<Line(TwoNames[1], 1)>>, <<Line(TwoNames[1], 0)>>, <<>>}
FromPercent == -1..200
=============================================================================
