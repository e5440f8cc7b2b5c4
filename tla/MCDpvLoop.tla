------------------------------ MODULE MCDpvLoop ------------------------------
(***************************************************************************)
(* Instances of DpvLoop for TLC.                                           *)
(***************************************************************************)
EXTENDS DpvLoop

Base == [n |-> 2, lines |-> <<1, 1>>, limit |-> 0, rows |-> 24, base |-> 6,
         output |-> "NONE", noOverrun |-> FALSE, test |-> FALSE, increment |-> 1]

\* Lists of no, one and three files; pages of one, two and many files; a screen
\* on which only smaller pages fit; labels of several lines; an output file.
ClientConfigs ==
    { [Base EXCEPT !.n = 0, !.lines = << >>],
      [Base EXCEPT !.n = 1, !.lines = <<1>>, !.output = "FILE"],
      [Base EXCEPT !.n = 3, !.lines = <<1, 2, 1>>, !.limit = 2],
      [Base EXCEPT !.n = 3, !.lines = <<1, 1, 2>>, !.limit = 3, !.rows = 8],
      [Base EXCEPT !.n = 2, !.limit = 1, !.noOverrun = TRUE],
      [Base EXCEPT !.n = 2, !.limit = -5],
      [Base EXCEPT !.n = 2, !.rows = 6] }

\* Longer lists, for the paging: the last page is full, or not; the screen forces
\* smaller pages on the list, or none at all.
PagingConfigs ==
    { [Base EXCEPT !.n = 4, !.lines = l, !.limit = 2, !.rows = r] :
        l \in {<<2, 1, 1, 2>>, <<1, 1, 3, 1>>}, r \in {8, 9} }
    \cup { [Base EXCEPT !.n = 5, !.lines = <<1, 2, 1, 1, 1>>, !.rows = 9] }

\* Test mode, with the increments of dialog(1) and of Xdialog(1).
TestConfigs ==
    { [Base EXCEPT !.n = n, !.lines = [f \in 1 .. n |-> 1], !.test = TRUE,
                   !.increment = i, !.limit = 2] : n \in {1, 3}, i \in {1, 15} }

LoopConfigs == ClientConfigs \cup PagingConfigs \cup TestConfigs

AnyPct == {-1, 50, 100, 105}
=============================================================================
