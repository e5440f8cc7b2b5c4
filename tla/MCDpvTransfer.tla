---------------------------- MODULE MCDpvTransfer ----------------------------
(***************************************************************************)
(* Instances of DpvTransfer for TLC: small invocations of dpv(1).          *)
(***************************************************************************)
EXTENDS DpvTransfer

Solo == [n |-> 1, lines |-> <<1>>, limit |-> 0, rows |-> 24, base |-> 6,
         noOverrun |-> FALSE, test |-> FALSE, increment |-> 1,
         kinds |-> << <<"ch", "nl", "ch">> >>, length |-> <<3>>,
         openable |-> <<TRUE>>, outOK |-> <<TRUE>>, sink |-> <<1>>,
         multiple |-> FALSE, lineMode |-> FALSE, display |-> "LIBDIALOG",
         piped |-> TRUE, stale |-> 0, space |-> 20, output |-> "NONE"]

Many == [n |-> 3, lines |-> <<1, 1, 1>>, limit |-> 2, rows |-> 24, base |-> 6,
         noOverrun |-> FALSE, test |-> FALSE, increment |-> 1,
         kinds |-> << <<"ch", "nl", "ch">>, << >>, <<"nl", "nl">> >>,
         length |-> <<3, -1, 1>>,
         openable |-> <<TRUE, TRUE, TRUE>>, outOK |-> <<TRUE, TRUE, TRUE>>,
         sink |-> <<1, 2, 3>>,
         multiple |-> TRUE, lineMode |-> FALSE, display |-> "LIBDIALOG",
         piped |-> FALSE, stale |-> 0, space |-> 20, output |-> "NONE"]

\* Each file to an output of its own; paths that cannot be opened, outputs that
\* cannot be created, output files that exist already.
ManyInvocations ==
    { [Many EXCEPT !.output = o, !.display = d, !.openable[2] = b, !.lineMode = l,
                   !.stale = t, !.piped = p] :
        o \in {"NONE", "FILE", "SHELL"}, d \in {"LIBDIALOG", "DIALOG"},
        b \in BOOLEAN, l \in BOOLEAN, t \in {0, 4}, p \in BOOLEAN }
    \cup { [Many EXCEPT !.output = "FILE", !.outOK[2] = FALSE] }

\* The standard input, in the combinations dialog(3) can serve.
StdinInvocations ==
    { [Solo EXCEPT !.output = o, !.noOverrun = v, !.lineMode = l, !.length[1] = n] :
        o \in {"NONE", "FILE", "SHELL"}, v \in BOOLEAN, l \in BOOLEAN, n \in {-1, 1, 3} }
    \cup { [Solo EXCEPT !.output = "NONE", !.display = "DIALOG"],
           [Solo EXCEPT !.lineMode = TRUE, !.length[1] = 0],
           [Solo EXCEPT !.kinds[1] = <<"nl", "nul", "nl", "ch">>, !.lineMode = TRUE] }

\* -N with one file, and with several: none, one or more are cut at their
\* length, and a path may not open.
CutInvocations ==
    { [Solo EXCEPT !.noOverrun = TRUE, !.output = o, !.length[1] = n,
                   !.kinds[1] = <<"ch", "nl", "ch", "nl", "ch">>, !.lineMode = l] :
        o \in {"NONE", "FILE"}, n \in {-1, 0, 1, 2, 4}, l \in BOOLEAN }
    \cup { [Many EXCEPT !.noOverrun = TRUE, !.output = o, !.length = t, !.openable[2] = b,
                        !.lineMode = l] :
        o \in {"NONE", "FILE"}, t \in {<<-1, -1, -1>>, <<1, -1, 1>>, <<2, 2, 1>>},
        b \in BOOLEAN, l \in BOOLEAN }

\* Few descriptors; disks too small for the data; one output file for all;
\* commands that do not fit their buffer.
TightInvocations ==
    { [Many EXCEPT !.output = "FILE", !.space = s, !.sink = k] :
        s \in 0 .. 4, k \in {<<1, 2, 3>>, <<1, 1, 1>>} }
    \cup { [Many EXCEPT !.output = "SHELL", !.outOK[1] = FALSE],
           [Many EXCEPT !.output = "SHELL", !.piped = TRUE],
           [Solo EXCEPT !.output = "FILE", !.stale = 1] }

Invocations == ManyInvocations \cup StdinInvocations \cup CutInvocations

AnyPercent == {-1} \cup {(r * 100) \div l : r \in 0 .. 6, l \in 1 .. 6}
=============================================================================
