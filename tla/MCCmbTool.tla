------------------------------- MODULE MCCmbTool -------------------------------
(***************************************************************************)
(* Instances of CmbTool for TLC.                                           *)
(***************************************************************************)
EXTENDS CmbTool

Flag(o) == [o |-> o]
Number(o, k) == [o |-> o, num |-> k]
StartAt(k) == [o |-> "i", num |-> k, random |-> FALSE]
StartRandom == [o |-> "i", num |-> 0, random |-> TRUE]
Size(lo, hi) == [o |-> "k", lo |-> lo, hi |-> hi, single |-> FALSE]
OneSize(k) == [o |-> "k", lo |-> k, hi |-> k, single |-> TRUE]
Operation(op) == [o |-> "X", op |-> op]

NoFile == [missing |-> TRUE, text |-> << >>]
NoRange == [bad |-> TRUE, single |-> TRUE, lo |-> 0, hi |-> 0]
Word(t) == [text |-> <<t>>, range |-> NoRange, file |-> NoFile]
\* A digit is an item and a range; two of them make a range only.
Digit(d) == [text |-> <<ToString(d)>>, file |-> NoFile,
             range |-> [bad |-> FALSE, single |-> TRUE, lo |-> d, hi |-> d]]
Range2(lo, hi) == [text |-> <<"range">>, file |-> NoFile,
                   range |-> [bad |-> FALSE, single |-> FALSE, lo |-> lo, hi |-> hi]]
File(text) == [text |-> <<"path">>, range |-> NoRange, file |-> [missing |-> FALSE, text |-> text]]

Words == {<< >>, <<Word("x")>>, <<Word("x"), Word("y"), Word("z")>>, <<Digit(3), Digit(1), Digit(2)>>}
Ranges == {<<Digit(2), Range2(4, 2)>>, <<Range2(3, 3)>>, <<Range2(0, 2)>>, <<Range2(4, 1), Range2(1, 4)>>}
Files == {<<File(<<"1", "nl", "2", "nl">>), File(<<"3", "nl">>)>>,
          <<File(<<"a", "comma", "nl">>), File(<< >>)>>,
          <<File(<<"nl", "a", "nl">>), Word("x")>>,
          <<File(<<"a", "nl", "b">>)>>}
NulFiles == {<<File(<<"a", "nul", "b", "nul">>)>>, <<File(<<"a", "nl", "b", "nul", "c", "nl">>)>>}

\* What an option list chooses from; the first ones come first.
Modes == {<< >>, <<Flag("r")>>, <<Flag("f")>>, <<Flag("f"), Flag("0")>>,
          <<Flag("f"), [o |-> "d", text |-> "comma"]>>}
Engines == {<< >>, <<Flag("o")>>}
Sizes == {<< >>, <<Flag("e")>>, <<OneSize(2)>>, <<OneSize(-1)>>, <<Size(-1, 2)>>, <<Size(2, -1)>>, <<Size(-1, -1)>>}
Limits == {<< >>, <<Number("c", 2)>>, <<Flag("t")>>, <<Number("n", 1)>>, <<Flag("S")>>}
Places2 == {<< >>, <<StartAt(3), Flag("N")>>, <<Flag("N"), StartAt(-2)>>, <<StartAt(-9)>>, <<StartRandom>>}
Maths == {<< >>, <<Flag("N")>>, <<Operation("add"), Number("F", 3)>>, <<Operation("add")>>}

OperandsOf(mode) ==
    IF mode = << >> THEN Words ELSE IF mode = <<Flag("r")>> THEN Ranges
    ELSE IF Flag("0") \in {mode[i] : i \in DOMAIN mode} THEN NulFiles ELSE Files

Line0(a, ops) == [args |-> a, operands |-> ops]

\* Two kinds of settings together; with one more only for words.
Some(a, b) == a = << >> \/ b = << >>
AllLines ==
    UNION { { Line0(m \o g \o s \o l \o p \o x, ops) : ops \in OperandsOf(m) } :
        m \in Modes, g \in Engines, s \in Sizes,
        <<l, p, x>> \in {t \in Limits \X Places2 \X Maths :
                           Some(t[1], t[2]) /\ Some(t[1], t[3]) /\ Some(t[2], t[3])} }

\* Options that are refused, contradict or repeat each other, or come too late.
OddLines ==
    { Line0(a, ops) :
        a \in {<<Flag("?")>>, <<Flag("v")>>, <<Number("F", 3)>>, <<Number("P", 1)>>, <<Flag("0")>>,
               <<Operation("power")>>, <<Flag("r"), Flag("f")>>, <<Flag("f"), Flag("r")>>,
               <<Number("c", 2), Flag("o")>>, <<StartAt(-2), StartAt(3), Flag("N")>>,
               <<Flag("o"), StartAt(-2), StartAt(3)>>, <<StartRandom, StartAt(3)>>,
               <<Flag("e"), Flag("e")>>, <<Flag("o"), OneSize(5), StartRandom>>,
               <<Operation("add"), Number("P", 1), Number("F", 3)>>},
        ops \in {<< >>, <<Word("x"), Word("y")>>, <<Digit(1), Digit(2)>>,
                 <<Digit(2), Word("y")>>} }

ToolLines == AllLines \cup OddLines

FindLines == { Line0(<<Operation(op), Number("F", k)>>, <<Digit(1), Digit(2), Digit(3)>>) :
                 op \in {"add", "multiply"}, k \in {3, 6} }
NoConfigs == {}
=============================================================================
