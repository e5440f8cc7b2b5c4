--------------------------------- MODULE PyCmb ---------------------------------
(***************************************************************************)
(* The Python binding of libcmb: CMB objects and the functions of the      *)
(* module.                                                                 *)
(*                                                                         *)
(* An object keeps a cmb_config.  cmb() runs the library on copies of a    *)
(* list's strings; cmb_callback() runs it on the Python objects            *)
(* themselves, with an action that hands every combination to a Python     *)
(* function: the function, the list it is given and the tuple around it    *)
(* are globals of the module.  The items are put into that list without a  *)
(* reference, which the list nevertheless gives back when it goes.         *)
(*                                                                         *)
(* The library's steps are those of CmbSeq; its state is that of the call  *)
(* that runs, or that ran last.  A call of cmb_callback() from inside the  *)
(* function is one step: it has come to its end before the function has.   *)
(***************************************************************************)
EXTENDS CmbSeq

CONSTANTS
    Objects,    \* the CMB objects
    Functions,  \* the Python functions
    Lengths,    \* how long the lists of items are
    Numbers,    \* the numbers that attributes are set to
    ItemRefs,   \* how often a program refers to each item of a list
    MaxCalls    \* bound: how many operations a program has

ASSUME MaxCallsAssumption == MaxCalls \in Nat
ASSUME LengthsAssumption == Lengths \subseteq 0 .. MaxItems
ASSUME NumbersAssumption == Numbers \subseteq Nat    \* PyLong_AsUnsignedLong()
ASSUME ItemRefsAssumption == ItemRefs \subseteq Nat \ {0}    \* its list does

NoOne == "none"
ASSUME FunctionsAssumption == NoOne \notin Functions

VARIABLES
    config,    \* the cmb_config of each object: attributes and action
    running,   \* what the module is doing
    self,      \* the object of the call
    length,    \* size: the length of its list
    func,      \* py_cmb_func
    refs,      \* the references to a function: the program's and the module's
    tuple,     \* whether stub_cmb_func_args is there
    list,      \* stub_cmb_func_list: the positions of the items in it
    listSize,  \* stub_cmb_func_list_size
    held,      \* how often the program refers to each of its items
    items,     \* the references that are left of these
    seen,      \* what the function was called with last
    calls,     \* how many operations there were
    misuse     \* whether the program did what the module does not bear

stub == <<func, refs, tuple, list, listSize, items, seen>>
pyVars == <<config, running, self, length, stub, held, calls, misuse>>
vars == <<pyVars, cmbVars>>

NoValue == -1
NumberKeys == {"count", "start", "size_min", "size_max"}
FlagKeys == {"debug", "nul_terminate", "show_empty", "show_numbers"}
TextKeys == {"delimiter", "prefix", "suffix"}
Keys == NumberKeys \cup FlagKeys \cup TextKeys

\* bzero() and calloc(): no text, no option, the default action.
Zeroed == [k \in Keys \cup {"action"} |-> IF k = "action" THEN "print" ELSE 0]

PyInit ==
    /\ conf = [n |-> 0, min |-> 0, max |-> 0, count |-> 0, start |-> 0, empty |-> FALSE,
               numbers |-> FALSE, bn |-> FALSE, mayStop |-> FALSE]
    /\ Calling
    /\ config = [o \in Objects |-> Zeroed]
    /\ running = "nothing" /\ self = NoOne /\ length = 0
    /\ func = NoOne /\ refs = [f \in Functions |-> 1]
    /\ tuple = FALSE /\ list = << >> /\ listSize = 0 /\ seen = << >>
    /\ held \in ItemRefs /\ items = << >>
    /\ calls = 0 /\ misuse = FALSE

-----------------------------------------------------------------------------
(***************************************************************************)
(* Attributes.                                                             *)
(***************************************************************************)
\* The program's next operation.
Operation == running = "nothing" /\ calls < MaxCalls /\ calls' = calls + 1

Assign(o, k, v) == config' = [config EXCEPT ![o][k] = v]

\* What is no number takes a number's attribute back.
SetNumber(o, k, v) ==
    /\ Operation
    /\ Assign(o, k, IF v = NoValue THEN 0 ELSE v)
    /\ UNCHANGED <<running, self, length, stub, held, misuse, cmbVars>>

SetFlag(o, k, v) ==
    /\ Operation
    /\ Assign(o, k, IF v \in {0, NoValue} THEN 0 ELSE 1)
    /\ UNCHANGED <<running, self, length, stub, held, misuse, cmbVars>>

\* A text is copied; what is no text takes it back.
SetText(o, k, v) ==
    /\ Operation
    /\ Assign(o, k, IF v = NoValue THEN 0 ELSE 1)
    /\ UNCHANGED <<running, self, length, stub, held, misuse, cmbVars>>

\* Whatever is assigned to keys, everything is forgotten, the action as well.
SetKeys(o) ==
    /\ Operation
    /\ config' = [config EXCEPT ![o] = Zeroed]
    /\ UNCHANGED <<running, self, length, stub, held, misuse, cmbVars>>

SetAttribute ==
    \E o \in Objects :
        \/ \E k \in NumberKeys, v \in Numbers \cup {NoValue} : SetNumber(o, k, v)
        \/ \E k \in FlagKeys, v \in {0, 1, NoValue} : SetFlag(o, k, v)
        \/ \E k \in TextKeys, v \in {1, NoValue} : SetText(o, k, v)
        \/ SetKeys(o)

-----------------------------------------------------------------------------
(***************************************************************************)
(* The functions of the module.                                            *)
(***************************************************************************)
\* The library is entered with the object's configuration.
Enter(o, n, stops) ==
    /\ self' = o
    /\ conf' = [n |-> n, min |-> config[o].size_min, max |-> config[o].size_max,
                count |-> config[o].count, start |-> config[o].start,
                empty |-> config[o].show_empty = 1, numbers |-> config[o].show_numbers = 1,
                bn |-> FALSE, mayStop |-> stops]
    /\ pc' = "call" /\ curset' = 0 /\ ncombos' = 1 /\ combo' = 0 /\ setnums' = << >>
    /\ doseek' = FALSE /\ seek' = 0 /\ left' = 0 /\ seq' = 1 /\ ret' = 0 /\ log' = << >>

\* cmb(): with copies of the strings; the object's action is what it was set to.
CallPrint(o, n) ==
    /\ Operation
    /\ running' = "cmb" /\ length' = n
    /\ misuse' = (misuse \/ config[o].action = "stub")
    /\ Enter(o, n, FALSE)
    /\ UNCHANGED <<config, stub, held>>

\* The function of the last call is given up, although that call gave it up at
\* its end; the new one is kept.
Kept(f) ==
    LET less == IF func = NoOne THEN refs ELSE [refs EXCEPT ![func] = @ - 1]
    IN  [less EXCEPT ![f] = @ + 1]

\* cmb_callback(): n items of the list, whatever its length.
CallCallback(o, n, size, f) ==
    /\ Operation
    /\ misuse' = (misuse \/ func # NoOne \/ n > size)
    /\ running' = "callback" /\ length' = size
    /\ func' = f /\ refs' = Kept(f)
    /\ config' = [config EXCEPT ![o].action = "stub"]
    /\ listSize' = 0 /\ list' = << >> /\ tuple' = TRUE /\ seen' = << >>
    /\ items' = [i \in 1 .. size |-> held] /\ UNCHANGED held
    /\ Enter(o, n, TRUE)

\* A list goes, and with each item in it a reference that is not the list's.
Released(l) == [i \in DOMAIN items |-> IF i \in Range(l) THEN items[i] - 1 ELSE items[i]]
EmptyList(s) == [i \in DOMAIN s |-> 0]

\* What is gone, was never there, or is given back once too often.
Broken(s, l, have) ==
    \/ ~ tuple \/ Len(l) < Len(s) \/ refs[func] <= 0
    \/ \E i \in DOMAIN s : s[i] \in DOMAIN have => have[s[i]] <= 0
    \/ \E i \in DOMAIN have : have[i] < 0

\* The items are put into the list l, and the function is called.  Where
\* something is gone, the interpreter may come down, or the function may find
\* anything in its place.
Handed(s, l, have) ==
    /\ listSize' = Len(l) /\ items' = have
    /\ list' = [i \in DOMAIN l |-> IF i \in DOMAIN s THEN s[i] ELSE l[i]]
    /\ \/ ~ Broken(s, l, have) /\ seen' = list' /\ UNCHANGED running
       \/ Broken(s, l, have) /\ running' = "crashed" /\ UNCHANGED seen
       \/ Broken(s, l, have) /\ tuple /\ seen' \in {list', EmptyList(l)} /\ UNCHANGED running

\* Mutant: a list that is long enough is kept.
StubKeepsList(s) ==
    IF listSize < Len(s) THEN Handed(s, EmptyList(s), Released(list)) ELSE Handed(s, list, items)

\* Mutant: there is a new list for every combination.
StubNewList(s) == Handed(s, EmptyList(s), Released(list))

\* stub_cmb_func(): a list of another size takes the place of the one in the
\* tuple, which goes.
Stub(s) ==
    IF listSize # Len(s) THEN Handed(s, EmptyList(s), Released(list)) ELSE Handed(s, list, items)

\* A step of the library; a combination goes to the object's action.
InsideCmb ==
    /\ running \in {"cmb", "callback"}
    /\ Next
    /\ IF log' = log \/ config[self].action = "print"
       THEN UNCHANGED <<running, stub>>
       ELSE IF running = "callback"
       THEN Stub(log'[Len(log')].items) /\ UNCHANGED <<func, refs, tuple>>
       ELSE running' = "crashed" /\ UNCHANGED stub
    /\ UNCHANGED <<config, self, length, held, calls, misuse>>

\* The function itself calls cmb_callback(): its own globals are gone with the
\* inner call, if that ends well (see Return).
CallFromFunction(o, f) ==
    /\ running = "callback" /\ log # << >> /\ calls < MaxCalls
    /\ calls' = calls + 1 /\ misuse' = TRUE
    /\ func' = f /\ refs' = [Kept(f) EXCEPT ![f] = @ - 1]
    /\ config' = [config EXCEPT ![o].action = "stub"]
    /\ tuple' = FALSE /\ list' = << >> /\ listSize' = 0
    /\ running' \in {running, "crashed"}
    /\ UNCHANGED <<self, length, items, held, seen, cmbVars>>

\* What the call had is given back; the pointer to the function stays.  Given
\* back as well are the arguments, which are the caller's, and the list, after it
\* went with its tuple (cmb.c:718-721): what comes of that is undefined.
Return ==
    /\ running \in {"cmb", "callback"} /\ pc = "returned"
    /\ IF running = "cmb" THEN running' = "nothing" /\ UNCHANGED stub
       ELSE /\ running' \in {"nothing", "crashed"}
            /\ refs' = [refs EXCEPT ![func] = @ - 1]
            /\ tuple' = FALSE /\ list' = << >> /\ listSize' = 0 /\ items' = Released(list)
            /\ UNCHANGED <<func, seen>>
    /\ UNCHANGED <<config, self, length, held, calls, misuse, cmbVars>>

PyNext ==
    \/ SetAttribute
    \/ \E o \in Objects, n \in Lengths : CallPrint(o, n)
    \/ \E o \in Objects, n, size \in Lengths, f \in Functions : CallCallback(o, n, size, f)
    \/ InsideCmb
    \/ \E o \in Objects, f \in Functions : CallFromFunction(o, f)
    \/ Return

PySpec == PyInit /\ [][PyNext]_vars /\ WF_vars(InsideCmb) /\ WF_vars(Return)

-----------------------------------------------------------------------------
(***************************************************************************)
(* Properties                                                              *)
(***************************************************************************)
\* A program that calls back once, with no more items than its list has and not
\* from inside a function, and that refers to each item at least as often as it
\* has items: the list a size leaves behind takes a reference of each item in it.
Plain == ~ misuse /\ held >= conf.n

\* The function is called with exactly the items of the combination, through
\* all changes of size and whatever lists it was called with before.
SeesTheCombination ==
    running = "callback" /\ log # << >> /\ Plain => seen = log[Len(log)].items

\* Up to the end of its one call of cmb_callback() nothing a plain program uses is
\* gone, whatever sizes follow each other and whatever its function answers: as
\* many references to an item as there are items suffice for all the lists that
\* are replaced.  The end of cmb_callback() is not safe for any program: see Return.
PlainUseIsSafe == Plain /\ (func = NoOne \/ tuple) => running # "crashed"
=============================================================================
