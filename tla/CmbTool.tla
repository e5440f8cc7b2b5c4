-------------------------------- MODULE CmbTool --------------------------------
(***************************************************************************)
(* cmb(1): from the command line to the calls of libcmb.                   *)
(*                                                                         *)
(* main() reads the options one by one into a cmb_config and a number of   *)
(* flags, checks what must come together, makes the items of its operands  *)
(* (as they are, as ranges to be expanded, or as files to be read), looks  *)
(* up the transformation, turns a random or negative start into a number   *)
(* with the count of all combinations, and calls cmb_bn() or, without      *)
(* OpenSSL, cmb().  The library is not abstracted: its steps are those of  *)
(* CmbSeq, whose state is that of the one call.                            *)
(*                                                                         *)
(* An argument of an option, an operand and a file are taken after they    *)
(* were scanned: a number, a range with its two ends, a sequence of        *)
(* characters.  A number of 32 bits is one below M; numbers to calculate   *)
(* with are whole.                                                         *)
(***************************************************************************)
EXTENDS CmbSeq, SequencesExt

CONSTANTS
    UintMax,       \* UINT_MAX
    CommandLines   \* the options and operands that are looked at

ASSUME UintMaxAssumption == UintMax \in Nat \ {0}

(***************************************************************************)
(* A command line as it is scanned: a list of options and one of operands, *)
(* each of which can be taken for a text, a range or a file.               *)
(***************************************************************************)
ArgumentOK(a) ==
    /\ a.o = "n" => a.num \in 0 .. UintMax
    /\ a.o = "k" => /\ a.lo \in - UintMax .. UintMax /\ a.hi \in - UintMax .. UintMax
                    /\ a.single \in BOOLEAN
OperandOK(operand) ==
    /\ operand.range.lo \in 0 .. UintMax /\ operand.range.hi \in 0 .. UintMax
    /\ operand.range.single \in BOOLEAN
    /\ operand.file.text \in Seq(Range(operand.file.text))
LineOK(line) ==
    /\ line.args \in Seq(Range(line.args)) /\ line.operands \in Seq(Range(line.operands))
    /\ \A i \in DOMAIN line.args : ArgumentOK(line.args[i])
    /\ \A i \in DOMAIN line.operands : OperandOK(line.operands[i])

ASSUME CommandLinesAssumption == \A line \in CommandLines : LineOK(line)

VARIABLES
    todo,      \* the options getopt(3) has yet to return
    args,      \* all of them
    operands,  \* argv behind the options
    at,        \* where main() is
    opt,       \* the flags and settings of main()
    cfg,       \* config
    nstart,    \* nstart: the amount of a negative start, without OpenSSL
    nitems,    \* nitems
    ritems,    \* ritems: how many items the ranges have, counted first
    n,         \* n: the operand being counted, read or expanded
    num,       \* num: the next number of a range, in range_char()
    items,     \* items
    owned,     \* the indices of the items that are allocations of their own
    total,     \* what -t printed
    result     \* how the program ended

mainVars == <<todo, args, operands, at, opt, cfg, nstart, nitems, ritems, n, num, items, owned, total, result>>
toolVars == <<mainVars, cmbVars>>

\* The members of a set in their order.
InOrder(S, Less(_, _)) ==
    [k \in 1 .. Cardinality(S) |->
        CHOOSE x \in S : Cardinality({y \in S : Less(y, x)}) = k - 1]

None == -1
M == UintMax + 1

-----------------------------------------------------------------------------
(***************************************************************************)
(* The texts that become items.                                            *)
(***************************************************************************)
Digits == <<"0", "1", "2", "3", "4", "5", "6", "7", "8", "9">>
Numeric(text) == Len(text) = 1 /\ \E d \in DOMAIN Digits : Digits[d] = text[1]
Value(text) == (CHOOSE d \in DOMAIN Digits : Digits[d] = text[1]) - 1
NumberItem(x) == [text |-> <<ToString(x)>>, value |-> x]
TextItem(text) == [text |-> text, value |-> IF Numeric(text) THEN Value(text) ELSE None]

\* What separates the items of a file: -0, else the first character of -d.
Delimiter ==
    IF cfg.nulparse THEN "nul" ELSE IF opt.delimiter # "" THEN opt.delimiter ELSE "nl"

\* A final newline gives way to the NUL that ends the last item.
Chomped(text) == IF text # << >> /\ Last(text) = "nl" THEN Front(text) \o <<"nul">> ELSE text

\* The items of a file begin at its first character and behind every delimiter
\* that is not its last character; as strings they end at the first NUL.
Begins(text, d) ==
    {i \in DOMAIN text : i = 1 \/ Chomped(text)[i - 1] = d}
Stops(text, d, i) == {j \in i .. Len(text) : Chomped(text)[j] \in {d, "nul"}}
StringAt(text, d, i) ==
    LET stops == Stops(text, d, i)
    IN  SubSeq(text, i, IF stops = {} THEN Len(text) ELSE Min(stops) - 1)

\* cmb_parse(): the items of a file in their order.
ParseItems(text, d) ==
    [k \in 1 .. Cardinality(Begins(text, d)) |->
        StringAt(text, d, InOrder(Begins(text, d), <)[k])]

\* The last item of a file is a string only if something ends it.
Ended(text, d) == text = << >> \/ Chomped(text)[Len(text)] \in {d, "nul"}

\* parse_range(): a negative end is so much below the largest number; a single
\* negative number goes from there down to its amount.
Unsigned(x) == IF x < 0 THEN UintMax + x ELSE x
SizeMin(k) == Unsigned(k.lo)
SizeMax(k) == IF k.single THEN (IF k.lo < 0 THEN - k.lo ELSE k.lo) ELSE Unsigned(k.hi)

\* parse_urange() and its callers: a number alone is a range from 1.
RangeFirst(r) == IF r.single THEN 1 ELSE r.lo
RangeLast(r) == IF r.single THEN r.lo ELSE r.hi

\* Mutant: one item less than a range that goes down has.
RangeLengthShort(r) ==
    LET a == RangeFirst(r)  b == RangeLast(r)
    IN  (IF a < b THEN b - a + 1 ELSE a - b) % M

\* How many items a range is taken to have, in 32 bits.
RangeLength(r) ==
    LET a == RangeFirst(r)  b == RangeLast(r)
    IN  (IF a < b THEN b - a + 1 ELSE a - b + 1) % M

-----------------------------------------------------------------------------
(***************************************************************************)
(* The command line is read.                                               *)
(***************************************************************************)
\* The configuration the library is called with.
Config(k) ==
    [n |-> k, min |-> cfg.min, max |-> cfg.max, empty |-> cfg.empty, numbers |-> cfg.numbers,
     count |-> IF opt.nossl THEN cfg.count ELSE cfg.count_bn,
     start |-> IF opt.nossl THEN cfg.start ELSE cfg.start_bn,
     bn |-> ~ opt.nossl, mayStop |-> FALSE]

ToolInit ==
    /\ Calling
    /\ \E line \in CommandLines : args = line.args /\ operands = line.operands
    /\ \E openssl \in BOOLEAN :
             opt = [nossl |-> ~ openssl, empty |-> FALSE, file |-> FALSE, range |-> FALSE,
                    nul |-> FALSE, random |-> FALSE, silent |-> FALSE, total |-> FALSE,
                    version |-> FALSE, precision |-> None, find |-> None,
                    transform |-> "none", delimiter |-> ""]
    /\ todo = args /\ at = "options" /\ result = "running"
    /\ cfg = [empty |-> FALSE, numbers |-> FALSE, nulparse |-> FALSE, count |-> 0,
              start |-> 0, count_bn |-> 0, start_bn |-> 0, min |-> 0, max |-> 0]
    /\ nstart = 0 /\ nitems = 0 /\ ritems = 0 /\ n = 1 /\ num = None
    /\ items = << >> /\ owned = {} /\ total = None
    /\ conf = Config(0)

reading == <<args, operands, at, ritems, n, num, items, owned, total, result, cmbVars>>
given == <<todo, args, operands>>
settings == <<opt, cfg, nstart>>

\* The next option is o.
Option(o) ==
    /\ at = "options" /\ todo # << >> /\ Head(todo).o = o
    /\ todo' = Tail(todo)

\* A flag that only main() looks at, and one of the configuration.
Set(flag) == opt' = [opt EXCEPT ![flag] = TRUE]
Toggle(flag) == cfg' = [cfg EXCEPT ![flag] = ~ @]

OptNul ==
    Option("0") /\ Toggle("nulparse") /\ Set("nul") /\ UNCHANGED <<nstart, nitems, reading>>

\* -c is kept where the function that will be called looks for it, if -o came
\* before.
OptCount ==
    /\ Option("c")
    /\ cfg' = IF opt.nossl THEN [cfg EXCEPT !.count = Head(todo).num]
                           ELSE [cfg EXCEPT !.count_bn = Head(todo).num]
    /\ UNCHANGED <<opt, nstart, nitems, reading>>

OptDelimiter ==
    /\ Option("d")
    /\ opt' = [opt EXCEPT !.delimiter = Head(todo).text]
    /\ UNCHANGED <<cfg, nstart, nitems, reading>>

OptEmpty ==
    Option("e") /\ Toggle("empty") /\ Set("empty") /\ UNCHANGED <<nstart, nitems, reading>>

OptFind ==
    /\ Option("F")
    /\ opt' = [opt EXCEPT !.find = Head(todo).num]
    /\ UNCHANGED <<cfg, nstart, nitems, reading>>

\* -f and -r: the later one counts.
OptFile ==
    /\ Option("f")
    /\ opt' = [opt EXCEPT !.file = TRUE, !.range = FALSE]
    /\ UNCHANGED <<cfg, nstart, nitems, reading>>

OptRange ==
    /\ Option("r")
    /\ opt' = [opt EXCEPT !.file = FALSE, !.range = TRUE]
    /\ UNCHANGED <<cfg, nstart, nitems, reading>>

\* -i: "random" stays in force, and so does a negative start without OpenSSL.
OptRandom ==
    /\ Option("i") /\ Head(todo).random
    /\ Set("random")
    /\ UNCHANGED <<cfg, nstart, nitems, reading>>

OptStart ==
    /\ Option("i") /\ ~ Head(todo).random
    /\ LET k == Head(todo).num
       IN  IF opt.random THEN UNCHANGED <<cfg, nstart>>
           ELSE IF ~ opt.nossl THEN cfg' = [cfg EXCEPT !.start_bn = k] /\ UNCHANGED nstart
           ELSE IF k < 0 THEN nstart' = - k /\ UNCHANGED cfg
           ELSE cfg' = [cfg EXCEPT !.start = k] /\ UNCHANGED nstart
    /\ UNCHANGED <<opt, nitems, reading>>

OptSize ==
    /\ Option("k")
    /\ cfg' = [cfg EXCEPT !.min = SizeMin(Head(todo)), !.max = SizeMax(Head(todo))]
    /\ UNCHANGED <<opt, nstart, nitems, reading>>

OptNumbers == Option("N") /\ Toggle("numbers") /\ UNCHANGED <<opt, nstart, nitems, reading>>

OptArguments ==
    Option("n") /\ nitems' = Head(todo).num /\ UNCHANGED <<settings, reading>>

OptNoOpenssl == Option("o") /\ Set("nossl") /\ UNCHANGED <<cfg, nstart, nitems, reading>>

OptPrecision ==
    /\ Option("P")
    /\ opt' = [opt EXCEPT !.precision = Head(todo).num]
    /\ UNCHANGED <<cfg, nstart, nitems, reading>>

OptSilent == Option("S") /\ Set("silent") /\ UNCHANGED <<cfg, nstart, nitems, reading>>
OptTotal == Option("t") /\ Set("total") /\ UNCHANGED <<cfg, nstart, nitems, reading>>
OptVersion == Option("v") /\ Set("version") /\ UNCHANGED <<cfg, nstart, nitems, reading>>

OptTransform ==
    /\ Option("X")
    /\ opt' = [opt EXCEPT !.transform = Head(todo).op]
    /\ UNCHANGED <<cfg, nstart, nitems, reading>>

\* An unknown option, or a number or size that is none.
Exit(how) == at' = "ended" /\ result' = how
BadOption ==
    /\ Option("?")
    /\ Exit("failure")
    /\ UNCHANGED <<args, operands, settings, nitems, ritems, n, num, items, owned, total, cmbVars>>

OptionsEnd ==
    /\ at = "options" /\ todo = << >>
    /\ at' = "checks"
    /\ UNCHANGED <<given, settings, nitems, ritems, n, num, items, owned, total, result, cmbVars>>

ReadOption ==
    \/ OptNul \/ OptCount \/ OptDelimiter \/ OptEmpty \/ OptFind \/ OptFile \/ OptRange
    \/ OptRandom \/ OptStart \/ OptSize \/ OptNumbers \/ OptArguments \/ OptNoOpenssl
    \/ OptPrecision \/ OptSilent \/ OptTotal \/ OptVersion \/ OptTransform
    \/ BadOption \/ OptionsEnd

-----------------------------------------------------------------------------
(***************************************************************************)
(* The items are made.                                                     *)
(***************************************************************************)
\* What main() refuses, before anything is read.
Incomplete ==
    \/ operands = << >> /\ ~ opt.empty
    \/ (opt.find # None \/ opt.precision # None) /\ opt.transform = "none"
    \/ opt.nul /\ ~ opt.file

Check ==
    /\ at = "checks"
    /\ IF opt.version THEN Exit("success") /\ UNCHANGED nitems
       ELSE IF Incomplete THEN Exit("failure") /\ UNCHANGED nitems
       ELSE /\ at' = IF opt.range THEN "count" ELSE "read"
            /\ nitems' = IF nitems = 0 \/ nitems > Len(operands) THEN Len(operands) ELSE nitems
            /\ UNCHANGED result
    /\ UNCHANGED <<given, settings, ritems, n, num, items, owned, total, cmbVars>>

\* The items of one range are counted; too many, or no range, ends it.
CountRange ==
    /\ at = "count" /\ n <= nitems
    /\ LET r == operands[n].range
           more == ritems + RangeLength(r)
       IN  IF r.bad \/ more > UintMax
           THEN Exit("failure") /\ UNCHANGED <<n, ritems>>
           ELSE n' = n + 1 /\ ritems' = more /\ UNCHANGED <<at, result>>
    /\ UNCHANGED <<given, settings, nitems, num, items, owned, total, cmbVars>>

CountEnd ==
    /\ at = "count" /\ n > nitems
    /\ n' = 1
    /\ at' = IF opt.total THEN "total" ELSE "read"
    /\ UNCHANGED <<given, settings, nitems, ritems, num, items, owned, total, result, cmbVars>>

CountOf(k) == IF opt.nossl THEN CmbCount(Config(k)) ELSE CmbCountBn(Config(k))

\* Mutant: arguments are counted where ranges were given.
PrintTotalOfArguments ==
    /\ at = "total"
    /\ total' = IF opt.silent THEN None ELSE CountOf(nitems)
    /\ Exit("success")
    /\ UNCHANGED <<given, settings, nitems, ritems, n, num, items, owned, cmbVars>>

\* -t: with ranges the numbers counted, nothing having been expanded.
PrintTotal ==
    /\ at = "total"
    /\ total' = IF opt.silent THEN None ELSE CountOf(IF opt.range THEN ritems ELSE nitems)
    /\ Exit("success")
    /\ UNCHANGED <<given, settings, nitems, ritems, n, num, items, owned, cmbVars>>

\* Operands are items as they are.
ReadWords ==
    /\ at = "read" /\ ~ opt.file /\ ~ opt.range
    /\ items' = [i \in 1 .. nitems |-> TextItem(operands[i].text)]
    /\ at' = "action"
    /\ UNCHANGED <<given, settings, nitems, ritems, n, num, owned, total, result, cmbVars>>

\* cmb_parse_file(): the items are pointers into one buffer.  What stands behind
\* an item that nothing ends is read on.
ReadFile ==
    /\ at = "read" /\ opt.file /\ n <= nitems
    /\ LET f == operands[n].file
           read == [k \in DOMAIN ParseItems(f.text, Delimiter) |->
                       TextItem(ParseItems(f.text, Delimiter)[k])]
       IN  IF f.missing \/ Len(items) + Len(read) > UintMax
           THEN Exit("failure") /\ UNCHANGED <<items, owned, n>>
           ELSE /\ \/ items' = items \o read
                   \/ /\ ~ Ended(f.text, Delimiter)
                      /\ items' = items \o Front(read) \o <<TextItem(Last(read).text \o <<"junk">>)>>
                /\ owned' = IF read = << >> THEN owned ELSE owned \cup {Len(items) + 1}
                /\ n' = n + 1 /\ UNCHANGED <<at, result>>
    /\ UNCHANGED <<given, settings, nitems, ritems, num, total, cmbVars>>

FilesEnd ==
    /\ at = "read" /\ opt.file /\ n > nitems
    /\ nitems' = Len(items) /\ at' = "action"
    /\ UNCHANGED <<given, settings, ritems, n, num, items, owned, total, result, cmbVars>>

\* range_char() and range_float(): up or down, number by number.
Up == RangeFirst(operands[n].range) <= RangeLast(operands[n].range)
InRange ==
    IF Up THEN num <= RangeLast(operands[n].range) ELSE num >= RangeLast(operands[n].range)

BeginRange ==
    /\ at = "read" /\ opt.range /\ n <= nitems /\ num = None
    /\ num' = RangeFirst(operands[n].range)
    /\ UNCHANGED <<given, settings, nitems, ritems, n, items, at, owned, total, result, cmbVars>>

\* The counter wraps around; behind the end of the array nothing is defined.
WriteNumber ==
    /\ at = "read" /\ opt.range /\ n <= nitems /\ num # None /\ InRange
    /\ num' = (IF Up THEN num + 1 ELSE num - 1 + M) % M
    /\ items' = Append(items, NumberItem(num))
    /\ owned' = owned \cup {Len(items')}
    /\ IF Len(items') > ritems THEN Exit("crashed") ELSE UNCHANGED <<at, result>>
    /\ UNCHANGED <<given, settings, nitems, ritems, n, total, cmbVars>>

EndRange ==
    /\ at = "read" /\ opt.range /\ n <= nitems /\ num # None /\ ~ InRange
    /\ num' = None /\ n' = n + 1
    /\ UNCHANGED <<given, settings, nitems, ritems, items, at, owned, total, result, cmbVars>>

RangesEnd ==
    /\ at = "read" /\ opt.range /\ n > nitems
    /\ nitems' = ritems /\ at' = "action"
    /\ UNCHANGED <<given, settings, ritems, n, num, items, owned, total, result, cmbVars>>

MakeItems ==
    \/ Check \/ CountRange \/ CountEnd \/ ReadWords \/ ReadFile \/ FilesEnd
    \/ BeginRange \/ WriteNumber \/ EndRange \/ RangesEnd

-----------------------------------------------------------------------------
(***************************************************************************)
(* The library is called.                                                  *)
(***************************************************************************)
Operations == {"multiply", "divide", "add", "subtract"}

\* The transformation must be known and its items numbers; they become
\* allocations of their own.
ChooseAction ==
    /\ at = "action"
    /\ IF \/ opt.transform \notin Operations \cup {"none"}
          \/ /\ opt.transform # "none" /\ ~ opt.range
             /\ \E i \in DOMAIN items : items[i].value = None
       THEN Exit("failure") /\ UNCHANGED owned
       ELSE /\ at' = IF opt.total THEN "total" ELSE "start"
            /\ owned' = IF opt.transform = "none" THEN owned ELSE DOMAIN items
            /\ UNCHANGED result
    /\ UNCHANGED <<given, settings, nitems, ritems, n, num, items, total, cmbVars>>

Starts(f, k) == cfg' = [cfg EXCEPT ![f] = k]

\* -i random: cmb_rand_range() goes wrong when there is nothing to choose from;
\* with OpenSSL the start is then left as it is.
RandomStart ==
    /\ at = "start" /\ opt.random
    /\ LET all == CountOf(nitems)
       IN  IF all = 0
           THEN IF opt.nossl THEN Exit("crashed") /\ UNCHANGED cfg
                             ELSE at' = "call" /\ UNCHANGED <<cfg, result>>
           ELSE /\ \E k \in 1 .. all : Starts(IF opt.nossl THEN "start" ELSE "start_bn", k)
                /\ at' = "call" /\ UNCHANGED result
    /\ UNCHANGED <<given, opt, nstart, nitems, ritems, n, num, items, owned, total, cmbVars>>

\* Mutant: one more than asked for is left out.
NegativeStartShort ==
    /\ at = "start" /\ ~ opt.random
    /\ IF opt.nossl THEN nstart # 0 ELSE cfg.start_bn < 0
    /\ LET all == CountOf(nitems)
           from == all - (IF opt.nossl THEN nstart ELSE - cfg.start_bn)
       IN  IF opt.nossl THEN Starts("start", IF all > nstart THEN from ELSE 0)
           ELSE IF all = 0 THEN UNCHANGED cfg
           ELSE Starts("start_bn", IF from < 0 THEN 0 ELSE from)
    /\ at' = "call"
    /\ UNCHANGED <<given, opt, nstart, nitems, ritems, n, num, items, owned, total, result, cmbVars>>

\* A negative start is counted from the end.
NegativeStart ==
    /\ at = "start" /\ ~ opt.random
    /\ IF opt.nossl THEN nstart # 0 ELSE cfg.start_bn < 0
    /\ LET all == CountOf(nitems)
           from == all + 1 - (IF opt.nossl THEN nstart ELSE - cfg.start_bn)
       IN  IF opt.nossl THEN Starts("start", IF all > nstart THEN from ELSE 0)
           ELSE IF all = 0 THEN UNCHANGED cfg
           ELSE Starts("start_bn", IF from < 0 THEN 0 ELSE from)
    /\ at' = "call"
    /\ UNCHANGED <<given, opt, nstart, nitems, ritems, n, num, items, owned, total, result, cmbVars>>

PlainStart ==
    /\ at = "start" /\ ~ opt.random
    /\ IF opt.nossl THEN nstart = 0 ELSE cfg.start_bn >= 0
    /\ at' = "call"
    /\ UNCHANGED <<given, settings, nitems, ritems, n, num, items, owned, total, result, cmbVars>>

\* A start that is still negative is none for cmb_bn().
CallCmb ==
    /\ at = "call"
    /\ conf' = [Config(nitems) EXCEPT !.start = IF @ < 0 THEN 0 ELSE @]
    /\ at' = "cmb"
    /\ UNCHANGED <<given, settings, nitems, ritems, n, num, items, owned, total, result>>
    /\ UNCHANGED <<pc, enum, seeking, calling>>

InsideCmb == at = "cmb" /\ Next /\ UNCHANGED mainVars

\* The items of files and ranges are freed one by one; one that is not an
\* allocation of its own must not be.
CleanUp ==
    /\ at = "cmb" /\ pc = "returned"
    /\ at' = "ended"
    /\ result' \in IF opt.file /\ owned # DOMAIN items THEN {"success", "crashed"} ELSE {"success"}
    /\ UNCHANGED <<given, settings, nitems, ritems, n, num, items, owned, total, cmbVars>>

CallLibrary == ChooseAction \/ PrintTotal \/ RandomStart \/ NegativeStart \/ PlainStart \/ CallCmb

ToolNext == ReadOption \/ MakeItems \/ CallLibrary \/ InsideCmb \/ CleanUp

ToolSpec == ToolInit /\ [][ToolNext]_toolVars /\ WF_toolVars(ToolNext)

-----------------------------------------------------------------------------
(***************************************************************************)
(* What is printed for a call of the action.                               *)
(***************************************************************************)
Integer(x) == [num |-> x, den |-> 1]
Apply(t, x) ==
    CASE opt.transform = "add"      -> [t EXCEPT !.num = @ + x * t.den]
      [] opt.transform = "subtract" -> [t EXCEPT !.num = @ - x * t.den]
      [] opt.transform = "multiply" -> [t EXCEPT !.num = @ * x]
      [] opt.transform = "divide"   -> [t EXCEPT !.den = @ * x]

Values(s) == [i \in DOMAIN s |-> items[s[i]].value]

\* CMB_TRANSFORM_EQ: the operation goes over the items from the first one.
Calculated(s) ==
    IF s = << >> THEN Integer(0)
    ELSE FoldLeft(Apply, Integer(Values(s)[1]), Tail(Values(s)))

\* CMB_TRANSFORM_EQ_FIND: from zero.
FindCalculated(s) == FoldLeft(Apply, Integer(0), Values(s))

\* Without a precision values are compared, with one their texts.
Rounded(t) == (2 * t.num * 10 ^ opt.precision + t.den) \div (2 * t.den)
Same(t, u) ==
    IF opt.precision \in {None, 0} THEN t.num * u.den = u.num * t.den ELSE Rounded(t) = Rounded(u)

Finds(e) == opt.find = None \/ Same(FindCalculated(e.items), Integer(opt.find))

\* One line: the number, if wanted, and the items.
Line(e) == [number |-> IF cfg.numbers THEN e.seq ELSE None,
            items |-> [j \in DOMAIN e.items |-> items[e.items[j]].text]]

Lines ==
    LET shown == SelectSeq(log, Finds)
    IN  IF opt.silent THEN << >> ELSE [i \in DOMAIN shown |-> Line(shown[i])]

-----------------------------------------------------------------------------
(***************************************************************************)
(* Properties: the command line as cmb(1) explains it.                     *)
(***************************************************************************)
With(o) == {i \in DOMAIN args : args[i].o = o}
Asked(o) == With(o) # {}
Argument(o) == args[Max(With(o))]

\* "Must appear before -c num and -i num options"; what an option given twice
\* means is not said, nor what a size below -1.
Documented ==
    /\ \A i, j \in DOMAIN args : args[i].o = args[j].o => i = j
    /\ \A i \in With("o"), j \in With("c") \cup With("i") : i < j
    /\ \A i \in With("k") : args[i].lo >= -1 /\ args[i].hi >= -1

RangeItems(r) ==
    IF r.single THEN [i \in 1 .. r.lo |-> i]
    ELSE IF r.lo <= r.hi THEN [i \in 1 .. (r.hi - r.lo + 1) |-> r.lo + i - 1]
    ELSE [i \in 1 .. (r.lo - r.hi + 1) |-> r.lo - i + 1]

AskedDelimiter ==
    IF Asked("0") THEN "nul"
    ELSE IF Asked("d") /\ Argument("d").text # "" THEN Argument("d").text ELSE "nl"

\* Every line of a file, or what stands between its separators.
FileItems(text) ==
    LET d == AskedDelimiter
        body == IF text # << >> /\ Last(text) \in {d, "nl"} THEN Front(text) ELSE text
        cuts == {0, Len(body) + 1} \cup {i \in DOMAIN body : body[i] = d}
        ends == InOrder(cuts, <)
    IN  IF text = << >> THEN << >>
        ELSE [k \in 1 .. (Cardinality(cuts) - 1) |-> SubSeq(body, ends[k] + 1, ends[k + 1] - 1)]

MadeOf(operand) ==
    IF opt.range THEN [i \in DOMAIN RangeItems(operand.range) |->
                          NumberItem(RangeItems(operand.range)[i])]
    ELSE IF opt.file THEN [i \in DOMAIN FileItems(operand.file.text) |->
                              TextItem(FileItems(operand.file.text)[i])]
    ELSE <<TextItem(operand.text)>>

\* The first num operands, or all of them.
AskedOperands ==
    LET limit == IF Asked("n") THEN Argument("n").num ELSE 0
    IN  IF limit = 0 \/ limit > Len(operands) THEN operands ELSE SubSeq(operands, 1, limit)

AskedItems == FlattenSeq([i \in DOMAIN AskedOperands |-> MadeOf(AskedOperands[i])])

\* Sizes: a negative one is the number of all items, alone it means down to 1.
AskedConfig ==
    LET k == IF Asked("k") THEN Argument("k") ELSE [lo |-> 0, hi |-> 0, single |-> TRUE]
        all == Len(AskedItems)
        Size(x) == IF x < 0 THEN all ELSE x
    IN  [n |-> all, min |-> Size(k.lo), empty |-> Asked("e"), bn |-> ~ opt.nossl,
         max |-> IF ~ k.single THEN Size(k.hi) ELSE IF k.lo < 0 THEN 1 ELSE k.lo]

\* All combinations that are asked for, in their order.
AskedOrder ==
    LET c == AskedConfig
    IN  InOrder(Slice!Combinations(c), LAMBDA a, b : Slice!Before(c, a, b))

\* The library's own limits: sizes that no combination can have are another
\* matter (see GivesSlice), and counting with OpenSSL leaves out the empty set.
\* The size -1 is a number next to the largest one, where no item is to be.
CountsRight ==
    /\ ~ OutOfRange(Config(Len(AskedItems)))
    /\ Asked("e") /\ ~ opt.nossl => Len(AskedItems) > 0 /\ Whole(Config(Len(AskedItems)))
    /\ Len(AskedItems) <= MaxItems /\ Len(AskedItems) < UintMax

\* What is shown, if it begins with the k-th of the combinations in their order.
ShownFrom(order, k) ==
    LET limit == IF Asked("c") THEN Argument("c").num ELSE 0
        rest == IF k > Len(order) THEN 0 ELSE Len(order) - k + 1
        shown == [i \in 1 .. (IF limit = 0 \/ limit > rest THEN rest ELSE limit) |-> i + k - 1]
        made == AskedItems
        Texts(s) == LET p == InOrder(s, <) IN [j \in DOMAIN p |-> made[p[j]].text]
        Sum(s) == MapThenSumSet(LAMBDA j : made[j].value, s)
        Wanted(i) == ~ Asked("F") \/ Sum(order[i]) = Argument("F").num
        found == SelectSeq(shown, Wanted)
    IN  [i \in DOMAIN found |-> [number |-> IF Asked("N") THEN found[i] ELSE None,
                                 items |-> Texts(order[found[i]])]]

\* A program that succeeds has printed what cmb(1) says: of the items given as
\* words, ranges or files the combinations of the asked sizes, from the num-th
\* one, the |num|-th before the end or any, so many of them, each with its
\* number.  With -F, only sums are looked for here.
PrintsWhatIsAsked ==
    result = "success" /\ Documented /\ ~ Asked("t") /\ ~ Asked("v") /\ ~ Asked("S")
    /\ (Asked("F") => opt.transform = "add")
    /\ (opt.nossl \/ Asked("i") => CountsRight)
    /\ (\A i \in DOMAIN operands : opt.file => Ended(operands[i].file.text, Delimiter)) =>
        LET order == AskedOrder
            all == Len(order)
            k == Argument("i").num
            least(x) == IF x < 1 THEN 1 ELSE x
        IN  IF ~ Asked("i") THEN Lines = ShownFrom(order, 1)
            ELSE IF Argument("i").random THEN all > 0 => \E b \in 1 .. all : Lines = ShownFrom(order, b)
            ELSE IF k < 0 THEN Lines = ShownFrom(order, least(all + 1 + k))
            ELSE Lines = ShownFrom(order, least(k))

\* Ranges that go down to 0, or up to or over the largest number, never end.
Bounded(r) == LET a == RangeFirst(r)  b == RangeLast(r) IN a < UintMax /\ b < UintMax /\ (b = 0 => a = 0)
AllBounded == \A i \in DOMAIN operands : Bounded(operands[i].range)

\* -t prints the number of the combinations that would be printed without it,
\* counted for ranges before any item exists.
TotalIsTheirNumber ==
    total # None /\ Documented /\ CountsRight /\ (opt.range => AllBounded) =>
        total = Len(AskedOrder)

\* Ranges are counted first and expanded into an array of that many items later,
\* by other code: those that end fill it and no more.
FillsTheArray ==
    opt.range /\ AllBounded =>
        /\ result # "crashed" \/ opt.random
        /\ at \in {"action", "start", "call", "cmb"} => Len(items) = ritems

\* "Find -X op values that equal num": what is shown is what is found among the
\* results that are shown without -F.
FindsValues ==
    result = "success" /\ opt.find # None /\ ~ opt.silent /\ ~ opt.total =>
        Lines = [i \in DOMAIN SelectSeq(log, LAMBDA e : Same(Calculated(e.items), Integer(opt.find))) |->
                    Line(SelectSeq(log, LAMBDA e : Same(Calculated(e.items), Integer(opt.find)))[i])]
=============================================================================
