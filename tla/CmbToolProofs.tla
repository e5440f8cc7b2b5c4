----------------------------- MODULE CmbToolProofs -----------------------------
(***************************************************************************)
(* Theorems about cmb(1), for every command line: ranges fill the array    *)
(* that was made for them, and -t prints the number of the combinations.   *)
(***************************************************************************)
EXTENDS CmbTool, CmbSeqProofs

-----------------------------------------------------------------------------
(***************************************************************************)
(* The command line is that one of CommandLines, and the flags are where   *)
(* they are looked for.                                                    *)
(***************************************************************************)
Flags == {"nossl", "empty", "file", "range", "nul", "random", "silent", "total", "version",
          "precision", "find", "transform", "delimiter"}
Kept == {"empty", "numbers", "nulparse", "count", "start", "count_bn", "start_bn", "min", "max"}

LineInv ==
    /\ \E line \in CommandLines : args = line.args /\ operands = line.operands
    /\ DOMAIN opt = Flags /\ DOMAIN cfg = Kept
    /\ opt.range \in BOOLEAN /\ opt.file \in BOOLEAN /\ ~ (opt.range /\ opt.file)

LEMMA FlagsInit ==
  ASSUME ToolInit
  PROVE  DOMAIN opt = Flags /\ opt.range = FALSE /\ opt.file = FALSE /\ opt.delimiter = ""
<1>1. PICK openssl \in BOOLEAN :
           opt = [nossl |-> ~ openssl, empty |-> FALSE, file |-> FALSE, range |-> FALSE,
                  nul |-> FALSE, random |-> FALSE, silent |-> FALSE, total |-> FALSE,
                  version |-> FALSE, precision |-> None, find |-> None,
                  transform |-> "none", delimiter |-> ""]
  BY DEF ToolInit
<1>2. /\ DOMAIN opt = {"nossl", "empty", "file", "range", "nul", "random", "silent", "total",
                        "version", "precision", "find", "transform", "delimiter"}
      /\ opt.range = FALSE /\ opt.file = FALSE /\ opt.delimiter = ""
  BY <1>1
<1>. QED
  BY <1>2 DEF Flags

LEMMA LineInit == ToolInit => LineInv
<1> SUFFICES ASSUME ToolInit PROVE LineInv
  OBVIOUS
<1>1. \E line \in CommandLines : args = line.args /\ operands = line.operands
  BY DEF ToolInit
<1>2. DOMAIN opt = Flags /\ opt.range = FALSE /\ opt.file = FALSE
  BY FlagsInit
<1>3. DOMAIN cfg = Kept
  BY DEF ToolInit, Kept
<1>. QED
  BY <1>1, <1>2, <1>3 DEF LineInv

\* What the command line is made of.
LEMMA LineIs ==
  ASSUME LineInv
  PROVE  /\ args \in Seq(Range(args)) /\ operands \in Seq(Range(operands))
         /\ \A i \in DOMAIN args : ArgumentOK(args[i])
         /\ \A i \in DOMAIN operands : OperandOK(operands[i])
<1>1. PICK line \in CommandLines : args = line.args /\ operands = line.operands
  BY DEF LineInv
<1>2. LineOK(line)
  BY CommandLinesAssumption
<1>. QED
  BY <1>1, <1>2 DEF LineOK

\* Options change flags, the rest of the program none but its number of items.
OptionStep ==
    \/ OptNul \/ OptCount \/ OptDelimiter \/ OptEmpty \/ OptFind \/ OptFile \/ OptRange
    \/ OptRandom \/ OptStart \/ OptSize \/ OptNumbers \/ OptArguments \/ OptNoOpenssl
    \/ OptPrecision \/ OptSilent \/ OptTotal \/ OptVersion \/ OptTransform

LEMMA OptionKeeps ==
  ASSUME LineInv, OptionStep
  PROVE  /\ at = "options" /\ todo # << >> /\ todo' = Tail(todo)
         /\ UNCHANGED <<args, operands, at, ritems, n, num, items, owned, total, result>>
         /\ DOMAIN opt' = Flags /\ DOMAIN cfg' = Kept
         /\ opt'.range \in BOOLEAN /\ opt'.file \in BOOLEAN /\ ~ (opt'.range /\ opt'.file)
<1>1. /\ DOMAIN opt = Flags /\ DOMAIN cfg = Kept
      /\ opt.range \in BOOLEAN /\ opt.file \in BOOLEAN /\ ~ (opt.range /\ opt.file)
  BY DEF LineInv
<1>2. /\ at = "options" /\ todo # << >> /\ todo' = Tail(todo)
      /\ UNCHANGED <<args, operands, at, ritems, n, num, items, owned, total, result>>
  BY DEF OptionStep, Option, reading, OptNul, OptCount, OptDelimiter, OptEmpty, OptFind, OptFile, OptRange,
         OptRandom, OptStart, OptSize, OptNumbers, OptArguments, OptNoOpenssl,
         OptPrecision, OptSilent, OptTotal, OptVersion, OptTransform
<1>3. CASE OptNul
  BY <1>1, <1>2, <1>3 DEF OptNul, Set, Toggle, Flags
<1>4. CASE OptCount
  BY <1>1, <1>2, <1>4 DEF OptCount
<1>5. CASE OptDelimiter
  BY <1>1, <1>2, <1>5 DEF OptDelimiter, Flags
<1>6. CASE OptEmpty
  BY <1>1, <1>2, <1>6 DEF OptEmpty, Set, Toggle, Flags
<1>7. CASE OptFind
  BY <1>1, <1>2, <1>7 DEF OptFind, Flags
<1>8. CASE OptFile
  BY <1>1, <1>2, <1>8 DEF OptFile, Flags
<1>9. CASE OptRange
  BY <1>1, <1>2, <1>9 DEF OptRange, Flags
<1>10. CASE OptRandom
  BY <1>1, <1>2, <1>10 DEF OptRandom, Set, Flags
<1>11. CASE OptStart
  <2>1. opt' = opt
    BY <1>11 DEF OptStart
  <2>2. DOMAIN cfg' = Kept
    BY <1>1, <1>11 DEF OptStart
  <2>. QED
    BY <1>1, <1>2, <2>1, <2>2
<1>12. CASE OptSize
  BY <1>1, <1>2, <1>12 DEF OptSize
<1>13. CASE OptNumbers
  BY <1>1, <1>2, <1>13 DEF OptNumbers, Toggle
<1>14. CASE OptArguments
  BY <1>1, <1>2, <1>14 DEF OptArguments, settings
<1>15. CASE OptNoOpenssl
  BY <1>1, <1>2, <1>15 DEF OptNoOpenssl, Set, Flags
<1>16. CASE OptPrecision
  BY <1>1, <1>2, <1>16 DEF OptPrecision, Flags
<1>17. CASE OptSilent
  BY <1>1, <1>2, <1>17 DEF OptSilent, Set, Flags
<1>18. CASE OptTotal
  BY <1>1, <1>2, <1>18 DEF OptTotal, Set, Flags
<1>19. CASE OptVersion
  BY <1>1, <1>2, <1>19 DEF OptVersion, Set, Flags
<1>20. CASE OptTransform
  BY <1>1, <1>2, <1>20 DEF OptTransform, Flags
<1>. QED
  BY <1>3, <1>4, <1>5, <1>6, <1>7, <1>8, <1>9, <1>10, <1>11, <1>12, <1>13, <1>14, <1>15, <1>16,
     <1>17, <1>18, <1>19, <1>20 DEF OptionStep

\* Behind the options the flags stay, and cfg but for its start.
Later ==
    \/ BadOption \/ OptionsEnd \/ MakeItems \/ CallLibrary \/ InsideCmb \/ CleanUp

LEMMA LaterKeeps ==
  ASSUME LineInv, Later
  PROVE  /\ UNCHANGED <<args, operands, opt>> /\ DOMAIN cfg' = Kept
         /\ cfg'.min = cfg.min /\ cfg'.max = cfg.max /\ cfg'.empty = cfg.empty
         /\ cfg'.nulparse = cfg.nulparse
<1>1. DOMAIN cfg = Kept
  BY DEF LineInv
<1>2. CASE BadOption \/ OptionsEnd
  BY <1>1, <1>2 DEF BadOption, OptionsEnd, given, settings
<1>3. CASE MakeItems
  BY <1>1, <1>3 DEF MakeItems, Check, CountRange, CountEnd, ReadWords, ReadFile, FilesEnd, BeginRange,
     WriteNumber, EndRange, RangesEnd, given, settings
<1>4. ASSUME NEW f \in {"start", "start_bn"}, NEW k, Starts(f, k)
      PROVE  /\ DOMAIN cfg' = Kept
             /\ cfg'.min = cfg.min /\ cfg'.max = cfg.max /\ cfg'.empty = cfg.empty
             /\ cfg'.nulparse = cfg.nulparse
  BY <1>1, <1>4 DEF Starts, Kept
<1>5. CASE RandomStart
  <2>1. UNCHANGED <<args, operands, opt>>
    BY <1>5 DEF RandomStart, given
  <2>2. cfg' = cfg \/ \E f \in {"start", "start_bn"}, k \in Int : Starts(f, k)
    BY <1>5 DEF RandomStart
  <2>. QED
    BY <1>1, <1>4, <2>1, <2>2
<1>6. CASE NegativeStart
  <2>1. UNCHANGED <<args, operands, opt>>
    BY <1>6 DEF NegativeStart, given
  <2>2. cfg' = cfg \/ \E f \in {"start", "start_bn"} : \E k : Starts(f, k)
    BY <1>6 DEF NegativeStart
  <2>. QED
    BY <1>1, <1>4, <2>1, <2>2
<1>7. CASE ChooseAction \/ PrintTotal \/ PlainStart \/ CallCmb
  BY <1>1, <1>7 DEF ChooseAction, PrintTotal, PlainStart, CallCmb, given, settings
<1>8. CASE InsideCmb \/ CleanUp
  BY <1>1, <1>8 DEF InsideCmb, CleanUp, mainVars, given, settings
<1>. QED
  BY <1>2, <1>3, <1>5, <1>6, <1>7, <1>8 DEF Later, CallLibrary

LEMMA Steps == ToolNext => OptionStep \/ Later
BY DEF ToolNext, ReadOption, OptionStep, Later

LEMMA LineStep == LineInv /\ [ToolNext]_toolVars => LineInv'
<1> SUFFICES ASSUME LineInv, [ToolNext]_toolVars PROVE LineInv'
  OBVIOUS
<1>1. CASE OptionStep
  BY <1>1, OptionKeeps DEF LineInv
<1>2. CASE Later
  BY <1>2, LaterKeeps DEF LineInv
<1>3. CASE UNCHANGED toolVars
  BY <1>3 DEF LineInv, toolVars, mainVars
<1>. QED
  BY <1>1, <1>2, <1>3, Steps

\* What is still to be read is the end of the options.
Already == Len(args) - Len(todo)
TodoInv ==
    /\ todo \in Seq(Range(args)) /\ Len(todo) <= Len(args)
    /\ \A i \in 1 .. Len(todo) : todo[i] = args[Already + i]
    /\ at \notin {"options", "ended"} => todo = << >>

LEMMA TodoInit == ToolInit => TodoInv
<1> SUFFICES ASSUME ToolInit PROVE TodoInv
  OBVIOUS
<1>1. todo = args /\ at = "options"
  BY DEF ToolInit
<1>2. args \in Seq(Range(args))
  BY LineInit, LineIs
<1>3. Already = 0
  BY <1>1, <1>2 DEF Already
<1>. QED
  BY <1>1, <1>2, <1>3 DEF TodoInv

\* The next option is the one behind those read.
LEMMA HeadIs ==
  ASSUME LineInv, TodoInv, todo # << >>
  PROVE  /\ Already \in Nat /\ Already + 1 \in DOMAIN args /\ Head(todo) = args[Already + 1]
         /\ Tail(todo) \in Seq(Range(args)) /\ Len(Tail(todo)) = Len(todo) - 1
         /\ \A i \in 1 .. Len(Tail(todo)) : Tail(todo)[i] = args[Already + 1 + i]
<1>1. args \in Seq(Range(args)) /\ todo \in Seq(Range(args))
  BY LineIs DEF TodoInv
<1>2. /\ Len(todo) \in Nat \ {0} /\ Len(args) \in Nat /\ Len(todo) <= Len(args)
      /\ DOMAIN args = 1 .. Len(args)
  BY <1>1 DEF TodoInv
<1>3. Head(todo) = todo[1] /\ todo[1] = args[Already + 1]
  BY <1>1, <1>2 DEF TodoInv
<1>4. /\ Tail(todo) \in Seq(Range(args)) /\ Len(Tail(todo)) = Len(todo) - 1
      /\ \A i \in 1 .. Len(Tail(todo)) : Tail(todo)[i] = todo[i + 1]
  BY <1>1
<1>5. ASSUME NEW i \in 1 .. Len(Tail(todo)) PROVE Tail(todo)[i] = args[Already + 1 + i]
  <2>1. i + 1 \in 1 .. Len(todo) /\ Already + (i + 1) = Already + 1 + i
    BY <1>2, <1>4 DEF Already
  <2>. QED
    BY <1>4, <2>1 DEF TodoInv
<1>. QED
  BY <1>2, <1>3, <1>4, <1>5 DEF Already

LEMMA TodoStep == LineInv /\ TodoInv /\ [ToolNext]_toolVars => TodoInv'
<1> SUFFICES ASSUME LineInv, TodoInv, [ToolNext]_toolVars PROVE TodoInv'
  OBVIOUS
<1>1. ASSUME todo # << >>, todo' = Tail(todo), args' = args, at' \in {"options", "ended"} PROVE TodoInv'
  <2>1. /\ Tail(todo) \in Seq(Range(args)) /\ Len(Tail(todo)) = Len(todo) - 1
        /\ \A i \in 1 .. Len(Tail(todo)) : Tail(todo)[i] = args[Already + 1 + i]
    BY <1>1, HeadIs
  <2>2. Len(todo) \in Nat /\ Len(args) \in Nat /\ Len(todo) <= Len(args)
    BY LineIs DEF TodoInv
  <2>3. Already' = Already + 1
    BY <1>1, <2>1, <2>2 DEF Already
  <2>. QED
    BY <1>1, <2>1, <2>2, <2>3 DEF TodoInv
<1>2. ASSUME UNCHANGED <<todo, args>>, at' \notin {"options", "ended"} => todo = << >> PROVE TodoInv'
  BY <1>2 DEF TodoInv, Already
<1>3. CASE OptionStep
  BY <1>1, <1>3, OptionKeeps
<1>4. CASE BadOption
  BY <1>1, <1>4 DEF BadOption, Option, Exit
<1>5. CASE OptionsEnd
  BY <1>2, <1>5 DEF OptionsEnd, given
<1>6. CASE MakeItems \/ CallLibrary \/ InsideCmb \/ CleanUp
  <2>1. at \notin {"options", "ended"}
    BY <1>6 DEF MakeItems, CallLibrary, InsideCmb, CleanUp, Check, CountRange, CountEnd, ReadWords,
       ReadFile, FilesEnd, BeginRange, WriteNumber, EndRange, RangesEnd, ChooseAction, PrintTotal,
       RandomStart, NegativeStart, PlainStart, CallCmb
  <2>2. UNCHANGED <<todo, args>>
    BY <1>6 DEF MakeItems, CallLibrary, InsideCmb, CleanUp, Check, CountRange, CountEnd, ReadWords,
       ReadFile, FilesEnd, BeginRange, WriteNumber, EndRange, RangesEnd, ChooseAction, PrintTotal,
       RandomStart, NegativeStart, PlainStart, CallCmb, given, mainVars
  <2>. QED
    BY <1>2, <2>1, <2>2 DEF TodoInv
<1>7. CASE UNCHANGED toolVars
  BY <1>2, <1>7 DEF toolVars, mainVars, TodoInv
<1>. QED
  BY <1>3, <1>4, <1>5, <1>6, <1>7, Steps DEF Later

-----------------------------------------------------------------------------
(***************************************************************************)
(* Ranges: two pieces of code, one length.                                 *)
(***************************************************************************)
Lengths == [k \in DOMAIN operands |-> RangeLength(operands[k].range)]
Counted(k) == SumTo(Lengths)[k]
Beginning(k) == RangeFirst(operands[k].range)
End(k) == RangeLast(operands[k].range)

\* The length of a range that ends fits in 32 bits.
LEMMA LengthIs ==
  ASSUME LineInv, AllBounded, NEW k \in DOMAIN operands
  PROVE  /\ Beginning(k) \in 0 .. (UintMax - 1) /\ End(k) \in 0 .. (UintMax - 1)
         /\ End(k) = 0 => Beginning(k) = 0
         /\ RangeLength(operands[k].range) =
               IF Beginning(k) <= End(k) THEN End(k) - Beginning(k) + 1 ELSE Beginning(k) - End(k) + 1
<1> DEFINE a == Beginning(k)
           b == End(k)
<1>1. OperandOK(operands[k]) /\ Bounded(operands[k].range)
  BY LineIs DEF AllBounded
<1>2. UintMax \in Nat \ {0}
  BY UintMaxAssumption
<1>3. a \in Nat /\ b \in Nat
  BY <1>1, <1>2 DEF OperandOK, Beginning, End, RangeFirst, RangeLast
<1>4. a < UintMax /\ b < UintMax /\ (b = 0 => a = 0)
  BY <1>1 DEF Bounded, Beginning, End
<1>5. RangeLength(operands[k].range) = (IF a < b THEN b - a + 1 ELSE a - b + 1) % M
  BY DEF RangeLength, Beginning, End
<1> HIDE DEF a, b
<1> DEFINE l == IF a < b THEN b - a + 1 ELSE a - b + 1
<1>6. l \in 0 .. UintMax /\ l = IF a <= b THEN b - a + 1 ELSE a - b + 1
  BY <1>2, <1>3, <1>4
<1> HIDE DEF l
<1>7. l % M = l
  BY <1>2, <1>6 DEF M
<1>8. RangeLength(operands[k].range) = l
  BY <1>5, <1>7 DEF l
<1>. QED
  BY <1>2, <1>3, <1>4, <1>6, <1>8 DEF a, b

\* What was counted before an operand.
LEMMA CountedIs ==
  ASSUME LineInv
  PROVE  /\ Len(operands) \in Nat /\ DOMAIN operands = 1 .. Len(operands)
         /\ Counted(0) = 0
         /\ \A k \in 1 .. Len(operands) : Counted(k) = Counted(k - 1) + RangeLength(operands[k].range)
         /\ \A k \in 0 .. Len(operands) : Counted(k) \in Int
<1>1. Len(operands) \in Nat /\ DOMAIN operands = 1 .. Len(operands)
  BY LineIs
<1>2. ASSUME NEW k \in DOMAIN operands PROVE RangeLength(operands[k].range) \in Int
  <2>1. OperandOK(operands[k])
    BY LineIs
  <2>2. RangeFirst(operands[k].range) \in Int /\ RangeLast(operands[k].range) \in Int
    BY <2>1 DEF OperandOK, RangeFirst, RangeLast
  <2>3. M \in Nat \ {0}
    BY UintMaxAssumption DEF M
  <2>. QED
    BY <2>2, <2>3 DEF RangeLength
<1>3. Lengths \in [1 .. Len(operands) -> Int]
  BY <1>1, <1>2 DEF Lengths
<1>4. \A k \in 1 .. Len(operands) : Lengths[k] = RangeLength(operands[k].range)
  BY <1>1 DEF Lengths
<1>. QED
  BY <1>1, <1>3, <1>4, SumIs DEF Counted

Numbers == {NumberItem(x) : x \in Int}
FillInv ==
    /\ at \in {"options", "checks", "count", "read"} => nitems \in Nat
    /\ at \in {"options", "checks"} =>
          n = 1 /\ ritems = 0 /\ num = None /\ items = << >> /\ result = "running"
    /\ opt.range /\ AllBounded =>
          /\ result = "crashed" => opt.random
          /\ items \in Seq(Numbers)
          /\ at \in {"count", "read"} => nitems <= Len(operands) /\ n \in 1 .. (nitems + 1)
          /\ at = "count" =>
                /\ num = None /\ items = << >>
                /\ ritems = Counted(n - 1) /\ \A k \in 0 .. (n - 1) : Counted(k) <= ritems
          /\ at = "read" =>
                /\ ritems = Counted(nitems) /\ \A k \in 0 .. nitems : Counted(k) <= ritems
                /\ num = None => Len(items) = Counted(n - 1)
                /\ num # None =>
                      /\ n <= nitems /\ num \in Int
                      /\ IF Up THEN /\ Beginning(n) <= num /\ num <= End(n) + 1
                                    /\ Len(items) = Counted(n - 1) + (num - Beginning(n))
                               ELSE /\ End(n) - 1 <= num /\ num <= Beginning(n)
                                    /\ Len(items) = Counted(n - 1) + (Beginning(n) - num)
          /\ at \in {"action", "start", "call", "cmb"} => Len(items) = ritems

LEMMA FillInit == ToolInit => FillInv
<1> SUFFICES ASSUME ToolInit PROVE FillInv
  OBVIOUS
<1>1. /\ at = "options" /\ nitems = 0 /\ n = 1 /\ ritems = 0 /\ num = None /\ items = << >>
      /\ result = "running"
  BY DEF ToolInit
<1>. QED
  BY <1>1 DEF FillInv

\* As long as the operands stay, so does what was counted.
LEMMA CountedStays ==
  ASSUME operands' = operands
  PROVE  /\ AllBounded' = AllBounded /\ \A k : Counted(k)' = Counted(k)
         /\ \A k : Beginning(k)' = Beginning(k) /\ End(k)' = End(k)
<1>1. Lengths' = Lengths
  BY DEF Lengths
<1>2. SumTo(Lengths)' = SumTo(Lengths)
  BY <1>1 DEF SumTo
<1>. QED
  BY <1>1, <1>2 DEF AllBounded, Counted, Beginning, End

\* What stays in FillInv when only the place of the program changes.
LEMMA FillOptions == LineInv /\ TodoInv /\ FillInv /\ OptionStep => FillInv'
<1> SUFFICES ASSUME LineInv, TodoInv, FillInv, OptionStep PROVE FillInv'
  OBVIOUS
<1>1. /\ at = "options" /\ at' = "options" /\ n' = 1 /\ ritems' = 0 /\ num' = None /\ items' = << >>
      /\ result' = "running"
  BY OptionKeeps DEF FillInv
<1>2. nitems' \in Nat
  <2>1. CASE OptArguments
    <3>1. todo # << >> /\ Head(todo).o = "n" /\ nitems' = Head(todo).num
      BY <2>1 DEF OptArguments, Option
    <3>2. Head(todo).num \in 0 .. UintMax
      BY <3>1, HeadIs, LineIs DEF ArgumentOK
    <3>. QED
      BY <3>1, <3>2, UintMaxAssumption
  <2>2. CASE ~ OptArguments
    <3>1. nitems' = nitems
      BY <2>2 DEF OptionStep, OptNul, OptCount, OptDelimiter, OptEmpty, OptFind, OptFile, OptRange,
         OptRandom, OptStart, OptSize, OptNumbers, OptNoOpenssl,
         OptPrecision, OptSilent, OptTotal, OptVersion, OptTransform
    <3>. QED
      BY <1>1, <3>1, OptionKeeps DEF FillInv
  <2>. QED
    BY <2>1, <2>2
<1>. QED
  BY <1>1, <1>2 DEF FillInv

\* What a range of the operands still says when it is reached.
LEMMA RangeReached ==
  ASSUME LineInv, AllBounded, nitems <= Len(operands), nitems \in Nat, n \in 1 .. nitems
  PROVE  /\ n \in DOMAIN operands /\ n \in Nat
         /\ Beginning(n) \in Nat /\ End(n) \in Nat /\ End(n) + 1 <= UintMax /\ Beginning(n) < UintMax
         /\ End(n) = 0 => Beginning(n) = 0
         /\ Counted(n) \in Int /\ Counted(n - 1) \in Int
         /\ Counted(n) = Counted(n - 1) + RangeLength(operands[n].range)
         /\ RangeLength(operands[n].range) =
               IF Beginning(n) <= End(n) THEN End(n) - Beginning(n) + 1 ELSE Beginning(n) - End(n) + 1
         /\ Up <=> Beginning(n) <= End(n)
<1>1. Len(operands) \in Nat /\ DOMAIN operands = 1 .. Len(operands)
  BY CountedIs
<1>2. n \in DOMAIN operands /\ n \in 1 .. Len(operands) /\ n - 1 \in 0 .. Len(operands)
      /\ n \in 0 .. Len(operands)
  BY <1>1
<1>3. /\ Beginning(n) \in 0 .. (UintMax - 1) /\ End(n) \in 0 .. (UintMax - 1)
      /\ End(n) = 0 => Beginning(n) = 0
      /\ RangeLength(operands[n].range) =
               IF Beginning(n) <= End(n) THEN End(n) - Beginning(n) + 1 ELSE Beginning(n) - End(n) + 1
  BY <1>2, LengthIs
<1>4. Counted(n) = Counted(n - 1) + RangeLength(operands[n].range)
      /\ Counted(n) \in Int /\ Counted(n - 1) \in Int
  BY <1>2, CountedIs
<1>5. Up <=> Beginning(n) <= End(n)
  BY DEF Up, Beginning, End
<1>. QED
  BY <1>2, <1>3, <1>4, <1>5, UintMaxAssumption

LEMMA FillCheck == LineInv /\ FillInv /\ Check => FillInv'
<1> SUFFICES ASSUME LineInv, FillInv, Check PROVE FillInv'
  OBVIOUS
<1>1. /\ at = "checks" /\ n' = 1 /\ n = 1 /\ ritems' = 0 /\ num' = None /\ items' = << >>
      /\ UNCHANGED <<args, operands, opt>>
  BY DEF Check, FillInv, given, settings
<1>2. Len(operands) \in Nat /\ Counted(0) = 0
  BY CountedIs
<1>3. CASE at' = "ended" /\ nitems' = nitems /\ result' \in {"success", "failure"}
  BY <1>1, <1>3 DEF FillInv
<1>4. CASE /\ at' = IF opt.range THEN "count" ELSE "read"
           /\ nitems' = IF nitems = 0 \/ nitems > Len(operands) THEN Len(operands) ELSE nitems
           /\ result' = result
  <2>1. nitems' \in Nat /\ nitems' <= Len(operands)
    BY <1>1, <1>2, <1>4 DEF FillInv
  <2>2. result' = "running"
    BY <1>1, <1>4 DEF FillInv
  <2>3. opt'.range => at' = "count"
    BY <1>1, <1>4
  <2>4. Counted(0)' = 0
    BY <1>1, <1>2, CountedStays
  <2>. QED
    BY <1>1, <2>1, <2>2, <2>3, <2>4, <1>4 DEF FillInv
<1>. QED
  BY <1>1, <1>3, <1>4 DEF Check, Exit

LEMMA FillCount == LineInv /\ FillInv /\ CountRange => FillInv'
<1> SUFFICES ASSUME LineInv, FillInv, CountRange PROVE FillInv'
  OBVIOUS
<1>1. /\ at = "count" /\ n <= nitems /\ UNCHANGED <<args, operands, opt, nitems, num, items>>
  BY DEF CountRange, given, settings
<1>2. nitems \in Nat
  BY <1>1 DEF FillInv
<1>3. CASE at' = "ended" /\ result' = "failure"
  BY <1>1, <1>2, <1>3, CountedStays DEF FillInv
<1>4. CASE /\ n' = n + 1 /\ ritems' = ritems + RangeLength(operands[n].range) /\ UNCHANGED <<at, result>>
  <2> SUFFICES ASSUME opt.range, AllBounded
               PROVE  /\ n' \in 1 .. (nitems + 1) /\ ritems' = Counted(n' - 1)
                      /\ \A k \in 0 .. (n' - 1) : Counted(k) <= ritems'
    BY <1>1, <1>2, <1>4, CountedStays DEF FillInv
  <2>1. /\ nitems <= Len(operands) /\ n \in 1 .. nitems
        /\ ritems = Counted(n - 1) /\ \A k \in 0 .. (n - 1) : Counted(k) <= ritems
    BY <1>1 DEF FillInv
  <2>2. /\ Counted(n) = ritems' /\ n - 1 \in Nat /\ ritems \in Int /\ ritems' \in Int
        /\ RangeLength(operands[n].range) >= 0
        /\ RangeLength(operands[n].range) \in Int
    BY <1>2, <1>4, <2>1, RangeReached
  <2>3. n' \in 1 .. (nitems + 1) /\ n' - 1 = n
    BY <1>2, <1>4, <2>1
  <2>4. ASSUME NEW k \in 0 .. n PROVE Counted(k) <= ritems'
    <3>1. CASE k = n
      BY <2>2, <3>1
    <3>2. CASE k # n
      <4>1. k \in 0 .. (n - 1) /\ k \in 0 .. Len(operands)
        BY <1>2, <2>1, <2>4, <3>2, CountedIs
      <4>2. Counted(k) <= ritems /\ Counted(k) \in Int
        BY <2>1, <4>1, CountedIs
      <4>. QED
        BY <1>4, <2>2, <4>2
    <3>. QED
      BY <3>1, <3>2
  <2>. QED
    BY <2>2, <2>3, <2>4
<1>. QED
  BY <1>3, <1>4 DEF CountRange, Exit

LEMMA FillCountEnd == LineInv /\ FillInv /\ CountEnd => FillInv'
<1> SUFFICES ASSUME LineInv, FillInv, CountEnd PROVE FillInv'
  OBVIOUS
<1>1. /\ at = "count" /\ n > nitems /\ n' = 1 /\ at' \in {"total", "read"}
      /\ UNCHANGED <<args, operands, opt, nitems, ritems, num, items, result>>
  BY DEF CountEnd, given, settings
<1>2. nitems \in Nat
  BY <1>1 DEF FillInv
<1> SUFFICES ASSUME opt.range, AllBounded
             PROVE  /\ 1 \in 1 .. (nitems + 1) /\ nitems <= Len(operands) /\ num = None /\ items = << >>
                    /\ ritems = Counted(nitems) /\ \A k \in 0 .. nitems : Counted(k) <= ritems
                    /\ Counted(1 - 1) = 0
  BY <1>1, <1>2, CountedStays DEF FillInv
<1>3. /\ nitems <= Len(operands) /\ n \in 1 .. (nitems + 1)
      /\ ritems = Counted(n - 1) /\ \A k \in 0 .. (n - 1) : Counted(k) <= ritems
      /\ num = None /\ items = << >>
  BY <1>1 DEF FillInv
<1>4. n - 1 = nitems
  BY <1>1, <1>2, <1>3
<1>. QED
  BY <1>2, <1>3, <1>4, CountedIs

\* Without ranges only the number of items is of interest.
LEMMA FillOthers == LineInv /\ FillInv /\ (ReadWords \/ ReadFile \/ FilesEnd) => FillInv'
<1> SUFFICES ASSUME LineInv, FillInv, ReadWords \/ ReadFile \/ FilesEnd PROVE FillInv'
  OBVIOUS
<1>1. at' \notin {"options", "checks"} /\ UNCHANGED <<args, operands, opt>>
  BY DEF ReadWords, ReadFile, FilesEnd, Exit, given, settings, FillInv
<1>2. ~ opt.range
  BY DEF LineInv, ReadWords, ReadFile, FilesEnd
<1>3. at' = "read" => nitems' \in Nat
  BY DEF ReadWords, ReadFile, FilesEnd, given, settings, FillInv
<1>4. at' # "count"
  BY DEF ReadWords, ReadFile, FilesEnd, Exit
<1>. QED
  BY <1>1, <1>2, <1>3, <1>4 DEF FillInv

\* The numbers of a range begin with its first one.
LEMMA FillBegin == LineInv /\ FillInv /\ BeginRange => FillInv'
<1> SUFFICES ASSUME LineInv, FillInv, BeginRange PROVE FillInv'
  OBVIOUS
<1>1. /\ at = "read" /\ n <= nitems /\ num = None /\ num' = Beginning(n)
      /\ UNCHANGED <<args, operands, opt, nitems, ritems, n, items, at, result>>
  BY DEF BeginRange, given, settings, Beginning
<1>2. nitems \in Nat
  BY <1>1 DEF FillInv
<1> SUFFICES ASSUME opt.range, AllBounded
             PROVE  /\ num' \in Int
                    /\ IF Up THEN /\ Beginning(n) <= num' /\ num' <= End(n) + 1
                                  /\ Len(items) = Counted(n - 1) + (num' - Beginning(n))
                             ELSE /\ End(n) - 1 <= num' /\ num' <= Beginning(n)
                                  /\ Len(items) = Counted(n - 1) + (Beginning(n) - num')
  <2>1. Up' = Up
    BY <1>1 DEF Up
  <2>. QED
    BY <1>1, <1>2, <2>1, CountedStays DEF FillInv
<1>3. /\ nitems <= Len(operands) /\ n \in 1 .. nitems /\ Len(items) = Counted(n - 1)
  BY <1>1, <1>2 DEF FillInv
<1>4. /\ Beginning(n) \in Nat /\ End(n) \in Nat /\ (Up <=> Beginning(n) <= End(n))
      /\ Counted(n - 1) \in Int
  BY <1>2, <1>3, RangeReached
<1>. QED
  BY <1>1, <1>3, <1>4

\* Another number is written where one was counted.
LEMMA FillWrite == LineInv /\ FillInv /\ WriteNumber => FillInv'
<1> SUFFICES ASSUME LineInv, FillInv, WriteNumber PROVE FillInv'
  OBVIOUS
<1>1. /\ at = "read" /\ n <= nitems /\ num # None /\ InRange /\ opt.range
      /\ num' = (IF Up THEN num + 1 ELSE num - 1 + M) % M
      /\ items' = Append(items, NumberItem(num))
      /\ UNCHANGED <<args, operands, opt, nitems, ritems, n>>
      /\ IF Len(items') > ritems THEN at' = "ended" /\ result' = "crashed" ELSE UNCHANGED <<at, result>>
  BY DEF WriteNumber, Exit, given, settings
<1>2. nitems \in Nat
  BY <1>1 DEF FillInv
<1>3. CASE ~ AllBounded
  BY <1>1, <1>2, <1>3, CountedStays DEF FillInv
<1>4. CASE AllBounded
  <2>1. /\ nitems <= Len(operands) /\ n \in 1 .. nitems /\ num \in Int /\ items \in Seq(Numbers)
        /\ \A k \in 0 .. nitems : Counted(k) <= ritems
        /\ ritems = Counted(nitems)
        /\ IF Up THEN /\ Beginning(n) <= num /\ num <= End(n) + 1
                      /\ Len(items) = Counted(n - 1) + (num - Beginning(n))
                 ELSE /\ End(n) - 1 <= num /\ num <= Beginning(n)
                      /\ Len(items) = Counted(n - 1) + (Beginning(n) - num)
    BY <1>1, <1>2, <1>4 DEF FillInv
  <2>2. /\ Beginning(n) \in Nat /\ End(n) \in Nat /\ End(n) + 1 <= UintMax /\ Beginning(n) < UintMax
        /\ End(n) = 0 => Beginning(n) = 0
        /\ Counted(n - 1) \in Int /\ Counted(n) \in Int
        /\ Counted(n) = Counted(n - 1) + (IF Beginning(n) <= End(n) THEN End(n) - Beginning(n) + 1
                                                                   ELSE Beginning(n) - End(n) + 1)
        /\ Up <=> Beginning(n) <= End(n)
    BY <1>2, <1>4, <2>1, RangeReached
  <2>3. IF Up THEN num <= End(n) ELSE num >= End(n)
    BY <1>1 DEF InRange, End
  <2>4. UintMax \in Nat /\ M = UintMax + 1
    BY UintMaxAssumption DEF M
  <2>5. num' = IF Up THEN num + 1 ELSE num - 1
    <3>1. CASE Up
      <4>1. num + 1 \in 0 .. UintMax
        BY <2>1, <2>2, <2>3, <2>4, <3>1
      <4>2. (num + 1) % M = num + 1
        BY <2>4, <4>1
      <4>. QED
        BY <1>1, <3>1, <4>2
    <3>2. CASE ~ Up
      <4>1. num - 1 \in 0 .. UintMax
        BY <2>1, <2>2, <2>3, <2>4, <3>2
      <4>2. (num - 1 + M) % M = num - 1
        BY <2>4, <4>1
      <4>. QED
        BY <1>1, <3>2, <4>2
    <3>. QED
      BY <3>1, <3>2
  <2>6. items' \in Seq(Numbers) /\ Len(items') = Len(items) + 1
    <3>1. NumberItem(num) \in Numbers
      BY <2>1 DEF Numbers
    <3>. QED
      BY <1>1, <2>1, <3>1
  <2>7. Counted(n) <= ritems /\ ritems \in Int
    <3>1. n \in 0 .. nitems /\ nitems \in 0 .. Len(operands)
      BY <1>2, <2>1, CountedIs
    <3>. QED
      BY <2>1, <3>1, CountedIs
  <2>8. Len(items') <= Counted(n) /\ Len(items') \in Int
    <3>1. CASE Up
      BY <2>1, <2>2, <2>3, <2>6, <3>1
    <3>2. CASE ~ Up
      BY <2>1, <2>2, <2>3, <2>6, <3>2
    <3>. QED
      BY <3>1, <3>2
  <2>9. ~ (Len(items') > ritems)
    BY <2>2, <2>7, <2>8
  <2>10. at' = "read" /\ result' = result
    BY <1>1, <2>9
  <2>11. num' # None
    BY <2>1, <2>2, <2>3, <2>5 DEF None
  <2>12. /\ num' \in Int
         /\ IF Up THEN /\ Beginning(n) <= num' /\ num' <= End(n) + 1
                       /\ Len(items') = Counted(n - 1) + (num' - Beginning(n))
                  ELSE /\ End(n) - 1 <= num' /\ num' <= Beginning(n)
                       /\ Len(items') = Counted(n - 1) + (Beginning(n) - num')
    <3>1. CASE Up
      <4>1. /\ num' = num + 1 /\ Beginning(n) <= num /\ num <= End(n)
            /\ Len(items') = Counted(n - 1) + (num - Beginning(n)) + 1
        BY <2>1, <2>3, <2>5, <2>6, <3>1
      <4>2. /\ num' \in Int /\ Beginning(n) <= num' /\ num' <= End(n) + 1
        <5>1. num \in Int /\ Beginning(n) \in Nat /\ End(n) \in Nat
          BY <2>1, <2>2
        <5>. QED
          BY <4>1, <5>1
      <4>3. Len(items') = Counted(n - 1) + (num' - Beginning(n))
        BY <2>1, <2>2, <4>1
      <4>. QED
        BY <3>1, <4>2, <4>3
    <3>2. CASE ~ Up
      <4>1. /\ num' = num - 1 /\ End(n) <= num /\ num <= Beginning(n)
            /\ Len(items') = Counted(n - 1) + (Beginning(n) - num) + 1
        BY <2>1, <2>2, <2>3, <2>5, <2>6, <3>2
      <4>2. /\ num' \in Int /\ End(n) - 1 <= num' /\ num' <= Beginning(n)
        <5>1. num \in Int /\ Beginning(n) \in Nat /\ End(n) \in Nat
          BY <2>1, <2>2
        <5>. QED
          BY <4>1, <5>1
      <4>3. Len(items') = Counted(n - 1) + (Beginning(n) - num')
        BY <2>1, <2>2, <4>1
      <4>. QED
        BY <3>2, <4>2, <4>3
    <3>. QED
      BY <3>1, <3>2
  <2>13. Up' = Up
    BY <1>1 DEF Up
  <2>14. n' \in 1 .. (nitems' + 1)
    BY <1>1, <1>2, <2>1
  <2>15. /\ AllBounded' /\ \A k : Counted(k)' = Counted(k)
         /\ \A k : Beginning(k)' = Beginning(k) /\ End(k)' = End(k)
    BY <1>1, <1>4, CountedStays
  <2>16. result' = "crashed" => opt'.random
    BY <1>1, <1>4, <2>10 DEF FillInv
  <2>. QED
    BY <1>1, <1>2, <1>4, <2>1, <2>6, <2>10, <2>11, <2>12, <2>13, <2>14, <2>15, <2>16 DEF FillInv
<1>. QED
  BY <1>3, <1>4

\* A range has ended: all of its numbers are written.
LEMMA FillEnd == LineInv /\ FillInv /\ EndRange => FillInv'
<1> SUFFICES ASSUME LineInv, FillInv, EndRange PROVE FillInv'
  OBVIOUS
<1>1. /\ at = "read" /\ n <= nitems /\ num # None /\ ~ InRange /\ opt.range
      /\ num' = None /\ n' = n + 1
      /\ UNCHANGED <<args, operands, opt, nitems, ritems, items, at, result>>
  BY DEF EndRange, given, settings
<1>2. nitems \in Nat
  BY <1>1 DEF FillInv
<1> SUFFICES ASSUME AllBounded
             PROVE  n' \in 1 .. (nitems + 1) /\ Len(items) = Counted(n' - 1)
  BY <1>1, <1>2, CountedStays DEF FillInv
<1>3. /\ nitems <= Len(operands) /\ n \in 1 .. nitems /\ num \in Int
      /\ IF Up THEN /\ Beginning(n) <= num /\ num <= End(n) + 1
                    /\ Len(items) = Counted(n - 1) + (num - Beginning(n))
               ELSE /\ End(n) - 1 <= num /\ num <= Beginning(n)
                    /\ Len(items) = Counted(n - 1) + (Beginning(n) - num)
  BY <1>1, <1>2 DEF FillInv
<1>4. /\ Beginning(n) \in Nat /\ End(n) \in Nat
      /\ Counted(n - 1) \in Int /\ Counted(n) \in Int
      /\ Counted(n) = Counted(n - 1) + (IF Beginning(n) <= End(n) THEN End(n) - Beginning(n) + 1
                                                                 ELSE Beginning(n) - End(n) + 1)
      /\ Up <=> Beginning(n) <= End(n)
  BY <1>2, <1>3, RangeReached
<1>5. IF Up THEN num = End(n) + 1 ELSE num = End(n) - 1
  BY <1>1, <1>3, <1>4 DEF InRange, End
<1>6. Len(items) = Counted(n)
  <2>1. CASE Up
    BY <1>3, <1>4, <1>5, <2>1
  <2>2. CASE ~ Up
    BY <1>3, <1>4, <1>5, <2>2
  <2>. QED
    BY <2>1, <2>2
<1>7. n' - 1 = n /\ n' \in 1 .. (nitems + 1)
  BY <1>1, <1>2, <1>3
<1>. QED
  BY <1>6, <1>7

LEMMA FillRangesEnd == LineInv /\ FillInv /\ RangesEnd => FillInv'
<1> SUFFICES ASSUME LineInv, FillInv, RangesEnd PROVE FillInv'
  OBVIOUS
<1>1. /\ at = "read" /\ n > nitems /\ at' = "action" /\ opt.range
      /\ UNCHANGED <<args, operands, opt, ritems, n, num, items, result>>
  BY DEF RangesEnd, given, settings
<1>2. nitems \in Nat
  BY <1>1 DEF FillInv
<1> SUFFICES ASSUME AllBounded PROVE Len(items) = ritems
  BY <1>1, CountedStays DEF FillInv
<1>3. /\ nitems <= Len(operands) /\ n \in 1 .. (nitems + 1) /\ ritems = Counted(nitems)
      /\ num = None => Len(items) = Counted(n - 1)
      /\ num # None => n <= nitems
  BY <1>1 DEF FillInv
<1>4. n - 1 = nitems
  BY <1>1, <1>2, <1>3
<1>. QED
  BY <1>1, <1>3, <1>4

\* The library is called with the items as they are.
LEMMA FillLibrary ==
  LineInv /\ FillInv /\ (BadOption \/ OptionsEnd \/ CallLibrary \/ InsideCmb \/ CleanUp) => FillInv'
<1> SUFFICES ASSUME LineInv, FillInv, BadOption \/ OptionsEnd \/ CallLibrary \/ InsideCmb \/ CleanUp
             PROVE FillInv'
  OBVIOUS
<1>1. UNCHANGED <<args, operands, opt>>
  BY LaterKeeps DEF Later
<1>2. /\ AllBounded' = AllBounded /\ \A k : Counted(k)' = Counted(k)
  BY <1>1, CountedStays
<1>3. CASE BadOption
  <2>1. at' = "ended" /\ result' = "failure" /\ UNCHANGED <<items, ritems>> /\ items = << >>
    BY <1>3 DEF BadOption, Option, Exit, FillInv
  <2>. QED
    BY <1>1, <1>2, <2>1 DEF FillInv
<1>4. CASE OptionsEnd
  BY <1>1, <1>2, <1>4 DEF OptionsEnd, FillInv
<1>5. CASE CallLibrary \/ InsideCmb \/ CleanUp
  <2>1. UNCHANGED <<items, ritems>>
    BY <1>5 DEF CallLibrary, InsideCmb, CleanUp, ChooseAction, PrintTotal, RandomStart, NegativeStart,
       PlainStart, CallCmb, mainVars
  <2>2. at \in {"action", "start", "call", "cmb"} \/ at = "total"
    BY <1>5 DEF CallLibrary, InsideCmb, CleanUp, ChooseAction, PrintTotal, RandomStart, NegativeStart,
       PlainStart, CallCmb
  <2>3. /\ at' \in {"action", "start", "call", "cmb", "total", "ended"}
        /\ at = "total" => at' = "ended"
    BY <1>5 DEF CallLibrary, InsideCmb, CleanUp, ChooseAction, PrintTotal, RandomStart, NegativeStart,
       PlainStart, CallCmb, Exit, mainVars
  <2>4. result' = "crashed" => result = "crashed" \/ opt.random \/ ~ opt.range
    <3>1. CASE RandomStart
      BY <3>1 DEF RandomStart
    <3>2. CASE CleanUp
      BY <3>2 DEF CleanUp, LineInv
    <3>3. CASE ChooseAction \/ PrintTotal
      BY <3>3 DEF ChooseAction, PrintTotal, Exit
    <3>4. CASE NegativeStart \/ PlainStart \/ CallCmb \/ InsideCmb
      BY <3>4 DEF NegativeStart, PlainStart, CallCmb, InsideCmb, mainVars
    <3>. QED
      BY <1>5, <3>1, <3>2, <3>3, <3>4 DEF CallLibrary
  <2>. QED
    BY <1>1, <1>2, <2>1, <2>2, <2>3, <2>4 DEF FillInv
<1>. QED
  BY <1>3, <1>4, <1>5

LEMMA FillStep == LineInv /\ TodoInv /\ FillInv /\ [ToolNext]_toolVars => FillInv'
<1> SUFFICES ASSUME LineInv, TodoInv, FillInv, [ToolNext]_toolVars PROVE FillInv'
  OBVIOUS
<1>1. CASE UNCHANGED toolVars
  <2>1. UNCHANGED <<args, operands, opt, at, nitems, ritems, n, num, items, result>>
    BY <1>1 DEF toolVars, mainVars
  <2>2. Up' = Up
    BY <2>1 DEF Up
  <2>. QED
    BY <2>1, <2>2, CountedStays DEF FillInv
<1>2. CASE MakeItems
  BY <1>2, FillCheck, FillCount, FillCountEnd, FillOthers, FillBegin, FillWrite, FillEnd, FillRangesEnd
     DEF MakeItems
<1>. QED
  BY <1>1, <1>2, FillOptions, FillLibrary, Steps DEF Later

\* For every command line: the loops that write the numbers of ranges write as
\* many as were counted for them, never beyond the array, unless a range never
\* ends.
THEOREM RangesFill == ToolSpec => []FillsTheArray
<1>1. LineInv /\ FillInv => FillsTheArray
  BY DEF FillInv, FillsTheArray
<1>. QED
  BY <1>1, LineInit, LineStep, TodoInit, TodoStep, FillInit, FillStep, PTL DEF ToolSpec

-----------------------------------------------------------------------------
(***************************************************************************)
(* What was read of the options is in the settings.                        *)
(***************************************************************************)
ReadOf(o) == {i \in 1 .. Already : args[i].o = o}
ParsedInv ==
    at # "ended" /\ Documented =>
        /\ \A i \in ReadOf("k") : cfg.min = SizeMin(args[i]) /\ cfg.max = SizeMax(args[i])
        /\ ReadOf("k") = {} => cfg.min = 0 /\ cfg.max = 0
        /\ cfg.empty = (ReadOf("e") # {}) /\ cfg.nulparse = (ReadOf("0") # {})
        /\ \A i \in ReadOf("d") : opt.delimiter = args[i].text
        /\ ReadOf("d") = {} => opt.delimiter = ""
        /\ at \in {"options", "checks"} =>
              /\ \A i \in ReadOf("n") : nitems = args[i].num
              /\ ReadOf("n") = {} => nitems = 0
EndInv == at # "ended" => total = None

LEMMA EndInit == ToolInit => EndInv
BY DEF ToolInit, EndInv

\* Only -t gives a total, and it is the last that is done.
LEMMA TotalKept == ToolNext /\ ~ PrintTotal => total' = total /\ at # "ended"
<1> SUFFICES ASSUME ToolNext, ~ PrintTotal PROVE total' = total /\ at # "ended"
  OBVIOUS
<1>1. total' = total
  BY DEF ToolNext, ReadOption, MakeItems, CallLibrary, InsideCmb, CleanUp, mainVars, reading,
    OptNul, OptCount, OptDelimiter, OptEmpty, OptFind, OptFile, OptRange,
    OptRandom, OptStart, OptSize, OptNumbers, OptArguments, OptNoOpenssl,
    OptPrecision, OptSilent, OptTotal, OptVersion, OptTransform, BadOption, OptionsEnd,
    Check, CountRange, CountEnd, ReadWords, ReadFile, FilesEnd, BeginRange, WriteNumber, EndRange,
    RangesEnd, ChooseAction, RandomStart, NegativeStart, PlainStart, CallCmb
<1>2. at # "ended"
  BY DEF ToolNext, ReadOption, MakeItems, CallLibrary, InsideCmb, CleanUp, Option,
    OptNul, OptCount, OptDelimiter, OptEmpty, OptFind, OptFile, OptRange,
    OptRandom, OptStart, OptSize, OptNumbers, OptArguments, OptNoOpenssl,
    OptPrecision, OptSilent, OptTotal, OptVersion, OptTransform, BadOption, OptionsEnd,
    Check, CountRange, CountEnd, ReadWords, ReadFile, FilesEnd, BeginRange, WriteNumber, EndRange,
    RangesEnd, ChooseAction, RandomStart, NegativeStart, PlainStart, CallCmb
<1>. QED
  BY <1>1, <1>2

LEMMA EndStep == EndInv /\ [ToolNext]_toolVars => EndInv'
<1> SUFFICES ASSUME EndInv, [ToolNext]_toolVars PROVE EndInv'
  OBVIOUS
<1>1. CASE PrintTotal
  BY <1>1 DEF PrintTotal, Exit, EndInv
<1>2. CASE UNCHANGED toolVars
  BY <1>2 DEF toolVars, mainVars, EndInv
<1>3. CASE ToolNext /\ ~ PrintTotal
  BY <1>3, TotalKept DEF EndInv
<1>. QED
  BY <1>1, <1>2, <1>3

LEMMA ParsedInit == ToolInit => ParsedInv
<1> SUFFICES ASSUME ToolInit PROVE ParsedInv
  OBVIOUS
<1>1. /\ cfg.min = 0 /\ cfg.max = 0 /\ cfg.empty = FALSE /\ cfg.nulparse = FALSE
      /\ nitems = 0 /\ todo = args
  BY DEF ToolInit
<1>2. opt.delimiter = ""
  BY FlagsInit
<1>3. args \in Seq(Range(args))
  BY LineInit, LineIs
<1>4. Already = 0
  BY <1>1, <1>3 DEF Already
<1>5. \A o : ReadOf(o) = {}
  BY <1>4 DEF ReadOf
<1>. QED
  BY <1>1, <1>2, <1>5 DEF ParsedInv

\* One option more was read.
LEMMA ReadMore ==
  ASSUME LineInv, TodoInv, Documented, OptionStep
  PROVE  /\ Documented' /\ args' = args /\ Already + 1 \in DOMAIN args
         /\ Head(todo) = args[Already + 1]
         /\ \A o : /\ Head(todo).o # o => ReadOf(o)' = ReadOf(o)
                   /\ Head(todo).o = o => ReadOf(o)' = {Already + 1}
<1>1. /\ todo # << >> /\ todo' = Tail(todo) /\ args' = args /\ at = "options"
  BY OptionKeeps
<1>2. /\ Already \in Nat /\ Already + 1 \in DOMAIN args /\ Head(todo) = args[Already + 1]
      /\ Len(Tail(todo)) = Len(todo) - 1
  BY <1>1, HeadIs
<1>3. Len(todo) \in Nat /\ Len(args) \in Nat /\ DOMAIN args = 1 .. Len(args)
  BY LineIs DEF TodoInv
<1>4. Already' = Already + 1
  BY <1>1, <1>2, <1>3 DEF Already
<1>5. ASSUME NEW o PROVE ReadOf(o)' = {i \in 1 .. (Already + 1) : args[i].o = o}
  BY <1>1, <1>4 DEF ReadOf
<1>6. ASSUME NEW o, Head(todo).o # o PROVE ReadOf(o)' = ReadOf(o)
  <2>1. args[Already + 1].o # o
    BY <1>2, <1>6
  <2>2. \A i : i \in 1 .. (Already + 1) <=> i \in 1 .. Already \/ i = Already + 1
    BY <1>2
  <2>. QED
    BY <1>5, <2>1, <2>2 DEF ReadOf
<1>7. ASSUME NEW o, Head(todo).o = o PROVE ReadOf(o)' = {Already + 1}
  <2>1. \A i \in 1 .. Already : i \in DOMAIN args /\ i # Already + 1
    BY <1>2, <1>3
  <2>2. \A i \in 1 .. Already : args[i].o # o
    BY <1>2, <1>7, <2>1 DEF Documented
  <2>. QED
    BY <1>2, <1>5, <1>7, <2>2
<1>8. Documented'
  BY <1>1 DEF Documented, With
<1>. QED
  BY <1>1, <1>2, <1>6, <1>7, <1>8

\* What an option is about: the sizes, the empty set, NULs, the delimiter, the
\* number of arguments.
LEMMA OptionMeans ==
  ASSUME LineInv, OptionStep
  PROVE  LET o == Head(todo).o IN
         /\ o # "k" => cfg'.min = cfg.min /\ cfg'.max = cfg.max
         /\ o = "k" => cfg'.min = SizeMin(Head(todo)) /\ cfg'.max = SizeMax(Head(todo))
         /\ o # "e" => cfg'.empty = cfg.empty
         /\ o = "e" => cfg'.empty = ~ cfg.empty
         /\ o # "0" => cfg'.nulparse = cfg.nulparse
         /\ o = "0" => cfg'.nulparse = ~ cfg.nulparse
         /\ o # "d" => opt'.delimiter = opt.delimiter
         /\ o = "d" => opt'.delimiter = Head(todo).text
         /\ o # "n" => nitems' = nitems
         /\ o = "n" => nitems' = Head(todo).num
<1> DEFINE o == Head(todo).o
<1>1. DOMAIN opt = Flags /\ DOMAIN cfg = Kept
  BY DEF LineInv
<1>2. /\ OptNul => o = "0" /\ UNCHANGED nitems
      /\ OptCount => o = "c" /\ UNCHANGED <<opt, nitems>>
      /\ OptDelimiter => o = "d" /\ UNCHANGED <<cfg, nitems>>
      /\ OptEmpty => o = "e" /\ UNCHANGED nitems
      /\ OptFind => o = "F" /\ UNCHANGED <<cfg, nitems>>
      /\ OptFile => o = "f" /\ UNCHANGED <<cfg, nitems>>
      /\ OptRange => o = "r" /\ UNCHANGED <<cfg, nitems>>
      /\ OptRandom => o = "i" /\ UNCHANGED <<cfg, nitems>>
      /\ OptStart => o = "i" /\ UNCHANGED <<opt, nitems>>
      /\ OptSize => o = "k" /\ UNCHANGED <<opt, nitems>>
      /\ OptNumbers => o = "N" /\ UNCHANGED <<opt, nitems>>
      /\ OptArguments => o = "n" /\ UNCHANGED <<opt, cfg>>
      /\ OptNoOpenssl => o = "o" /\ UNCHANGED <<cfg, nitems>>
      /\ OptPrecision => o = "P" /\ UNCHANGED <<cfg, nitems>>
      /\ OptSilent => o = "S" /\ UNCHANGED <<cfg, nitems>>
      /\ OptTotal => o = "t" /\ UNCHANGED <<cfg, nitems>>
      /\ OptVersion => o = "v" /\ UNCHANGED <<cfg, nitems>>
      /\ OptTransform => o = "X" /\ UNCHANGED <<cfg, nitems>>
  BY DEF OptNul, OptCount, OptDelimiter, OptEmpty, OptFind, OptFile, OptRange,
      OptRandom, OptStart, OptSize, OptNumbers, OptArguments, OptNoOpenssl,
      OptPrecision, OptSilent, OptTotal, OptVersion, OptTransform, Option, settings
<1> HIDE DEF o
<1>3. CASE OptNul
  <2>1. /\ cfg'.min = cfg.min /\ cfg'.max = cfg.max /\ cfg'.empty = cfg.empty
        /\ cfg'.nulparse = ~ cfg.nulparse /\ opt'.delimiter = opt.delimiter
    BY <1>1, <1>3 DEF OptNul, Set, Toggle, Flags, Kept
  <2>. QED
    BY <1>2, <1>3, <2>1 DEF o
<1>4. CASE OptCount
  <2>1. /\ cfg'.min = cfg.min /\ cfg'.max = cfg.max /\ cfg'.empty = cfg.empty
        /\ cfg'.nulparse = cfg.nulparse
    BY <1>1, <1>4 DEF OptCount, Kept
  <2>. QED
    BY <1>2, <1>4, <2>1 DEF o
<1>5. CASE OptDelimiter
  <2>1. opt'.delimiter = Head(todo).text
    BY <1>1, <1>5 DEF OptDelimiter, Flags
  <2>. QED
    BY <1>2, <1>5, <2>1 DEF o
<1>6. CASE OptEmpty
  <2>1. /\ cfg'.min = cfg.min /\ cfg'.max = cfg.max /\ cfg'.nulparse = cfg.nulparse
        /\ cfg'.empty = ~ cfg.empty /\ opt'.delimiter = opt.delimiter
    BY <1>1, <1>6 DEF OptEmpty, Set, Toggle, Flags, Kept
  <2>. QED
    BY <1>2, <1>6, <2>1 DEF o
<1>7. CASE OptStart
  <2>1. /\ cfg'.min = cfg.min /\ cfg'.max = cfg.max /\ cfg'.empty = cfg.empty
        /\ cfg'.nulparse = cfg.nulparse
    BY <1>1, <1>7 DEF OptStart, Kept
  <2>. QED
    BY <1>2, <1>7, <2>1 DEF o
<1>8. CASE OptSize
  <2>1. /\ cfg'.min = SizeMin(Head(todo)) /\ cfg'.max = SizeMax(Head(todo))
        /\ cfg'.empty = cfg.empty /\ cfg'.nulparse = cfg.nulparse
    BY <1>1, <1>8 DEF OptSize, Kept
  <2>. QED
    BY <1>2, <1>8, <2>1 DEF o
<1>9. CASE OptNumbers
  <2>1. /\ cfg'.min = cfg.min /\ cfg'.max = cfg.max /\ cfg'.empty = cfg.empty
        /\ cfg'.nulparse = cfg.nulparse
    BY <1>1, <1>9 DEF OptNumbers, Toggle, Kept
  <2>. QED
    BY <1>2, <1>9, <2>1 DEF o
<1>10. CASE OptArguments
  <2>1. nitems' = Head(todo).num
    BY <1>10 DEF OptArguments
  <2>. QED
    BY <1>2, <1>10, <2>1 DEF o
<1>11. CASE OptFind \/ OptFile \/ OptRange \/ OptRandom \/ OptNoOpenssl \/ OptPrecision
            \/ OptSilent \/ OptTotal \/ OptVersion \/ OptTransform
  <2>1. opt'.delimiter = opt.delimiter
    BY <1>1, <1>11 DEF OptFind, OptFile, OptRange, OptRandom, OptNoOpenssl, OptPrecision,
       OptSilent, OptTotal, OptVersion, OptTransform, Set, Flags
  <2>. QED
    BY <1>2, <1>11, <2>1 DEF o
<1>. QED
  BY <1>3, <1>4, <1>5, <1>6, <1>7, <1>8, <1>9, <1>10, <1>11 DEF OptionStep

LEMMA ParsedStep == LineInv /\ TodoInv /\ ParsedInv /\ [ToolNext]_toolVars => ParsedInv'
<1> SUFFICES ASSUME LineInv, TodoInv, ParsedInv, [ToolNext]_toolVars, at' # "ended", Documented'
             PROVE  ParsedInv'
  BY DEF ParsedInv
<1>1. args' = args
  BY LaterKeeps, OptionKeeps, Steps DEF toolVars, mainVars
<1>2. Documented
  BY <1>1 DEF Documented, With
<1>3. CASE OptionStep
  <2>1. at = "options" /\ at' = "options"
    BY <1>3, OptionKeeps
  <2>2. /\ \A i \in ReadOf("k") : cfg.min = SizeMin(args[i]) /\ cfg.max = SizeMax(args[i])
        /\ ReadOf("k") = {} => cfg.min = 0 /\ cfg.max = 0
        /\ cfg.empty = (ReadOf("e") # {}) /\ cfg.nulparse = (ReadOf("0") # {})
        /\ \A i \in ReadOf("d") : opt.delimiter = args[i].text
        /\ ReadOf("d") = {} => opt.delimiter = ""
        /\ \A i \in ReadOf("n") : nitems = args[i].num
        /\ ReadOf("n") = {} => nitems = 0
    BY <1>2, <2>1 DEF ParsedInv
  <2>3. /\ Head(todo) = args[Already + 1]
        /\ \A o : /\ Head(todo).o # o => ReadOf(o)' = ReadOf(o)
                  /\ Head(todo).o = o => ReadOf(o)' = {Already + 1}
    BY <1>2, <1>3, ReadMore
  <2> DEFINE o == Head(todo).o
  <2>4. /\ o # "k" => cfg'.min = cfg.min /\ cfg'.max = cfg.max
        /\ o = "k" => cfg'.min = SizeMin(Head(todo)) /\ cfg'.max = SizeMax(Head(todo))
        /\ o # "e" => cfg'.empty = cfg.empty
        /\ o = "e" => cfg'.empty = ~ cfg.empty
        /\ o # "0" => cfg'.nulparse = cfg.nulparse
        /\ o = "0" => cfg'.nulparse = ~ cfg.nulparse
        /\ o # "d" => opt'.delimiter = opt.delimiter
        /\ o = "d" => opt'.delimiter = Head(todo).text
        /\ o # "n" => nitems' = nitems
        /\ o = "n" => nitems' = Head(todo).num
    BY <1>3, OptionMeans
  <2>5. \A x : /\ o # x => ReadOf(x)' = ReadOf(x)
               /\ o = x => ReadOf(x)' = {Already + 1}
    BY <2>3
  <2>6. \A x : o = x => ReadOf(x) = {}
    <3>1. SUFFICES ASSUME NEW i \in 1 .. Already, args[i].o = o PROVE FALSE
      BY DEF ReadOf
    <3>2. Already + 1 \in DOMAIN args /\ Already \in Nat
      BY <1>3, HeadIs, OptionKeeps
    <3>3. i \in DOMAIN args /\ i # Already + 1
      BY <3>2, LineIs
    <3>. QED
      BY <1>2, <2>3, <3>1, <3>2, <3>3 DEF Documented
  <2> HIDE DEF o
  <2>7. /\ \A i \in ReadOf("k")' : cfg'.min = SizeMin(args[i]) /\ cfg'.max = SizeMax(args[i])
        /\ ReadOf("k")' = {} => cfg'.min = 0 /\ cfg'.max = 0
    <3>1. CASE o = "k"
      BY <2>3, <2>4, <2>5, <3>1
    <3>2. CASE o # "k"
      BY <2>2, <2>4, <2>5, <3>2
    <3>. QED
      BY <3>1, <3>2
  <2>8. cfg'.empty = (ReadOf("e")' # {}) /\ cfg'.nulparse = (ReadOf("0")' # {})
    BY <2>2, <2>4, <2>5, <2>6
  <2>9. /\ \A i \in ReadOf("d")' : opt'.delimiter = args[i].text
        /\ ReadOf("d")' = {} => opt'.delimiter = ""
    BY <2>2, <2>3, <2>4, <2>5
  <2>10. /\ \A i \in ReadOf("n")' : nitems' = args[i].num
         /\ ReadOf("n")' = {} => nitems' = 0
    BY <2>2, <2>3, <2>4, <2>5
  <2>. QED
    BY <1>1, <2>7, <2>8, <2>9, <2>10 DEF ParsedInv, SizeMin, SizeMax, Unsigned
<1>4. ASSUME UNCHANGED <<todo, opt>>, at # "ended",
             cfg'.min = cfg.min, cfg'.max = cfg.max, cfg'.empty = cfg.empty, cfg'.nulparse = cfg.nulparse,
             at' \in {"options", "checks"} => nitems' = nitems /\ at \in {"options", "checks"}
      PROVE  ParsedInv'
  <2>1. Already' = Already
    BY <1>1, <1>4 DEF Already
  <2>2. \A x : ReadOf(x)' = ReadOf(x)
    BY <1>1, <2>1 DEF ReadOf
  <2>. QED
    BY <1>1, <1>2, <1>4, <2>2 DEF ParsedInv, SizeMin, SizeMax, Unsigned
<1>5. CASE Later
  <2>1. /\ opt' = opt
        /\ cfg'.min = cfg.min /\ cfg'.max = cfg.max /\ cfg'.empty = cfg.empty
        /\ cfg'.nulparse = cfg.nulparse
    BY <1>5, LaterKeeps
  <2>2. CASE BadOption
    BY <2>2 DEF BadOption, Exit
  <2>3. CASE OptionsEnd
    BY <1>4, <2>1, <2>3 DEF OptionsEnd, given, ParsedInv
  <2>4. CASE MakeItems \/ CallLibrary \/ InsideCmb \/ CleanUp
    <3>1. at # "ended" /\ at' \notin {"options", "checks"}
      BY <2>4 DEF MakeItems, CallLibrary, InsideCmb, CleanUp, Check, CountRange, CountEnd, ReadWords,
         ReadFile, FilesEnd, BeginRange, WriteNumber, EndRange, RangesEnd, ChooseAction, PrintTotal,
         RandomStart, NegativeStart, PlainStart, CallCmb, Exit, mainVars
    <3>2. UNCHANGED todo
      BY <2>4 DEF MakeItems, CallLibrary, InsideCmb, CleanUp, Check, CountRange, CountEnd, ReadWords,
         ReadFile, FilesEnd, BeginRange, WriteNumber, EndRange, RangesEnd, ChooseAction, PrintTotal,
         RandomStart, NegativeStart, PlainStart, CallCmb, given, mainVars
    <3>. QED
      BY <1>4, <2>1, <3>1, <3>2
  <2>. QED
    BY <1>5, <2>2, <2>3, <2>4 DEF Later
<1>6. CASE UNCHANGED toolVars
  <2>1. UNCHANGED <<todo, opt, cfg, at, total, nitems>>
    BY <1>6 DEF toolVars, mainVars
  <2>. QED
    BY <1>4, <2>1
<1>. QED
  BY <1>3, <1>5, <1>6, Steps

\* With all options read, an option of which there is one is the one.
LEMMA ArgumentIs ==
  ASSUME LineInv, Documented, NEW o, Asked(o)
  PROVE  With(o) = {CHOOSE i \in With(o) : TRUE} /\ Argument(o) = args[CHOOSE i \in With(o) : TRUE]
         /\ (CHOOSE i \in With(o) : TRUE) \in DOMAIN args
<1> DEFINE k == CHOOSE i \in With(o) : TRUE
<1>1. k \in With(o) /\ k \in DOMAIN args /\ args[k].o = o
  BY DEF Asked, With
<1>2. \A i \in With(o) : i = k
  BY <1>1 DEF Documented, With
<1>. HIDE DEF k
<1>3. With(o) = {k}
  BY <1>1, <1>2
<1>4. Max(With(o)) = CHOOSE x \in {k} : \A y \in {k} : x >= y
  BY <1>3 DEF Max
<1>5. k \in Int
  BY <1>1, LineIs
<1>6. Max(With(o)) = k
  BY <1>4, <1>5
<1>. QED
  BY <1>1, <1>3, <1>6 DEF Argument, k

LEMMA SettingsAre ==
  ASSUME LineInv, TodoInv, ParsedInv, Documented, todo = << >>, at # "ended"
  PROVE  /\ IF Asked("k") THEN cfg.min = SizeMin(Argument("k")) /\ cfg.max = SizeMax(Argument("k"))
                          ELSE cfg.min = 0 /\ cfg.max = 0
         /\ cfg.empty = Asked("e") /\ cfg.nulparse = Asked("0")
         /\ opt.delimiter = IF Asked("d") THEN Argument("d").text ELSE ""
         /\ at \in {"options", "checks"} => nitems = IF Asked("n") THEN Argument("n").num ELSE 0
<1>1. Already = Len(args) /\ DOMAIN args = 1 .. Len(args)
  BY LineIs DEF Already
<1>2. \A o : ReadOf(o) = With(o)
  BY <1>1 DEF ReadOf, With
<1>3. /\ \A i \in With("k") : cfg.min = SizeMin(args[i]) /\ cfg.max = SizeMax(args[i])
      /\ With("k") = {} => cfg.min = 0 /\ cfg.max = 0
      /\ cfg.empty = (With("e") # {}) /\ cfg.nulparse = (With("0") # {})
      /\ \A i \in With("d") : opt.delimiter = args[i].text
      /\ With("d") = {} => opt.delimiter = ""
      /\ at \in {"options", "checks"} =>
            /\ \A i \in With("n") : nitems = args[i].num
            /\ With("n") = {} => nitems = 0
  BY <1>2 DEF ParsedInv
<1>4. ASSUME NEW o, Asked(o) PROVE \E i \in With(o) : Argument(o) = args[i]
  BY <1>4, ArgumentIs
<1>. QED
  BY <1>3, <1>4 DEF Asked

-----------------------------------------------------------------------------
(***************************************************************************)
(* The items that are asked for, counted operand by operand.               *)
(***************************************************************************)
FlatStep(m, f, i) == IF i = 1 THEN m[i] ELSE f[i - 1] \o m[i]

\* Sequences put together are as long as they are together.
LEMMA Joined ==
  ASSUME NEW S, NEW s \in Seq(S), NEW t \in Seq(S)
  PROVE  s \o t \in Seq(S) /\ Len(s \o t) = Len(s) + Len(t)
OBVIOUS

LEMMA FlatLength ==
  ASSUME NEW X, NEW q \in Nat, NEW m \in [1 .. q -> Seq(X)],
         NEW l, l[0] = 0, \A i \in 1 .. q : l[i] = l[i - 1] + Len(m[i])
  PROVE  Len(FlattenSeq(m)) = l[q] /\ l[q] \in Nat
<1>1. Len(m) = q
  OBVIOUS
<1>2. CASE q = 0
  <2>1. FlattenSeq(m) = m
    BY <1>1, <1>2, Zenon DEF FlattenSeq
  <2>. QED
    BY <1>1, <1>2, <2>1
<1>3. CASE q # 0
  <2> DEFINE S == {k \in Nat : \E f : f = [i \in 1 .. k |-> FlatStep(m, f, i)]}
  <2>1. 0 \in S
    <3> DEFINE f == [i \in 1 .. 0 |-> m]
    <3>1. f = [i \in 1 .. 0 |-> FlatStep(m, f, i)]
      OBVIOUS
    <3>. QED
      BY <3>1
  <2>2. ASSUME NEW k \in Nat, k \in S PROVE k + 1 \in S
    <3>1. PICK f : f = [i \in 1 .. k |-> FlatStep(m, f, i)]
      BY <2>2
    <3> DEFINE g == [i \in 1 .. (k + 1) |-> IF i <= k THEN f[i] ELSE FlatStep(m, f, i)]
    <3>2. ASSUME NEW i \in 1 .. (k + 1) PROVE g[i] = FlatStep(m, g, i)
      <4>1. CASE i = 1
        <5>1. g[i] = FlatStep(m, f, i)
          BY <3>1, <4>1
        <5>. QED
          BY <4>1, <5>1 DEF FlatStep
      <4>2. CASE i # 1
        <5>1. g[i - 1] = f[i - 1]
          BY <4>2
        <5>2. g[i] = FlatStep(m, f, i)
          BY <3>1, <4>2
        <5>. QED
          BY <4>2, <5>1, <5>2 DEF FlatStep
      <4>. QED
        BY <4>1, <4>2
    <3>3. g = [i \in 1 .. (k + 1) |-> FlatStep(m, g, i)]
      BY <3>2
    <3> HIDE DEF g
    <3>. QED
      BY <3>3
  <2> HIDE DEF S
  <2>3. q \in S
    BY <2>1, <2>2, Induction
  <2>4. \E f : f = [i \in 1 .. q |-> FlatStep(m, f, i)]
    BY <2>3 DEF S
  <2> DEFINE r == CHOOSE f : f = [i \in 1 .. q |-> FlatStep(m, f, i)]
  <2>5. r = [i \in 1 .. q |-> FlatStep(m, r, i)]
    BY <2>4, Zenon
  <2>6. FlattenSeq(m) = r[q]
    BY <1>1, <1>3, Zenon DEF FlattenSeq, FlatStep
  <2> HIDE DEF r
  <2> DEFINE T == {k \in Nat : k + 1 <= q => r[k + 1] \in Seq(X) /\ Len(r[k + 1]) = l[k + 1]}
  <2>7. 0 \in T
    <3>1. 1 \in 1 .. q /\ 0 + 1 = 1
      BY <1>3
    <3>2. r[1] = m[1] /\ m[1] \in Seq(X) /\ l[1] = l[1 - 1] + Len(m[1])
      BY <2>5, <3>1 DEF FlatStep
    <3>3. Len(m[1]) \in Nat
      BY <3>2
    <3>. QED
      BY <3>1, <3>2, <3>3
  <2>8. ASSUME NEW k \in Nat, k \in T PROVE k + 1 \in T
    <3> SUFFICES ASSUME (k + 1) + 1 <= q
                 PROVE  r[(k + 1) + 1] \in Seq(X) /\ Len(r[(k + 1) + 1]) = l[(k + 1) + 1]
      OBVIOUS
    <3>1. /\ (k + 1) + 1 \in 1 .. q /\ (k + 1) + 1 # 1 /\ ((k + 1) + 1) - 1 = k + 1
          /\ r[k + 1] \in Seq(X) /\ Len(r[k + 1]) = l[k + 1]
      BY <2>8
    <3>2. r[(k + 1) + 1] = r[k + 1] \o m[(k + 1) + 1]
      BY <2>5, <3>1 DEF FlatStep
    <3>3. m[(k + 1) + 1] \in Seq(X) /\ l[(k + 1) + 1] = l[k + 1] + Len(m[(k + 1) + 1])
      BY <3>1
    <3>4. /\ r[k + 1] \o m[(k + 1) + 1] \in Seq(X)
          /\ Len(r[k + 1] \o m[(k + 1) + 1]) = Len(r[k + 1]) + Len(m[(k + 1) + 1])
      BY <3>1, <3>3, Joined, Zenon
    <3>. QED
      BY <3>1, <3>2, <3>3, <3>4
  <2> HIDE DEF T
  <2>9. \A k \in Nat : k \in T
    BY <2>7, <2>8, Induction
  <2>10. Len(r[q]) = l[q] /\ r[q] \in Seq(X)
    <3>1. q - 1 \in T /\ (q - 1) + 1 = q
      BY <1>3, <2>9
    <3>. QED
      BY <3>1 DEF T
  <2>. QED
    BY <2>6, <2>10
<1>. QED
  BY <1>2, <1>3

\* The items of an operand, and those of the operands up to one.
MadeLengths == [k \in DOMAIN operands |-> Len(MadeOf(operands[k]))]
MadeUpTo(k) == SumTo(MadeLengths)[k]
Uses == Len(AskedOperands)

\* A range that ends has as many items as are counted for it.
LEMMA RangeMade ==
  ASSUME LineInv, AllBounded, NEW k \in DOMAIN operands
  PROVE  /\ Len(RangeItems(operands[k].range)) = RangeLength(operands[k].range)
         /\ DOMAIN RangeItems(operands[k].range) = 1 .. RangeLength(operands[k].range)
         /\ RangeLength(operands[k].range) \in Nat
<1> DEFINE r == operands[k].range
<1>1. OperandOK(operands[k])
  BY LineIs
<1>2. /\ Beginning(k) \in Nat /\ End(k) \in Nat /\ (End(k) = 0 => Beginning(k) = 0)
      /\ RangeLength(operands[k].range) =
            IF Beginning(k) <= End(k) THEN End(k) - Beginning(k) + 1 ELSE Beginning(k) - End(k) + 1
  BY LengthIs
<1>3. CASE r.single
  <2>1. Beginning(k) = 1 /\ End(k) = r.lo /\ RangeItems(r) = [i \in 1 .. r.lo |-> i]
    BY <1>3 DEF Beginning, End, RangeFirst, RangeLast, RangeItems
  <2>2. RangeLength(r) = r.lo
    BY <1>2, <2>1
  <2>. QED
    BY <1>2, <2>1, <2>2
<1>4. CASE ~ r.single
  <2>1. Beginning(k) = r.lo /\ End(k) = r.hi
    BY <1>4 DEF Beginning, End, RangeFirst, RangeLast
  <2>2. CASE r.lo <= r.hi
    <3>1. RangeItems(r) = [i \in 1 .. RangeLength(r) |-> r.lo + i - 1]
      BY <1>2, <1>4, <2>1, <2>2 DEF RangeItems
    <3>2. RangeLength(r) \in Nat
      BY <1>2, <2>1, <2>2
    <3>. QED
      BY <3>1, <3>2
  <2>3. CASE ~ r.lo <= r.hi
    <3>1. RangeItems(r) = [i \in 1 .. RangeLength(r) |-> r.lo - i + 1]
      BY <1>2, <1>4, <2>1, <2>3 DEF RangeItems
    <3>2. RangeLength(r) \in Nat
      BY <1>2, <2>1, <2>3
    <3>. QED
      BY <3>1, <3>2
  <2>. QED
    BY <2>2, <2>3
<1>. QED
  BY <1>3, <1>4

\* As many items are read from a file as it has lines, or what stands between
\* its separators: each but the first begins behind one.
FileBody(text, d) == IF text # << >> /\ Last(text) \in {d, "nl"} THEN Front(text) ELSE text
FileCuts(text, d) ==
    {0, Len(FileBody(text, d)) + 1} \cup {i \in DOMAIN FileBody(text, d) : FileBody(text, d)[i] = d}

LEMMA BeginsAndCuts ==
  ASSUME NEW X, NEW text \in Seq(X), text # << >>, NEW d
  PROVE  /\ Cardinality(Begins(text, d)) \in Nat \ {0}
         /\ Cardinality(FileCuts(text, d)) = Cardinality(Begins(text, d)) + 1
<1> DEFINE l == Len(text)
           S == {j \in 1 .. (l - 1) : text[j] = d}
           T == {j + 1 : j \in S}
           b == FileBody(text, d)
<1>1. l \in Nat \ {0} /\ DOMAIN text = 1 .. l
  OBVIOUS
<1>2. /\ Front(text) \in Seq(X) /\ Len(Front(text)) = l - 1
      /\ \A i \in 1 .. (l - 1) : Front(text)[i] = text[i]
  BY <1>1 DEF Front
<1>3. Begins(text, d) = {1} \cup T
  <2>1. \A i \in 1 .. (l - 1) : Chomped(text)[i] = text[i]
    <3>1. CASE Chomped(text) = text
      BY <3>1
    <3>2. CASE Chomped(text) = Front(text) \o <<"nul">>
      <4>1. \A i \in 1 .. (l - 1) : (Front(text) \o <<"nul">>)[i] = Front(text)[i]
        BY <1>1, <1>2
      <4>. QED
        BY <1>2, <3>2, <4>1
    <3>. QED
      BY <3>1, <3>2 DEF Chomped
  <2>2. ASSUME NEW i \in Begins(text, d) PROVE i \in {1} \cup T
    <3>1. i \in 1 .. l /\ (i = 1 \/ Chomped(text)[i - 1] = d)
      BY <1>1, <2>2 DEF Begins
    <3>2. i # 1 => i - 1 \in S /\ i = (i - 1) + 1
      BY <1>1, <2>1, <3>1
    <3>. QED
      BY <3>2
  <2>3. ASSUME NEW i \in {1} \cup T PROVE i \in Begins(text, d)
    <3>1. CASE i = 1
      BY <1>1, <3>1 DEF Begins
    <3>2. CASE i \in T
      <4>1. PICK j \in S : i = j + 1
        BY <3>2
      <4>2. i \in DOMAIN text /\ i - 1 = j /\ Chomped(text)[j] = d
        BY <1>1, <2>1, <4>1
      <4>. QED
        BY <4>2 DEF Begins
    <3>. QED
      BY <2>3, <3>1, <3>2
  <2>. QED
    BY <2>2, <2>3
<1>4. FileCuts(text, d) = {0, Len(b) + 1} \cup S /\ Len(b) \in {l - 1, l}
  <2>1. CASE Last(text) \in {d, "nl"}
    <3>1. b = Front(text)
      BY <2>1 DEF FileBody
    <3>2. {i \in DOMAIN b : b[i] = d} = S
      BY <1>1, <1>2, <3>1
    <3>. QED
      BY <1>2, <3>1, <3>2 DEF FileCuts
  <2>2. CASE Last(text) \notin {d, "nl"}
    <3>1. b = text /\ text[l] # d
      BY <2>2 DEF FileBody, Last
    <3>2. {i \in DOMAIN b : b[i] = d} = S
      BY <1>1, <3>1
    <3>. QED
      BY <3>1, <3>2 DEF FileCuts
  <2>. QED
    BY <2>1, <2>2
<1> HIDE DEF b
<1>5. IsFiniteSet(S) /\ Cardinality(S) \in Nat
  <2>1. l - 1 \in Nat
    BY <1>1
  <2>2. S \in SUBSET (1 .. (l - 1))
    OBVIOUS
  <2> HIDE DEF S
  <2>3. IsFiniteSet(S)
    BY <2>1, <2>2, SubsetsFinite
  <2>. QED
    BY <2>3, FS_CardinalityType
<1>6. IsFiniteSet(T) /\ Cardinality(T) = Cardinality(S)
  <2> DEFINE f == [j \in S |-> j + 1]
  <2>1. f \in [S -> T]
    OBVIOUS
  <2>2. \A x, y \in DOMAIN f : f[x] = f[y] => x = y
    BY <1>1
  <2>3. \A t \in T : \E x \in S : f[x] = t
    OBVIOUS
  <2> HIDE DEF f, T, S
  <2>4. f \in Bijection(S, T)
    BY <2>1, <2>2, <2>3, Zenon DEF Bijection, Injection, Surjection, IsInjective
  <2>. QED
    BY <1>5, <2>4, FS_Bijection DEF ExistsBijection
<1>7. 1 \notin T /\ 0 \notin S /\ Len(b) + 1 \notin S /\ 0 # Len(b) + 1
  <2>1. \A j \in S : j \in 1 .. (l - 1)
    OBVIOUS
  <2>2. \A t \in T : \E j \in S : t = j + 1
    OBVIOUS
  <2> DEFINE k == Len(b)
  <2>3. k \in {l - 1, l}
    BY <1>4
  <2> HIDE DEF S, T, l, k
  <2>4. 1 \notin T
    BY <1>1, <2>1, <2>2
  <2>5. 0 \notin S /\ k + 1 \notin S /\ 0 # k + 1
    BY <1>1, <2>1, <2>3
  <2>. QED
    BY <2>4, <2>5 DEF k
<1> HIDE DEF S, T, l
<1>8. Cardinality({1} \cup T) = Cardinality(S) + 1
  <2>1. {1} \cup T = T \cup {1}
    OBVIOUS
  <2>. QED
    BY <1>5, <1>6, <1>7, <2>1, FS_AddElement
<1>9. Cardinality({0, Len(b) + 1} \cup S) = Cardinality(S) + 2
  <2>1. IsFiniteSet(S \cup {0}) /\ Cardinality(S \cup {0}) = Cardinality(S) + 1
    BY <1>5, <1>7, FS_AddElement
  <2>2. Len(b) + 1 \notin S \cup {0}
    BY <1>7
  <2>3. Cardinality((S \cup {0}) \cup {Len(b) + 1}) = (Cardinality(S) + 1) + 1
    BY <2>1, <2>2, FS_AddElement
  <2>4. {0, Len(b) + 1} \cup S = (S \cup {0}) \cup {Len(b) + 1}
    OBVIOUS
  <2>5. (Cardinality(S) + 1) + 1 = Cardinality(S) + 2
    BY <1>5
  <2>. QED
    BY <2>3, <2>4, <2>5, Zenon
<1>. QED
  BY <1>3, <1>4, <1>5, <1>8, <1>9

LEMMA DelimiterIs ==
  ASSUME cfg.nulparse = Asked("0"), opt.delimiter = IF Asked("d") THEN Argument("d").text ELSE ""
  PROVE  Delimiter = AskedDelimiter
BY Zenon DEF Delimiter, AskedDelimiter

LEMMA FileLength ==
  ASSUME NEW X, NEW text \in Seq(X),
         Delimiter = AskedDelimiter
  PROVE  /\ Len(ParseItems(text, Delimiter)) \in Nat
         /\ DOMAIN ParseItems(text, Delimiter) = 1 .. Len(ParseItems(text, Delimiter))
         /\ text # << >> => Len(ParseItems(text, Delimiter)) # 0
         /\ DOMAIN FileItems(text) = 1 .. Len(ParseItems(text, Delimiter))
<1> DEFINE d == AskedDelimiter
           c == Cardinality(Begins(text, d))
<1>2. DOMAIN ParseItems(text, d) = 1 .. c
  BY DEF ParseItems
<1>3. c \in Nat /\ (text # << >> => c # 0)
  <2>1. CASE text = << >>
    <3>1. Begins(text, d) = {}
      BY <2>1 DEF Begins
    <3>. QED
      BY <2>1, <3>1, FS_EmptySet
  <2>2. CASE text # << >>
    BY <2>2, BeginsAndCuts
  <2>. QED
    BY <2>1, <2>2
<1>4. Len(ParseItems(text, d)) = c
  <2> HIDE DEF c
  <2>. QED
    BY <1>2, <1>3
<1>5. DOMAIN FileItems(text) = 1 .. c
  <2>1. CASE text = << >>
    <3>1. FileItems(text) = << >>
      BY <2>1 DEF FileItems
    <3>2. c = 0
      <4>1. Begins(text, d) = {}
        BY <2>1 DEF Begins
      <4>. QED
        BY <4>1, FS_EmptySet
    <3> HIDE DEF c
    <3>. QED
      BY <3>1, <3>2
  <2>2. CASE text # << >>
    <3>1. DOMAIN FileItems(text) = 1 .. (Cardinality(FileCuts(text, d)) - 1)
      BY <2>2, Zenon DEF FileItems, FileCuts, FileBody
    <3>2. Cardinality(FileCuts(text, d)) = c + 1
      BY <2>2, BeginsAndCuts
    <3> HIDE DEF c
    <3>. QED
      BY <1>3, <3>1, <3>2
  <2>. QED
    BY <2>1, <2>2
<1> HIDE DEF c, d
<1>. QED
  BY <1>2, <1>3, <1>4, <1>5 DEF d

\* The items of one operand.
LEMMA MadeIs ==
  ASSUME LineInv, Delimiter = AskedDelimiter, opt.range => AllBounded, NEW k \in DOMAIN operands
  PROVE  LET made == MadeOf(operands[k])
             text == operands[k].file.text
         IN  /\ Len(made) \in Nat /\ DOMAIN made = 1 .. Len(made)
             /\ made \in Seq(Range(made))
             /\ opt.range => Len(made) = RangeLength(operands[k].range)
             /\ opt.file => Len(made) = Len(ParseItems(text, Delimiter))
             /\ ~ opt.range /\ ~ opt.file => Len(made) = 1
<1> DEFINE made == MadeOf(operands[k])
           text == operands[k].file.text
<1>0. ASSUME NEW m, NEW l \in Nat, NEW f, m = [i \in 1 .. l |-> f[i]]
      PROVE  Len(m) = l /\ DOMAIN m = 1 .. Len(m) /\ m \in Seq(Range(m))
  BY <1>0 DEF Range
<1>1. ~ (opt.range /\ opt.file)
  BY DEF LineInv
<1>2. CASE opt.range
  <2> DEFINE r == RangeItems(operands[k].range)
             l == RangeLength(operands[k].range)
  <2>1. DOMAIN r = 1 .. l /\ l \in Nat
    BY <1>2, RangeMade
  <2>2. made = [i \in DOMAIN r |-> NumberItem(r[i])]
    BY <1>2 DEF MadeOf
  <2> HIDE DEF r, l, made
  <2> DEFINE f == [i \in 1 .. l |-> NumberItem(r[i])]
  <2>3. made = [i \in 1 .. l |-> f[i]]
    BY <2>1, <2>2
  <2> HIDE DEF f
  <2>4. Len(made) = l /\ DOMAIN made = 1 .. Len(made) /\ made \in Seq(Range(made))
    BY <1>0, <2>1, <2>3
  <2>. QED
    BY <1>1, <1>2, <2>1, <2>4 DEF l, made
<1>3. CASE ~ opt.range /\ opt.file
  <2> DEFINE r == FileItems(text)
             l == Len(ParseItems(text, Delimiter))
  <2>1. DOMAIN r = 1 .. l /\ l \in Nat
    <3>1. OperandOK(operands[k])
      BY LineIs
    <3>2. text \in Seq(Range(text))
      BY <3>1 DEF OperandOK
    <3>. QED
      BY <3>2, FileLength
  <2>2. made = [i \in DOMAIN r |-> TextItem(r[i])]
    BY <1>3 DEF MadeOf
  <2> HIDE DEF r, l, made
  <2> DEFINE f == [i \in 1 .. l |-> TextItem(r[i])]
  <2>3. made = [i \in 1 .. l |-> f[i]]
    BY <2>1, <2>2
  <2> HIDE DEF f
  <2>4. Len(made) = l /\ DOMAIN made = 1 .. Len(made) /\ made \in Seq(Range(made))
    BY <1>0, <2>1, <2>3
  <2>. QED
    BY <1>1, <1>3, <2>1, <2>4 DEF l, made
<1>4. CASE ~ opt.range /\ ~ opt.file
  <2>1. made = <<TextItem(operands[k].text)>>
    BY <1>4 DEF MadeOf
  <2> HIDE DEF made
  <2>2. Len(made) = 1 /\ DOMAIN made = 1 .. Len(made)
    BY <2>1
  <2>3. made \in Seq(Range(made))
    BY <2>1 DEF Range
  <2>. QED
    BY <1>4, <2>2, <2>3 DEF made
<1>. QED
  BY <1>2, <1>3, <1>4

\* The operands that are used.
LEMMA UsesIs ==
  ASSUME LineInv, Documented
  PROVE  /\ Uses \in 0 .. Len(operands) /\ Len(operands) \in Nat
         /\ AskedOperands \in [1 .. Uses -> Range(operands)]
         /\ \A k \in 1 .. Uses : k \in DOMAIN operands /\ AskedOperands[k] = operands[k]
         /\ LET limit == IF Asked("n") THEN Argument("n").num ELSE 0
            IN  Uses = IF limit = 0 \/ limit > Len(operands) THEN Len(operands) ELSE limit
<1> DEFINE limit == IF Asked("n") THEN Argument("n").num ELSE 0
<1>1. operands \in Seq(Range(operands)) /\ Len(operands) \in Nat /\ DOMAIN operands = 1 .. Len(operands)
  BY LineIs
<1>2. limit \in Nat
  <2>1. CASE Asked("n")
    <3>1. \E i \in With("n") : Argument("n") = args[i]
      BY <2>1, ArgumentIs
    <3>2. Argument("n").num \in 0 .. UintMax
      BY <3>1, LineIs DEF With, ArgumentOK
    <3>. QED
      BY <2>1, <3>2, UintMaxAssumption
  <2>2. CASE ~ Asked("n")
    BY <2>2
  <2>. QED
    BY <2>1, <2>2
<1>3. AskedOperands = IF limit = 0 \/ limit > Len(operands) THEN operands ELSE SubSeq(operands, 1, limit)
  BY DEF AskedOperands
<1> HIDE DEF limit
<1>4. CASE limit = 0 \/ limit > Len(operands)
  <2>1. AskedOperands = operands /\ Uses = Len(operands)
    BY <1>3, <1>4 DEF Uses
  <2>. QED
    BY <1>1, <1>4, <2>1 DEF limit
<1>5. CASE ~ (limit = 0 \/ limit > Len(operands))
  <2>1. limit \in 1 .. Len(operands)
    BY <1>1, <1>2, <1>5
  <2>2. AskedOperands = SubSeq(operands, 1, limit)
    BY <1>3, <1>5
  <2>3. /\ SubSeq(operands, 1, limit) \in Seq(Range(operands)) /\ Len(SubSeq(operands, 1, limit)) = limit
        /\ \A k \in 1 .. limit : SubSeq(operands, 1, limit)[k] = operands[k]
    BY <1>1, <2>1
  <2>4. AskedOperands \in Seq(Range(operands)) /\ Uses = limit
    BY <2>2, <2>3 DEF Uses
  <2>5. AskedOperands \in [1 .. Uses -> Range(operands)]
    BY <2>4 DEF Uses
  <2>. QED
    BY <1>1, <1>2, <1>5, <2>1, <2>2, <2>3, <2>4, <2>5 DEF limit
<1>. QED
  BY <1>4, <1>5

\* What is made, operand by operand.
LEMMA MadeUpToIs ==
  ASSUME LineInv, Delimiter = AskedDelimiter, opt.range => AllBounded
  PROVE  /\ MadeUpTo(0) = 0
         /\ \A k \in 1 .. Len(operands) : MadeUpTo(k) = MadeUpTo(k - 1) + Len(MadeOf(operands[k]))
         /\ \A k \in 0 .. Len(operands) : MadeUpTo(k) \in Int
         /\ opt.range => \A k : MadeUpTo(k) = Counted(k)
<1>1. Len(operands) \in Nat /\ DOMAIN operands = 1 .. Len(operands)
  BY LineIs
<1>2. \A k \in DOMAIN operands : Len(MadeOf(operands[k])) \in Int
  BY MadeIs
<1>3. MadeLengths \in [1 .. Len(operands) -> Int]
  BY <1>1, <1>2 DEF MadeLengths
<1>4. \A k \in 1 .. Len(operands) : MadeLengths[k] = Len(MadeOf(operands[k]))
  BY <1>1 DEF MadeLengths
<1>5. opt.range => MadeLengths = Lengths
  <2> SUFFICES ASSUME opt.range PROVE MadeLengths = Lengths
    OBVIOUS
  <2>1. \A k \in DOMAIN operands : Len(MadeOf(operands[k])) = RangeLength(operands[k].range)
    BY MadeIs
  <2>. QED
    BY <2>1 DEF MadeLengths, Lengths
<1>. QED
  BY <1>1, <1>3, <1>4, <1>5, SumIs DEF MadeUpTo, Counted

\* Together they are the items that are asked for.
LEMMA AskedLength ==
  ASSUME LineInv, Documented, Delimiter = AskedDelimiter, opt.range => AllBounded
  PROVE  Len(AskedItems) = MadeUpTo(Uses) /\ Len(AskedItems) \in Nat
<1> DEFINE X == UNION {Range(MadeOf(operands[k])) : k \in DOMAIN operands}
           m == [i \in DOMAIN AskedOperands |-> MadeOf(AskedOperands[i])]
           l == [k \in 0 .. Uses |-> MadeUpTo(k)]
<1>1. /\ Uses \in 0 .. Len(operands) /\ Len(operands) \in Nat /\ Uses \in Nat
      /\ DOMAIN AskedOperands = 1 .. Uses
      /\ \A k \in 1 .. Uses : k \in DOMAIN operands /\ AskedOperands[k] = operands[k]
  BY UsesIs
<1>2. ASSUME NEW k \in 1 .. Uses PROVE m[k] = MadeOf(operands[k]) /\ m[k] \in Seq(X)
  <2>1. m[k] = MadeOf(operands[k]) /\ k \in DOMAIN operands
    BY <1>1
  <2>2. MadeOf(operands[k]) \in Seq(Range(MadeOf(operands[k])))
    BY <2>1, MadeIs
  <2>3. Range(MadeOf(operands[k])) \subseteq X
    BY <2>1
  <2> HIDE DEF X, m
  <2>4. ASSUME NEW A, NEW B, A \subseteq B, NEW s \in Seq(A) PROVE s \in Seq(B)
    BY <2>4
  <2>. QED
    BY <2>1, <2>2, <2>3, <2>4
<1>3. m \in [1 .. Uses -> Seq(X)]
  BY <1>1, <1>2
<1>4. l[0] = 0 /\ \A i \in 1 .. Uses : l[i] = l[i - 1] + Len(m[i])
  <2>1. l[0] = 0
    BY <1>1, MadeUpToIs
  <2>2. ASSUME NEW i \in 1 .. Uses PROVE l[i] = l[i - 1] + Len(m[i])
    <3>1. i \in 0 .. Uses /\ i - 1 \in 0 .. Uses /\ i \in 1 .. Len(operands)
      BY <1>1
    <3>2. MadeUpTo(i) = MadeUpTo(i - 1) + Len(MadeOf(operands[i]))
      BY <3>1, MadeUpToIs
    <3>3. m[i] = MadeOf(operands[i])
      BY <1>2
    <3> HIDE DEF m
    <3>. QED
      BY <3>1, <3>2, <3>3
  <2>. QED
    BY <2>1, <2>2
<1>5. AskedItems = FlattenSeq(m)
  BY DEF AskedItems
<1>6. l[Uses] = MadeUpTo(Uses)
  BY <1>1
<1> HIDE DEF X, m, l
<1>7. Len(FlattenSeq(m)) = l[Uses] /\ l[Uses] \in Nat
  <2>1. Uses \in Nat
    BY <1>1
  <2>. QED
    BY <2>1, <1>3, <1>4, FlatLength, Zenon
<1>. QED
  BY <1>5, <1>6, <1>7

\* Words are one item each.
LEMMA WordsMade ==
  ASSUME LineInv, Delimiter = AskedDelimiter, ~ opt.range, ~ opt.file
  PROVE  \A k \in 0 .. Len(operands) : MadeUpTo(k) = k
<1> DEFINE S == {k \in Nat : k <= Len(operands) => MadeUpTo(k) = k}
<1>1. Len(operands) \in Nat /\ DOMAIN operands = 1 .. Len(operands)
  BY LineIs
<1>2. 0 \in S
  <2>1. MadeUpTo(0) = 0
    BY MadeUpToIs
  <2>. QED
    BY <2>1
<1>3. ASSUME NEW k \in Nat, k \in S PROVE k + 1 \in S
  <2> SUFFICES ASSUME k + 1 <= Len(operands) PROVE MadeUpTo(k + 1) = k + 1
    OBVIOUS
  <2>1. k + 1 \in 1 .. Len(operands) /\ (k + 1) - 1 = k /\ k + 1 \in DOMAIN operands /\ MadeUpTo(k) = k
    BY <1>1, <1>3
  <2>2. Len(MadeOf(operands[k + 1])) = 1
    BY <2>1, MadeIs
  <2>. QED
    BY <2>1, <2>2, MadeUpToIs
<1> HIDE DEF S
<1>4. \A k \in Nat : k \in S
  BY <1>2, <1>3, Induction
<1>. QED
  BY <1>1, <1>4 DEF S

\* Behind the reading of items there are as many as were asked for; on the way,
\* those of the operands so far.
ItemsInv ==
    /\ at = "count" => opt.range
    /\ Documented /\ (opt.range => AllBounded) =>
          /\ at \in {"count", "read"} => nitems = Uses
          /\ at = "read" /\ opt.file =>
                n \in 1 .. (nitems + 1) /\ Len(items) = MadeUpTo(n - 1) /\ \E S : items \in Seq(S)
          /\ at \in {"action", "total"} =>
                (IF opt.range THEN ritems ELSE nitems) = MadeUpTo(Uses)

LEMMA ItemsInit == ToolInit => ItemsInv
BY DEF ToolInit, ItemsInv

LEMMA AskedStays ==
  ASSUME UNCHANGED <<args, operands, opt>>
  PROVE  /\ Documented' = Documented /\ AllBounded' = AllBounded /\ Uses' = Uses
         /\ AskedItems' = AskedItems /\ \A k : MadeUpTo(k)' = MadeUpTo(k)
<1>1. /\ Documented' = Documented /\ AllBounded' = AllBounded /\ Uses' = Uses
      /\ AskedOperands' = AskedOperands
  BY DEF Documented, AllBounded, Uses, AskedOperands, Asked, Argument, With
<1>2. AskedDelimiter' = AskedDelimiter
  BY Zenon DEF AskedDelimiter, Asked, Argument, With
<1>3. \A text : FileItems(text)' = FileItems(text)
  BY <1>2 DEF FileItems, InOrder
<1>4. \A operand : MadeOf(operand)' = MadeOf(operand)
  BY <1>3, Zenon DEF MadeOf
<1>5. MadeLengths' = MadeLengths
  BY <1>4, Zenon DEF MadeLengths
<1>6. \A k : MadeUpTo(k)' = MadeUpTo(k)
  BY <1>5 DEF MadeUpTo, SumTo
<1>7. AskedItems' = AskedItems
  BY <1>1, <1>4, Zenon DEF AskedItems
<1>. QED
  BY <1>1, <1>6, <1>7

\* What is known as soon as items are made.
LEMMA ReadAll ==
  ASSUME LineInv, TodoInv, ParsedInv, Documented, at \notin {"options", "ended"}
  PROVE  /\ Delimiter = AskedDelimiter /\ cfg.empty = Asked("e")
         /\ IF Asked("k") THEN cfg.min = SizeMin(Argument("k")) /\ cfg.max = SizeMax(Argument("k"))
                          ELSE cfg.min = 0 /\ cfg.max = 0
         /\ at = "checks" => nitems = IF Asked("n") THEN Argument("n").num ELSE 0
<1>1. todo = << >>
  BY DEF TodoInv
<1>2. cfg.nulparse = Asked("0") /\ opt.delimiter = IF Asked("d") THEN Argument("d").text ELSE ""
  BY <1>1, SettingsAre, Zenon
<1>3. Delimiter = AskedDelimiter
  BY <1>2, DelimiterIs, Zenon
<1>4. /\ cfg.empty = Asked("e")
      /\ IF Asked("k") THEN cfg.min = SizeMin(Argument("k")) /\ cfg.max = SizeMax(Argument("k"))
                       ELSE cfg.min = 0 /\ cfg.max = 0
      /\ at \in {"options", "checks"} => nitems = IF Asked("n") THEN Argument("n").num ELSE 0
  BY <1>1, SettingsAre, Zenon
<1>. QED
  BY <1>3, <1>4

LEMMA ItemsCheck ==
  LineInv /\ TodoInv /\ ParsedInv /\ FillInv /\ Check => ItemsInv'
<1> SUFFICES ASSUME LineInv, TodoInv, ParsedInv, FillInv, Check PROVE ItemsInv'
  OBVIOUS
<1>1. /\ at = "checks" /\ n' = 1 /\ items' = << >>
      /\ UNCHANGED <<args, operands, opt>>
  BY DEF Check, FillInv, given, settings
<1>2. CASE at' = "ended"
  BY <1>2 DEF ItemsInv
<1>3. CASE /\ at' = IF opt.range THEN "count" ELSE "read"
           /\ nitems' = IF nitems = 0 \/ nitems > Len(operands) THEN Len(operands) ELSE nitems
  <2> SUFFICES ASSUME Documented, opt.range => AllBounded
               PROVE  nitems' = Uses /\ nitems' \in Nat /\ MadeUpTo(0) = 0
    BY <1>1, <1>3, AskedStays DEF ItemsInv
  <2>1. nitems = (IF Asked("n") THEN Argument("n").num ELSE 0) /\ Delimiter = AskedDelimiter
    BY <1>1, ReadAll
  <2>2. nitems' = Uses /\ Uses \in Nat
    BY <1>3, <2>1, UsesIs
  <2>. QED
    BY <2>1, <2>2, MadeUpToIs
<1>. QED
  BY <1>1, <1>2, <1>3 DEF Check, Exit

LEMMA ItemsCount ==
  LineInv /\ TodoInv /\ ParsedInv /\ FillInv /\ ItemsInv /\ (CountRange \/ CountEnd) => ItemsInv'
<1> SUFFICES ASSUME LineInv, TodoInv, ParsedInv, FillInv, ItemsInv, CountRange \/ CountEnd PROVE ItemsInv'
  OBVIOUS
<1>1. at = "count" /\ opt.range /\ ~ opt.file /\ UNCHANGED <<args, operands, opt, nitems>>
  BY DEF CountRange, CountEnd, given, settings, ItemsInv, LineInv
<1>2. CASE CountRange
  <2>1. at' \in {"count", "ended"}
    BY <1>1, <1>2 DEF CountRange, Exit
  <2>. QED
    BY <1>1, <2>1, AskedStays DEF ItemsInv
<1>3. CASE CountEnd
  <2>1. at' \in {"total", "read"} /\ ritems' = ritems /\ n > nitems
    BY <1>3 DEF CountEnd
  <2> SUFFICES ASSUME Documented, AllBounded PROVE nitems = Uses /\ ritems = MadeUpTo(Uses)
    BY <1>1, <2>1, AskedStays DEF ItemsInv
  <2>2. nitems = Uses
    BY <1>1 DEF ItemsInv
  <2>3. nitems \in Nat /\ n \in 1 .. (nitems + 1) /\ ritems = Counted(n - 1)
    BY <1>1 DEF FillInv
  <2>4. n - 1 = nitems
    BY <2>1, <2>3
  <2>5. Delimiter = AskedDelimiter
    BY <1>1, ReadAll
  <2>. QED
    BY <1>1, <2>2, <2>3, <2>4, <2>5, MadeUpToIs
<1>. QED
  BY <1>2, <1>3

\* The items of words and of ranges.
LEMMA ItemsRead ==
  LineInv /\ TodoInv /\ ParsedInv /\ FillInv /\ ItemsInv
  /\ (ReadWords \/ BeginRange \/ WriteNumber \/ EndRange \/ RangesEnd) => ItemsInv'
<1> SUFFICES ASSUME LineInv, TodoInv, ParsedInv, FillInv, ItemsInv,
                    ReadWords \/ BeginRange \/ WriteNumber \/ EndRange \/ RangesEnd
             PROVE  ItemsInv'
  OBVIOUS
<1>1. at = "read" /\ ~ opt.file /\ UNCHANGED <<args, operands, opt, ritems>>
  BY DEF ReadWords, BeginRange, WriteNumber, EndRange, RangesEnd, given, settings, LineInv
<1>2. CASE ReadWords
  <2>1. at' = "action" /\ ~ opt.range /\ nitems' = nitems
    BY <1>2 DEF ReadWords
  <2> SUFFICES ASSUME Documented PROVE nitems = MadeUpTo(Uses)
    BY <1>1, <2>1, AskedStays DEF ItemsInv
  <2>2. nitems = Uses /\ Delimiter = AskedDelimiter
    BY <1>1, <2>1, ReadAll DEF ItemsInv
  <2>. QED
    BY <1>1, <2>1, <2>2, UsesIs, WordsMade
<1>3. CASE BeginRange \/ WriteNumber \/ EndRange
  <2>1. at' \in {"read", "ended"} /\ nitems' = nitems
    BY <1>1, <1>3 DEF BeginRange, WriteNumber, EndRange, Exit
  <2>. QED
    BY <1>1, <2>1, AskedStays DEF ItemsInv
<1>4. CASE RangesEnd
  <2>1. at' = "action" /\ opt.range
    BY <1>4 DEF RangesEnd
  <2> SUFFICES ASSUME Documented, AllBounded PROVE ritems = MadeUpTo(Uses)
    BY <1>1, <2>1, AskedStays DEF ItemsInv
  <2>2. nitems = Uses /\ ritems = Counted(nitems) /\ Delimiter = AskedDelimiter
    BY <1>1, <2>1, ReadAll DEF ItemsInv, FillInv
  <2>. QED
    BY <1>1, <2>1, <2>2, MadeUpToIs
<1>. QED
  BY <1>2, <1>3, <1>4

LEMMA FrontIs ==
  ASSUME NEW T, NEW s \in Seq(T), Len(s) \in Nat \ {0}
  PROVE  Front(s) \in Seq(T) /\ Len(Front(s)) = Len(s) - 1
<1>1. Front(s) = [i \in 1 .. (Len(s) - 1) |-> s[i]]
  BY DEF Front
<1>2. Front(s) \in [1 .. (Len(s) - 1) -> T]
  BY <1>1
<1>3. Len(s) - 1 \in Nat
  OBVIOUS
<1>. QED
  BY <1>1, <1>2, <1>3

\* The items of files.
LEMMA ItemsFile ==
  LineInv /\ TodoInv /\ ParsedInv /\ FillInv /\ ItemsInv /\ (ReadFile \/ FilesEnd) => ItemsInv'
<1> SUFFICES ASSUME LineInv, TodoInv, ParsedInv, FillInv, ItemsInv, ReadFile \/ FilesEnd PROVE ItemsInv'
  OBVIOUS
<1>1. at = "read" /\ opt.file /\ ~ opt.range /\ UNCHANGED <<args, operands, opt>>
  BY DEF ReadFile, FilesEnd, given, settings, LineInv
<1>2. at' \in {"ended", "read", "action"} /\ Documented' = Documented /\ opt' = opt
  <2>1. at' \in {"ended", "read", "action"}
    BY <1>1 DEF ReadFile, FilesEnd, Exit
  <2>. QED
    BY <1>1, <2>1, AskedStays, Zenon
<1> SUFFICES ASSUME at' # "ended", Documented PROVE ItemsInv'
  BY <1>2 DEF ItemsInv
<1>3. /\ nitems = Uses /\ n \in 1 .. (nitems + 1) /\ Len(items) = MadeUpTo(n - 1)
      /\ \E S : items \in Seq(S)
  BY <1>1 DEF ItemsInv
<1>4. Delimiter = AskedDelimiter /\ nitems \in Nat
  BY <1>1, ReadAll DEF FillInv
<1>5. CASE FilesEnd
  <2>1. at' = "action" /\ nitems' = Len(items) /\ n > nitems
    BY <1>5 DEF FilesEnd
  <2>2. n - 1 = nitems
    BY <1>3, <1>4, <2>1
  <2>. QED
    BY <1>1, <1>3, <2>1, <2>2, AskedStays DEF ItemsInv
<1>6. CASE ReadFile
  <2> DEFINE text == operands[n].file.text
             parsed == ParseItems(text, Delimiter)
             read == [k \in DOMAIN parsed |-> TextItem(parsed[k])]
             last == <<TextItem(Last(read).text \o <<"junk">>)>>
  <2>1. /\ n <= nitems /\ n' = n + 1 /\ at' = "read" /\ nitems' = nitems
        /\ \/ items' = items \o read
           \/ ~ Ended(text, Delimiter) /\ items' = items \o Front(read) \o last
    BY <1>1, <1>6 DEF ReadFile, Exit
  <2>2. n \in DOMAIN operands /\ n \in 1 .. Len(operands)
    <3>1. Uses \in 0 .. Len(operands) /\ Len(operands) \in Nat /\ DOMAIN operands = 1 .. Len(operands)
      BY UsesIs, LineIs
    <3>2. nitems = Uses /\ n \in 1 .. (nitems + 1) /\ n <= nitems
      BY <1>3, <2>1
    <3> HIDE DEF text, parsed, read, last
    <3>. QED
      BY ONLY <3>1, <3>2
  <2>3. /\ Len(parsed) \in Nat /\ DOMAIN parsed = 1 .. Len(parsed)
        /\ text # << >> => Len(parsed) # 0
    <3>1. text \in Seq(Range(text))
      BY <2>2, LineIs DEF OperandOK
    <3>. QED
      BY <1>4, <3>1, FileLength
  <2>4. Len(MadeOf(operands[n])) = Len(parsed)
    BY <1>1, <1>4, <2>2, MadeIs
  <2>5. MadeUpTo(n) = MadeUpTo(n - 1) + Len(parsed) /\ MadeUpTo(n - 1) \in Int
    <3>1. n - 1 \in 0 .. Len(operands)
      BY <2>2
    <3>. QED
      BY <1>1, <1>4, <2>2, <2>4, <3>1, MadeUpToIs
  <2>6. ~ Ended(text, Delimiter) => text # << >>
    BY DEF Ended
  <2>7. Len(items') = Len(items) + Len(parsed) /\ \E S : items' \in Seq(S)
    <3>1. PICK S : items \in Seq(S)
      BY <1>3
    <3> DEFINE T == S \cup Range(read) \cup Range(last)
    <3>2. items \in Seq(T)
      <4>1. S \subseteq T
        OBVIOUS
      <4> HIDE DEF T, read, last
      <4>. QED
        BY ONLY <3>1, <4>1
    <3>3. read \in Seq(Range(read)) /\ Len(read) = Len(parsed)
      <4> DEFINE l == Len(parsed)
      <4>1. l \in Nat /\ DOMAIN parsed = 1 .. l
        BY <2>3
      <4> HIDE DEF l
      <4>2. read \in [1 .. l -> Range(read)] /\ Len(read) = l
        BY <4>1 DEF Range
      <4>. QED
        BY <4>1, <4>2 DEF l
    <3>4. last \in Seq(Range(last)) /\ Len(last) = 1
      BY DEF Range
    <3> HIDE DEF last, read
    <3>5. read \in Seq(T) /\ last \in Seq(T)
      <4>1. Range(read) \subseteq T /\ Range(last) \subseteq T
        OBVIOUS
      <4> HIDE DEF T
      <4>. QED
        BY ONLY <3>3, <3>4, <4>1
    <3> HIDE DEF T
    <3>6. CASE items' = items \o read
      <4>1. items \o read \in Seq(T) /\ Len(items \o read) = Len(items) + Len(read)
        BY <3>2, <3>5, Joined, Zenon
      <4>. QED
        BY <3>3, <3>6, <4>1, Zenon
    <3>7. CASE ~ Ended(text, Delimiter) /\ items' = items \o Front(read) \o last
      <4>1. Len(read) \in Nat \ {0}
        BY <2>3, <2>6, <3>3, <3>7
      <4>2. Front(read) \in Seq(T) /\ Len(Front(read)) = Len(read) - 1
        BY <3>5, <4>1, FrontIs, Zenon
      <4>3. items \o Front(read) \in Seq(T) /\ Len(items \o Front(read)) = Len(items) + Len(Front(read))
        BY <3>2, <4>2, Joined
      <4>4. /\ (items \o Front(read)) \o last \in Seq(T)
            /\ Len((items \o Front(read)) \o last) = Len(items \o Front(read)) + Len(last)
        BY <3>5, <4>3, Joined
      <4>5. Len(items) \in Nat
        BY <3>2
      <4>. QED
        BY <3>3, <3>4, <3>7, <4>1, <4>2, <4>3, <4>4, <4>5
    <3>. QED
      BY <2>1, <3>6, <3>7
  <2> HIDE DEF text, parsed, read, last
  <2>8. n' \in 1 .. (nitems' + 1) /\ n' - 1 = n
    BY <1>3, <1>4, <2>1
  <2>. QED
    BY <1>1, <1>3, <2>1, <2>5, <2>7, <2>8, AskedStays DEF ItemsInv
<1>. QED
  BY <1>5, <1>6

LEMMA ItemsStep ==
  LineInv /\ TodoInv /\ ParsedInv /\ FillInv /\ ItemsInv /\ [ToolNext]_toolVars => ItemsInv'
<1> SUFFICES ASSUME LineInv, TodoInv, ParsedInv, FillInv, ItemsInv, [ToolNext]_toolVars PROVE ItemsInv'
  OBVIOUS
<1>1. CASE OptionStep
  <2>1. at' = "options"
    BY <1>1, OptionKeeps
  <2>. QED
    BY <2>1 DEF ItemsInv
<1>2. CASE BadOption \/ OptionsEnd
  <2>1. at' \in {"ended", "checks"}
    BY <1>2 DEF BadOption, OptionsEnd, Exit
  <2>. QED
    BY <2>1 DEF ItemsInv
<1>3. CASE MakeItems
  BY <1>3, ItemsCheck, ItemsCount, ItemsRead, ItemsFile DEF MakeItems
<1>4. CASE ChooseAction
  <2>1. at = "action" /\ at' \in {"ended", "total", "start"} /\ UNCHANGED <<args, operands, opt, nitems, ritems>>
    BY <1>4 DEF ChooseAction, Exit, given, settings
  <2>. QED
    BY <2>1, AskedStays DEF ItemsInv
<1>5. CASE (CallLibrary /\ ~ ChooseAction) \/ InsideCmb \/ CleanUp
  <2>1. at' \in {"ended", "call", "cmb"}
    BY <1>5 DEF CallLibrary, InsideCmb, CleanUp, PrintTotal, RandomStart, NegativeStart, PlainStart,
       CallCmb, Exit, mainVars
  <2>. QED
    BY <2>1 DEF ItemsInv
<1>6. CASE UNCHANGED toolVars
  <2>1. UNCHANGED <<args, operands, opt, at, nitems, ritems, n, items>>
    BY <1>6 DEF toolVars, mainVars
  <2>. QED
    BY <2>1, AskedStays DEF ItemsInv
<1>. QED
  BY <1>1, <1>2, <1>3, <1>4, <1>5, <1>6, Steps DEF Later

-----------------------------------------------------------------------------
(***************************************************************************)
(* What -t prints.                                                         *)
(***************************************************************************)
\* The counts depend on the items, the sizes and the empty set.
LEMMA CountsDependOn ==
  ASSUME NEW a, NEW c, a.n = c.n, a.min = c.min, a.max = c.max, a.empty = c.empty
  PROVE  /\ CmbCount(a) = CmbCount(c) /\ CmbCountBn(a) = CmbCountBn(c)
         /\ OutOfRange(a) = OutOfRange(c) /\ Whole(a) = Whole(c)
<1>1. Requested(a) = Requested(c)
  BY DEF Requested
<1>2. SetInit(a) = SetInit(c) /\ SetDone(a) = SetDone(c)
  BY <1>1, Zenon DEF SetInit, SetDone, Clamp
<1>3. OutOfRange(a) = OutOfRange(c) /\ Whole(a) = Whole(c)
  BY <1>1, <1>2, Zenon DEF OutOfRange, Whole
<1>4. HowManySizes(a) = HowManySizes(c) /\ \A i : SizeAt(a, i) = SizeAt(c, i)
  BY <1>2, Zenon DEF HowManySizes, SizeAt, Increasing
<1>5. SizeNumbers(a) = SizeNumbers(c)
  BY <1>4, Zenon DEF SizeNumbers
<1>6. SumOfSets(a) = SumOfSets(c)
  BY <1>4, <1>5, Zenon DEF SumOfSets
<1>7. EmptySets(a) = EmptySets(c)
  BY DEF EmptySets
<1>. QED
  BY <1>3, <1>6, <1>7, Zenon DEF CmbCount, CmbCountBn

\* A size beyond the items that stands for all of them is as good as their number.
LEMMA SameCombinations ==
  ASSUME NEW a, NEW c, a.n = c.n, c.n \in Nat \ {0}, a.empty = c.empty, a.bn = c.bn,
         c.min \in Nat, c.max \in Nat,
         a.min = c.min \/ (a.min = c.n /\ c.min >= c.n),
         a.max = c.max \/ (a.max = c.n /\ c.max >= c.n),
         ~ OutOfRange(c)
  PROVE  Slice!Combinations(a) = Slice!Combinations(c)
<1>1. /\ Slice!First(c) = Requested(c).init /\ Slice!Final(c) = Requested(c).done
      /\ Slice!First(c) \in Nat /\ Slice!Final(c) \in Nat
  BY DEF Slice!First, Slice!Final, Slice!MaxOf, Requested
<1>2. /\ Slice!First(a) = Slice!First(c) \/ (Slice!First(a) = c.n /\ Slice!First(c) >= c.n)
      /\ Slice!Final(a) = Slice!Final(c) \/ (Slice!Final(a) = c.n /\ Slice!Final(c) >= c.n)
  BY DEF Slice!First, Slice!Final, Slice!MaxOf
<1>3. ~ (Slice!First(c) > c.n /\ Slice!Final(c) > c.n)
  BY <1>1 DEF OutOfRange
<1>4. Slice!TooLarge(a) = FALSE /\ Slice!TooLarge(c) = FALSE
  BY <1>1, <1>2, <1>3 DEF Slice!TooLarge
<1> DEFINE In(x, k) == /\ Slice!MinOf(Slice!First(x), Slice!Final(x)) <= k
                       /\ k <= Slice!MaxOf(Slice!First(x), Slice!Final(x))
<1>5. \A k \in 1 .. c.n : In(a, k) = In(c, k)
  BY <1>1, <1>2, <1>3 DEF Slice!MinOf, Slice!MaxOf
<1>6. {k \in 1 .. a.n : In(a, k)} = {k \in 1 .. c.n : In(c, k)}
  <2> HIDE DEF In
  <2>. QED
    BY <1>5, Zenon
<1>7. Slice!Sizes(a) = Slice!Sizes(c)
  BY <1>4, <1>6, Zenon DEF Slice!Sizes
<1>. QED
  BY <1>7, Zenon DEF Slice!Combinations

\* The number that is counted is that of the combinations that are asked for.
LEMMA CountIsTheirs ==
  ASSUME LineInv, TodoInv, ParsedInv, ItemsInv, at = "total",
         Documented, CountsRight, opt.range => AllBounded
  PROVE  CountOf(IF opt.range THEN ritems ELSE nitems) = Len(AskedOrder)
<1> DEFINE N == Len(AskedItems)
           c == [n |-> N, min |-> cfg.min, max |-> cfg.max, empty |-> cfg.empty, numbers |-> FALSE,
                 count |-> 0, start |-> 0, bn |-> ~ opt.nossl, mayStop |-> FALSE]
           a == AskedConfig
<1>1. /\ Delimiter = AskedDelimiter /\ cfg.empty = Asked("e")
      /\ IF Asked("k") THEN cfg.min = SizeMin(Argument("k")) /\ cfg.max = SizeMax(Argument("k"))
                       ELSE cfg.min = 0 /\ cfg.max = 0
  BY ReadAll
<1>2. (IF opt.range THEN ritems ELSE nitems) = N
  <2>1. N = MadeUpTo(Uses)
    BY <1>1, AskedLength, Zenon
  <2>. QED
    BY <2>1 DEF ItemsInv
<1>3. /\ CmbCount(Config(N)) = CmbCount(c) /\ CmbCountBn(Config(N)) = CmbCountBn(c)
      /\ OutOfRange(Config(N)) = OutOfRange(c) /\ Whole(Config(N)) = Whole(c)
  <2>1. /\ Config(N).n = c.n /\ Config(N).min = c.min
        /\ Config(N).max = c.max /\ Config(N).empty = c.empty
    BY DEF Config
  <2> HIDE DEF c, N
  <2>. QED
    BY <2>1, CountsDependOn, Zenon
<1>4. ~ OutOfRange(c) /\ N <= MaxItems /\ N < UintMax
      /\ (Asked("e") /\ ~ opt.nossl => Whole(c))
  BY <1>3 DEF CountsRight
<1>5. N \in Nat
  BY <1>1, AskedLength, Zenon
<1>6. UintMax \in Nat \ {0}
  BY UintMaxAssumption
<1>7. ASSUME Asked("k")
      PROVE  /\ Argument("k").single \in BOOLEAN
             /\ Argument("k").lo \in Int /\ Argument("k").lo >= -1
             /\ Argument("k").hi \in Int /\ Argument("k").hi >= -1
  <2>1. PICK i \in With("k") : Argument("k") = args[i]
    BY <1>7, ArgumentIs, Zenon
  <2>2. i \in DOMAIN args /\ args[i].o = "k"
    BY DEF With
  <2>3. ArgumentOK(args[i])
    BY <2>2, LineIs
  <2>4. args[i].lo >= -1 /\ args[i].hi >= -1
    BY DEF Documented
  <2>. QED
    BY <2>1, <2>2, <2>3, <2>4, <1>6 DEF ArgumentOK
<1>8. /\ cfg.min \in Nat /\ cfg.max \in Nat
      /\ a.n = N /\ a.empty = Asked("e") /\ a.bn = ~ opt.nossl
      /\ a.min = cfg.min \/ (a.min = N /\ cfg.min >= N)
      /\ a.max = cfg.max \/ (a.max = N /\ cfg.max >= N)
  <2> HIDE DEF N
  <2>0. a = LET k == IF Asked("k") THEN Argument("k") ELSE [lo |-> 0, hi |-> 0, single |-> TRUE]
                Size(x) == IF x < 0 THEN N ELSE x
            IN  [n |-> N, min |-> Size(k.lo), empty |-> Asked("e"), bn |-> ~ opt.nossl,
                 max |-> IF ~ k.single THEN Size(k.hi) ELSE IF k.lo < 0 THEN 1 ELSE k.lo]
    BY Zenon DEF AskedConfig, N
  <2> HIDE DEF a, c
  <2>1. CASE ~ Asked("k")
    BY <1>1, <2>0, <2>1
  <2>2. CASE Asked("k")
    <3>1. cfg.min = SizeMin(Argument("k")) /\ cfg.max = SizeMax(Argument("k"))
      BY <1>1, <2>2
    <3>2. /\ a.n = N /\ a.empty = Asked("e") /\ a.bn = ~ opt.nossl
          /\ a.min = IF Argument("k").lo < 0 THEN N ELSE Argument("k").lo
          /\ a.max = IF ~ Argument("k").single
                     THEN IF Argument("k").hi < 0 THEN N ELSE Argument("k").hi
                     ELSE IF Argument("k").lo < 0 THEN 1 ELSE Argument("k").lo
      BY <2>0, <2>2
    <3>. QED
      BY <1>4, <1>5, <1>6, <1>7, <2>2, <3>1, <3>2 DEF SizeMin, SizeMax, Unsigned
  <2>. QED
    BY <2>1, <2>2
<1>9. N \in Nat \ {0}
  <2> HIDE DEF N
  <2>1. c.n = N /\ c.min \in Nat /\ c.max \in Nat
    BY <1>8
  <2> HIDE DEF c
  <2>2. Requested(c).init \in Nat \ {0} /\ Requested(c).done \in Nat \ {0}
    BY <1>5, <2>1 DEF Requested
  <2>. QED
    BY <1>4, <1>5, <2>1, <2>2 DEF OutOfRange
<1>10. ConfigOK(c) /\ c.n = N
  <2> HIDE DEF N
  <2>1. cfg.empty \in BOOLEAN /\ (~ opt.nossl) \in BOOLEAN
    BY <1>1, Zenon DEF Asked
  <2>2. /\ c.n = N /\ c.min = cfg.min /\ c.max = cfg.max /\ c.count = 0 /\ c.start = 0
        /\ c.empty \in BOOLEAN /\ c.numbers \in BOOLEAN
        /\ c.bn \in BOOLEAN /\ c.mayStop \in BOOLEAN
    BY <2>1, Zenon
  <2>3. N \in 0 .. MaxItems
    BY <1>4, <1>9 DEF MaxItems
  <2> HIDE DEF c
  <2>. QED
    BY <1>8, <2>2, <2>3 DEF ConfigOK
<1>11. Slice!Combinations(a) = Slice!Combinations(c)
  <2>1. /\ c.n = N /\ c.min = cfg.min /\ c.max = cfg.max /\ c.empty = cfg.empty
        /\ c.bn = ~ opt.nossl
    OBVIOUS
  <2> HIDE DEF a, c, N
  <2>2. a.n = c.n /\ a.empty = c.empty /\ a.bn = c.bn
    BY <1>1, <1>8, <2>1, Zenon
  <2>. QED
    BY <1>4, <1>8, <1>9, <2>1, <2>2, SameCombinations
<1>12. CmbCount(c) = All(c) /\ SumOfSets(c) \in Nat \ {0} /\ c.n >= 1
       /\ EmptySets(c) = (IF Asked("e") THEN 1 ELSE 0) /\ ~ Refuses(c)
  <2>1. EmptySets(c) = IF Asked("e") THEN 1 ELSE 0
    BY <1>1 DEF EmptySets
  <2> HIDE DEF c, N
  <2>2. c.n >= 1
    BY <1>9, <1>10
  <2>3. SumOfSets(c) \in Nat \ {0} /\ CmbCount(c) = EmptySets(c) + SumOfSets(c)
    BY <1>4, <1>10, <2>2, SumPositive, CountIsSum
  <2>4. CmbCount(c) # 0 /\ c.n # 0
    BY <1>9, <1>10, <2>1, <2>3
  <2>. QED
    BY <2>1, <2>2, <2>3, <2>4 DEF All, Refuses
<1>13. CountOf(N) = All(c)
  <2>1. opt.nossl => CountOf(N) = CmbCount(c)
    BY <1>3 DEF CountOf
  <2>2. ~ opt.nossl => CountOf(N) = CmbCountBn(c)
    BY <1>3 DEF CountOf
  <2> HIDE DEF c, N
  <2>3. CASE opt.nossl
    BY <1>12, <2>1, <2>3
  <2>4. CASE ~ opt.nossl /\ Whole(c)
    BY <1>12, <2>2, <2>4 DEF CmbCount, CmbCountBn
  <2>5. CASE ~ opt.nossl /\ ~ Whole(c)
    <3>1. EmptySets(c) = 0
      BY <1>4, <1>12, <2>5
    <3>2. CmbCountBn(c) = SumOfSets(c)
      BY <1>4, <1>9, <1>10, <2>5 DEF CmbCountBn
    <3>. QED
      BY <1>12, <2>2, <2>5, <3>1, <3>2 DEF All
  <2>. QED
    BY <2>3, <2>4, <2>5
<1>14. Cardinality(Slice!Combinations(a)) = All(c) /\ All(c) \in Nat
  <2> HIDE DEF a, c, N
  <2>. QED
    BY <1>10, <1>11, <1>12, CombinationsArePromised DEF All
<1>15. Len(AskedOrder) = Cardinality(Slice!Combinations(a))
  <2>1. AskedOrder = InOrder(Slice!Combinations(a), LAMBDA x, y : Slice!Before(a, x, y))
    BY DEF AskedOrder
  <2>2. DOMAIN AskedOrder = 1 .. Cardinality(Slice!Combinations(a))
    BY <2>1 DEF InOrder
  <2> HIDE DEF a, c
  <2>. QED
    BY <1>14, <2>2
<1>. QED
  BY <1>2, <1>13, <1>14, <1>15

LEMMA OrderStays ==
  ASSUME UNCHANGED <<args, operands, opt>>
  PROVE  Len(AskedOrder)' = Len(AskedOrder)
<1>1. AskedItems' = AskedItems
  BY AskedStays
<1>2. AskedConfig' = AskedConfig
  BY <1>1 DEF AskedConfig, Asked, Argument, With
<1>3. AskedOrder' = AskedOrder
  BY <1>2 DEF AskedOrder, InOrder
<1>. QED
  BY <1>3

LEMMA TotalStep ==
  LineInv /\ TodoInv /\ ParsedInv /\ ItemsInv /\ EndInv /\ EndInv' /\ TotalIsTheirNumber
  /\ [ToolNext]_toolVars => TotalIsTheirNumber'
<1> SUFFICES ASSUME LineInv, TodoInv, ParsedInv, ItemsInv, EndInv, EndInv', TotalIsTheirNumber,
                    [ToolNext]_toolVars,
                    total' # None, Documented', CountsRight', opt'.range => AllBounded'
             PROVE  total' = Len(AskedOrder)'
  BY DEF TotalIsTheirNumber
<1>1. at' = "ended"
  BY DEF EndInv
<1>2. CASE PrintTotal
  <2>1. /\ at = "total" /\ UNCHANGED <<args, operands, opt, cfg>>
        /\ total' = CountOf(IF opt.range THEN ritems ELSE nitems)
    BY <1>2 DEF PrintTotal, given, settings
  <2>2. Documented /\ (opt.range => AllBounded) /\ AskedItems' = AskedItems
    BY <2>1, AskedStays
  <2>3. CountsRight
    BY <2>1, <2>2 DEF CountsRight, Config, OutOfRange, Whole, Requested, SetInit, SetDone, Clamp, Asked, With
  <2>. QED
    BY <2>1, <2>2, <2>3, CountIsTheirs, OrderStays
<1>3. CASE UNCHANGED toolVars
  <2>1. UNCHANGED <<args, operands, opt, cfg, total>>
    BY <1>3 DEF toolVars, mainVars
  <2>2. Documented /\ (opt.range => AllBounded) /\ AskedItems' = AskedItems
    BY <2>1, AskedStays
  <2>3. CountsRight
    BY <2>1, <2>2 DEF CountsRight, Config, OutOfRange, Whole, Requested, SetInit, SetDone, Clamp, Asked, With
  <2>4. total # None /\ total' = total
    BY <2>1
  <2>5. total = Len(AskedOrder)
    BY <2>2, <2>3, <2>4, Zenon DEF TotalIsTheirNumber
  <2>6. Len(AskedOrder)' = Len(AskedOrder)
    BY <2>1, OrderStays
  <2>. QED
    BY <2>4, <2>5, <2>6
<1>4. CASE ToolNext /\ ~ PrintTotal
  <2>1. total' = total /\ at # "ended"
    BY <1>4, TotalKept
  <2>. QED
    BY <2>1 DEF EndInv
<1>. QED
  BY <1>2, <1>3, <1>4

\* For every command line: with -t, what is counted before any range was
\* expanded is the number of the combinations that are asked for.
THEOREM TotalIsCounted == ToolSpec => []TotalIsTheirNumber
<1>1. ToolInit => TotalIsTheirNumber
  BY DEF ToolInit, TotalIsTheirNumber
<1>. QED
  BY <1>1, LineInit, LineStep, TodoInit, TodoStep, FillInit, FillStep, EndInit, EndStep,
     ParsedInit, ParsedStep, ItemsInit, ItemsStep, TotalStep, PTL DEF ToolSpec
================================================================================
