-------------------------------- MODULE CmbSeq --------------------------------
(***************************************************************************)
(* libcmb: the enumeration of combinations by cmb(3) and cmb_bn(3).        *)
(*                                                                         *)
(* The sizes ("sets") are worked through upwards or downwards.  The first  *)
(* combination of a size is the leading items; each further one is made    *)
(* from the last by shifting the rightmost position that can still move    *)
(* and lining up the others behind it.  How many there are of a size is    *)
(* kept by a recurrence from size to size; a start beyond a whole size     *)
(* skips it, and the rest of the way is walked without calling the action. *)
(*                                                                         *)
(* Items are their positions 1 .. n.  The numbers are exact, as those of   *)
(* cmb_bn() are; cmb() keeps them in a long double.                        *)
(***************************************************************************)
EXTENDS Integers, Sequences, FiniteSetsExt

CONSTANTS
    Configs,   \* the (config, nitems) pairs of the calls
    Nonzero    \* the values other than 0 that an action may return

(***************************************************************************)
(* n items, sizes from min to max, whether the empty set is wanted, how    *)
(* many combinations (0: all), the first one, whether numbers are shown,   *)
(* whether cmb_bn() is called, and whether the client's action may return  *)
(* non-zero.  cmb_count() computes 1 << n in an int, hence MaxItems.       *)
(***************************************************************************)
MaxItems == 30
ConfigOK(c) ==
    /\ c.n \in 0 .. MaxItems
    /\ c.min \in Nat /\ c.max \in Nat
    /\ c.count \in Nat /\ c.start \in Nat
    /\ c.empty \in BOOLEAN /\ c.numbers \in BOOLEAN
    /\ c.bn \in BOOLEAN /\ c.mayStop \in BOOLEAN

ASSUME ConfigsAssumption == \A c \in Configs : ConfigOK(c)
ASSUME NonzeroAssumption == Nonzero \subseteq Int \ {0}

VARIABLES
    conf,     \* the arguments
    pc,       \* where the function is
    curset,   \* curset: the size being worked on
    ncombos,  \* z: how many combinations of that size there are
    combo,    \* combo: how many of them were made
    setnums,  \* setnums: the positions of the current combination
    doseek,   \* doseek
    seek,     \* seek: the number of combinations to go, counted to 1
    left,     \* count: calls of the action that are left, if limited
    seq,      \* seq: the number of the next combination
    ret,      \* retval
    log       \* the calls of the action: number and items of each

cmbVars == <<conf, pc, curset, ncombos, combo, setnums, doseek, seek, left, seq, ret, log>>

Places == {"call", "emptyFirst", "set", "first", "shift", "emptyLast", "returned"}

-----------------------------------------------------------------------------
(***************************************************************************)
(* The range of sizes.                                                     *)
(***************************************************************************)
Requested(c) ==
    LET given == c.min # 0 \/ c.max # 0
        NonZero(x) == IF x = 0 THEN 1 ELSE x
    IN  [init |-> NonZero(IF given THEN c.min ELSE 1),
         done |-> NonZero(IF given THEN c.max ELSE c.n)]

Clamp(x, c) == IF x > c.n THEN c.n ELSE x
SetInit(c) == Clamp(Requested(c).init, c)
SetDone(c) == Clamp(Requested(c).done, c)
Increasing(c) == SetInit(c) <= SetDone(c)

\* Whether size k is still in the range.
InSets(c, k) == IF Increasing(c) THEN k <= SetDone(c) ELSE k >= SetDone(c)

\* The loop that brings z to the first size: z = (z * i--) / k.
Binomial(n) ==
    LET b[p \in 0 .. n] == IF p = 0 THEN 1 ELSE (b[p - 1] * (n - p + 1)) \div p
    IN  b

-----------------------------------------------------------------------------
(***************************************************************************)
(* cmb_count() and cmb_count_bn().                                         *)
(***************************************************************************)
OutOfRange(c) == Requested(c).init > c.n /\ Requested(c).done > c.n
Whole(c) == {SetInit(c), SetDone(c)} = {1, c.n}

\* 1 << n.
PowerOfTwo(n) ==
    LET p[i \in 0 .. n] == IF i = 0 THEN 1 ELSE 2 * p[i - 1]
    IN  p[n]

\* The sums of the first j numbers of a sequence.
SumTo(w) == LET r[j \in 0 .. Len(w)] == IF j = 0 THEN 0 ELSE r[j - 1] + w[j] IN r

\* How many sizes the loop goes over, and the i'th of them.
HowManySizes(c) == IF Increasing(c) THEN SetDone(c) - SetInit(c) + 1 ELSE SetInit(c) - SetDone(c) + 1
SizeAt(c, i) == IF Increasing(c) THEN SetInit(c) + (i - 1) ELSE SetInit(c) - (i - 1)

\* The numbers of combinations of the sizes, and what they add up to.
SizeNumbers(c) == [i \in 1 .. HowManySizes(c) |-> Binomial(c.n)[SizeAt(c, i)]]
SumOfSets(c) == SumTo(SizeNumbers(c))[HowManySizes(c)]

EmptySets(c) == IF c.empty THEN 1 ELSE 0

\* Mutant: the whole set is counted without regard to the empty one.
CountNoEmpty(c) ==
    IF c.n = 0 \/ OutOfRange(c) THEN 0
    ELSE IF Whole(c) THEN PowerOfTwo(c.n) - 1
    ELSE SumOfSets(c) + EmptySets(c)

CmbCount(c) ==
    IF c.n = 0 \/ OutOfRange(c) THEN 0
    ELSE IF Whole(c) THEN PowerOfTwo(c.n) - 1 + EmptySets(c)
    ELSE SumOfSets(c) + EmptySets(c)

\* cmb_count_bn() answers NULL where cmb_count() answers 0, and counts the
\* empty set only with all the others.
CmbCountBn(c) ==
    IF c.n = 0 \/ OutOfRange(c) THEN 0
    ELSE IF Whole(c) THEN PowerOfTwo(c.n) - 1 + EmptySets(c)
    ELSE SumOfSets(c)

-----------------------------------------------------------------------------
(***************************************************************************)
(* From one combination to the next.                                       *)
(***************************************************************************)
Leading(k) == [i \in 1 .. k |-> i]

\* Mutant: a position moves on although it is at its last place.
MovableTight(s) == {i \in DOMAIN s : s[i] <= conf.n - Len(s) + i}

\* The positions that are not yet at their last place (setnums_backend).
Movable(s) == {i \in DOMAIN s : s[i] < conf.n - Len(s) + i}

\* setnums_last: the rightmost of them; the scan ends at the first position.
Generator(s) == IF Movable(s) = {} THEN 1 ELSE Max(Movable(s))

\* Mutant: the generator is not moved itself.
ShiftedStill(s) ==
    LET g == Generator(s)
    IN  [i \in DOMAIN s |-> IF i < g THEN s[i] ELSE s[g] + (i - g)]

\* The next combination: what is left of the generator stays, the generator
\* moves by one, and the rest lines up behind it.
Shifted(s) ==
    LET g == Generator(s)
    IN  [i \in DOMAIN s |-> IF i < g THEN s[i] ELSE s[g] + (i - g) + 1]

-----------------------------------------------------------------------------
\* A call that is about to begin.
Calling ==
    /\ pc = "call"
    /\ curset = 0 /\ ncombos = 1 /\ combo = 0 /\ setnums = << >>
    /\ doseek = FALSE /\ seek = 0 /\ left = 0 /\ seq = 1
    /\ ret = 0 /\ log = << >>

Init == conf \in Configs /\ Calling

enum == <<curset, ncombos, combo, setnums>>
seeking == <<doseek, seek>>
calling == <<left, seq, ret, log>>

\* There is nothing to enumerate; cmb(), not cmb_bn(), asks cmb_count().
Refuses(c) == ~ c.empty /\ (c.n = 0 \/ (~ c.bn /\ CmbCount(c) = 0))

Refuse ==
    /\ pc = "call" /\ Refuses(conf)
    /\ pc' = "returned"
    /\ UNCHANGED <<conf, enum, seeking, calling>>

\* The configuration is read, the sizes are clamped, the direction is set.
Prepare ==
    /\ pc = "call" /\ ~ Refuses(conf)
    /\ pc' = "emptyFirst"
    /\ curset' = SetInit(conf)
    /\ ncombos' = IF conf.n = 0 THEN 1
                  ELSE Binomial(conf.n)[IF Increasing(conf) THEN SetInit(conf) - 1 ELSE SetInit(conf)]
    /\ doseek' = (conf.start > 1) /\ seek' = IF conf.start > 1 THEN conf.start ELSE 0
    /\ seq' = IF conf.start > 1 /\ conf.numbers THEN conf.start ELSE 1
    /\ left' = conf.count
    /\ UNCHANGED <<conf, combo, setnums, ret, log>>

Answers == {0} \cup (IF conf.mayStop THEN Nonzero ELSE {})

\* Mutant: calls are not counted down.
CallUncounted(items, next, stop) ==
    /\ log' = Append(log, [seq |-> seq, items |-> items])
    /\ seq' = seq + 1
    /\ ret' \in Answers
    /\ left' = left
    /\ pc' = IF ret' # 0 \/ (conf.count # 0 /\ left' = 0) THEN stop ELSE next

\* The action is called; a non-zero answer or the last call of a limited
\* number sends the function to stop, anything else to next.
Call(items, next, stop) ==
    /\ log' = Append(log, [seq |-> seq, items |-> items])
    /\ seq' = seq + 1
    /\ ret' \in Answers
    /\ left' = IF ret' = 0 /\ conf.count # 0 THEN left - 1 ELSE left
    /\ pc' = IF ret' # 0 \/ (conf.count # 0 /\ left' = 0) THEN stop ELSE next

\* Where the function goes from the empty set: without items it returns.
Sets == IF conf.n = 0 THEN "returned" ELSE "set"

EmptyFirst ==
    /\ pc = "emptyFirst" /\ Increasing(conf) /\ conf.empty /\ ~ doseek
    /\ Call(<< >>, Sets, "returned")
    /\ UNCHANGED <<conf, enum, seeking>>

\* The search for the start passes the empty set.
EmptyPassed ==
    /\ pc = "emptyFirst" /\ Increasing(conf) /\ conf.empty /\ doseek
    /\ seek' = seek - 1
    /\ doseek' = (seek' # 1)
    /\ pc' = Sets
    /\ UNCHANGED <<conf, enum, calling>>

NoEmptyFirst ==
    /\ pc = "emptyFirst" /\ ~ (Increasing(conf) /\ conf.empty)
    /\ pc' = Sets
    /\ UNCHANGED <<conf, enum, seeking, calling>>

\* z for the current size: going up it is brought there at the head of the
\* loop, going down at its end.
AtHead == IF Increasing(conf) THEN (ncombos * (conf.n - curset + 1)) \div curset ELSE ncombos

\* The end of the loop over the sizes.
NextSet(z) ==
    IF Increasing(conf)
    THEN curset' = curset + 1 /\ ncombos' = z
    ELSE curset' = curset - 1 /\ ncombos' = (z * curset) \div (conf.n - curset + 1)

\* Mutant: a size is also passed when it holds the start as its last one.
PassSetTight ==
    /\ pc = "set" /\ InSets(conf, curset)
    /\ doseek /\ seek >= AtHead
    /\ seek' = seek - AtHead
    /\ NextSet(AtHead)
    /\ UNCHANGED <<conf, pc, combo, setnums, doseek, calling>>

\* The start is beyond all combinations of this size.
PassSet ==
    /\ pc = "set" /\ InSets(conf, curset)
    /\ doseek /\ seek > AtHead
    /\ seek' = seek - AtHead
    /\ NextSet(AtHead)
    /\ UNCHANGED <<conf, pc, combo, setnums, doseek, calling>>

EnterSet ==
    /\ pc = "set" /\ InSets(conf, curset)
    /\ ~ (doseek /\ seek > AtHead)
    /\ ncombos' = AtHead
    /\ doseek' = (doseek /\ seek # 1)
    /\ pc' = "first"
    /\ UNCHANGED <<conf, curset, combo, setnums, seek, calling>>

SetsEnd ==
    /\ pc = "set" /\ ~ InSets(conf, curset)
    /\ pc' = "emptyLast"
    /\ UNCHANGED <<conf, enum, seeking, calling>>

\* The first combination of a size.  Unlike the others it leaves the loop by a
\* break, and the function goes on behind it.
ShowFirst ==
    /\ pc = "first"
    /\ setnums' = Leading(curset) /\ combo' = 1
    /\ IF doseek THEN pc' = "shift" /\ UNCHANGED calling
                 ELSE Call(setnums', "shift", "emptyLast")
    /\ UNCHANGED <<conf, curset, ncombos, seeking>>

\* The next combination of a size, shown unless the start is still ahead.
Shift ==
    /\ pc = "shift" /\ combo < ncombos
    /\ setnums' = Shifted(setnums) /\ combo' = combo + 1
    /\ seek' = IF doseek THEN seek - 1 ELSE seek
    /\ doseek' = (doseek /\ seek' # 1)
    /\ IF doseek' THEN pc' = "shift" /\ UNCHANGED calling
                  ELSE Call(setnums', "shift", "returned")
    /\ UNCHANGED <<conf, curset, ncombos>>

SetEnd ==
    /\ pc = "shift" /\ combo >= ncombos
    /\ NextSet(ncombos)
    /\ pc' = "set"
    /\ UNCHANGED <<conf, combo, setnums, seeking, calling>>

\* The empty set, when sizes go down.
WantsEmptyLast ==
    /\ ~ Increasing(conf) /\ conf.empty
    /\ ~ doseek \/ seek = 1
    /\ conf.count = 0 \/ left > 0

EmptyLast ==
    /\ pc = "emptyLast" /\ WantsEmptyLast
    /\ log' = Append(log, [seq |-> seq, items |-> << >>])
    /\ seq' = seq + 1 /\ ret' \in Answers
    /\ pc' = "returned"
    /\ UNCHANGED <<conf, enum, seeking, left>>

NoEmptyLast ==
    /\ pc = "emptyLast" /\ ~ WantsEmptyLast
    /\ pc' = "returned"
    /\ UNCHANGED <<conf, enum, seeking, calling>>

Next ==
    \/ Refuse \/ Prepare
    \/ EmptyFirst \/ EmptyPassed \/ NoEmptyFirst
    \/ PassSet \/ EnterSet \/ SetsEnd
    \/ ShowFirst \/ Shift \/ SetEnd
    \/ EmptyLast \/ NoEmptyLast

Spec == Init /\ [][Next]_cmbVars

\* A function that is running goes on running.
FairSpec == Spec /\ WF_cmbVars(Next)

-----------------------------------------------------------------------------
(***************************************************************************)
(* Properties                                                              *)
(***************************************************************************)
ItemsOf(e) == {e.items[i] : i \in DOMAIN e.items}

Slice == INSTANCE CombinationSlice WITH
    given <- [i \in DOMAIN log |-> ItemsOf(log[i])],
    result <- IF ret = 0 THEN 0 ELSE 1,
    over <- pc = "returned"

\* Increasing positions: with one at least between any two, as positions are whole.
Ascending(s) == \A i, j \in DOMAIN s : i <= j => s[j] - s[i] >= j - i
LexLess(s, t) ==
    \E g \in DOMAIN s \cap DOMAIN t :
        /\ s[g] < t[g]
        /\ \A i \in 1 .. (g - 1) : s[i] = t[i]

\* Every variable keeps its type; the positions of a combination are in
\* increasing order and within the items, so that curitems reads only items.
TypeOK ==
    /\ ConfigOK(conf) /\ pc \in Places
    /\ curset \in 0 .. (conf.n + 1) /\ ncombos \in Nat /\ combo \in Nat
    /\ DOMAIN setnums = 1 .. Len(setnums) /\ Len(setnums) <= conf.n
    /\ \A i \in DOMAIN setnums : setnums[i] \in 1 .. conf.n
    /\ Ascending(setnums)
    /\ doseek \in BOOLEAN /\ seek \in Nat /\ left \in Nat /\ seq \in Nat
    /\ ret \in {0} \cup Nonzero

\* cmb() gives exactly the slice it was asked for: every combination of the
\* wanted sizes from the start'th, each once, in order, count of them, and it
\* returns; a non-zero answer ends it and is returned.
GivesSlice == Slice!Spec

\* Only a call that goes down, ends with the empty set and is stopped by its
\* action goes on after it was stopped.
StopsCleanly(c) == c.mayStop => Increasing(c) \/ ~ c.empty

\* A limited call makes no more calls of the action than it was asked for,
\* through every way the loops are left, as long as stopping it stops it.
WithinCount ==
    conf.count # 0 /\ StopsCleanly(conf) => Len(log) <= conf.count

\* What a start beyond the first combination skips.
Skipped(c) == IF c.start > 1 THEN c.start - 1 ELSE 0

\* cmb_count() tells how many combinations cmb() will give: as many calls as
\* are left from the start when nothing else ends them.
CountAgrees ==
    /\ pc = "returned" /\ ret = 0
    /\ conf.count = 0 /\ conf.n > 0 /\ ~ OutOfRange(conf) /\ StopsCleanly(conf)
    => Len(log) = IF Skipped(conf) < CmbCount(conf) THEN CmbCount(conf) - Skipped(conf) ELSE 0

\* "Combinations are calculated in arithmetic progression, providing predictable
\* order": the shift by self-similarity goes to the very next combination of the
\* size in lexicographic order, so that none comes twice and none is missed.
NextInOrder ==
    [][ pc = "shift" /\ combo' # combo =>
            /\ LexLess(setnums, setnums')
            /\ \A t \in [1 .. curset -> 1 .. conf.n] :
                  Ascending(t) => ~ (LexLess(setnums, t) /\ LexLess(t, setnums')) ]_cmbVars

=============================================================================
