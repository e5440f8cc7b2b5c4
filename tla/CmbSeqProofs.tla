----------------------------- MODULE CmbSeqProofs -----------------------------
(***************************************************************************)
(* Theorems about the enumeration of cmb(3), for every number of items and *)
(* every configuration.                                                    *)
(*                                                                         *)
(* What the recurrence for z computes, and what the numbers of the sizes   *)
(* add up to, is proved by inductions over sets of numbers.                *)
(*                                                                         *)
(* The last sections show that the calls of the action are, one by one,    *)
(* those CombinationSlice promises: a combination is taken for the set of  *)
(* its items, its place among the subsets of its size for its place in the *)
(* order of the promise, and the positions counted for that place.         *)
(***************************************************************************)
EXTENDS CmbSeq, FiniteSetTheorems, WellFoundedInduction, TLAPS

-----------------------------------------------------------------------------
(***************************************************************************)
(* The shift.                                                              *)
(***************************************************************************)

\* A non-empty set of positions has a largest one.
LEMMA LargestPosition ==
  ASSUME NEW k \in Nat, NEW S \in SUBSET (1 .. k), S # {}
  PROVE  \E x \in S : \A y \in S : x >= y
<1> DEFINE T == {k - i : i \in S}
<1>1. T \subseteq Nat /\ T # {}
  <2>1. ASSUME NEW i \in S PROVE k - i \in Nat
    OBVIOUS
  <2>2. PICK x \in S : TRUE
    OBVIOUS
  <2>3. k - x \in T
    OBVIOUS
  <2>. QED
    BY <2>1, <2>3
<1>2. PICK m \in T : \A y \in T : ~ (<<y, m>> \in OpToRel(<, Nat))
  BY <1>1, NatLessThanWellFounded, WFMin, Zenon
<1>3. PICK x \in S : m = k - x
  OBVIOUS
<1>4. ASSUME NEW y \in S PROVE x >= y
  <2>1. k - y \in T /\ k - y \in Nat /\ m \in Nat
    BY <1>1
  <2>2. ~ (k - y < m)
    BY <2>1, <1>2 DEF OpToRel
  <2>. QED
    BY <2>2, <1>3
<1>. QED
  BY <1>4

\* The generator is a position; those to its right are all at their last place.
LEMMA GeneratorIsRightmost ==
  ASSUME conf.n \in Nat, NEW k \in Nat \ {0}, NEW s \in [1 .. k -> Int]
  PROVE  /\ Generator(s) \in 1 .. k
         /\ \A i \in 1 .. k : i > Generator(s) => s[i] >= conf.n - k + i
<1>1. Len(s) = k /\ DOMAIN s = 1 .. k
  OBVIOUS
<1>2. Movable(s) = {i \in 1 .. k : s[i] < conf.n - k + i}
  BY <1>1 DEF Movable
<1>3. CASE Movable(s) = {}
  <2>1. Generator(s) = 1
    BY <1>3 DEF Generator
  <2>2. ASSUME NEW i \in 1 .. k PROVE s[i] >= conf.n - k + i
    BY <1>2, <1>3
  <2>. QED
    BY <2>1, <2>2
<1>4. CASE Movable(s) # {}
  <2>1. \E x \in Movable(s) : \A y \in Movable(s) : x >= y
    BY <1>2, <1>4, LargestPosition
  <2>2. Generator(s) \in Movable(s) /\ \A y \in Movable(s) : Generator(s) >= y
    BY <2>1, <1>4, Zenon DEF Generator, Max
  <2> DEFINE g == Generator(s)
  <2>3. g \in 1 .. k
    BY <2>2, <1>2
  <2> HIDE DEF g
  <2>4. ASSUME NEW i \in 1 .. k, i > g PROVE s[i] >= conf.n - k + i
    <3>1. ~ (s[i] < conf.n - k + i)
      <4>1. i \notin Movable(s)
        BY <2>2, <2>3, <2>4 DEF g
      <4>. QED
        BY <4>1, <1>2
    <3>. QED
      BY <3>1
  <2>. QED
    BY <2>3, <2>4 DEF g
<1>. QED
  BY <1>3, <1>4

\* The shift goes forward, and no combination of the size lies between.
LEMMA ShiftedIsSuccessor ==
  ASSUME conf.n \in Nat, NEW k \in Nat \ {0}, NEW s \in [1 .. k -> Int], Ascending(s)
  PROVE  /\ Shifted(s) \in [1 .. k -> Int]
         /\ Ascending(Shifted(s))
         /\ LexLess(s, Shifted(s))
         /\ \A t \in [1 .. k -> 1 .. conf.n] :
               Ascending(t) => ~ (LexLess(s, t) /\ LexLess(t, Shifted(s)))
<1> DEFINE g == Generator(s)
           u == Shifted(s)
<1>1. g \in 1 .. k /\ \A i \in 1 .. k : i > g => s[i] >= conf.n - k + i
  BY GeneratorIsRightmost
<1>2. u = [i \in 1 .. k |-> IF i < g THEN s[i] ELSE s[g] + (i - g) + 1]
  BY DEF Shifted
<1> HIDE DEF g, u
<1>3. u \in [1 .. k -> Int]
  BY <1>1, <1>2
<1>4. \A i, j \in 1 .. k : i <= j => s[j] - s[i] >= j - i
  BY DEF Ascending
<1>5. Ascending(u)
  <2> SUFFICES ASSUME NEW i \in 1 .. k, NEW j \in 1 .. k, i <= j
               PROVE  u[j] - u[i] >= j - i
    BY <1>3 DEF Ascending
  <2>1. CASE j < g
    <3>1. u[i] = s[i] /\ u[j] = s[j]
      BY <2>1, <1>1, <1>2
    <3>. QED
      BY <3>1, <1>4
  <2>2. CASE i < g /\ j >= g
    <3>1. u[i] = s[i] /\ u[j] = s[g] + (j - g) + 1
      BY <2>2, <1>1, <1>2
    <3>2. s[g] - s[i] >= g - i
      BY <2>2, <1>1, <1>4
    <3>. QED
      BY <3>1, <3>2, <1>1
  <2>3. CASE i >= g
    <3>1. u[i] = s[g] + (i - g) + 1 /\ u[j] = s[g] + (j - g) + 1
      BY <2>3, <1>1, <1>2
    <3>. QED
      BY <3>1, <1>1
  <2>. QED
    BY <2>1, <2>2, <2>3, <1>1
<1>6. LexLess(s, u)
  <2>1. s[g] < u[g] /\ \A i \in 1 .. (g - 1) : s[i] = u[i]
    BY <1>1, <1>2
  <2>. QED
    BY <2>1, <1>1, <1>3 DEF LexLess
<1>7. ASSUME NEW t \in [1 .. k -> 1 .. conf.n], Ascending(t), LexLess(s, t), LexLess(t, u)
      PROVE  FALSE
  <2>1. PICK h \in 1 .. k : s[h] < t[h] /\ \A i \in 1 .. (h - 1) : s[i] = t[i]
    BY <1>7 DEF LexLess
  <2>2. PICK d \in 1 .. k : t[d] < u[d] /\ \A i \in 1 .. (d - 1) : t[i] = u[i]
    BY <1>3, <1>7 DEF LexLess
  <2>3. \A i, j \in 1 .. k : i <= j => t[j] - t[i] >= j - i
    BY <1>7 DEF Ascending
  <2>4. CASE h > g
    <3>1. t[h] > conf.n - k + h
      BY <2>1, <2>4, <1>1
    <3>2. t[k] - t[h] >= k - h /\ t[k] <= conf.n
      BY <2>3
    <3>. QED
      BY <3>1, <3>2
  <2>5. CASE h = g
    <3>1. \A i \in 1 .. (g - 1) : t[i] = u[i]
      BY <2>1, <2>5, <1>1, <1>2
    <3>2. d >= g
      BY <3>1, <2>2, <1>1
    <3>3. t[d] - t[g] >= d - g /\ t[g] >= s[g] + 1
      BY <3>2, <2>1, <2>3, <2>5, <1>1
    <3>4. u[d] = s[g] + (d - g) + 1
      BY <3>2, <1>1, <1>2
    <3>. QED
      BY <3>3, <3>4, <2>2, <1>1
  <2>6. CASE h < g
    <3>1. t[h] > u[h] /\ \A i \in 1 .. (h - 1) : t[i] = u[i]
      BY <2>1, <2>6, <1>1, <1>2
    <3>2. CASE d < h
      BY <3>1, <3>2, <2>2
    <3>3. CASE d = h
      BY <3>1, <3>3, <2>2, <1>3
    <3>4. CASE d > h
      BY <3>1, <3>4, <2>2, <1>3
    <3>. QED
      BY <3>2, <3>3, <3>4
  <2>. QED
    BY <2>4, <2>5, <2>6, <1>1
<1>. QED
  BY <1>3, <1>5, <1>6, <1>7 DEF u

-----------------------------------------------------------------------------
(***************************************************************************)
(* The positions stay ascending while the shift is applied, and the size   *)
(* is at least one.                                                        *)
(***************************************************************************)
ShiftInv ==
    /\ ConfigOK(conf) /\ pc \in Places
    /\ curset \in Nat
    /\ pc = "emptyFirst" => curset = SetInit(conf)
    /\ pc \in {"set", "first", "shift"} => conf.n >= 1
    /\ pc = "set" /\ Increasing(conf) => curset >= 1
    /\ pc \in {"first", "shift"} => curset >= 1
    /\ pc = "shift" => setnums \in [1 .. curset -> Int] /\ Ascending(setnums)

\* The range of sizes has natural ends, which are not zero when there are items.
LEMMA RangeOfSizes ==
  ASSUME NEW c, ConfigOK(c)
  PROVE  /\ c.n \in Nat /\ SetInit(c) \in Nat /\ SetDone(c) \in Nat
         /\ c.n >= 1 => SetInit(c) >= 1 /\ SetDone(c) >= 1
<1>1. c.n \in Nat /\ c.min \in Nat /\ c.max \in Nat
  BY DEF ConfigOK
<1>2. Requested(c).init \in Nat /\ Requested(c).done \in Nat
  BY <1>1 DEF Requested
<1>3. c.n >= 1 => Requested(c).init >= 1 /\ Requested(c).done >= 1
  BY <1>1 DEF Requested
<1>. QED
  BY <1>1, <1>2, <1>3 DEF SetInit, SetDone, Clamp

LEMMA LeadingAscends ==
  ASSUME NEW k \in Nat
  PROVE  Leading(k) \in [1 .. k -> Int] /\ Ascending(Leading(k))
BY DEF Leading, Ascending

\* What the end of the loop over the sizes does to the size.
LEMMA SizeSteps ==
  ASSUME ShiftInv, NEW z, NextSet(z), pc' = "set", curset >= 1, conf' = conf, conf.n >= 1
  PROVE  ShiftInv'
<1>1. curset' \in Nat
  BY DEF ShiftInv, NextSet
<1>2. Increasing(conf) => curset' >= 1
  BY DEF ShiftInv, NextSet
<1>. QED
  BY <1>1, <1>2 DEF ShiftInv, Places, Increasing, SetInit, SetDone, Clamp, Requested

\* A call with any arguments begins.
Called == ConfigOK(conf) /\ Calling

LEMMA InitCalls == Init => Called
BY ConfigsAssumption DEF Init, Called

LEMMA ShiftInit == Called => ShiftInv
BY DEF Called, Calling, ShiftInv, Places

LEMMA ShiftStep == ShiftInv /\ [Next]_cmbVars => ShiftInv'
<1> SUFFICES ASSUME ShiftInv, [Next]_cmbVars PROVE ShiftInv'
  OBVIOUS
<1> USE DEF ShiftInv, Places
<1>0. /\ conf.n \in Nat /\ SetInit(conf) \in Nat /\ SetDone(conf) \in Nat
      /\ conf.n >= 1 => SetInit(conf) >= 1 /\ SetDone(conf) >= 1
  BY RangeOfSizes
<1>1. CASE Refuse
  BY <1>1 DEF Refuse, enum
<1>2. CASE Prepare
  BY <1>2, <1>0 DEF Prepare
<1>3. CASE EmptyFirst
  <2>1. pc' \in {"returned", "set"} /\ (pc' = "set" => conf.n # 0)
    BY <1>3 DEF EmptyFirst, Call, Sets
  <2>. QED
    BY <2>1, <1>3, <1>0 DEF EmptyFirst, enum
<1>4. CASE EmptyPassed
  BY <1>4, <1>0 DEF EmptyPassed, Sets, enum
<1>5. CASE NoEmptyFirst
  BY <1>5, <1>0 DEF NoEmptyFirst, Sets, enum
<1>6. CASE PassSet
  <2>1. curset >= 1
    BY <1>6, <1>0 DEF PassSet, InSets
  <2>. QED
    BY <2>1, <1>6, SizeSteps DEF PassSet
<1>7. CASE EnterSet
  BY <1>7, <1>0 DEF EnterSet, InSets
<1>8. CASE SetsEnd
  BY <1>8 DEF SetsEnd, enum
<1>9. CASE ShowFirst
  <2>1. pc' \in {"shift", "emptyLast"}
    BY <1>9 DEF ShowFirst, Call
  <2>2. setnums' = Leading(curset) /\ conf' = conf /\ curset' = curset
    BY <1>9 DEF ShowFirst
  <2>3. setnums' \in [1 .. curset -> Int] /\ Ascending(setnums')
    BY <2>2, LeadingAscends
  <2>. QED
    BY <2>1, <2>2, <2>3, <1>9 DEF ShowFirst, Ascending
<1>10. CASE Shift
  <2>1. pc' \in {"shift", "returned"}
    BY <1>10 DEF Shift, Call
  <2>2. setnums' = Shifted(setnums) /\ conf' = conf /\ curset' = curset
    BY <1>10 DEF Shift
  <2>3. setnums' \in [1 .. curset -> Int] /\ Ascending(setnums')
    <3>1. curset \in Nat \ {0} /\ setnums \in [1 .. curset -> Int] /\ Ascending(setnums)
      BY <1>10 DEF Shift
    <3>. QED
      BY <3>1, <2>2, <1>0, ShiftedIsSuccessor
  <2>. QED
    BY <2>1, <2>2, <2>3, <1>10 DEF Shift, Ascending
<1>11. CASE SetEnd
  BY <1>11, SizeSteps DEF SetEnd
<1>12. CASE EmptyLast
  BY <1>12 DEF EmptyLast, enum
<1>13. CASE NoEmptyLast
  BY <1>13 DEF NoEmptyLast, enum
<1>14. CASE UNCHANGED cmbVars
  BY <1>14 DEF cmbVars, Ascending
<1>. QED
  BY <1>1, <1>2, <1>3, <1>4, <1>5, <1>6, <1>7, <1>8, <1>9, <1>10, <1>11, <1>12, <1>13,
     <1>14 DEF Next

\* For every number of items: each step of the loop over a size produces the
\* combination that follows the last one in lexicographic order.
THEOREM EachFollowsTheLast == Spec => NextInOrder
<1>1. ShiftInv /\ [Next]_cmbVars =>
        [ pc = "shift" /\ combo' # combo =>
            /\ LexLess(setnums, setnums')
            /\ \A t \in [1 .. curset -> 1 .. conf.n] :
                  Ascending(t) => ~ (LexLess(setnums, t) /\ LexLess(t, setnums')) ]_cmbVars
  <2> SUFFICES ASSUME ShiftInv, Next, pc = "shift", combo' # combo
               PROVE  /\ LexLess(setnums, setnums')
                      /\ \A t \in [1 .. curset -> 1 .. conf.n] :
                            Ascending(t) => ~ (LexLess(setnums, t) /\ LexLess(t, setnums'))
    OBVIOUS
  <2>1. Shift
    BY DEF Next, Refuse, Prepare, EmptyFirst, EmptyPassed, NoEmptyFirst, PassSet, EnterSet,
           SetsEnd, ShowFirst, SetEnd, EmptyLast, NoEmptyLast
  <2>2. setnums' = Shifted(setnums)
    BY <2>1 DEF Shift
  <2>3. /\ conf.n \in Nat /\ curset \in Nat \ {0}
        /\ setnums \in [1 .. curset -> Int] /\ Ascending(setnums)
    BY RangeOfSizes DEF ShiftInv
  <2>. QED
    BY <2>2, <2>3, ShiftedIsSuccessor
<1>. QED
  BY <1>1, InitCalls, ShiftInit, ShiftStep, PTL DEF Spec, NextInOrder

-----------------------------------------------------------------------------
(***************************************************************************)
(* Counting the calls: while the function runs, the calls made and those   *)
(* left add up to the count, and there is one left.  Behind the loops the  *)
(* sum is kept only by calls that were not stopped.                        *)
(***************************************************************************)
Running == {"call", "emptyFirst", "set", "first", "shift"}
Calls == [seq : Int, items : Seq(Int)]

CountInv ==
    /\ log \in Seq(Calls) /\ seq \in Int /\ left \in Int
    /\ pc \in Running => ret = 0
    /\ pc = "call" => log = << >>
    /\ pc \in Running \ {"call"} /\ conf.count # 0 =>
          left >= 1 /\ left + Len(log) = conf.count
    /\ pc \in {"emptyLast", "returned"} /\ conf.count # 0 /\ StopsCleanly(conf) =>
          Len(log) <= conf.count
    /\ pc = "emptyLast" /\ conf.count # 0 /\ StopsCleanly(conf) /\ WantsEmptyLast =>
          Len(log) < conf.count

\* A call of the action, wherever it is made from: stop is where a stopped call
\* goes, which must not be the empty set if that is still wanted.
LEMMA CallCounts ==
  ASSUME ShiftInv, CountInv, pc \in Running \ {"call"},
         NEW items \in Seq(Int), NEW next, NEW stop,
         Call(items, next, stop), conf' = conf,
         next \in {"returned", "set", "shift"},
         stop \in {"returned", "emptyLast"}
  PROVE  CountInv'
<1>1. conf.count \in Nat /\ conf.mayStop \in BOOLEAN
  BY DEF ShiftInv, ConfigOK
<1>2. log' \in Seq(Calls) /\ Len(log') = Len(log) + 1 /\ seq' \in Int
  BY DEF Call, CountInv, Calls
<1>3. left' \in Int
  BY DEF Call, CountInv
<1>4. CASE ret' # 0
  <2>1. pc' = stop /\ left' = left
    BY <1>4 DEF Call
  <2>2. conf.mayStop
    BY <1>4 DEF Call, Answers
  <2>3. StopsCleanly(conf) => ~ WantsEmptyLast'
    BY <2>2 DEF StopsCleanly, WantsEmptyLast
  <2>4. conf.count # 0 => Len(log') <= conf.count
    BY <1>1, <1>2 DEF CountInv
  <2>. QED
    BY <1>2, <1>3, <2>1, <2>3, <2>4 DEF CountInv, Running
<1>5. CASE ret' = 0 /\ conf.count # 0 /\ left' = 0
  <2>1. pc' = stop /\ Len(log') = conf.count
    BY <1>1, <1>2, <1>5 DEF Call, CountInv
  <2>2. ~ WantsEmptyLast'
    BY <1>5 DEF WantsEmptyLast
  <2>. QED
    BY <1>1, <1>2, <1>3, <1>5, <2>1, <2>2 DEF CountInv, Running
<1>6. CASE ret' = 0 /\ ~ (conf.count # 0 /\ left' = 0)
  <2>1. pc' = next
    BY <1>6 DEF Call
  <2>2. conf.count # 0 => left' >= 1 /\ left' + Len(log') = conf.count
    BY <1>1, <1>2, <1>6 DEF Call, CountInv
  <2>. QED
    BY <1>1, <1>2, <1>3, <1>6, <2>1, <2>2 DEF CountInv, Running
<1>. QED
  BY <1>4, <1>5, <1>6

LEMMA CountInit == Called => CountInv
BY DEF Called, Calling, CountInv, Running

LEMMA CountStep == ShiftInv /\ ShiftInv' /\ CountInv /\ [Next]_cmbVars => CountInv'
<1> SUFFICES ASSUME ShiftInv, ShiftInv', CountInv, [Next]_cmbVars PROVE CountInv'
  OBVIOUS
<1>0. conf.n \in Nat /\ conf.count \in Nat /\ conf.start \in Nat
  BY DEF ShiftInv, ConfigOK
<1>1. CASE Refuse
  BY <1>1, <1>0 DEF Refuse, CountInv, Running, calling
<1>2. CASE Prepare
  BY <1>2, <1>0 DEF Prepare, CountInv, Running
<1>3. CASE EmptyFirst
  <2>1. << >> \in Seq(Int) /\ Sets \in {"returned", "set", "shift"}
    BY DEF Sets
  <2>2. pc \in Running \ {"call"} /\ conf' = conf /\ Call(<< >>, Sets, "returned")
    BY <1>3 DEF EmptyFirst, Running
  <2>. QED
    BY <2>1, <2>2, CallCounts
<1>4. CASE EmptyPassed
  BY <1>4, <1>0 DEF EmptyPassed, Sets, CountInv, Running, calling
<1>5. CASE NoEmptyFirst
  BY <1>5, <1>0 DEF NoEmptyFirst, Sets, CountInv, Running, calling
<1>6. CASE PassSet
  BY <1>6, <1>0 DEF PassSet, CountInv, Running, calling
<1>7. CASE EnterSet
  BY <1>7, <1>0 DEF EnterSet, CountInv, Running, calling
<1>8. CASE SetsEnd
  BY <1>8, <1>0 DEF SetsEnd, CountInv, Running, calling, WantsEmptyLast
<1>9. CASE ShowFirst
  <2>1. setnums' \in Seq(Int)
    BY <1>9 DEF ShowFirst, Leading, ShiftInv
  <2>2. CASE doseek
    BY <1>9, <2>2 DEF ShowFirst, CountInv, Running, calling
  <2>3. CASE ~ doseek
    BY <1>9, <2>1, <2>3, CallCounts DEF ShowFirst, Running
  <2>. QED
    BY <2>2, <2>3
<1>10. CASE Shift
  <2>1. setnums' \in Seq(Int)
    <3>1. curset \in Nat \ {0} /\ setnums \in [1 .. curset -> Int] /\ Ascending(setnums)
      BY <1>10 DEF Shift, ShiftInv
    <3>2. setnums' \in [1 .. curset -> Int]
      BY <1>10, <3>1, <1>0, ShiftedIsSuccessor DEF Shift
    <3>. QED
      BY <3>1, <3>2
  <2>2. CASE doseek'
    BY <1>10, <2>2 DEF Shift, CountInv, Running, calling
  <2>3. CASE ~ doseek'
    BY <1>10, <2>1, <2>3, CallCounts DEF Shift, Running
  <2>. QED
    BY <2>2, <2>3
<1>11. CASE SetEnd
  BY <1>11, <1>0 DEF SetEnd, CountInv, Running, calling
<1>12. CASE EmptyLast
  <2>1. log' \in Seq(Calls) /\ Len(log') = Len(log) + 1 /\ seq' \in Int
    BY <1>12 DEF EmptyLast, CountInv, Calls
  <2>. QED
    BY <1>12, <1>0, <2>1 DEF EmptyLast, CountInv, Running, StopsCleanly
<1>13. CASE NoEmptyLast
  BY <1>13, <1>0 DEF NoEmptyLast, CountInv, Running, calling
<1>14. CASE UNCHANGED cmbVars
  BY <1>14 DEF cmbVars, CountInv, Running, WantsEmptyLast, StopsCleanly
<1>. QED
  BY <1>1, <1>2, <1>3, <1>4, <1>5, <1>6, <1>7, <1>8, <1>9, <1>10, <1>11, <1>12, <1>13,
     <1>14 DEF Next

\* However the loops are left, a limited call of cmb() makes no more calls of the
\* action than its count.
THEOREM CountIsKept == Spec => []WithinCount
<1>1. ShiftInv /\ CountInv => WithinCount
  <2> SUFFICES ASSUME ShiftInv, CountInv, conf.count # 0, StopsCleanly(conf)
               PROVE  Len(log) <= conf.count
    BY DEF WithinCount
  <2>1. conf.count \in Nat
    BY DEF ShiftInv, ConfigOK
  <2>. QED
    <3>1. pc \in Places
      BY DEF ShiftInv
    <3>2. CASE pc = "call"
      BY <2>1, <3>2 DEF CountInv
    <3>. QED
      BY <2>1, <3>1, <3>2 DEF CountInv, Running, Places
<1>. QED
  BY <1>1, InitCalls, ShiftInit, ShiftStep, CountInit, CountStep, PTL DEF Spec

-----------------------------------------------------------------------------
(***************************************************************************)
(* The numbers of combinations: z of the code is exact.                    *)
(***************************************************************************)

\* Induction over the natural numbers, for a set.
LEMMA Induction ==
  ASSUME NEW S, 0 \in S, \A n \in Nat : n \in S => n + 1 \in S
  PROVE  \A n \in Nat : n \in S
<1> SUFFICES ASSUME \E n \in Nat : n \notin S PROVE FALSE
  OBVIOUS
<1> DEFINE T == Nat \ S
<1>1. T \subseteq Nat /\ T # {}
  OBVIOUS
<1>2. PICK m \in T : \A y \in T : ~ (<<y, m>> \in OpToRel(<, Nat))
  BY <1>1, NatLessThanWellFounded, WFMin, Zenon
<1>3. m \in Nat /\ m \notin S /\ m # 0
  OBVIOUS
<1>4. m - 1 \in Nat /\ m - 1 < m /\ (m - 1) + 1 = m
  BY <1>3
<1>5. m - 1 \in T
  BY <1>3, <1>4
<1>6. <<m - 1, m>> \in OpToRel(<, Nat)
  BY <1>3, <1>4 DEF OpToRel
<1>. QED
  BY <1>2, <1>5, <1>6

\* A division without remainder.
LEMMA Exact == \A a \in Nat, k \in Nat \ {0} : (a * k) \div k = a
OBVIOUS

\* The recursive function of the loop exists.
BinomialStep(n, f, p) == IF p = 0 THEN 1 ELSE (f[p - 1] * (n - p + 1)) \div p

LEMMA BinomialExists ==
  ASSUME NEW n \in Nat
  PROVE  \E f : f = [p \in 0 .. n |-> BinomialStep(n, f, p)]
<1> DEFINE S == {m \in Nat : \E f : f = [p \in 0 .. m |-> BinomialStep(n, f, p)]}
<1>1. 0 \in S
  <2> DEFINE f == [p \in 0 .. 0 |-> 1]
  <2>1. f = [p \in 0 .. 0 |-> BinomialStep(n, f, p)]
    BY DEF BinomialStep
  <2>. QED
    BY <2>1
<1>2. ASSUME NEW m \in Nat, m \in S PROVE m + 1 \in S
  <2>1. PICK f : f = [p \in 0 .. m |-> BinomialStep(n, f, p)]
    BY <1>2
  <2> DEFINE g == [p \in 0 .. (m + 1) |-> IF p <= m THEN f[p] ELSE BinomialStep(n, f, p)]
  <2>2. ASSUME NEW p \in 0 .. (m + 1) PROVE g[p] = BinomialStep(n, g, p)
    <3>1. CASE p = 0
      BY <2>1, <3>1 DEF BinomialStep
    <3>2. CASE p # 0
      <4>1. g[p - 1] = f[p - 1]
        BY <3>2
      <4>2. g[p] = BinomialStep(n, f, p)
        BY <2>1, <3>2
      <4>. QED
        BY <3>2, <4>1, <4>2 DEF BinomialStep
    <3>. QED
      BY <3>1, <3>2
  <2>3. g = [p \in 0 .. (m + 1) |-> BinomialStep(n, g, p)]
    BY <2>2
  <2> HIDE DEF g
  <2>. QED
    BY <2>3
<1> HIDE DEF S
<1>3. n \in S
  BY <1>1, <1>2, Induction
<1>. QED
  BY <1>3 DEF S

LEMMA BinomialIs ==
  ASSUME NEW n \in Nat
  PROVE  /\ DOMAIN Binomial(n) = 0 .. n
         /\ Binomial(n)[0] = 1
         /\ \A p \in 1 .. n : Binomial(n)[p] = (Binomial(n)[p - 1] * (n - p + 1)) \div p
<1> DEFINE b == Binomial(n)
<1>1. b = CHOOSE f : f = [p \in 0 .. n |-> BinomialStep(n, f, p)]
  BY Zenon DEF Binomial, BinomialStep
<1>2. b = [p \in 0 .. n |-> BinomialStep(n, b, p)]
  BY <1>1, BinomialExists, Zenon
<1> HIDE DEF b
<1>3. /\ DOMAIN b = 0 .. n /\ b[0] = 1
      /\ \A p \in 1 .. n : b[p] = (b[p - 1] * (n - p + 1)) \div p
  BY <1>2 DEF BinomialStep
<1>. QED
  BY <1>3 DEF b

\* How many sets of q of m items there are: none of more items than that.
Ways(m, q) == IF q \in 0 .. m THEN Binomial(m)[q] ELSE 0

WaysOf(m) ==
  /\ \A q \in Nat : Ways(m, q) \in Nat
  /\ Ways(m, 0) = 1
  /\ \A q \in Nat \ {0} : Ways(m, q) * q = Ways(m, q - 1) * (m - q + 1)

\* From m items to m + 1: with the new item or without it.
LEMMA WaysNext ==
  ASSUME NEW m \in Nat, WaysOf(m)
  PROVE  /\ WaysOf(m + 1)
         /\ \A q \in Nat : Ways(m + 1, q + 1) = Ways(m, q + 1) + Ways(m, q)
<1> DEFINE c(q) == IF q = 0 THEN 1 ELSE Ways(m, q) + Ways(m, q - 1)
           b == Binomial(m + 1)
<1>1. \A q \in Nat : c(q) \in Nat
  BY DEF WaysOf
<1>2. ASSUME NEW q \in Nat \ {0} PROVE c(q) * q = c(q - 1) * (m + 1 - q + 1)
  <2> DEFINE x == Ways(m, q)
             y == Ways(m, q - 1)
             z == Ways(m, q - 2)
  <2>1. x \in Nat /\ y \in Nat /\ x * q = y * (m - q + 1)
    BY DEF WaysOf
  <2>2. CASE q = 1
    <3>1. y = 1
      BY <2>2 DEF WaysOf
    <3>. QED
      BY <2>1, <2>2, <3>1
  <2>3. CASE q # 1
    <3>1. q - 1 \in Nat \ {0} /\ q - 1 - 1 = q - 2 /\ q - 2 \in Nat
      BY <2>3
    <3>2. z \in Nat /\ y * (q - 1) = z * (m - (q - 1) + 1)
      BY <3>1 DEF WaysOf
    <3>3. c(q) = x + y /\ c(q - 1) = y + z
      BY <3>1
    <3> HIDE DEF x, y, z
    <3>4. m - (q - 1) + 1 = m + 1 - q + 1 /\ y * (q - 1) = y * q - y
          /\ y * (m - q + 1) = y * (m + 1 - q + 1) - y
      BY <2>1
    <3>5. (x + y) * q = x * q + y * q
          /\ (y + z) * (m + 1 - q + 1) = y * (m + 1 - q + 1) + z * (m + 1 - q + 1)
      BY <2>1, <3>2
    <3>6. (x + y) * q = (y + z) * (m + 1 - q + 1)
      BY <2>1, <3>2, <3>4, <3>5
    <3>. QED
      BY <3>3, <3>6
  <2>. QED
    BY <2>2, <2>3
<1>3. /\ DOMAIN b = 0 .. (m + 1) /\ b[0] = 1
      /\ \A p \in 1 .. (m + 1) : b[p] = (b[p - 1] * (m + 1 - p + 1)) \div p
  BY BinomialIs
<1> HIDE DEF c
<1>4. \A q \in Nat : q <= m + 1 => b[q] = c(q)
  <2> DEFINE S == {q \in Nat : q <= m + 1 => b[q] = c(q)}
  <2>1. 0 \in S
    BY <1>3 DEF c
  <2>2. ASSUME NEW q \in Nat, q \in S PROVE q + 1 \in S
    <3> SUFFICES ASSUME q + 1 <= m + 1 PROVE b[q + 1] = c(q + 1)
      OBVIOUS
    <3>1. b[q] = c(q)
      BY <2>2
    <3>2. q + 1 \in 1 .. (m + 1) /\ (q + 1) - 1 = q /\ q + 1 \in Nat \ {0}
      OBVIOUS
    <3>3. b[q + 1] = (c(q) * (m + 1 - (q + 1) + 1)) \div (q + 1)
      BY <1>3, <3>1, <3>2
    <3>4. b[q + 1] = (c(q + 1) * (q + 1)) \div (q + 1)
      BY <1>2, <3>2, <3>3
    <3>. QED
      BY <1>1, <3>2, <3>4, Exact
  <2> HIDE DEF S
  <2>3. \A q \in Nat : q \in S
    BY <2>1, <2>2, Induction
  <2>. QED
    BY <2>3 DEF S
<1>5. \A q \in Nat : Ways(m + 1, q) = c(q)
  <2>1. ASSUME NEW q \in Nat, q > m + 1 PROVE Ways(m + 1, q) = c(q)
    BY <2>1 DEF Ways, c
  <2>2. ASSUME NEW q \in Nat, q <= m + 1 PROVE Ways(m + 1, q) = c(q)
    BY <1>4, <2>2 DEF Ways
  <2>. QED
    BY <2>1, <2>2
<1>6. WaysOf(m + 1)
  <2>1. Ways(m + 1, 0) = 1
    BY <1>5 DEF c
  <2>2. \A q \in Nat \ {0} : q \in Nat /\ q - 1 \in Nat
    OBVIOUS
  <2>. QED
    BY <1>1, <1>2, <1>5, <2>1, <2>2 DEF WaysOf
<1>7. ASSUME NEW q \in Nat PROVE Ways(m + 1, q + 1) = Ways(m, q + 1) + Ways(m, q)
  BY <1>5 DEF c
<1>. QED
  BY <1>6, <1>7

LEMMA WaysZero == WaysOf(0)
<1>1. Ways(0, 0) = 1
  BY BinomialIs DEF Ways
<1>2. \A q \in Nat \ {0} : Ways(0, q) = 0
  BY DEF Ways
<1>3. \A q \in Nat : Ways(0, q) \in Nat
  <2>1. \A q \in Nat : q = 0 \/ q \in Nat \ {0}
    OBVIOUS
  <2>. QED
    BY <1>1, <1>2, <2>1
<1>4. ASSUME NEW q \in Nat \ {0} PROVE Ways(0, q) * q = Ways(0, q - 1) * (0 - q + 1)
  <2>1. CASE q = 1
    BY <1>1, <1>2, <2>1
  <2>2. CASE q # 1
    <3>1. q - 1 \in Nat \ {0}
      BY <2>2
    <3>2. Ways(0, q) = 0 /\ Ways(0, q - 1) = 0
      BY <1>2, <3>1
    <3>. QED
      BY <3>2
  <2>. QED
    BY <2>1, <2>2
<1>. QED
  BY <1>1, <1>3, <1>4 DEF WaysOf

\* The recurrence of the code, without remainders, and Pascal's rule.
LEMMA WaysAre ==
  /\ \A m \in Nat : WaysOf(m)
  /\ \A m, q \in Nat : Ways(m + 1, q + 1) = Ways(m, q + 1) + Ways(m, q)
<1> DEFINE S == {m \in Nat : WaysOf(m)}
<1>1. 0 \in S
  BY WaysZero
<1>2. \A m \in Nat : m \in S => m + 1 \in S
  BY WaysNext
<1> HIDE DEF S
<1>3. \A m \in Nat : m \in S
  BY <1>1, <1>2, Induction
<1>4. \A m \in Nat : WaysOf(m)
  BY <1>3 DEF S
<1>. QED
  BY <1>4, WaysNext

-----------------------------------------------------------------------------
(***************************************************************************)
(* How many combinations of a size come after one.                         *)
(***************************************************************************)

\* A step of the sums.
SumStep(w, f, j) == IF j = 0 THEN 0 ELSE f[j - 1] + w[j]

LEMMA SumIs ==
  ASSUME NEW k \in Nat, NEW w \in [1 .. k -> Int]
  PROVE  /\ SumTo(w)[0] = 0
         /\ \A j \in 1 .. k : SumTo(w)[j] = SumTo(w)[j - 1] + w[j]
         /\ \A j \in 0 .. k : SumTo(w)[j] \in Int
<1> DEFINE S == {m \in Nat : \E f : f = [j \in 0 .. m |-> SumStep(w, f, j)]}
<1>1. 0 \in S
  <2> DEFINE f == [j \in 0 .. 0 |-> 0]
  <2>1. f = [j \in 0 .. 0 |-> SumStep(w, f, j)]
    BY DEF SumStep
  <2>. QED
    BY <2>1
<1>2. ASSUME NEW m \in Nat, m \in S PROVE m + 1 \in S
  <2>1. PICK f : f = [j \in 0 .. m |-> SumStep(w, f, j)]
    BY <1>2
  <2> DEFINE g == [j \in 0 .. (m + 1) |-> IF j <= m THEN f[j] ELSE SumStep(w, f, j)]
  <2>2. ASSUME NEW j \in 0 .. (m + 1) PROVE g[j] = SumStep(w, g, j)
    <3>1. CASE j = 0
      BY <2>1, <3>1 DEF SumStep
    <3>2. CASE j # 0
      <4>1. g[j - 1] = f[j - 1]
        BY <3>2
      <4>2. g[j] = SumStep(w, f, j)
        BY <2>1, <3>2
      <4>. QED
        BY <3>2, <4>1, <4>2 DEF SumStep
    <3>. QED
      BY <3>1, <3>2
  <2>3. g = [j \in 0 .. (m + 1) |-> SumStep(w, g, j)]
    BY <2>2
  <2> HIDE DEF g
  <2>. QED
    BY <2>3
<1> HIDE DEF S
<1>3. k \in S
  BY <1>1, <1>2, Induction
<1>4. \E f : f = [j \in 0 .. k |-> SumStep(w, f, j)]
  BY <1>3 DEF S
<1> DEFINE r == SumTo(w)
<1>5. Len(w) = k
  OBVIOUS
<1>6. r = CHOOSE f : f = [j \in 0 .. k |-> SumStep(w, f, j)]
  BY <1>5, Zenon DEF SumTo, SumStep
<1>7. r = [j \in 0 .. k |-> SumStep(w, r, j)]
  BY <1>4, <1>6, Zenon
<1> HIDE DEF r
<1>8. r[0] = 0 /\ \A j \in 1 .. k : r[j] = r[j - 1] + w[j]
  BY <1>7 DEF SumStep
<1> DEFINE T == {j \in Nat : j <= k => r[j] \in Int}
<1>9. 0 \in T
  BY <1>8
<1>10. ASSUME NEW j \in Nat, j \in T PROVE j + 1 \in T
  <2> SUFFICES ASSUME j + 1 <= k PROVE r[j + 1] \in Int
    OBVIOUS
  <2>1. j + 1 \in 1 .. k /\ (j + 1) - 1 = j /\ w[j + 1] \in Int /\ r[j] \in Int
    BY <1>10
  <2>. QED
    BY <1>8, <2>1
<1> HIDE DEF T
<1>11. \A j \in Nat : j \in T
  BY <1>9, <1>10, Induction
<1>12. \A j \in 0 .. k : r[j] \in Int
  BY <1>11 DEF T
<1>. QED
  BY <1>8, <1>12 DEF r

\* Nothing adds up to nothing.
LEMMA SumOfZeros ==
  ASSUME NEW k \in Nat, NEW w \in [1 .. k -> Int], NEW a \in 0 .. k, \A j \in 1 .. a : w[j] = 0
  PROVE  SumTo(w)[a] = 0
<1> DEFINE S == {j \in Nat : j <= a => SumTo(w)[j] = 0}
<1>a. a \in Nat
  OBVIOUS
<1>b. /\ SumTo(w)[0] = 0
      /\ \A j \in 1 .. k : SumTo(w)[j] = SumTo(w)[j - 1] + w[j]
  BY SumIs, Zenon
<1>0. /\ SumTo(w)[0] = 0 /\ a \in Nat
      /\ \A j \in 1 .. k : SumTo(w)[j] = SumTo(w)[j - 1] + w[j]
  BY <1>a, <1>b
<1>1. 0 \in S
  BY <1>0
<1>2. ASSUME NEW j \in Nat, j \in S PROVE j + 1 \in S
  <2> SUFFICES ASSUME j + 1 <= a PROVE SumTo(w)[j + 1] = 0
    OBVIOUS
  <2>1. j + 1 \in 1 .. a /\ j + 1 \in 1 .. k /\ (j + 1) - 1 = j /\ SumTo(w)[j] = 0
    BY <1>2
  <2>. QED
    BY <1>0, <2>1
<1> HIDE DEF S
<1>3. \A j \in Nat : j \in S
  BY <1>1, <1>2, Induction
<1>. QED
  BY <1>0, <1>3 DEF S

\* Sums of what differs only up to a differ as they do at a.
LEMMA SumsDiffer ==
  ASSUME NEW k \in Nat, NEW w \in [1 .. k -> Int], NEW v \in [1 .. k -> Int], NEW a \in 0 .. k,
         \A j \in 1 .. k : j > a => w[j] = v[j]
  PROVE  SumTo(w)[k] - SumTo(v)[k] = SumTo(w)[a] - SumTo(v)[a]
<1> DEFINE S == {j \in Nat : a <= j /\ j <= k =>
                    SumTo(w)[j] - SumTo(v)[j] = SumTo(w)[a] - SumTo(v)[a]}
<1>1. 0 \in S
  OBVIOUS
<1>2. ASSUME NEW j \in Nat, j \in S PROVE j + 1 \in S
  <2> SUFFICES ASSUME a <= j + 1, j + 1 <= k
               PROVE  SumTo(w)[j + 1] - SumTo(v)[j + 1] = SumTo(w)[a] - SumTo(v)[a]
    OBVIOUS
  <2>1. CASE a = j + 1
    BY <2>1
  <2>2. CASE a <= j
    <3>1. /\ j + 1 \in 1 .. k /\ (j + 1) - 1 = j /\ j \in 0 .. k
          /\ w[j + 1] = v[j + 1] /\ w[j + 1] \in Int
          /\ SumTo(w)[j] - SumTo(v)[j] = SumTo(w)[a] - SumTo(v)[a]
      BY <1>2, <2>2
    <3>2. /\ SumTo(w)[j + 1] = SumTo(w)[j] + w[j + 1]
          /\ SumTo(v)[j + 1] = SumTo(v)[j] + v[j + 1]
          /\ SumTo(w)[j] \in Int /\ SumTo(v)[j] \in Int
      BY <3>1, SumIs
    <3>. QED
      BY <3>1, <3>2
  <2>. QED
    BY <2>1, <2>2
<1> HIDE DEF S
<1>3. k \in S
  BY <1>1, <1>2, Induction
<1>. QED
  BY <1>3 DEF S

\* What lined up positions leave: the sets of a of y + a items but one.
LEMMA SumOfLine ==
  ASSUME NEW k \in Nat, NEW w \in [1 .. k -> Int], NEW a \in 0 .. k, NEW y \in Nat,
         \A j \in 1 .. a : w[j] = Ways(y + j - 1, j)
  PROVE  SumTo(w)[a] = Ways(y + a, a) - 1
<1> DEFINE S == {j \in Nat : j <= a => SumTo(w)[j] = Ways(y + j, j) - 1}
<1>0. /\ SumTo(w)[0] = 0
      /\ \A j \in 1 .. k : SumTo(w)[j] = SumTo(w)[j - 1] + w[j]
  BY SumIs, Zenon
<1>1. 0 \in S
  <2>1. Ways(y, 0) = 1 /\ y + 0 = y
    BY WaysAre DEF WaysOf
  <2>. QED
    BY <1>0, <2>1
<1>2. ASSUME NEW j \in Nat, j \in S PROVE j + 1 \in S
  <2> SUFFICES ASSUME j + 1 <= a PROVE SumTo(w)[j + 1] = Ways(y + (j + 1), j + 1) - 1
    OBVIOUS
  <2>1. /\ j + 1 \in 1 .. a /\ j + 1 \in 1 .. k /\ (j + 1) - 1 = j /\ y + (j + 1) - 1 = y + j
        /\ y + (j + 1) = (y + j) + 1 /\ y + j \in Nat
        /\ SumTo(w)[j] = Ways(y + j, j) - 1
    BY <1>2
  <2>2. SumTo(w)[j + 1] = SumTo(w)[j] + w[j + 1] /\ w[j + 1] = Ways(y + j, j + 1)
    BY <1>0, <2>1
  <2>3. Ways((y + j) + 1, j + 1) = Ways(y + j, j + 1) + Ways(y + j, j)
    BY <2>1, WaysAre
  <2>4. Ways(y + j, j) \in Nat /\ Ways(y + j, j + 1) \in Nat
    BY <2>1, WaysAre DEF WaysOf
  <2>. QED
    BY <2>1, <2>2, <2>3, <2>4
<1> HIDE DEF S
<1>3. \A j \in Nat : j \in S
  BY <1>1, <1>2, Induction
<1>. QED
  BY <1>3 DEF S

\* How many combinations come after s, in the order of the items: by position
\* from the right, those that go on from there with a later item.
After(s) == [j \in 1 .. Len(s) |-> Ways(conf.n - s[Len(s) - j + 1], j)]
ToGo(s) == SumTo(After(s))[Len(s)]

Combination(k) == {s \in [1 .. k -> 1 .. conf.n] : Ascending(s)}

LEMMA AfterIs ==
  ASSUME conf.n \in Nat, NEW k \in Nat, NEW s \in [1 .. k -> 1 .. conf.n]
  PROVE  /\ After(s) \in [1 .. k -> Int] /\ ToGo(s) = SumTo(After(s))[k]
         /\ \A j \in 1 .. k : After(s)[j] = Ways(conf.n - s[k - j + 1], j)
<1>1. Len(s) = k
  OBVIOUS
<1>2. ASSUME NEW j \in 1 .. k PROVE Ways(conf.n - s[k - j + 1], j) \in Int
  <2>1. k - j + 1 \in 1 .. k /\ j \in Nat
    OBVIOUS
  <2>2. conf.n - s[k - j + 1] \in Nat
    BY <2>1
  <2>. QED
    BY <2>1, <2>2, WaysAre DEF WaysOf
<1>. QED
  BY <1>1, <1>2 DEF After, ToGo

\* Before the first combination of a size lie all but it.
LEMMA LeadingToGo ==
  ASSUME conf.n \in Nat, NEW k \in 1 .. conf.n
  PROVE  Leading(k) \in Combination(k) /\ ToGo(Leading(k)) = Ways(conf.n, k) - 1
<1>1. Leading(k) = [i \in 1 .. k |-> i] /\ k \in Nat /\ k \in 0 .. k
  BY DEF Leading
<1>2. Leading(k) \in [1 .. k -> 1 .. conf.n]
  BY <1>1
<1>3. Leading(k) \in Combination(k)
  BY <1>1, <1>2, LeadingAscends DEF Combination
<1> DEFINE w == After(Leading(k))
           y == conf.n - k
<1>4. /\ w \in [1 .. k -> Int] /\ ToGo(Leading(k)) = SumTo(w)[k]
      /\ \A j \in 1 .. k : w[j] = Ways(conf.n - Leading(k)[k - j + 1], j)
  BY <1>1, <1>2, AfterIs
<1>5. ASSUME NEW j \in 1 .. k PROVE w[j] = Ways(y + j - 1, j)
  <2>1. k - j + 1 \in 1 .. k /\ conf.n - (k - j + 1) = y + j - 1
    OBVIOUS
  <2>. QED
    BY <1>1, <1>4, <2>1
<1>6. y \in Nat /\ y + k = conf.n
  OBVIOUS
<1> HIDE DEF w, y
<1>7. SumTo(w)[k] = Ways(y + k, k) - 1
  <2>1. k \in Nat /\ k \in 0 .. k
    BY <1>1
  <2>2. w \in [1 .. k -> Int] /\ y \in Nat
    BY <1>4, <1>6
  <2>3. \A j \in 1 .. k : w[j] = Ways(y + j - 1, j)
    BY <1>5
  <2>. QED
    BY <2>1, <2>2, <2>3, SumOfLine, Zenon
<1>. QED
  BY <1>3, <1>4, <1>6, <1>7

\* A position is at most at its last place.
LEMMA LastPlaces ==
  ASSUME conf.n \in Nat, NEW k \in Nat, NEW s \in Combination(k), NEW i \in 1 .. k
  PROVE  s[i] <= conf.n - k + i
<1>1. s \in [1 .. k -> 1 .. conf.n] /\ s[k] - s[i] >= k - i
  BY DEF Combination, Ascending
<1>2. s[k] \in 1 .. conf.n /\ s[i] \in 1 .. conf.n
  BY <1>1
<1>. QED
  BY <1>1, <1>2

\* While combinations are left the generator can move, and the shift leaves one
\* less: it ends at a combination of the items.
LEMMA ShiftedToGo ==
  ASSUME conf.n \in Nat, NEW k \in Nat \ {0}, NEW s \in Combination(k), ToGo(s) # 0
  PROVE  Shifted(s) \in Combination(k) /\ ToGo(Shifted(s)) = ToGo(s) - 1
<1> DEFINE g == Generator(s)
           u == Shifted(s)
           w == After(s)
           v == After(u)
           a == k - g + 1
<1>0. s \in [1 .. k -> 1 .. conf.n] /\ s \in [1 .. k -> Int] /\ Ascending(s) /\ Len(s) = k
  BY DEF Combination
<1>1. g \in 1 .. k /\ \A i \in 1 .. k : i > g => s[i] >= conf.n - k + i
  BY <1>0, GeneratorIsRightmost
<1>2. u = [i \in 1 .. k |-> IF i < g THEN s[i] ELSE s[g] + (i - g) + 1]
  BY <1>0 DEF Shifted
<1>3. /\ w \in [1 .. k -> Int] /\ ToGo(s) = SumTo(w)[k]
      /\ \A j \in 1 .. k : w[j] = Ways(conf.n - s[k - j + 1], j)
  BY <1>0, AfterIs
\* At a last place nothing is left.
<1>4. ASSUME NEW j \in 1 .. k, s[k - j + 1] >= conf.n - k + (k - j + 1) PROVE w[j] = 0
  <2>1. k - j + 1 \in 1 .. k /\ s[k - j + 1] \in 1 .. conf.n
    BY <1>0
  <2>2. s[k - j + 1] <= conf.n - k + (k - j + 1)
    BY <2>1, LastPlaces
  <2>3. conf.n - s[k - j + 1] = j - 1
    BY <1>4, <2>1, <2>2
  <2>. QED
    BY <1>3, <2>3 DEF Ways
<1>5. s[g] < conf.n - k + g
  <2> SUFFICES ASSUME s[g] >= conf.n - k + g PROVE FALSE
    BY <1>0, <1>1
  <2>1. Movable(s) = {}
    <3>1. Movable(s) # {} => g \in Movable(s)
      <4> SUFFICES ASSUME Movable(s) # {} PROVE g \in Movable(s)
        OBVIOUS
      <4>1. Movable(s) \in SUBSET (1 .. k)
        BY <1>0 DEF Movable
      <4>2. \E x \in Movable(s) : \A y \in Movable(s) : x >= y
        BY <4>1, LargestPosition
      <4>. QED
        BY <4>2, Zenon DEF Generator, Max
    <3>. QED
      BY <1>0, <1>1, <3>1 DEF Movable
  <2>2. \A i \in 1 .. k : s[i] >= conf.n - k + i
    BY <1>0, <2>1 DEF Movable
  <2>3. \A j \in 1 .. k : k - j + 1 \in 1 .. k
    OBVIOUS
  <2>4. \A j \in 1 .. k : w[j] = 0
    BY <1>4, <2>2, <2>3
  <2> HIDE DEF w
  <2>5. SumTo(w)[k] = 0
    BY <1>3, <2>4, SumOfZeros
  <2>. QED
    BY <1>3, <2>5
<1> HIDE DEF g, u, w, v
<1>6. u \in [1 .. k -> 1 .. conf.n]
  <2> SUFFICES ASSUME NEW i \in 1 .. k PROVE u[i] \in 1 .. conf.n
    BY <1>2
  <2>1. s[g] \in 1 .. conf.n /\ s[i] \in 1 .. conf.n
    BY <1>0, <1>1
  <2>. QED
    BY <1>1, <1>2, <1>5, <2>1
<1>7. u \in Combination(k)
  BY <1>0, <1>6, ShiftedIsSuccessor DEF Combination, u
<1>8. /\ v \in [1 .. k -> Int] /\ ToGo(u) = SumTo(v)[k]
      /\ \A j \in 1 .. k : v[j] = Ways(conf.n - u[k - j + 1], j)
  BY <1>6, AfterIs DEF v
<1>9. a \in 1 .. k /\ k - a + 1 = g /\ a - 1 \in 0 .. k
  BY <1>1
<1>10. ASSUME NEW j \in 1 .. k, j > a PROVE w[j] = v[j]
  <2>1. k - j + 1 \in 1 .. k /\ k - j + 1 < g
    BY <1>1, <1>10
  <2>. QED
    BY <1>2, <1>3, <1>8, <2>1
<1>11. SumTo(w)[k] - SumTo(v)[k] = SumTo(w)[a] - SumTo(v)[a]
  <2>1. a \in 0 .. k
    BY <1>9
  <2> HIDE DEF a
  <2>. QED
    BY <1>3, <1>8, <1>10, <2>1, SumsDiffer, Zenon
<1>12. SumTo(w)[a] = Ways(conf.n - s[g], a)
  <2>1. ASSUME NEW j \in 1 .. (a - 1) PROVE w[j] = 0
    <3>1. j \in 1 .. k /\ k - j + 1 \in 1 .. k /\ k - j + 1 > g
      BY <1>1
    <3>. QED
      BY <1>1, <1>4, <3>1
  <2>2. SumTo(w)[a - 1] = 0
    BY <1>3, <1>9, <2>1, SumOfZeros
  <2>3. SumTo(w)[a] = SumTo(w)[a - 1] + w[a] /\ w[a] \in Int
    BY <1>3, <1>9, SumIs
  <2>. QED
    BY <1>3, <1>9, <2>2, <2>3
<1>13. SumTo(v)[a] = Ways(conf.n - s[g], a) - 1
  <2> DEFINE y == conf.n - s[g] - a
  <2>0. s[g] \in 1 .. conf.n
    BY <1>0, <1>1
  <2>1. y \in Nat /\ y + a = conf.n - s[g]
    BY <1>1, <1>5, <2>0
  <2>2. ASSUME NEW j \in 1 .. a PROVE v[j] = Ways(y + j - 1, j)
    <3>1. j \in 1 .. k /\ k - j + 1 \in 1 .. k /\ k - j + 1 >= g
      BY <1>1
    <3>2. s[g] \in 1 .. conf.n
      BY <1>0, <1>1
    <3>3. conf.n - u[k - j + 1] = y + j - 1
      BY <1>1, <1>2, <3>1, <3>2
    <3>. QED
      BY <1>8, <3>1, <3>3
  <2> HIDE DEF y, a
  <2>3. a \in 0 .. k
    BY <1>9
  <2>4. SumTo(v)[a] = Ways(y + a, a) - 1
    BY <1>8, <2>1, <2>2, <2>3, SumOfLine
  <2>. QED
    BY <2>1, <2>4
<1>14. ToGo(u) = ToGo(s) - 1
  <2>1. a \in 0 .. k /\ k \in 0 .. k
    BY <1>9
  <2>2. /\ \A j \in 0 .. k : SumTo(w)[j] \in Int
        /\ \A j \in 0 .. k : SumTo(v)[j] \in Int
    BY <1>3, <1>8, SumIs
  <2> HIDE DEF a
  <2> DEFINE x == SumTo(w)[k]
             y == SumTo(v)[k]
             p == SumTo(w)[a]
             q == SumTo(v)[a]
  <2>3. x \in Int /\ y \in Int /\ p \in Int /\ q \in Int
    BY <2>1, <2>2
  <2>4. x - y = p - q /\ q = p - 1 /\ ToGo(s) = x /\ ToGo(u) = y
    BY <1>3, <1>8, <1>11, <1>12, <1>13
  <2> HIDE DEF x, y, p, q
  <2>. QED
    BY <2>3, <2>4
<1>. QED
  BY <1>7, <1>14 DEF u

-----------------------------------------------------------------------------
(***************************************************************************)
(* The recurrence yields the number of combinations of each size, so that  *)
(* the loop over a size ends with its last one.                            *)
(***************************************************************************)

\* Where the loop over the sizes stands, with z one size behind going up.
AtSize ==
    IF Increasing(conf)
    THEN curset \in 1 .. (conf.n + 1) /\ ncombos = Ways(conf.n, curset - 1)
    ELSE curset \in 0 .. conf.n /\ ncombos = Ways(conf.n, curset)

\* The inductive invariant: the combinations made of a size and those to go add
\* up to their number.
ExactInv ==
    /\ curset \in 0 .. (conf.n + 1) /\ ncombos \in Nat /\ combo \in Nat
    /\ \E k \in 0 .. conf.n : setnums \in Combination(k)
    /\ pc = "emptyFirst" /\ conf.n >= 1 => AtSize
    /\ pc = "set" => AtSize
    /\ pc \in {"first", "shift"} => curset \in 1 .. conf.n /\ ncombos = Ways(conf.n, curset)
    /\ pc = "shift" => /\ setnums \in Combination(curset)
                       /\ ToGo(setnums) = ncombos - combo

SeekInv ==
    /\ doseek \in BOOLEAN /\ seek \in Nat /\ left \in Nat /\ seq \in Nat
    /\ ret \in {0} \cup Nonzero
    /\ doseek => seek >= 1
    /\ doseek /\ pc \in {"emptyFirst", "first", "shift"} => seek >= 2

LEMMA SizesWithin ==
  ASSUME NEW c, ConfigOK(c)
  PROVE  SetInit(c) <= c.n /\ SetDone(c) <= c.n
<1>1. c.n \in Nat /\ c.min \in Nat /\ c.max \in Nat
  BY DEF ConfigOK
<1>2. Requested(c).init \in Nat /\ Requested(c).done \in Nat
  BY <1>1 DEF Requested
<1>. QED
  BY <1>1, <1>2 DEF SetInit, SetDone, Clamp

LEMMA NoItems ==
  ASSUME conf.n \in Nat
  PROVE  \E k \in 0 .. conf.n : << >> \in Combination(k)
<1>1. << >> \in [1 .. 0 -> 1 .. conf.n] /\ 0 \in 0 .. conf.n
  OBVIOUS
<1>2. << >> \in Combination(0)
  BY <1>1 DEF Combination, Ascending
<1>. QED
  BY <1>1, <1>2

\* z at the head of the loop.
LEMMA HeadIsExact ==
  ASSUME conf.n \in Nat, AtSize, InSets(conf, curset), SetDone(conf) \in 1 .. conf.n
  PROVE  curset \in 1 .. conf.n /\ AtHead = Ways(conf.n, curset)
<1>1. CASE Increasing(conf)
  <2>1. curset \in 1 .. conf.n /\ ncombos = Ways(conf.n, curset - 1)
    BY <1>1 DEF AtSize, InSets
  <2> DEFINE a == Ways(conf.n, curset)
             b == Ways(conf.n, curset - 1)
  <2>2. curset \in Nat \ {0} /\ conf.n - curset + 1 \in Nat
    BY <2>1
  <2>3. a * curset = b * (conf.n - curset + 1) /\ a \in Nat
    BY <2>2, WaysAre DEF WaysOf
  <2> HIDE DEF a
  <2>4. AtHead = (a * curset) \div curset
    BY <1>1, <2>1, <2>3 DEF AtHead
  <2>5. AtHead = a
    BY <2>2, <2>3, <2>4, Exact
  <2>. QED
    BY <2>1, <2>5 DEF a
<1>2. CASE ~ Increasing(conf)
  BY <1>2 DEF AtSize, InSets, AtHead
<1>. QED
  BY <1>1, <1>2

\* From one size to the next.
LEMMA NextIsExact ==
  ASSUME conf.n \in Nat, curset \in 1 .. conf.n, conf' = conf, NEW z, z = Ways(conf.n, curset),
         NextSet(z)
  PROVE  AtSize' /\ curset' \in 0 .. (conf.n + 1) /\ ncombos' \in Nat
<1>0. Increasing(conf)' = Increasing(conf)
  BY DEF Increasing, SetInit, SetDone, Clamp, Requested
<1>z. z \in Nat
  <2>1. curset \in Nat /\ WaysOf(conf.n)
    BY WaysAre
  <2>. QED
    BY <2>1 DEF WaysOf
<1>1. CASE Increasing(conf)
  <2>1. curset' = curset + 1 /\ ncombos' = z /\ curset' - 1 = curset
    BY <1>1 DEF NextSet
  <2>. QED
    BY <1>0, <1>1, <1>z, <2>1 DEF AtSize, Ways
<1>2. CASE ~ Increasing(conf)
  <2> DEFINE b == Ways(conf.n, curset - 1)
  <2>1. curset \in Nat \ {0} /\ conf.n - curset + 1 \in Nat \ {0} /\ curset - 1 \in Nat
    OBVIOUS
  <2>2. z * curset = b * (conf.n - curset + 1) /\ b \in Nat
    BY <2>1, WaysAre DEF WaysOf
  <2> HIDE DEF b
  <2>3. curset' = curset - 1 /\ ncombos' = (b * (conf.n - curset + 1)) \div (conf.n - curset + 1)
    BY <1>2, <2>2 DEF NextSet
  <2>4. ncombos' = b
    BY <2>1, <2>2, <2>3, Exact
  <2>. QED
    BY <1>0, <1>2, <2>1, <2>2, <2>3, <2>4 DEF AtSize, b, Ways
<1>. QED
  BY <1>1, <1>2

LEMMA ExactInit == Called => ExactInv /\ SeekInv
<1> SUFFICES ASSUME Called PROVE ExactInv /\ SeekInv
  OBVIOUS
<1>1. conf.n \in Nat
  BY DEF Called, ConfigOK
<1>2. \E k \in 0 .. conf.n : setnums \in Combination(k)
  BY <1>1, NoItems DEF Called, Calling
<1>3. /\ pc = "call" /\ curset = 0 /\ ncombos = 1 /\ combo = 0
      /\ doseek = FALSE /\ seek = 0 /\ left = 0 /\ seq = 1 /\ ret = 0
  BY DEF Called, Calling
<1>4. ExactInv
  BY <1>1, <1>2, <1>3 DEF ExactInv
<1>5. SeekInv
  BY <1>3 DEF SeekInv
<1>. QED
  BY <1>4, <1>5

\* A call of the action leaves the numbers what they are.
LEMMA CallSeeks ==
  ASSUME ShiftInv, CountInv, SeekInv, pc \in Running \ {"call"}, conf' = conf,
         NEW items, NEW next, NEW stop, Call(items, next, stop)
  PROVE  left' \in Nat /\ seq' \in Nat /\ ret' \in {0} \cup Nonzero
<1>1. conf.count \in Nat
  BY DEF ShiftInv, ConfigOK
<1>2. left' \in Nat
  BY <1>1 DEF Call, CountInv, SeekInv
<1>. QED
  BY <1>2 DEF Call, SeekInv, Answers

LEMMA ExactStep ==
  ShiftInv /\ ShiftInv' /\ ExactInv /\ [Next]_cmbVars => ExactInv'
<1> SUFFICES ASSUME ShiftInv, ShiftInv', ExactInv, [Next]_cmbVars PROVE ExactInv'
  OBVIOUS
<1>0. /\ conf.n \in Nat /\ SetInit(conf) \in 0 .. conf.n /\ SetDone(conf) \in 0 .. conf.n
      /\ conf.n >= 1 => SetInit(conf) \in 1 .. conf.n /\ SetDone(conf) \in 1 .. conf.n
  BY RangeOfSizes, SizesWithin DEF ShiftInv
<1>c. conf' = conf
  BY DEF Next, Refuse, Prepare, EmptyFirst, EmptyPassed, NoEmptyFirst, PassSet, EnterSet, SetsEnd,
     ShowFirst, Shift, SetEnd, EmptyLast, NoEmptyLast, cmbVars
<1>i. Increasing(conf)' = Increasing(conf) /\ \A k : Combination(k)' = Combination(k)
  BY <1>c DEF Increasing, SetInit, SetDone, Clamp, Requested, Combination
<1>a. ASSUME UNCHANGED enum, pc' \notin {"first", "shift"},
             pc' = "emptyFirst" => pc = "emptyFirst",
             pc' = "set" => pc = "set" \/ (pc = "emptyFirst" /\ conf.n >= 1)
      PROVE  ExactInv'
  BY <1>a, <1>c, <1>i DEF ExactInv, AtSize, enum
<1>1. CASE Refuse \/ EmptyLast \/ NoEmptyLast \/ SetsEnd
  BY <1>1, <1>a DEF Refuse, EmptyLast, NoEmptyLast, SetsEnd
<1>2. CASE Prepare
  <2>1. /\ pc' = "emptyFirst" /\ curset' = SetInit(conf) /\ UNCHANGED <<combo, setnums>>
        /\ ncombos' = IF conf.n = 0 THEN 1
              ELSE Binomial(conf.n)[IF Increasing(conf) THEN SetInit(conf) - 1 ELSE SetInit(conf)]
    BY <1>2 DEF Prepare
  <2>2. conf.n >= 1 => ncombos' = Ways(conf.n, IF Increasing(conf) THEN SetInit(conf) - 1
                                                                    ELSE SetInit(conf))
    BY <1>0, <2>1 DEF Ways
  <2>3. conf.n >= 1 => AtSize' /\ ncombos' \in Nat
    <3> SUFFICES ASSUME conf.n >= 1 PROVE AtSize' /\ ncombos' \in Nat
      OBVIOUS
    <3>1. CASE Increasing(conf)
      <4>1. ncombos' = Ways(conf.n, SetInit(conf) - 1) /\ SetInit(conf) - 1 \in Nat
        BY <1>0, <2>2, <3>1
      <4>2. ncombos' \in Nat
        BY <1>0, <4>1, WaysAre DEF WaysOf
      <4>. QED
        BY <1>0, <1>c, <1>i, <2>1, <3>1, <4>1, <4>2 DEF AtSize, Ways
    <3>2. CASE ~ Increasing(conf)
      <4>1. ncombos' = Ways(conf.n, SetInit(conf)) /\ SetInit(conf) \in Nat
        BY <1>0, <2>2, <3>2
      <4>2. ncombos' \in Nat
        BY <1>0, <4>1, WaysAre DEF WaysOf
      <4>. QED
        BY <1>0, <1>c, <1>i, <2>1, <3>2, <4>1, <4>2 DEF AtSize, Ways
    <3>. QED
      BY <3>1, <3>2
  <2>4. ncombos' \in Nat /\ curset' \in 0 .. (conf.n + 1)
    BY <1>0, <2>1, <2>3
  <2>. QED
    BY <1>c, <1>i, <2>1, <2>3, <2>4 DEF ExactInv
<1>3. CASE EmptyFirst \/ EmptyPassed \/ NoEmptyFirst
  <2>1. pc = "emptyFirst" /\ pc' \in {"returned", Sets} /\ UNCHANGED enum
    BY <1>3 DEF EmptyFirst, EmptyPassed, NoEmptyFirst, Call
  <2>. QED
    BY <1>0, <1>a, <2>1 DEF Sets
<1>4. CASE PassSet
  <2>1. /\ pc = "set" /\ pc' = "set" /\ InSets(conf, curset) /\ NextSet(AtHead)
        /\ UNCHANGED <<combo, setnums>> /\ AtSize /\ conf.n >= 1
    BY <1>4 DEF PassSet, ExactInv, ShiftInv
  <2>2. curset \in 1 .. conf.n /\ AtHead = Ways(conf.n, curset)
    BY <1>0, <2>1, HeadIsExact
  <2>3. AtSize' /\ curset' \in 0 .. (conf.n + 1) /\ ncombos' \in Nat
    BY <1>0, <1>c, <2>1, <2>2, NextIsExact
  <2>. QED
    BY <1>c, <1>i, <2>1, <2>3 DEF ExactInv
<1>5. CASE EnterSet
  <2>1. /\ pc = "set" /\ pc' = "first" /\ InSets(conf, curset) /\ ncombos' = AtHead
        /\ UNCHANGED <<curset, combo, setnums>> /\ AtSize /\ conf.n >= 1
    BY <1>5 DEF EnterSet, ExactInv, ShiftInv
  <2>2. curset \in 1 .. conf.n /\ AtHead = Ways(conf.n, curset)
    BY <1>0, <2>1, HeadIsExact
  <2>3. ncombos' \in Nat
    <3>1. curset \in Nat /\ WaysOf(conf.n)
      BY <1>0, <2>2, WaysAre
    <3>. QED
      BY <2>1, <2>2, <3>1 DEF WaysOf
  <2>. QED
    BY <1>c, <1>i, <2>1, <2>2, <2>3 DEF ExactInv, Ways
<1>6. CASE ShowFirst
  <2>1. /\ pc = "first" /\ pc' \in {"shift", "emptyLast"} /\ setnums' = Leading(curset)
        /\ combo' = 1 /\ UNCHANGED <<curset, ncombos>>
    BY <1>6 DEF ShowFirst, Call
  <2>2. curset \in 1 .. conf.n /\ ncombos = Ways(conf.n, curset)
    BY <2>1 DEF ExactInv
  <2>3. setnums' \in Combination(curset) /\ ToGo(Leading(curset)) = ncombos - 1
    BY <1>0, <2>1, <2>2, LeadingToGo
  <2>4. ToGo(setnums)' = ToGo(Leading(curset))
    BY <1>c, <2>1 DEF ToGo, After, SumTo, Ways, Binomial
  <2>. QED
    BY <1>c, <1>i, <2>1, <2>2, <2>3, <2>4 DEF ExactInv, Ways, Combination
<1>7. CASE Shift
  <2>1. /\ pc = "shift" /\ pc' \in {"shift", "returned"} /\ setnums' = Shifted(setnums)
        /\ combo < ncombos /\ combo' = combo + 1 /\ UNCHANGED <<curset, ncombos>>
    BY <1>7 DEF Shift, Call
  <2>2. /\ curset \in 1 .. conf.n /\ ncombos = Ways(conf.n, curset)
        /\ setnums \in Combination(curset) /\ ToGo(setnums) = ncombos - combo
        /\ combo \in Nat /\ ncombos \in Nat
    BY <2>1 DEF ExactInv
  <2>3. curset \in Nat \ {0} /\ ToGo(setnums) # 0
    BY <2>1, <2>2
  <2>4. Shifted(setnums) \in Combination(curset) /\ ToGo(Shifted(setnums)) = ToGo(setnums) - 1
    BY <1>0, <2>2, <2>3, ShiftedToGo
  <2>5. ToGo(setnums)' = ToGo(Shifted(setnums))
    BY <1>c, <2>1 DEF ToGo, After, SumTo, Ways, Binomial
  <2>6. ToGo(setnums)' = ncombos' - combo'
    BY <2>1, <2>2, <2>4, <2>5
  <2>7. curset \in 0 .. conf.n /\ curset \in 0 .. (conf.n + 1)
    BY <1>0, <2>2
  <2>. QED
    BY <1>c, <1>i, <2>1, <2>2, <2>4, <2>6, <2>7 DEF ExactInv, Ways
<1>8. CASE SetEnd
  <2>1. /\ pc = "shift" /\ pc' = "set" /\ NextSet(ncombos) /\ UNCHANGED <<combo, setnums>>
    BY <1>8 DEF SetEnd
  <2>2. curset \in 1 .. conf.n /\ ncombos = Ways(conf.n, curset)
    BY <2>1 DEF ExactInv
  <2>3. AtSize' /\ curset' \in 0 .. (conf.n + 1) /\ ncombos' \in Nat
    BY <1>0, <1>c, <2>1, <2>2, NextIsExact
  <2>. QED
    BY <1>c, <1>i, <2>1, <2>3 DEF ExactInv
<1>9. CASE UNCHANGED cmbVars
  <2>1. UNCHANGED <<conf, pc, curset, ncombos, combo, setnums>>
    BY <1>9 DEF cmbVars
  <2>2. ToGo(setnums)' = ToGo(setnums)
    BY <2>1 DEF ToGo, After, SumTo, Ways, Binomial
  <2>. QED
    BY <1>i, <2>1, <2>2 DEF ExactInv, AtSize
<1>. QED
  BY <1>1, <1>2, <1>3, <1>4, <1>5, <1>6, <1>7, <1>8, <1>9 DEF Next

LEMMA SeekStep ==
  ShiftInv /\ CountInv /\ ExactInv /\ SeekInv /\ [Next]_cmbVars => SeekInv'
<1> SUFFICES ASSUME ShiftInv, CountInv, ExactInv, SeekInv, [Next]_cmbVars PROVE SeekInv'
  OBVIOUS
<1>0. conf.n \in Nat /\ conf.count \in Nat /\ conf.start \in Nat
  BY DEF ShiftInv, ConfigOK
<1>1. CASE Refuse \/ SetsEnd \/ NoEmptyLast \/ NoEmptyFirst \/ SetEnd
  BY <1>1 DEF Refuse, SetsEnd, NoEmptyLast, NoEmptyFirst, Sets, SetEnd, seeking, calling, SeekInv
<1>2. CASE Prepare
  <2>1. /\ doseek' = (conf.start > 1) /\ seek' = IF conf.start > 1 THEN conf.start ELSE 0
        /\ seq' = (IF conf.start > 1 /\ conf.numbers THEN conf.start ELSE 1)
        /\ left' = conf.count /\ ret' = ret
    BY <1>2 DEF Prepare
  <2>2. CASE conf.start > 1
    <3>1. doseek' = TRUE /\ seek' = conf.start
      BY <2>1, <2>2
    <3>. QED
      BY <1>0, <2>1, <2>2, <3>1 DEF SeekInv
  <2>3. CASE ~ (conf.start > 1)
    <3>0. (conf.start > 1) = FALSE
      BY <2>3
    <3>1. doseek' = FALSE /\ seek' = 0
      BY <2>1, <3>0
    <3>. QED
      BY <1>0, <2>1, <2>3, <3>1 DEF SeekInv
  <2>. QED
    BY <2>2, <2>3
<1>3. CASE EmptyFirst
  <2>1. pc \in Running \ {"call"} /\ conf' = conf /\ Call(<< >>, Sets, "returned")
        /\ UNCHANGED <<doseek, seek>> /\ ~ doseek
    BY <1>3 DEF EmptyFirst, Running, seeking
  <2>2. left' \in Nat /\ seq' \in Nat /\ ret' \in {0} \cup Nonzero
    BY <2>1, CallSeeks
  <2>. QED
    BY <2>1, <2>2 DEF SeekInv
<1>4. CASE EmptyPassed
  <2>1. /\ doseek /\ seek >= 2 /\ seek \in Nat /\ seek' = seek - 1 /\ doseek' = (seek' # 1)
        /\ UNCHANGED <<left, seq, ret>> /\ pc' \in {"returned", "set"}
    BY <1>4 DEF EmptyPassed, Sets, SeekInv, calling
  <2>. QED
    BY <2>1 DEF SeekInv
<1>5. CASE PassSet
  <2>1. AtHead \in Nat
    <3>1. conf.n >= 1 /\ AtSize /\ InSets(conf, curset)
      BY <1>5 DEF PassSet, ShiftInv, ExactInv
    <3>2. SetDone(conf) \in 1 .. conf.n
      BY <1>0, <3>1, RangeOfSizes, SizesWithin DEF ShiftInv
    <3>3. curset \in 1 .. conf.n /\ AtHead = Ways(conf.n, curset)
      BY <1>0, <3>1, <3>2, HeadIsExact
    <3>4. curset \in Nat /\ WaysOf(conf.n)
      BY <1>0, <3>3, WaysAre
    <3>. QED
      BY <3>3, <3>4 DEF WaysOf
  <2>2. /\ pc' = "set" /\ seek > AtHead /\ seek' = seek - AtHead /\ seek \in Nat
        /\ UNCHANGED <<doseek, left, seq, ret>>
    BY <1>5 DEF PassSet, SeekInv, calling
  <2>. QED
    BY <2>1, <2>2 DEF SeekInv
<1>6. CASE EnterSet
  <2>1. doseek' = (doseek /\ seek # 1) /\ UNCHANGED <<seek, left, seq, ret>>
    BY <1>6 DEF EnterSet, calling
  <2>2. CASE doseek /\ seek # 1
    <3>1. doseek' = TRUE
      BY <2>1, <2>2
    <3>. QED
      BY <2>1, <2>2, <3>1 DEF SeekInv
  <2>3. CASE ~ (doseek /\ seek # 1)
    <3>1. doseek' = FALSE
      BY <2>1, <2>3
    <3>. QED
      BY <2>1, <2>3, <3>1 DEF SeekInv
  <2>. QED
    BY <2>2, <2>3
<1>7. CASE ShowFirst
  <2>1. UNCHANGED <<doseek, seek>> /\ pc = "first"
    BY <1>7 DEF ShowFirst, seeking
  <2>2. left' \in Nat /\ seq' \in Nat /\ ret' \in {0} \cup Nonzero
    <3>1. CASE doseek
      BY <1>7, <3>1 DEF ShowFirst, calling, SeekInv
    <3>2. CASE ~ doseek
      BY <1>7, <3>2, CallSeeks DEF ShowFirst, Running
    <3>. QED
      BY <3>1, <3>2
  <2>. QED
    BY <2>1, <2>2 DEF SeekInv
<1>8. CASE Shift
  <2>1. /\ pc = "shift" /\ seek' = (IF doseek THEN seek - 1 ELSE seek)
        /\ doseek' = (doseek /\ seek' # 1)
    BY <1>8 DEF Shift
  <2>2. left' \in Nat /\ seq' \in Nat /\ ret' \in {0} \cup Nonzero
    <3>1. CASE doseek'
      BY <1>8, <3>1 DEF Shift, calling, SeekInv
    <3>2. CASE ~ doseek'
      BY <1>8, <3>2, CallSeeks DEF Shift, Running
    <3>. QED
      BY <3>1, <3>2
  <2>3. CASE doseek
    <3>1. seek \in Nat /\ seek >= 2 /\ seek' = seek - 1
      BY <2>1, <2>3 DEF SeekInv
    <3>2. CASE seek' = 1
      <4>1. doseek' = FALSE
        BY <2>1, <3>2, Zenon
      <4>. QED
        BY <2>2, <3>2, <4>1 DEF SeekInv
    <3>3. CASE seek' # 1
      <4>1. doseek' = TRUE
        BY <2>1, <2>3, <3>3
      <4>2. seek' \in Nat /\ seek' >= 2
        BY <3>1, <3>3
      <4>. QED
        BY <2>2, <4>1, <4>2 DEF SeekInv
    <3>. QED
      BY <3>2, <3>3
  <2>4. CASE ~ doseek
    <3>1. seek \in Nat /\ seek' = seek /\ doseek' = FALSE
      BY <2>1, <2>4 DEF SeekInv
    <3>. QED
      BY <2>2, <3>1 DEF SeekInv
  <2>. QED
    BY <2>3, <2>4
<1>9. CASE EmptyLast
  BY <1>9 DEF EmptyLast, SeekInv, Answers, seeking
<1>10. CASE UNCHANGED cmbVars
  BY <1>10 DEF cmbVars, SeekInv
<1>. QED
  BY <1>1, <1>2, <1>3, <1>4, <1>5, <1>6, <1>7, <1>8, <1>9, <1>10 DEF Next

\* All of it: what every call of the library keeps.
CmbInv == ShiftInv /\ CountInv /\ ExactInv /\ SeekInv

LEMMA CmbInit == Called => CmbInv
BY ShiftInit, CountInit, ExactInit DEF CmbInv

LEMMA CmbStep == CmbInv /\ [Next]_cmbVars => CmbInv'
BY ShiftStep, CountStep, ExactStep, SeekStep DEF CmbInv

\* For every number of items and every configuration the positions of a
\* combination are those of items, in increasing order: the loop over a size
\* ends with its last combination, because z counts them exactly.
THEOREM ReadsItemsOnly == Spec => []TypeOK
<1>1. CmbInv => TypeOK
  <2> SUFFICES ASSUME ShiftInv, ExactInv, SeekInv PROVE TypeOK
    BY DEF CmbInv
  <2>1. ConfigOK(conf) /\ conf.n \in Nat
    BY DEF ShiftInv, ConfigOK
  <2>2. PICK k \in 0 .. conf.n : setnums \in Combination(k)
    BY DEF ExactInv
  <2>3. setnums \in [1 .. k -> 1 .. conf.n] /\ Ascending(setnums) /\ k \in Nat /\ k <= conf.n
    BY <2>1, <2>2 DEF Combination
  <2>4. DOMAIN setnums = 1 .. k /\ Len(setnums) = k
    BY <2>3
  <2>. QED
    BY <2>1, <2>3, <2>4 DEF TypeOK, ShiftInv, ExactInv, SeekInv
<1>. QED
  BY <1>1, InitCalls, CmbInit, CmbStep, PTL DEF Spec

-----------------------------------------------------------------------------
(***************************************************************************)
(* What cmb_count() counts.                                                *)
(***************************************************************************)

\* The powers of two as they are computed.
Doubles(p, n) == p[0] = 1 /\ \A i \in 1 .. n : p[i] = 2 * p[i - 1]
PowerStep(f, i) == IF i = 0 THEN 1 ELSE 2 * f[i - 1]

LEMMA PowerIs ==
  ASSUME NEW n \in Nat
  PROVE  \E p : Doubles(p, n) /\ PowerOfTwo(n) = p[n]
<1> DEFINE S == {m \in Nat : \E f : f = [i \in 0 .. m |-> PowerStep(f, i)]}
<1>1. 0 \in S
  <2> DEFINE f == [i \in 0 .. 0 |-> 1]
  <2>1. f = [i \in 0 .. 0 |-> PowerStep(f, i)]
    BY DEF PowerStep
  <2>. QED
    BY <2>1
<1>2. ASSUME NEW m \in Nat, m \in S PROVE m + 1 \in S
  <2>1. PICK f : f = [i \in 0 .. m |-> PowerStep(f, i)]
    BY <1>2
  <2> DEFINE g == [i \in 0 .. (m + 1) |-> IF i <= m THEN f[i] ELSE PowerStep(f, i)]
  <2>2. ASSUME NEW i \in 0 .. (m + 1) PROVE g[i] = PowerStep(g, i)
    <3>1. CASE i = 0
      BY <2>1, <3>1 DEF PowerStep
    <3>2. CASE i # 0
      <4>1. g[i - 1] = f[i - 1]
        BY <3>2
      <4>2. g[i] = PowerStep(f, i)
        BY <2>1, <3>2
      <4>. QED
        BY <3>2, <4>1, <4>2 DEF PowerStep
    <3>. QED
      BY <3>1, <3>2
  <2>3. g = [i \in 0 .. (m + 1) |-> PowerStep(g, i)]
    BY <2>2
  <2> HIDE DEF g
  <2>. QED
    BY <2>3
<1> HIDE DEF S
<1>3. n \in S
  BY <1>1, <1>2, Induction
<1>4. \E f : f = [i \in 0 .. n |-> PowerStep(f, i)]
  BY <1>3 DEF S
<1> DEFINE r == CHOOSE f : f = [i \in 0 .. n |-> PowerStep(f, i)]
<1>5. PowerOfTwo(n) = r[n]
  BY Zenon DEF PowerOfTwo, PowerStep
<1>6. r = [i \in 0 .. n |-> PowerStep(r, i)]
  BY <1>4, Zenon
<1> HIDE DEF r
<1>7. Doubles(r, n)
  BY <1>6 DEF PowerStep, Doubles
<1>. QED
  BY <1>5, <1>7

\* The numbers of m items, from size 1 upwards and from size m downwards; there
\* are none of more than m.
Upwards(m, k) == [i \in 1 .. k |-> Ways(m, i)]
Downwards(m, k) == [i \in 1 .. k |-> Ways(m, m + 1 - i)]

LEMMA WaysTyped ==
  ASSUME NEW m \in Nat, NEW q \in Int
  PROVE  Ways(m, q) \in Nat /\ (q > m => Ways(m, q) = 0)
<1>1. CASE q \in Nat
  BY <1>1, WaysAre DEF WaysOf, Ways
<1>2. CASE q \notin Nat
  BY <1>2 DEF Ways
<1>. QED
  BY <1>1, <1>2

LEMMA LinesTyped ==
  ASSUME NEW m \in Nat, NEW k \in Nat
  PROVE  Upwards(m, k) \in [1 .. k -> Int] /\ Downwards(m, k) \in [1 .. k -> Int]
<1>1. ASSUME NEW i \in 1 .. k PROVE Ways(m, i) \in Int /\ Ways(m, m + 1 - i) \in Int
  <2>1. i \in Int /\ m + 1 - i \in Int
    OBVIOUS
  <2>. QED
    BY <2>1, WaysTyped
<1>. QED
  BY <1>1 DEF Upwards, Downwards

\* Pascal's rule, added up from size 1.
LEMMA UpwardsNext ==
  ASSUME NEW m \in Nat, NEW k \in Nat
  PROVE  \A j \in Nat : j + 1 <= k =>
            SumTo(Upwards(m + 1, k))[j + 1] =
                SumTo(Upwards(m, k))[j + 1] + SumTo(Upwards(m, k))[j] + 1
<1> DEFINE w == Upwards(m, k)
           v == Upwards(m + 1, k)
           S == {j \in Nat : j + 1 <= k => SumTo(v)[j + 1] = SumTo(w)[j + 1] + SumTo(w)[j] + 1}
<1>a. m + 1 \in Nat
  OBVIOUS
<1>b. w \in [1 .. k -> Int] /\ v \in [1 .. k -> Int]
  BY <1>a, LinesTyped
<1>0. m + 1 \in Nat /\ w \in [1 .. k -> Int] /\ v \in [1 .. k -> Int]
  BY <1>a, <1>b
<1>1. \A i \in 1 .. k : w[i] = Ways(m, i) /\ v[i] = Ways(m + 1, i)
  BY DEF Upwards
<1> HIDE DEF w, v
<1>2. /\ SumTo(w)[0] = 0 /\ SumTo(v)[0] = 0
      /\ \A j \in 1 .. k : SumTo(w)[j] = SumTo(w)[j - 1] + w[j]
      /\ \A j \in 1 .. k : SumTo(v)[j] = SumTo(v)[j - 1] + v[j]
      /\ \A j \in 0 .. k : SumTo(w)[j] \in Int /\ SumTo(v)[j] \in Int
  BY <1>0, SumIs
<1>3. ASSUME NEW j \in Nat, j + 1 <= k
      PROVE  /\ j + 1 \in 1 .. k /\ (j + 1) - 1 = j /\ j \in 0 .. k
             /\ v[j + 1] = w[j + 1] + Ways(m, j) /\ w[j + 1] = Ways(m, j + 1)
             /\ w[j + 1] \in Int /\ Ways(m, j) \in Int
  <2>1. j + 1 \in 1 .. k /\ (j + 1) - 1 = j /\ j \in 0 .. k /\ j \in Int
    BY <1>3
  <2>2. Ways(m + 1, j + 1) = Ways(m, j + 1) + Ways(m, j)
    BY WaysAre
  <2>3. Ways(m, j) \in Int
    BY <2>1, WaysTyped
  <2>. QED
    BY <1>0, <1>1, <2>1, <2>2, <2>3
<1>4. 0 \in S
  <2> SUFFICES ASSUME 0 + 1 <= k
               PROVE  SumTo(v)[0 + 1] = SumTo(w)[0 + 1] + SumTo(w)[0] + 1
    OBVIOUS
  <2>1. Ways(m, 0) = 1
    BY WaysAre DEF WaysOf
  <2>2. /\ 1 \in 1 .. k /\ 1 - 1 = 0 /\ v[1] = w[1] + Ways(m, 0) /\ w[1] \in Int
    BY <1>3
  <2>3. SumTo(w)[1] = 0 + w[1] /\ SumTo(v)[1] = 0 + v[1]
    BY <1>2, <2>2
  <2>. QED
    BY <1>2, <2>1, <2>2, <2>3
<1>5. ASSUME NEW j \in Nat, j \in S PROVE j + 1 \in S
  <2> SUFFICES ASSUME (j + 1) + 1 <= k
               PROVE  SumTo(v)[(j + 1) + 1] = SumTo(w)[(j + 1) + 1] + SumTo(w)[j + 1] + 1
    OBVIOUS
  <2>1. SumTo(v)[j + 1] = SumTo(w)[j + 1] + SumTo(w)[j] + 1
    BY <1>5
  <2>2. /\ j + 1 \in 1 .. k /\ (j + 1) - 1 = j /\ j \in 0 .. k
        /\ w[j + 1] = Ways(m, j + 1) /\ w[j + 1] \in Int
    BY <1>3
  <2>3. /\ (j + 1) + 1 \in 1 .. k /\ ((j + 1) + 1) - 1 = j + 1 /\ j + 1 \in 0 .. k
        /\ v[(j + 1) + 1] = w[(j + 1) + 1] + Ways(m, j + 1) /\ w[(j + 1) + 1] \in Int
    <3>1. j + 1 \in Nat
      OBVIOUS
    <3>. QED
      BY <3>1, <1>3
  <2> DEFINE a == SumTo(w)[j]
             b == SumTo(w)[j + 1]
             d == SumTo(w)[(j + 1) + 1]
             e == SumTo(v)[j + 1]
             f == SumTo(v)[(j + 1) + 1]
             x == w[j + 1]
             y == w[(j + 1) + 1]
  <2>4. b = a + x /\ d = b + y /\ f = e + v[(j + 1) + 1] /\ e = b + a + 1
        /\ a \in Int /\ b \in Int /\ e \in Int /\ x \in Int /\ y \in Int
        /\ v[(j + 1) + 1] = y + x
    BY <1>2, <2>1, <2>2, <2>3
  <2> HIDE DEF a, b, d, e, f, x, y
  <2>5. f = d + b + 1
    BY <2>4
  <2>. QED
    BY <2>5 DEF b, d, f
<1> HIDE DEF S
<1>6. \A j \in Nat : j \in S
  BY <1>4, <1>5, Induction
<1>. QED
  BY <1>6 DEF S, w, v

\* Pascal's rule, added up from the size of all items.
LEMMA DownwardsNext ==
  ASSUME NEW m \in Nat, NEW k \in Nat
  PROVE  \A j \in Nat : j + 1 <= k /\ j <= m =>
            SumTo(Downwards(m + 1, k))[j + 1] =
                SumTo(Downwards(m, k))[j + 1] + SumTo(Downwards(m, k))[j]
<1> DEFINE w == Downwards(m, k)
           v == Downwards(m + 1, k)
           S == {j \in Nat : j + 1 <= k /\ j <= m =>
                    SumTo(v)[j + 1] = SumTo(w)[j + 1] + SumTo(w)[j]}
<1>a. m + 1 \in Nat
  OBVIOUS
<1>b. w \in [1 .. k -> Int] /\ v \in [1 .. k -> Int]
  BY <1>a, LinesTyped
<1>0. m + 1 \in Nat /\ w \in [1 .. k -> Int] /\ v \in [1 .. k -> Int]
  BY <1>a, <1>b
<1>1. \A i \in 1 .. k : w[i] = Ways(m, m + 1 - i) /\ v[i] = Ways(m + 1, (m + 1) + 1 - i)
  BY DEF Downwards
<1> HIDE DEF w, v
<1>2. /\ SumTo(w)[0] = 0 /\ SumTo(v)[0] = 0
      /\ \A j \in 1 .. k : SumTo(w)[j] = SumTo(w)[j - 1] + w[j]
      /\ \A j \in 1 .. k : SumTo(v)[j] = SumTo(v)[j - 1] + v[j]
      /\ \A j \in 0 .. k : SumTo(w)[j] \in Int /\ SumTo(v)[j] \in Int
  BY <1>0, SumIs
<1>4. 0 \in S
  <2> SUFFICES ASSUME 0 + 1 <= k
               PROVE  SumTo(v)[0 + 1] = SumTo(w)[0 + 1] + SumTo(w)[0]
    OBVIOUS
  <2>1. Ways(m + 1, m + 1) = Ways(m, m + 1) + Ways(m, m)
    BY WaysAre
  <2>2. Ways(m, m + 1) = 0 /\ Ways(m, m) \in Int
    <3>1. m + 1 \in Int /\ m + 1 > m /\ m \in Int
      OBVIOUS
    <3>. QED
      BY <3>1, WaysTyped
  <2>3. 1 \in 1 .. k /\ 1 - 1 = 0 /\ m + 1 - 1 = m /\ (m + 1) + 1 - 1 = m + 1
    OBVIOUS
  <2>4. v[1] = Ways(m + 1, m + 1) /\ w[1] = Ways(m, m)
    BY <1>1, <2>3
  <2>5. SumTo(w)[1] = 0 + w[1] /\ SumTo(v)[1] = 0 + v[1]
    BY <1>2, <2>3
  <2>. QED
    BY <1>2, <2>1, <2>2, <2>4, <2>5
<1>5. ASSUME NEW j \in Nat, j \in S PROVE j + 1 \in S
  <2> SUFFICES ASSUME (j + 1) + 1 <= k, j + 1 <= m
               PROVE  SumTo(v)[(j + 1) + 1] = SumTo(w)[(j + 1) + 1] + SumTo(w)[j + 1]
    OBVIOUS
  <2>1. SumTo(v)[j + 1] = SumTo(w)[j + 1] + SumTo(w)[j]
    BY <1>5
  <2>2. /\ j + 1 \in 1 .. k /\ (j + 1) - 1 = j /\ j \in 0 .. k
        /\ (j + 1) + 1 \in 1 .. k /\ ((j + 1) + 1) - 1 = j + 1 /\ j + 1 \in 0 .. k
        /\ m - j \in Nat /\ m - j - 1 \in Nat /\ (m - j - 1) + 1 = m - j
        /\ m + 1 - (j + 1) = m - j /\ m + 1 - ((j + 1) + 1) = m - j - 1
        /\ (m + 1) + 1 - ((j + 1) + 1) = m - j
    OBVIOUS
  <2>3. Ways(m + 1, (m - j - 1) + 1) = Ways(m, (m - j - 1) + 1) + Ways(m, m - j - 1)
    BY <2>2, WaysAre
  <2>4. /\ w[j + 1] = Ways(m, m - j) /\ w[(j + 1) + 1] = Ways(m, m - j - 1)
        /\ v[(j + 1) + 1] = Ways(m + 1, m - j)
    BY <1>1, <2>2
  <2>5. w[j + 1] \in Int /\ w[(j + 1) + 1] \in Int
        /\ v[(j + 1) + 1] = w[j + 1] + w[(j + 1) + 1]
    BY <1>0, <2>2, <2>3, <2>4
  <2> DEFINE a == SumTo(w)[j]
             b == SumTo(w)[j + 1]
             d == SumTo(w)[(j + 1) + 1]
             e == SumTo(v)[j + 1]
             f == SumTo(v)[(j + 1) + 1]
             x == w[j + 1]
             y == w[(j + 1) + 1]
  <2>6. b = a + x /\ d = b + y /\ f = e + v[(j + 1) + 1] /\ e = b + a
        /\ a \in Int /\ b \in Int /\ e \in Int /\ x \in Int /\ y \in Int
        /\ v[(j + 1) + 1] = x + y
    BY <1>2, <2>1, <2>2, <2>5
  <2> HIDE DEF a, b, d, e, f, x, y
  <2>7. f = d + b
    BY <2>6
  <2>. QED
    BY <2>7 DEF b, d, f
<1> HIDE DEF S
<1>6. \A j \in Nat : j \in S
  BY <1>4, <1>5, Induction
<1>. QED
  BY <1>6 DEF S, w, v

\* The numbers of all sizes but the empty one add up to 2^n - 1, either way.
LEMMA WholeIs ==
  ASSUME NEW n \in Nat
  PROVE  /\ SumTo(Upwards(n, n))[n] = PowerOfTwo(n) - 1
         /\ SumTo(Downwards(n, n))[n] = PowerOfTwo(n) - 1
<1>1. PICK p : Doubles(p, n) /\ PowerOfTwo(n) = p[n]
  BY PowerIs
<1> DEFINE u(m) == SumTo(Upwards(m, n))
           d(m) == SumTo(Downwards(m, n))
           S == {m \in Nat : m <= n => /\ p[m] \in Int
                                       /\ u(m)[m] = p[m] - 1 /\ d(m)[m] = p[m] - 1}
<1>2. ASSUME NEW m \in Nat
      PROVE  /\ u(m)[0] = 0 /\ d(m)[0] = 0
             /\ \A j \in 1 .. n : u(m)[j] = u(m)[j - 1] + Ways(m, j)
             /\ \A j \in 1 .. n : d(m)[j] = d(m)[j - 1] + Ways(m, m + 1 - j)
             /\ \A j \in 0 .. n : u(m)[j] \in Int /\ d(m)[j] \in Int
  <2>1. Upwards(m, n) \in [1 .. n -> Int] /\ Downwards(m, n) \in [1 .. n -> Int]
    BY LinesTyped
  <2>2. \A j \in 1 .. n : Upwards(m, n)[j] = Ways(m, j) /\ Downwards(m, n)[j] = Ways(m, m + 1 - j)
    BY DEF Upwards, Downwards
  <2>3. /\ u(m)[0] = 0
        /\ \A j \in 1 .. n : u(m)[j] = u(m)[j - 1] + Upwards(m, n)[j]
        /\ \A j \in 0 .. n : u(m)[j] \in Int
    BY <2>1, SumIs
  <2>4. /\ d(m)[0] = 0
        /\ \A j \in 1 .. n : d(m)[j] = d(m)[j - 1] + Downwards(m, n)[j]
        /\ \A j \in 0 .. n : d(m)[j] \in Int
    BY <2>1, SumIs
  <2> HIDE DEF u, d
  <2>. QED
    BY <2>2, <2>3, <2>4
<1>3. ASSUME NEW m \in Nat
      PROVE  /\ \A j \in Nat : j + 1 <= n => u(m + 1)[j + 1] = u(m)[j + 1] + u(m)[j] + 1
             /\ \A j \in Nat : j + 1 <= n /\ j <= m => d(m + 1)[j + 1] = d(m)[j + 1] + d(m)[j]
  BY UpwardsNext, DownwardsNext
<1> HIDE DEF u, d
<1>4. 0 \in S
  <2>1. 0 \in Nat
    OBVIOUS
  <2>2. u(0)[0] = 0 /\ d(0)[0] = 0
    BY <1>2, <2>1
  <2>. QED
    BY <1>1, <2>2 DEF Doubles
<1>5. ASSUME NEW m \in Nat, m \in S PROVE m + 1 \in S
  <2> SUFFICES ASSUME m + 1 <= n
               PROVE  /\ p[m + 1] \in Int
                      /\ u(m + 1)[m + 1] = p[m + 1] - 1 /\ d(m + 1)[m + 1] = p[m + 1] - 1
    OBVIOUS
  <2>1. p[m] \in Int /\ u(m)[m] = p[m] - 1 /\ d(m)[m] = p[m] - 1
    BY <1>5
  <2>2. m + 1 \in 1 .. n /\ (m + 1) - 1 = m /\ m + 1 - (m + 1) = 0 /\ m <= m
    OBVIOUS
  <2>3. p[m + 1] = 2 * p[m]
    BY <1>1, <2>2 DEF Doubles
  <2>4. Ways(m, m + 1) = 0 /\ Ways(m, 0) = 1
    <3>1. m + 1 \in Int /\ m + 1 > m
      OBVIOUS
    <3>2. Ways(m, m + 1) = 0
      BY <3>1, WaysTyped
    <3>. QED
      BY <3>2, WaysAre DEF WaysOf
  <2>5. u(m)[m + 1] = u(m)[m] + Ways(m, m + 1) /\ d(m)[m + 1] = d(m)[m] + Ways(m, 0)
    BY <1>2, <2>2
  <2>6. u(m + 1)[m + 1] = u(m)[m + 1] + u(m)[m] + 1 /\ d(m + 1)[m + 1] = d(m)[m + 1] + d(m)[m]
    BY <1>3, <2>2
  <2>. QED
    BY <2>1, <2>3, <2>4, <2>5, <2>6
<1> HIDE DEF S
<1>6. n \in S
  BY <1>4, <1>5, Induction
<1>. QED
  BY <1>1, <1>6 DEF S, u, d

\* cmb_count() counts the empty set and adds up the sizes, the short cut for a
\* whole set included.
LEMMA CountIsSum ==
  ASSUME NEW c, ConfigOK(c), c.n >= 1, ~ OutOfRange(c)
  PROVE  CmbCount(c) = EmptySets(c) + SumOfSets(c)
<1>0. /\ c.n \in Nat /\ c.n # 0
      /\ SetInit(c) \in 1 .. c.n /\ SetDone(c) \in 1 .. c.n
  BY RangeOfSizes, SizesWithin DEF ConfigOK
<1>1. CASE ~ Whole(c)
  <2>1. HowManySizes(c) \in Nat
    BY <1>0 DEF HowManySizes, Increasing
  <2>2. SizeNumbers(c) \in [1 .. HowManySizes(c) -> Int]
    <3>1. ASSUME NEW i \in 1 .. HowManySizes(c) PROVE Binomial(c.n)[SizeAt(c, i)] \in Int
      <4>1. SizeAt(c, i) \in 0 .. c.n
        BY <1>0 DEF SizeAt, HowManySizes, Increasing
      <4>2. Ways(c.n, SizeAt(c, i)) = Binomial(c.n)[SizeAt(c, i)] /\ SizeAt(c, i) \in Int
        BY <4>1 DEF Ways
      <4>3. \A m \in Nat, q \in Int : Ways(m, q) \in Nat
        BY WaysTyped
      <4>4. Ways(c.n, SizeAt(c, i)) \in Nat
        BY <1>0, <4>2, <4>3, Zenon
      <4>. QED
        BY <4>2, <4>4
    <3>. QED
      BY <3>1 DEF SizeNumbers
  <2>3. SumOfSets(c) \in Int
    BY <2>1, <2>2, SumIs DEF SumOfSets
  <2>. QED
    BY <1>0, <1>1, <2>3 DEF CmbCount, EmptySets
<1>2. CASE Whole(c)
  <2>1. SumOfSets(c) = PowerOfTwo(c.n) - 1
    <3>1. CASE Increasing(c)
      <4>1. SetInit(c) = 1 /\ SetDone(c) = c.n
        BY <1>0, <1>2, <3>1 DEF Whole, Increasing
      <4>2. HowManySizes(c) = c.n
        BY <1>0, <3>1, <4>1 DEF HowManySizes
      <4>3. ASSUME NEW i \in 1 .. c.n PROVE Binomial(c.n)[SizeAt(c, i)] = Ways(c.n, i)
        BY <1>0, <3>1, <4>1 DEF SizeAt, Ways
      <4>4. SizeNumbers(c) = Upwards(c.n, c.n)
        BY <4>2, <4>3 DEF SizeNumbers, Upwards
      <4>. QED
        BY <1>0, <4>2, <4>4, WholeIs DEF SumOfSets
    <3>2. CASE ~ Increasing(c)
      <4>1. SetInit(c) = c.n /\ SetDone(c) = 1
        BY <1>0, <1>2, <3>2 DEF Whole, Increasing
      <4>2. HowManySizes(c) = c.n
        BY <1>0, <3>2, <4>1 DEF HowManySizes
      <4>3. ASSUME NEW i \in 1 .. c.n PROVE Binomial(c.n)[SizeAt(c, i)] = Ways(c.n, c.n + 1 - i)
        <5>1. SizeAt(c, i) = c.n + 1 - i /\ c.n + 1 - i \in 0 .. c.n
          BY <1>0, <3>2, <4>1 DEF SizeAt
        <5>. QED
          BY <5>1 DEF Ways
      <4>4. SizeNumbers(c) = Downwards(c.n, c.n)
        BY <4>2, <4>3 DEF SizeNumbers, Downwards
      <4>. QED
        BY <1>0, <4>2, <4>4, WholeIs DEF SumOfSets
    <3>. QED
      BY <3>1, <3>2
  <2>2. PowerOfTwo(c.n) - 1 \in Int
    <3>1. ASSUME NEW m \in Nat PROVE SumTo(Upwards(m, m))[m] \in Int
      <4>1. Upwards(m, m) \in [1 .. m -> Int] /\ m \in 0 .. m
        BY LinesTyped
      <4>. QED
        BY <4>1, SumIs
    <3>. QED
      BY <1>0, <3>1, WholeIs
  <2>3. CmbCount(c) = PowerOfTwo(c.n) - 1 + EmptySets(c)
    BY <1>0, <1>2 DEF CmbCount
  <2>4. EmptySets(c) \in Int
    BY DEF EmptySets
  <2> HIDE DEF ConfigOK
  <2>. QED
    BY <2>1, <2>2, <2>3, <2>4
<1>. QED
  BY <1>1, <1>2

-----------------------------------------------------------------------------
(***************************************************************************)
(* cmb() makes what cmb_count() counts.                                    *)
(***************************************************************************)

\* There is a set of every size up to that of all items.
LEMMA WaysPositive ==
  ASSUME NEW m \in Nat
  PROVE  \A q \in 0 .. m : Ways(m, q) >= 1
<1> DEFINE S == {q \in Nat : q <= m => Ways(m, q) >= 1}
<1>1. 0 \in S
  <2>1. Ways(m, 0) = 1
    BY WaysAre DEF WaysOf
  <2>. QED
    BY <2>1
<1>2. ASSUME NEW q \in Nat, q \in S PROVE q + 1 \in S
  <2> SUFFICES ASSUME q + 1 <= m PROVE Ways(m, q + 1) >= 1
    OBVIOUS
  <2> DEFINE a == Ways(m, q + 1)
             b == Ways(m, q)
             d == m - (q + 1) + 1
  <2>1. b >= 1 /\ d \in Nat /\ d >= 1 /\ q + 1 \in Nat \ {0} /\ (q + 1) - 1 = q
    BY <1>2
  <2>2. a \in Nat /\ b \in Nat /\ a * (q + 1) = b * d
    BY <2>1, WaysAre DEF WaysOf
  <2> HIDE DEF a, b, d
  <2>3. a # 0
    <3> SUFFICES ASSUME a = 0 PROVE FALSE
      OBVIOUS
    <3>1. b * d = 0
      BY <2>1, <2>2
    <3>. QED
      BY <2>1, <2>2, <3>1
  <2>4. a >= 1
    BY <2>2, <2>3
  <2>. QED
    BY <2>4 DEF a
<1> HIDE DEF S
<1>3. \A q \in Nat : q \in S
  BY <1>1, <1>2, Induction
<1>. QED
  BY <1>3 DEF S

\* How many sizes are done when size k is next, the empty set that is passed
\* before them, and how many combinations that makes, with j of size k.
Past(c, k) == IF Increasing(c) THEN k - SetInit(c) ELSE SetInit(c) - k
Ahead(c, place) == IF Increasing(c) /\ c.empty /\ place # "emptyFirst" THEN 1 ELSE 0
Made(c, place, k, j) ==
    Ahead(c, place) + SumTo(SizeNumbers(c))[Past(c, k)] + (IF place = "shift" THEN j ELSE 0)

LEMMA SizesAdd ==
  ASSUME NEW c, ConfigOK(c), c.n >= 1
  PROVE  /\ HowManySizes(c) \in Nat \ {0}
         /\ SumTo(SizeNumbers(c))[0] = 0
         /\ \A i \in 1 .. HowManySizes(c) :
               SumTo(SizeNumbers(c))[i] = SumTo(SizeNumbers(c))[i - 1] + Ways(c.n, SizeAt(c, i))
         /\ \A i \in 0 .. HowManySizes(c) : SumTo(SizeNumbers(c))[i] \in Int
<1>0. c.n \in Nat /\ SetInit(c) \in 1 .. c.n /\ SetDone(c) \in 1 .. c.n
  BY RangeOfSizes, SizesWithin DEF ConfigOK
<1>1. HowManySizes(c) \in Nat \ {0}
  BY <1>0 DEF HowManySizes, Increasing
<1>2. ASSUME NEW i \in 1 .. HowManySizes(c)
      PROVE  SizeNumbers(c)[i] = Ways(c.n, SizeAt(c, i)) /\ SizeNumbers(c)[i] \in Int
  <2>1. SizeAt(c, i) \in 0 .. c.n
    BY <1>0 DEF SizeAt, HowManySizes, Increasing
  <2>2. Ways(c.n, SizeAt(c, i)) = Binomial(c.n)[SizeAt(c, i)] /\ SizeAt(c, i) \in Int
    BY <2>1 DEF Ways
  <2>3. \A m \in Nat, q \in Int : Ways(m, q) \in Nat
    BY WaysTyped
  <2>4. Ways(c.n, SizeAt(c, i)) \in Nat
    BY <1>0, <2>2, <2>3, Zenon
  <2>. QED
    BY <2>2, <2>4 DEF SizeNumbers
<1>3. SizeNumbers(c) \in [1 .. HowManySizes(c) -> Int]
  BY <1>2 DEF SizeNumbers
<1>4. /\ SumTo(SizeNumbers(c))[0] = 0
      /\ \A i \in 1 .. HowManySizes(c) :
            SumTo(SizeNumbers(c))[i] = SumTo(SizeNumbers(c))[i - 1] + SizeNumbers(c)[i]
      /\ \A i \in 0 .. HowManySizes(c) : SumTo(SizeNumbers(c))[i] \in Int
  BY <1>1, <1>3, SumIs
<1>. QED
  BY <1>1, <1>2, <1>4

\* The loop over the sizes ends when they are all done.
LEMMA EndOfSizes ==
  ASSUME NEW c, ConfigOK(c), c.n >= 1, NEW k \in Int, Past(c, k) \in 0 .. HowManySizes(c)
  PROVE  IF InSets(c, k) THEN Past(c, k) \in 0 .. (HowManySizes(c) - 1)
                         ELSE Past(c, k) = HowManySizes(c)
<1>0. c.n \in Nat /\ SetInit(c) \in 1 .. c.n /\ SetDone(c) \in 1 .. c.n
  BY RangeOfSizes, SizesWithin DEF ConfigOK
<1>. QED
  BY <1>0 DEF Past, HowManySizes, InSets, Increasing

\* What a size adds.
LEMMA SizeDone ==
  ASSUME ConfigOK(conf), conf.n >= 1, curset \in Int, Past(conf, curset) \in 0 .. (HowManySizes(conf) - 1),
         NEW z, NextSet(z)
  PROVE  /\ Past(conf, curset') = Past(conf, curset) + 1
         /\ SumTo(SizeNumbers(conf))[Past(conf, curset')] =
               SumTo(SizeNumbers(conf))[Past(conf, curset)] + Ways(conf.n, curset)
<1>0. conf.n \in Nat /\ SetInit(conf) \in 1 .. conf.n /\ SetDone(conf) \in 1 .. conf.n
  BY RangeOfSizes, SizesWithin DEF ConfigOK
<1>1. Past(conf, curset') = Past(conf, curset) + 1
  BY <1>0 DEF Past, NextSet
<1>2. SizeAt(conf, Past(conf, curset) + 1) = curset
  BY <1>0 DEF Past, SizeAt
<1>3. /\ Past(conf, curset) + 1 \in 1 .. HowManySizes(conf)
      /\ (Past(conf, curset) + 1) - 1 = Past(conf, curset)
  <2>1. HowManySizes(conf) \in Nat \ {0}
    BY SizesAdd
  <2>. QED
    BY <2>1
<1>. QED
  BY <1>1, <1>2, <1>3, SizesAdd

\* Where the enumeration is among the sizes and within one, as long as no call has
\* ended it; a seek ends within the size it was entered for.
GoesOn == ret = 0 /\ (conf.count = 0 \/ left > 0)

PlaceInv ==
    /\ ret # 0 => conf.mayStop
    /\ conf.n >= 1 =>
        /\ pc = "emptyFirst" => Past(conf, curset) = 0
        /\ pc = "set" => Past(conf, curset) \in 0 .. HowManySizes(conf)
        /\ pc \in {"first", "shift"} => Past(conf, curset) \in 0 .. (HowManySizes(conf) - 1)
        /\ pc = "emptyLast" /\ GoesOn => Past(conf, curset) = HowManySizes(conf)
        /\ pc = "shift" => combo \in 1 .. ncombos
        /\ pc = "first" /\ doseek => seek <= ncombos
        /\ pc = "shift" /\ doseek => seek <= ncombos - combo + 1

LEMMA PlaceInit == Called => PlaceInv
BY DEF Called, Calling, PlaceInv

LEMMA PlaceStep == CmbInv /\ CmbInv' /\ PlaceInv /\ [Next]_cmbVars => PlaceInv'
<1> SUFFICES ASSUME CmbInv, CmbInv', PlaceInv, [Next]_cmbVars PROVE PlaceInv'
  OBVIOUS
<1>0. /\ ConfigOK(conf) /\ conf.n \in Nat /\ curset \in Int /\ curset \in Nat
      /\ ncombos \in Nat /\ combo \in Nat /\ seek \in Nat /\ doseek \in BOOLEAN
  BY DEF CmbInv, ShiftInv, ExactInv, SeekInv, ConfigOK
<1>c. conf' = conf
  BY DEF Next, Refuse, Prepare, EmptyFirst, EmptyPassed, NoEmptyFirst, PassSet, EnterSet, SetsEnd,
     ShowFirst, Shift, SetEnd, EmptyLast, NoEmptyLast, cmbVars
<1>p. \A k : Past(conf, k)' = Past(conf, k') /\ HowManySizes(conf)' = HowManySizes(conf)
  BY <1>c DEF Past, HowManySizes, Increasing, SetInit, SetDone, Clamp, Requested
<1>r. (ret' # 0 => conf.mayStop)
  <2>1. ret' = ret \/ ret' \in Answers
    BY DEF Next, Refuse, Prepare, EmptyFirst, EmptyPassed, NoEmptyFirst, PassSet, EnterSet, SetsEnd,
       ShowFirst, Shift, SetEnd, EmptyLast, NoEmptyLast, cmbVars, Call, calling
  <2>. QED
    BY <2>1 DEF Answers, PlaceInv
<1>n. conf.n >= 1 => HowManySizes(conf) \in Nat \ {0}
  BY <1>0, SizesAdd
<1>1. CASE Refuse \/ EmptyLast \/ NoEmptyLast
  <2>1. pc' = "returned"
    BY <1>1 DEF Refuse, EmptyLast, NoEmptyLast
  <2>. QED
    BY <1>c, <1>r, <2>1 DEF PlaceInv
<1>2. CASE Prepare
  <2>1. pc' = "emptyFirst" /\ curset' = SetInit(conf)
    BY <1>2 DEF Prepare
  <2>2. conf.n >= 1 => Past(conf, SetInit(conf)) = 0
    BY <1>0, RangeOfSizes DEF Past
  <2>. QED
    BY <1>c, <1>p, <1>r, <2>1, <2>2 DEF PlaceInv
<1>3. CASE EmptyFirst \/ EmptyPassed \/ NoEmptyFirst
  <2>1. pc = "emptyFirst" /\ pc' \in {"returned", Sets} /\ curset' = curset
    BY <1>3 DEF EmptyFirst, EmptyPassed, NoEmptyFirst, Call, enum
  <2>2. pc' \in {"returned", "set"}
    BY <2>1 DEF Sets
  <2>. QED
    BY <1>c, <1>n, <1>p, <1>r, <2>1, <2>2 DEF PlaceInv
<1>4. CASE PassSet
  <2>1. pc = "set" /\ pc' = "set" /\ InSets(conf, curset) /\ NextSet(AtHead) /\ conf.n >= 1
    BY <1>4 DEF PassSet, CmbInv, ShiftInv
  <2>2. Past(conf, curset) \in 0 .. (HowManySizes(conf) - 1)
    BY <1>0, <2>1, EndOfSizes DEF PlaceInv
  <2>3. Past(conf, curset') = Past(conf, curset) + 1
    BY <1>0, <2>1, <2>2, SizeDone
  <2>. QED
    BY <1>c, <1>n, <1>p, <1>r, <2>1, <2>2, <2>3 DEF PlaceInv
<1>5. CASE EnterSet
  <2>1. /\ pc = "set" /\ pc' = "first" /\ InSets(conf, curset) /\ conf.n >= 1
        /\ curset' = curset /\ ncombos' = AtHead /\ seek' = seek
        /\ ~ (doseek /\ seek > AtHead) /\ doseek' = (doseek /\ seek # 1)
    BY <1>5 DEF EnterSet, CmbInv, ShiftInv
  <2>2. Past(conf, curset) \in 0 .. (HowManySizes(conf) - 1)
    BY <1>0, <2>1, EndOfSizes DEF PlaceInv
  <2>3. ncombos' \in Nat
    BY DEF CmbInv, ExactInv
  <2>4. doseek' => seek' <= ncombos'
    <3>1. doseek' => doseek
      BY <2>1
    <3>. QED
      BY <1>0, <2>1, <2>3, <3>1
  <2>. QED
    BY <1>c, <1>p, <1>r, <2>1, <2>2, <2>4 DEF PlaceInv
<1>6. CASE SetsEnd
  <2>1. pc = "set" /\ pc' = "emptyLast" /\ ~ InSets(conf, curset) /\ conf.n >= 1 /\ curset' = curset
    BY <1>6 DEF SetsEnd, CmbInv, ShiftInv, enum
  <2>2. Past(conf, curset) = HowManySizes(conf)
    BY <1>0, <2>1, EndOfSizes DEF PlaceInv
  <2>. QED
    BY <1>c, <1>p, <1>r, <2>1, <2>2 DEF PlaceInv
<1>7. CASE ShowFirst
  <2>1. /\ pc = "first" /\ conf.n >= 1 /\ UNCHANGED <<curset, ncombos, doseek, seek>> /\ combo' = 1
        /\ Past(conf, curset) \in 0 .. (HowManySizes(conf) - 1)
        /\ doseek => seek <= ncombos
    BY <1>7 DEF ShowFirst, CmbInv, ShiftInv, PlaceInv, seeking
  <2>2. pc' = "shift" \/ (pc' = "emptyLast" /\ ~ GoesOn')
    BY <1>7, <1>c DEF ShowFirst, Call, GoesOn
  <2>3. ncombos >= 1
    <3>1. curset \in 1 .. conf.n /\ ncombos = Ways(conf.n, curset)
      BY <2>1 DEF CmbInv, ExactInv
    <3>2. curset \in 0 .. conf.n
      BY <1>0, <3>1
    <3>3. \A m \in Nat : \A q \in 0 .. m : Ways(m, q) >= 1
      BY WaysPositive
    <3>. QED
      BY <1>0, <3>1, <3>2, <3>3
  <2>4. combo' \in 1 .. ncombos' /\ (doseek' => seek' <= ncombos' - combo' + 1)
    BY <1>0, <2>1, <2>3
  <2>. QED
    BY <1>c, <1>p, <1>r, <2>1, <2>2, <2>4 DEF PlaceInv
<1>8. CASE Shift
  <2>1. /\ pc = "shift" /\ pc' \in {"shift", "returned"} /\ UNCHANGED <<curset, ncombos>>
        /\ combo < ncombos /\ combo' = combo + 1 /\ conf.n >= 1
        /\ Past(conf, curset) \in 0 .. (HowManySizes(conf) - 1)
        /\ doseek => seek <= ncombos - combo + 1
        /\ seek' = (IF doseek THEN seek - 1 ELSE seek)
        /\ doseek' = (doseek /\ seek' # 1)
    BY <1>8 DEF Shift, Call, CmbInv, ShiftInv, PlaceInv
  <2>2. combo' \in 1 .. ncombos'
    BY <1>0, <2>1
  <2>3. doseek' => seek' <= ncombos' - combo' + 1
    <3>1. doseek' => doseek
      BY <2>1
    <3>. QED
      BY <1>0, <2>1, <3>1
  <2>. QED
    BY <1>c, <1>p, <1>r, <2>1, <2>2, <2>3 DEF PlaceInv
<1>9. CASE SetEnd
  <2>1. /\ pc = "shift" /\ pc' = "set" /\ NextSet(ncombos) /\ conf.n >= 1
        /\ Past(conf, curset) \in 0 .. (HowManySizes(conf) - 1)
    BY <1>9 DEF SetEnd, CmbInv, ShiftInv, PlaceInv
  <2>2. Past(conf, curset') = Past(conf, curset) + 1
    BY <1>0, <2>1, SizeDone
  <2>. QED
    BY <1>c, <1>n, <1>p, <1>r, <2>1, <2>2 DEF PlaceInv
<1>10. CASE UNCHANGED cmbVars
  BY <1>10, <1>p DEF cmbVars, PlaceInv, GoesOn
<1>. QED
  BY <1>1, <1>2, <1>3, <1>4, <1>5, <1>6, <1>7, <1>8, <1>9, <1>10 DEF Next

\* The number of the calls: none while the start is still ahead, s further;
\* then all that was made from there.
InStep(c, seeks, s, made, calls) ==
    IF seeks THEN calls = 0 /\ c.start > 1 /\ made + s = c.start
             ELSE calls = made - Skipped(c)

\* At a shift the combination that seek is counted at was made already.
Further(place, s) == IF place = "shift" THEN s - 1 ELSE s

\* All that is counted, and what is left of it from the start.
All(c) == EmptySets(c) + SumOfSets(c)
Promised(c) == IF Skipped(c) < All(c) THEN All(c) - Skipped(c) ELSE 0

Looping == {"emptyFirst", "set", "first", "shift", "emptyLast"}
Unlimited(c) == c.count = 0 /\ StopsCleanly(c)

MadeInv ==
    conf.n >= 1 =>
        /\ pc \in Looping /\ GoesOn =>
              InStep(conf, doseek, Further(pc, seek), Made(conf, pc, curset, combo), Len(log))
        /\ pc = "returned" /\ ret = 0 /\ Unlimited(conf) =>
              Len(log) = Promised(conf) \/ (Len(log) = 0 /\ Refuses(conf))

LEMMA MadeInit == Called => MadeInv
BY DEF Called, Calling, MadeInv, Looping

\* Every step keeps the number of the calls in step with what was made.
LEMMA MadeStep == CmbInv /\ CmbInv' /\ PlaceInv /\ MadeInv /\ [Next]_cmbVars => MadeInv'
<1> SUFFICES ASSUME CmbInv, CmbInv', PlaceInv, MadeInv, [Next]_cmbVars PROVE MadeInv'
  OBVIOUS
<1>c. conf' = conf
  BY DEF Next, Refuse, Prepare, EmptyFirst, EmptyPassed, NoEmptyFirst, PassSet, EnterSet, SetsEnd,
     ShowFirst, Shift, SetEnd, EmptyLast, NoEmptyLast, cmbVars
<1> SUFFICES ASSUME conf.n >= 1, IF pc' = "returned" THEN ret' = 0 /\ Unlimited(conf) ELSE GoesOn'
             PROVE  /\ pc' \in Looping =>
                         InStep(conf, doseek', Further(pc', seek'),
                                Made(conf, pc', curset', combo'), Len(log'))
                    /\ pc' = "returned" =>
                         Len(log') = Promised(conf) \/ (Len(log') = 0 /\ Refuses(conf))
  BY <1>c DEF MadeInv, Looping
<1>0. /\ ConfigOK(conf) /\ conf.n \in Nat /\ conf.n >= 1 /\ conf.start \in Nat
      /\ conf.empty \in BOOLEAN
      /\ curset \in Int /\ ncombos \in Nat /\ combo \in Nat
      /\ seek \in Nat /\ doseek \in BOOLEAN /\ log \in Seq(Calls) /\ Len(log) \in Nat
      /\ (doseek => seek >= 1)
      /\ (doseek /\ pc \in {"emptyFirst", "first", "shift"} => seek >= 2)
  BY DEF CmbInv, ShiftInv, CountInv, ExactInv, SeekInv, ConfigOK
<1> DEFINE T(i) == SumTo(SizeNumbers(conf))[i]
           here == Past(conf, curset)
           last == HowManySizes(conf)
           done == Made(conf, pc, curset, combo)
           done2 == Made(conf, pc', curset', combo')
<1>1. /\ last \in Nat \ {0} /\ T(0) = 0
      /\ \A i \in 0 .. last : T(i) \in Int
      /\ T(last) = SumOfSets(conf)
  BY <1>0, SizesAdd DEF SumOfSets
<1>2. /\ done = Ahead(conf, pc) + T(here) + (IF pc = "shift" THEN combo ELSE 0)
      /\ done2 = Ahead(conf, pc') + T(Past(conf, curset')) + (IF pc' = "shift" THEN combo' ELSE 0)
  BY DEF Made
<1>3. \A p : Ahead(conf, p) \in {0, 1} /\ Ahead(conf, "emptyFirst") = 0
             /\ (p # "emptyFirst" => Ahead(conf, p) = Ahead(conf, "set"))
  BY DEF Ahead
<1>4. /\ pc \in {"set", "first", "shift"} => curset \in Nat
      /\ pc \in {"first", "shift"} => ncombos = Ways(conf.n, curset)
      /\ pc = "shift" => combo \in 1 .. ncombos
      /\ pc = "first" => here \in 0 .. (last - 1)
      /\ pc = "shift" => here \in 0 .. (last - 1)
      /\ pc = "emptyFirst" => here = 0
      /\ pc = "set" => here \in 0 .. last
      /\ pc = "shift" /\ doseek => seek <= ncombos - combo + 1
  BY <1>0 DEF CmbInv, ShiftInv, ExactInv, PlaceInv
<1>5. /\ pc \in Looping /\ (pc = "emptyLast" => GoesOn) =>
            InStep(conf, doseek, Further(pc, seek), done, Len(log))
      /\ pc = "call" => Len(log) = 0
  <2>1. pc \in Running \ {"call"} => GoesOn
    BY DEF CmbInv, CountInv, Running, GoesOn
  <2>2. pc \in Looping => pc = "emptyLast" \/ pc \in Running \ {"call"}
    BY DEF Looping, Running
  <2>3. pc = "call" => Len(log) = 0
    BY DEF CmbInv, CountInv
  <2>4. pc \in Looping /\ GoesOn => InStep(conf, doseek, Further(pc, seek), done, Len(log))
    BY <1>0 DEF MadeInv
  <2>. QED
    BY <2>1, <2>2, <2>3, <2>4
<1>6. ASSUME NEW items, NEW next, NEW stop, Call(items, next, stop)
      PROVE  pc' = next /\ Len(log') = Len(log) + 1
  <2>1. Len(log') = Len(log) + 1
    BY <1>0, <1>6 DEF Call
  <2>2. ret' = 0 /\ ~ (conf.count # 0 /\ left' = 0)
    BY <1>c DEF Unlimited, GoesOn
  <2>. QED
    BY <1>6, <2>1, <2>2 DEF Call
<1>7. ASSUME pc \in {"set", "first", "shift"}, here \in 0 .. (last - 1), NEW z, NextSet(z)
      PROVE  Past(conf, curset') = here + 1 /\ T(Past(conf, curset')) = T(here) + Ways(conf.n, curset)
  BY <1>0, <1>7, SizeDone
<1>8. pc \in Looping \ {"emptyLast"} => done \in Int
  <2>1. pc \in Looping \ {"emptyLast"} => here \in 0 .. last
    BY <1>1, <1>4 DEF Looping
  <2>2. Ahead(conf, pc) \in Int
    BY <1>3
  <2>3. T(here) \in Int => done \in Int
    BY <1>0, <1>2, <2>2
  <2>. QED
    BY <1>1, <2>1, <2>3
<1>10. ASSUME pc \in Looping \ {"emptyLast"}, pc' \in Looping,
              \/ done2 = done /\ UNCHANGED <<doseek, seek, log>> /\ (pc = "shift" <=> pc' = "shift")
              \/ /\ ~ doseek /\ ~ doseek'
                 /\ \/ done2 = done /\ UNCHANGED log
                    \/ done2 = done + 1 /\ Len(log') = Len(log) + 1
       PROVE  InStep(conf, doseek', Further(pc', seek'), done2, Len(log'))
  <2>1. InStep(conf, doseek, Further(pc, seek), done, Len(log)) /\ done \in Int
    BY <1>5, <1>8, <1>10 DEF Looping
  <2>2. Skipped(conf) \in Int
    BY <1>0 DEF Skipped
  <2>. QED
    BY <1>0, <1>10, <2>1, <2>2 DEF InStep, Further
<1> HIDE DEF T, here, last, done, done2
<1>11. CASE Refuse
  BY <1>11, <1>5 DEF Refuse, Looping, calling
<1>12. CASE Prepare
  <2>1. /\ pc = "call" /\ pc' = "emptyFirst" /\ curset' = SetInit(conf) /\ log' = log
        /\ doseek' = (conf.start > 1) /\ seek' = IF conf.start > 1 THEN conf.start ELSE 0
    BY <1>12 DEF Prepare
  <2>2. Past(conf, curset') = 0
    BY <1>0, <2>1, RangeOfSizes DEF Past
  <2>3. done2 = 0
    BY <1>1, <1>2, <1>3, <2>1, <2>2
  <2>4. Len(log') = 0 /\ Further(pc', seek') = seek'
    BY <1>5, <2>1 DEF Further
  <2>5. InStep(conf, doseek', seek', 0, 0)
    <3>1. CASE conf.start > 1
      <4>1. doseek' = TRUE /\ seek' = conf.start
        BY <2>1, <3>1
      <4>. QED
        BY <1>0, <3>1, <4>1 DEF InStep
    <3>2. CASE ~ (conf.start > 1)
      <4>1. (conf.start > 1) = FALSE
        BY <3>2
      <4>2. doseek' = FALSE
        BY <2>1, <4>1
      <4>. QED
        BY <1>0, <3>2, <4>2 DEF InStep, Skipped
    <3>. QED
      BY <3>1, <3>2
  <2>. QED
    BY <2>1, <2>3, <2>4, <2>5 DEF done2
<1>13. CASE EmptyFirst
  <2>1. /\ pc = "emptyFirst" /\ Increasing(conf) /\ conf.empty /\ ~ doseek
        /\ Call(<< >>, Sets, "returned") /\ UNCHANGED <<curset, combo, doseek, seek>>
    BY <1>13 DEF EmptyFirst, enum, seeking
  <2>2. pc' = "set" /\ Len(log') = Len(log) + 1
    BY <1>0, <1>6, <2>1 DEF Sets
  <2>3. Ahead(conf, pc) = 0 /\ Ahead(conf, pc') = 1
    BY <2>1, <2>2 DEF Ahead
  <2>4. Past(conf, curset') = here
    BY <2>1 DEF here
  <2>5. done2 = done + 1
    BY <1>1, <1>2, <1>4, <2>1, <2>2, <2>3, <2>4
  <2>. QED
    BY <1>10, <2>1, <2>2, <2>5 DEF Looping, done2
<1>14. CASE EmptyPassed
  <2>1. /\ pc = "emptyFirst" /\ Increasing(conf) /\ conf.empty /\ doseek
        /\ seek' = seek - 1 /\ doseek' = (seek' # 1) /\ pc' = "set"
        /\ UNCHANGED <<curset, combo, log>>
    BY <1>0, <1>14 DEF EmptyPassed, enum, calling, Sets
  <2>2. Ahead(conf, pc) = 0 /\ Ahead(conf, pc') = 1
    BY <2>1 DEF Ahead
  <2>3. Past(conf, curset') = here
    BY <2>1 DEF here
  <2>4. done2 = done + 1 /\ done \in Int
    BY <1>1, <1>2, <1>4, <2>1, <2>2, <2>3
  <2>5. InStep(conf, doseek, seek, done, Len(log)) /\ Further(pc', seek') = seek'
    BY <1>5, <2>1 DEF Looping, Further
  <2>6. InStep(conf, doseek', seek', done2, Len(log'))
    <3>1. Len(log) = 0 /\ conf.start > 1 /\ done + seek = conf.start /\ log' = log
      BY <2>1, <2>5 DEF InStep
    <3>2. CASE seek' = 1
      <4>1. doseek' = FALSE
        BY <2>1, <3>2
      <4>. QED
        BY <1>0, <2>1, <2>4, <3>1, <3>2, <4>1 DEF InStep, Skipped
    <3>3. CASE seek' # 1
      <4>1. doseek' = TRUE
        BY <2>1, <3>3
      <4>. QED
        BY <1>0, <2>1, <2>4, <3>1, <4>1 DEF InStep
    <3>. QED
      BY <3>2, <3>3
  <2>. QED
    BY <2>1, <2>5, <2>6 DEF done2
<1>15. CASE NoEmptyFirst
  <2>1. /\ pc = "emptyFirst" /\ ~ (Increasing(conf) /\ conf.empty) /\ pc' = "set"
        /\ UNCHANGED <<curset, combo, log, doseek, seek>>
    BY <1>0, <1>15 DEF NoEmptyFirst, enum, calling, seeking, Sets
  <2>2. Ahead(conf, pc) = 0 /\ Ahead(conf, pc') = 0
    BY <2>1 DEF Ahead
  <2>3. Past(conf, curset') = here
    BY <2>1 DEF here
  <2>4. done2 = done
    BY <1>1, <1>2, <1>4, <2>1, <2>2, <2>3
  <2>. QED
    BY <1>10, <2>1, <2>4 DEF Looping, done2
<1>16. CASE PassSet
  <2>1. /\ pc = "set" /\ pc' = "set" /\ InSets(conf, curset) /\ NextSet(AtHead)
        /\ doseek /\ seek > AtHead /\ seek' = seek - AtHead
        /\ UNCHANGED <<combo, log, doseek>>
    BY <1>16 DEF PassSet, calling
  <2>2. here \in 0 .. (last - 1)
    BY <1>0, <1>4, <2>1, EndOfSizes DEF here, last
  <2>3. curset \in 1 .. conf.n /\ AtHead = Ways(conf.n, curset)
    <3>1. SetDone(conf) \in 1 .. conf.n /\ AtSize
      BY <1>0, <2>1, RangeOfSizes, SizesWithin DEF CmbInv, ExactInv
    <3>. QED
      BY <1>0, <2>1, <3>1, HeadIsExact
  <2>4. Past(conf, curset') = here + 1 /\ T(Past(conf, curset')) = T(here) + AtHead
    BY <1>7, <2>1, <2>2, <2>3
  <2>5. AtHead \in Int
    <3>1. \A m \in Nat, q \in Int : Ways(m, q) \in Nat
      BY WaysTyped
    <3>2. Ways(conf.n, curset) \in Nat
      BY <1>0, <3>1, Zenon
    <3>. QED
      BY <2>3, <3>2
  <2>6. done2 = done + AtHead /\ done \in Int
    <3>1. Ahead(conf, pc') = Ahead(conf, pc) /\ Ahead(conf, pc) \in Int /\ T(here) \in Int
      BY <1>1, <1>3, <2>1, <2>2
    <3>. QED
      BY <1>2, <2>1, <2>4, <2>5, <3>1
  <2>7. InStep(conf, doseek, seek, done, Len(log)) /\ Further(pc', seek') = seek'
    BY <1>5, <2>1 DEF Looping, Further
  <2>8. InStep(conf, doseek', seek', done2, Len(log'))
    BY <1>0, <2>1, <2>5, <2>6, <2>7 DEF InStep
  <2>. QED
    BY <2>1, <2>7, <2>8 DEF done2
<1>17. CASE EnterSet
  <2>1. /\ pc = "set" /\ pc' = "first" /\ doseek' = (doseek /\ seek # 1)
        /\ UNCHANGED <<curset, combo, log, seek>>
    BY <1>17 DEF EnterSet, calling
  <2>2. Ahead(conf, pc') = Ahead(conf, pc) /\ Past(conf, curset') = here
    BY <1>3, <2>1 DEF here
  <2>3. done2 = done /\ done \in Int
    BY <1>2, <1>8, <2>1, <2>2 DEF Looping
  <2>4. InStep(conf, doseek, seek, done, Len(log)) /\ Further(pc', seek') = seek'
    BY <1>5, <2>1 DEF Looping, Further
  <2>5. InStep(conf, doseek', seek', done2, Len(log'))
    BY <1>0, <2>1, <2>3, <2>4 DEF InStep, Skipped
  <2>. QED
    BY <2>1, <2>4, <2>5 DEF done2
<1>18. CASE SetsEnd
  <2>1. pc = "set" /\ pc' = "emptyLast" /\ UNCHANGED <<curset, combo, log, doseek, seek>>
    BY <1>18 DEF SetsEnd, enum, calling, seeking
  <2>2. Ahead(conf, pc') = Ahead(conf, pc) /\ Past(conf, curset') = here
    BY <1>3, <2>1 DEF here
  <2>3. done2 = done
    BY <1>2, <2>1, <2>2
  <2>. QED
    BY <1>10, <2>1, <2>3 DEF Looping, done2
<1>19. CASE ShowFirst
  <2>1. pc = "first" /\ combo' = 1 /\ UNCHANGED <<curset, doseek, seek>>
    BY <1>19 DEF ShowFirst, seeking
  <2>2. /\ pc' = "shift"
        /\ Len(log') = IF doseek THEN Len(log) ELSE Len(log) + 1
    BY <1>6, <1>19 DEF ShowFirst, calling
  <2>3. Ahead(conf, pc') = Ahead(conf, pc) /\ Past(conf, curset') = here
    BY <1>3, <2>1, <2>2 DEF here
  <2>4. done2 = done + 1 /\ done \in Int
    <3>1. Ahead(conf, pc) \in Int /\ T(here) \in Int
      BY <1>1, <1>3, <1>4, <2>1
    <3>. QED
      BY <1>2, <2>1, <2>2, <2>3, <3>1
  <2>5. InStep(conf, doseek, seek, done, Len(log)) /\ Further(pc', seek') = seek' - 1
    BY <1>5, <2>1, <2>2 DEF Looping, Further
  <2>6. InStep(conf, doseek', seek' - 1, done2, Len(log'))
    BY <1>0, <2>1, <2>2, <2>4, <2>5 DEF InStep, Skipped
  <2>. QED
    BY <2>2, <2>5, <2>6 DEF done2
<1>20. CASE Shift
  <2>1. /\ pc = "shift" /\ combo' = combo + 1 /\ UNCHANGED curset
        /\ seek' = (IF doseek THEN seek - 1 ELSE seek)
        /\ doseek' = (doseek /\ seek' # 1)
    BY <1>20 DEF Shift
  <2>2. /\ pc' = "shift"
        /\ Len(log') = IF doseek' THEN Len(log) ELSE Len(log) + 1
    BY <1>6, <1>20 DEF Shift, calling
  <2>3. Ahead(conf, pc') = Ahead(conf, pc) /\ Past(conf, curset') = here
    BY <2>1, <2>2 DEF here
  <2>4. done2 = done + 1 /\ done \in Int
    <3>1. Ahead(conf, pc) \in Int /\ T(here) \in Int
      BY <1>1, <1>3, <1>4, <2>1
    <3>. QED
      BY <1>0, <1>2, <2>1, <2>2, <2>3, <3>1
  <2>5. InStep(conf, doseek, seek - 1, done, Len(log)) /\ Further(pc', seek') = seek' - 1
    BY <1>5, <2>1, <2>2 DEF Looping, Further
  <2>6. InStep(conf, doseek', seek' - 1, done2, Len(log'))
    <3>1. CASE ~ doseek
      BY <1>0, <2>1, <2>2, <2>4, <2>5, <3>1 DEF InStep, Skipped
    <3>2. CASE doseek /\ seek' = 1
      BY <1>0, <2>1, <2>2, <2>4, <2>5, <3>2 DEF InStep, Skipped
    <3>3. CASE doseek /\ seek' # 1
      <4>1. doseek' = TRUE /\ doseek = TRUE
        BY <1>0, <2>1, <3>3
      <4>2. Len(log') = 0 /\ conf.start > 1 /\ done + (seek - 1) = conf.start
        BY <2>2, <2>5, <4>1 DEF InStep
      <4>. QED
        BY <1>0, <2>1, <2>4, <4>1, <4>2 DEF InStep
    <3>. QED
      BY <1>0, <3>1, <3>2, <3>3
  <2>. QED
    BY <2>2, <2>5, <2>6 DEF done2
<1>21. CASE SetEnd
  <2>1. /\ pc = "shift" /\ pc' = "set" /\ combo >= ncombos /\ NextSet(ncombos)
        /\ UNCHANGED <<combo, log, doseek, seek>>
    BY <1>21 DEF SetEnd, calling, seeking
  <2>2. combo = ncombos /\ ncombos = Ways(conf.n, curset) /\ here \in 0 .. (last - 1) /\ ~ doseek
    BY <1>0, <1>4, <2>1
  <2>3. Past(conf, curset') = here + 1 /\ T(Past(conf, curset')) = T(here) + combo
    BY <1>7, <2>1, <2>2
  <2>4. Ahead(conf, pc') = Ahead(conf, pc) /\ Ahead(conf, pc) \in Int /\ T(here) \in Int
    BY <1>1, <1>3, <2>1, <2>2
  <2>5. done2 = done
    BY <1>0, <1>2, <2>1, <2>3, <2>4
  <2>. QED
    BY <1>10, <2>1, <2>2, <2>5 DEF Looping, done2
<1>22. CASE EmptyLast \/ NoEmptyLast
  <2>1. /\ pc = "emptyLast" /\ pc' = "returned" /\ ret' = 0
        /\ conf.count = 0 /\ StopsCleanly(conf)
    BY <1>22 DEF EmptyLast, NoEmptyLast, Unlimited
  <2>2. ret = 0
    <3>1. CASE EmptyLast
      <4>1. ~ Increasing(conf) /\ conf.empty
        BY <3>1 DEF EmptyLast, WantsEmptyLast
      <4>2. ~ conf.mayStop
        BY <2>1, <4>1 DEF StopsCleanly
      <4>. QED
        BY <4>2 DEF PlaceInv
    <3>2. CASE NoEmptyLast
      BY <2>1, <3>2 DEF NoEmptyLast, calling
    <3>. QED
      BY <1>22, <3>1, <3>2
  <2>3. here = last
    BY <1>0, <2>1, <2>2 DEF PlaceInv, GoesOn, here, last
  <2>4. done = Ahead(conf, "set") + SumOfSets(conf) /\ SumOfSets(conf) \in Int
    BY <1>1, <1>2, <1>3, <2>1, <2>3
  <2>5. InStep(conf, doseek, seek, done, Len(log))
    BY <1>5, <2>1, <2>2 DEF Looping, Further, GoesOn
  <2>6. Ahead(conf, "set") = (IF Increasing(conf) /\ conf.empty THEN 1 ELSE 0)
    BY DEF Ahead
  <2>7. All(conf) = (IF conf.empty THEN 1 ELSE 0) + SumOfSets(conf)
    BY DEF All, EmptySets
  <2>8. CASE EmptyLast
    <3>1. /\ ~ Increasing(conf) /\ conf.empty /\ (~ doseek \/ seek = 1)
          /\ Len(log') = Len(log) + 1
      BY <1>0, <2>8 DEF EmptyLast, WantsEmptyLast
    <3>2. Len(log') = Promised(conf)
      BY <1>0, <2>4, <2>5, <2>6, <2>7, <3>1 DEF Promised, InStep, Skipped
    <3>. QED
      BY <2>1, <3>2 DEF Looping
  <2>9. CASE NoEmptyLast
    <3>1. (Increasing(conf) \/ ~ conf.empty \/ (doseek /\ seek # 1)) /\ log' = log
      BY <1>0, <2>1, <2>9 DEF NoEmptyLast, WantsEmptyLast, calling
    <3>2. Len(log') = Promised(conf)
      <4>1. CASE doseek
        <5>1. Len(log') = 0 /\ Skipped(conf) = done + seek - 1 /\ done \in Int
          BY <1>0, <2>4, <2>5, <2>6, <3>1, <4>1 DEF InStep, Skipped
        <5>2. ~ (Skipped(conf) < All(conf))
          BY <1>0, <2>4, <2>6, <2>7, <3>1, <4>1, <5>1
        <5>. QED
          BY <5>1, <5>2 DEF Promised
      <4>2. CASE ~ doseek
        BY <1>0, <2>4, <2>5, <2>6, <2>7, <3>1, <4>2 DEF Promised, InStep, Skipped
      <4>. QED
        BY <4>1, <4>2
    <3>. QED
      BY <2>1, <3>2 DEF Looping
  <2>. QED
    BY <1>22, <2>8, <2>9
<1>23. CASE UNCHANGED cmbVars
  <2>1. UNCHANGED <<conf, pc, curset, combo, log, doseek, seek, ret, left>>
    BY <1>23 DEF cmbVars
  <2>. QED
    BY <1>0, <2>1 DEF MadeInv, GoesOn, Looping
<1>. QED
  BY <1>11, <1>12, <1>13, <1>14, <1>15, <1>16, <1>17, <1>18, <1>19, <1>20, <1>21, <1>22,
     <1>23 DEF Next

\* For every number of items and every configuration: when nothing else ends it,
\* cmb() calls its action for as many combinations as cmb_count() counts from
\* the start on.
THEOREM CountingAgrees == Spec => []CountAgrees
<1>1. CmbInv /\ MadeInv => CountAgrees
  <2> SUFFICES ASSUME CmbInv, MadeInv, pc = "returned", ret = 0, conf.count = 0, conf.n > 0,
                      ~ OutOfRange(conf), StopsCleanly(conf)
               PROVE  Len(log) = IF Skipped(conf) < CmbCount(conf)
                                 THEN CmbCount(conf) - Skipped(conf) ELSE 0
    BY DEF CountAgrees
  <2>1. ConfigOK(conf) /\ conf.n \in Nat /\ conf.n >= 1 /\ conf.start \in Nat
    BY DEF CmbInv, ShiftInv, ConfigOK
  <2>2. CmbCount(conf) = All(conf)
    BY <2>1, CountIsSum DEF All
  <2>3. CASE Len(log) = Promised(conf)
    BY <2>2, <2>3 DEF Promised
  <2>4. CASE Len(log) = 0 /\ Refuses(conf)
    <3>1. CmbCount(conf) = 0
      BY <2>1, <2>4 DEF Refuses
    <3>2. ~ (Skipped(conf) < 0)
      BY <2>1 DEF Skipped
    <3>. QED
      BY <2>4, <3>1, <3>2
  <2>. QED
    BY <2>1, <2>3, <2>4 DEF MadeInv, Unlimited
<1>2. CmbInv /\ PlaceInv /\ MadeInv /\ [Next]_cmbVars => CmbInv' /\ PlaceInv' /\ MadeInv'
  BY CmbStep, PlaceStep, MadeStep
<1>3. Called => CmbInv /\ PlaceInv /\ MadeInv
  BY CmbInit, PlaceInit, MadeInit
<1>. QED
  BY <1>1, <1>2, <1>3, InitCalls, PTL DEF Spec

-----------------------------------------------------------------------------
(***************************************************************************)
(* The combinations as sets of items.                                      *)
(***************************************************************************)

\* The sets of k of m items.
Subsets(m, k) == {T \in SUBSET (1 .. m) : Cardinality(T) = k}

\* Finite sets without a common element.
LEMMA Apart ==
  ASSUME NEW S, NEW T, IsFiniteSet(S), IsFiniteSet(T), S \cap T = {}
  PROVE  /\ IsFiniteSet(S \cup T)
         /\ Cardinality(S \cup T) = Cardinality(S) + Cardinality(T)
<1>1. Cardinality(S \cup T) = Cardinality(S) + Cardinality(T) - Cardinality(S \cap T)
  BY FS_Union
<1>2. Cardinality(S) \in Nat /\ Cardinality(T) \in Nat
  BY FS_CardinalityType
<1>3. Cardinality(S \cap T) = 0
  BY FS_EmptySet
<1>4. Cardinality(S \cup T) = Cardinality(S) + Cardinality(T)
  BY <1>1, <1>2, <1>3
<1>. QED
  BY <1>4, FS_Union

LEMMA SubsetsFinite ==
  ASSUME NEW m \in Nat
  PROVE  /\ \A T \in SUBSET (1 .. m) : IsFiniteSet(T) /\ Cardinality(T) \in 0 .. m
         /\ \A S \in SUBSET (SUBSET (1 .. m)) : IsFiniteSet(S) /\ Cardinality(S) \in Nat
         /\ \A k : Subsets(m, k) \in SUBSET (SUBSET (1 .. m))
<1>1. IsFiniteSet(1 .. m) /\ Cardinality(1 .. m) = m
  BY FS_Interval
<1>2. ASSUME NEW T \in SUBSET (1 .. m) PROVE IsFiniteSet(T) /\ Cardinality(T) \in 0 .. m
  <2>1. IsFiniteSet(T) /\ Cardinality(T) <= m
    BY <1>1, FS_Subset
  <2>2. Cardinality(T) \in Nat
    BY <2>1, FS_CardinalityType
  <2>. QED
    BY <2>1, <2>2
<1>3. IsFiniteSet(SUBSET (1 .. m))
  BY <1>1, FS_SUBSET
<1>4. ASSUME NEW S \in SUBSET (SUBSET (1 .. m)) PROVE IsFiniteSet(S) /\ Cardinality(S) \in Nat
  BY <1>3, FS_Subset, FS_CardinalityType
<1>. QED
  BY <1>2, <1>4 DEF Subsets

\* Those of one item more: without it and with it.
LEMMA SubsetsNext ==
  ASSUME NEW m \in Nat, NEW k \in Nat
  PROVE  Cardinality(Subsets(m + 1, k + 1)) =
            Cardinality(Subsets(m, k + 1)) + Cardinality(Subsets(m, k))
<1> DEFINE A == Subsets(m, k + 1)
           B == Subsets(m, k)
           C == {T \in Subsets(m + 1, k + 1) : m + 1 \in T}
           f == [T \in B |-> T \cup {m + 1}]
<1>1. \A T \in SUBSET (1 .. m) : IsFiniteSet(T) /\ Cardinality(T) \in 0 .. m
  BY SubsetsFinite, Zenon
<1>2. \A T \in SUBSET (1 .. (m + 1)) : IsFiniteSet(T) /\ Cardinality(T) \in 0 .. (m + 1)
  <2>1. m + 1 \in Nat
    OBVIOUS
  <2>. QED
    BY <2>1, SubsetsFinite, Zenon
<1>3. IsFiniteSet(A) /\ IsFiniteSet(B)
  BY SubsetsFinite
<1>4. ASSUME NEW T \in B PROVE f[T] \in C
  <2>1. T \in SUBSET (1 .. m) /\ Cardinality(T) = k /\ m + 1 \notin T /\ IsFiniteSet(T)
    BY <1>1 DEF Subsets
  <2>2. Cardinality(T \cup {m + 1}) = k + 1
    BY <2>1, FS_AddElement
  <2>. QED
    BY <2>1, <2>2 DEF Subsets
<1>5. ASSUME NEW T \in B, NEW U \in B, f[T] = f[U] PROVE T = U
  <2>1. m + 1 \notin T /\ m + 1 \notin U /\ T \cup {m + 1} = U \cup {m + 1}
    BY <1>5 DEF Subsets
  <2>. QED
    BY <2>1
<1>6. ASSUME NEW T \in C PROVE \E U \in B : f[U] = T
  <2>1. /\ T \in SUBSET (1 .. (m + 1)) /\ Cardinality(T) = k + 1 /\ m + 1 \in T
        /\ IsFiniteSet(T)
    BY <1>2 DEF Subsets
  <2>2. Cardinality(T \ {m + 1}) = k
    BY <2>1, FS_RemoveElement
  <2>3. T \ {m + 1} \in B
    BY <2>1, <2>2 DEF Subsets
  <2>4. (T \ {m + 1}) \cup {m + 1} = T
    BY <2>1
  <2>. QED
    BY <2>3, <2>4
<1>7. f \in Bijection(B, C)
  <2> HIDE DEF B, C
  <2>1. f \in [B -> C]
    BY <1>4
  <2>2. \A T, U \in B : f[T] = f[U] => T = U
    BY <1>5
  <2>3. \A T \in C : \E U \in B : f[U] = T
    BY <1>6
  <2> HIDE DEF f
  <2>. QED
    BY <2>1, <2>2, <2>3, Zenon DEF Bijection, Injection, Surjection, IsInjective
<1>8. IsFiniteSet(C) /\ Cardinality(C) = Cardinality(B)
  <2> HIDE DEF B, C, f
  <2>. QED
    BY <1>3, <1>7, FS_Bijection DEF ExistsBijection
<1>9. Subsets(m + 1, k + 1) = A \cup C /\ A \cap C = {}
  <2>1. ASSUME NEW T PROVE T \in Subsets(m + 1, k + 1) <=> T \in A \/ T \in C
    <3>1. T \in SUBSET (1 .. (m + 1)) /\ m + 1 \notin T <=> T \in SUBSET (1 .. m)
      OBVIOUS
    <3>. QED
      BY <3>1 DEF Subsets
  <2>2. \A T \in A : m + 1 \notin T
    BY DEF Subsets
  <2>. QED
    BY <2>1, <2>2
<1> HIDE DEF A, B, C, f
<1>10. Cardinality(A \cup C) = Cardinality(A) + Cardinality(C)
  BY <1>3, <1>8, <1>9, Apart
<1>. QED
  BY <1>8, <1>9, <1>10 DEF A, B

\* There are as many as the recurrence of the code says.
LEMMA SubsetsCounted == \A m, k \in Nat : Cardinality(Subsets(m, k)) = Ways(m, k)
<1> DEFINE S == {m \in Nat : \A k \in Nat : Cardinality(Subsets(m, k)) = Ways(m, k)}
<1>0. ASSUME NEW m \in Nat PROVE Cardinality(Subsets(m, 0)) = 1
  <2>1. \A T \in SUBSET (1 .. m) : IsFiniteSet(T)
    BY SubsetsFinite, Zenon
  <2>2. Subsets(m, 0) = {{}}
    BY <2>1, FS_EmptySet DEF Subsets
  <2>. QED
    BY <2>2, FS_Singleton
<1>1. 0 \in S
  <2> SUFFICES ASSUME NEW k \in Nat PROVE Cardinality(Subsets(0, k)) = Ways(0, k)
    OBVIOUS
  <2>1. CASE k = 0
    BY <2>1, <1>0, WaysAre DEF WaysOf
  <2>2. CASE k # 0
    <3>1. \A T \in SUBSET (1 .. 0) : T = {}
      OBVIOUS
    <3>2. Subsets(0, k) = {}
      BY <2>2, <3>1, FS_EmptySet DEF Subsets
    <3>. QED
      BY <2>2, <3>2, FS_EmptySet DEF Ways
  <2>. QED
    BY <2>1, <2>2
<1>2. ASSUME NEW m \in Nat, m \in S PROVE m + 1 \in S
  <2> SUFFICES ASSUME NEW k \in Nat PROVE Cardinality(Subsets(m + 1, k)) = Ways(m + 1, k)
    OBVIOUS
  <2>1. CASE k = 0
    <3>1. m + 1 \in Nat
      OBVIOUS
    <3>. QED
      BY <2>1, <3>1, <1>0, WaysAre DEF WaysOf
  <2>2. CASE k # 0
    <3> DEFINE q == k - 1
    <3>1. q \in Nat /\ q + 1 = k
      BY <2>2
    <3> HIDE DEF q
    <3>2. Cardinality(Subsets(m + 1, q + 1)) =
             Cardinality(Subsets(m, q + 1)) + Cardinality(Subsets(m, q))
      BY <3>1, SubsetsNext
    <3>3. Ways(m + 1, q + 1) = Ways(m, q + 1) + Ways(m, q)
      BY <3>1, WaysAre
    <3>4. /\ Cardinality(Subsets(m, q + 1)) = Ways(m, q + 1)
          /\ Cardinality(Subsets(m, q)) = Ways(m, q)
      BY <3>1, <1>2
    <3>. QED
      BY <3>1, <3>2, <3>3, <3>4
  <2>. QED
    BY <2>1, <2>2
<1> HIDE DEF S
<1>3. \A m \in Nat : m \in S
  BY <1>1, <1>2, Induction
<1>. QED
  BY <1>3 DEF S

\* The items at the positions of a sequence.
Held(s) == {s[i] : i \in DOMAIN s}

\* A combination holds as many items as it has positions.
LEMMA HeldIsSubset ==
  ASSUME conf.n \in Nat, NEW k \in Nat, NEW s \in Combination(k)
  PROVE  Held(s) \in Subsets(conf.n, k)
<1>1. s \in [1 .. k -> 1 .. conf.n] /\ \A i, j \in 1 .. k : i <= j => s[j] - s[i] >= j - i
  BY DEF Combination, Ascending
<1>2. Held(s) = {s[i] : i \in 1 .. k} /\ Held(s) \in SUBSET (1 .. conf.n)
  BY <1>1 DEF Held
<1>3. s \in Bijection(1 .. k, Held(s))
  <2>1. s \in [1 .. k -> Held(s)]
    BY <1>1, <1>2
  <2>2. ASSUME NEW i \in 1 .. k, NEW j \in 1 .. k, s[i] = s[j] PROVE i = j
    <3>1. s[i] \in 1 .. conf.n /\ s[j] \in 1 .. conf.n
      BY <1>1
    <3>2. (i <= j => s[j] - s[i] >= j - i) /\ (j <= i => s[i] - s[j] >= i - j)
      BY <1>1
    <3>. QED
      BY <2>2, <3>1, <3>2
  <2>3. \A x \in Held(s) : \E i \in 1 .. k : s[i] = x
    BY <1>2
  <2>. QED
    BY <2>1, <2>2, <2>3, Zenon DEF Bijection, Injection, Surjection, IsInjective
<1>4. IsFiniteSet(1 .. k) /\ Cardinality(1 .. k) = k
  BY FS_Interval
<1>5. Cardinality(Held(s)) = k
  BY <1>3, <1>4, FS_Bijection DEF ExistsBijection
<1>. QED
  BY <1>2, <1>5 DEF Subsets

\* The items of a set can be lined up.
LEMMA SubsetIsHeld ==
  ASSUME conf.n \in Nat, NEW k \in Nat, NEW T \in Subsets(conf.n, k)
  PROVE  \E s \in Combination(k) : Held(s) = T
<1> DEFINE Lined(m, q) == {s \in [1 .. q -> 1 .. m] : Ascending(s)}
           S == {m \in Nat : \A q \in Nat : \A U \in Subsets(m, q) :
                                \E s \in Lined(m, q) : Held(s) = U}
<1>0. ASSUME NEW m \in Nat, NEW U \in Subsets(m, 0) PROVE \E s \in Lined(m, 0) : Held(s) = U
  <2>1. U = {}
    <3>1. IsFiniteSet(U) /\ Cardinality(U) = 0
      BY SubsetsFinite DEF Subsets
    <3>. QED
      BY <3>1, FS_EmptySet
  <2> DEFINE s == [i \in 1 .. 0 |-> i]
  <2>2. s \in [1 .. 0 -> 1 .. m] /\ DOMAIN s = {}
    OBVIOUS
  <2> HIDE DEF s
  <2>3. s \in Lined(m, 0) /\ Held(s) = {}
    BY <2>2 DEF Ascending, Held
  <2>. QED
    BY <2>1, <2>3
<1>1. 0 \in S
  <2> SUFFICES ASSUME NEW q \in Nat, NEW U \in Subsets(0, q)
               PROVE  \E s \in Lined(0, q) : Held(s) = U
    OBVIOUS
  <2>1. U = {} /\ Cardinality(U) = q
    BY DEF Subsets
  <2>2. q = 0
    BY <2>1, FS_EmptySet
  <2>. QED
    BY <2>2, <1>0
<1>2. ASSUME NEW m \in Nat, m \in S PROVE m + 1 \in S
  <2> SUFFICES ASSUME NEW q \in Nat, NEW U \in Subsets(m + 1, q)
               PROVE  \E s \in Lined(m + 1, q) : Held(s) = U
    OBVIOUS
  <2>0. m + 1 \in Nat
    OBVIOUS
  <2>1. U \in SUBSET (1 .. (m + 1)) /\ Cardinality(U) = q /\ IsFiniteSet(U)
    BY <2>0, SubsetsFinite DEF Subsets
  <2>2. CASE m + 1 \notin U
    <3>1. U \in Subsets(m, q)
      BY <2>1, <2>2 DEF Subsets
    <3>2. PICK s \in Lined(m, q) : Held(s) = U
      BY <1>2, <3>1
    <3>3. s \in Lined(m + 1, q)
      OBVIOUS
    <3>. QED
      BY <3>2, <3>3
  <2>3. CASE m + 1 \in U
    <3> DEFINE p == q - 1
               V == U \ {m + 1}
    <3>1. q # 0
      BY <2>1, <2>3, FS_EmptySet
    <3>2. p \in Nat /\ p + 1 = q
      BY <3>1
    <3>3. V \in Subsets(m, p)
      <4>1. Cardinality(V) = p
        BY <2>1, <2>3, FS_RemoveElement
      <4>2. V \in SUBSET (1 .. m)
        BY <2>1
      <4> HIDE DEF V, p
      <4>. QED
        BY <4>1, <4>2 DEF Subsets
    <3>4. PICK r \in Lined(m, p) : Held(r) = V
      BY <1>2, <3>2, <3>3
    <3> DEFINE s == [i \in 1 .. q |-> IF i = q THEN m + 1 ELSE r[i]]
    <3> HIDE DEF p
    <3>5. r \in [1 .. p -> 1 .. m] /\ \A i, j \in 1 .. p : i <= j => r[j] - r[i] >= j - i
      BY DEF Ascending
    <3>6. s \in [1 .. q -> 1 .. (m + 1)]
      <4> SUFFICES ASSUME NEW i \in 1 .. q PROVE s[i] \in 1 .. (m + 1)
        OBVIOUS
      <4>1. CASE i = q
        BY <4>1
      <4>2. CASE i # q
        <5>1. i \in 1 .. p
          BY <3>2, <4>2
        <5>2. r[i] \in 1 .. m
          BY <3>5, <5>1
        <5>. QED
          BY <4>2, <5>2
      <4>. QED
        BY <4>1, <4>2
    <3>7. ASSUME NEW i \in 1 .. q, NEW j \in 1 .. q, i <= j PROVE s[j] - s[i] >= j - i
      <4>1. CASE j # q
        <5>1. i \in 1 .. p /\ j \in 1 .. p /\ i # q
          BY <3>2, <3>7, <4>1
        <5>. QED
          BY <3>5, <3>7, <4>1, <5>1
      <4>2. CASE j = q /\ i # q
        <5>1. i \in 1 .. p /\ p \in 1 .. p
          BY <3>2, <4>2
        <5>2. r[p] - r[i] >= p - i /\ r[p] \in 1 .. m /\ r[i] \in 1 .. m
          BY <3>5, <5>1
        <5>3. s[j] = m + 1 /\ s[i] = r[i]
          BY <4>2
        <5>. QED
          BY <3>2, <4>2, <5>2, <5>3
      <4>3. CASE j = q /\ i = q
        BY <4>3
      <4>. QED
        BY <4>1, <4>2, <4>3
    <3>8. Held(s) = U
      <4>1. ASSUME NEW x PROVE x \in Held(s) <=> x \in V \/ x = m + 1
        <5>1. x \in V <=> \E i \in 1 .. p : x = r[i]
          BY <3>4, <3>5 DEF Held
        <5>2. DOMAIN s = 1 .. q
          OBVIOUS
        <5>3. x \in Held(s) <=> \E i \in 1 .. q : x = s[i]
          BY <5>2 DEF Held
        <5>4. /\ q \in 1 .. q /\ \A i \in 1 .. q : i # q <=> i \in 1 .. p
              /\ \A i \in 1 .. p : i \in 1 .. q /\ i # q
          BY <3>1, <3>2
        <5>5. s[q] = m + 1
          BY <5>4
        <5>6. \A i \in 1 .. p : s[i] = r[i]
          BY <5>4
        <5> HIDE DEF s, V
        <5>7. ASSUME NEW i \in 1 .. q, x = s[i] PROVE x \in V \/ x = m + 1
          <6>1. i = q \/ i \in 1 .. p
            BY <5>4
          <6>. QED
            BY <5>1, <5>5, <5>6, <5>7, <6>1
        <5>8. ASSUME NEW i \in 1 .. p, x = r[i] PROVE \E j \in 1 .. q : x = s[j]
          BY <5>4, <5>6, <5>8
        <5>. QED
          BY <5>1, <5>3, <5>4, <5>5, <5>7, <5>8
      <4>. QED
        BY <2>3, <4>1
    <3>9. s \in Lined(m + 1, q)
      <4> HIDE DEF s
      <4>. QED
        BY <3>6, <3>7 DEF Ascending
    <3>. QED
      BY <3>8, <3>9
  <2>. QED
    BY <2>2, <2>3
<1> HIDE DEF S
<1>3. conf.n \in S
  BY <1>1, <1>2, Induction
<1>. QED
  BY <1>3 DEF S, Combination

-----------------------------------------------------------------------------
(***************************************************************************)
(* The order of the shift is the order of the promise.                     *)
(***************************************************************************)
LEMMA SameWords ==
  /\ \A S : Slice!Cardinality(S) = Cardinality(S)
  /\ \A S : Slice!Min(S) = Min(S)
BY DEF Slice!Cardinality, Cardinality, Slice!Min, Min

\* Of two combinations of a size one comes first, the order is strict.
LEMMA LexOrders ==
  ASSUME NEW k \in Nat, NEW s \in [1 .. k -> Int], NEW t \in [1 .. k -> Int]
  PROVE  /\ s # t => LexLess(s, t) \/ LexLess(t, s)
         /\ ~ (LexLess(s, t) /\ LexLess(t, s))
         /\ \A u \in [1 .. k -> Int] : LexLess(s, t) /\ LexLess(t, u) => LexLess(s, u)
<1>0. \A u, v \in [1 .. k -> Int] :
         LexLess(u, v) <=> \E g \in 1 .. k : u[g] < v[g] /\ \A i \in 1 .. (g - 1) : u[i] = v[i]
  BY DEF LexLess
<1>1. ASSUME s # t PROVE LexLess(s, t) \/ LexLess(t, s)
  <2> DEFINE D == {i \in 1 .. k : s[i] # t[i]}
  <2>1. D # {} /\ D \subseteq Nat
    BY <1>1
  <2>2. PICK g \in D : \A y \in D : ~ (<<y, g>> \in OpToRel(<, Nat))
    BY <2>1, NatLessThanWellFounded, WFMin, Zenon
  <2>3. g \in 1 .. k /\ s[g] # t[g] /\ s[g] \in Int /\ t[g] \in Int
    OBVIOUS
  <2>4. ASSUME NEW i \in 1 .. (g - 1) PROVE s[i] = t[i]
    <3> SUFFICES ASSUME s[i] # t[i] PROVE FALSE
      OBVIOUS
    <3>1. i \in D /\ i \in Nat /\ g \in Nat /\ i < g
      BY <2>3
    <3>. QED
      BY <2>2, <3>1 DEF OpToRel
  <2>5. s[g] < t[g] \/ t[g] < s[g]
    BY <2>3
  <2>. QED
    BY <1>0, <2>3, <2>4, <2>5
<1>2. ASSUME LexLess(s, t), LexLess(t, s) PROVE FALSE
  <2>1. PICK g \in 1 .. k : s[g] < t[g] /\ \A i \in 1 .. (g - 1) : s[i] = t[i]
    BY <1>0, <1>2
  <2>2. PICK h \in 1 .. k : t[h] < s[h] /\ \A i \in 1 .. (h - 1) : t[i] = s[i]
    BY <1>0, <1>2
  <2>3. s[g] \in Int /\ t[g] \in Int /\ s[h] \in Int /\ t[h] \in Int
    OBVIOUS
  <2>. QED
    BY <2>1, <2>2, <2>3
<1>3. ASSUME NEW u \in [1 .. k -> Int], LexLess(s, t), LexLess(t, u) PROVE LexLess(s, u)
  <2>1. PICK g \in 1 .. k : s[g] < t[g] /\ \A i \in 1 .. (g - 1) : s[i] = t[i]
    BY <1>0, <1>3
  <2>2. PICK h \in 1 .. k : t[h] < u[h] /\ \A i \in 1 .. (h - 1) : t[i] = u[i]
    BY <1>0, <1>3
  <2>3. /\ s[g] \in Int /\ t[g] \in Int /\ u[g] \in Int
        /\ s[h] \in Int /\ t[h] \in Int /\ u[h] \in Int
    OBVIOUS
  <2>4. CASE g <= h
    <3>1. t[g] <= u[g]
      <4>1. CASE g = h
        BY <2>2, <2>3, <4>1
      <4>2. CASE g < h
        <5>1. g \in 1 .. (h - 1)
          BY <4>2
        <5>. QED
          BY <2>2, <2>3, <5>1
      <4>. QED
        BY <2>4, <4>1, <4>2
    <3>2. ASSUME NEW i \in 1 .. (g - 1) PROVE s[i] = u[i]
      <4>1. i \in 1 .. (h - 1)
        BY <2>4
      <4>. QED
        BY <2>1, <2>2, <4>1
    <3>3. s[g] < u[g] /\ \A i \in 1 .. (g - 1) : s[i] = u[i]
      BY <2>1, <2>3, <3>1, <3>2
    <3>. QED
      BY <1>0, <3>3
  <2>5. CASE h < g
    <3>1. s[h] < u[h] /\ \A i \in 1 .. (h - 1) : s[i] = u[i]
      BY <2>1, <2>2, <2>3, <2>5
    <3>. QED
      BY <1>0, <3>1
  <2>. QED
    BY <2>4, <2>5
<1>. QED
  BY <1>1, <1>2, <1>3

\* The first item in which two combinations differ.
LEMMA FirstDifference ==
  ASSUME conf.n \in Nat, NEW k \in Nat, NEW s \in Combination(k), NEW t \in Combination(k),
         LexLess(s, t)
  PROVE  /\ Held(s) # Held(t)
         /\ Min((Held(s) \ Held(t)) \cup (Held(t) \ Held(s))) \in Held(s) \ Held(t)
<1> DEFINE A == Held(s)
           B == Held(t)
           D == (A \ B) \cup (B \ A)
<1>1. /\ s \in [1 .. k -> 1 .. conf.n] /\ \A i, j \in 1 .. k : i <= j => s[j] - s[i] >= j - i
      /\ t \in [1 .. k -> 1 .. conf.n] /\ \A i, j \in 1 .. k : i <= j => t[j] - t[i] >= j - i
  BY DEF Combination, Ascending
<1>2. PICK g \in 1 .. k : s[g] < t[g] /\ \A i \in 1 .. (g - 1) : s[i] = t[i]
  BY <1>1 DEF LexLess
<1>3. A = {s[i] : i \in 1 .. k} /\ B = {t[i] : i \in 1 .. k}
  BY <1>1 DEF Held
<1>4. \A i \in 1 .. k : s[i] \in 1 .. conf.n /\ t[i] \in 1 .. conf.n
  BY <1>1
<1> HIDE DEF A, B
<1>5. s[g] \in A
  BY <1>3
<1>6. s[g] \notin B
  <2> SUFFICES ASSUME NEW i \in 1 .. k, s[g] = t[i] PROVE FALSE
    BY <1>3
  <2>1. CASE i < g
    <3>1. t[i] = s[i] /\ s[g] - s[i] >= g - i /\ s[g] \in Int /\ s[i] \in Int
      BY <1>1, <1>2, <1>4, <2>1
    <3>. QED
      BY <2>1, <3>1
  <2>2. CASE i >= g
    <3>1. t[i] - t[g] >= i - g /\ t[i] \in Int /\ t[g] \in Int /\ s[g] \in Int
      BY <1>1, <1>4, <2>2
    <3>. QED
      BY <1>2, <2>2, <3>1
  <2>. QED
    BY <2>1, <2>2
<1>7. ASSUME NEW x \in D PROVE s[g] <= x
  <2>1. CASE x \in A \ B
    <3>1. PICK i \in 1 .. k : x = s[i]
      BY <1>3, <2>1
    <3>2. ~ (i < g)
      <4> SUFFICES ASSUME i < g PROVE FALSE
        OBVIOUS
      <4>1. x = t[i]
        BY <1>2, <3>1
      <4>. QED
        BY <1>3, <2>1, <4>1
    <3>3. s[i] - s[g] >= i - g /\ s[i] \in Int /\ s[g] \in Int
      BY <1>1, <1>4, <3>2
    <3>. QED
      BY <3>1, <3>2, <3>3
  <2>2. CASE x \in B \ A
    <3>1. PICK i \in 1 .. k : x = t[i]
      BY <1>3, <2>2
    <3>2. ~ (i < g)
      <4> SUFFICES ASSUME i < g PROVE FALSE
        OBVIOUS
      <4>1. x = s[i]
        BY <1>2, <3>1
      <4>. QED
        BY <1>3, <2>2, <4>1
    <3>3. t[i] - t[g] >= i - g /\ t[i] \in Int /\ t[g] \in Int /\ s[g] \in Int
      BY <1>1, <1>4, <3>2
    <3>. QED
      BY <1>2, <3>1, <3>2, <3>3
  <2>. QED
    BY <2>1, <2>2
<1>8. s[g] \in D /\ D \subseteq Int
  BY <1>3, <1>4, <1>5, <1>6
<1>9. Min(D) = s[g]
  <2> HIDE DEF D
  <2>1. Min(D) \in D /\ \A y \in D : Min(D) <= y
    BY <1>7, <1>8, Zenon DEF Min
  <2>2. Min(D) <= s[g] /\ s[g] <= Min(D) /\ Min(D) \in Int /\ s[g] \in Int
    BY <1>7, <1>8, <2>1
  <2>. QED
    BY <2>2
<1>. QED
  BY <1>5, <1>6, <1>9 DEF A, B

LEMMA OrderIsPromised ==
  ASSUME conf.n \in Nat, NEW k \in Nat, NEW s \in Combination(k), NEW t \in Combination(k)
  PROVE  /\ LexLess(s, t) <=> /\ Held(s) # Held(t)
                              /\ Min((Held(s) \ Held(t)) \cup (Held(t) \ Held(s))) \in Held(s)
         /\ Held(s) = Held(t) => s = t
<1>1. s \in [1 .. k -> Int] /\ t \in [1 .. k -> Int]
  BY DEF Combination
<1> DEFINE m == Min((Held(s) \ Held(t)) \cup (Held(t) \ Held(s)))
           w == Min((Held(t) \ Held(s)) \cup (Held(s) \ Held(t)))
<1>2. (Held(s) \ Held(t)) \cup (Held(t) \ Held(s)) = (Held(t) \ Held(s)) \cup (Held(s) \ Held(t))
  OBVIOUS
<1>3. m = w
  BY <1>2
<1>4. LexLess(s, t) => Held(s) # Held(t) /\ m \in Held(s) \ Held(t)
  BY FirstDifference
<1>5. LexLess(t, s) => Held(s) # Held(t) /\ w \in Held(t) \ Held(s)
  BY FirstDifference
<1> HIDE DEF m, w
<1>6. s # t => LexLess(s, t) \/ LexLess(t, s)
  BY <1>1, LexOrders
<1>. QED
  BY <1>3, <1>4, <1>5, <1>6 DEF m

\* Those of k items that come before S.
Lower(k, S) == {T \in Subsets(conf.n, k) : Slice!Before(conf, T, S)}

LEMMA BeforeIsLexLess ==
  ASSUME conf.n \in Nat, NEW k \in Nat, NEW s \in Combination(k), NEW t \in Combination(k), NEW c
  PROVE  Slice!Before(c, Held(s), Held(t)) <=> LexLess(s, t)
<1>1. Cardinality(Held(s)) = k /\ Cardinality(Held(t)) = k
  BY HeldIsSubset DEF Subsets
<1> DEFINE m == Min((Held(s) \ Held(t)) \cup (Held(t) \ Held(s)))
<1>2. LexLess(s, t) <=> Held(s) # Held(t) /\ m \in Held(s)
  BY OrderIsPromised
<1>3. Slice!Min((Held(s) \ Held(t)) \cup (Held(t) \ Held(s))) = m
  BY SameWords
<1>4. Slice!Cardinality(Held(s)) = Slice!Cardinality(Held(t))
  BY <1>1, SameWords
<1> HIDE DEF m
<1>. QED
  BY <1>2, <1>3, <1>4 DEF Slice!Before

\* No combination of a size is before the leading items.
LEMMA LeadingIsFirst ==
  ASSUME conf.n \in Nat, NEW k \in 1 .. conf.n
  PROVE  Lower(k, Held(Leading(k))) = {}
<1> SUFFICES ASSUME NEW T \in Lower(k, Held(Leading(k))) PROVE FALSE
  OBVIOUS
<1>0. k \in Nat /\ Leading(k) \in Combination(k)
  BY LeadingToGo
<1>1. T \in Subsets(conf.n, k) /\ Slice!Before(conf, T, Held(Leading(k)))
  BY DEF Lower
<1>2. PICK t \in Combination(k) : Held(t) = T
  BY <1>0, <1>1, SubsetIsHeld
<1>3. LexLess(t, Leading(k))
  BY <1>0, <1>1, <1>2, BeforeIsLexLess
<1>4. t \in [1 .. k -> 1 .. conf.n] /\ \A i, j \in 1 .. k : i <= j => t[j] - t[i] >= j - i
  BY DEF Combination, Ascending
<1>5. PICK g \in 1 .. k : t[g] < g
  BY <1>3, <1>4 DEF LexLess, Leading
<1>6. t[g] - t[1] >= g - 1 /\ t[1] \in 1 .. conf.n /\ t[g] \in 1 .. conf.n
  BY <1>4
<1>. QED
  BY <1>5, <1>6

\* The shift adds the combination it leaves to those that come before.
LEMMA ShiftedIsNext ==
  ASSUME conf.n \in Nat, NEW k \in Nat \ {0}, NEW s \in Combination(k), ToGo(s) # 0
  PROVE  Cardinality(Lower(k, Held(Shifted(s)))) = Cardinality(Lower(k, Held(s))) + 1
<1> DEFINE u == Shifted(s)
<1>1. /\ u \in Combination(k) /\ s \in [1 .. k -> Int] /\ u \in [1 .. k -> Int]
      /\ LexLess(s, u)
      /\ \A t \in Combination(k) : ~ (LexLess(s, t) /\ LexLess(t, u))
  <2>1. u \in Combination(k)
    BY ShiftedToGo
  <2>2. s \in [1 .. k -> Int] /\ Ascending(s)
    BY DEF Combination
  <2>. QED
    BY <2>1, <2>2, ShiftedIsSuccessor DEF Combination
<1> HIDE DEF u
<1>2. Held(s) \in Subsets(conf.n, k)
  BY HeldIsSubset
<1>3. ASSUME NEW T \in Subsets(conf.n, k)
      PROVE  T \in Lower(k, Held(u)) <=> T \in Lower(k, Held(s)) \/ T = Held(s)
  <2>1. PICK t \in Combination(k) : Held(t) = T
    BY SubsetIsHeld
  <2>2. t \in [1 .. k -> Int]
    BY DEF Combination
  <2>3. /\ T \in Lower(k, Held(u)) <=> LexLess(t, u)
        /\ T \in Lower(k, Held(s)) <=> LexLess(t, s)
    BY <1>1, <2>1, BeforeIsLexLess DEF Lower
  <2>4. T = Held(s) <=> t = s
    BY <2>1, OrderIsPromised
  <2>5. t # s => LexLess(t, s) \/ LexLess(s, t)
    BY <1>1, <2>2, LexOrders
  <2>6. LexLess(t, s) /\ LexLess(s, u) => LexLess(t, u)
    BY <1>1, <2>2, LexOrders
  <2>. QED
    BY <1>1, <2>3, <2>4, <2>5, <2>6
<1>4. Lower(k, Held(u)) = Lower(k, Held(s)) \cup {Held(s)}
  BY <1>2, <1>3 DEF Lower
<1>5. Held(s) \notin Lower(k, Held(s))
  <2>1. ~ LexLess(s, s)
    BY <1>1, LexOrders
  <2>. QED
    BY <2>1, BeforeIsLexLess DEF Lower
<1>6. IsFiniteSet(Lower(k, Held(s)))
  <2>1. Lower(k, Held(s)) \in SUBSET (SUBSET (1 .. conf.n))
    BY DEF Lower, Subsets
  <2>. QED
    BY <2>1, SubsetsFinite
<1>7. Cardinality(Lower(k, Held(s)) \cup {Held(s)}) = Cardinality(Lower(k, Held(s))) + 1
  BY <1>5, <1>6, FS_AddElement
<1>. QED
  BY <1>4, <1>7 DEF u

-----------------------------------------------------------------------------
(***************************************************************************)
(* The sizes of the promise are those of the loops.                        *)
(***************************************************************************)

\* The combinations of the first j sizes.
FirstSizes(c, j) ==
    {T \in SUBSET (1 .. c.n) : \E i \in 1 .. j : Cardinality(T) = SizeAt(c, i)}

LEMMA FirstSizesCounted ==
  ASSUME NEW c, ConfigOK(c), c.n >= 1
  PROVE  \A j \in 0 .. HowManySizes(c) :
            Cardinality(FirstSizes(c, j)) = SumTo(SizeNumbers(c))[j]
<1>0. c.n \in Nat /\ SetInit(c) \in 1 .. c.n /\ SetDone(c) \in 1 .. c.n
  BY RangeOfSizes, SizesWithin DEF ConfigOK
<1>1. /\ HowManySizes(c) \in Nat \ {0}
      /\ SumTo(SizeNumbers(c))[0] = 0
      /\ \A i \in 1 .. HowManySizes(c) :
            SumTo(SizeNumbers(c))[i] = SumTo(SizeNumbers(c))[i - 1] + Ways(c.n, SizeAt(c, i))
  BY SizesAdd
<1> DEFINE S == {j \in Nat : j <= HowManySizes(c) =>
                    Cardinality(FirstSizes(c, j)) = SumTo(SizeNumbers(c))[j]}
<1>2. 0 \in S
  <2>1. FirstSizes(c, 0) = {}
    BY DEF FirstSizes
  <2>. QED
    BY <1>1, <2>1, FS_EmptySet
<1>3. ASSUME NEW j \in Nat, j \in S PROVE j + 1 \in S
  <2> SUFFICES ASSUME j + 1 <= HowManySizes(c)
               PROVE  Cardinality(FirstSizes(c, j + 1)) = SumTo(SizeNumbers(c))[j + 1]
    OBVIOUS
  <2> DEFINE A == FirstSizes(c, j)
             k == SizeAt(c, j + 1)
             B == Subsets(c.n, k)
  <2>1. k \in Nat /\ \A i \in 1 .. j : SizeAt(c, i) # k
    BY <1>0, <1>1 DEF SizeAt, HowManySizes, Increasing
  <2>2. FirstSizes(c, j + 1) = A \cup B
    <3>1. \A i : i \in 1 .. (j + 1) <=> i \in 1 .. j \/ i = j + 1
      OBVIOUS
    <3>. QED
      BY <3>1 DEF FirstSizes, Subsets
  <2>3. A \cap B = {}
    BY <2>1 DEF FirstSizes, Subsets
  <2>4. A \in SUBSET (SUBSET (1 .. c.n)) /\ B \in SUBSET (SUBSET (1 .. c.n))
    BY DEF FirstSizes, Subsets
  <2>5. /\ IsFiniteSet(A) /\ Cardinality(A) \in Nat
        /\ IsFiniteSet(B) /\ Cardinality(B) \in Nat
    BY <1>0, <2>4, SubsetsFinite
  <2> HIDE DEF A, B, k
  <2>6. Cardinality(A \cup B) = Cardinality(A) + Cardinality(B)
    BY <2>3, <2>5, Apart
  <2>7. Cardinality(B) = Ways(c.n, k)
    BY <1>0, <2>1, SubsetsCounted DEF B
  <2>8. j + 1 \in 1 .. HowManySizes(c) /\ (j + 1) - 1 = j
        /\ Cardinality(A) = SumTo(SizeNumbers(c))[j]
    BY <1>1, <1>3 DEF A
  <2>9. SumTo(SizeNumbers(c))[j + 1] = SumTo(SizeNumbers(c))[j] + Ways(c.n, k)
    BY <1>1, <2>8 DEF k
  <2>. QED
    BY <2>2, <2>6, <2>7, <2>8, <2>9
<1> HIDE DEF S
<1>4. \A j \in Nat : j \in S
  BY <1>2, <1>3, Induction
<1>. QED
  BY <1>1, <1>4 DEF S

\* What is counted is something.
LEMMA SumPositive ==
  ASSUME NEW c, ConfigOK(c), c.n >= 1
  PROVE  SumOfSets(c) \in Nat \ {0}
<1> DEFINE last == HowManySizes(c)
<1>0. c.n \in Nat /\ SetInit(c) \in 1 .. c.n /\ SetDone(c) \in 1 .. c.n
  BY RangeOfSizes, SizesWithin DEF ConfigOK
<1>1. /\ last \in Nat \ {0} /\ last \in 1 .. last /\ last - 1 \in 0 .. last
      /\ SumTo(SizeNumbers(c))[last] = SumTo(SizeNumbers(c))[last - 1] + Ways(c.n, SizeAt(c, last))
  BY SizesAdd
<1>2. SumTo(SizeNumbers(c))[last - 1] = Cardinality(FirstSizes(c, last - 1))
  BY <1>1, FirstSizesCounted
<1>3. Cardinality(FirstSizes(c, last - 1)) \in Nat
  <2>1. FirstSizes(c, last - 1) \in SUBSET (SUBSET (1 .. c.n))
    BY DEF FirstSizes
  <2>. QED
    BY <1>0, <2>1, SubsetsFinite
<1>4. Ways(c.n, SizeAt(c, last)) \in Nat /\ Ways(c.n, SizeAt(c, last)) >= 1
  <2>1. SizeAt(c, last) \in 0 .. c.n /\ SizeAt(c, last) \in Int
    BY <1>0 DEF SizeAt, HowManySizes, Increasing
  <2>. QED
    BY <1>0, <2>1, WaysPositive, WaysTyped
<1> HIDE DEF last
<1>5. SumTo(SizeNumbers(c))[last] \in Nat \ {0}
  BY <1>1, <1>2, <1>3, <1>4
<1>. QED
  BY <1>5 DEF SumOfSets, last

\* The range of sizes, and its direction.
LEMMA SizesArePromised ==
  ASSUME NEW c, ConfigOK(c), c.n >= 1, ~ Refuses(c)
  PROVE  /\ Slice!Decreases(c) = ~ Increasing(c)
         /\ Slice!Sizes(c) = (IF c.empty THEN {0} ELSE {})
                                \cup {SizeAt(c, i) : i \in 1 .. HowManySizes(c)}
<1>0. /\ c.n \in Nat /\ c.n # 0 /\ c.min \in Nat /\ c.max \in Nat /\ c.empty \in BOOLEAN
      /\ SetInit(c) \in 1 .. c.n /\ SetDone(c) \in 1 .. c.n
  BY RangeOfSizes, SizesWithin DEF ConfigOK
<1> DEFINE a == Requested(c).init
           b == Requested(c).done
<1>1. a = Slice!First(c) /\ b = Slice!Final(c) /\ a \in Nat \ {0} /\ b \in Nat \ {0}
  BY <1>0 DEF Requested, Slice!First, Slice!Final, Slice!MaxOf
<1>2. /\ SetInit(c) = Slice!MinOf(a, c.n) /\ SetDone(c) = Slice!MinOf(b, c.n)
      /\ SetInit(c) = (IF a > c.n THEN c.n ELSE a)
      /\ SetDone(c) = (IF b > c.n THEN c.n ELSE b)
  BY <1>0, <1>1 DEF SetInit, SetDone, Clamp, Slice!MinOf
<1>3. OutOfRange(c) <=> a > c.n /\ b > c.n
  BY DEF OutOfRange
<1> HIDE DEF a, b
<1>4. Slice!Decreases(c) = ~ Increasing(c)
  BY <1>0, <1>1, <1>2 DEF Slice!Decreases, Increasing
<1>5. Slice!TooLarge(c) <=> OutOfRange(c)
  BY <1>1, <1>3 DEF Slice!TooLarge
<1>6. OutOfRange(c) => c.empty \/ c.bn
  BY <1>0 DEF Refuses, CmbCount
<1> DEFINE R == {SizeAt(c, i) : i \in 1 .. HowManySizes(c)}
<1>7. ASSUME NEW k
      PROVE  k \in R <=> /\ k \in 1 .. c.n
                         /\ \/ SetInit(c) <= k /\ k <= SetDone(c)
                            \/ SetDone(c) <= k /\ k <= SetInit(c)
  <2>1. CASE Increasing(c)
    <3>1. ASSUME k \in 1 .. c.n, SetInit(c) <= k, k <= SetDone(c)
          PROVE  k - SetInit(c) + 1 \in 1 .. HowManySizes(c) /\ SizeAt(c, k - SetInit(c) + 1) = k
      BY <1>0, <2>1, <3>1 DEF HowManySizes, SizeAt
    <3>2. ASSUME NEW i \in 1 .. HowManySizes(c)
          PROVE  SizeAt(c, i) \in 1 .. c.n /\ SetInit(c) <= SizeAt(c, i) /\ SizeAt(c, i) <= SetDone(c)
      BY <1>0, <2>1 DEF HowManySizes, SizeAt, Increasing
    <3>3. SetInit(c) <= SetDone(c)
      BY <2>1 DEF Increasing
    <3>4. k \in R => k \in 1 .. c.n /\ SetInit(c) <= k /\ k <= SetDone(c)
      BY <3>2
    <3>5. k \in 1 .. c.n /\ SetInit(c) <= k /\ k <= SetDone(c) => k \in R
      BY <3>1
    <3> HIDE DEF R
    <3>. QED
      BY <1>0, <3>3, <3>4, <3>5
  <2>2. CASE ~ Increasing(c)
    <3>1. ASSUME k \in 1 .. c.n, SetDone(c) <= k, k <= SetInit(c)
          PROVE  SetInit(c) - k + 1 \in 1 .. HowManySizes(c) /\ SizeAt(c, SetInit(c) - k + 1) = k
      BY <1>0, <2>2, <3>1 DEF HowManySizes, SizeAt
    <3>2. ASSUME NEW i \in 1 .. HowManySizes(c)
          PROVE  SizeAt(c, i) \in 1 .. c.n /\ SetDone(c) <= SizeAt(c, i) /\ SizeAt(c, i) <= SetInit(c)
      BY <1>0, <2>2 DEF HowManySizes, SizeAt, Increasing
    <3>3. SetDone(c) < SetInit(c)
      BY <1>0, <2>2 DEF Increasing
    <3>4. k \in R => k \in 1 .. c.n /\ SetDone(c) <= k /\ k <= SetInit(c)
      BY <3>2
    <3>5. k \in 1 .. c.n /\ SetDone(c) <= k /\ k <= SetInit(c) => k \in R
      BY <3>1
    <3> HIDE DEF R
    <3>. QED
      BY <1>0, <3>3, <3>4, <3>5
  <2>. QED
    BY <2>1, <2>2
<1> DEFINE Q == IF OutOfRange(c) THEN {c.n}
                ELSE {k \in 1 .. c.n : /\ Slice!MinOf(a, b) <= k /\ k <= Slice!MaxOf(a, b)}
<1>8. Slice!Sizes(c) = (IF c.empty THEN {0} ELSE {}) \cup Q
  BY <1>0, <1>1, <1>5, <1>6, Zenon DEF Slice!Sizes
<1>9. ASSUME NEW k PROVE k \in Q <=> k \in R
  <2> HIDE DEF R
  <2>1. CASE OutOfRange(c)
    <3>1. SetInit(c) = c.n /\ SetDone(c) = c.n
      BY <1>2, <1>3, <2>1
    <3>2. k \in Q <=> k = c.n
      BY <2>1
    <3>. QED
      BY <1>0, <1>7, <3>1, <3>2
  <2>2. CASE ~ OutOfRange(c)
    <3>1. k \in Q <=> k \in 1 .. c.n /\ Slice!MinOf(a, b) <= k /\ k <= Slice!MaxOf(a, b)
      BY <2>2
    <3> HIDE DEF Q
    <3>. QED
      BY <1>0, <1>1, <1>2, <1>3, <1>7, <2>2, <3>1 DEF Slice!MinOf, Slice!MaxOf
  <2>. QED
    BY <2>1, <2>2
<1> HIDE DEF Q
<1>10. Q = R
  BY <1>9
<1>. QED
  BY <1>4, <1>8, <1>10

\* Combinations of different sizes come in the order of the sizes.
LEMMA BeforeBySize ==
  ASSUME NEW c, Slice!Decreases(c) = ~ Increasing(c), NEW T, NEW S,
         Cardinality(T) # Cardinality(S)
  PROVE  Slice!Before(c, T, S) <=>
            IF Increasing(c) THEN Cardinality(T) < Cardinality(S)
                             ELSE ~ (Cardinality(T) < Cardinality(S))
<1>1. Slice!Cardinality(T) = Cardinality(T) /\ Slice!Cardinality(S) = Cardinality(S)
  BY SameWords
<1> DEFINE p == Cardinality(T) < Cardinality(S)
<1>2. Slice!Before(c, T, S) <=> p # Slice!Decreases(c)
  BY <1>1 DEF Slice!Before
<1>3. p \in BOOLEAN /\ Increasing(c) \in BOOLEAN
  BY DEF Increasing
<1> HIDE DEF p
<1>4. Slice!Before(c, T, S) <=> IF Increasing(c) THEN p ELSE ~ p
  BY <1>2, <1>3
<1>. QED
  BY <1>4 DEF p

\* A size is at one place only; they go up or down.
LEMMA SizesInLine ==
  ASSUME NEW c, ConfigOK(c), c.n >= 1
  PROVE  /\ HowManySizes(c) \in Nat \ {0}
         /\ \A i \in 1 .. HowManySizes(c) : SizeAt(c, i) \in 1 .. c.n
         /\ \A i, j \in 1 .. HowManySizes(c) :
               /\ SizeAt(c, i) = SizeAt(c, j) => i = j
               /\ IF Increasing(c) THEN SizeAt(c, i) < SizeAt(c, j) <=> i < j
                                   ELSE SizeAt(c, j) < SizeAt(c, i) <=> i < j
<1>0. c.n \in Nat /\ SetInit(c) \in 1 .. c.n /\ SetDone(c) \in 1 .. c.n
  BY RangeOfSizes, SizesWithin DEF ConfigOK
<1>. QED
  BY <1>0 DEF HowManySizes, SizeAt, Increasing

\* What is to be given, and how much of it there is.
LEMMA CombinationsArePromised ==
  ASSUME NEW c, ConfigOK(c), c.n >= 1, ~ Refuses(c)
  PROVE  /\ Slice!Combinations(c) =
               (IF c.empty THEN {{}} ELSE {}) \cup FirstSizes(c, HowManySizes(c))
         /\ {} \notin FirstSizes(c, HowManySizes(c))
         /\ Slice!Combinations(c) \in SUBSET (SUBSET (1 .. c.n))
         /\ Cardinality(Slice!Combinations(c)) = All(c)
<1> DEFINE F == FirstSizes(c, HowManySizes(c))
           E == IF c.empty THEN {{}} ELSE {}
<1>0. c.n \in Nat
  BY DEF ConfigOK
<1>1. /\ HowManySizes(c) \in Nat \ {0}
      /\ \A i \in 1 .. HowManySizes(c) : SizeAt(c, i) \in 1 .. c.n
  BY SizesInLine
<1>2. \A T \in SUBSET (1 .. c.n) : Cardinality(T) = 0 <=> T = {}
  BY <1>0, SubsetsFinite, FS_EmptySet
<1>3. ASSUME NEW T \in SUBSET (1 .. c.n) PROVE T \in Slice!Combinations(c) <=> T \in E \/ T \in F
  <2>1. T \in Slice!Combinations(c) <=> Cardinality(T) \in Slice!Sizes(c)
    BY SameWords DEF Slice!Combinations
  <2>2. Cardinality(T) \in Slice!Sizes(c) <=>
           \/ c.empty /\ Cardinality(T) = 0
           \/ \E i \in 1 .. HowManySizes(c) : Cardinality(T) = SizeAt(c, i)
    BY SizesArePromised
  <2>. QED
    BY <1>2, <2>1, <2>2 DEF FirstSizes
<1>4. /\ Slice!Combinations(c) \in SUBSET (SUBSET (1 .. c.n))
      /\ E \in SUBSET (SUBSET (1 .. c.n)) /\ F \in SUBSET (SUBSET (1 .. c.n))
  BY DEF Slice!Combinations, FirstSizes
<1>5. Slice!Combinations(c) = E \cup F
  BY <1>3, <1>4
<1>6. {} \notin F
  BY <1>1, FS_EmptySet DEF FirstSizes
<1>7. IsFiniteSet(E) /\ IsFiniteSet(F) /\ Cardinality(F) \in Nat
  BY <1>0, <1>4, SubsetsFinite
<1>8. Cardinality(E) = EmptySets(c)
  BY FS_EmptySet, FS_Singleton DEF EmptySets
<1>9. Cardinality(F) = SumOfSets(c)
  <2>1. HowManySizes(c) \in 0 .. HowManySizes(c)
    BY <1>1
  <2>. QED
    BY <2>1, FirstSizesCounted DEF SumOfSets
<1>10. E \cap F = {}
  BY <1>6
<1> HIDE DEF E, F
<1>11. Cardinality(E \cup F) = Cardinality(E) + Cardinality(F)
  BY <1>7, <1>10, Apart
<1>12. Cardinality(E \cup F) = All(c)
  BY <1>8, <1>9, <1>11 DEF All
<1>. QED
  BY <1>4, <1>5, <1>6, <1>12 DEF E, F

\* The number of a combination of items.
LEMMA RankIs ==
  ASSUME ConfigOK(conf), conf.n >= 1, ~ Refuses(conf), NEW p \in 0 .. (HowManySizes(conf) - 1),
         NEW S \in Subsets(conf.n, SizeAt(conf, p + 1))
  PROVE  /\ S \in Slice!Combinations(conf)
         /\ Slice!Rank(conf, S) = 1 + Ahead(conf, "set") + SumTo(SizeNumbers(conf))[p]
                                    + Cardinality(Lower(SizeAt(conf, p + 1), S))
<1> DEFINE k == SizeAt(conf, p + 1)
           last == HowManySizes(conf)
           C == Slice!Combinations(conf)
           E == IF Increasing(conf) /\ conf.empty THEN {{}} ELSE {}
           F == FirstSizes(conf, p)
           L == Lower(k, S)
           B == {T \in C : Slice!Before(conf, T, S)}
<1>0. conf.n \in Nat
  BY DEF ConfigOK
<1>1. /\ last \in Nat \ {0} /\ p + 1 \in 1 .. last /\ p \in 0 .. last /\ p \in Nat
      /\ \A i : i \in 1 .. p <=> i \in 1 .. last /\ i < p + 1
  BY SizesInLine
<1>2. /\ k \in 1 .. conf.n
      /\ \A i \in 1 .. last : SizeAt(conf, i) \in 1 .. conf.n
      /\ \A i \in 1 .. last :
            /\ SizeAt(conf, i) = k => i = p + 1
            /\ IF Increasing(conf) THEN SizeAt(conf, i) < k <=> i < p + 1
                                   ELSE k < SizeAt(conf, i) <=> i < p + 1
  BY <1>1, SizesInLine
<1>3. /\ C = (IF conf.empty THEN {{}} ELSE {}) \cup FirstSizes(conf, last)
      /\ {} \notin FirstSizes(conf, last)
      /\ C \in SUBSET (SUBSET (1 .. conf.n))
  BY CombinationsArePromised
<1>4. Slice!Decreases(conf) = ~ Increasing(conf)
  BY SizesArePromised
<1>5. S \in SUBSET (1 .. conf.n) /\ Cardinality(S) = k
  BY DEF Subsets
<1>6. S \in C
  BY <1>1, <1>3, <1>5 DEF FirstSizes
<1> HIDE DEF k, last, C
<1>7. ASSUME NEW T PROVE T \in B <=> T \in E \/ T \in F \/ T \in L
  <2>1. CASE T = {}
    <3>1. Cardinality(T) = 0 /\ Cardinality(T) # Cardinality(S)
      BY <1>2, <1>5, <2>1, FS_EmptySet
    <3>2. Slice!Before(conf, T, S) <=> Increasing(conf)
      BY <1>2, <1>4, <1>5, <3>1, BeforeBySize
    <3>3. T \in C <=> conf.empty
      BY <1>3, <2>1
    <3>4. T \notin F
      BY <1>1, <1>2, <3>1 DEF FirstSizes
    <3>5. T \notin L
      BY <1>5, <3>1 DEF Lower, Subsets
    <3>6. T \in E <=> Increasing(conf) /\ conf.empty
      BY <2>1
    <3> HIDE DEF E, F, L
    <3>. QED
      BY <3>2, <3>3, <3>4, <3>5, <3>6
  <2>2. CASE T # {} /\ T \in C
    <3>1. T \in SUBSET (1 .. conf.n) /\ T \notin E
      BY <1>3, <2>2
    <3>2. PICK i \in 1 .. last : Cardinality(T) = SizeAt(conf, i)
      BY <1>3, <2>2 DEF FirstSizes
    <3>3. CASE i = p + 1
      <4>1. Cardinality(T) = k
        BY <3>2, <3>3 DEF k
      <4>2. T \in L <=> Slice!Before(conf, T, S)
        BY <3>1, <4>1 DEF Lower, Subsets
      <4>3. T \notin F
        <5> SUFFICES ASSUME T \in F PROVE FALSE
          OBVIOUS
        <5>1. PICK j \in 1 .. p : Cardinality(T) = SizeAt(conf, j)
          BY DEF FirstSizes
        <5>2. j \in 1 .. last /\ j < p + 1
          BY <1>1
        <5>3. j = p + 1
          BY <1>2, <4>1, <5>1, <5>2
        <5>. QED
          BY <5>2, <5>3
      <4> HIDE DEF L, F, E
      <4>. QED
        BY <2>2, <3>1, <4>2, <4>3
    <3>4. CASE i # p + 1
      <4>1. Cardinality(T) # k
        BY <1>2, <3>2, <3>4
      <4>2. T \notin L
        BY <4>1 DEF Lower, Subsets
      <4>3. Slice!Before(conf, T, S) <=> i < p + 1
        <5>1. Slice!Before(conf, T, S) <=>
                 IF Increasing(conf) THEN Cardinality(T) < k ELSE ~ (Cardinality(T) < k)
          BY <1>4, <1>5, <4>1, BeforeBySize
        <5>2. SizeAt(conf, i) \in 1 .. conf.n
          BY <1>2
        <5>3. IF Increasing(conf) THEN SizeAt(conf, i) < k <=> i < p + 1
                                  ELSE k < SizeAt(conf, i) <=> i < p + 1
          BY <1>2
        <5>. QED
          BY <1>2, <3>2, <4>1, <5>1, <5>2, <5>3
      <4>4. T \in F <=> i < p + 1
        <5>1. i < p + 1 => T \in F
          BY <1>1, <3>1, <3>2 DEF FirstSizes
        <5>2. ASSUME T \in F PROVE i < p + 1
          <6>1. PICK j \in 1 .. p : Cardinality(T) = SizeAt(conf, j)
            BY <5>2 DEF FirstSizes
          <6>2. j \in 1 .. last /\ j < p + 1
            BY <1>1
          <6>3. j = i
            BY <3>2, <6>1, <6>2, SizesInLine DEF last
          <6>. QED
            BY <6>2, <6>3
        <5>. QED
          BY <5>1, <5>2
      <4> HIDE DEF L, F, E
      <4>. QED
        BY <2>2, <3>1, <4>2, <4>3, <4>4
    <3>. QED
      BY <3>3, <3>4
  <2>3. CASE T # {} /\ T \notin C
    <3>1. T \notin E
      BY <2>3
    <3>2. ASSUME NEW i \in 1 .. last, T \in SUBSET (1 .. conf.n), Cardinality(T) = SizeAt(conf, i)
          PROVE  FALSE
      BY <1>3, <2>3, <3>2 DEF FirstSizes
    <3>3. T \notin F
      BY <1>1, <3>2 DEF FirstSizes
    <3>4. T \notin L
      BY <1>1, <3>2 DEF Lower, Subsets, k
    <3> HIDE DEF L, F, E
    <3>. QED
      BY <2>3, <3>1, <3>3, <3>4
  <2>. QED
    BY <2>1, <2>2, <2>3
<1>8. E \cap F = {} /\ (E \cup F) \cap L = {}
  <2>1. {} \notin F /\ {} \notin L
    <3>1. Cardinality({}) = 0
      BY FS_EmptySet
    <3>. QED
      BY <1>1, <1>2, <3>1 DEF FirstSizes, Lower, Subsets
  <2>2. ASSUME NEW T \in F, T \in L PROVE FALSE
    <3>1. Cardinality(T) = k
      BY <2>2 DEF Lower, Subsets
    <3>2. PICK j \in 1 .. p : Cardinality(T) = SizeAt(conf, j)
      BY DEF FirstSizes
    <3>3. j \in 1 .. last /\ j < p + 1
      BY <1>1
    <3>. QED
      BY <1>2, <3>1, <3>2, <3>3
  <2> HIDE DEF F, L
  <2>. QED
    BY <2>1, <2>2
<1>9. /\ E \in SUBSET (SUBSET (1 .. conf.n)) /\ F \in SUBSET (SUBSET (1 .. conf.n))
      /\ L \in SUBSET (SUBSET (1 .. conf.n))
  BY DEF FirstSizes, Lower, Subsets
<1>10. /\ IsFiniteSet(E) /\ IsFiniteSet(F) /\ IsFiniteSet(L)
       /\ Cardinality(E) \in Nat /\ Cardinality(F) \in Nat /\ Cardinality(L) \in Nat
       /\ IsFiniteSet(E \cup F)
  <2>1. E \cup F \in SUBSET (SUBSET (1 .. conf.n))
    BY <1>9
  <2>. QED
    BY <1>0, <1>9, <2>1, SubsetsFinite
<1>11. Cardinality(E) = Ahead(conf, "set")
  BY FS_EmptySet, FS_Singleton DEF Ahead
<1>12. Cardinality(F) = SumTo(SizeNumbers(conf))[p]
  BY <1>1, FirstSizesCounted DEF last
<1>13. Slice!Rank(conf, S) = 1 + Cardinality(B)
  BY SameWords DEF Slice!Rank, C
<1> HIDE DEF B, E, F, L
<1>14. B = (E \cup F) \cup L
  BY <1>7
<1>15. Cardinality(E \cup F) = Cardinality(E) + Cardinality(F)
  BY <1>8, <1>10, Apart
<1>16. Cardinality(B) = Cardinality(E \cup F) + Cardinality(L)
  BY <1>8, <1>10, <1>14, Apart
<1>17. Slice!Rank(conf, S) = 1 + Ahead(conf, "set") + SumTo(SizeNumbers(conf))[p] + Cardinality(L)
  BY <1>10, <1>11, <1>12, <1>13, <1>15, <1>16
<1>. QED
  BY <1>6, <1>17 DEF C, L, k

\* The empty set is the first combination or the last.
LEMMA RankOfEmpty ==
  ASSUME NEW c, ConfigOK(c), c.n >= 1, ~ Refuses(c), c.empty
  PROVE  /\ {} \in Slice!Combinations(c)
         /\ Slice!Rank(c, {}) = IF Increasing(c) THEN 1 ELSE All(c)
<1> DEFINE C == Slice!Combinations(c)
           F == FirstSizes(c, HowManySizes(c))
           B == {T \in C : Slice!Before(c, T, {})}
<1>1. C = {{}} \cup F /\ {} \notin F
  BY CombinationsArePromised
<1>2. /\ HowManySizes(c) \in Nat \ {0} /\ HowManySizes(c) \in 0 .. HowManySizes(c)
      /\ \A i \in 1 .. HowManySizes(c) : SizeAt(c, i) \in 1 .. c.n
  BY SizesInLine
<1>3. c.n \in Nat
  BY DEF ConfigOK
<1>4. ASSUME NEW T \in F PROVE Slice!Before(c, T, {}) <=> ~ Increasing(c)
  <2>1. PICK i \in 1 .. HowManySizes(c) : Cardinality(T) = SizeAt(c, i)
    BY DEF FirstSizes
  <2>2. Cardinality({}) = 0 /\ SizeAt(c, i) \in 1 .. c.n
    BY <1>2, FS_EmptySet
  <2>3. Cardinality(T) # Cardinality({}) /\ ~ (Cardinality(T) < Cardinality({}))
    BY <1>3, <2>1, <2>2
  <2>4. Slice!Decreases(c) = ~ Increasing(c)
    BY SizesArePromised
  <2>. QED
    BY <2>3, <2>4, BeforeBySize
<1>5. ~ Slice!Before(c, {}, {})
  BY DEF Slice!Before
<1>6. Slice!Rank(c, {}) = 1 + Cardinality(B)
  BY SameWords DEF Slice!Rank
<1>7. Cardinality(F) = SumOfSets(c)
  BY <1>2, FirstSizesCounted DEF SumOfSets
<1> HIDE DEF C, F
<1>8. CASE Increasing(c)
  <2>1. B = {}
    BY <1>1, <1>4, <1>5, <1>8
  <2>2. Cardinality(B) = 0
    BY <2>1, FS_EmptySet
  <2> HIDE DEF B
  <2>. QED
    BY <1>1, <1>6, <1>8, <2>2 DEF C
<1>9. CASE ~ Increasing(c)
  <2>1. B = F
    BY <1>1, <1>4, <1>5, <1>9
  <2>2. All(c) = 1 + SumOfSets(c)
    BY DEF All, EmptySets
  <2>. QED
    BY <1>1, <1>6, <1>7, <1>9, <2>1, <2>2 DEF C
<1>. QED
  BY <1>8, <1>9

\* Without items there is the empty set or nothing.
LEMMA WithoutItems ==
  ASSUME NEW c, ConfigOK(c), c.n = 0
  PROVE  /\ Slice!Combinations(c) = IF c.empty THEN {{}} ELSE {}
         /\ Increasing(c) /\ (Refuses(c) <=> ~ c.empty)
         /\ c.empty => Slice!Rank(c, {}) = 1
<1>1. Slice!Sizes(c) = IF c.empty THEN {0} ELSE {}
  BY DEF Slice!Sizes
<1>2. \A T \in SUBSET (1 .. c.n) : T = {}
  OBVIOUS
<1>3. Slice!Combinations(c) = IF c.empty THEN {{}} ELSE {}
  BY <1>1, <1>2, SameWords, FS_EmptySet DEF Slice!Combinations
<1>4. c.min \in Nat /\ c.max \in Nat
  BY DEF ConfigOK
<1>5. Increasing(c)
  BY <1>4 DEF Increasing, SetInit, SetDone, Clamp, Requested
<1>6. ~ Slice!Before(c, {}, {})
  BY DEF Slice!Before
<1>7. c.empty => Slice!Rank(c, {}) = 1
  <2> SUFFICES ASSUME c.empty PROVE Slice!Rank(c, {}) = 1
    OBVIOUS
  <2> DEFINE B == {T \in Slice!Combinations(c) : Slice!Before(c, T, {})}
  <2>1. B = {}
    BY <1>3, <1>6
  <2>2. Slice!Rank(c, {}) = 1 + Cardinality(B)
    BY SameWords DEF Slice!Rank
  <2>. QED
    BY <2>1, <2>2, FS_EmptySet
<1>. QED
  BY <1>3, <1>5, <1>7 DEF Refuses

\* What is refused has no combinations.
LEMMA RefusedIsNothing ==
  ASSUME NEW c, ConfigOK(c), Refuses(c)
  PROVE  Slice!Combinations(c) = {}
<1>1. ~ c.empty /\ c.n \in Nat /\ c.min \in Nat /\ c.max \in Nat
  BY DEF Refuses, ConfigOK
<1>2. CASE c.n = 0
  BY <1>1, <1>2, WithoutItems
<1>3. CASE c.n # 0
  <2>1. ~ c.bn /\ CmbCount(c) = 0
    BY <1>3 DEF Refuses
  <2>2. OutOfRange(c)
    <3> SUFFICES ASSUME ~ OutOfRange(c) PROVE FALSE
      OBVIOUS
    <3>1. CmbCount(c) = EmptySets(c) + SumOfSets(c)
      BY <1>1, <1>3, CountIsSum
    <3>2. SumOfSets(c) \in Nat \ {0} /\ EmptySets(c) = 0
      BY <1>1, <1>3, SumPositive DEF EmptySets
    <3>. QED
      BY <2>1, <3>1, <3>2
  <2>3. Slice!TooLarge(c)
    BY <1>1, <1>3, <2>2
       DEF OutOfRange, Requested, Slice!TooLarge, Slice!First, Slice!Final, Slice!MaxOf
  <2>4. Slice!Sizes(c) = {}
    BY <1>1, <2>1, <2>3, Zenon DEF Slice!Sizes
  <2>. QED
    BY <2>4 DEF Slice!Combinations
<1>. QED
  BY <1>2, <1>3

\* A combination's number is at most the number of combinations.
LEMMA RankWithin ==
  ASSUME NEW c, ConfigOK(c), NEW S \in Slice!Combinations(c)
  PROVE  /\ Slice!Rank(c, S) \in Nat \ {0}
         /\ Cardinality(Slice!Combinations(c)) \in Nat
         /\ Slice!Rank(c, S) <= Cardinality(Slice!Combinations(c))
<1> DEFINE C == Slice!Combinations(c)
           B == {T \in C : Slice!Before(c, T, S)}
<1>1. c.n \in Nat
  BY DEF ConfigOK
<1>2. C \in SUBSET (SUBSET (1 .. c.n))
  BY DEF Slice!Combinations
<1>3. IsFiniteSet(C) /\ Cardinality(C) \in Nat
  BY <1>1, <1>2, SubsetsFinite
<1>4. S \in C /\ B \subseteq C /\ S \notin B
  BY DEF Slice!Before
<1>5. Slice!Rank(c, S) = 1 + Cardinality(B)
  BY SameWords DEF Slice!Rank
<1> HIDE DEF B, C
<1>6. IsFiniteSet(B) /\ Cardinality(B) \in Nat
  BY <1>3, <1>4, FS_Subset, FS_CardinalityType
<1>7. Cardinality(B \cup {S}) = Cardinality(B) + 1
  BY <1>4, <1>6, FS_AddElement
<1>8. Cardinality(B \cup {S}) <= Cardinality(C)
  <2>1. B \cup {S} \in SUBSET C
    BY <1>4
  <2>. QED
    BY <1>3, <2>1, FS_Subset
<1>. QED
  BY <1>3, <1>5, <1>6, <1>7, <1>8 DEF C

\* What the promise has left from the start on, without a count and with one.
Rest(c) == LET r == Cardinality(Slice!Combinations(c)) - Skipped(c) IN IF r > 0 THEN r ELSE 0

LEMMA QuotaIs ==
  ASSUME NEW c, ConfigOK(c)
  PROVE  /\ Rest(c) \in Nat /\ Slice!Begin(c) = Skipped(c) + 1 /\ Skipped(c) \in Nat
         /\ Cardinality(Slice!Combinations(c)) \in Nat
         /\ Slice!Quota(c) = IF c.count = 0 \/ Rest(c) <= c.count THEN Rest(c) ELSE c.count
<1>1. c.n \in Nat /\ c.start \in Nat /\ c.count \in Nat
  BY DEF ConfigOK
<1> DEFINE w == Cardinality(Slice!Combinations(c))
<1>2. Slice!Combinations(c) \in SUBSET (SUBSET (1 .. c.n))
  BY DEF Slice!Combinations
<1>3. w \in Nat
  BY <1>1, <1>2, SubsetsFinite
<1>4. Slice!Cardinality(Slice!Combinations(c)) = w
  BY SameWords
<1>5. Slice!Begin(c) = Skipped(c) + 1 /\ Skipped(c) \in Nat
  BY <1>1 DEF Slice!Begin, Slice!MaxOf, Skipped
<1>6. Rest(c) = IF w - Skipped(c) > 0 THEN w - Skipped(c) ELSE 0
  BY DEF Rest
<1> HIDE DEF w
<1>7. Rest(c) \in Nat
  BY <1>3, <1>5, <1>6
<1>8. Slice!MaxOf(0, w - Slice!Begin(c) + 1) = Rest(c)
  BY <1>3, <1>5, <1>6 DEF Slice!MaxOf
<1>9. Slice!Quota(c) = IF c.count = 0 THEN Rest(c) ELSE Slice!MinOf(Rest(c), c.count)
  BY <1>4, <1>8 DEF Slice!Quota
<1>10. Slice!MinOf(Rest(c), c.count) = IF Rest(c) <= c.count THEN Rest(c) ELSE c.count
  BY <1>1, <1>7 DEF Slice!MinOf
<1>. QED
  BY <1>3, <1>5, <1>7, <1>9, <1>10 DEF w

-----------------------------------------------------------------------------
(***************************************************************************)
(* Step by step: every call of the action gives the next of the promise.   *)
(***************************************************************************)

\* The calls, and the place of the combination among those of its size.
SliceInv ==
    /\ StopsCleanly(conf)
    /\ pc \notin {"call", "returned"} => ~ Refuses(conf)
    /\ conf.n = 0 =>
          /\ pc \in {"call", "emptyFirst", "returned"}
          /\ pc = "emptyFirst" => log = << >> /\ doseek = (conf.start > 1)
    /\ pc = "shift" => Cardinality(Lower(curset, Held(setnums))) = combo - 1
    /\ pc = "emptyLast" /\ ret = 0 /\ conf.count # 0 => left + Len(log) = conf.count
    /\ Len(log) <= Rest(conf)

LEMMA SliceInit == Called /\ StopsCleanly(conf) => SliceInv /\ Slice!Init
<1> SUFFICES ASSUME Called, StopsCleanly(conf) PROVE SliceInv /\ Slice!Init
  OBVIOUS
<1>1. ConfigOK(conf) /\ pc = "call" /\ log = << >> /\ ret = 0
  BY DEF Called, Calling
<1>2. Rest(conf) \in Nat /\ Len(log) = 0
  BY <1>1, QuotaIs
<1>3. SliceInv
  BY <1>1, <1>2 DEF SliceInv
<1>4. Slice!Init
  BY <1>1 DEF Slice!Init
<1>. QED
  BY <1>3, <1>4

\* A call of the action with the combination that is next.
LEMMA NextIsGiven ==
  ASSUME ConfigOK(conf), log \in Seq(Calls), conf' = conf, pc # "returned", ret = 0,
         NEW items, log' = Append(log, [seq |-> seq, items |-> items]),
         seq \in Int, items \in Seq(Int),
         Held(items) \in Slice!Combinations(conf),
         Slice!Rank(conf, Held(items)) = Skipped(conf) + 1 + Len(log),
         conf.count # 0 => Len(log) < conf.count,
         pc' = "returned" => \/ ret' # 0
                             \/ conf.count # 0 /\ Len(log) + 1 = conf.count
                             \/ Len(log) + 1 = Rest(conf)
  PROVE  Slice!Give /\ Len(log') = Len(log) + 1 /\ Len(log) + 1 <= Rest(conf)
<1> DEFINE w == Cardinality(Slice!Combinations(conf))
           given == [i \in DOMAIN log |-> ItemsOf(log[i])]
           given2 == [i \in DOMAIN log' |-> ItemsOf(log'[i])]
<1>1. /\ Rest(conf) \in Nat /\ Slice!Begin(conf) = Skipped(conf) + 1 /\ Skipped(conf) \in Nat
      /\ w \in Nat
      /\ Slice!Quota(conf) = IF conf.count = 0 \/ Rest(conf) <= conf.count
                             THEN Rest(conf) ELSE conf.count
  BY QuotaIs
<1>2. Slice!Rank(conf, Held(items)) <= w
  BY RankWithin
<1>3. Rest(conf) = IF w - Skipped(conf) > 0 THEN w - Skipped(conf) ELSE 0
  BY DEF Rest
<1>4. Len(log) \in Nat /\ conf.count \in Nat
  BY DEF ConfigOK
<1> HIDE DEF w
<1>5. Len(log) + 1 <= Rest(conf)
  BY <1>1, <1>2, <1>3, <1>4
<1>6. /\ Len(log) < Slice!Quota(conf)
      /\ pc' = "returned" => ret' # 0 \/ Len(log) + 1 = Slice!Quota(conf)
  BY <1>1, <1>4, <1>5
<1>7. Len(log') = Len(log) + 1 /\ DOMAIN log' = 1 .. (Len(log) + 1) /\ DOMAIN log = 1 .. Len(log)
  BY <1>4, [seq |-> seq, items |-> items] \in Calls DEF Calls
<1>8. given2 = Append(given, Held(items)) /\ Len(given) = Len(log)
  <2>1. ItemsOf(log'[Len(log) + 1]) = Held(items)
    <3>1. log'[Len(log) + 1] = [seq |-> seq, items |-> items]
      BY <1>4
    <3>. QED
      BY <3>1 DEF ItemsOf, Held
  <2>2. \A i \in 1 .. Len(log) : log'[i] = log[i]
    BY <1>4
  <2>3. given2 = [i \in 1 .. (Len(log) + 1) |-> IF i <= Len(log) THEN ItemsOf(log[i]) ELSE Held(items)]
    BY <1>4, <1>7, <2>1, <2>2
  <2>4. given = [i \in 1 .. Len(log) |-> ItemsOf(log[i])]
    BY <1>7
  <2> HIDE DEF given, given2
  <2>. QED
    BY <1>4, <2>3, <2>4
<1>9. Len(given2) = Len(log) + 1
  BY <1>7
<1> HIDE DEF given, given2
<1>10. Slice!Give
  <2> DEFINE r == IF ret = 0 THEN 0 ELSE 1
             r2 == IF ret' = 0 THEN 0 ELSE 1
             over == pc = "returned"
             over2 == pc' = "returned"
  <2>1. r = 0 /\ ~ over /\ r2 \in {0, 1}
    OBVIOUS
  <2>2. over2 \in {over, r2 # 0 \/ Len(given2) = Slice!Quota(conf)}
    <3>1. CASE over2
      <4>1. r2 # 0 \/ Len(given2) = Slice!Quota(conf)
        BY <1>6, <1>9, <3>1
      <4>. QED
        BY <3>1, <4>1
    <3>2. CASE ~ over2
      BY <2>1, <3>2
    <3>. QED
      BY <3>1, <3>2
  <2>3. Len(given) < Slice!Quota(conf)
    BY <1>6, <1>8
  <2>4. Slice!Rank(conf, Held(items)) = Slice!Begin(conf) + Len(given)
    BY <1>1, <1>8
  <2>. QED
    BY <1>8, <2>1, <2>2, <2>3, <2>4, Zenon DEF Slice!Give, given, given2
<1>. QED
  BY <1>5, <1>7, <1>10

\* The end, and what the promise does not see.
LEMMA EndIsTold ==
  ASSUME log \in Seq(Calls), pc # "returned", pc' = "returned", UNCHANGED <<conf, log, ret>>,
         ret # 0 \/ Len(log) = Slice!Quota(conf)
  PROVE  Slice!End
<1> DEFINE given == [i \in DOMAIN log |-> ItemsOf(log[i])]
<1>1. Len(given) = Len(log)
  <2>1. Len(log) \in Nat /\ DOMAIN log = 1 .. Len(log)
    OBVIOUS
  <2>. QED
    BY <2>1
<1> HIDE DEF given
<1>2. ret # 0 => (IF ret = 0 THEN 0 ELSE 1) # 0
  OBVIOUS
<1>3. (IF ret = 0 THEN 0 ELSE 1) # 0 \/ Len(given) = Slice!Quota(conf)
  BY <1>1, <1>2
<1>. QED
  BY <1>3, Zenon DEF Slice!End, given

LEMMA Unseen ==
  ASSUME pc # "returned", pc' # "returned", UNCHANGED <<conf, log, ret>>
  PROVE  UNCHANGED Slice!sliceVars
BY DEF Slice!sliceVars

\* A call in the loops: it is one of those left, and stopping it ends the calls.
LEMMA CallGives ==
  ASSUME CmbInv, pc \in Running \ {"call"}, conf' = conf,
         NEW items \in Seq(Int), NEW next, NEW stop, Call(items, next, stop),
         next # "returned" \/ Len(log) + 1 = Rest(conf),
         Held(items) \in Slice!Combinations(conf),
         Slice!Rank(conf, Held(items)) = Skipped(conf) + 1 + Len(log)
  PROVE  /\ Slice!Give /\ Len(log') <= Rest(conf)
         /\ ret' = 0 /\ conf.count # 0 => left' + Len(log') = conf.count
<1>1. /\ ConfigOK(conf) /\ log \in Seq(Calls) /\ seq \in Int /\ ret = 0 /\ pc # "returned"
      /\ conf.count # 0 => left \in Int /\ left >= 1 /\ left + Len(log) = conf.count
  BY DEF CmbInv, ShiftInv, CountInv, Running
<1>2. conf.count \in Nat /\ Len(log) \in Nat
  BY <1>1 DEF ConfigOK
<1>3. log' = Append(log, [seq |-> seq, items |-> items])
  BY DEF Call
<1>4. conf.count # 0 => Len(log) < conf.count
  BY <1>1, <1>2
<1>5. left' = (IF ret' = 0 /\ conf.count # 0 THEN left - 1 ELSE left)
  BY DEF Call
<1>6. ASSUME pc' = "returned"
      PROVE  \/ ret' # 0
             \/ conf.count # 0 /\ Len(log) + 1 = conf.count
             \/ Len(log) + 1 = Rest(conf)
  <2>1. CASE ret' # 0 \/ (conf.count # 0 /\ left' = 0)
    <3> SUFFICES ASSUME ret' = 0, conf.count # 0, left' = 0 PROVE Len(log) + 1 = conf.count
      BY <2>1
    <3>. QED
      BY <1>1, <1>2, <1>5
  <2>2. CASE ~ (ret' # 0 \/ (conf.count # 0 /\ left' = 0))
    <3>1. pc' = next
      BY <2>2 DEF Call
    <3>. QED
      BY <1>6, <3>1
  <2>. QED
    BY <2>1, <2>2
<1>7. Slice!Give /\ Len(log') = Len(log) + 1 /\ Len(log) + 1 <= Rest(conf)
  BY <1>1, <1>3, <1>4, <1>6, NextIsGiven
<1>. QED
  BY <1>1, <1>2, <1>5, <1>7

\* The combination made of the current size, and its number.
LEMMA RankInSize ==
  ASSUME CmbInv, PlaceInv, pc \in {"first", "shift"}, ~ Refuses(conf),
         NEW s \in Combination(curset)
  PROVE  /\ Held(s) \in Slice!Combinations(conf) /\ s \in Seq(Int)
         /\ Slice!Rank(conf, Held(s)) = 1 + Made(conf, "first", curset, combo)
                                          + Cardinality(Lower(curset, Held(s)))
         /\ Made(conf, "first", curset, combo) \in Int
         /\ Made(conf, "shift", curset, combo) = Made(conf, "first", curset, combo) + combo
<1> DEFINE p == Past(conf, curset)
           S == Held(s)
<1>0. /\ ConfigOK(conf) /\ conf.n \in Nat /\ conf.n >= 1 /\ curset \in 1 .. conf.n
      /\ p \in 0 .. (HowManySizes(conf) - 1) /\ combo \in Nat
  BY DEF CmbInv, ShiftInv, ExactInv, PlaceInv, ConfigOK
<1>1. SetInit(conf) \in 1 .. conf.n /\ SetDone(conf) \in 1 .. conf.n
  BY <1>0, RangeOfSizes, SizesWithin
<1>2. SizeAt(conf, p + 1) = curset
  BY <1>0, <1>1 DEF Past, SizeAt
<1>3. S \in Subsets(conf.n, SizeAt(conf, p + 1))
  <2>1. curset \in Nat
    BY <1>0
  <2>. QED
    BY <1>0, <1>2, <2>1, HeldIsSubset
<1>4. s \in Seq(Int)
  <2>1. s \in [1 .. curset -> 1 .. conf.n] /\ curset \in Nat
    BY <1>0 DEF Combination
  <2>. QED
    BY <2>1
<1>5. p + 1 \in 1 .. HowManySizes(conf) /\ HowManySizes(conf) \in Nat /\ p \in 0 .. HowManySizes(conf)
  BY <1>0, SizesAdd
<1>6. SumTo(SizeNumbers(conf))[p] \in Int
  BY <1>0, <1>5, SizesAdd
<1>7. Ahead(conf, "first") = Ahead(conf, "set") /\ Ahead(conf, "first") \in Int
      /\ Ahead(conf, "shift") = Ahead(conf, "set")
  BY DEF Ahead
<1>8. /\ Made(conf, "first", curset, combo) = Ahead(conf, "first") + SumTo(SizeNumbers(conf))[p] + 0
      /\ Made(conf, "shift", curset, combo) = Ahead(conf, "shift") + SumTo(SizeNumbers(conf))[p] + combo
  BY DEF Made
<1>9. /\ S \in Slice!Combinations(conf)
      /\ Slice!Rank(conf, S) = 1 + Ahead(conf, "set") + SumTo(SizeNumbers(conf))[p]
                                 + Cardinality(Lower(SizeAt(conf, p + 1), S))
  <2> HIDE DEF p, S
  <2>. QED
    BY <1>0, <1>3, RankIs
<1>10. Cardinality(Lower(curset, S)) \in Nat
  <2>1. Lower(curset, S) \in SUBSET (SUBSET (1 .. conf.n))
    BY DEF Lower, Subsets
  <2>. QED
    BY <1>0, <2>1, SubsetsFinite
<1> HIDE DEF p, S
<1>11. Made(conf, "first", curset, combo) = Ahead(conf, "set") + SumTo(SizeNumbers(conf))[p]
  BY <1>6, <1>7, <1>8
<1>12. Made(conf, "shift", curset, combo) = Made(conf, "first", curset, combo) + combo
  BY <1>0, <1>6, <1>7, <1>8
<1>13. Slice!Rank(conf, S) = 1 + Made(conf, "first", curset, combo) + Cardinality(Lower(curset, S))
  BY <1>2, <1>6, <1>7, <1>9, <1>10, <1>11
<1>. QED
  BY <1>4, <1>6, <1>7, <1>9, <1>11, <1>12, <1>13 DEF S

LEMMA SliceStep ==
  CmbInv /\ CmbInv' /\ PlaceInv /\ MadeInv /\ SliceInv /\ [Next]_cmbVars =>
     SliceInv' /\ [Slice!Next]_Slice!sliceVars
<1> SUFFICES ASSUME CmbInv, CmbInv', PlaceInv, MadeInv, SliceInv, [Next]_cmbVars
             PROVE  SliceInv' /\ (Slice!Next \/ UNCHANGED Slice!sliceVars)
  OBVIOUS
<1>c. conf' = conf
  BY DEF Next, Refuse, Prepare, EmptyFirst, EmptyPassed, NoEmptyFirst, PassSet, EnterSet, SetsEnd,
     ShowFirst, Shift, SetEnd, EmptyLast, NoEmptyLast, cmbVars
<1>0. /\ ConfigOK(conf) /\ conf.n \in Nat /\ conf.start \in Nat /\ conf.count \in Nat
      /\ conf.empty \in BOOLEAN /\ curset \in Nat /\ ncombos \in Nat /\ combo \in Nat
      /\ seek \in Nat /\ left \in Nat /\ doseek \in BOOLEAN /\ log \in Seq(Calls) /\ Len(log) \in Nat
      /\ (doseek => seek >= 1)
      /\ (doseek /\ pc \in {"emptyFirst", "first", "shift"} => seek >= 2)
      /\ pc \in Running => ret = 0
      /\ pc = "call" => Len(log) = 0
      /\ pc \in {"set", "first", "shift"} => conf.n >= 1
  BY DEF CmbInv, ShiftInv, CountInv, ExactInv, SeekInv, ConfigOK
<1>1. /\ Rest(conf) \in Nat /\ Skipped(conf) \in Nat /\ Len(log) <= Rest(conf)
      /\ Skipped(conf) = IF conf.start > 1 THEN conf.start - 1 ELSE 0
      /\ Slice!Quota(conf) = IF conf.count = 0 \/ Rest(conf) <= conf.count
                             THEN Rest(conf) ELSE conf.count
  BY <1>0, QuotaIs DEF SliceInv, Skipped
<1>r. pc \notin {"call", "returned"} => ~ Refuses(conf)
  BY DEF SliceInv
<1>s. conf.n >= 1 /\ pc \in Looping /\ (pc = "emptyLast" => GoesOn) =>
         InStep(conf, doseek, Further(pc, seek), Made(conf, pc, curset, combo), Len(log))
  <2>1. pc \in Running \ {"call"} => GoesOn
    BY DEF CmbInv, CountInv, Running, GoesOn
  <2>2. pc \in Looping => pc = "emptyLast" \/ pc \in Running \ {"call"}
    BY DEF Looping, Running
  <2>. QED
    BY <2>1, <2>2 DEF MadeInv
<1>t. ASSUME pc # "returned", pc' \in {"set", "first", "emptyFirst"}, UNCHANGED <<log, ret>>,
             ~ Refuses(conf), conf.n >= 1 \/ (pc' = "emptyFirst" /\ log = << >> /\ doseek' = (conf.start > 1))
      PROVE  SliceInv' /\ UNCHANGED Slice!sliceVars
  <2>1. UNCHANGED Slice!sliceVars
    BY <1>c, <1>t, Unseen
  <2>2. SliceInv'
    BY <1>c, <1>t DEF SliceInv, Rest
  <2>. QED
    BY <2>1, <2>2
<1>e. ASSUME pc # "returned", pc' = "returned", UNCHANGED <<log, ret>>,
             ret # 0 \/ Len(log) = Slice!Quota(conf)
      PROVE  SliceInv' /\ Slice!Next
  <2>1. Slice!End
    BY <1>0, <1>c, <1>e, EndIsTold
  <2>2. SliceInv'
    BY <1>c, <1>e DEF SliceInv
  <2>. QED
    BY <2>1, <2>2 DEF Slice!Next
<1>2. CASE Refuse
  <2>1. pc = "call" /\ pc' = "returned" /\ UNCHANGED <<log, ret>> /\ Refuses(conf)
    BY <1>2 DEF Refuse, calling
  <2>2. Rest(conf) = 0
    <3>1. Cardinality(Slice!Combinations(conf)) = 0
      BY <1>0, <2>1, RefusedIsNothing, FS_EmptySet
    <3>. QED
      BY <1>1, <3>1 DEF Rest
  <2>3. Slice!Quota(conf) = Len(log)
    BY <1>0, <1>1, <2>1, <2>2
  <2>. QED
    BY <1>e, <2>1, <2>3
<1>3. CASE Prepare
  <2>1. /\ pc = "call" /\ pc' = "emptyFirst" /\ UNCHANGED <<log, ret>> /\ ~ Refuses(conf)
        /\ doseek' = (conf.start > 1)
    BY <1>3 DEF Prepare
  <2>2. log = << >>
    BY <2>1 DEF CmbInv, CountInv
  <2>. QED
    BY <1>t, <2>1, <2>2
<1>4. CASE EmptyFirst
  <2>1. /\ pc = "emptyFirst" /\ Increasing(conf) /\ conf.empty /\ ~ doseek
        /\ Call(<< >>, Sets, "returned") /\ UNCHANGED <<curset, combo, doseek, seek>>
    BY <1>4 DEF EmptyFirst, enum, seeking
  <2>2. Held(<< >>) = {} /\ << >> \in Seq(Int) /\ pc \in Running \ {"call"}
    BY <2>1 DEF Held, Running
  <2>3. CASE conf.n >= 1
    <3>1. Len(log) = 0 /\ Skipped(conf) = 0
      <4>1. Made(conf, pc, curset, combo) = 0
        <5>1. Past(conf, curset) = 0
          BY <2>1, <2>3 DEF PlaceInv
        <5>2. SumTo(SizeNumbers(conf))[0] = 0
          BY <1>0, <2>3, SizesAdd
        <5>. QED
          BY <2>1, <5>1, <5>2 DEF Made, Ahead
      <4>2. Len(log) = 0 - Skipped(conf)
        BY <1>s, <2>1, <2>3, <4>1 DEF InStep, Looping
      <4>. QED
        BY <1>0, <1>1, <4>2
    <3>2. {} \in Slice!Combinations(conf) /\ Slice!Rank(conf, {}) = Skipped(conf) + 1 + Len(log)
      BY <1>0, <1>r, <2>1, <2>3, <3>1, RankOfEmpty
    <3>3. Sets = "set"
      BY <1>0, <2>3 DEF Sets
    <3>4. Slice!Give /\ Len(log') <= Rest(conf)
      BY <1>c, <2>1, <2>2, <3>2, <3>3, CallGives
    <3>5. pc' \in {"set", "returned"}
      BY <2>1, <3>3 DEF Call
    <3>6. SliceInv'
      BY <1>c, <1>r, <2>1, <2>3, <3>4, <3>5 DEF SliceInv, Rest
    <3>. QED
      BY <3>4, <3>6 DEF Slice!Next
  <2>4. CASE conf.n = 0
    <3>1. Len(log) = 0 /\ Skipped(conf) = 0
      BY <1>0, <1>1, <2>1, <2>4 DEF SliceInv
    <3>2. /\ {} \in Slice!Combinations(conf) /\ Slice!Rank(conf, {}) = Skipped(conf) + 1 + Len(log)
          /\ Slice!Combinations(conf) = {{}}
      BY <1>0, <2>1, <2>4, <3>1, WithoutItems
    <3>3. Rest(conf) = Len(log) + 1
      <4>1. Cardinality(Slice!Combinations(conf)) = 1
        BY <3>2, FS_Singleton
      <4>. QED
        BY <3>1, <4>1 DEF Rest
    <3>4. Slice!Give /\ Len(log') <= Rest(conf)
      BY <1>c, <2>1, <2>2, <3>2, <3>3, CallGives
    <3>5. pc' = "returned"
      BY <2>1, <2>4 DEF Call, Sets
    <3>6. SliceInv'
      BY <1>c, <3>4, <3>5 DEF SliceInv, Rest
    <3>. QED
      BY <3>4, <3>6 DEF Slice!Next
  <2>. QED
    BY <1>0, <2>3, <2>4
<1>5. CASE EmptyPassed
  <2>1. /\ pc = "emptyFirst" /\ conf.empty /\ doseek /\ pc' = Sets /\ UNCHANGED <<log, ret>>
    BY <1>5 DEF EmptyPassed, calling
  <2>2. CASE conf.n >= 1
    <3>1. pc' = "set"
      BY <1>0, <2>1, <2>2 DEF Sets
    <3>. QED
      BY <1>r, <1>t, <2>1, <2>2, <3>1
  <2>3. CASE conf.n = 0
    <3>1. pc' = "returned" /\ Len(log) = 0 /\ conf.start > 1
      BY <2>1, <2>3 DEF Sets, SliceInv
    <3>2. Cardinality(Slice!Combinations(conf)) = 1
      BY <1>0, <2>1, <2>3, WithoutItems, FS_Singleton
    <3>3. Rest(conf) = 0
      BY <1>0, <1>1, <3>1, <3>2 DEF Rest
    <3>4. Len(log) = Slice!Quota(conf)
      BY <1>0, <1>1, <3>1, <3>3
    <3>. QED
      BY <1>e, <2>1, <3>1, <3>4
  <2>. QED
    BY <1>0, <2>2, <2>3
<1>6. CASE NoEmptyFirst
  <2>1. /\ pc = "emptyFirst" /\ ~ (Increasing(conf) /\ conf.empty) /\ pc' = Sets
        /\ UNCHANGED <<log, ret>>
    BY <1>6 DEF NoEmptyFirst, calling
  <2>2. conf.n >= 1
    <3> SUFFICES ASSUME conf.n = 0 PROVE FALSE
      BY <1>0
    <3>1. Increasing(conf) /\ (Refuses(conf) <=> ~ conf.empty)
      BY <1>0, WithoutItems
    <3>. QED
      BY <1>r, <2>1, <3>1
  <2>3. pc' = "set"
    BY <1>0, <2>1, <2>2 DEF Sets
  <2>. QED
    BY <1>r, <1>t, <2>1, <2>2, <2>3
<1>7. CASE PassSet \/ EnterSet \/ SetEnd
  <2>1. /\ pc \in {"set", "shift"} /\ pc' \in {"set", "first"} /\ UNCHANGED <<log, ret>>
    BY <1>7 DEF PassSet, EnterSet, SetEnd, calling
  <2>. QED
    BY <1>0, <1>r, <1>t, <2>1
<1>8. CASE SetsEnd
  <2>1. pc = "set" /\ pc' = "emptyLast" /\ UNCHANGED <<log, ret, left>>
    BY <1>8 DEF SetsEnd, calling
  <2>2. UNCHANGED Slice!sliceVars
    BY <1>c, <2>1, Unseen
  <2>3. conf.count # 0 => left + Len(log) = conf.count
    BY <2>1 DEF CmbInv, CountInv, Running
  <2>4. SliceInv'
    BY <1>0, <1>c, <1>r, <2>1, <2>3 DEF SliceInv, Rest
  <2>. QED
    BY <2>2, <2>4
<1>9. CASE ShowFirst
  <2>1. pc = "first" /\ setnums' = Leading(curset) /\ combo' = 1 /\ curset' = curset /\ curset \in 1 .. conf.n
    BY <1>9 DEF ShowFirst, CmbInv, ExactInv
  <2>2. Leading(curset) \in Combination(curset) /\ Lower(curset, Held(Leading(curset))) = {}
    BY <1>0, <2>1, LeadingToGo, LeadingIsFirst
  <2>3. Cardinality(Lower(curset, Held(Leading(curset)))) = 0
    BY <2>2, FS_EmptySet
  <2>4. Cardinality(Lower(curset, Held(setnums)))' = combo' - 1
    <3>1. Lower(curset, Held(setnums))' = Lower(curset, Held(Leading(curset)))
      BY <1>c, <2>1 DEF Lower
    <3>. QED
      BY <2>1, <2>3, <3>1
  <2>5. CASE doseek
    <3>1. pc' = "shift" /\ UNCHANGED <<log, ret>>
      BY <1>9, <2>5 DEF ShowFirst, calling
    <3>2. UNCHANGED Slice!sliceVars
      BY <1>c, <2>1, <3>1, Unseen
    <3>3. SliceInv'
      BY <1>0, <1>c, <1>r, <2>1, <2>4, <3>1 DEF SliceInv, Rest
    <3>. QED
      BY <3>2, <3>3
  <2>6. CASE ~ doseek
    <3>1. Call(Leading(curset), "shift", "emptyLast")
      BY <1>9, <2>1, <2>6 DEF ShowFirst
    <3>2. /\ Held(Leading(curset)) \in Slice!Combinations(conf) /\ Leading(curset) \in Seq(Int)
          /\ Slice!Rank(conf, Held(Leading(curset))) = 1 + Made(conf, "first", curset, combo) + 0
          /\ Made(conf, "first", curset, combo) \in Int
      BY <1>r, <2>1, <2>2, <2>3, RankInSize
    <3>3. Len(log) = Made(conf, "first", curset, combo) - Skipped(conf)
      BY <1>0, <1>s, <2>1, <2>6 DEF InStep, Looping
    <3>4. Slice!Rank(conf, Held(Leading(curset))) = Skipped(conf) + 1 + Len(log)
      BY <1>0, <1>1, <3>2, <3>3
    <3>5. /\ Slice!Give /\ Len(log') <= Rest(conf)
          /\ ret' = 0 /\ conf.count # 0 => left' + Len(log') = conf.count
      BY <1>c, <2>1, <3>1, <3>2, <3>4, CallGives DEF Running
    <3>6. pc' \in {"shift", "emptyLast"}
      BY <3>1 DEF Call
    <3>7. SliceInv'
      BY <1>0, <1>c, <1>r, <2>1, <2>4, <3>5, <3>6 DEF SliceInv, Rest
    <3>. QED
      BY <3>5, <3>7 DEF Slice!Next
  <2>. QED
    BY <2>5, <2>6
<1>10. CASE Shift
  <2>1. /\ pc = "shift" /\ combo < ncombos /\ setnums' = Shifted(setnums) /\ combo' = combo + 1
        /\ curset' = curset
        /\ seek' = (IF doseek THEN seek - 1 ELSE seek) /\ doseek' = (doseek /\ seek' # 1)
    BY <1>10 DEF Shift
  <2>2. /\ curset \in Nat \ {0} /\ setnums \in Combination(curset) /\ ToGo(setnums) # 0
    BY <1>0, <2>1 DEF CmbInv, ExactInv
  <2>3. Shifted(setnums) \in Combination(curset)
    BY <1>0, <2>2, ShiftedToGo
  <2>4. Cardinality(Lower(curset, Held(Shifted(setnums)))) = combo
    <3>1. Cardinality(Lower(curset, Held(setnums))) = combo - 1
      BY <2>1 DEF SliceInv
    <3>2. Cardinality(Lower(curset, Held(Shifted(setnums)))) =
             Cardinality(Lower(curset, Held(setnums))) + 1
      BY <1>0, <2>2, ShiftedIsNext
    <3>. QED
      BY <1>0, <3>1, <3>2
  <2>5. Cardinality(Lower(curset, Held(setnums)))' = combo' - 1
    <3>1. Lower(curset, Held(setnums))' = Lower(curset, Held(Shifted(setnums)))
      BY <1>c, <2>1 DEF Lower
    <3>. QED
      BY <1>0, <2>1, <2>4, <3>1
  <2>6. CASE doseek'
    <3>1. pc' = "shift" /\ UNCHANGED <<log, ret>>
      BY <1>10, <2>6 DEF Shift, calling
    <3>2. UNCHANGED Slice!sliceVars
      BY <1>c, <2>1, <3>1, Unseen
    <3>3. SliceInv'
      BY <1>0, <1>c, <1>r, <2>1, <2>5, <3>1 DEF SliceInv, Rest
    <3>. QED
      BY <3>2, <3>3
  <2>7. CASE ~ doseek'
    <3>1. Call(Shifted(setnums), "shift", "returned")
      BY <1>10, <2>1, <2>7 DEF Shift
    <3>2. /\ Held(Shifted(setnums)) \in Slice!Combinations(conf) /\ Shifted(setnums) \in Seq(Int)
          /\ Slice!Rank(conf, Held(Shifted(setnums))) = 1 + Made(conf, "first", curset, combo) + combo
          /\ Made(conf, "first", curset, combo) \in Int
          /\ Made(conf, "shift", curset, combo) = Made(conf, "first", curset, combo) + combo
      BY <1>r, <2>1, <2>3, <2>4, RankInSize
    <3>3. InStep(conf, doseek, seek - 1, Made(conf, "shift", curset, combo), Len(log))
      BY <1>0, <1>s, <2>1 DEF Looping, Further
    <3>4. Len(log) = Made(conf, "shift", curset, combo) - Skipped(conf)
      <4>1. CASE ~ doseek
        BY <3>3, <4>1 DEF InStep
      <4>2. CASE doseek
        <5>1. seek - 1 = 1
          BY <2>1, <2>7, <4>2
        <5>2. Len(log) = 0 /\ conf.start > 1 /\ Made(conf, "shift", curset, combo) + 1 = conf.start
          BY <3>3, <4>2, <5>1 DEF InStep
        <5>. QED
          BY <1>0, <1>1, <3>2, <5>2
      <4>. QED
        BY <4>1, <4>2
    <3>5. Slice!Rank(conf, Held(Shifted(setnums))) = Skipped(conf) + 1 + Len(log)
      BY <1>0, <1>1, <3>2, <3>4
    <3>6. Slice!Give /\ Len(log') <= Rest(conf)
      BY <1>c, <2>1, <3>1, <3>2, <3>5, CallGives DEF Running
    <3>7. pc' \in {"shift", "returned"}
      BY <3>1 DEF Call
    <3>8. SliceInv'
      BY <1>0, <1>c, <1>r, <2>1, <2>5, <3>6, <3>7 DEF SliceInv, Rest
    <3>. QED
      BY <3>6, <3>8 DEF Slice!Next
  <2>. QED
    BY <2>6, <2>7
<1>11. CASE EmptyLast \/ NoEmptyLast
  <2>1. pc = "emptyLast" /\ pc' = "returned" /\ conf.n >= 1 /\ ~ Refuses(conf)
    BY <1>0, <1>11 DEF EmptyLast, NoEmptyLast, SliceInv
  <2>2. Cardinality(Slice!Combinations(conf)) = All(conf) /\ All(conf) = EmptySets(conf) + SumOfSets(conf)
    BY <1>0, <2>1, CombinationsArePromised DEF All
  <2>3. SumOfSets(conf) \in Nat
    BY <1>0, <2>1, SumPositive
  <2>4. Rest(conf) = IF All(conf) - Skipped(conf) > 0 THEN All(conf) - Skipped(conf) ELSE 0
    BY <2>2 DEF Rest
  <2>5. EmptySets(conf) = (IF conf.empty THEN 1 ELSE 0) /\ All(conf) \in Nat
    BY <2>2, <2>3 DEF EmptySets
  <2>6. ASSUME GoesOn
        PROVE  InStep(conf, doseek, seek,
                      (IF Increasing(conf) /\ conf.empty THEN 1 ELSE 0) + SumOfSets(conf), Len(log))
    <3>1. Past(conf, curset) = HowManySizes(conf)
      BY <2>1, <2>6 DEF PlaceInv
    <3>2. Made(conf, pc, curset, combo) =
             (IF Increasing(conf) /\ conf.empty THEN 1 ELSE 0) + SumOfSets(conf) + 0
      BY <2>1, <3>1 DEF Made, Ahead, SumOfSets
    <3>3. Made(conf, pc, curset, combo) =
             (IF Increasing(conf) /\ conf.empty THEN 1 ELSE 0) + SumOfSets(conf)
      BY <2>3, <3>2
    <3>4. InStep(conf, doseek, Further(pc, seek), Made(conf, pc, curset, combo), Len(log))
      BY <1>s, <2>1, <2>6 DEF Looping
    <3>. QED
      BY <2>1, <3>3, <3>4 DEF Further
  <2>7. CASE EmptyLast
    <3>1. /\ ~ Increasing(conf) /\ conf.empty /\ (~ doseek \/ seek = 1) /\ (conf.count = 0 \/ left > 0)
          /\ log' = Append(log, [seq |-> seq, items |-> << >>])
      BY <2>7 DEF EmptyLast, WantsEmptyLast
    <3>2. ret = 0
      BY <3>1 DEF SliceInv, StopsCleanly, PlaceInv
    <3>3. InStep(conf, doseek, seek, SumOfSets(conf), Len(log))
      <4>1. GoesOn
        BY <3>1, <3>2 DEF GoesOn
      <4>2. (IF Increasing(conf) /\ conf.empty THEN 1 ELSE 0) + SumOfSets(conf) = SumOfSets(conf)
        BY <2>3, <3>1
      <4>. QED
        BY <2>6, <4>1, <4>2
    <3>4. Len(log) = SumOfSets(conf) - Skipped(conf)
      BY <1>0, <1>1, <2>3, <3>1, <3>3 DEF InStep
    <3>5. /\ {} \in Slice!Combinations(conf)
          /\ Slice!Rank(conf, {}) = Skipped(conf) + 1 + Len(log)
      BY <1>0, <1>1, <2>1, <2>2, <2>3, <2>5, <3>1, <3>4, RankOfEmpty
    <3>6. Len(log) + 1 = Rest(conf)
      <4>1. All(conf) = 1 + SumOfSets(conf)
        BY <2>2, <2>5, <3>1
      <4>2. Len(log) \in Nat /\ Skipped(conf) \in Nat
        BY <1>0, <1>1
      <4>. QED
        BY <2>3, <2>4, <3>4, <4>1, <4>2
    <3>7. conf.count # 0 => Len(log) < conf.count
      BY <2>1, <2>7 DEF CmbInv, CountInv, SliceInv, EmptyLast
    <3>8. Held(<< >>) = {} /\ << >> \in Seq(Int) /\ seq \in Int
      BY DEF Held, CmbInv, CountInv
    <3>9. Slice!Give /\ Len(log') = Len(log) + 1
      BY <1>0, <1>c, <2>1, <3>1, <3>2, <3>5, <3>6, <3>7, <3>8, NextIsGiven
    <3>10. SliceInv'
      BY <1>c, <2>1, <3>6, <3>9 DEF SliceInv, Rest
    <3>. QED
      BY <3>9, <3>10 DEF Slice!Next
  <2>8. CASE NoEmptyLast
    <3>1. ~ WantsEmptyLast /\ UNCHANGED <<log, ret>>
      BY <2>8 DEF NoEmptyLast, calling
    <3>2. ASSUME ret = 0 PROVE Len(log) = Slice!Quota(conf)
      <4>1. CASE conf.count # 0 /\ left = 0
        <5>1. Len(log) = conf.count
          BY <1>0, <2>1, <3>2, <4>1 DEF SliceInv
        <5>. QED
          BY <1>0, <1>1, <4>1, <5>1
      <4>2. CASE conf.count = 0 \/ left # 0
        <5>1. GoesOn
          BY <1>0, <3>2, <4>2 DEF GoesOn
        <5>2. Increasing(conf) \/ ~ conf.empty \/ (doseek /\ seek # 1)
          BY <1>0, <3>1, <4>2 DEF WantsEmptyLast
        <5>3. Len(log) = Rest(conf)
          <6>1. CASE doseek
            <7>1. /\ Len(log) = 0 /\ conf.start > 1
                  /\ (IF Increasing(conf) /\ conf.empty THEN 1 ELSE 0) + SumOfSets(conf) + seek = conf.start
              BY <2>6, <5>1, <6>1 DEF InStep
            <7>2. All(conf) <= Skipped(conf)
              BY <1>0, <1>1, <2>2, <2>3, <2>5, <5>2, <6>1, <7>1
            <7>. QED
              BY <1>1, <2>4, <2>5, <7>1, <7>2
          <6>2. CASE ~ doseek
            <7>1. Len(log) = ((IF Increasing(conf) /\ conf.empty THEN 1 ELSE 0) + SumOfSets(conf))
                                - Skipped(conf)
              <8>1. InStep(conf, FALSE, seek,
                           (IF Increasing(conf) /\ conf.empty THEN 1 ELSE 0) + SumOfSets(conf), Len(log))
                BY <1>0, <2>6, <5>1, <6>2
              <8>. QED
                BY <8>1, Zenon DEF InStep
            <7>2. Len(log) = All(conf) - Skipped(conf)
              <8>1. All(conf) = (IF Increasing(conf) /\ conf.empty THEN 1 ELSE 0) + SumOfSets(conf)
                BY <2>2, <2>3, <2>5, <5>2, <6>2
              <8>. QED
                BY <7>1, <8>1
            <7>. QED
              BY <1>0, <1>1, <2>4, <2>5, <7>2
          <6>. QED
            BY <6>1, <6>2
        <5>4. conf.count # 0 => Len(log) <= conf.count
          BY <1>0, <2>1, <3>2 DEF SliceInv
        <5>. QED
          BY <1>0, <1>1, <5>3, <5>4
      <4>. QED
        BY <4>1, <4>2
    <3>. QED
      BY <1>e, <2>1, <3>1, <3>2
  <2>. QED
    BY <1>11, <2>7, <2>8
<1>12. CASE UNCHANGED cmbVars
  <2>1. UNCHANGED <<pc, log, ret, left, curset, setnums, combo, doseek>>
    BY <1>12 DEF cmbVars
  <2>2. UNCHANGED Slice!sliceVars
    BY <1>c, <2>1 DEF Slice!sliceVars
  <2>3. SliceInv'
    BY <1>c, <2>1 DEF SliceInv, Rest, Lower, Held
  <2>. QED
    BY <2>2, <2>3
<1>. QED
  BY <1>2, <1>3, <1>4, <1>5, <1>6, <1>7, <1>8, <1>9, <1>10, <1>11, <1>12 DEF Next

\* For every number of items and every configuration: cmb() gives the slice it was
\* asked for.  Each call of the action, as long as the function is not stopped on
\* its way down to the empty set, is with the combination whose number comes next,
\* none is left out at the start or between two sizes, and the function returns
\* only when the slice is complete or an action has stopped it.
THEOREM GivesTheSlice == Spec /\ StopsCleanly(conf) => Slice!Safety
<1> DEFINE I == CmbInv /\ PlaceInv /\ MadeInv /\ SliceInv
<1>1. Called /\ StopsCleanly(conf) => I /\ Slice!Init
  BY CmbInit, PlaceInit, MadeInit, SliceInit
<1>2. I /\ [Next]_cmbVars => I' /\ [Slice!Next]_Slice!sliceVars
  BY CmbStep, PlaceStep, MadeStep, SliceStep
<1> HIDE DEF I
<1>. QED
  BY <1>1, <1>2, InitCalls, PTL DEF Spec, Slice!Safety
=============================================================================
