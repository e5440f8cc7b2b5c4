------------------------------ MODULE PyCmbProofs ------------------------------
(***************************************************************************)
(* Theorems about PyCmb: what a Python function sees of the combinations,  *)
(* and that plain use of the module is safe, for every number of objects,  *)
(* functions and operations and for lists of every length.                 *)
(*                                                                         *)
(* The library is the one CmbSeqProofs is about: every call of it begins   *)
(* with some configuration, and from there on keeps CmbInv.                *)
(***************************************************************************)
EXTENDS PyCmb, CmbSeqProofs

-----------------------------------------------------------------------------
(***************************************************************************)
(* Objects: numbers stay natural, and the action is one of two.            *)
(***************************************************************************)
Actions == {"print", "stub"}
Settings ==
    {s \in [Keys \cup {"action"} -> Nat \cup Actions] :
        (\A k \in Keys : s[k] \in Nat) /\ s["action"] \in Actions}

ObjectsInv ==
    /\ config \in [Objects -> Settings]
    /\ running \in {"nothing", "cmb", "callback", "crashed"}
    /\ running \in {"cmb", "callback"} => self \in Objects

LEMMA ActionIsNoKey == "action" \notin Keys
BY DEF Keys, NumberKeys, FlagKeys, TextKeys

LEMMA ZeroedSettings == Zeroed \in Settings
BY ActionIsNoKey DEF Zeroed, Settings, Actions

\* An assignment to a key, and cmb_callback()'s to the action.
LEMMA AssignSettings ==
  ASSUME NEW s \in Settings, NEW k \in Keys, NEW v \in Nat
  PROVE  [s EXCEPT ![k] = v] \in Settings
BY ActionIsNoKey DEF Settings

LEMMA StubSettings ==
  ASSUME NEW s \in Settings
  PROVE  [s EXCEPT !.action = "stub"] \in Settings /\ [s EXCEPT !.action = "stub"].action = "stub"
BY ActionIsNoKey DEF Settings, Actions

\* What the library is entered with is a configuration of its own.
LEMMA EnterCalls ==
  ASSUME ObjectsInv, NEW o \in Objects, NEW n \in Lengths, NEW stops \in BOOLEAN,
         Enter(o, n, stops)
  PROVE  Called'
<1>1. config[o] \in Settings
  BY DEF ObjectsInv
<1>2. /\ config[o].size_min \in Nat /\ config[o].size_max \in Nat
      /\ config[o].count \in Nat /\ config[o].start \in Nat
  BY <1>1 DEF Settings, Keys, NumberKeys
<1>3. n \in 0 .. MaxItems
  BY LengthsAssumption
<1>4. /\ conf'.n = n /\ conf'.min = config[o].size_min /\ conf'.max = config[o].size_max
      /\ conf'.count = config[o].count /\ conf'.start = config[o].start
  BY DEF Enter
<1>5. conf'.empty \in BOOLEAN
  BY Zenon DEF Enter
<1>6. conf'.numbers \in BOOLEAN
  BY Zenon DEF Enter
<1>7. conf'.bn \in BOOLEAN /\ conf'.mayStop \in BOOLEAN
  BY DEF Enter
<1>8. ConfigOK(conf)'
  BY <1>2, <1>3, <1>4, <1>5, <1>6, <1>7 DEF ConfigOK
<1>9. Calling'
  BY DEF Enter, Calling
<1>. QED
  BY <1>8, <1>9 DEF Called

-----------------------------------------------------------------------------
(***************************************************************************)
(* One step of the library.                                                *)
(***************************************************************************)

LEMMA FunctionIsSeq ==
  ASSUME NEW T, NEW k \in Nat, NEW u \in [1 .. k -> T]
  PROVE  u \in Seq(T)
OBVIOUS

LEMMA LengthOf ==
  ASSUME NEW T, NEW k \in Nat, NEW u \in [1 .. k -> T]
  PROVE  Len(u) = k
OBVIOUS

LEMMA ElementOfSeq ==
  ASSUME NEW T, NEW u \in Seq(T), NEW i \in DOMAIN u
  PROVE  u[i] \in T
OBVIOUS

\* A step calls the action once, with some of the items in order, or not at all.
LEMMA StepCalls ==
  ASSUME CmbInv, CmbInv', Next
  PROVE  /\ conf' = conf
         /\ \/ log' = log
            \/ \E q \in Int, s \in Seq(1 .. conf.n) :
                  log' = Append(log, [seq |-> q, items |-> s])
<1> USE DEF calling, enum, seeking
<1>0. conf.n \in Nat /\ seq \in Int
  BY DEF CmbInv, ShiftInv, ConfigOK, CountInv
<1>1. << >> \in Seq(1 .. conf.n)
  OBVIOUS
<1>2. CASE Refuse \/ Prepare \/ EmptyPassed \/ NoEmptyFirst \/ PassSet \/ EnterSet \/ SetsEnd
           \/ SetEnd \/ NoEmptyLast
  BY <1>2 DEF Refuse, Prepare, EmptyPassed, NoEmptyFirst, PassSet, EnterSet, SetsEnd, SetEnd,
              NoEmptyLast
<1>3. CASE EmptyFirst
  BY <1>0, <1>1, <1>3 DEF EmptyFirst, Call
<1>4. CASE EmptyLast
  BY <1>0, <1>1, <1>4 DEF EmptyLast
<1>5. CASE ShowFirst \/ Shift
  <2>1. conf' = conf /\ (log' = log \/ log' = Append(log, [seq |-> seq, items |-> setnums']))
    BY <1>5 DEF ShowFirst, Shift, Call
  <2>2. PICK k \in 0 .. conf.n : setnums' \in Combination(k)'
    BY <2>1 DEF CmbInv, ExactInv
  <2>3. setnums' \in [1 .. k -> 1 .. conf.n] /\ k \in Nat
    BY <1>0, <2>1, <2>2 DEF Combination
  <2>5. setnums' \in Seq(1 .. conf.n)
    BY <2>3, FunctionIsSeq, Zenon
  <2>. QED
    BY <1>0, <2>1, <2>5
<1>. QED
  BY <1>2, <1>3, <1>4, <1>5 DEF Next

-----------------------------------------------------------------------------
(***************************************************************************)
(* The globals of the module.                                              *)
(***************************************************************************)
StubInv ==
    /\ list \in Seq(Int) /\ listSize = Len(list)
    /\ refs \in [Functions -> Int] /\ length \in Int
    /\ held \in Nat \ {0} /\ items \in Seq(Int)
    /\ misuse \in BOOLEAN
    /\ running = "callback" =>
          func \in Functions /\ config[self].action = "stub" /\ Len(items) = length

\* How many references the lists that were left behind have taken of each item:
\* none before the first size, and at most one for each size since.
Taken(k) == \A i \in DOMAIN items : held - items[i] <= k
Due == IF listSize = 0 THEN 0 ELSE 1
Behind == IF Increasing(conf) THEN curset - 1 ELSE conf.n - curset

TakenInv ==
    /\ pc \in {"call", "emptyFirst"} => listSize = 0 /\ Taken(0)
    /\ pc \in {"set", "first"} => Taken(Behind - Due)
    /\ pc = "shift" => Taken(Behind - Due) \/ (listSize = curset /\ Taken(Behind))
    /\ pc = "emptyLast" => Taken(conf.n - Due)

\* What keeps a program safe that does nothing the module does not bear: its own
\* reference to each function, and one more for the one that is called; and
\* enough of them to the items.
PlainInv ==
    /\ running = "cmb" => config[self].action = "print"
    /\ running = "callback" => tuple = TRUE /\ conf.n <= length /\ refs[func] >= 2
    /\ \A f \in Functions : refs[f] >= 1
    /\ running = "crashed" => func \in Functions /\ (tuple => ~ (held >= conf.n))
    /\ running = "callback" /\ held >= conf.n =>
          TakenInv /\ (log # << >> => seen = log[Len(log)].items)

PyInv == ObjectsInv /\ StubInv /\ (misuse = FALSE => PlainInv)

LEMMA ReleasedIs ==
  ASSUME StubInv
  PROVE  /\ Released(list) \in Seq(Int) /\ Len(Released(list)) = Len(items)
         /\ \A i \in DOMAIN items : items[i] - Released(list)[i] <= Due
<1>1. items \in Seq(Int) /\ DOMAIN items = 1 .. Len(items) /\ Len(items) \in Nat
  BY DEF StubInv
<1>2. Released(list) \in [1 .. Len(items) -> Int]
  BY <1>1 DEF Released
<1>3. ASSUME NEW i \in DOMAIN items PROVE items[i] - Released(list)[i] <= Due
  <2>1. Released(list)[i] = IF i \in Range(list) THEN items[i] - 1 ELSE items[i]
    BY DEF Released
  <2>2. ASSUME listSize = 0 PROVE i \notin Range(list)
    <3>1. list \in Seq(Int) /\ Len(list) = 0
      BY <2>2 DEF StubInv
    <3>2. DOMAIN list = {}
      BY <3>1
    <3>. QED
      BY <3>2 DEF Range
  <2>. QED
    BY <1>1, <2>1, <2>2 DEF Due
<1>. QED
  BY <1>1, <1>2, <1>3

\* stub_cmb_func(): the list takes the size and the items of the combination;
\* the one it replaces takes at most one reference of each item.
LEMMA StubFills ==
  ASSUME StubInv, running = "callback", NEW n \in Nat, NEW s \in Seq(1 .. n), Stub(s)
  PROVE  /\ list' = s /\ listSize' = Len(s)
         /\ items' \in Seq(Int) /\ Len(items') = Len(items)
         /\ items' = items \/ listSize # Len(s)
         /\ \A i \in DOMAIN items : items[i] - items'[i] <= Due
         /\ running' \in {running, "crashed"}
         /\ /\ tuple /\ refs[func] >= 2 /\ n <= Len(items)
            /\ \A i \in DOMAIN items : items'[i] >= 0 /\ (s # << >> => items'[i] >= 1)
            => seen' = s /\ running' = running
<1> DEFINE l == IF listSize # Len(s) THEN EmptyList(s) ELSE list
           have == IF listSize # Len(s) THEN Released(list) ELSE items
<1>1. Len(s) \in Nat /\ DOMAIN s = 1 .. Len(s) /\ s = [i \in 1 .. Len(s) |-> s[i]]
  OBVIOUS
<1>2. DOMAIN l = 1 .. Len(s) /\ Len(l) = Len(s)
  <2>1. CASE listSize # Len(s)
    BY <1>1, <2>1 DEF EmptyList
  <2>2. CASE listSize = Len(s)
    <3>1. list \in Seq(Int) /\ Len(list) = Len(s)
      BY <2>2 DEF StubInv
    <3>2. DOMAIN list = 1 .. Len(list)
      BY <3>1
    <3>. QED
      BY <2>2, <3>1, <3>2
  <2>. QED
    BY <2>1, <2>2
<1>3. /\ have \in Seq(Int) /\ Len(have) = Len(items)
      /\ \A i \in DOMAIN items : items[i] - have[i] <= Due
      /\ have = items \/ listSize # Len(s)
  <2>1. items \in Seq(Int) /\ Due >= 0
    BY DEF StubInv, Due
  <2>. QED
    BY <2>1, ReleasedIs
<1>4. Handed(s, l, have)
  BY Zenon DEF Stub
<1> HIDE DEF l, have
<1>5. /\ listSize' = Len(l) /\ items' = have
      /\ list' = [i \in DOMAIN l |-> IF i \in DOMAIN s THEN s[i] ELSE l[i]]
      /\ running' \in {running, "crashed"}
      /\ ~ Broken(s, l, have) => seen' = list' /\ running' = running
  BY <1>4 DEF Handed
<1>6. list' = s
  BY <1>1, <1>2, <1>5
<1>7. ASSUME tuple, refs[func] >= 2, n <= Len(items),
             \A i \in DOMAIN items : items'[i] >= 0 /\ (s # << >> => items'[i] >= 1)
      PROVE  ~ Broken(s, l, have)
  <2>1. items \in Seq(Int) /\ DOMAIN items = 1 .. Len(items) /\ DOMAIN have = 1 .. Len(items)
        /\ Len(items) \in Nat
    BY <1>3 DEF StubInv
  <2>2. ASSUME NEW i \in DOMAIN s PROVE s[i] \in DOMAIN have /\ ~ (have[s[i]] <= 0)
    <3>1. s[i] \in 1 .. n
      BY ElementOfSeq, Zenon
    <3>2. s[i] \in 1 .. Len(items)
      BY <1>7, <2>1, <3>1
    <3>3. s # << >>
      BY <1>1, <2>2
    <3>4. have[s[i]] >= 1 /\ have[s[i]] \in Int
      BY <1>3, <1>5, <1>7, <2>1, <3>2, <3>3
    <3>. QED
      BY <2>1, <3>2, <3>4
  <2>3. ASSUME NEW i \in DOMAIN have PROVE ~ (have[i] < 0)
    BY <1>3, <1>5, <1>7, <2>1
  <2>4. ~ (Len(l) < Len(s)) /\ ~ (refs[func] <= 0)
    <3>1. refs[func] \in Int
      BY DEF StubInv
    <3>. QED
      BY <1>1, <1>2, <1>7, <3>1
  <2>. QED
    BY <1>7, <2>2, <2>3, <2>4 DEF Broken
<1>. QED
  BY <1>1, <1>2, <1>3, <1>5, <1>6, <1>7

\* What a call of the action does to the list and to the items.
Refilled(s) ==
    /\ listSize' = Len(s) /\ Len(items') = Len(items) /\ items' \in Seq(Int)
    /\ items' = items \/ listSize # Len(s)
    /\ \A i \in DOMAIN items : items[i] - items'[i] <= Due

\* Through every step of the library no item is taken more often than sizes have
\* been left behind, so that where there are enough references one is left.
LEMMA TakenStep ==
  ASSUME CmbInv, CmbInv', TakenInv, Next, held \in Nat, held >= conf.n, held' = held,
         items \in Seq(Int), listSize \in Nat,
         log' = log => UNCHANGED <<items, listSize>>,
         NEW s, log' # log => log'[Len(log')].items = s /\ Refilled(s)
  PROVE  /\ TakenInv'
         /\ log' # log => \A i \in DOMAIN items : items'[i] >= 0 /\ (s # << >> => items'[i] >= 1)
<1> DEFINE Safe == \A i \in DOMAIN items : items'[i] >= 0 /\ (s # << >> => items'[i] >= 1)
<1>0. /\ conf.n \in Nat /\ log \in Seq(Calls) /\ curset \in Nat /\ conf' = conf
      /\ Due \in {0, 1} /\ DOMAIN items = 1 .. Len(items) /\ Len(items) \in Nat
      /\ (Increasing(conf)' <=> Increasing(conf))
  BY StepCalls DEF CmbInv, ShiftInv, ConfigOK, CountInv, Due, Increasing, SetInit, SetDone, Clamp,
     Requested
<1>1. ASSUME log' = log PROVE Due' = Due /\ items' = items /\ listSize' = listSize
  BY <1>1 DEF Due
<1>2. ASSUME NEW k \in Int, NEW m \in Int, k <= m, Taken(k) PROVE Taken(m)
  BY <1>0, <1>2 DEF Taken
<1>3. ASSUME log' # log, NEW k \in Int, Taken(k - Due) \/ (listSize = Len(s) /\ Taken(k))
      PROVE  /\ \A i \in DOMAIN items' : held - items'[i] <= k
             /\ k < conf.n \/ (s = << >> /\ k <= conf.n) => Safe
  <2>1. /\ Len(items') = Len(items) /\ items' \in Seq(Int) /\ DOMAIN items' = DOMAIN items
        /\ items' = items \/ listSize # Len(s)
        /\ \A i \in DOMAIN items : items[i] - items'[i] <= Due
    BY <1>0, <1>3 DEF Refilled
  <2>2. ASSUME NEW i \in DOMAIN items PROVE held - items'[i] <= k
    <3>1. items[i] \in Int /\ items'[i] \in Int /\ items[i] - items'[i] <= Due
      BY <1>0, <2>1
    <3>2. CASE held - items[i] <= k - Due
      BY <1>0, <3>1, <3>2
    <3>3. CASE listSize = Len(s) /\ held - items[i] <= k
      BY <2>1, <3>3
    <3>. QED
      BY <1>3, <3>2, <3>3 DEF Taken
  <2>3. \A i \in DOMAIN items' : held - items'[i] <= k
    BY <2>1, <2>2
  <2>4. ASSUME k < conf.n \/ (s = << >> /\ k <= conf.n) PROVE Safe
    <3>1. ASSUME NEW i \in DOMAIN items PROVE items'[i] >= 0 /\ (s # << >> => items'[i] >= 1)
      <4>1. items'[i] \in Int
        BY <1>0, <2>1
      <4>. QED
        BY <1>0, <2>2, <2>4, <4>1
    <3>. QED
      BY <3>1
  <2>. QED
    BY <2>3, <2>4
<1> HIDE DEF Safe
<1>4. ASSUME pc' = "set" PROVE Behind' \in Nat
  <2>1. AtSize'
    BY <1>4 DEF CmbInv, ExactInv
  <2>. QED
    BY <1>0, <2>1 DEF AtSize, Behind
<1>5. ASSUME pc \in {"first", "shift"} PROVE Behind \in 0 .. (conf.n - 1)
  <2>1. curset \in 1 .. conf.n
    BY <1>5 DEF CmbInv, ExactInv
  <2>. QED
    BY <1>0, <2>1 DEF Behind
<1>6. Behind \in Int
  BY <1>0 DEF Behind
<1>7. ASSUME NEW items_, log' = Append(log, [seq |-> seq, items |-> items_])
      PROVE  log' # log /\ s = items_
  <2>1. Len(log') = Len(log) + 1 /\ Len(log) \in Nat /\ log'[Len(log')].items = items_
    BY <1>0, <1>7
  <2>. QED
    BY <2>1
<1> USE DEF enum, seeking, calling
<1>8. CASE Refuse
  BY <1>8, <1>0 DEF Refuse, TakenInv
<1>9. CASE Prepare
  BY <1>9, <1>0, <1>1 DEF Prepare, TakenInv, Taken
<1>10. CASE EmptyPassed \/ NoEmptyFirst
  <2>1. /\ pc = "emptyFirst" /\ pc' \in {"set", "returned"} /\ log' = log
    BY <1>10 DEF EmptyPassed, NoEmptyFirst, Sets
  <2>2. listSize = 0 /\ Taken(0) /\ Due = 0
    BY <2>1 DEF TakenInv, Due
  <2>3. ASSUME pc' = "set" PROVE Taken(Behind' - Due)
    BY <1>2, <1>4, <2>2, <2>3
  <2>. QED
    BY <1>1, <2>1, <2>2, <2>3 DEF TakenInv, Taken
<1>11. CASE EmptyFirst
  <2>1. /\ pc = "emptyFirst" /\ pc' \in {"set", "returned"}
        /\ log' = Append(log, [seq |-> seq, items |-> << >>])
    BY <1>11 DEF EmptyFirst, Call, Sets
  <2>2. s = << >> /\ log' # log
    BY <1>7, <2>1
  <2>3. listSize = 0 /\ Taken(0)
    BY <2>1 DEF TakenInv
  <2>4. Taken(0)' /\ Safe /\ listSize' = 0
    <3>1. Taken(0 - Due)
      BY <2>3 DEF Due
    <3>2. (\A i \in DOMAIN items' : held - items'[i] <= 0) /\ Safe
      BY <1>0, <1>3, <2>2, <3>1
    <3>. QED
      BY <2>2, <3>2 DEF Taken, Refilled
  <2>5. Due' = 0 /\ items' \in Seq(Int)
    BY <2>2, <2>4 DEF Due, Refilled
  <2>6. ASSUME pc' = "set" PROVE Taken(Behind - Due)'
    BY <1>4, <2>4, <2>5, <2>6 DEF Taken
  <2>. QED
    BY <2>1, <2>4, <2>6 DEF TakenInv, Safe
<1>12. CASE PassSet \/ SetEnd
  <2>1. /\ pc \in {"set", "shift"} /\ pc' = "set" /\ log' = log
        /\ Behind' = Behind + 1
    BY <1>0, <1>12 DEF PassSet, SetEnd, NextSet, Behind
  <2>2. Taken(Behind - Due) \/ Taken(Behind)
    BY <2>1 DEF TakenInv
  <2>3. Taken(Behind + 1 - Due)
    <3>1. /\ Behind - Due \in Int /\ Behind + 1 - Due \in Int
          /\ Behind - Due <= Behind + 1 - Due /\ Behind <= Behind + 1 - Due
      BY <1>0, <1>6
    <3>2. CASE Taken(Behind - Due)
      BY <1>2, <3>1, <3>2, Zenon
    <3>3. CASE Taken(Behind)
      BY <1>2, <1>6, <3>1, <3>3, Zenon
    <3>. QED
      BY <2>2, <3>2, <3>3
  <2>4. Behind' - Due' = Behind + 1 - Due
    BY <1>0, <1>1, <1>6, <2>1
  <2>5. Taken(Behind' - Due')
    BY <2>3, <2>4
  <2>6. Taken(Behind - Due)'
    BY <1>0, <2>1, <2>5 DEF Taken
  <2>. QED
    BY <2>1, <2>6 DEF TakenInv
<1>13. CASE EnterSet
  BY <1>13, <1>0, <1>1 DEF EnterSet, TakenInv, Taken, Behind
<1>14. CASE SetsEnd
  <2>1. pc = "set" /\ pc' = "emptyLast" /\ log' = log
    BY <1>14 DEF SetsEnd
  <2>2. Behind <= conf.n
    BY <1>0, <2>1 DEF CmbInv, ExactInv, AtSize, Behind
  <2>3. Taken(conf.n - Due)
    BY <1>0, <1>2, <1>6, <2>1, <2>2 DEF TakenInv
  <2>. QED
    BY <1>0, <1>1, <2>1, <2>3 DEF TakenInv, Taken
<1>15. CASE ShowFirst \/ Shift
  <2>1. /\ pc \in {"first", "shift"} /\ curset' = curset /\ Behind' = Behind
        /\ Behind \in 0 .. (conf.n - 1)
    BY <1>0, <1>5, <1>15 DEF ShowFirst, Shift, Behind
  <2>2. Taken(Behind - Due) \/ (listSize = curset /\ Taken(Behind))
    BY <2>1 DEF TakenInv
  <2>3. CASE pc' = "shift" /\ log' = log
    BY <1>1, <2>1, <2>2, <2>3 DEF TakenInv, Taken
  <2>4. CASE /\ log' = Append(log, [seq |-> seq, items |-> setnums'])
             /\ pc' \in {"shift", "emptyLast", "returned"}
    <3>1. s = setnums' /\ log' # log
      BY <1>7, <2>4
    <3>2. Len(s) = curset /\ curset >= 1
      <4>1. setnums' = Leading(curset) \/ (pc = "shift" /\ setnums' = Shifted(setnums))
        BY <1>15 DEF ShowFirst, Shift
      <4>2. pc = "shift" => DOMAIN setnums = 1 .. curset
        BY DEF CmbInv, ShiftInv
      <4>3. setnums' \in [1 .. curset -> {setnums'[i] : i \in 1 .. curset}]
        BY <4>1, <4>2 DEF Leading, Shifted
      <4>4. Len(setnums') = curset
        BY <1>0, <4>3, LengthOf, Zenon
      <4>5. curset >= 1
        BY <2>1 DEF CmbInv, ShiftInv
      <4>. QED
        BY <3>1, <4>4, <4>5, Zenon
    <3>3. Taken(Behind)' /\ Safe /\ listSize' = curset
      <4>1. Taken(Behind - Due) \/ (listSize = Len(s) /\ Taken(Behind))
        BY <2>2, <3>2
      <4>2. /\ \A i \in DOMAIN items' : held - items'[i] <= Behind
            /\ Behind < conf.n \/ (s = << >> /\ Behind <= conf.n) => Safe
        BY <1>3, <1>6, <3>1, <4>1, Zenon
      <4>3. listSize' = Len(s) /\ Behind < conf.n
        BY <1>0, <2>1, <3>1 DEF Refilled
      <4>4. Taken(Behind)'
        BY <2>1, <4>2 DEF Taken
      <4>. QED
        BY <3>2, <4>2, <4>3, <4>4
    <3>4. Due' = 1
      BY <1>0, <3>2, <3>3 DEF Due
    <3>5. pc' = "emptyLast" => Taken(conf.n - Due)'
      BY <1>0, <2>1, <3>1, <3>3, <3>4 DEF Taken, Refilled
    <3>. QED
      BY <2>1, <2>4, <3>3, <3>5 DEF TakenInv, Safe
  <2>. QED
    BY <1>15, <2>3, <2>4 DEF ShowFirst, Shift, Call
<1>16. CASE EmptyLast
  <2>1. pc = "emptyLast" /\ pc' = "returned" /\ log' = Append(log, [seq |-> seq, items |-> << >>])
    BY <1>16 DEF EmptyLast
  <2>2. s = << >> /\ log' # log
    BY <1>7, <2>1
  <2>3. Safe
    BY <1>0, <1>3, <2>1, <2>2 DEF TakenInv
  <2>. QED
    BY <2>1, <2>3 DEF TakenInv, Safe
<1>17. CASE NoEmptyLast
  BY <1>17 DEF NoEmptyLast, TakenInv
<1>. QED
  BY <1>8, <1>9, <1>10, <1>11, <1>12, <1>13, <1>14, <1>15, <1>16, <1>17 DEF Next

-----------------------------------------------------------------------------
(***************************************************************************)
(* The steps of a program.                                                 *)
(***************************************************************************)
LEMMA PyInitially == PyInit => Called /\ PyInv
<1> SUFFICES ASSUME PyInit PROVE Called /\ PyInv
  OBVIOUS
<1>1. Called
  BY DEF PyInit, Called, ConfigOK, MaxItems
<1>2. ObjectsInv
  BY ZeroedSettings DEF PyInit, ObjectsInv
<1>3. StubInv
  <2>1. list = << >> /\ listSize = 0 /\ refs = [f \in Functions |-> 1]
    BY DEF PyInit
  <2>2. misuse = FALSE /\ running = "nothing"
    BY DEF PyInit
  <2>3. misuse \in BOOLEAN
    BY <2>2
  <2>4. list \in Seq(Int) /\ listSize = Len(list)
    BY <2>1
  <2>5. refs \in [Functions -> Int]
    BY <2>1
  <2>6. length \in Int /\ held \in Nat \ {0}
    BY ItemRefsAssumption DEF PyInit
  <2>7. items \in Seq(Int)
    BY DEF PyInit
  <2>. QED
    BY <2>2, <2>3, <2>4, <2>5, <2>6, <2>7 DEF StubInv
<1>4. PlainInv
  BY DEF PyInit, PlainInv
<1>. QED
  BY <1>1, <1>2, <1>3, <1>4 DEF PyInv

\* What an attribute is set to.
LEMMA AttributeStep ==
  ASSUME ObjectsInv, SetAttribute
  PROVE  /\ config' \in [Objects -> Settings] /\ running = "nothing"
         /\ UNCHANGED <<running, self, length, func, refs, tuple, list, listSize, items, seen, held,
                         misuse>>
         /\ UNCHANGED cmbVars
<1> USE DEF stub
<1>1. ASSUME NEW o \in Objects, NEW k \in NumberKeys, NEW v \in Numbers \cup {NoValue},
             SetNumber(o, k, v)
      PROVE  config' \in [Objects -> Settings]
  <2>1. k \in Keys /\ (IF v = NoValue THEN 0 ELSE v) \in Nat
    BY NumbersAssumption DEF Keys, NoValue
  <2>2. [config[o] EXCEPT ![k] = IF v = NoValue THEN 0 ELSE v] \in Settings
    BY <2>1, AssignSettings DEF ObjectsInv
  <2>. QED
    BY <1>1, <2>2 DEF SetNumber, Assign, ObjectsInv
<1>2. ASSUME NEW o \in Objects, NEW k \in FlagKeys, NEW v \in {0, 1, NoValue}, SetFlag(o, k, v)
      PROVE  config' \in [Objects -> Settings]
  <2>1. k \in Keys /\ (IF v \in {0, NoValue} THEN 0 ELSE 1) \in Nat
    BY DEF Keys
  <2>2. [config[o] EXCEPT ![k] = IF v \in {0, NoValue} THEN 0 ELSE 1] \in Settings
    BY <2>1, AssignSettings DEF ObjectsInv
  <2>. QED
    BY <1>2, <2>2 DEF SetFlag, Assign, ObjectsInv
<1>3. ASSUME NEW o \in Objects, NEW k \in TextKeys, NEW v \in {1, NoValue}, SetText(o, k, v)
      PROVE  config' \in [Objects -> Settings]
  <2>1. k \in Keys /\ (IF v = NoValue THEN 0 ELSE 1) \in Nat
    BY DEF Keys
  <2>2. [config[o] EXCEPT ![k] = IF v = NoValue THEN 0 ELSE 1] \in Settings
    BY <2>1, AssignSettings DEF ObjectsInv
  <2>. QED
    BY <1>3, <2>2 DEF SetText, Assign, ObjectsInv
<1>4. ASSUME NEW o \in Objects, SetKeys(o) PROVE config' \in [Objects -> Settings]
  BY <1>4, ZeroedSettings DEF SetKeys, ObjectsInv
<1>5. config' \in [Objects -> Settings]
  BY <1>1, <1>2, <1>3, <1>4 DEF SetAttribute
<1>6. /\ running = "nothing"
      /\ UNCHANGED <<running, self, length, func, refs, tuple, list, listSize, items, seen, held,
                      misuse>>
      /\ UNCHANGED cmbVars
  BY DEF SetAttribute, SetNumber, SetFlag, SetText, SetKeys, Operation
<1>. QED
  BY <1>5, <1>6

LEMMA ObjectsStep == ObjectsInv /\ [PyNext]_vars => ObjectsInv'
<1> SUFFICES ASSUME ObjectsInv, [PyNext]_vars PROVE ObjectsInv'
  OBVIOUS
<1>1. CASE SetAttribute
  BY <1>1, AttributeStep DEF ObjectsInv
<1>2. ASSUME NEW o \in Objects, NEW n \in Lengths, CallPrint(o, n) PROVE ObjectsInv'
  BY <1>2 DEF CallPrint, Enter, ObjectsInv
<1>3. ASSUME NEW o \in Objects, NEW n \in Lengths, NEW size \in Lengths, NEW f \in Functions,
             CallCallback(o, n, size, f)
      PROVE  ObjectsInv'
  <2>1. [config[o] EXCEPT !.action = "stub"] \in Settings
    BY StubSettings DEF ObjectsInv
  <2>. QED
    BY <1>3, <2>1 DEF CallCallback, Enter, ObjectsInv
<1>4. CASE InsideCmb
  <2>1. UNCHANGED <<config, self>> /\ running \in {"cmb", "callback"}
        /\ running' \in {running, "crashed"}
    BY <1>4 DEF InsideCmb, Stub, Handed
  <2>. QED
    BY <2>1 DEF ObjectsInv
<1>5. ASSUME NEW o \in Objects, NEW f \in Functions, CallFromFunction(o, f) PROVE ObjectsInv'
  <2>1. [config[o] EXCEPT !.action = "stub"] \in Settings
    BY StubSettings DEF ObjectsInv
  <2>. QED
    BY <1>5, <2>1 DEF CallFromFunction, ObjectsInv
<1>6. CASE Return
  BY <1>6 DEF Return, ObjectsInv
<1>7. CASE UNCHANGED vars
  BY <1>7 DEF vars, pyVars, ObjectsInv
<1>. QED
  BY <1>1, <1>2, <1>3, <1>4, <1>5, <1>6, <1>7 DEF PyNext

\* Every step of a program is one of the library, enters it, or leaves it alone.
LEMMA LibraryStep == ObjectsInv /\ [PyNext]_vars => [Next]_cmbVars \/ Called'
<1> SUFFICES ASSUME ObjectsInv, [PyNext]_vars PROVE [Next]_cmbVars \/ Called'
  OBVIOUS
<1>1. CASE SetAttribute
  BY <1>1, AttributeStep
<1>2. ASSUME NEW o \in Objects, NEW n \in Lengths, CallPrint(o, n) PROVE Called'
  BY <1>2, EnterCalls DEF CallPrint
<1>3. ASSUME NEW o \in Objects, NEW n \in Lengths, NEW size \in Lengths, NEW f \in Functions,
             CallCallback(o, n, size, f)
      PROVE  Called'
  BY <1>3, EnterCalls DEF CallCallback
<1>4. CASE InsideCmb
  BY <1>4 DEF InsideCmb
<1>5. ASSUME NEW o \in Objects, NEW f \in Functions, CallFromFunction(o, f) PROVE UNCHANGED cmbVars
  BY <1>5 DEF CallFromFunction
<1>6. CASE Return
  BY <1>6 DEF Return
<1>7. CASE UNCHANGED vars
  BY <1>7 DEF vars
<1>. QED
  BY <1>1, <1>2, <1>3, <1>4, <1>5, <1>6, <1>7 DEF PyNext

\* A step of the library: what it hands to the function.
LEMMA InsideStep ==
  ASSUME CmbInv, CmbInv', PyInv, InsideCmb
  PROVE  StubInv' /\ (misuse' = FALSE => PlainInv')
<1>1. /\ running \in {"cmb", "callback"} /\ Next /\ conf' = conf
      /\ UNCHANGED <<config, self, length, held, calls, misuse>>
  BY StepCalls DEF InsideCmb
<1>2. StubInv /\ (misuse = FALSE => PlainInv) /\ log \in Seq(Calls) /\ misuse \in BOOLEAN
      /\ held \in Nat /\ items \in Seq(Int) /\ listSize \in Nat /\ conf.n \in Nat
  BY DEF PyInv, CmbInv, CountInv, StubInv, ShiftInv, ConfigOK
<1>3. CASE UNCHANGED <<running, stub>> /\ (log' = log \/ running = "cmb")
  <2>1. UNCHANGED <<func, refs, tuple, list, listSize, items, seen>>
    BY <1>3 DEF stub
  <2>2. StubInv'
    BY <1>1, <1>2, <1>3, <2>1 DEF StubInv
  <2>3. ASSUME misuse' = FALSE, running = "callback", held >= conf.n PROVE TakenInv'
    <3>1. TakenInv /\ log' = log
      BY <1>1, <1>2, <1>3, <2>3 DEF PlainInv
    <3>. QED
      BY <1>1, <1>2, <2>1, <2>3, <3>1, TakenStep
  <2>. QED
    BY <1>1, <1>2, <1>3, <2>1, <2>2, <2>3 DEF PlainInv
<1>4. CASE log' # log
  <2>1. PICK q \in Int, s \in Seq(1 .. conf.n) : log' = Append(log, [seq |-> q, items |-> s])
    BY <1>1, <1>4, StepCalls
  <2>2. log'[Len(log')].items = s
    BY <1>2, <2>1
  <2>3. CASE config[self].action = "print"
    <3>1. UNCHANGED <<running, stub>>
      BY <2>3 DEF InsideCmb
    <3>2. running = "cmb"
      BY <1>1, <1>2, <2>3 DEF StubInv
    <3>. QED
      BY <1>3, <3>1, <3>2
  <2>4. CASE config[self].action # "print" /\ running = "callback"
    <3>1. Stub(s) /\ UNCHANGED <<func, refs, tuple>>
      BY <1>4, <2>2, <2>4 DEF InsideCmb
    <3>2. /\ list' = s /\ listSize' = Len(s)
          /\ items' \in Seq(Int) /\ Len(items') = Len(items)
          /\ items' = items \/ listSize # Len(s)
          /\ \A i \in DOMAIN items : items[i] - items'[i] <= Due
          /\ running' \in {running, "crashed"}
          /\ /\ tuple /\ refs[func] >= 2 /\ conf.n <= Len(items)
             /\ \A i \in DOMAIN items : items'[i] >= 0 /\ (s # << >> => items'[i] >= 1)
             => seen' = s /\ running' = running
      BY <1>2, <2>4, <3>1, StubFills
    <3>3. list' \in Seq(Int) /\ Refilled(s)
      BY <1>2, <3>2 DEF Refilled
    <3>4. StubInv'
      BY <1>1, <1>2, <2>4, <3>1, <3>2, <3>3 DEF StubInv
    <3>5. ASSUME misuse' = FALSE PROVE PlainInv'
      <4>1. PlainInv /\ tuple = TRUE /\ conf.n <= length /\ refs[func] >= 2
            /\ func \in Functions /\ Len(items) = length
        BY <1>1, <1>2, <2>4, <3>5 DEF PlainInv, StubInv
      <4>2. ASSUME held >= conf.n PROVE TakenInv' /\ running' = "callback" /\ seen' = s
        <5>1. TakenInv
          BY <2>4, <4>1, <4>2 DEF PlainInv
        <5>2. TakenInv' /\ \A i \in DOMAIN items : items'[i] >= 0 /\ (s # << >> => items'[i] >= 1)
          BY <1>1, <1>2, <1>4, <2>2, <3>3, <4>2, <5>1, TakenStep
        <5>. QED
          BY <2>4, <3>2, <4>1, <5>2
      <4>. QED
        BY <1>1, <2>2, <2>4, <3>1, <3>2, <4>1, <4>2 DEF PlainInv
    <3>. QED
      BY <3>4, <3>5
  <2>5. CASE config[self].action # "print" /\ running = "cmb"
    <3>1. running' = "crashed" /\ UNCHANGED stub
      BY <1>1, <1>4, <2>5 DEF InsideCmb
    <3>2. misuse' # FALSE
      BY <1>1, <1>2, <2>5 DEF PlainInv
    <3>. QED
      BY <1>1, <1>2, <3>1, <3>2 DEF StubInv, stub
  <2>. QED
    BY <1>1, <2>3, <2>4, <2>5
<1>. QED
  BY <1>3, <1>4 DEF InsideCmb

\* The function of a call gets a reference, and its last one gave one back.
LEMMA KeptRefs ==
  ASSUME refs \in [Functions -> Int], NEW f \in Functions
  PROVE  /\ Kept(f) \in [Functions -> Int]
         /\ func = NoOne => /\ Kept(f)[f] = refs[f] + 1
                           /\ \A g \in Functions : Kept(f)[g] >= refs[g]
BY DEF Kept

LEMMA PyStep ==
  ASSUME CmbInv, CmbInv', PyInv, [PyNext]_vars
  PROVE  StubInv' /\ (misuse' = FALSE => PlainInv')
<1>0. /\ ObjectsInv /\ StubInv /\ (misuse = FALSE => PlainInv) /\ misuse \in BOOLEAN
      /\ refs \in [Functions -> Int] /\ length \in Int /\ held \in Nat \ {0}
      /\ items \in Seq(Int)
  BY DEF PyInv, StubInv
<1>1. CASE SetAttribute
  BY <1>0, <1>1, AttributeStep DEF StubInv, PlainInv, cmbVars
<1>2. ASSUME NEW o \in Objects, NEW n \in Lengths, CallPrint(o, n)
      PROVE  StubInv' /\ (misuse' = FALSE => PlainInv')
  <2>1. /\ running' = "cmb" /\ length' = n /\ self' = o /\ log' = << >>
        /\ UNCHANGED <<config, held, func, refs, tuple, list, listSize, items, seen>>
        /\ misuse' = (misuse \/ config[o].action = "stub")
    BY <1>2 DEF CallPrint, Enter, stub
  <2>2. n \in Int
    BY LengthsAssumption DEF MaxItems
  <2>3. misuse' \in BOOLEAN
    BY <2>1, Zenon
  <2>4. StubInv'
    BY <1>0, <2>1, <2>2, <2>3 DEF StubInv
  <2>5. ASSUME misuse' = FALSE PROVE PlainInv'
    <3>1. misuse = FALSE /\ config[o].action # "stub"
      BY <1>0, <2>1, <2>5, Zenon
    <3>2. config[o].action = "print"
      BY <1>0, <3>1 DEF ObjectsInv, Settings, Actions
    <3>. QED
      BY <1>0, <2>1, <3>1, <3>2 DEF PlainInv
  <2>. QED
    BY <2>4, <2>5
<1>3. ASSUME NEW o \in Objects, NEW n \in Lengths, NEW size \in Lengths, NEW f \in Functions,
             CallCallback(o, n, size, f)
      PROVE  StubInv' /\ (misuse' = FALSE => PlainInv')
  <2>1. /\ running' = "callback" /\ length' = size /\ func' = f /\ refs' = Kept(f)
        /\ config' = [config EXCEPT ![o].action = "stub"]
        /\ listSize' = 0 /\ list' = << >> /\ tuple' = TRUE
        /\ self' = o /\ log' = << >> /\ conf'.n = n /\ pc' = "call"
        /\ items' = [i \in 1 .. size |-> held] /\ held' = held
        /\ misuse' = (misuse \/ func # NoOne \/ n > size)
    BY <1>3 DEF CallCallback, Enter
  <2>2. n \in Int /\ size \in Nat
    BY LengthsAssumption DEF MaxItems
  <2>3. misuse' \in BOOLEAN
    BY <2>1, Zenon
  <2>4. config'[self'].action = "stub"
    BY <1>0, <2>1, StubSettings DEF ObjectsInv
  <2>5. /\ list' \in Seq(Int) /\ listSize' = Len(list')
        /\ items' \in Seq(Int) /\ Len(items') = size
        /\ \A i \in DOMAIN items' : items'[i] = held
    <3>1. items' \in [1 .. size -> Int] /\ \A i \in DOMAIN items' : items'[i] = held
      BY <1>0, <2>1
    <3>2. items' \in Seq(Int) /\ Len(items') = size
      BY <2>2, <3>1, FunctionIsSeq, LengthOf, Zenon
    <3>3. list' \in Seq(Int) /\ listSize' = Len(list')
      BY <2>1
    <3>. QED
      BY <3>1, <3>2, <3>3, Zenon
  <2>6. StubInv'
    BY <1>0, <2>1, <2>2, <2>3, <2>4, <2>5, KeptRefs DEF StubInv
  <2>7. ASSUME misuse' = FALSE PROVE PlainInv'
    <3>1. misuse = FALSE /\ func = NoOne /\ ~ (n > size)
      BY <1>0, <2>1, <2>7, Zenon
    <3>2. \A g \in Functions : refs'[g] >= 1
      <4>1. ASSUME NEW g \in Functions PROVE refs'[g] >= 1
        <5>1. refs[g] >= 1 /\ refs[g] \in Int
          BY <1>0, <3>1 DEF PlainInv
        <5>2. Kept(f) \in [Functions -> Int] /\ Kept(f)[g] >= refs[g]
          BY <1>0, <3>1, KeptRefs
        <5>. QED
          BY <2>1, <5>1, <5>2
      <4>. QED
        BY <4>1
    <3>3. conf'.n <= length'
      BY <2>1, <2>2, <3>1
    <3>4. refs'[func'] >= 2
      <4>1. refs[f] >= 1 /\ refs[f] \in Int
        BY <1>0, <3>1 DEF PlainInv
      <4>. QED
        BY <1>0, <2>1, <3>1, <4>1, KeptRefs
    <3>5. TakenInv'
      <4>1. Taken(0)'
        BY <1>0, <2>1, <2>5 DEF Taken
      <4>. QED
        BY <2>1, <4>1 DEF TakenInv
    <3>. QED
      BY <2>1, <3>2, <3>3, <3>4, <3>5 DEF PlainInv
  <2>. QED
    BY <2>6, <2>7
<1>4. CASE InsideCmb
  BY <1>4, InsideStep
<1>5. ASSUME NEW o \in Objects, NEW f \in Functions, CallFromFunction(o, f)
      PROVE  StubInv' /\ (misuse' = FALSE => PlainInv')
  <2>1. /\ running = "callback" /\ misuse' = TRUE /\ func' = f
        /\ refs' = [Kept(f) EXCEPT ![f] = @ - 1]
        /\ config' = [config EXCEPT ![o].action = "stub"]
        /\ list' = << >> /\ listSize' = 0
        /\ UNCHANGED <<self, length, items, held>> /\ running' \in {running, "crashed"}
    BY <1>5 DEF CallFromFunction
  <2>2. refs' \in [Functions -> Int]
    BY <1>0, <2>1, KeptRefs
  <2>3. config'[self'].action = "stub"
    <3>1. config[self].action = "stub" /\ self \in Objects
      BY <1>0, <2>1 DEF ObjectsInv, StubInv
    <3>2. CASE self = o
      BY <1>0, <2>1, <3>1, <3>2, StubSettings DEF ObjectsInv
    <3>3. CASE self # o
      BY <1>0, <2>1, <3>1, <3>3 DEF ObjectsInv
    <3>. QED
      BY <3>2, <3>3
  <2>4. list' \in Seq(Int) /\ listSize' = Len(list')
    BY <2>1
  <2>. QED
    BY <1>0, <2>1, <2>2, <2>3, <2>4 DEF StubInv
<1>6. CASE Return
  <2>1. running' \in {"nothing", "crashed"} /\ UNCHANGED <<length, misuse, held>>
    BY <1>6 DEF Return
  <2>2. CASE running = "cmb"
    BY <1>0, <1>6, <2>1, <2>2 DEF Return, stub, StubInv, PlainInv
  <2>3. CASE running # "cmb"
    <3>1. /\ running = "callback" /\ refs' = [refs EXCEPT ![func] = @ - 1]
          /\ list' = << >> /\ listSize' = 0 /\ func' = func /\ tuple' = FALSE
          /\ items' = Released(list)
      BY <1>6, <2>3 DEF Return
    <3>2. refs' \in [Functions -> Int] /\ func \in Functions
      BY <1>0, <3>1 DEF StubInv
    <3>3. list' \in Seq(Int) /\ listSize' = Len(list') /\ items' \in Seq(Int)
      BY <1>0, <3>1, ReleasedIs
    <3>4. StubInv'
      BY <1>0, <2>1, <3>1, <3>2, <3>3 DEF StubInv
    <3>5. ASSUME misuse' = FALSE PROVE PlainInv'
      <4>1. PlainInv /\ refs[func] >= 2
        BY <1>0, <2>1, <3>1, <3>5 DEF PlainInv
      <4>2. \A f \in Functions : refs'[f] >= 1
        BY <1>0, <3>1, <3>2, <4>1 DEF PlainInv
      <4>. QED
        BY <2>1, <3>1, <3>2, <4>2 DEF PlainInv
    <3>. QED
      BY <3>4, <3>5
  <2>. QED
    BY <2>2, <2>3
<1>7. CASE UNCHANGED vars
  <2>1. UNCHANGED <<pyVars, cmbVars>>
    BY <1>7 DEF vars
  <2>2. TakenInv' <=> TakenInv
    BY <2>1 DEF pyVars, stub, cmbVars, TakenInv, Taken, Due, Behind
  <2>. QED
    BY <1>0, <2>1, <2>2 DEF pyVars, stub, cmbVars, StubInv, PlainInv
<1>. QED
  BY <1>1, <1>2, <1>3, <1>4, <1>5, <1>6, <1>7 DEF PyNext

\* What a program keeps.  A library that is entered begins anew.
ProgramInv == CmbInv /\ PyInv

LEMMA ProgramKeeps == PySpec => []ProgramInv
<1>1. PyInv => ObjectsInv
  BY DEF PyInv
<1>2. CmbInv /\ CmbInv' /\ PyInv /\ ObjectsInv' /\ [PyNext]_vars => PyInv'
  BY PyStep DEF PyInv
<1>. QED
  BY <1>1, <1>2, PyInitially, CmbInit, CmbStep, LibraryStep, ObjectsStep, PTL DEF PySpec, ProgramInv

\* For every number of items and every order of sizes: the function sees the
\* items of each combination, all of them and no others, as long as the program
\* keeps to one call of cmb_callback() and refers to its items as often as it has
\* items.  The list is replaced when the size changes, and filled from its first
\* place to its last; a list that goes takes one reference of each item in it, and
\* no more lists go than there are sizes behind the one at hand (TakenInv).
THEOREM FunctionSeesCombination == PySpec => []SeesTheCombination
<1>1. ProgramInv => SeesTheCombination
  BY DEF ProgramInv, PyInv, StubInv, PlainInv, Plain, SeesTheCombination
<1>. QED
  BY <1>1, ProgramKeeps, PTL

\* For every list, all attributes and every combination of sizes: from the start of
\* such a program to the end of its call of cmb_callback() nothing brings the
\* interpreter down.  The positions of the library are within its items (CmbInv),
\* these within the list, the function is referred to, and a reference is left to
\* every item that is handed over (TakenStep).
THEOREM PlainUseKept == PySpec => []PlainUseIsSafe
<1>1. ProgramInv => PlainUseIsSafe
  BY FunctionsAssumption DEF ProgramInv, PyInv, StubInv, PlainInv, Plain, PlainUseIsSafe
<1>. QED
  BY <1>1, ProgramKeeps, PTL
=============================================================================
