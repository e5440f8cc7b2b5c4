------------------------------- MODULE DpvProofs -------------------------------
(***************************************************************************)
(* Theorems about dpv(), for every list of files, every display limit and  *)
(* every client, and about dpv(1), for every invocation, every size of the *)
(* buffer and every table of descriptors.                                  *)
(***************************************************************************)
EXTENDS DpvTransfer, FiniteSetTheorems, SequenceTheorems, TLAPS

(***************************************************************************)
(* The steps of dpv() with a client that may return any int.  The lemmas   *)
(* are about these, so that they are there for other clients as well.      *)
(***************************************************************************)
AnyCallback == \E p \in Int, st \in Status, a \in {abort, TRUE} : Callback(p, st, a)
AnyNext == Next \/ AnyCallback

LEMMA ClientIsAny == ClientCallback => AnyCallback
BY PctsAssumption DEF ClientCallback, AnyCallback

LEMMA NextIsAny == [Next]_loopVars => [AnyNext]_loopVars
BY DEF AnyNext

-----------------------------------------------------------------------------
(***************************************************************************)
(* Type correctness.                                                       *)
(***************************************************************************)

\* The display limit dprompt_init() settles on is -1 .. 10, hence an integer;
\* turning the page never leaves the list.
LEMMA AdvanceType ==
  ASSUME TypeOK
  PROVE  Advance(nthfile) \in 1 .. (cfg.n + 1)
<1>1. cfg.n \in Nat
  BY ConfigsAssumption DEF TypeOK, ConfigOK
<1>. QED
  BY <1>1 DEF TypeOK, Advance

\* A redraw keeps the gauge within 0 .. 100, whatever the arithmetic yields.
LEMMA MaybeDrawType ==
  ASSUME TypeOK, NEW p \in Int, MaybeDraw(p)
  PROVE  /\ gauge' \in 0 .. 100
         /\ oldNth' \in 0 .. cfg.n
         /\ page' \in [head : 1 .. (cfg.n + 1), cur : 0 .. cfg.n, pct : Int]
<1>1. CASE Draw(p)
  <2>1. gauge' \in 0 .. 100
    BY <1>1 DEF Draw, TypeOK
  <2>2. page' = [head |-> listHead, cur |-> nthfile, pct |-> p] /\ oldNth' = nthfile
    BY <1>1 DEF Draw
  <2>. QED
    BY <2>1, <2>2 DEF TypeOK
<1>2. CASE UNCHANGED screen
  BY <1>2 DEF screen, TypeOK
<1>. QED
  BY <1>1, <1>2 DEF MaybeDraw

\* Every reachable state of dpv() is well typed, whatever its client returns.
LEMMA TypeInit == Init => TypeOK
<1> SUFFICES ASSUME Init PROVE TypeOK
  OBVIOUS
<1>1. cfg.n \in Nat
  BY ConfigsAssumption DEF Init, ConfigOK
<1>2. page \in [head : 1 .. (cfg.n + 1), cur : 0 .. cfg.n, pct : Int]
  BY <1>1 DEF Init, NoPage
<1>3. status \in [Files -> Status]
  BY DEF Init, Status
<1>4. keepGoing \in BOOLEAN /\ interrupt \in BOOLEAN /\ abort \in BOOLEAN
  BY Zenon DEF Init
<1>5. /\ nthfile \in 0 .. cfg.n /\ oldNth \in 0 .. cfg.n
      /\ listHead \in 1 .. (cfg.n + 1)
  BY <1>1 DEF Init
<1>. QED
  BY <1>1, <1>2, <1>3, <1>4, <1>5 DEF Init, TypeOK, Places

LEMMA TypeStep == TypeOK /\ [AnyNext]_loopVars => TypeOK'
<1> SUFFICES ASSUME TypeOK, [AnyNext]_loopVars PROVE TypeOK'
  OBVIOUS
<1>0. /\ cfg.n \in Nat /\ cfg.increment \in Nat
      /\ cfg.noOverrun \in BOOLEAN /\ cfg.test \in BOOLEAN
  BY ConfigsAssumption DEF TypeOK, ConfigOK
<1> USE <1>0
<1>1. CASE CallEmpty
  BY <1>1 DEF CallEmpty, TypeOK, Places, Files, walk, file, flags, screen
<1>2. CASE Call
  <2>1. limit' \in Int
    BY <1>2 DEF Call, DPV_DISPLAY_LIMIT
  <2>2. filesLeft' \in Int /\ nfiles' \in Nat /\ calls' \in Nat
    BY <1>2 DEF Call, TypeOK
  <2>3. page' \in [head : 1 .. (cfg.n + 1), cur : 0 .. cfg.n, pct : Int]
    BY <1>2 DEF Call, NoPage
  <2>. QED
    BY <1>2, <2>1, <2>2, <2>3 DEF Call, TypeOK, Places, Status, Files, flags
<1>3. CASE HeadInterrupted
  BY <1>3 DEF HeadInterrupted, NextFile, TypeOK, Places, Files, flags, screen
<1>4. CASE HeadOpen
  BY <1>4 DEF HeadOpen, NextFile, TypeOK, Places, Files, flags, screen
<1>5. CASE HeadOpenFails
  BY <1>5 DEF HeadOpenFails, NextFile, TypeOK, Places, Files, flags, screen
<1>6. CASE ListEnd
  BY <1>6 DEF ListEnd, TypeOK, Places, Files, walk, file, flags, screen
<1>7. CASE AnyCallback
  <2> PICK p \in Int, st \in Status, a \in {abort, TRUE} : Callback(p, st, a)
    BY <1>7 DEF AnyCallback
  <2>1. p \in Int
    OBVIOUS
  <2>2. MaybeDraw(p) /\ pct' = p
    BY DEF Callback, AfterCallback
  <2>5. keepGoing' \in BOOLEAN
    <3>1. keepGoing' = (IF cfg.noOverrun \/ cfg.test THEN p < 100 ELSE st = "RUNNING")
      BY DEF Callback, AfterCallback
    <3>2. (p < 100) \in BOOLEAN /\ (st = "RUNNING") \in BOOLEAN
      BY <2>1
    <3>. QED
      BY <3>1, <3>2, Zenon
  <2>3. status' \in [Files -> Status]
    BY DEF Callback, TypeOK
  <2>4. UNCHANGED <<cfg, flow, walk, interrupt>> /\ abort' \in BOOLEAN
    BY DEF Callback, TypeOK
  <2>. QED
    BY <2>1, <2>2, <2>3, <2>4, <2>5, MaybeDrawType DEF TypeOK, flow, walk, Files
<1>8. CASE TestCallback
  <2>1. pct + cfg.increment \in Int
    BY DEF TypeOK
  <2>2. /\ MaybeDraw(pct + cfg.increment)
        /\ pct' \in Int
        /\ keepGoing' \in BOOLEAN
    BY <1>8, <2>1 DEF TestCallback, AfterCallback
  <2>3. UNCHANGED <<cfg, flow, walk, status, flags>>
    BY <1>8 DEF TestCallback
  <2>. QED
    BY <2>1, <2>2, <2>3, MaybeDrawType DEF TypeOK, flow, walk, flags, Files
<1>9. CASE FileEnd
  <2>2. Advance(nthfile) \in 1 .. (cfg.n + 1)
    BY AdvanceType
  <2>3. listHead' \in 1 .. (cfg.n + 1)
    BY <1>9, <2>2 DEF FileEnd, TypeOK
  <2>. QED
    BY <1>9, <2>3 DEF FileEnd, TypeOK, Places, Files, file, flags, screen
<1>10. CASE Finish
  BY <1>10 DEF Finish, TypeOK, Places, Files, walk, file, flags, screen
<1>11. CASE ResetGlobals
  BY <1>11 DEF ResetGlobals, TypeOK, Places, Files, walk, file, screen
<1>12. CASE Interrupt
  BY <1>12 DEF Interrupt, TypeOK, Files, flow, walk, file, screen
<1>13. CASE UNCHANGED loopVars
  BY <1>13 DEF TypeOK, Files, loopVars, flow, walk, file, flags, screen
<1>. QED
  BY <1>1, <1>2, <1>3, <1>4, <1>5, <1>6, <1>7, <1>8, <1>9, <1>10, <1>11, <1>12,
     <1>13, ClientIsAny DEF AnyNext, Next, Loop

THEOREM TypeCorrect == Spec => []TypeOK
<1>. QED
  BY TypeInit, TypeStep, NextIsAny, PTL DEF Spec

-----------------------------------------------------------------------------
(***************************************************************************)
(* Paging: the current file is always on the page.                         *)
(***************************************************************************)

\* A count between two multiples of d is itself a multiple only at the upper one.
LEMMA PageTurn ==
  ASSUME NEW d \in Nat \ {0}, NEW k \in Nat, NEW n \in Nat,
         k * d < n, n <= k * d + d
  PROVE  n % d = 0 <=> n = k * d + d
<1>1. PICK i \in 1 .. d : n = k * d + i
  <2>1. k * d \in Nat
    OBVIOUS
  <2>2. n - k * d \in 1 .. d
    BY <2>1
  <2>. QED
    BY <2>1, <2>2
<1>2. n % d = i % d
  BY <1>1
<1>3. i % d = 0 <=> i = d
  BY <1>1
<1>. QED
  BY <1>1, <1>2, <1>3

\* list_head is at a multiple of display_limit, and the files passed (m of them)
\* all lie before the end of the page it heads.
HeadOf(k, m) ==
  listHead = k * limit + 1 /\ k * limit <= m /\ m < k * limit + limit

\* The inductive invariant: where list_head stands before a file is taken from
\* the list, where it stands while the file is worked on, and what was drawn.
PageInv ==
  limit > 0 =>
    /\ pc = "head" => \E k \in Nat : HeadOf(k, nthfile)
    /\ pc = "while" => nthfile > 0 /\ \E k \in Nat : HeadOf(k, nthfile - 1)
    /\ PageShowsCurrent

LEMMA PageInit == Init => PageInv
BY DEF Init, PageInv

LEMMA DrawnPage ==
  ASSUME TypeOK, PageInv, pc = "while", NEW p, MaybeDraw(p), limit' = limit
  PROVE  limit > 0 => PageShowsCurrent'
<1> SUFFICES ASSUME limit > 0 PROVE PageShowsCurrent'
  OBVIOUS
<1>1. CASE Draw(p)
  <2>1. PICK k \in Nat : HeadOf(k, nthfile - 1)
    BY DEF PageInv
  <2>2. page' = [head |-> listHead, cur |-> nthfile, pct |-> p]
    BY <1>1 DEF Draw
  <2>3. k * limit \in Int /\ nthfile \in Int /\ limit \in Int
    BY DEF TypeOK
  <2>4. listHead <= nthfile /\ nthfile < listHead + limit
    BY <2>1, <2>3 DEF HeadOf
  <2>. QED
    BY <2>2, <2>4 DEF PageShowsCurrent
<1>2. CASE UNCHANGED screen
  BY <1>2 DEF screen, PageInv, PageShowsCurrent
<1>. QED
  BY <1>1, <1>2 DEF MaybeDraw

LEMMA PageStep == TypeOK /\ PageInv /\ [AnyNext]_loopVars => PageInv'
<1> SUFFICES ASSUME TypeOK, PageInv, [AnyNext]_loopVars, limit' > 0 PROVE PageInv'
  BY DEF PageInv
<1>0. nthfile \in Nat /\ limit \in Int /\ listHead \in Nat /\ cfg.n \in Nat
  BY ConfigsAssumption DEF TypeOK, ConfigOK
<1>1. CASE CallEmpty
  BY <1>1 DEF CallEmpty, PageInv, PageShowsCurrent, walk, screen
<1>2. CASE Call
  <2>1. /\ pc' = "head" /\ listHead' = 1 /\ nthfile' = 0
        /\ page' = NoPage
    BY <1>2 DEF Call
  <2>4. PICK d \in Int : limit' = d
    BY <1>2 DEF Call, DPV_DISPLAY_LIMIT
  <2>2. HeadOf(0, nthfile)'
    <3>1. d > 0
      BY <2>4
    <3>2. 0 * d = 0 /\ 0 + 1 = 1 /\ 0 <= 0 /\ 0 < 0 + d
      BY <3>1
    <3>. QED
      BY <2>1, <2>4, <3>2, Zenon DEF HeadOf
  <2>3. PageShowsCurrent'
    BY <2>1 DEF PageShowsCurrent, NoPage
  <2>. QED
    BY <2>1, <2>2, <2>3 DEF PageInv
<1>3. CASE HeadInterrupted
  BY <1>3 DEF HeadInterrupted, PageInv, PageShowsCurrent, screen
<1>4. CASE HeadOpen
  <2>1. /\ pc = "head" /\ pc' = "while" /\ nthfile' = nthfile + 1
        /\ UNCHANGED <<limit, listHead, page>>
    BY <1>4 DEF HeadOpen, NextFile, screen
  <2>2. PICK k \in Nat : HeadOf(k, nthfile)
    BY <2>1 DEF PageInv
  <2>3. nthfile' - 1 = nthfile
    BY <1>0, <2>1
  <2>4. HeadOf(k, nthfile - 1)'
    BY <2>1, <2>2, <2>3 DEF HeadOf
  <2>. QED
    BY <1>0, <2>1, <2>4 DEF PageInv, PageShowsCurrent
<1>5. CASE HeadOpenFails
  BY <1>5 DEF HeadOpenFails, PageInv, PageShowsCurrent, screen
<1>6. CASE ListEnd
  BY <1>6 DEF ListEnd, PageInv, PageShowsCurrent, walk, screen
<1>7. CASE AnyCallback
  <2> PICK p \in Int, st \in Status, a \in {abort, TRUE} : Callback(p, st, a)
    BY <1>7 DEF AnyCallback
  <2>1. /\ pc = "while" /\ MaybeDraw(p)
        /\ UNCHANGED <<pc, limit, nthfile, listHead>>
    BY DEF Callback, AfterCallback, InWhile, flow, walk
  <2>. QED
    BY <2>1, DrawnPage DEF PageInv, HeadOf
<1>8. CASE TestCallback
  <2>1. /\ pc = "while" /\ MaybeDraw(pct + cfg.increment)
        /\ UNCHANGED <<pc, limit, nthfile, listHead>>
    BY <1>8 DEF TestCallback, AfterCallback, InWhile, flow, walk
  <2>. QED
    BY <2>1, DrawnPage DEF PageInv, HeadOf
<1>9. CASE FileEnd
  <2>1. /\ pc = "while" /\ UNCHANGED <<limit, nthfile, page>>
        /\ pc' \in {"head", "finish"}
        /\ pc' = "head" => listHead' = Advance(nthfile)
    BY <1>9 DEF FileEnd, screen
  <2>2. PICK k \in Nat : HeadOf(k, nthfile - 1)
    BY <2>1 DEF PageInv
  <2>3. k * limit \in Nat /\ (k + 1) * limit = k * limit + limit /\ k + 1 \in Nat
    BY <1>0, <2>1
  <2>4. k * limit < nthfile /\ nthfile <= k * limit + limit
    BY <1>0, <2>2, <2>3 DEF HeadOf
  <2>5. nthfile % limit = 0 <=> nthfile = k * limit + limit
    <3>1. limit \in Nat \ {0}
      BY <1>0, <2>1
    <3>. QED
      BY <1>0, <2>4, <3>1, PageTurn, Zenon
  <2>6. pc' = "head" => \E j \in Nat : HeadOf(j, nthfile)'
    <3>1. CASE nthfile = k * limit + limit
      <4>1. pc' = "head" => HeadOf(k + 1, nthfile)'
        BY <1>0, <2>1, <2>3, <2>5, <3>1 DEF HeadOf, Advance
      <4>. QED
        BY <2>3, <4>1
    <3>2. CASE nthfile # k * limit + limit
      <4>1. pc' = "head" => listHead' = listHead
        BY <2>1, <2>5, <3>2 DEF Advance
      <4>2. pc' = "head" => HeadOf(k, nthfile)'
        BY <1>0, <2>1, <2>2, <2>3, <2>4, <3>2, <4>1 DEF HeadOf
      <4>. QED
        BY <4>2
    <3>. QED
      BY <3>1, <3>2
  <2>. QED
    BY <2>1, <2>6 DEF PageInv, PageShowsCurrent
<1>10. CASE Finish
  BY <1>10 DEF Finish, PageInv, PageShowsCurrent, walk, screen
<1>11. CASE ResetGlobals
  BY <1>11 DEF ResetGlobals, PageInv, PageShowsCurrent, walk, screen
<1>12. CASE Interrupt
  BY <1>12 DEF Interrupt, PageInv, PageShowsCurrent, HeadOf, flow, walk, screen
<1>13. CASE UNCHANGED loopVars
  BY <1>13 DEF PageInv, PageShowsCurrent, HeadOf, loopVars, flow, walk, screen
<1>. QED
  BY <1>1, <1>2, <1>3, <1>4, <1>5, <1>6, <1>7, <1>8, <1>9, <1>10, <1>11, <1>12,
     <1>13, ClientIsAny DEF AnyNext, Next, Loop

\* The page on the screen always contains the file being processed, for every
\* list and every display limit: dpv() turns pages in step with the number of
\* entries dprompt_add_files() prints.
THEOREM CurrentFileOnPage == Spec => []PageShowsCurrent
<1>1. PageInv => PageShowsCurrent
  BY DEF PageInv, PageShowsCurrent
<1>. QED
  BY <1>1, TypeInit, TypeStep, PageInit, PageStep, NextIsAny, PTL DEF Spec

-----------------------------------------------------------------------------
(***************************************************************************)
(* Every file is worked on to its end.                                     *)
(***************************************************************************)
Ended(f) == status[f] # "RUNNING"

\* The inductive invariant: the client's word, not dpv()'s position, says which
\* files are over.  An interrupt is why the file before the head may not be.
EndedInv ==
  ~ cfg.noOverrun /\ ~ cfg.test =>
    /\ pc = "head" /\ ~ interrupt => \A f \in 1 .. nthfile : Ended(f)
    /\ pc = "while" => /\ nthfile \in Files
                       /\ \A f \in 1 .. (nthfile - 1) : Ended(f)
                       /\ keepGoing <=> ~ Ended(nthfile)
    /\ pc = "head" => \A f \in (nthfile + 1) .. cfg.n : ~ Ended(f)
    /\ pc = "while" => \A f \in (nthfile + 1) .. cfg.n : ~ Ended(f)
    /\ pc = "finish" /\ ~ interrupt /\ ~ abort => \A f \in Files : Ended(f)
    /\ pc = "returned" /\ ret = "ok" => \A f \in Files : Ended(f)

LEMMA EndedInit == Init => EndedInv
BY DEF Init, EndedInv

LEMMA EndedStep == TypeOK /\ EndedInv /\ [AnyNext]_loopVars => EndedInv'
<1> SUFFICES ASSUME TypeOK, EndedInv, [AnyNext]_loopVars,
                    ~ cfg'.noOverrun, ~ cfg'.test
             PROVE  EndedInv'
  BY DEF EndedInv
<1>0. cfg.n \in Nat /\ nthfile \in 0 .. cfg.n
  BY ConfigsAssumption DEF TypeOK, ConfigOK
<1>1. CASE CallEmpty
  BY <1>1 DEF CallEmpty, EndedInv
<1>2. CASE Call
  <2>1. /\ pc' = "head" /\ nthfile' = 0 /\ cfg' = cfg
        /\ status' = [f \in Files |-> "RUNNING"]
    BY <1>2 DEF Call
  <2>2. \A f \in 1 .. nthfile' : FALSE
    BY <2>1
  <2>3. \A f \in (nthfile' + 1) .. cfg'.n : ~ Ended(f)'
    BY <1>0, <2>1 DEF Ended, Files
  <2>. QED
    BY <2>1, <2>2, <2>3 DEF EndedInv
<1>3. CASE HeadInterrupted
  BY <1>3 DEF HeadInterrupted, EndedInv, flags
<1>4. CASE HeadOpen
  <2>1. /\ pc = "head" /\ pc' = "while" /\ nthfile < cfg.n /\ ~ interrupt
        /\ keepGoing' = TRUE /\ UNCHANGED <<cfg, status>>
    BY <1>4 DEF HeadOpen, NextFile
  <2>2. PICK m \in Nat : m = nthfile + 1 /\ nthfile' = m
    BY <1>0, <1>4 DEF HeadOpen, NextFile
  <2>3. m \in Files
    BY <1>0, <2>1, <2>2 DEF Files
  <2>4. \A f \in 1 .. (m - 1) : status[f] # "RUNNING"
    BY <1>0, <2>1, <2>2 DEF EndedInv, Ended
  <2>5. \A f \in m .. cfg.n : status[f] = "RUNNING"
    BY <2>1, <2>2 DEF EndedInv, Ended
  <2>6. status[m] = "RUNNING" /\ \A f \in (m + 1) .. cfg.n : status[f] = "RUNNING"
    BY <1>0, <2>3, <2>5 DEF Files
  <2>. QED
    BY <2>1, <2>2, <2>3, <2>4, <2>6 DEF EndedInv, Ended, Files
<1>5. CASE HeadOpenFails
  BY <1>5 DEF HeadOpenFails, EndedInv
<1>6. CASE ListEnd
  <2>1. /\ pc = "head" /\ pc' = "finish" /\ nthfile = cfg.n
        /\ UNCHANGED <<cfg, status, interrupt, abort>>
    BY <1>6 DEF ListEnd, file, flags
  <2>. QED
    BY <2>1 DEF EndedInv, Ended, Files
<1>7. CASE AnyCallback
  <2> PICK p \in Int, st \in Status, a \in {abort, TRUE} : Callback(p, st, a)
    BY <1>7 DEF AnyCallback
  <2>1. /\ pc = "while" /\ pc' = "while"
        /\ status' = [status EXCEPT ![nthfile] = st]
        /\ UNCHANGED <<cfg, nthfile>>
    BY DEF Callback, InWhile, flow, walk
  <2>2. keepGoing' = (st = "RUNNING")
    BY <2>1 DEF Callback, AfterCallback
  <2>3. nthfile \in Files
    BY <2>1 DEF EndedInv
  <2>4. status'[nthfile] = st
    BY <2>1, <2>3 DEF TypeOK
  <2>5. \A f \in Files : f # nthfile => status'[f] = status[f]
    BY <2>1 DEF TypeOK
  <2>6. \A f \in 1 .. (nthfile - 1) : f \in Files /\ f # nthfile
    BY <1>0 DEF Files
  <2>7. \A f \in (nthfile + 1) .. cfg.n : f \in Files /\ f # nthfile
    BY <1>0 DEF Files
  <2>. QED
    BY <2>1, <2>2, <2>3, <2>4, <2>5, <2>6, <2>7 DEF EndedInv, Ended, Files
<1>8. CASE TestCallback
  BY <1>8 DEF TestCallback, EndedInv
<1>9. CASE FileEnd
  <2>1. /\ pc = "while" /\ (interrupt \/ ~ keepGoing)
        /\ pc' \in {"head", "finish"} /\ (pc' = "finish" => abort)
        /\ UNCHANGED <<cfg, nthfile, status, interrupt, abort>>
    BY <1>9 DEF FileEnd, file, flags
  <2>2. ASSUME ~ interrupt, NEW f \in 1 .. nthfile PROVE Ended(f)
    <3>1. f \in 1 .. (nthfile - 1) \/ f = nthfile
      BY <1>0
    <3>. QED
      BY <2>1, <2>2, <3>1 DEF EndedInv
  <2>3. \A f \in (nthfile + 1) .. cfg.n : ~ Ended(f)
    BY <2>1 DEF EndedInv
  <2>. QED
    BY <2>1, <2>2, <2>3 DEF EndedInv, Ended
<1>10. CASE Finish
  BY <1>10 DEF Finish, EndedInv, Ended, Files, file
<1>11. CASE ResetGlobals
  BY <1>11 DEF ResetGlobals, EndedInv
<1>12. CASE Interrupt
  BY <1>12 DEF Interrupt, EndedInv, Ended, Files, flow, walk, file
<1>13. CASE UNCHANGED loopVars
  BY <1>13 DEF EndedInv, Ended, Files, loopVars, flow, walk, file, flags
<1>. QED
  BY <1>1, <1>2, <1>3, <1>4, <1>5, <1>6, <1>7, <1>8, <1>9, <1>10, <1>11, <1>12,
     <1>13, ClientIsAny DEF AnyNext, Next, Loop

\* dpv() returns success only when its client ended every file of the list.
THEOREM SuccessIsComplete == Spec => []SuccessMeansAllEnded
<1>1. EndedInv => SuccessMeansAllEnded
  BY DEF EndedInv, SuccessMeansAllEnded, Ended
<1>. QED
  BY <1>1, TypeInit, TypeStep, EndedInit, EndedStep, NextIsAny, PTL DEF Spec

-----------------------------------------------------------------------------
(***************************************************************************)
(* Aborting.                                                               *)
(***************************************************************************)

\* dpv_abort is looked at before the next file is taken from the list.
AbortInv == abort => pc \in {"while", "finish", "returned"}

LEMMA AbortStep == AbortInv /\ [AnyNext]_loopVars => AbortInv'
<1> SUFFICES ASSUME AbortInv, [AnyNext]_loopVars, abort' PROVE AbortInv'
  BY DEF AbortInv
<1>1. CASE CallEmpty \/ Call
  BY <1>1 DEF CallEmpty, Call, AbortInv, flags
<1>2. CASE HeadInterrupted \/ HeadOpen \/ HeadOpenFails \/ ListEnd
  BY <1>2 DEF HeadInterrupted, HeadOpen, HeadOpenFails, ListEnd, AbortInv, flags
<1>3. CASE AnyCallback
  BY <1>3 DEF AnyCallback, Callback, InWhile, AbortInv, flow
<1>4. CASE TestCallback
  BY <1>4 DEF TestCallback, InWhile, AbortInv, flow
<1>5. CASE FileEnd \/ Finish \/ ResetGlobals
  BY <1>5 DEF FileEnd, Finish, ResetGlobals, AbortInv, flags
<1>6. CASE Interrupt \/ UNCHANGED loopVars
  BY <1>6 DEF Interrupt, AbortInv, loopVars, flow, flags
<1>. QED
  BY <1>1, <1>2, <1>3, <1>4, <1>5, <1>6, ClientIsAny DEF AnyNext, Next, Loop

LEMMA AbortInit == Init => AbortInv
BY DEF Init, AbortInv

LEMMA AbortStarts ==
  AbortInv /\ [AnyNext]_loopVars => [abort => nthfile' = nthfile]_loopVars
<1> SUFFICES ASSUME AbortInv, AnyNext, abort PROVE nthfile' = nthfile
  OBVIOUS
<1>1. pc # "head" /\ pc # "idle"
  BY DEF AbortInv
<1>. QED
  BY <1>1, ClientIsAny DEF AnyNext, AnyCallback, Next, Loop, CallEmpty, Call, HeadInterrupted,
     HeadOpen, HeadOpenFails, NextFile, ListEnd, Callback, TestCallback, FileEnd, Finish,
     ResetGlobals, Interrupt, walk

\* Once a callback raised dpv_abort no further file of the list is started.
THEOREM AbortStartsNothing == Spec => NoFileAfterAbort
<1>. QED
  BY AbortInit, AbortStep, AbortStarts, NextIsAny, PTL DEF Spec, NoFileAfterAbort

-----------------------------------------------------------------------------
(***************************************************************************)
(* The gauge at the end of the first call.                                 *)
(***************************************************************************)

\* The list is short enough for the unsigned arithmetic of the overall
\* percentage: with 32 bits, fewer than 4294968 files.
FitsWord == 1000 * cfg.n < Word

\* The overall percentage of the last of n files at 100 is exactly 100: nothing
\* wraps, and nothing is rounded.
LEMMA LastFileIsWhole ==
  ASSUME NEW n \in Nat \ {0}, 1000 * n < Word
  PROVE  Overall(n, 100, n) = 100
<1>1. Progress(n, 100) = 100 * n
  BY DEF Progress
<1>2. Unsigned(Progress(n, 100)) = 100 * n
  BY <1>1, WordAssumption DEF Unsigned
<1>3. Unsigned(Progress(n, 100) * 10) = 1000 * n
  BY <1>1, WordAssumption DEF Unsigned
<1>4. (100 * n) \div n = 100 /\ (1000 * n) \div n = 1000
  <2>1. \A k \in Nat : (k * n) \div n = k
    OBVIOUS
  <2>. QED
    BY <2>1
<1>5. Signed(100) = 100
  BY WordAssumption DEF Signed
<1>. QED
  BY <1>2, <1>3, <1>4, <1>5 DEF Overall

\* The last file's 100 has been drawn.
LastIsFull == pct = 100 => gauge = 100

\* The inductive invariant.  dpv_nfiles counts this call's files only, so the
\* last callback's 100 reaches the gauge as 100; until the last file is over, a
\* pct of 100 on it is on the screen already.
GaugeInv ==
  /\ calls \in Nat
  /\ calls = 0 => pc = "idle" /\ nfiles = 0 /\ pct = 0
  /\ calls = 1 =>
       /\ nfiles = cfg.n
       /\ pc \in {"head", "while"} => cfg.n > 0
       /\ pc = "head" /\ nthfile = cfg.n => LastIsFull
       /\ pc = "while" => nthfile \in Files
       /\ pc = "while" /\ nthfile = cfg.n => LastIsFull
       /\ pc = "finish" /\ ~ interrupt /\ ~ abort => LastIsFull
       /\ pc = "returned" /\ ret = "ok" => LastIsFull

LEMMA GaugeInit == Init => GaugeInv
BY DEF Init, GaugeInv

\* Whatever a callback returns for the last file, its 100 is drawn at once.
LEMMA HundredIsDrawn ==
  ASSUME TypeOK, FitsWord, NEW p \in Int, MaybeDraw(p), nthfile = cfg.n,
         nfiles = cfg.n, cfg.n > 0, pct' = p
  PROVE  LastIsFull'
<1> SUFFICES ASSUME p = 100 PROVE gauge' = 100
  BY DEF LastIsFull
<1>1. Draw(100)
  BY DEF MaybeDraw
<1>2. cfg.n \in Nat \ {0}
  BY ConfigsAssumption DEF TypeOK, ConfigOK
<1>3. Overall(nthfile, 100, nfiles) = 100
  BY <1>2, LastFileIsWhole DEF FitsWord
<1>. QED
  BY <1>1, <1>3 DEF Draw

LEMMA GaugeStep ==
  TypeOK /\ FitsWord /\ GaugeInv /\ [AnyNext]_loopVars => GaugeInv'
<1> SUFFICES ASSUME TypeOK, FitsWord, GaugeInv, [AnyNext]_loopVars PROVE GaugeInv'
  OBVIOUS
<1>0. /\ cfg.n \in Nat /\ nthfile \in 0 .. cfg.n /\ calls \in Nat /\ nfiles \in Nat
      /\ cfg.increment \in Nat
  BY ConfigsAssumption DEF TypeOK, ConfigOK
<1>1. CASE CallEmpty
  <2>1. /\ pc' = "returned" /\ ret' = "err" /\ calls' = calls + 1
        /\ UNCHANGED <<cfg, nfiles>> /\ nfiles + cfg.n = 0
    BY <1>1 DEF CallEmpty
  <2>. QED
    BY <1>0, <2>1 DEF GaugeInv
<1>2. CASE Call
  <2>1. /\ pc' = "head" /\ calls' = calls + 1 /\ nthfile' = 0
        /\ nfiles' = nfiles + cfg.n /\ nfiles' > 0 /\ cfg' = cfg
    BY <1>2 DEF Call
  <2>. QED
    BY <1>0, <2>1 DEF GaugeInv
<1>3. CASE HeadInterrupted
  BY <1>0, <1>3 DEF HeadInterrupted, NextFile, GaugeInv, flags
<1>4. CASE HeadOpen
  <2>1. /\ pc = "head" /\ pc' = "while" /\ UNCHANGED <<cfg, calls, nfiles>>
        /\ nthfile < cfg.n /\ nthfile' = nthfile + 1
    BY <1>4 DEF HeadOpen, NextFile
  <2>2. pct' # 100
    BY <1>0, <1>4 DEF HeadOpen, NextFile
  <2>3. nthfile' \in Files'
    BY <1>0, <2>1 DEF Files
  <2>. QED
    BY <1>0, <2>1, <2>2, <2>3 DEF GaugeInv, LastIsFull
<1>5. CASE HeadOpenFails
  BY <1>0, <1>5 DEF HeadOpenFails, NextFile, GaugeInv
<1>6. CASE ListEnd
  BY <1>0, <1>6 DEF ListEnd, GaugeInv, LastIsFull, walk, file, flags, screen
<1>7. CASE AnyCallback
  <2> PICK p \in Int, st \in Status, a \in {abort, TRUE} : Callback(p, st, a)
    BY <1>7 DEF AnyCallback
  <2>1. /\ pc = "while" /\ MaybeDraw(p) /\ pct' = p
        /\ UNCHANGED <<cfg, calls, pc, nfiles, nthfile>>
    BY DEF Callback, AfterCallback, InWhile, flow, walk
  <2>2. calls = 1 /\ nthfile = cfg.n => LastIsFull'
    BY <2>1, HundredIsDrawn DEF GaugeInv
  <2>. QED
    BY <1>0, <2>1, <2>2 DEF GaugeInv, Files
<1>8. CASE TestCallback
  <2>1. /\ pc = "while" /\ MaybeDraw(pct + cfg.increment) /\ pct' = pct + cfg.increment
        /\ UNCHANGED <<cfg, calls, pc, nfiles, nthfile>>
    BY <1>8 DEF TestCallback, AfterCallback, InWhile, flow, walk
  <2>2. calls = 1 /\ nthfile = cfg.n => LastIsFull'
    <3>1. pct + cfg.increment \in Int
      BY <1>0 DEF TypeOK
    <3>. QED
      BY <2>1, <3>1, HundredIsDrawn DEF GaugeInv
  <2>. QED
    BY <1>0, <2>1, <2>2 DEF GaugeInv, Files
<1>9. CASE FileEnd
  <2>1. /\ pc = "while" /\ pc' \in {"head", "finish"} /\ (pc' = "finish" => abort)
        /\ UNCHANGED <<cfg, calls, nfiles, nthfile, pct, gauge, abort>>
    BY <1>9 DEF FileEnd, file, flags, screen
  <2>. QED
    BY <1>0, <2>1 DEF GaugeInv, LastIsFull
<1>10. CASE Finish
  BY <1>0, <1>10 DEF Finish, GaugeInv, LastIsFull, walk, file, screen
<1>11. CASE ResetGlobals
  BY <1>0, <1>11 DEF ResetGlobals, GaugeInv
<1>12. CASE Interrupt
  BY <1>0, <1>12 DEF Interrupt, GaugeInv, LastIsFull, Files, flow, walk, file, screen
<1>13. CASE UNCHANGED loopVars
  BY <1>0, <1>13 DEF GaugeInv, LastIsFull, Files, loopVars, flow, walk, file, flags, screen
<1>. QED
  BY <1>1, <1>2, <1>3, <1>4, <1>5, <1>6, <1>7, <1>8, <1>9, <1>10, <1>11, <1>12,
     <1>13, ClientIsAny DEF AnyNext, Next, Loop

\* The arguments of the calls do not change, nor does what follows from them.
LEMMA CfgKept == [AnyNext]_loopVars => cfg' = cfg
<1> SUFFICES ASSUME [AnyNext]_loopVars PROVE cfg' = cfg
  OBVIOUS
<1>1. CASE CallEmpty \/ Call \/ HeadInterrupted \/ HeadOpen \/ HeadOpenFails
  BY <1>1, Zenon DEF CallEmpty, Call, HeadInterrupted, HeadOpen, HeadOpenFails
<1>2. CASE ListEnd \/ TestCallback \/ FileEnd \/ Finish
  BY <1>2, Zenon DEF ListEnd, TestCallback, FileEnd, Finish
<1>3. CASE ResetGlobals \/ Interrupt \/ UNCHANGED loopVars
  BY <1>3, Zenon DEF ResetGlobals, Interrupt, loopVars
<1>4. CASE AnyCallback
  BY <1>4, Zenon DEF AnyCallback, Callback
<1>. QED
  BY <1>1, <1>2, <1>3, <1>4, ClientIsAny, Zenon DEF AnyNext, Next, Loop

LEMMA FitsWordStep == FitsWord' /\ [AnyNext]_loopVars => FitsWord
BY CfgKept DEF FitsWord

LEMMA GaugeIsFull ==
  Init /\ [][AnyNext]_loopVars => [](FitsWord => FullAtSuccess)
<1>1. GaugeInv => FullAtSuccess
  BY DEF GaugeInv, FullAtSuccess, LastIsFull
<1>2. (FitsWord => GaugeInv) /\ TypeOK /\ [AnyNext]_loopVars => (FitsWord => GaugeInv)'
  BY FitsWordStep, GaugeStep
<1>. QED
  BY <1>1, <1>2, TypeInit, TypeStep, GaugeInit, PTL

\* In the first call, a client whose last callback returns 100 leaves the gauge
\* full: earlier percentages out of range, skipped redraws and the unsigned
\* arithmetic do not show in the end.
THEOREM GaugeEndsFull == Spec => [](FitsWord => FullAtSuccess)
<1>. QED
  BY GaugeIsFull, NextIsAny, PTL DEF Spec

-----------------------------------------------------------------------------
(***************************************************************************)
(* In test mode the gauge only grows.                                      *)
(***************************************************************************)
\* What Overall shows of a progress x, nothing having wrapped: the tenths of
\* the percentage are looked at two digits at a time.
Shown(x, nf) ==
    LET r == (10 * x) \div nf IN IF r % 100 > 50 THEN (r \div 10) + 1 ELSE r \div 10

LEMMA Scaled == \A a, b \in Int, c \in Nat \ {0} : a * c < b * c => a < b
<1>1. \A a, b \in Int, c \in Nat \ {0} : b <= a => b * c <= a * c
  OBVIOUS
<1>2. \A a, b \in Int, c \in Nat \ {0} : a * c \in Int /\ b * c \in Int
  OBVIOUS
<1>. QED
  BY <1>1, <1>2

LEMMA QuotientIs ==
  ASSUME NEW a \in Nat, NEW nf \in Nat \ {0}
  PROVE  /\ a \div nf \in Nat /\ (a \div nf) * nf <= a /\ a < ((a \div nf) + 1) * nf
         /\ (a \div nf) * nf \in Int /\ ((a \div nf) + 1) * nf \in Int
OBVIOUS

LEMMA QuotientGrows ==
  ASSUME NEW a \in Nat, NEW b \in Nat, a <= b, NEW nf \in Nat \ {0}
  PROVE  a \div nf <= b \div nf
<1> DEFINE p == a \div nf
           q == b \div nf
<1>1. p \in Nat /\ q \in Nat /\ p * nf <= a /\ b < (q + 1) * nf /\ p * nf \in Int /\ (q + 1) * nf \in Int
  BY QuotientIs
<1> HIDE DEF p, q
<1>2. p * nf < (q + 1) * nf
  BY <1>1
<1>3. p < q + 1
  BY <1>1, <1>2, Scaled
<1>4. p <= q
  BY <1>1, <1>3
<1>. QED
  BY <1>4 DEF p, q

LEMMA ShownGrows ==
  ASSUME NEW x \in Nat, NEW y \in Nat, x <= y, NEW nf \in Nat \ {0}
  PROVE  Shown(x, nf) \in Nat /\ Shown(x, nf) <= Shown(y, nf)
<1> DEFINE r == (10 * x) \div nf
           s == (10 * y) \div nf
<1>1. r \in Nat /\ s \in Nat /\ r <= s
  <2>1. 10 * x \in Nat /\ 10 * y \in Nat /\ 10 * x <= 10 * y
    OBVIOUS
  <2>. QED
    BY <2>1, QuotientIs, QuotientGrows
<1>2. /\ Shown(x, nf) = IF r % 100 > 50 THEN (r \div 10) + 1 ELSE r \div 10
      /\ Shown(y, nf) = IF s % 100 > 50 THEN (s \div 10) + 1 ELSE s \div 10
  BY DEF Shown
<1> HIDE DEF r, s
<1>. QED
  BY <1>1, <1>2

\* A tenth of the tenths is the percentage.
LEMMA TenthOfTenths ==
  ASSUME NEW x \in Nat, NEW nf \in Nat \ {0}
  PROVE  ((10 * x) \div nf) \div 10 = x \div nf
<1> DEFINE r == (10 * x) \div nf
           q == x \div nf
<1>1. /\ r \in Nat /\ r * nf <= 10 * x /\ 10 * x < (r + 1) * nf
      /\ r * nf \in Int /\ (r + 1) * nf \in Int
  <2>1. 10 * x \in Nat
    OBVIOUS
  <2>. QED
    BY <2>1, QuotientIs
<1>2. /\ q \in Nat /\ q * nf <= x /\ x < (q + 1) * nf
      /\ q * nf \in Int /\ (q + 1) * nf \in Int
  BY QuotientIs
<1> HIDE DEF r, q
<1>3. (10 * q) * nf = 10 * (q * nf) /\ (10 * q + 10) * nf = 10 * ((q + 1) * nf)
  BY <1>2
<1>4. (10 * q) * nf < (r + 1) * nf /\ r * nf < (10 * q + 10) * nf
  BY <1>1, <1>2, <1>3
<1>5. 10 * q < r + 1
  <2>1. 10 * q \in Int /\ r + 1 \in Int
    BY <1>1, <1>2
  <2>. QED
    BY <1>4, <2>1, Scaled, Zenon
<1>6. r < 10 * q + 10
  <2>1. 10 * q + 10 \in Int /\ r \in Int
    BY <1>1, <1>2
  <2>. QED
    BY <1>4, <2>1, Scaled, Zenon
<1>7. r \div 10 = q
  BY <1>1, <1>2, <1>5, <1>6
<1>. QED
  BY <1>7 DEF r, q

LEMMA OverallIs ==
  ASSUME FitsWord, cfg.n \in Nat, NEW nth \in Int, NEW p \in Int, NEW nf \in Nat \ {0},
         Progress(nth, p) \in 0 .. (100 * cfg.n)
  PROVE  Overall(nth, p, nf) = Shown(Progress(nth, p), nf)
<1> DEFINE x == Progress(nth, p)
<1>1. x \in Nat /\ 10 * x \in Nat /\ 10 * x < Word /\ x < Word /\ 2 * x < Word /\ Word \in Nat \ {0}
  BY WordAssumption DEF FitsWord
<1> HIDE DEF x
<1>2. x * 10 = 10 * x /\ Unsigned(x) = x /\ Unsigned(10 * x) = 10 * x
  BY <1>1 DEF Unsigned
<1>3. Signed(x \div nf) = x \div nf
  <2> DEFINE q == x \div nf
  <2>1. q \in Nat /\ q * nf <= x
    BY <1>1, QuotientIs
  <2>2. q <= q * nf
    BY <2>1
  <2> HIDE DEF q
  <2>3. 2 * q < Word
    BY <1>1, <2>1, <2>2
  <2>4. Signed(q) = q
    BY <1>1, <2>1, <2>3 DEF Signed
  <2>. QED
    BY <2>4 DEF q
<1>4. Overall(nth, p, nf) =
        IF ((10 * x) \div nf) % 100 > 50 THEN (x \div nf) + 1 ELSE x \div nf
  BY <1>2, <1>3 DEF Overall, x
<1>. QED
  BY <1>1, <1>4, TenthOfTenths DEF Shown, x

\* How far the call has come, and that the gauge is not ahead of it.
Reached ==
    IF pc = "while" THEN 100 * nthfile - 100 + (IF pct < 0 THEN 0 ELSE pct) ELSE 100 * nthfile
Smooth == cfg.test /\ 100 % cfg.increment = 0
GrowInv ==
    Smooth /\ pc \in {"head", "while"} =>
        /\ nfiles # 0 /\ gauge <= Shown(Reached, nfiles)
        /\ pc = "while" =>
              /\ nthfile # 0 /\ (keepGoing => pct < 100)
              /\ 0 - cfg.increment <= pct /\ pct <= 100
              /\ \E k \in Int : pct = k * cfg.increment

LEMMA GrowInit == Init => GrowInv
BY DEF Init, GrowInv

\* A step of the percentage that divides 100 does not miss it.
LEMMA StepsTo ==
  ASSUME NEW i \in Nat \ {0}, 100 % i = 0, NEW p \in Int, p < 100, \E k \in Int : p = k * i
  PROVE  p + i <= 100 /\ \E k \in Int : p + i = k * i
<1>1. PICK k \in Int : p = k * i
  OBVIOUS
<1>2. PICK m \in Int : 100 = m * i
  <2>1. 100 = ((100 \div i) * i) + (100 % i) /\ 100 \div i \in Int
    OBVIOUS
  <2>. QED
    BY <2>1
<1>3. k < m
  BY <1>1, <1>2, Scaled
<1>4. (k + 1) * i = p + i
  BY <1>1
<1>5. ~ (m < k + 1)
  BY <1>3
<1>6. ~ (100 < p + i)
  <2> SUFFICES ASSUME 100 < p + i PROVE FALSE
    OBVIOUS
  <2>1. m * i < (k + 1) * i
    BY <1>2, <1>4
  <2>. QED
    BY <1>5, <2>1, Scaled
<1>. QED
  BY <1>4, <1>6

\* A turn of the inner loop in test mode.
LEMMA TestGrows ==
  ASSUME TypeOK, GrowInv, FitsWord, Smooth, TestCallback
  PROVE  GrowInv' /\ gauge' >= gauge
<1> DEFINE p == pct + cfg.increment
           x == 100 * nthfile - 100 + (IF pct < 0 THEN 0 ELSE pct)
           y == Progress(nthfile, p)
<1>1. /\ cfg.n \in Nat /\ nthfile \in 0 .. cfg.n /\ nfiles \in Nat /\ pct \in Int
      /\ cfg.increment \in Nat \ {0} /\ gauge \in Int
  BY ConfigsAssumption DEF TypeOK, ConfigOK
<1>2. /\ pc = "while" /\ keepGoing /\ cfg.test /\ pct' = p
      /\ keepGoing' = IF cfg.noOverrun \/ cfg.test THEN p < 100 ELSE status[nthfile] = "RUNNING"
      /\ MaybeDraw(p) /\ UNCHANGED <<cfg, pc, nfiles, nthfile>>
  BY DEF TestCallback, InWhile, AfterCallback, flow, walk
<1>3. /\ nfiles \in Nat \ {0} /\ gauge <= Shown(x, nfiles) /\ nthfile # 0
      /\ pct < 100 /\ 0 - cfg.increment <= pct /\ \E k \in Int : pct = k * cfg.increment
  BY <1>1, <1>2 DEF GrowInv, Reached
<1>4. 0 <= p /\ p <= 100 /\ p \in Int /\ \E k \in Int : p = k * cfg.increment
  <2>1. pct + cfg.increment <= 100 /\ \E k \in Int : pct + cfg.increment = k * cfg.increment
    BY <1>1, <1>3, StepsTo, Zenon DEF Smooth
  <2>. QED
    BY <1>1, <1>3, <2>1
<1>5. y = 100 * nthfile - 100 + p
  BY DEF Progress
<1> HIDE DEF p, y
<1>6. x \in Nat /\ y \in Nat /\ x <= y /\ y \in 0 .. (100 * cfg.n)
  <2> DEFINE q == IF pct < 0 THEN 0 ELSE pct
  <2>1. q \in 0 .. p
    BY <1>1, <1>3, <1>4 DEF p
  <2>2. nthfile \in 1 .. cfg.n
    BY <1>1, <1>3
  <2>3. x = 100 * nthfile - 100 + q
    OBVIOUS
  <2> HIDE DEF x, q
  <2>. QED
    BY <1>1, <1>4, <1>5, <2>1, <2>2, <2>3
<1>7. Overall(nthfile, p, nfiles) = Shown(y, nfiles)
  BY <1>1, <1>3, <1>4, <1>6, OverallIs DEF y
<1> HIDE DEF x
<1>8. Shown(x, nfiles) \in Nat /\ Shown(x, nfiles) <= Shown(y, nfiles) /\ Shown(y, nfiles) \in Nat
  BY <1>3, <1>6, ShownGrows
<1>9. gauge' = gauge \/ gauge' = Shown(y, nfiles)
  BY <1>2, <1>7 DEF MaybeDraw, Draw, screen
<1>10. gauge' >= gauge /\ gauge' <= Shown(y, nfiles)
  BY <1>1, <1>3, <1>8, <1>9
<1>11. Reached' = y
  BY <1>2, <1>4, <1>5 DEF Reached
<1>12. keepGoing' => p < 100
  BY <1>2
<1>13. /\ UNCHANGED <<cfg, pc, nfiles, nthfile>> /\ pct' = p
       /\ nfiles # 0 /\ nthfile # 0 /\ 0 - cfg.increment <= p
  BY <1>1, <1>2, <1>3, <1>4
<1>14. /\ nfiles' # 0 /\ gauge' <= Shown(Reached, nfiles)'
       /\ nthfile' # 0 /\ (keepGoing' => pct' < 100)
       /\ 0 - cfg'.increment <= pct' /\ pct' <= 100
       /\ \E k \in Int : pct' = k * cfg'.increment
  BY <1>4, <1>10, <1>11, <1>12, <1>13
<1>. QED
  BY <1>10, <1>14 DEF GrowInv

LEMMA GrowStep ==
  TypeOK /\ FitsWord /\ GrowInv /\ [AnyNext]_loopVars
  => GrowInv' /\ (Smooth /\ calls' = calls => gauge' >= gauge)
<1> SUFFICES ASSUME TypeOK, FitsWord, GrowInv, [AnyNext]_loopVars
             PROVE  GrowInv' /\ (Smooth /\ calls' = calls => gauge' >= gauge)
  OBVIOUS
<1>0. /\ cfg.n \in Nat /\ nthfile \in 0 .. cfg.n /\ nfiles \in Nat /\ pct \in Int
      /\ cfg.increment \in Nat \ {0} /\ gauge \in Int /\ calls \in Nat
  BY ConfigsAssumption DEF TypeOK, ConfigOK
<1>1. CASE CallEmpty \/ HeadInterrupted \/ HeadOpenFails \/ ListEnd \/ Finish \/ ResetGlobals
  <2>1. pc' \notin {"head", "while"} /\ gauge' = gauge
    BY <1>1 DEF CallEmpty, HeadInterrupted, HeadOpenFails, ListEnd, Finish, ResetGlobals, screen
  <2>. QED
    BY <1>0, <2>1 DEF GrowInv
<1>2. CASE Call
  <2>1. pc' = "head" /\ calls' = calls + 1 /\ nthfile' = 0 /\ gauge' = 0
        /\ nfiles' = nfiles + cfg.n /\ nfiles + cfg.n > 0
    BY <1>2 DEF Call
  <2>2. nfiles' \in Nat \ {0} /\ Reached' = 0
    BY <1>0, <2>1 DEF Reached
  <2>3. Shown(0, nfiles') \in Nat
    BY <2>2, ShownGrows
  <2>4. gauge' <= Shown(Reached, nfiles)'
    BY <2>1, <2>2, <2>3
  <2>5. calls' # calls
    BY <1>0, <2>1
  <2>. QED
    BY <2>1, <2>2, <2>4, <2>5 DEF GrowInv
<1>3. CASE HeadOpen
  <2>1. /\ pc = "head" /\ pc' = "while" /\ nthfile' = nthfile + 1 /\ ~ interrupt
        /\ pct' = IF cfg.test /\ ~ interrupt THEN 0 - cfg.increment ELSE 0
        /\ UNCHANGED <<cfg, nfiles, gauge>>
    BY <1>3 DEF HeadOpen, NextFile, screen
  <2> SUFFICES ASSUME Smooth PROVE GrowInv'
    BY <1>0, <2>1 DEF GrowInv, Smooth
  <2>2. pct' = 0 - cfg.increment /\ pct' < 0 /\ pct' <= 100 /\ pct' < 100
    BY <1>0, <2>1 DEF Smooth
  <2>3. Reached' = Reached
    BY <1>0, <2>1, <2>2 DEF Reached
  <2>4. nfiles # 0 /\ gauge <= Shown(Reached, nfiles) /\ nthfile' # 0
    BY <1>0, <2>1 DEF GrowInv
  <2>5. \E k \in Int : pct' = k * cfg.increment
    <3>1. pct' = (-1) * cfg.increment
      BY <1>0, <2>2
    <3>. QED
      BY <3>1
  <2>6. gauge' <= Shown(Reached, nfiles)'
    BY <2>1, <2>3, <2>4
  <2>. QED
    BY <2>1, <2>2, <2>4, <2>5, <2>6 DEF GrowInv
<1>4. CASE AnyCallback
  <2>1. ~ cfg.test /\ cfg' = cfg
    BY <1>4 DEF AnyCallback, Callback
  <2>. QED
    BY <2>1 DEF GrowInv, Smooth
<1>5. CASE TestCallback
  <2>1. cfg' = cfg
    BY <1>5 DEF TestCallback
  <2>2. CASE Smooth
    BY <1>5, <2>2, TestGrows
  <2>3. CASE ~ Smooth
    BY <2>1, <2>3 DEF GrowInv, Smooth
  <2>. QED
    BY <2>2, <2>3
<1>6. CASE FileEnd
  <2>1. /\ pc = "while" /\ pc' \in {"head", "finish"}
        /\ UNCHANGED <<cfg, nfiles, nthfile, pct, gauge>>
    BY <1>6 DEF FileEnd, file, screen
  <2> SUFFICES ASSUME Smooth, pc' = "head" PROVE GrowInv'
    BY <1>0, <2>1 DEF GrowInv, Smooth
  <2>2. /\ nfiles \in Nat \ {0} /\ gauge <= Shown(Reached, nfiles) /\ nthfile # 0 /\ pct <= 100
    BY <1>0, <2>1 DEF GrowInv
  <2>3. Reached \in Nat /\ Reached' \in Nat /\ Reached <= Reached'
    BY <1>0, <2>1, <2>2 DEF Reached
  <2> DEFINE x == Reached
             y == Reached'
  <2> HIDE DEF x, y
  <2>4. Shown(x, nfiles) \in Nat /\ Shown(y, nfiles) \in Nat /\ Shown(x, nfiles) <= Shown(y, nfiles)
    BY <2>2, <2>3, ShownGrows DEF x, y
  <2>5. gauge' <= Shown(y, nfiles')
    BY <1>0, <2>1, <2>2, <2>4 DEF x
  <2>. QED
    BY <2>1, <2>2, <2>5 DEF GrowInv, y
<1>7. CASE Interrupt \/ UNCHANGED loopVars
  <2>1. UNCHANGED <<cfg, pc, nfiles, nthfile, pct, keepGoing, gauge>>
    BY <1>7 DEF Interrupt, loopVars, flow, walk, file, screen
  <2>2. GrowInv'
    BY <2>1 DEF GrowInv, Reached, Smooth
  <2>. QED
    BY <1>0, <2>1, <2>2
<1>. QED
  BY <1>1, <1>2, <1>3, <1>4, <1>5, <1>6, <1>7, ClientIsAny DEF AnyNext, Next, Loop

LEMMA FitsWordKept == FitsWord /\ [AnyNext]_loopVars => FitsWord'
BY CfgKept DEF FitsWord

\* In test mode the gauge never moves back when the increment divides 100, also
\* where the percentage is rounded up and the next file starts from zero, for
\* every number of files that fits the unsigned arithmetic.
THEOREM TestModeOnlyGrows == Spec /\ FitsWord => GaugeNeverBack
<1>1. TypeOK /\ FitsWord /\ GrowInv /\ [AnyNext]_loopVars
      => [cfg.test /\ 100 % cfg.increment = 0 /\ calls' = calls => gauge' >= gauge]_loopVars
  BY GrowStep DEF Smooth
<1>. QED
  BY <1>1, TypeInit, TypeStep, GrowInit, GrowStep, FitsWordKept, NextIsAny, PTL DEF Spec, GaugeNeverBack

-----------------------------------------------------------------------------
(***************************************************************************)
(* The same for every program that makes the steps of dpv().               *)
(***************************************************************************)
AnySpec == Init /\ [][AnyNext]_loopVars

LEMMA AnyClient ==
  AnySpec => []TypeOK /\ []EndedInv /\ []PageShowsCurrent /\ []SuccessMeansAllEnded /\ NoFileAfterAbort
<1>1. PageInv => PageShowsCurrent
  BY DEF PageInv, PageShowsCurrent
<1>2. EndedInv => SuccessMeansAllEnded
  BY DEF EndedInv, SuccessMeansAllEnded, Ended
<1>. QED
  BY <1>1, <1>2, TypeInit, TypeStep, PageInit, PageStep, EndedInit, EndedStep,
     AbortInit, AbortStep, AbortStarts, PTL DEF AnySpec, NoFileAfterAbort

-----------------------------------------------------------------------------
(***************************************************************************)
(* dpv(1).  What was proved of dpv() for a client that may return anything *)
(* holds of dpv(1), because every step of the data path is a step of the   *)
(* loop with such a client.                                                *)
(***************************************************************************)

(***************************************************************************)
(* The percentage dpv(1) returns to dpv() is an integer.                   *)
(***************************************************************************)

\* operate_on_lines() counts at most the bytes of its buffer.
LEMMA UnitsType ==
  ASSUME NEW s, NEW p \in Int, NEW m \in Nat
  PROVE  Units(s, p, m) \in Nat
<1>1. CASE ~ cfg.lineMode
  BY <1>1 DEF Units
<1>2. CASE cfg.lineMode
  <2> DEFINE B == (p + 1) .. (p + m)
             S == {i \in B : /\ cfg.kinds[s][i] = "nl"
                             /\ \A j \in (p + 1) .. i : cfg.kinds[s][j] # "nul"}
  <2>1. IsFiniteSet(B)
    BY FS_Interval
  <2>2. S \subseteq B
    OBVIOUS
  <2>3. IsFiniteSet(S)
    BY <2>1, <2>2, FS_Subset
  <2>4. Cardinality(S) \in Nat
    BY <2>3, FS_CardinalityType
  <2>. QED
    BY <1>2, <2>4 DEF Units
<1>. QED
  BY <1>1, <1>2

LEMMA DivType == \A a \in Int, b \in Nat \ {0} : a \div b \in Int
OBVIOUS

LEMMA PercentType ==
  ASSUME NEW rd \in Int, NEW length \in Int
  PROVE  Percent(rd, length) \in Int
<1> DEFINE b == IF length > 0 THEN length ELSE 1
           p == (rd * 100) \div b
<1>1. b \in Nat \ {0} /\ rd * 100 \in Int
  OBVIOUS
<1>2. p \in Int
  BY <1>1, DivType
<1>3. Percent(rd, length) \in {-1, p - 1, p}
  BY DEF Percent
<1>. QED
  BY <1>2, <1>3

-----------------------------------------------------------------------------
(***************************************************************************)
(* The table of descriptors: a source in it is the source of a file.       *)
(***************************************************************************)
OtherKinds == {"closed", "tty", "stdin", "stdout", "stderr", "devtty", "gaugeR", "gaugeW",
               "out", "pipeR", "pipeW"}
Known(n) == {Other(k) : k \in OtherKinds} \cup {Source(g) : g \in 1 .. n}
KnownTable(d) == d = [i \in Fds |-> d[i]] /\ \A i \in Fds : d[i] \in Known(cfg.n)

\* Whatever dialog(3) or dialog(1) left open before the loop.
LEMMA TableKnown ==
  ASSUME NEW c \in Configs
  PROVE  Table(c) \in Seq(Known(c.n) \ {Closed})
<1> DEFINE K == Known(c.n) \ {Closed}
<1>1. Stdin(c) \in K
  <2>1. c.n \in Nat /\ (~ c.multiple => c.n = 1)
    BY InvocationsAssumption DEF InvocationOK, ConfigOK
  <2>2. ~ c.multiple => Source(1) \in K
    BY <2>1 DEF Known, Source, Closed, Desc
  <2>. QED
    BY <2>2 DEF Stdin, Known, OtherKinds, Other, Closed, Desc
<1>2. /\ Other("tty") \in K /\ Other("stdout") \in K /\ Other("stderr") \in K
      /\ Other("devtty") \in K /\ Other("gaugeR") \in K /\ Other("gaugeW") \in K
  <2>1. \A k \in OtherKinds : k # "closed" => Other(k) # Closed
    BY DEF Other, Closed, Desc
  <2>. QED
    BY <2>1 DEF Known, OtherKinds
<1> HIDE DEF K
<1>3. Ttys(c, 1) \in Seq(K) /\ Ttys(c, 5) \in Seq(K)
  BY <1>2 DEF Ttys
<1>4. /\ <<Other("tty"), Other("stdout"), Other("stderr")>> \in Seq(K)
      /\ <<Stdin(c), Other("stdout"), Other("stderr")>> \in Seq(K)
      /\ <<Other("devtty"), Stdin(c)>> \in Seq(K)
      /\ <<Other("gaugeR"), Other("gaugeW")>> \in Seq(K)
      /\ << >> \in Seq(K)
  BY <1>1, <1>2
<1>5. \A a, b, e \in Seq(K) : a \o b \o e \in Seq(K)
  OBVIOUS
<1>6. InitDialog(c) \in Seq(K)
  BY <1>3, <1>4, <1>5 DEF InitDialog
<1>7. SpawnGauge(c) \in Seq(K)
  BY <1>3, <1>4, <1>5 DEF SpawnGauge
<1>. QED
  BY <1>6, <1>7 DEF Table, K

LEMMA SetUpKnown ==
  ASSUME TypeOK
  PROVE  /\ KnownTable(SetUp(cfg))
         /\ \A i \in Fds : SetUp(cfg)[i] # Closed <=> i < Len(Table(cfg))
<1>1. Table(cfg) \in Seq(Known(cfg.n) \ {Closed})
  BY TableKnown DEF TypeOK
<1>2. \A i \in Fds : i < Len(Table(cfg)) => Table(cfg)[i + 1] \in Known(cfg.n) \ {Closed}
  BY <1>1, MaxFdAssumption DEF Fds
<1>3. Closed \in Known(cfg.n)
  BY DEF Closed, Other, Known, OtherKinds
<1>. QED
  BY <1>2, <1>3 DEF SetUp, KnownTable

\* The kinds of descriptors differ.
LEMMA KindsDiffer ==
  /\ \A g : Source(g) # Closed /\ Source(g).k = "src"
  /\ \A k : Other(k).k = k
  /\ Other("out") # Closed /\ Other("pipeR") # Closed /\ Other("pipeW") # Closed
  /\ Closed.k = "closed"
BY DEF Source, Other, Closed, Desc

\* Opening and closing descriptors.
LEMMA SetKnown ==
  ASSUME NEW d, KnownTable(d), NEW i, NEW x \in Known(cfg.n)
  PROVE  KnownTable([d EXCEPT ![i] = x])
BY DEF KnownTable

LEMMA SourceIsFile ==
  ASSUME NEW d, KnownTable(d), NEW i, SourceOf(d, i) # 0
  PROVE  SourceOf(d, i) \in Files
BY DEF KnownTable, SourceOf, Known, OtherKinds, Other, Source, Desc, Files

-----------------------------------------------------------------------------
(***************************************************************************)
(* Every step of dpv(1) is a step of dpv() with some client.               *)
(***************************************************************************)

\* What the step to the loop needs of the data: the counts are numbers, the
\* descriptors are known, and inside the loop there is a current file.
CountInv ==
  /\ read \in [Files -> Int]
  /\ pos \in [Files -> Int]
  /\ pc = "while" => nthfile \in Files
  /\ KnownTable(desc)

LEMMA CountInit == TInit => CountInv
<1> SUFFICES ASSUME TInit PROVE CountInv
  OBVIOUS
<1>1. Closed \in Known(cfg.n)
  BY DEF Closed, Other, Known, OtherKinds
<1>. QED
  BY <1>1 DEF TInit, Init, CountInv, KnownTable

\* The tables a callback may find or make.
LEMMA OpenedKnown ==
  ASSUME CountInv, InWhile, NEW o \in Opened
  PROVE  KnownTable(o.table)
<1>1. Source(nthfile) \in Known(cfg.n)
  BY DEF CountInv, InWhile, Known, Files
<1>2. \A i : KnownTable([desc EXCEPT ![i] = Source(nthfile)])
  BY <1>1, SetKnown DEF CountInv
<1>. QED
  BY <1>2 DEF Opened, CountInv

LEMMA ReadIsCallback ==
  ASSUME TypeOK, CountInv, InWhile, NEW d, KnownTable(d), NEW i,
         NEW m \in 1 .. BufSize, ReadData(d, i, m)
  PROVE  AnyCallback /\ CountInv'
<1> DEFINE s == SourceOf(d, i)
           u == Units(s, pos[s], m)
           rd == read[nthfile] + u
           p == IF DividesByZero THEN 0 ELSE Percent(rd, cfg.length[nthfile])
<1>1. nthfile \in Files /\ cfg \in Configs
  BY DEF CountInv, InWhile, TypeOK
<1>2. cfg.length[nthfile] \in Int
  <2>1. cfg.length \in [1 .. cfg.n -> Nat \cup {-1}]
    BY <1>1, InvocationsAssumption DEF InvocationOK
  <2>2. cfg.length[nthfile] \in Nat \cup {-1}
    BY <1>1, <2>1 DEF Files
  <2>. QED
    BY <2>2
<1>3. m \in Nat
  BY BufSizeAssumption
<1>4. s \in Files
  BY SourceIsFile DEF ReadData
<1>5. u \in Int
  BY <1>3, <1>4, UnitsType DEF CountInv
<1>6. rd \in Int
  BY <1>1, <1>5 DEF CountInv
<1>7. p \in Int
  <2>1. Percent(rd, cfg.length[nthfile]) \in Int
    BY <1>2, <1>6, PercentType
  <2>. QED
    BY <2>1
<1>8. Callback(p, status[nthfile], abort)
  BY DEF ReadData
<1>9. AnyCallback
  <2>1. status[nthfile] \in Status
    BY <1>1 DEF TypeOK
  <2>. QED
    BY <1>7, <1>8, <2>1 DEF AnyCallback
<1>10. /\ read' = [read EXCEPT ![nthfile] = rd]
       /\ pos' = [pos EXCEPT ![s] = @ + m]
       /\ desc' = d
  BY DEF ReadData
<1>11. UNCHANGED <<cfg, nthfile>>
  BY <1>8 DEF Callback, walk
<1>12. read' \in [Files -> Int] /\ pos' \in [Files -> Int]
  BY <1>1, <1>3, <1>4, <1>6, <1>10 DEF CountInv
<1>. QED
  BY <1>1, <1>9, <1>10, <1>11, <1>12 DEF CountInv, KnownTable, Files

LEMMA TransferStep ==
  TypeOK /\ CountInv /\ [TNext]_tvars => [AnyNext]_loopVars /\ CountInv'
<1> SUFFICES ASSUME TypeOK, CountInv, [TNext]_tvars PROVE [AnyNext]_loopVars /\ CountInv'
  OBVIOUS
<1>0. cfg \in Configs /\ cfg.n \in Nat /\ nthfile \in 0 .. cfg.n
  BY ConfigsAssumption DEF TypeOK, ConfigOK
<1>a. ASSUME HeadOpen PROVE AnyNext /\ UNCHANGED cfg /\ nthfile' \in Files
  BY <1>0, <1>a DEF HeadOpen, NextFile, AnyNext, Next, Loop, Files
<1>b. ASSUME UNCHANGED <<cfg, nthfile, pc, read, pos, desc>> PROVE CountInv'
  BY <1>b DEF CountInv, KnownTable, Files
<1>1. CASE TCall
  <2>1. KnownTable(SetUp(cfg))
    BY SetUpKnown
  <2>. QED
    BY <1>1, <2>1 DEF TCall, Call, AnyNext, Next, Loop, CountInv, KnownTable, Files
<1>2. CASE TOpenNothing
  BY <1>2, <1>a DEF TOpenNothing, UnchangedData, CountInv, KnownTable, Files
<1>3. CASE TOpenFile
  <2>1. Other("out") \in Known(cfg.n)
    BY DEF Known, OtherKinds
  <2>2. PICK i \in Fds : desc' = [desc EXCEPT ![i] = Other("out")]
    BY <1>3 DEF TOpenFile
  <2>3. KnownTable(desc')
    BY <2>1, <2>2, SetKnown DEF CountInv
  <2>. QED
    BY <1>3, <1>a, <2>3 DEF TOpenFile, UnchangedData, CountInv, KnownTable, Files
<1>4. CASE TOpenFileFails
  BY <1>4 DEF TOpenFileFails, HeadOpenFails, NextFile, UnchangedData, AnyNext, Next, Loop,
     CountInv, KnownTable, Files
<1>5. CASE TSpawn
  <2>1. Other("pipeR") \in Known(cfg.n) /\ Other("pipeW") \in Known(cfg.n)
    BY DEF Known, OtherKinds
  <2>2. PICK i, j \in Fds : desc' = [desc EXCEPT ![i] = Other("pipeR"), ![j] = Other("pipeW")]
    BY <1>5 DEF TSpawn
  <2>3. KnownTable([desc EXCEPT ![i] = Other("pipeR")])
    BY <2>1, SetKnown DEF CountInv
  <2>4. KnownTable(desc')
    BY <2>1, <2>2, <2>3, SetKnown
  <2>. QED
    BY <1>5, <1>a, <2>4 DEF TSpawn, UnchangedData, CountInv, KnownTable, Files
<1>6. CASE TSpawnDies \/ TActionDies
  BY <1>6, <1>b DEF TSpawnDies, TActionDies, loopVars, flow, walk
<1>7. CASE TAction
  <2>1. InWhile
    BY <1>7 DEF TAction
  <2>2. ASSUME NEW p \in Int, NEW st \in Status, Callback(p, st, abort), KnownTable(desc'),
               UNCHANGED <<read, pos>>
        PROVE  AnyNext /\ CountInv'
    <3>1. AnyNext
      BY <2>2 DEF AnyNext, AnyCallback
    <3>. QED
      BY <2>2, <3>1 DEF Callback, flow, walk, CountInv, KnownTable, Files
  <2>3. CASE OpenSourceFails
    BY <2>2, <2>3 DEF OpenSourceFails, dataVars, Status, CountInv, KnownTable
  <2>4. ASSUME NEW o \in Opened, ReadEnds(o.table, o.fd) PROVE AnyNext /\ CountInv'
    <3>1. KnownTable(o.table)
      BY <2>1, OpenedKnown
    <3>2. Closed \in Known(cfg.n)
      BY DEF Closed, Other, Known, OtherKinds
    <3>3. KnownTable(desc')
      BY <2>4, <3>1, <3>2, SetKnown DEF ReadEnds
    <3>. QED
      BY <2>2, <2>4, <3>3 DEF ReadEnds, Status
  <2>5. ASSUME NEW o \in Opened, NEW m \in 1 .. BufSize, ReadData(o.table, o.fd, m)
        PROVE  AnyNext /\ CountInv'
    BY <2>1, <2>5, OpenedKnown, ReadIsCallback DEF AnyNext
  <2>. QED
    BY <1>7, <2>3, <2>4, <2>5 DEF TAction
<1>8. CASE TFileEnd
  <2>1. Closed \in Known(cfg.n)
    BY DEF Closed, Other, Known, OtherKinds
  <2>2. KnownTable(desc')
    BY <1>8, <2>1, SetKnown DEF TFileEnd, CountInv
  <2>3. AnyNext /\ UNCHANGED <<cfg, nthfile>> /\ pc' # "while"
    BY <1>8 DEF TFileEnd, FileEnd, AnyNext, Next, Loop
  <2>. QED
    BY <1>8, <2>2, <2>3 DEF TFileEnd, UnchangedData, CountInv, KnownTable, Files
<1>9. CASE TOtherwise
  <2>1. AnyNext /\ UNCHANGED cfg /\ pc' # "while"
    BY <1>9 DEF TOtherwise, HeadInterrupted, NextFile, ListEnd, Finish, AnyNext, Next, Loop
  <2>. QED
    BY <1>9, <2>1 DEF TOtherwise, dataVars, CountInv, KnownTable, Files
<1>10. CASE TInterrupt
  <2>1. CASE Interrupt /\ UNCHANGED dataVars
    BY <2>1, <1>b DEF Interrupt, dataVars, flow, walk, AnyNext, Next
  <2>2. CASE UNCHANGED <<loopVars, desc, read, pos>>
    BY <2>2, <1>b DEF loopVars, flow, walk
  <2>. QED
    BY <1>10, <2>1, <2>2 DEF TInterrupt
<1>11. CASE UNCHANGED tvars
  BY <1>11, <1>b DEF tvars, dataVars, loopVars, flow, walk
<1>. QED
  BY <1>1, <1>2, <1>3, <1>4, <1>5, <1>6, <1>7, <1>8, <1>9, <1>10, <1>11 DEF TNext, TStep

\* dpv(1) drives dpv() as its manual allows: whatever it reads, writes, fails to
\* open or dies of, each of its steps is one of the loop, or leaves it alone.
THEOREM TransferIsClient == TSpec => AnySpec
<1>1. TInit => Init
  BY DEF TInit
<1>. QED
  BY <1>1, TypeInit, TypeStep, CountInit, TransferStep, PTL DEF TSpec, AnySpec

\* The page dpv(1) shows contains the file it is copying, for every list of
\* files, every display limit and whatever happens to the data.
THEOREM CopiedFileOnPage == TSpec => []PageShowsCurrent
BY TransferIsClient, AnyClient, PTL

\* dpv(1) reports success only when it ended every file.
THEOREM SuccessIsEveryFile == TSpec => []SuccessMeansAllEnded
BY TransferIsClient, AnyClient, PTL

-----------------------------------------------------------------------------
(***************************************************************************)
(* With -m, a descriptor kept between callbacks is the current file's, or  *)
(* that of a file -N cut short, as every file since.                       *)
(***************************************************************************)

\* What descriptor fd may be in file k.
KeptFor(k) == \E s \in 1 .. k : desc[fd] = Source(s) /\ \A f \in s .. (k - 1) : CutShort(f)

\* The inductive invariant: an open source means that its file is not over,
\* unless -N cut it, or a signal did; nothing is read any more then.  The output
\* is another descriptor.
KeptInv ==
  alive /\ cfg.multiple /\ ~ interrupt =>
    /\ pc = "while" /\ outfd >= 0 => outfd \in Fds /\ desc[outfd].k \in {"out", "pipeW"}
    /\ fd >= 0 =>
         /\ fd \in Fds /\ KeptFor(nthfile)
         /\ pc = "while" \/ (pc \in {"head", "finish", "returned"} /\ MayCut)
         /\ pc = "head" \/ (pc = "while" /\ ~ keepGoing) => CutShort(nthfile)

\* A descriptor is a number, also where the arithmetic that looks for the
\* standard input went wrong.
FdIsInt == fd \in Int

LEMMA KeptInit == TInit => FdIsInt /\ KeptInv
BY DEF TInit, Init, FdIsInt, KeptInv

LEMMA DescriptorStep == FdIsInt /\ [TNext]_tvars => FdIsInt'
<1> SUFFICES ASSUME fd \in Int, [TNext]_tvars PROVE fd' \in Int
  BY DEF FdIsInt
<1>1. ASSUME NEW o \in Opened PROVE o.fd \in Int
  <2>1. \A i \in LowestFree \cup {-1} : i \in Int /\ StdinFd(desc, i) \in Int
    BY MaxFdAssumption DEF LowestFree, Fds, StdinFd
  <2>. QED
    BY <2>1 DEF Opened
<1>2. CASE TAction
  BY <1>1, <1>2 DEF TAction, OpenSourceFails, ReadEnds, ReadData, dataVars
<1>3. CASE ~ TAction
  BY <1>3 DEF TNext, TStep, TCall, TOpenNothing, TOpenFile, TOpenFileFails, TSpawn, TSpawnDies,
     TActionDies, TFileEnd, TOtherwise, TInterrupt, UnchangedData, dataVars, tvars
<1>. QED
  BY <1>2, <1>3

\* Counts only grow: a file that was cut stays cut.
LEMMA ReadGrows ==
  ASSUME TypeOK, CountInv, [TNext]_tvars
  PROVE  \A f \in Files : f \in Files' /\ read'[f] >= read[f]
<1>0. /\ read \in [Files -> Int] /\ cfg' = cfg /\ Files' = Files
  <2>1. [AnyNext]_loopVars
    BY TransferStep
  <2>2. cfg' = cfg
    BY <2>1, CfgKept
  <2>. QED
    BY <2>2 DEF CountInv, Files
<1>1. CASE TAction
  <2>1. nthfile \in Files
    BY <1>1 DEF TAction, InWhile, CountInv
  <2>2. ASSUME NEW o \in Opened, NEW m \in 1 .. BufSize, ReadData(o.table, o.fd, m)
        PROVE  \A f \in Files : read'[f] >= read[f]
    <3> DEFINE s == SourceOf(o.table, o.fd)
    <3>1. m \in Nat
      BY BufSizeAssumption
    <3>2. s \in Files
      BY <1>1, <2>2, OpenedKnown, SourceIsFile DEF ReadData, TAction
    <3>3. Units(s, pos[s], m) \in Nat
      BY <3>1, <3>2, UnitsType DEF CountInv
    <3>4. read' = [read EXCEPT ![nthfile] = read[nthfile] + Units(s, pos[s], m)]
      BY <2>2 DEF ReadData
    <3>. QED
      BY <1>0, <2>1, <3>3, <3>4
  <2>3. UNCHANGED read => \A f \in Files : read'[f] >= read[f]
    BY <1>0
  <2>. QED
    BY <1>0, <1>1, <2>2, <2>3 DEF TAction, OpenSourceFails, ReadEnds, dataVars
<1>2. CASE ~ TAction
  <2>1. read' = read
    BY <1>2 DEF TNext, TStep, TCall, TOpenNothing, TOpenFile, TOpenFileFails, TSpawn, TSpawnDies,
       TActionDies, TFileEnd, TOtherwise, TInterrupt, UnchangedData, dataVars, tvars
  <2>. QED
    BY <1>0, <2>1
<1>. QED
  BY <1>1, <1>2

LEMMA Lengths ==
  ASSUME TypeOK
  PROVE  /\ cfg \in Configs /\ ~ cfg.test /\ cfg.n \in Nat /\ nthfile \in 0 .. cfg.n
         /\ \A f \in Files : cfg.length[f] \in Nat \cup {-1} /\ Larger(cfg.length[f], 1) \in Nat
<1>1. InvocationOK(cfg) /\ cfg \in Configs
  BY InvocationsAssumption DEF TypeOK
<1>2. \A f \in Files : cfg.length[f] \in Nat \cup {-1}
  BY <1>1 DEF InvocationOK, Files
<1>. QED
  BY <1>1, <1>2 DEF InvocationOK, ConfigOK, TypeOK, Larger

LEMMA CutStays ==
  ASSUME TypeOK, CountInv, [TNext]_tvars
  PROVE  \A f \in Files : CutShort(f) => CutShort(f)'
<1> SUFFICES ASSUME NEW f \in Files, CutShort(f) PROVE CutShort(f)'
  OBVIOUS
<1>1. cfg' = cfg /\ f \in Files'
  BY TransferStep, CfgKept DEF Files
<1>2. read'[f] >= read[f] /\ read'[f] \in Int /\ read[f] \in Int
  BY <1>1, ReadGrows, TransferStep DEF CountInv
<1>3. Larger(cfg.length[f], 1) \in Nat /\ Larger(cfg.length[f], 1)' = Larger(cfg.length[f], 1)
  BY <1>1, Lengths DEF Larger
<1>. QED
  BY <1>1, <1>2, <1>3 DEF CutShort

\* A percentage of 100 means that the length is reached.
LEMMA HundredIsLength ==
  ASSUME NEW rd \in Int, NEW length \in Int, ~ (Percent(rd, length) < 100)
  PROVE  length >= 0 /\ rd >= Larger(length, 1)
<1> DEFINE b == IF length > 0 THEN length ELSE 1
           q == (rd * 100) \div b
<1>1. b \in Nat \ {0} /\ rd * 100 \in Int
  OBVIOUS
<1>2. q \in Int
  BY <1>1, DivType
<1>3. length >= 0
  BY DEF Percent
<1>4. ~ (q < 100)
  <2>1. Percent(rd, length) \in {q, q - 1}
    BY <1>3 DEF Percent
  <2> HIDE DEF q
  <2>. QED
    BY <1>2, <2>1
<1>5. ~ (rd < b)
  <2> SUFFICES ASSUME rd < b PROVE FALSE
    OBVIOUS
  <2>1. \A a \in Int, c \in Nat \ {0} : a < 100 * c => a \div c < 100
    OBVIOUS
  <2>2. rd * 100 < 100 * b
    BY <1>1
  <2>. QED
    BY <1>1, <1>4, <2>1, <2>2
<1>6. b = Larger(length, 1)
  BY <1>3 DEF Larger
<1>. QED
  BY <1>1, <1>3, <1>5, <1>6

\* The source a callback reads, with -m.
LEMMA OpenedSource ==
  ASSUME TypeOK, CountInv, FdIsInt, KeptInv, alive, cfg.multiple, InWhile, NEW o \in Opened
  PROVE  /\ KnownTable(o.table) /\ o.fd \in Fds
         /\ \E s \in 1 .. nthfile :
               o.table[o.fd] = Source(s) /\ \A f \in s .. (nthfile - 1) : CutShort(f)
         /\ outfd >= 0 => /\ outfd \in Fds /\ o.table[outfd] = desc[outfd]
                          /\ desc[outfd].k \in {"out", "pipeW"} /\ outfd # o.fd
<1>0. KnownTable(o.table) /\ nthfile \in 1 .. nthfile /\ nthfile \in Nat
  BY Lengths, OpenedKnown DEF CountInv, InWhile, Files
<1>1. outfd >= 0 => outfd \in Fds /\ desc[outfd].k \in {"out", "pipeW"}
  BY DEF KeptInv, InWhile
<1>2. CASE fd >= 0
  <2>1. o.table = desc /\ o.fd = fd
    BY <1>2 DEF Opened
  <2>2. fd \in Fds /\ KeptFor(nthfile)
    BY <1>2 DEF KeptInv, InWhile
  <2>3. outfd >= 0 => outfd # fd
    BY <1>1, <2>2 DEF KeptFor, Source, Desc
  <2>. QED
    BY <1>0, <1>1, <2>1, <2>2, <2>3 DEF KeptFor
<1>3. CASE ~ (fd >= 0)
  <2>1. o \in {[table |-> [desc EXCEPT ![i] = Source(nthfile)], fd |-> i] :
                  i \in {j \in LowestFree : cfg.openable[nthfile]}}
    BY <1>3, Zenon DEF Opened
  <2>2. PICK i \in LowestFree :
             o = [table |-> [desc EXCEPT ![i] = Source(nthfile)], fd |-> i]
    BY <2>1, Zenon
  <2>3. o.table = [desc EXCEPT ![i] = Source(nthfile)] /\ o.fd = i
    BY <2>2
  <2>4. i \in Fds /\ desc[i].k = "closed"
    BY DEF LowestFree, IsLowestFree, Closed, Desc
  <2>5. o.table[i] = Source(nthfile)
    BY <2>3, <2>4 DEF CountInv, KnownTable
  <2>6. outfd >= 0 => outfd # i
    BY <1>1, <2>4
  <2>7. outfd >= 0 => o.table[outfd] = desc[outfd]
    BY <1>1, <2>3, <2>6 DEF CountInv, KnownTable
  <2>8. \A f \in nthfile .. (nthfile - 1) : CutShort(f)
    BY <1>0
  <2>. QED
    BY <1>0, <1>1, <2>3, <2>4, <2>5, <2>6, <2>7, <2>8
<1>. QED
  BY <1>2, <1>3

LEMMA KeptStep ==
  TypeOK /\ EndedInv /\ CountInv /\ FdIsInt /\ KeptInv /\ [TNext]_tvars => KeptInv'
<1> SUFFICES ASSUME TypeOK, EndedInv, CountInv, FdIsInt, KeptInv, [TNext]_tvars,
                    alive', cfg'.multiple, ~ interrupt'
             PROVE  KeptInv'
  BY DEF KeptInv
<1>0. /\ cfg' = cfg /\ Files' = Files /\ (MayCut' <=> MayCut) /\ nthfile \in Nat
      /\ cfg.n \in Nat /\ nthfile \in 0 .. cfg.n /\ cfg.multiple /\ ~ cfg.test
  BY TransferStep, CfgKept, Lengths DEF Files, MayCut
<1>1. \A f \in Files : CutShort(f) => CutShort(f)' /\ MayCut
  BY <1>0, CutStays DEF CutShort, MayCut
\* A source that stays open, in the same file or in the next.
<1>k. ASSUME fd >= 0, KeptFor(nthfile), UNCHANGED fd, desc'[fd] = desc[fd],
             \/ nthfile' = nthfile
             \/ nthfile' = nthfile + 1 /\ CutShort(nthfile)
      PROVE  KeptFor(nthfile)'
  <2>1. PICK s \in 1 .. nthfile : desc[fd] = Source(s) /\ \A f \in s .. (nthfile - 1) : CutShort(f)
    BY <1>k DEF KeptFor
  <2>2. s \in 1 .. nthfile' /\ \A f \in s .. (nthfile' - 1) : f \in Files /\ CutShort(f)
    BY <1>0, <1>k, <2>1 DEF Files
  <2>3. \A f \in s .. (nthfile' - 1) : CutShort(f)'
    BY <1>1, <2>2
  <2>. QED
    BY <1>k, <2>1, <2>2, <2>3 DEF KeptFor
<1>2. CASE TCall
  <2>1. pc = "idle" /\ pc' = "head" /\ UNCHANGED <<fd, interrupt, alive>>
    BY <1>2 DEF TCall, Call, flags
  <2>2. ~ (fd >= 0)
    BY <1>0, <2>1 DEF KeptInv
  <2>. QED
    BY <2>1, <2>2 DEF KeptInv
<1>3. CASE TOpenNothing \/ TOpenFile \/ TSpawn
  <2>1. /\ pc = "head" /\ pc' = "while" /\ nthfile' = nthfile + 1 /\ keepGoing'
        /\ UNCHANGED <<fd, interrupt, alive>>
    BY <1>3 DEF TOpenNothing, TOpenFile, TSpawn, UnchangedData, HeadOpen, NextFile, flags
  <2>2. \A i \in Fds : desc[i] # Closed => desc'[i] = desc[i]
    BY <1>3 DEF TOpenNothing, TOpenFile, TSpawn, IsLowestFree, CountInv, KnownTable, UnchangedData
  <2>3. outfd' >= 0 => outfd' \in Fds /\ desc'[outfd'].k \in {"out", "pipeW"}
    <3>0. desc = [i \in Fds |-> desc[i]]
      BY DEF CountInv, KnownTable
    <3>1. CASE TOpenNothing
      BY <3>1 DEF TOpenNothing
    <3>2. CASE TOpenFile
      BY <3>0, <3>2, KindsDiffer DEF TOpenFile
    <3>3. CASE TSpawn
      <4>1. PICK i, j \in Fds :
                  /\ desc' = [desc EXCEPT ![i] = Other("pipeR"), ![j] = Other("pipeW")]
                  /\ outfd' = j
        BY <3>3 DEF TSpawn
      <4>2. desc'[j] = Other("pipeW")
        BY <3>0, <4>1
      <4>. QED
        BY <4>1, <4>2, KindsDiffer
    <3>. QED
      BY <1>3, <3>1, <3>2, <3>3
  <2>4. fd >= 0 => fd \in Fds /\ KeptFor(nthfile) /\ CutShort(nthfile)
    BY <1>0, <2>1 DEF KeptInv
  <2>5. fd >= 0 => desc'[fd] = desc[fd]
    BY <2>2, <2>4, KindsDiffer DEF KeptFor
  <2>6. fd >= 0 => KeptFor(nthfile)'
    BY <1>k, <2>1, <2>4, <2>5
  <2>. QED
    BY <2>1, <2>3, <2>4, <2>6 DEF KeptInv
<1>4. CASE TOpenFileFails
  <2>1. /\ pc = "head" /\ pc' = "returned" /\ nthfile' = nthfile + 1
        /\ UNCHANGED <<fd, desc, interrupt, alive>>
    BY <1>4 DEF TOpenFileFails, HeadOpenFails, UnchangedData, NextFile, flags
  <2>2. fd >= 0 => fd \in Fds /\ KeptFor(nthfile) /\ CutShort(nthfile) /\ MayCut
    BY <1>0, <2>1 DEF KeptInv
  <2>3. fd >= 0 => KeptFor(nthfile)'
    BY <1>k, <2>1, <2>2
  <2>. QED
    BY <1>0, <2>1, <2>2, <2>3 DEF KeptInv
<1>5. CASE TSpawnDies \/ TActionDies
  BY <1>5 DEF TSpawnDies, TActionDies
<1>6. CASE TAction
  <2>1. InWhile /\ pc = "while" /\ keepGoing /\ nthfile \in Files
    BY <1>6 DEF TAction, InWhile, CountInv
  <2>2. ASSUME NEW p, NEW st, Callback(p, st, abort)
        PROVE  /\ UNCHANGED <<pc, nthfile, interrupt>>
               /\ keepGoing' = (IF cfg.noOverrun THEN p < 100 ELSE st = "RUNNING")
    BY <1>0, <2>2 DEF Callback, AfterCallback, flow, walk
  <2>3. CASE OpenSourceFails
    <3>1. UNCHANGED <<pc, nthfile, interrupt, desc, fd, outfd, alive>>
      BY <2>2, <2>3 DEF OpenSourceFails, dataVars
    <3>2. ~ (fd' >= 0)
      BY <2>3, <3>1 DEF OpenSourceFails, FdIsInt
    <3>. QED
      BY <1>0, <3>1, <3>2 DEF KeptInv
  <2>4. ASSUME NEW o \in Opened, ReadEnds(o.table, o.fd) PROVE KeptInv'
    <3>1. /\ UNCHANGED <<pc, nthfile, interrupt, outfd, alive>> /\ fd' = -1
          /\ desc' = IF o.fd # 0 /\ o.fd \in Fds THEN [o.table EXCEPT ![o.fd] = Closed] ELSE o.table
      BY <2>2, <2>4 DEF ReadEnds
    <3>2. outfd >= 0 => /\ outfd \in Fds /\ o.table[outfd] = desc[outfd]
                        /\ desc[outfd].k \in {"out", "pipeW"} /\ outfd # o.fd
      BY <1>0, <2>1, <3>1, OpenedSource
    <3>3. outfd >= 0 => desc'[outfd] = desc[outfd]
      <4>1. KnownTable(o.table)
        BY <2>1, OpenedKnown
      <4>. QED
        BY <3>1, <3>2, <4>1 DEF KnownTable
    <3>. QED
      BY <3>1, <3>2, <3>3 DEF KeptInv
  <2>5. ASSUME NEW o \in Opened, NEW m \in 1 .. BufSize, ReadData(o.table, o.fd, m)
        PROVE  KeptInv'
    <3> DEFINE s == SourceOf(o.table, o.fd)
               rd == read[nthfile] + Units(s, pos[s], m)
               p == IF DividesByZero THEN 0 ELSE Percent(rd, cfg.length[nthfile])
    <3>1. /\ UNCHANGED <<outfd, alive>> /\ fd' = o.fd /\ desc' = o.table
          /\ read' = [read EXCEPT ![nthfile] = rd] /\ Callback(p, status[nthfile], abort)
      BY <2>5 DEF ReadData
    <3> HIDE DEF p
    <3>2. /\ UNCHANGED <<pc, nthfile, interrupt>>
          /\ keepGoing' = (IF cfg.noOverrun THEN p < 100 ELSE status[nthfile] = "RUNNING")
      BY <2>2, <3>1
    <3>3. /\ o.fd \in Fds
          /\ \E f \in 1 .. nthfile :
                o.table[o.fd] = Source(f) /\ \A g \in f .. (nthfile - 1) : CutShort(g)
          /\ outfd >= 0 => /\ outfd \in Fds /\ o.table[outfd] = desc[outfd]
                           /\ desc[outfd].k \in {"out", "pipeW"}
      BY <1>0, <2>1, <3>1, <3>2, OpenedSource
    <3>4. KeptFor(nthfile)'
      <4>1. PICK f \in 1 .. nthfile :
                   o.table[o.fd] = Source(f) /\ \A g \in f .. (nthfile - 1) : CutShort(g)
        BY <3>3
      <4>2. \A g \in f .. (nthfile - 1) : g \in Files /\ CutShort(g)'
        BY <1>0, <1>1, <4>1 DEF Files
      <4>. QED
        BY <3>1, <3>2, <4>1, <4>2 DEF KeptFor
    <3>5. ASSUME ~ keepGoing' PROVE CutShort(nthfile)'
      <4>1. status[nthfile] = "RUNNING" \/ cfg.noOverrun
        BY <1>0, <2>1 DEF EndedInv, Ended
      <4>2. cfg.noOverrun /\ ~ (p < 100)
        BY <3>2, <3>5, <4>1
      <4>3. ~ DividesByZero
        BY <4>2 DEF p
      <4>4. s \in Files
        BY <2>1, <2>5, OpenedKnown, SourceIsFile DEF ReadData
      <4>5. rd \in Int /\ read'[nthfile] = rd
        <5>1. m \in Nat
          BY BufSizeAssumption
        <5>2. Units(s, pos[s], m) \in Nat
          BY <4>4, <5>1, UnitsType DEF CountInv
        <5>. QED
          BY <2>1, <3>1, <5>2 DEF CountInv
      <4>6. cfg.length[nthfile] >= 0 /\ rd >= Larger(cfg.length[nthfile], 1)
        <5>1. cfg.length[nthfile] \in Int
          BY <2>1, Lengths
        <5>. QED
          BY <4>2, <4>3, <4>5, <5>1, HundredIsLength DEF p
      <4>. QED
        BY <1>0, <3>2, <4>2, <4>5, <4>6 DEF CutShort, Larger
    <3>. QED
      BY <2>1, <3>1, <3>2, <3>3, <3>4, <3>5 DEF KeptInv
  <2>. QED
    BY <1>6, <2>3, <2>4, <2>5 DEF TAction
<1>7. CASE TFileEnd
  <2>1. /\ pc = "while" /\ pc' \in {"head", "finish"}
        /\ UNCHANGED <<nthfile, interrupt, fd, alive>> /\ ~ keepGoing
        /\ desc' = IF outfd >= 0 THEN [desc EXCEPT ![outfd] = Closed] ELSE desc
    BY <1>7 DEF TFileEnd, FileEnd, UnchangedData, flags
  <2>2. outfd >= 0 => outfd \in Fds /\ desc[outfd].k \in {"out", "pipeW"}
    BY <1>0, <2>1 DEF KeptInv
  <2>3. fd >= 0 => fd \in Fds /\ KeptFor(nthfile) /\ CutShort(nthfile)
    BY <1>0, <2>1 DEF KeptInv
  <2>4. fd >= 0 => desc'[fd] = desc[fd]
    BY <2>1, <2>2, <2>3 DEF KeptFor, Source, Desc, CountInv, KnownTable
  <2>5. fd >= 0 => KeptFor(nthfile)'
    BY <1>k, <2>1, <2>3, <2>4
  <2>6. fd >= 0 => CutShort(nthfile)' /\ MayCut
    <3>1. nthfile \in Files
      BY <2>1 DEF CountInv
    <3>2. \A f \in Files : CutShort(f) =>
             /\ cfg.noOverrun' /\ cfg.length'[f] >= 0
             /\ read'[f] >= Larger(cfg.length[f], 1)'
      BY <1>1 DEF CutShort
    <3>3. \A f : Larger(cfg.length[f], 1)' = Larger(cfg.length[f], 1)
      BY <1>0 DEF Larger
    <3>. QED
      BY <1>0, <1>1, <2>1, <2>3, <3>1, <3>2, <3>3 DEF CutShort, Larger
  <2>. QED
    BY <1>0, <2>1, <2>3, <2>5, <2>6 DEF KeptInv
<1>8. CASE TOtherwise
  <2>0. ~ HeadInterrupted
    BY DEF HeadInterrupted, flags
  <2>1. /\ pc \in {"head", "finish"} /\ pc' \in {"finish", "returned"}
        /\ UNCHANGED <<nthfile, interrupt, fd, desc, alive>>
    BY <1>8, <2>0 DEF TOtherwise, ListEnd, Finish, dataVars, walk, flags
  <2>2. fd >= 0 => fd \in Fds /\ KeptFor(nthfile) /\ MayCut
    BY <1>0, <2>1 DEF KeptInv
  <2>3. fd >= 0 => KeptFor(nthfile)'
    BY <1>k, <2>1, <2>2
  <2>. QED
    BY <1>0, <2>1, <2>2, <2>3 DEF KeptInv
<1>9. CASE TInterrupt
  BY <1>9 DEF TInterrupt, Interrupt
<1>10. CASE UNCHANGED tvars
  <2>1. UNCHANGED <<pc, nthfile, keepGoing, interrupt, fd, outfd, desc, alive, read, cfg>>
    BY <1>10 DEF tvars, dataVars, loopVars, flow, walk, file, flags
  <2>. QED
    BY <2>1 DEF KeptInv, KeptFor, CutShort, MayCut, Files
<1>. QED
  BY <1>2, <1>3, <1>4, <1>5, <1>6, <1>7, <1>8, <1>9, <1>10 DEF TNext, TStep

\* dpv(1) -m reads every file from the path given for it: no descriptor of an
\* earlier file is left when the next starts, unless -N cut that file and every
\* one since.
THEOREM ReadsOwnSource == TSpec => []OwnSource
<1>1. TypeOK /\ FdIsInt /\ KeptInv => OwnSource
  <2> SUFFICES ASSUME TypeOK, KeptInv, alive, InWhile, cfg.multiple, fd >= 0
               PROVE  /\ SourceOf(desc, fd) \in 1 .. nthfile
                      /\ \A f \in SourceOf(desc, fd) .. (nthfile - 1) : CutShort(f)
    BY DEF OwnSource
  <2>1. fd \in Fds /\ KeptFor(nthfile)
    BY DEF KeptInv, InWhile
  <2>2. PICK s \in 1 .. nthfile : desc[fd] = Source(s) /\ \A f \in s .. (nthfile - 1) : CutShort(f)
    BY <2>1 DEF KeptFor
  <2>3. SourceOf(desc, fd) = s
    BY <2>1, <2>2 DEF SourceOf, Source, Desc
  <2>. QED
    BY <2>2, <2>3
<1>2. TSpec => []TypeOK /\ []EndedInv
  BY TransferIsClient, AnyClient, PTL
<1>. QED
  BY <1>1, <1>2, CountInit, TransferStep, KeptInit, DescriptorStep, KeptStep, PTL DEF TSpec

\* Where no file can be cut, an open source is the current file's.
SourceInv ==
  alive /\ cfg.multiple /\ ~ MayCut /\ fd >= 0 /\ ~ interrupt =>
    /\ pc = "while" /\ keepGoing
    /\ fd \in Fds /\ desc[fd] = Source(nthfile)

LEMMA SourceIs == TypeOK /\ CountInv /\ KeptInv => SourceInv
<1> SUFFICES ASSUME TypeOK, CountInv, KeptInv, alive, cfg.multiple, ~ MayCut, fd >= 0, ~ interrupt
             PROVE  pc = "while" /\ keepGoing /\ fd \in Fds /\ desc[fd] = Source(nthfile)
  BY DEF SourceInv
<1>1. \A f \in Files : ~ CutShort(f)
  BY DEF CutShort, MayCut
<1>2. pc = "while" /\ fd \in Fds /\ KeptFor(nthfile) /\ (~ keepGoing => CutShort(nthfile))
  BY DEF KeptInv
<1>3. nthfile \in Files /\ cfg.n \in Nat
  BY <1>2, Lengths DEF CountInv
<1>4. PICK s \in 1 .. nthfile : desc[fd] = Source(s) /\ \A f \in s .. (nthfile - 1) : CutShort(f)
  BY <1>2 DEF KeptFor
<1>5. s = nthfile
  <2> SUFFICES ASSUME s # nthfile PROVE FALSE
    OBVIOUS
  <2>1. s \in s .. (nthfile - 1) /\ s \in Files
    BY <1>3, <1>4 DEF Files
  <2>. QED
    BY <1>1, <1>4, <2>1
<1>. QED
  BY <1>1, <1>2, <1>3, <1>4, <1>5
-----------------------------------------------------------------------------
(***************************************************************************)
(* With -N, at most a buffer is read beyond the stated length.             *)
(***************************************************************************)

\* A percentage below 100 means that the length is not reached.
LEMMA BelowHundred ==
  ASSUME NEW rd \in Nat, NEW length \in Nat \ {0}, (rd * 100) \div length < 100
  PROVE  rd < length
<1> DEFINE q == (rd * 100) \div length
<1>1. q \in Int /\ rd * 100 < (q + 1) * length
  OBVIOUS
<1>2. (q + 1) * length <= 100 * length
  <2>1. q + 1 <= 100
    BY <1>1
  <2> HIDE DEF q
  <2>2. \A a, b, c \in Int : a <= b /\ c >= 0 => a * c <= b * c
    OBVIOUS
  <2>. QED
    BY <1>1, <2>1, <2>2
<1>3. (q + 1) * length \in Int
  BY <1>1
<1> HIDE DEF q
<1>. QED
  BY <1>1, <1>2, <1>3

LEMMA ShortOfLength ==
  ASSUME NEW rd \in Nat, NEW length \in Nat \ {0}, Percent(rd, length) < 100
  PROVE  rd < length
<1> DEFINE p == (rd * 100) \div length
<1>1. (IF length > 0 THEN length ELSE 1) = length /\ ~ (length < 0)
  OBVIOUS
<1>2. Percent(rd, length) = IF cfg.noOverrun /\ p = 100 /\ rd < length THEN p - 1 ELSE p
  BY <1>1 DEF Percent
<1>3. CASE p < 100
  BY <1>3, BelowHundred
<1>4. CASE ~ (p < 100)
  <2> HIDE DEF p
  <2>. QED
    BY <1>2, <1>4
<1>. QED
  BY <1>3, <1>4

\* operate_on_lines() counts at most the bytes of its buffer.
LEMMA UnitsBound ==
  ASSUME NEW s, NEW p \in Int, NEW m \in Nat
  PROVE  Units(s, p, m) <= m
<1>1. CASE ~ cfg.lineMode
  BY <1>1 DEF Units
<1>2. CASE cfg.lineMode
  <2> DEFINE B == (p + 1) .. (p + m)
             S == {i \in B : /\ cfg.kinds[s][i] = "nl"
                             /\ \A j \in (p + 1) .. i : cfg.kinds[s][j] # "nul"}
  <2>1. IsFiniteSet(B) /\ Cardinality(B) = m
    BY FS_Interval
  <2>2. S \subseteq B
    OBVIOUS
  <2>3. Cardinality(S) <= m
    BY <2>1, <2>2, FS_Subset
  <2>. QED
    BY <1>2, <2>3 DEF Units
<1>. QED
  BY <1>1, <1>2

\* The length of file f says where to stop.
Stated(f) == cfg.length[f] >= 0 /\ ~ (cfg.lineMode /\ cfg.length[f] = 0)

\* The inductive invariant: a file not yet started counts nothing, and while a
\* file is to go on it is short of its length.
StopInv ==
  /\ read \in [Files -> Nat]
  /\ pc = "idle" => \A f \in Files : read[f] = 0
  /\ pc \in {"head", "while"} => \A f \in Files : f > nthfile => read[f] = 0
  /\ cfg.noOverrun /\ pc = "while" /\ keepGoing /\ Stated(nthfile) =>
       read[nthfile] < Larger(cfg.length[nthfile], 1)
  /\ StopsWithinBuffer

LEMMA StopInit == TInit => StopInv
<1> SUFFICES ASSUME TInit PROVE StopInv
  OBVIOUS
<1>1. cfg \in Configs /\ pc = "idle" /\ read = [f \in Files |-> 0]
  BY DEF TInit, Init
<1>2. \A f \in Files : cfg.length[f] \in Nat \cup {-1}
  BY <1>1, InvocationsAssumption DEF InvocationOK, Files
<1>3. StopsWithinBuffer
  BY <1>1, <1>2, BufSizeAssumption DEF StopsWithinBuffer, Larger
<1>. QED
  BY <1>1, <1>3 DEF StopInv

\* The heart of it: a buffer read while the file was short of its length.
LEMMA StopRead ==
  ASSUME TypeOK, CountInv, StopInv, InWhile, NEW d, KnownTable(d), NEW i,
         NEW m \in 1 .. BufSize, ReadData(d, i, m)
  PROVE  StopInv'
<1> DEFINE s == SourceOf(d, i)
           u == Units(s, pos[s], m)
           rd == read[nthfile] + u
           L == cfg.length[nthfile]
<1>1. nthfile \in Files /\ cfg \in Configs /\ ~ cfg.test /\ pc = "while" /\ keepGoing
  BY InvocationsAssumption DEF CountInv, InWhile, TypeOK, InvocationOK
<1>2. \A f \in Files : cfg.length[f] \in Nat \cup {-1}
  BY <1>1, InvocationsAssumption DEF InvocationOK, Files
<1>3. m \in Nat /\ m <= BufSize /\ BufSize \in Nat
  BY BufSizeAssumption
<1>4. s \in Files
  BY SourceIsFile DEF ReadData
<1>5. u \in Nat /\ u <= m
  BY <1>3, <1>4, UnitsType, UnitsBound DEF CountInv
<1>6. read[nthfile] \in Nat /\ rd \in Nat
  BY <1>1, <1>5 DEF StopInv
<1>7. read' = [read EXCEPT ![nthfile] = rd]
  BY DEF ReadData
<1>8. Callback(IF DividesByZero THEN 0 ELSE Percent(rd, L), status[nthfile], abort)
  BY DEF ReadData
<1>9. UNCHANGED <<cfg, pc, nthfile>>
  BY <1>8 DEF Callback, flow, walk
<1>10. /\ read' \in [Files' -> Nat] /\ read'[nthfile] = rd
       /\ \A f \in Files : f # nthfile => read'[f] = read[f]
  BY <1>1, <1>6, <1>7, <1>9 DEF StopInv, Files
<1>11. cfg.noOverrun /\ Stated(nthfile) => rd < Larger(L, 1) + BufSize
  <2>1. cfg.noOverrun /\ Stated(nthfile) => read[nthfile] < Larger(L, 1)
    BY <1>1 DEF StopInv
  <2>. QED
    BY <1>1, <1>2, <1>3, <1>5, <1>6, <2>1 DEF Larger
<1>12. StopsWithinBuffer'
  BY <1>9, <1>10, <1>11 DEF StopInv, StopsWithinBuffer, Stated, Files
<1>13. ASSUME cfg.noOverrun, keepGoing', Stated(nthfile) PROVE rd < Larger(L, 1)
  <2>1. ~ DividesByZero
    BY <1>13 DEF Stated, DividesByZero
  <2>2. Percent(rd, L) < 100
    BY <1>8, <1>13, <2>1 DEF Callback, AfterCallback
  <2>3. L \in Nat
    BY <1>1, <1>2, <1>13 DEF Stated
  <2>4. CASE L = 0
    <3>1. (rd * 100) \div 1 = rd * 100
      BY <1>6
    <3>2. rd = 0 \/ rd >= 1
      BY <1>6
    <3>. QED
      BY <1>6, <2>2, <2>4, <3>1, <3>2 DEF Percent, Larger
  <2>5. CASE L > 0
    <3>1. rd < L
      BY <1>6, <2>2, <2>3, <2>5, ShortOfLength
    <3>. QED
      BY <2>3, <2>5, <3>1 DEF Larger
  <2>. QED
    BY <2>3, <2>4, <2>5
<1>14. \A f \in Files : f > nthfile => read'[f] = 0
  BY <1>1, <1>10 DEF StopInv, Files
<1>. QED
  BY <1>1, <1>9, <1>10, <1>12, <1>13, <1>14 DEF StopInv, Stated, Files

LEMMA StopStep == TypeOK /\ CountInv /\ StopInv /\ [TNext]_tvars => StopInv'
<1> SUFFICES ASSUME TypeOK, CountInv, StopInv, [TNext]_tvars PROVE StopInv'
  OBVIOUS
<1>0. cfg \in Configs /\ cfg.n \in Nat /\ nthfile \in 0 .. cfg.n
  BY ConfigsAssumption DEF TypeOK, ConfigOK
<1>a. ASSUME UNCHANGED <<cfg, nthfile, read>>, pc' # "idle",
             pc' \in {"head", "while"} => pc \in {"head", "while"},
             pc' = "while" /\ keepGoing' => pc = "while" /\ keepGoing
      PROVE  StopInv'
  BY <1>a DEF StopInv, StopsWithinBuffer, Stated, Files
<1>c. ASSUME UNCHANGED <<cfg, pc, nthfile, keepGoing, read>> PROVE StopInv'
  BY <1>c DEF StopInv, StopsWithinBuffer, Stated, Files
<1>b. ASSUME pc = "head", NextFile, UNCHANGED <<cfg, read>>, pc' # "idle" PROVE StopInv'
  <2>1. nthfile' = nthfile + 1 /\ nthfile' \in Files
    BY <1>0, <1>b DEF NextFile, Files
  <2>2. \A f \in Files : f > nthfile => read[f] = 0
    BY <1>b DEF StopInv
  <2>3. read[nthfile'] = 0
    BY <1>0, <2>1, <2>2
  <2>4. cfg.length[nthfile'] \in Int
    BY <1>0, <2>1, InvocationsAssumption DEF InvocationOK, Files
  <2>5. read[nthfile'] < Larger(cfg.length[nthfile'], 1)
    BY <2>3, <2>4 DEF Larger
  <2>6. \A f \in Files : f > nthfile' => read[f] = 0
    BY <1>0, <2>1, <2>2 DEF Files
  <2>. QED
    BY <1>b, <2>5, <2>6 DEF StopInv, StopsWithinBuffer, Stated, Files
<1>1. CASE TCall
  <2>1. /\ pc = "idle" /\ pc' = "head" /\ nthfile' = 0 /\ UNCHANGED <<cfg, read>>
    BY <1>1 DEF TCall, Call
  <2>. QED
    BY <2>1 DEF StopInv, StopsWithinBuffer, Stated, Files
<1>2. CASE TOpenNothing \/ TOpenFile \/ TSpawn \/ TOpenFileFails
  BY <1>2, <1>b DEF TOpenNothing, TOpenFile, TSpawn, TOpenFileFails, UnchangedData, HeadOpen,
     HeadOpenFails, NextFile
<1>3. CASE TSpawnDies \/ TActionDies
  BY <1>3, <1>c DEF TSpawnDies, TActionDies, loopVars, flow, walk, file
<1>4. CASE TAction
  <2>1. InWhile
    BY <1>4 DEF TAction
  <2>2. ASSUME NEW p, NEW st, Callback(p, st, abort), UNCHANGED read PROVE StopInv'
    BY <2>1, <2>2, <1>a DEF Callback, InWhile, flow, walk
  <2>3. ASSUME NEW o \in Opened, NEW m \in 1 .. BufSize, ReadData(o.table, o.fd, m)
        PROVE  StopInv'
    BY <2>1, <2>3, OpenedKnown, StopRead
  <2>. QED
    BY <1>4, <2>2, <2>3 DEF TAction, OpenSourceFails, ReadEnds, dataVars
<1>5. CASE TFileEnd
  BY <1>5, <1>a DEF TFileEnd, FileEnd, UnchangedData
<1>6. CASE TOtherwise
  BY <1>6, <1>a, <1>b DEF TOtherwise, HeadInterrupted, NextFile, ListEnd, Finish, dataVars, walk
<1>7. CASE TInterrupt
  BY <1>7, <1>c DEF TInterrupt, Interrupt, dataVars, loopVars, flow, walk, file
<1>8. CASE UNCHANGED tvars
  BY <1>8, <1>c DEF tvars, dataVars, loopVars, flow, walk, file
<1>. QED
  BY <1>1, <1>2, <1>3, <1>4, <1>5, <1>6, <1>7, <1>8 DEF TNext, TStep

\* With -N no more than one buffer is read beyond the stated length, in bytes
\* and in lines, for every length, every input and every size of the buffer.
THEOREM OneBufferBeyond == TSpec => []StopsWithinBuffer
<1>1. StopInv => StopsWithinBuffer
  BY DEF StopInv
<1>2. TSpec => []TypeOK
  BY TransferIsClient, AnyClient, PTL
<1>. QED
  BY <1>1, <1>2, CountInit, TransferStep, StopInit, StopStep, PTL DEF TSpec
-----------------------------------------------------------------------------
(***************************************************************************)
(* What an output receives is a prefix of its source.                      *)
(***************************************************************************)

\* No file may be read from the source of another.
KeepsApart == ~ MayCut

LEMMA SameSource ==
  ASSUME TypeOK, CountInv, SourceInv, alive, InWhile, KeepsApart, NEW o \in Opened,
         SourceOf(o.table, o.fd) # 0
  PROVE  SourceOf(o.table, o.fd) = nthfile
<1>1. CASE ~ cfg.multiple
  <2>1. cfg.n = 1
    BY <1>1, InvocationsAssumption DEF TypeOK, InvocationOK
  <2>2. SourceOf(o.table, o.fd) \in 1 .. 1 /\ nthfile \in 1 .. 1
    BY <2>1, OpenedKnown, SourceIsFile DEF CountInv, InWhile, Files
  <2>. QED
    BY <2>2
<1>2. CASE cfg.multiple
  <2>1. CASE fd >= 0
    <3>1. fd \in Fds /\ desc[fd] = Source(nthfile)
      BY <1>2, <2>1 DEF SourceInv, InWhile, KeepsApart
    <3>2. o.table = desc /\ o.fd = fd
      BY <2>1 DEF Opened
    <3>. QED
      BY <3>1, <3>2 DEF SourceOf, Source, Desc
  <2>2. CASE ~ (fd >= 0)
    <3>1. o \in {[table |-> [desc EXCEPT ![i] = Source(nthfile)], fd |-> i] :
                    i \in {j \in LowestFree : cfg.openable[nthfile]}}
      BY <1>2, <2>2, Zenon DEF Opened
    <3>2. PICK i \in LowestFree :
               o = [table |-> [desc EXCEPT ![i] = Source(nthfile)], fd |-> i]
      BY <3>1, Zenon
    <3>3. o.table = [desc EXCEPT ![i] = Source(nthfile)] /\ o.fd = i
      BY <3>2
    <3>4. i \in Fds /\ o.table[i] = Source(nthfile)
      BY <3>3 DEF LowestFree, IsLowestFree, CountInv, KnownTable
    <3>. QED
      BY <3>3, <3>4 DEF SourceOf, Source, Desc
  <2>. QED
    BY <2>1, <2>2
<1>. QED
  BY <1>1, <1>2

\* A write in the middle or at the end of an output.
LEMMA OverwriteIs ==
  ASSUME NEW old \in Seq(Tokens), NEW p \in Nat, p <= Len(old), NEW data \in Seq(Tokens)
  PROVE  /\ Overwrite(old, p, data) \in Seq(Tokens)
         /\ Len(Overwrite(old, p, data)) = Larger(p + Len(data), Len(old))
         /\ \A i \in 1 .. Larger(p + Len(data), Len(old)) :
               Overwrite(old, p, data)[i] =
                   IF i > p /\ i <= p + Len(data) THEN data[i - p] ELSE old[i]
<1> DEFINE n == Larger(p + Len(data), Len(old))
           v(i) == IF i > p /\ i <= p + Len(data) THEN data[i - p] ELSE old[i]
<1>1. n \in Nat
  BY DEF Larger
<1>2. ASSUME NEW i \in 1 .. n PROVE v(i) \in Tokens
  <2>1. CASE i > p /\ i <= p + Len(data)
    BY <2>1
  <2>2. CASE ~ (i > p /\ i <= p + Len(data))
    BY <2>2 DEF Larger
  <2>. QED
    BY <2>1, <2>2
<1>3. Overwrite(old, p, data) = [i \in 1 .. n |-> v(i)]
  BY DEF Overwrite
<1> HIDE DEF n, v
<1>4. [i \in 1 .. n |-> v(i)] \in Seq(Tokens)
  BY <1>1, <1>2
<1>5. Len([i \in 1 .. n |-> v(i)]) = n
  BY <1>1
<1>. QED
  BY <1>3, <1>4, <1>5 DEF n, v

\* The part of source f after its first q tokens.
LEMMA ChunkIs ==
  ASSUME NEW f \in Files, NEW w \in Nat, pos[f] \in Nat, Size(f) \in Nat, pos[f] + w <= Size(f)
  PROVE  /\ Chunk(f, w) \in Seq(Tokens) /\ Len(Chunk(f, w)) = w
         /\ \A i \in 1 .. w : Chunk(f, w)[i] = Token(f, pos[f] + i)
<1>1. \A i : Token(f, i) = [src |-> f, at |-> i]
  BY DEF Token
<1>2. \A i \in Nat : Token(f, i) \in Tokens
  BY <1>1 DEF Tokens, Files
<1>3. Src(f) \in Seq(Tokens) /\ Len(Src(f)) = Size(f)
      /\ \A i \in 1 .. Size(f) : Src(f)[i] = Token(f, i)
  BY <1>2 DEF Src
<1> DEFINE a == pos[f] + 1
           b == pos[f] + w
<1>4. a \in Int /\ b \in Int /\ \A i \in a .. b : i \in 1 .. Size(f)
  OBVIOUS
<1>5. \A i \in a .. b : Src(f)[i] \in Tokens
  BY <1>3, <1>4
<1>6. /\ SubSeq(Src(f), a, b) \in Seq(Tokens)
      /\ Len(SubSeq(Src(f), a, b)) = IF a <= b THEN b - a + 1 ELSE 0
      /\ \A i \in 1 .. (b - a + 1) : SubSeq(Src(f), a, b)[i] = Src(f)[a + i - 1]
  <2> HIDE DEF a, b
  <2>. QED
    BY <1>4, <1>5, SubSeqProperties
<1>7. /\ (IF a <= b THEN b - a + 1 ELSE 0) = w /\ b - a + 1 = w
      /\ \A i \in 1 .. w : a + i - 1 = pos[f] + i /\ pos[f] + i \in 1 .. Size(f)
  OBVIOUS
<1>8. Chunk(f, w) = SubSeq(Src(f), a, b)
  BY DEF Chunk
<1> HIDE DEF a, b
<1>. QED
  BY <1>3, <1>6, <1>7, <1>8

\* No other file is written to the output of file f.
OwnSink(f) == \A g \in Files : cfg.sink[g] = cfg.sink[f] => g = f

\* The inductive invariant.  Nothing is written of a file before its turn; what
\* was written is the beginning of what was read; and when a write fell short,
\* there is no room left to continue behind the gap.
Received(f) ==
  /\ outpos[f] <= pos[f] /\ pos[f] <= Size(f)
  /\ outpos[f] <= Len(out[cfg.sink[f]])
  /\ OwnSink(f) => \A i \in 1 .. outpos[f] : out[cfg.sink[f]][i] = Token(f, i)

InStep(f) ==
  \/ outpos[f] = pos[f]
  \/ cfg.output = "FILE" /\ free = 0 /\ Len(out[cfg.sink[f]]) = outpos[f]

DataTypes ==
  /\ out \in [Files -> Seq(Tokens)] /\ free \in Nat
  /\ pos \in [Files -> Nat] /\ outpos \in [Files -> Nat]
  /\ outfd \in Int

DataInv ==
  /\ DataTypes
  /\ \A f \in Files : Received(f)
  /\ pc = "idle" => \A f \in Files : pos[f] = 0 /\ outpos[f] = 0
  /\ pc \in {"head", "while"} => \A f \in Files : f > nthfile => pos[f] = 0 /\ outpos[f] = 0
  /\ pc = "while" /\ outfd >= 0 => InStep(nthfile)

\* The invocation's parts, for the current arguments.
LEMMA Invoked ==
  ASSUME TypeOK
  PROVE  /\ cfg.n \in Nat /\ cfg.space \in Nat /\ cfg.stale \in Nat
         /\ \A f \in Files : cfg.sink[f] \in Files /\ Size(f) \in Nat
<1>1. InvocationOK(cfg)
  BY InvocationsAssumption DEF TypeOK
<1>2. cfg.n \in Nat /\ cfg.space \in Nat /\ cfg.stale \in Nat
  BY <1>1 DEF InvocationOK, ConfigOK
<1>3. cfg.sink \in [Files -> Files]
  BY <1>1 DEF InvocationOK, Files
<1>4. cfg.kinds \in [Files -> Seq(Kind)]
  BY <1>1 DEF InvocationOK, Files
<1>. QED
  BY <1>2, <1>3, <1>4 DEF Size

LEMMA DataInit == TInit => DataInv
<1> SUFFICES ASSUME TInit PROVE DataInv
  OBVIOUS
<1>0. TypeOK
  BY TypeInit DEF TInit
<1>1. /\ pos = [f \in Files |-> 0] /\ outpos = [f \in Files |-> 0] /\ free = cfg.space
      /\ pc = "idle"
      /\ out = [f \in Files |-> IF cfg.output = "FILE" THEN [i \in 1 .. cfg.stale |-> Stale(i)]
                                                       ELSE << >>]
  BY DEF TInit, Init
<1>2. [i \in 1 .. cfg.stale |-> Stale(i)] \in Seq(Tokens)
  <2>1. \A i \in 1 .. cfg.stale : Stale(i) \in Tokens
    BY <1>0, Invoked DEF Stale, Tokens
  <2>. QED
    BY <1>0, <2>1, Invoked
<1>3. << >> \in Seq(Tokens)
  OBVIOUS
<1>4. out \in [Files -> Seq(Tokens)]
  BY <1>1, <1>2, <1>3
<1>5. DataTypes
  BY <1>0, <1>1, <1>4, Invoked DEF DataTypes, TInit
<1>6. ASSUME NEW f \in Files PROVE Received(f)
  <2>1. Len(out[cfg.sink[f]]) \in Nat
    BY <1>0, <1>4, Invoked
  <2>. QED
    BY <1>0, <1>1, <2>1, Invoked DEF Received
<1>. QED
  BY <1>1, <1>5, <1>6 DEF DataInv

\* How much write(2) takes.
LEMMA RoomIs ==
  ASSUME NEW g, NEW p \in Nat, NEW m \in Nat, free \in Nat, Len(out[g]) \in Nat, p <= Len(out[g])
  PROVE  /\ RoomFor(g, p, m) \in Nat /\ RoomFor(g, p, m) <= m
         /\ cfg.output = "FILE" => RoomFor(g, p, m) <= free + Len(out[g]) - p
         /\ RoomFor(g, p, m) < m =>
              cfg.output = "FILE" /\ RoomFor(g, p, m) = free + Len(out[g]) - p
<1>1. Larger(Len(out[g]) - p, 0) = Len(out[g]) - p
  BY DEF Larger
<1>. QED
  BY <1>1 DEF RoomFor, Smaller

\* The heart of it: one buffer read from the current file and written.
LEMMA DataRead ==
  ASSUME TypeOK, CountInv, DataInv, InWhile, NEW d, NEW i, NEW m \in 1 .. BufSize,
         SourceOf(d, i) = nthfile, ReadData(d, i, m)
  PROVE  DataInv'
<1> DEFINE f == nthfile
           g == cfg.sink[f]
           p == outpos[f]
           w == RoomFor(g, p, m)
<1>1. f \in Files /\ g \in Files /\ pc = "while" /\ Size(f) \in Nat
  BY Invoked DEF CountInv, InWhile
<1>2. m \in Nat /\ m <= Size(f) - pos[f] /\ (outfd >= 0 => w > 0)
  BY BufSizeAssumption DEF ReadData
<1>3. pos' = [pos EXCEPT ![f] = @ + m] /\ Written(f, m, w)
  BY DEF ReadData
<1>4. UNCHANGED <<cfg, pc, nthfile, outfd>>
  BY DEF ReadData, Callback, flow, walk
<1>5. /\ pos[f] \in Nat /\ p \in Nat /\ free \in Nat /\ out[g] \in Seq(Tokens)
      /\ Len(out[g]) \in Nat
  BY <1>1 DEF DataInv, DataTypes
<1>6. /\ pos' \in [Files -> Nat] /\ pos'[f] = pos[f] + m
      /\ \A h \in Files : h # f => pos'[h] = pos[h]
  BY <1>1, <1>2, <1>3, <1>5 DEF DataInv, DataTypes
<1>7. /\ Received(f)
      /\ p <= pos[f] /\ p <= Len(out[g])
  BY <1>1 DEF DataInv, Received
<1>u. Files' = Files /\ \A h : Size(h)' = Size(h) /\ OwnSink(h)' = OwnSink(h)
  BY <1>4 DEF Files, Size, OwnSink
<1>t. Tokens' = Tokens
  BY <1>4 DEF Tokens
<1>8. CASE outfd < 0
  <2>1. UNCHANGED <<out, outpos, free>>
    BY <1>3, <1>8 DEF Written
  <2>2. DataTypes'
    BY <1>4, <1>6, <1>u, <1>t, <2>1 DEF DataInv, DataTypes
  <2>3. ASSUME NEW h \in Files PROVE Received(h)'
    <3>1. pos'[h] >= pos[h] /\ pos'[h] <= Size(h) /\ outpos[h] \in Nat /\ pos[h] \in Nat
      <4>1. pos[h] \in Nat /\ outpos[h] \in Nat /\ Size(h) \in Nat /\ pos[h] <= Size(h)
        BY Invoked DEF DataInv, DataTypes, Received
      <4>2. h = f => pos[h] + m <= Size(h)
        BY <1>2, <4>1
      <4>. QED
        BY <1>2, <1>6, <4>1, <4>2
    <3>2. Received(h)
      BY DEF DataInv
    <3>. QED
      BY <1>4, <1>6, <1>u, <2>1, <3>1, <3>2 DEF Received, Token
  <2>4. \A h \in Files : h > f => pos'[h] = 0 /\ outpos'[h] = 0
    BY <1>1, <1>6, <2>1 DEF DataInv, Files
  <2>5. ~ (outfd' >= 0)
    BY <1>4, <1>8 DEF DataInv, DataTypes
  <2>. QED
    BY <1>1, <1>4, <1>u, <2>2, <2>3, <2>4, <2>5 DEF DataInv
<1>9. CASE ~ (outfd < 0)
  <2> DEFINE data == Chunk(f, w)
             new == Overwrite(out[g], p, data)
  <2>1. /\ out' = [out EXCEPT ![g] = new]
        /\ free' = IF cfg.output = "FILE" THEN free - (Len(new) - Len(out[g])) ELSE free
        /\ outpos' = [outpos EXCEPT ![f] = @ + w]
    BY <1>3, <1>9 DEF Written, Store
  <2>2. /\ w \in Nat /\ w <= m
        /\ cfg.output = "FILE" => w <= free + Len(out[g]) - p
        /\ w < m => cfg.output = "FILE" /\ w = free + Len(out[g]) - p
    BY <1>2, <1>5, <1>7, RoomIs
  <2>3. p = pos[f]
    <3>1. InStep(f)
      BY <1>1, <1>9 DEF DataInv, DataTypes
    <3>2. w > 0
      BY <1>2, <1>9 DEF DataInv, DataTypes
    <3> HIDE DEF w
    <3>. QED
      BY <1>5, <2>2, <3>1, <3>2 DEF InStep
  <2> HIDE DEF w
  <2>4. /\ data \in Seq(Tokens) /\ Len(data) = w
        /\ \A j \in 1 .. w : data[j] = Token(f, p + j)
    BY <1>1, <1>2, <1>5, <2>2, <2>3, ChunkIs
  <2> HIDE DEF data
  <2>5. /\ new \in Seq(Tokens) /\ Len(new) = Larger(p + w, Len(out[g]))
        /\ \A j \in 1 .. Larger(p + w, Len(out[g])) :
              new[j] = IF j > p /\ j <= p + w THEN data[j - p] ELSE out[g][j]
    <3> HIDE DEF p, g
    <3>0. out[g] \in Seq(Tokens) /\ p \in Nat /\ p <= Len(out[g]) /\ data \in Seq(Tokens)
      BY <1>5, <1>7, <2>4
    <3>1. /\ Overwrite(out[g], p, data) \in Seq(Tokens)
          /\ Len(Overwrite(out[g], p, data)) = Larger(p + Len(data), Len(out[g]))
          /\ \A j \in 1 .. Larger(p + Len(data), Len(out[g])) :
               Overwrite(out[g], p, data)[j] =
                   IF j > p /\ j <= p + Len(data) THEN data[j - p] ELSE out[g][j]
      BY <3>0, OverwriteIs
    <3> HIDE DEF new
    <3>2. new = Overwrite(out[g], p, data)
      BY DEF new
    <3>. QED
      BY <2>4, <3>1, <3>2
  <2> HIDE DEF new
  <2>6. Len(new) >= Len(out[g]) /\ Len(new) >= p + w /\ Len(new) \in Nat
    BY <1>5, <2>2, <2>5 DEF Larger
  <2>7. free' \in Nat
    <3> HIDE DEF p, g
    <3>1. Len(new) = p + w \/ Len(new) = Len(out[g])
      BY <2>5 DEF Larger
    <3>2. cfg.output = "FILE" => Len(new) - Len(out[g]) <= free
      BY <1>5, <2>2, <3>1
    <3>. QED
      BY <1>5, <2>1, <2>6, <3>2
  <2>8. /\ outpos' \in [Files -> Nat] /\ outpos'[f] = p + w
        /\ \A h \in Files : h # f => outpos'[h] = outpos[h]
    BY <1>1, <1>5, <2>1, <2>2 DEF DataInv, DataTypes
  <2>9. /\ out' \in [Files -> Seq(Tokens)] /\ out'[g] = new
        /\ \A h \in Files : h # g => out'[h] = out[h]
    BY <1>1, <2>1, <2>5 DEF DataInv, DataTypes
  <2>10. DataTypes'
    BY <1>4, <1>6, <1>u, <1>t, <2>7, <2>8, <2>9 DEF DataInv, DataTypes
  <2>11. Received(f)'
    <3>1. /\ outpos'[f] = p + w /\ pos'[f] = p + m /\ p + w <= p + m /\ p + m <= Size(f)
          /\ p + w <= Len(out'[g])
      <4>1. pos'[f] = p + m
        BY <1>6, <2>3
      <4>2. p + m <= Size(f)
        BY <1>1, <1>2, <1>5, <2>3
      <4>3. p + w <= p + m
        BY <1>2, <1>5, <2>2
      <4>. QED
        BY <2>6, <2>8, <2>9, <4>1, <4>2, <4>3
    <3>2. ASSUME OwnSink(f), NEW j \in 1 .. (p + w) PROVE new[j] = Token(f, j)
      <4>1. j \in 1 .. Larger(p + w, Len(out[g]))
        BY <1>5, <2>2 DEF Larger
      <4>2. CASE j > p
        <5>1. j - p \in 1 .. w /\ p + (j - p) = j
          BY <1>5, <2>2, <4>2
        <5>. QED
          BY <2>4, <2>5, <4>1, <4>2, <5>1
      <4>3. CASE ~ (j > p)
        <5>1. j \in 1 .. p
          BY <1>5, <4>3
        <5>2. out[g][j] = Token(f, j)
          BY <1>7, <3>2, <5>1 DEF Received
        <5>. QED
          BY <2>5, <4>1, <4>3, <5>2
      <4>. QED
        BY <4>2, <4>3
    <3>. QED
      BY <1>4, <1>u, <2>9, <3>1, <3>2 DEF Received, Token
  <2>12. ASSUME NEW h \in Files, h # f PROVE Received(h)'
    <3>1. Received(h) /\ UNCHANGED <<outpos[h], pos[h]>> /\ cfg.sink[h] \in Files
      BY <1>6, <2>8, <2>12, Invoked DEF DataInv
    <3>2. CASE cfg.sink[h] = g
      <4>1. ~ OwnSink(h)
        BY <1>1, <2>12, <3>2 DEF OwnSink
      <4>2. outpos[h] <= Len(new)
        <5>1. outpos[h] \in Nat /\ outpos[h] <= Len(out[g])
          BY <3>1, <3>2 DEF Received, DataInv, DataTypes
        <5>. QED
          BY <1>5, <2>6, <5>1
      <4>. QED
        BY <1>4, <1>u, <2>9, <3>1, <3>2, <4>1, <4>2 DEF Received
    <3>3. CASE cfg.sink[h] # g
      BY <1>4, <1>u, <2>9, <3>1, <3>3 DEF Received, Token
    <3>. QED
      BY <3>2, <3>3
  <2>13. \A h \in Files : h > f => pos'[h] = 0 /\ outpos'[h] = 0
    BY <1>1, <1>6, <2>8 DEF DataInv, Files
  <2>14. InStep(f)'
    <3>1. CASE w = m
      BY <1>4, <1>6, <2>3, <2>8, <3>1 DEF InStep
    <3>2. CASE w < m
      <4>1. cfg.output = "FILE" /\ w = free + Len(out[g]) - p
        BY <2>2, <3>2
      <4>2. Len(new) = p + w /\ free - (Len(new) - Len(out[g])) = 0
        <5> HIDE DEF p, g
        <5>1. Len(new) = p + w
          BY <1>5, <1>7, <2>2, <2>5, <4>1 DEF Larger
        <5>. QED
          BY <1>5, <2>2, <4>1, <5>1
      <4>. QED
        BY <1>4, <2>1, <2>8, <2>9, <4>1, <4>2 DEF InStep
    <3>. QED
      BY <1>2, <2>2, <3>1, <3>2
  <2>. QED
    BY <1>1, <1>4, <1>u, <2>10, <2>11, <2>12, <2>13, <2>14 DEF DataInv
<1>. QED
  BY <1>8, <1>9
LEMMA DataStep ==
  TypeOK /\ CountInv /\ SourceInv /\ KeepsApart /\ DataInv /\ [TNext]_tvars => DataInv'
<1> SUFFICES ASSUME TypeOK, CountInv, SourceInv, KeepsApart, DataInv, [TNext]_tvars
             PROVE  DataInv'
  OBVIOUS
<1>0. cfg.n \in Nat /\ nthfile \in 0 .. cfg.n
  BY Invoked DEF TypeOK
<1>a. ASSUME UNCHANGED <<cfg, pos, out, outpos, free>>, outfd' \in Int
      PROVE  DataTypes' /\ \A f \in Files' : Received(f)'
  BY <1>a DEF DataInv, DataTypes, Tokens, Received, OwnSink, Size, Token, Files
<1>b. ASSUME UNCHANGED <<cfg, nthfile, pos, out, outpos, free, outfd>>, pc' # "idle",
             pc' \in {"head", "while"} => pc \in {"head", "while"},
             pc' = "while" => pc = "while"
      PROVE  DataInv'
  BY <1>a, <1>b DEF DataInv, DataTypes, InStep, Files
<1>c. ASSUME pc = "head", NextFile, UNCHANGED <<cfg, pos, out, outpos, free>>, pc' # "idle",
             outfd' \in Int
      PROVE  DataInv'
  <2>1. nthfile' = nthfile + 1 /\ nthfile' \in Files
    BY <1>0, <1>c DEF NextFile, Files
  <2>2. \A f \in Files : f > nthfile => pos[f] = 0 /\ outpos[f] = 0
    BY <1>c DEF DataInv
  <2>3. InStep(nthfile)'
    BY <1>0, <1>c, <2>1, <2>2 DEF InStep
  <2>4. \A f \in Files : f > nthfile' => pos[f] = 0 /\ outpos[f] = 0
    BY <1>0, <2>1, <2>2 DEF Files
  <2>. QED
    BY <1>a, <1>c, <2>3, <2>4 DEF DataInv, Files
<1>i. outfd \in Int /\ -1 \in Int /\ \A i \in Fds : i \in Int
  BY MaxFdAssumption DEF DataInv, DataTypes, Fds
<1>1. CASE TCall
  <2>1. /\ pc = "idle" /\ pc' = "head" /\ UNCHANGED <<cfg, pos, out, outpos, free, outfd>>
    BY <1>1 DEF TCall, Call
  <2>. QED
    BY <1>a, <1>i, <2>1 DEF DataInv, Files
<1>2. CASE TOpenNothing \/ TOpenFile \/ TSpawn \/ TOpenFileFails
  <2>1. /\ pc = "head" /\ NextFile /\ pc' # "idle" /\ UNCHANGED <<cfg, pos, out, outpos, free>>
    BY <1>2 DEF TOpenNothing, TOpenFile, TSpawn, TOpenFileFails, UnchangedData, HeadOpen,
       HeadOpenFails, NextFile
  <2>2. outfd' \in Int
    BY <1>2, <1>i DEF TOpenNothing, TOpenFile, TSpawn, TOpenFileFails
  <2>. QED
    BY <1>c, <2>1, <2>2
<1>3. CASE TSpawnDies \/ TActionDies
  <2>1. UNCHANGED <<cfg, pc, nthfile, pos, out, outpos, free, outfd>>
    BY <1>3 DEF TSpawnDies, TActionDies, loopVars, flow, walk
  <2>. QED
    BY <1>a, <1>i, <2>1 DEF DataInv, InStep, Files
<1>4. CASE TAction /\ alive
  <2>1. InWhile
    BY <1>4 DEF TAction
  <2>2. ASSUME NEW p, NEW st, Callback(p, st, abort), UNCHANGED <<pos, out, outpos, free, outfd>>
        PROVE  DataInv'
    BY <2>1, <2>2, <1>b DEF Callback, InWhile, flow, walk
  <2>3. ASSUME NEW o \in Opened, NEW m \in 1 .. BufSize, ReadData(o.table, o.fd, m)
        PROVE  DataInv'
    <3>1. SourceOf(o.table, o.fd) = nthfile
      BY <1>4, <2>1, <2>3, SameSource DEF ReadData
    <3>. QED
      BY <2>1, <2>3, <3>1, DataRead
  <2>4. CASE OpenSourceFails
    BY <2>2, <2>4 DEF OpenSourceFails, dataVars
  <2>5. ASSUME NEW o \in Opened, ReadEnds(o.table, o.fd) PROVE DataInv'
    BY <2>2, <2>5 DEF ReadEnds
  <2>. QED
    BY <1>4, <2>3, <2>4, <2>5 DEF TAction
<1>5. CASE TFileEnd
  <2>1. /\ pc = "while" /\ pc' \in {"head", "finish"} /\ outfd' = -1
        /\ UNCHANGED <<cfg, nthfile, pos, out, outpos, free>>
    BY <1>5 DEF TFileEnd, FileEnd, UnchangedData
  <2>. QED
    BY <1>a, <1>i, <2>1 DEF DataInv, Files
<1>6. CASE TOtherwise
  <2>1. UNCHANGED <<cfg, pos, out, outpos, free, outfd>>
    BY <1>6 DEF TOtherwise, dataVars, HeadInterrupted, ListEnd, Finish
  <2>2. CASE HeadInterrupted
    BY <1>c, <1>i, <2>1, <2>2 DEF HeadInterrupted, NextFile
  <2>3. CASE ListEnd \/ Finish
    BY <1>b, <2>1, <2>3 DEF ListEnd, Finish, walk
  <2>. QED
    BY <1>6, <2>2, <2>3 DEF TOtherwise
<1>7. CASE TInterrupt \/ UNCHANGED tvars
  <2>1. UNCHANGED <<cfg, pc, nthfile, pos, out, outpos, free, outfd>>
    BY <1>7 DEF TInterrupt, Interrupt, tvars, dataVars, loopVars, flow, walk
  <2>. QED
    BY <1>a, <1>i, <2>1 DEF DataInv, InStep, Files
<1>. QED
  BY <1>1, <1>2, <1>3, <1>4, <1>5, <1>6, <1>7 DEF TNext, TStep

\* The arguments do not change.
LEMMA ApartStep == CountInv /\ TypeOK /\ KeepsApart' /\ [TNext]_tvars => KeepsApart
<1> SUFFICES ASSUME [AnyNext]_loopVars, KeepsApart' PROVE KeepsApart
  BY TransferStep
<1>. QED
  BY ClientIsAny DEF KeepsApart, AnyNext, AnyCallback, Next, Loop, CallEmpty, Call,
     HeadInterrupted, HeadOpen, HeadOpenFails, ListEnd, Callback, TestCallback, FileEnd,
     Finish, ResetGlobals, Interrupt, loopVars, MayCut, Files

\* What an output holds of its source, in the words of the property.
LEMMA PrefixDelivered ==
  ASSUME TypeOK, DataInv, NEW f \in Files, OwnSink(f)
  PROVE  /\ outpos[f] <= Size(f)
         /\ Delivered(f) = SubSeq(Src(f), 1, Len(Delivered(f)))
<1>1. /\ pos[f] \in Nat /\ outpos[f] \in Nat /\ Size(f) \in Nat
      /\ outpos[f] <= pos[f] /\ pos[f] <= Size(f) /\ outpos[f] <= Len(out[cfg.sink[f]])
      /\ \A i \in 1 .. outpos[f] : out[cfg.sink[f]][i] = Token(f, i)
  BY Invoked DEF DataInv, DataTypes, Received
<1>2. \A i \in 1 .. Size(f) : Src(f)[i] = Token(f, i)
  BY DEF Src
<1>3. \A n \in Nat : \A t : Len(SubSeq(t, 1, n)) = n /\ SubSeq(t, 1, n) = [i \in 1 .. n |-> t[i]]
  OBVIOUS
<1>4. CASE cfg.output = "NONE"
  BY <1>1, <1>3, <1>4 DEF Delivered
<1>5. CASE cfg.output # "NONE"
  <2> DEFINE q == outpos[f]
             t == out[cfg.sink[f]]
  <2>1. Delivered(f) = SubSeq(t, 1, q)
    BY <1>5 DEF Delivered
  <2>2. Len(SubSeq(t, 1, q)) = q /\ SubSeq(t, 1, q) = [i \in 1 .. q |-> t[i]]
        /\ SubSeq(Src(f), 1, q) = [i \in 1 .. q |-> Src(f)[i]]
    BY <1>1, <1>3
  <2>3. \A i \in 1 .. q : i \in 1 .. Size(f) /\ t[i] = Src(f)[i]
    BY <1>1, <1>2
  <2>. QED
    BY <1>1, <2>1, <2>2, <2>3
<1>. QED
  BY <1>1, <1>4, <1>5

\* Whatever disks fill up and reads fail, an output that no other file shares
\* has received a prefix of its source: a short write is never followed by
\* another one behind the gap.
THEOREM OutputIsPrefix == TSpec => []DeliversPrefix
<1>1. /\ (KeepsApart => DataInv) /\ TypeOK /\ CountInv /\ SourceInv /\ [TNext]_tvars
      => (KeepsApart => DataInv)'
  BY ApartStep, DataStep
<1>2. TypeOK /\ (KeepsApart => DataInv) => DeliversPrefix
  BY PrefixDelivered DEF DeliversPrefix, KeepsApart, OwnSink
<1>3. TSpec => []TypeOK /\ []EndedInv
  BY TransferIsClient, AnyClient, PTL
<1>. QED
  BY <1>1, <1>2, <1>3, CountInit, TransferStep, KeptInit, DescriptorStep, KeptStep, SourceIs,
     DataInit, PTL DEF TSpec
-----------------------------------------------------------------------------
(***************************************************************************)
(* With -m, every descriptor goes back but one end of each command's pipe. *)
(***************************************************************************)

\* Opening and closing a descriptor.
LEMMA OpenFinite ==
  ASSUME NEW d PROVE IsFiniteSet(Open(d)) /\ Cardinality(Open(d)) \in Nat
<1>1. IsFiniteSet(Fds)
  BY MaxFdAssumption, FS_Interval DEF Fds
<1>2. Open(d) \subseteq Fds
  BY DEF Open
<1>. QED
  BY <1>1, <1>2, FS_Subset, FS_CardinalityType

LEMMA OpenOne ==
  ASSUME NEW d, KnownTable(d), NEW i \in Fds, d[i] = Closed, NEW x, x # Closed
  PROVE  Cardinality(Open([d EXCEPT ![i] = x])) = Cardinality(Open(d)) + 1
<1>1. Open([d EXCEPT ![i] = x]) = Open(d) \cup {i} /\ i \notin Open(d)
  BY DEF Open, KnownTable
<1>. QED
  BY <1>1, OpenFinite, FS_AddElement

LEMMA CloseOne ==
  ASSUME NEW d, KnownTable(d), NEW i \in Fds, d[i] # Closed
  PROVE  Cardinality(Open([d EXCEPT ![i] = Closed])) = Cardinality(Open(d)) - 1
<1>1. Open([d EXCEPT ![i] = Closed]) = Open(d) \ {i} /\ i \in Open(d)
  BY DEF Open, KnownTable
<1>. QED
  BY <1>1, OpenFinite, FS_RemoveElement

\* The commands started for the first k files.
Started(k) == IF cfg.output = "SHELL" THEN Cardinality({f \in 1 .. k : cfg.outOK[f]}) ELSE 0

LEMMA StartedNext ==
  ASSUME NEW k \in Nat
  PROVE  /\ Started(k) \in Nat /\ Started(0) = 0
         /\ Started(k + 1) = Started(k)
                + (IF cfg.output = "SHELL" /\ cfg.outOK[k + 1] THEN 1 ELSE 0)
<1> DEFINE S(j) == {f \in 1 .. j : cfg.outOK[f]}
<1>1. IsFiniteSet(S(k)) /\ Cardinality(S(k)) \in Nat
  <2>1. IsFiniteSet(1 .. k) /\ S(k) \subseteq 1 .. k
    BY FS_Interval
  <2>. QED
    BY <2>1, FS_Subset, FS_CardinalityType
<1>2. k + 1 \notin S(k)
  OBVIOUS
<1>3. S(k + 1) = IF cfg.outOK[k + 1] THEN S(k) \cup {k + 1} ELSE S(k)
  OBVIOUS
<1>4. Cardinality(S(k) \cup {k + 1}) = Cardinality(S(k)) + 1
  BY <1>1, <1>2, FS_AddElement
<1>5. Cardinality(S(k + 1)) = Cardinality(S(k)) + (IF cfg.outOK[k + 1] THEN 1 ELSE 0)
  BY <1>1, <1>3, <1>4
<1>6. S(0) = {} /\ Cardinality({}) = 0
  BY FS_EmptySet
<1>. QED
  BY <1>1, <1>5, <1>6 DEF Started

\* The process may have as many descriptors as dialog(3) or dialog(1) leaves open.
TableFits == Len(Table(cfg)) <= MaxFd + 1

\* The inductive invariant: what is open besides the table dpv() started from is
\* the source, the output, and an end of the pipe of each command so far.
BackInv ==
  alive /\ cfg.multiple /\ TableFits /\ ~ interrupt =>
    /\ pc \in {"head", "while"} =>
         Cardinality(Open(desc)) = Len(Table(cfg)) + Started(nthfile)
             + (IF pc = "while" /\ outfd >= 0 THEN 1 ELSE 0) + (IF fd >= 0 THEN 1 ELSE 0)
    /\ pc \in {"head", "while"} => desc[0].k \in {"tty", "stdin"}
    /\ pc = "while" /\ outfd >= 0 => outfd \in Fds /\ desc[outfd].k \in {"out", "pipeW"}

LEMMA BackInit == TInit => BackInv
BY DEF TInit, Init, BackInv

\* Descriptor 0 at the start.
LEMMA TableStdin ==
  ASSUME NEW c \in Configs, c.multiple
  PROVE  Len(Table(c)) \in Nat /\ Len(Table(c)) > 0 /\ Table(c)[1].k \in {"tty", "stdin"}
<1>1. Table(c) \in Seq(Known(c.n) \ {Closed})
  BY TableKnown
<1>2. \A a, b, e : a \o b \o e = (a \o b) \o e
  OBVIOUS
<1> DEFINE T == {Other("tty"), Other("stdout"), Other("stderr"), Other("stdin"), Other("devtty"),
                 Other("gaugeR"), Other("gaugeW")}
<1>3. Stdin(c) \in {Other("tty"), Other("stdin")}
  BY DEF Stdin
<1>4. Ttys(c, 1) \in Seq(T) /\ Ttys(c, 5) \in Seq(T)
  <2> HIDE DEF T
  <2>1. Other("devtty") \in T
    BY DEF T
  <2>. QED
    BY <2>1 DEF Ttys
<1>5. \A x, y, z \in T : \A b, e \in Seq(T) :
         Len(<<x, y, z>> \o b \o e) > 0 /\ (<<x, y, z>> \o b \o e)[1] = x
  <2> HIDE DEF T
  <2> TAKE x, y, z \in T
  <2> TAKE b, e \in Seq(T)
  <2>1. <<x, y, z>> \in Seq(T) /\ Len(<<x, y, z>>) = 3 /\ <<x, y, z>>[1] = x
    OBVIOUS
  <2>2. \A u, v \in Seq(T) : Len(u) > 0 => Len(u \o v) > 0 /\ (u \o v)[1] = u[1] /\ u \o v \in Seq(T)
    OBVIOUS
  <2>. QED
    BY <2>1, <2>2
<1>6. /\ << >> \in Seq(T) /\ <<Other("devtty"), Stdin(c)>> \in Seq(T)
      /\ <<Other("gaugeR"), Other("gaugeW")>> \in Seq(T)
  BY <1>3
<1>a. Other("tty") \in T /\ Other("stdout") \in T /\ Other("stderr") \in T /\ Stdin(c) \in T
  BY <1>3
<1> HIDE DEF T
<1>7. Len(InitDialog(c)) > 0 /\ InitDialog(c)[1] = Other("tty")
  <2> DEFINE e == IF c.piped THEN <<Other("devtty"), Stdin(c)>> ELSE << >>
  <2>1. e \in Seq(T)
    BY <1>6
  <2> HIDE DEF e
  <2>2. InitDialog(c) = <<Other("tty"), Other("stdout"), Other("stderr")>> \o Ttys(c, 1) \o e
    BY DEF InitDialog, e
  <2>. QED
    <3>1. \A b, e1 \in Seq(T) :
             LET t == <<Other("tty"), Other("stdout"), Other("stderr")>> \o b \o e1
             IN  Len(t) > 0 /\ t[1] = Other("tty")
      BY <1>a, <1>5
    <3>. QED
      BY <1>4, <2>1, <2>2, <3>1
<1>8. Len(SpawnGauge(c)) > 0 /\ SpawnGauge(c)[1] = Stdin(c)
  <2>1. \A b, e \in Seq(T) :
             LET t == <<Stdin(c), Other("stdout"), Other("stderr")>> \o b \o e
             IN  Len(t) > 0 /\ t[1] = Stdin(c)
    BY <1>a, <1>5
  <2>. QED
    BY <1>4, <1>6, <2>1 DEF SpawnGauge
<1>9. Len(Table(c)) > 0 /\ Table(c)[1] \in {Other("tty"), Other("stdin")}
  BY <1>3, <1>7, <1>8 DEF Table
<1>. QED
  BY <1>1, <1>9, KindsDiffer

LEMMA BackStep ==
  TypeOK /\ CountInv /\ FdIsInt /\ KeptInv /\ BackInv /\ [TNext]_tvars => BackInv'
<1> SUFFICES ASSUME TypeOK, CountInv, FdIsInt, KeptInv, BackInv, [TNext]_tvars,
                    alive', cfg'.multiple, TableFits', ~ interrupt'
             PROVE  BackInv'
  BY DEF BackInv
<1>0. /\ cfg.n \in Nat /\ nthfile \in 0 .. cfg.n /\ nthfile \in Nat /\ fd \in Int
      /\ KnownTable(desc) /\ cfg \in Configs
  BY Invoked DEF TypeOK, FdIsInt, CountInv
<1>t. Started(nthfile) \in Nat /\ Cardinality(Open(desc)) \in Nat
  BY <1>0, StartedNext, OpenFinite
<1>z. 0 \in Fds
  BY MaxFdAssumption DEF Fds
\* Before the loop, between two files, and within one.
<1> DEFINE Cond == alive /\ cfg.multiple /\ TableFits /\ ~ interrupt
           N == Len(Table(cfg)) + Started(nthfile)
<1>h. ASSUME Cond, pc = "head"
      PROVE  /\ Cardinality(Open(desc)) = N + (IF fd >= 0 THEN 1 ELSE 0) /\ N \in Int
             /\ desc[0].k \in {"tty", "stdin"}
  <2>1. Len(Table(cfg)) \in Nat
    BY <1>0, <1>h, TableStdin
  <2>. QED
    BY <1>h, <1>t, <2>1 DEF BackInv
<1>w. ASSUME Cond, pc = "while"
      PROVE  /\ Cardinality(Open(desc)) =
                   N + (IF outfd >= 0 THEN 1 ELSE 0) + (IF fd >= 0 THEN 1 ELSE 0)
             /\ N \in Int
             /\ desc[0].k \in {"tty", "stdin"}
             /\ outfd >= 0 => outfd \in Fds /\ desc[outfd].k \in {"out", "pipeW"}
  <2>1. Len(Table(cfg)) \in Nat
    BY <1>0, <1>w, TableStdin
  <2>. QED
    BY <1>t, <1>w, <2>1 DEF BackInv
<1>1. CASE TCall
  <2>1. /\ pc' = "head" /\ desc' = SetUp(cfg) /\ nthfile' = 0
        /\ UNCHANGED <<cfg, fd, alive, interrupt>> /\ pc = "idle"
    BY <1>1 DEF TCall, Call, flags
  <2>2. ~ (fd >= 0)
    BY <2>1 DEF KeptInv
  <2>3. /\ Len(Table(cfg)) \in Nat /\ Len(Table(cfg)) > 0 /\ Table(cfg)[1].k \in {"tty", "stdin"}
    BY <1>0, <2>1, TableStdin
  <2>4. Len(Table(cfg)) <= MaxFd + 1
    BY <2>1 DEF TableFits
  <2>5. SetUp(cfg)[0].k \in {"tty", "stdin"}
    BY <1>z, <2>3 DEF SetUp
  <2>6. Open(SetUp(cfg)) = 0 .. (Len(Table(cfg)) - 1)
    BY <2>3, <2>4, SetUpKnown, MaxFdAssumption DEF Open, Fds
  <2>7. Cardinality(Open(SetUp(cfg))) = Len(Table(cfg))
    <3> DEFINE n == Len(Table(cfg))
    <3>1. 0 \in Int /\ n - 1 \in Int /\ ~ (0 > n - 1) /\ (n - 1) - 0 + 1 = n
      BY <2>3
    <3>2. Cardinality(0 .. (n - 1)) = n
      <4> HIDE DEF n
      <4>. QED
        BY <3>1, FS_Interval
    <3>. QED
      BY <2>6, <3>2
  <2>8. Started(0)' = 0
    BY StartedNext, <2>1 DEF Started
  <2>. QED
    BY <2>1, <2>2, <2>3, <2>5, <2>7, <2>8 DEF BackInv, Started
<1>2. CASE TOpenNothing \/ TOpenFile \/ TSpawn
  <2>1. /\ pc = "head" /\ pc' = "while" /\ nthfile' = nthfile + 1
        /\ UNCHANGED <<cfg, fd, alive, interrupt>>
    BY <1>2 DEF TOpenNothing, TOpenFile, TSpawn, UnchangedData, HeadOpen, NextFile, flags
  <2>2. Cond
    BY <2>1 DEF TableFits
  <2>3. /\ Cardinality(Open(desc)) = N + (IF fd >= 0 THEN 1 ELSE 0) /\ N \in Int
        /\ desc[0].k \in {"tty", "stdin"}
    BY <1>h, <2>1, <2>2
  <2>4. /\ Started(nthfile)' = Started(nthfile)
                + (IF cfg.output = "SHELL" /\ cfg.outOK[nthfile'] THEN 1 ELSE 0)
        /\ Len(Table(cfg))' = Len(Table(cfg)) /\ Len(Table(cfg)) \in Nat
    BY <1>0, <2>1, <2>2, StartedNext, TableStdin DEF Started
  <2>5. desc[0] # Closed
    BY <2>3, KindsDiffer
  <2>6. CASE TOpenNothing
    <3>1. desc' = desc /\ outfd' = -1 /\ ~ (cfg.output = "SHELL" /\ cfg.outOK[nthfile'])
      BY <2>6 DEF TOpenNothing
    <3>. QED
      BY <1>t, <2>1, <2>3, <2>4, <3>1 DEF BackInv
  <2>7. CASE TOpenFile
    <3>1. PICK i \in Fds : /\ IsLowestFree(desc, i) /\ outfd' = i
                           /\ desc' = [desc EXCEPT ![i] = Other("out")]
      BY <2>7 DEF TOpenFile
    <3>2. cfg.output # "SHELL"
      BY <2>7 DEF TOpenFile
    <3>3. Cardinality(Open(desc')) = Cardinality(Open(desc)) + 1
      BY <1>0, <3>1, OpenOne, KindsDiffer DEF IsLowestFree
    <3>4. outfd' >= 0 /\ outfd' \in Fds /\ desc'[outfd'].k = "out" /\ desc'[0] = desc[0]
      BY <1>0, <1>z, <2>5, <3>1, KindsDiffer, MaxFdAssumption DEF IsLowestFree, KnownTable, Fds
    <3>. QED
      BY <1>t, <2>1, <2>3, <2>4, <3>2, <3>3, <3>4 DEF BackInv
  <2>8. CASE TSpawn
    <3>1. PICK i \in Fds, j \in Fds :
                /\ IsLowestFree(desc, i) /\ IsLowestFree([desc EXCEPT ![i] = Other("pipeR")], j)
                /\ desc' = [desc EXCEPT ![i] = Other("pipeR"), ![j] = Other("pipeW")]
                /\ outfd' = j
      BY <2>8 DEF TSpawn
    <3>2. cfg.output = "SHELL" /\ cfg.outOK[nthfile']
      BY <2>8 DEF TSpawn
    <3> DEFINE d == [desc EXCEPT ![i] = Other("pipeR")]
    <3>3. KnownTable(d)
      <4>1. Other("pipeR") \in Known(cfg.n)
        BY DEF Known, OtherKinds
      <4>. QED
        BY <1>0, <4>1, SetKnown
    <3>4. d[j] = Closed /\ desc' = [d EXCEPT ![j] = Other("pipeW")]
      BY <3>1 DEF IsLowestFree
    <3>5. Cardinality(Open(d)) = Cardinality(Open(desc)) + 1
      BY <1>0, <3>1, OpenOne, KindsDiffer DEF IsLowestFree
    <3>6. d[0] = desc[0]
      BY <1>0, <1>z, <2>5, <3>1 DEF IsLowestFree, KnownTable
    <3> HIDE DEF d
    <3>7. Cardinality(Open(desc')) = Cardinality(Open(d)) + 1
      <4>1. Other("pipeW") # Closed /\ d[j] = Closed
        BY <3>4, KindsDiffer
      <4>2. Cardinality(Open([d EXCEPT ![j] = Other("pipeW")])) = Cardinality(Open(d)) + 1
        BY <3>3, <4>1, OpenOne
      <4>. QED
        BY <3>4, <4>2
    <3>8. outfd' >= 0 /\ outfd' \in Fds /\ desc'[outfd'].k = "pipeW" /\ desc'[0] = desc[0]
      BY <1>z, <2>5, <3>1, <3>3, <3>4, <3>6, KindsDiffer, MaxFdAssumption DEF KnownTable, Fds
    <3>. QED
      BY <1>t, <2>1, <2>3, <2>4, <3>2, <3>5, <3>7, <3>8 DEF BackInv
  <2>. QED
    BY <1>2, <2>6, <2>7, <2>8
<1>3. CASE TOpenFileFails
  BY <1>3 DEF TOpenFileFails, HeadOpenFails, BackInv
<1>4. CASE TSpawnDies \/ TActionDies
  BY <1>4 DEF TSpawnDies, TActionDies
<1>5. CASE TAction /\ alive
  <2>1. InWhile /\ pc = "while"
    BY <1>5 DEF TAction, InWhile
  <2>2. ASSUME NEW p, NEW st, Callback(p, st, abort)
        PROVE  UNCHANGED <<cfg, pc, nthfile, interrupt>> /\ N' = N /\ (TableFits' <=> TableFits)
    BY <2>2 DEF Callback, flow, walk, Started, TableFits
  <2>3. CASE OpenSourceFails
    <3>1. UNCHANGED <<cfg, pc, nthfile, interrupt, desc, fd, outfd, alive>>
      BY <2>2, <2>3 DEF OpenSourceFails, dataVars
    <3>. QED
      BY <3>1 DEF BackInv, Started, TableFits
  <2>4. ASSUME NEW o \in Opened, Cond
        PROVE  /\ KnownTable(o.table) /\ o.fd \in Fds /\ o.fd # 0 /\ o.fd >= 0
               /\ o.table[o.fd].k = "src"
               /\ Cardinality(Open(o.table)) = N + (IF outfd >= 0 THEN 1 ELSE 0) + 1
               /\ o.table[0] = desc[0]
               /\ outfd >= 0 => o.table[outfd] = desc[outfd]
    <3>0. KnownTable(o.table)
      BY <2>1, OpenedKnown
    <3>1. /\ Cardinality(Open(desc)) = N + (IF outfd >= 0 THEN 1 ELSE 0) + (IF fd >= 0 THEN 1 ELSE 0)
          /\ N \in Int /\ desc[0].k \in {"tty", "stdin"}
          /\ outfd >= 0 => outfd \in Fds /\ desc[outfd].k \in {"out", "pipeW"}
      BY <1>w, <2>1, <2>4
    <3>2. CASE fd >= 0
      <4>1. o.table = desc /\ o.fd = fd
        BY <3>2 DEF Opened
      <4>2. fd \in Fds /\ desc[fd].k = "src"
        <5>1. fd \in Fds /\ KeptFor(nthfile)
          BY <2>4, <3>2 DEF KeptInv
        <5>. QED
          BY <5>1, KindsDiffer DEF KeptFor
      <4>3. fd # 0
        BY <3>1, <4>2, KindsDiffer
      <4>. QED
        BY <3>0, <3>1, <3>2, <4>1, <4>2, <4>3
    <3>3. CASE ~ (fd >= 0)
      <4>1. o \in {[table |-> [desc EXCEPT ![i] = Source(nthfile)], fd |-> i] :
                      i \in {j \in LowestFree : cfg.openable[nthfile]}}
        BY <2>4, <3>3, Zenon DEF Opened
      <4>2. PICK i \in LowestFree :
                 o = [table |-> [desc EXCEPT ![i] = Source(nthfile)], fd |-> i]
        BY <4>1, Zenon
      <4>3. o.table = [desc EXCEPT ![i] = Source(nthfile)] /\ o.fd = i
        BY <4>2
      <4>4. i \in Fds /\ desc[i] = Closed /\ i >= 0
        BY MaxFdAssumption DEF LowestFree, IsLowestFree, Fds
      <4>5. i # 0 /\ (outfd >= 0 => i # outfd)
        BY <3>1, <4>4, KindsDiffer
      <4>6. Cardinality(Open(o.table)) = Cardinality(Open(desc)) + 1
        BY <1>0, <4>3, <4>4, OpenOne, KindsDiffer
      <4>7. /\ o.table[i].k = "src" /\ o.table[0] = desc[0]
            /\ outfd >= 0 => o.table[outfd] = desc[outfd]
        BY <1>0, <1>z, <4>3, <4>4, <4>5, KindsDiffer DEF KnownTable
      <4>8. Cardinality(Open(o.table)) = N + (IF outfd >= 0 THEN 1 ELSE 0) + 1
        <5> HIDE DEF N
        <5>. QED
          BY <3>1, <3>3, <4>6
      <4>. QED
        BY <3>0, <4>3, <4>4, <4>5, <4>7, <4>8
    <3>. QED
      BY <3>2, <3>3
  <2>5. ASSUME NEW o \in Opened, ReadEnds(o.table, o.fd) PROVE BackInv'
    <3>1. /\ UNCHANGED <<cfg, pc, nthfile, interrupt>> /\ N' = N /\ (TableFits' <=> TableFits)
          /\ UNCHANGED <<outfd, alive>> /\ fd' = -1
          /\ desc' = IF o.fd # 0 /\ o.fd \in Fds THEN [o.table EXCEPT ![o.fd] = Closed] ELSE o.table
      BY <2>2, <2>5 DEF ReadEnds
    <3>2. Cond
      BY <3>1
    <3>3. /\ KnownTable(o.table) /\ o.fd \in Fds /\ o.fd # 0
          /\ o.table[o.fd].k = "src"
          /\ Cardinality(Open(o.table)) = N + (IF outfd >= 0 THEN 1 ELSE 0) + 1
          /\ o.table[0] = desc[0]
          /\ outfd >= 0 => o.table[outfd] = desc[outfd]
      BY <2>4, <3>2
    <3>4. desc' = [o.table EXCEPT ![o.fd] = Closed]
      BY <3>1, <3>3
    <3>5. Cardinality(Open(desc')) = Cardinality(Open(o.table)) - 1
      BY <3>3, <3>4, CloseOne, KindsDiffer
    <3>6. /\ N \in Int /\ desc[0].k \in {"tty", "stdin"}
          /\ outfd >= 0 => outfd \in Fds /\ desc[outfd].k \in {"out", "pipeW"}
      BY <1>w, <2>1, <3>2
    <3>7. outfd >= 0 => outfd # o.fd
      BY <3>3, <3>6, KindsDiffer
    <3>8. desc'[0] = desc[0] /\ (outfd >= 0 => desc'[outfd] = desc[outfd])
      BY <1>z, <3>3, <3>4, <3>6, <3>7 DEF KnownTable
    <3>9. Cardinality(Open(desc')) = N + (IF outfd >= 0 THEN 1 ELSE 0)
      <4> HIDE DEF N
      <4>. QED
        BY <3>3, <3>5, <3>6
    <3>. QED
      BY <2>1, <3>1, <3>6, <3>8, <3>9 DEF BackInv
  <2>6. ASSUME NEW o \in Opened, NEW m \in 1 .. BufSize, ReadData(o.table, o.fd, m)
        PROVE  BackInv'
    <3>1. /\ UNCHANGED <<cfg, pc, nthfile, interrupt>> /\ N' = N /\ (TableFits' <=> TableFits)
          /\ UNCHANGED <<outfd, alive>> /\ fd' = o.fd /\ desc' = o.table
      BY <2>2, <2>6 DEF ReadData
    <3>2. Cond
      BY <3>1
    <3>3. /\ o.fd >= 0
          /\ Cardinality(Open(o.table)) = N + (IF outfd >= 0 THEN 1 ELSE 0) + 1
          /\ o.table[0] = desc[0]
          /\ outfd >= 0 => o.table[outfd] = desc[outfd]
      BY <2>4, <3>2
    <3>4. /\ desc[0].k \in {"tty", "stdin"}
          /\ outfd >= 0 => outfd \in Fds /\ desc[outfd].k \in {"out", "pipeW"}
      BY <1>w, <2>1, <3>2
    <3>. QED
      BY <2>1, <3>1, <3>3, <3>4 DEF BackInv
  <2>. QED
    BY <1>5, <2>3, <2>5, <2>6 DEF TAction
<1>6. CASE TFileEnd
  <2>1. /\ pc = "while" /\ pc' \in {"head", "finish"}
        /\ UNCHANGED <<cfg, nthfile, interrupt, fd, alive>>
        /\ desc' = IF outfd >= 0 THEN [desc EXCEPT ![outfd] = Closed] ELSE desc
    BY <1>6 DEF TFileEnd, FileEnd, UnchangedData, flags
  <2>2. Cond /\ N' = N
    BY <2>1 DEF TableFits, Started
  <2>3. /\ Cardinality(Open(desc)) =
                   N + (IF outfd >= 0 THEN 1 ELSE 0) + (IF fd >= 0 THEN 1 ELSE 0)
        /\ N \in Int /\ desc[0].k \in {"tty", "stdin"}
        /\ outfd >= 0 => outfd \in Fds /\ desc[outfd].k \in {"out", "pipeW"}
    BY <1>w, <2>1, <2>2
  <2>4. outfd >= 0 => desc[outfd] # Closed /\ outfd # 0
    BY <2>3, KindsDiffer
  <2>5. outfd >= 0 => Cardinality(Open(desc')) = Cardinality(Open(desc)) - 1
    BY <1>0, <2>1, <2>3, <2>4, CloseOne
  <2>6. desc'[0] = desc[0]
    BY <1>0, <1>z, <2>1, <2>3, <2>4 DEF KnownTable
  <2>7. Cardinality(Open(desc')) = N + (IF fd >= 0 THEN 1 ELSE 0)
    <3> HIDE DEF N
    <3>. QED
      BY <2>1, <2>3, <2>5
  <2>. QED
    BY <2>1, <2>2, <2>3, <2>6, <2>7 DEF BackInv
<1>7. CASE TOtherwise
  BY <1>7 DEF TOtherwise, HeadInterrupted, ListEnd, Finish, BackInv
<1>8. CASE TInterrupt
  BY <1>8 DEF TInterrupt, Interrupt
<1>9. CASE UNCHANGED tvars
  BY <1>9 DEF tvars, dataVars, loopVars, flow, walk, flags, BackInv, Started, TableFits
<1>. QED
  BY <1>1, <1>2, <1>3, <1>4, <1>5, <1>6, <1>7, <1>8, <1>9 DEF TNext, TStep

\* With -m, unless a signal came, no descriptor is lost between two files but one
\* end of the pipe of each command started, and the source of a file -N cut.
THEOREM DescriptorsReturned == TSpec => [](TableFits => DescriptorsGoBack)
<1>1. BackInv /\ TypeOK => (TableFits => DescriptorsGoBack)
  <2> SUFFICES ASSUME BackInv, TypeOK, TableFits, alive, cfg.multiple, pc = "head", ~ interrupt
               PROVE  Cardinality(Open(desc)) =
                          Len(Table(cfg)) + (IF fd >= 0 THEN 1 ELSE 0) + Started(nthfile)
    BY DEF DescriptorsGoBack, Started
  <2>2. Len(Table(cfg)) \in Nat /\ Started(nthfile) \in Nat
    <3>1. nthfile \in Nat /\ cfg \in Configs
      BY Invoked DEF TypeOK
    <3>. QED
      BY <3>1, TableStdin, StartedNext
  <2>. QED
    BY <2>2 DEF BackInv
<1>2. TSpec => []TypeOK /\ []EndedInv
  BY TransferIsClient, AnyClient, PTL
<1>. QED
  BY <1>1, <1>2, CountInit, TransferStep, KeptInit, DescriptorStep, KeptStep, BackInit,
     BackStep, PTL DEF TSpec
-----------------------------------------------------------------------------
(***************************************************************************)
(* Without -m, the standard input is found again.                          *)
(***************************************************************************)

\* The invocations in which it can be: with dialog(3), which moves it, and
\* enough descriptors to see where; with dialog(1), which does not, only when
\* nothing is subtracted for an output.
Serves ==
  ~ cfg.multiple =>
    \/ /\ cfg.display = "LIBDIALOG" /\ MaxFd >= 8
       /\ cfg.output = "SHELL" => cfg.outOK[1]
    \/ cfg.display = "DIALOG" /\ cfg.output = "NONE"

StdinAt == IF cfg.display = "LIBDIALOG" THEN 5 ELSE 0
ForOutput == IF cfg.output = "FILE" THEN 1 ELSE IF cfg.output = "SHELL" THEN 2 ELSE 0

\* The standard input is where it was put, below k descriptors in use.
StdinBelow(k) ==
  /\ desc[StdinAt] = Source(1)
  /\ cfg.display = "LIBDIALOG" =>
       desc[0].k = "tty" /\ \A i \in Fds : desc[i] = Closed <=> i >= k

\* The inductive invariant: the table does not change while the file is read.
StdinInv ==
  Serves /\ ~ cfg.multiple =>
    /\ errors \in Nat
    /\ pc = "idle" => fd = -1
    /\ pc = "head" /\ nthfile = 0 => fd = -1 /\ StdinBelow(6)
    /\ pc = "while" /\ keepGoing => StdinBelow(6 + ForOutput) /\ fd \in {-1, StdinAt}
    /\ errors = 0 /\ status[1] = "DONE" => pos[1] > 0 \/ Size(1) = 0

LEMMA StdinInit == TInit => StdinInv
<1> SUFFICES ASSUME TInit, ~ cfg.multiple PROVE StdinInv
  BY DEF StdinInv
<1>1. cfg.n = 1
  BY InvocationsAssumption DEF TInit, Init, InvocationOK
<1>2. status[1] = "RUNNING"
  BY <1>1 DEF TInit, Init, Files
<1>. QED
  BY <1>2 DEF TInit, Init, StdinInv

\* Where dialog(3) puts a standard input that is not a terminal.
LEMMA StdinTable ==
  ASSUME NEW c \in Configs, ~ c.multiple
  PROVE  /\ c.display = "LIBDIALOG" =>
              Len(Table(c)) = 6 /\ Table(c)[1].k = "tty" /\ Table(c)[6] = Source(1)
         /\ c.display = "DIALOG" => Len(Table(c)) > 0 /\ Table(c)[1] = Source(1)
<1>1. c.piped /\ Stdin(c) = Source(1)
  BY InvocationsAssumption DEF InvocationOK, Stdin
<1> DEFINE T == Known(c.n) \cup {Source(1)}
<1>3. Other("tty") \in T /\ Other("stdout") \in T /\ Other("stderr") \in T
      /\ Other("devtty") \in T /\ Source(1) \in T /\ Other("gaugeR") \in T /\ Other("gaugeW") \in T
  BY DEF Known, OtherKinds
<1> HIDE DEF T
<1>c. ASSUME NEW u \in Seq(T), NEW v \in Seq(T)
      PROVE  /\ u \o v \in Seq(T) /\ Len(u \o v) = Len(u) + Len(v)
             /\ Len(u) > 0 => (u \o v)[1] = u[1]
             /\ Len(v) > 0 => (u \o v)[Len(u) + Len(v)] = v[Len(v)]
  OBVIOUS
<1>4. /\ Len(InitDialog(c)) = 6 /\ InitDialog(c)[1] = Other("tty")
      /\ InitDialog(c)[6] = Source(1)
  <2> DEFINE a == <<Other("tty"), Other("stdout"), Other("stderr")>>
             b == Ttys(c, 1)
             e == <<Other("devtty"), Source(1)>>
  <2>1. a \in Seq(T) /\ Len(a) = 3 /\ a[1] = Other("tty")
    BY <1>3
  <2>2. b \in Seq(T) /\ Len(b) = 1
    BY <1>1, <1>3 DEF Ttys
  <2>3. e \in Seq(T) /\ Len(e) = 2 /\ e[2] = Source(1)
    BY <1>3
  <2>4. InitDialog(c) = a \o b \o e
    BY <1>1 DEF InitDialog
  <2> HIDE DEF a, b, e
  <2> DEFINE u == a \o b
             v == u \o e
  <2>5. /\ u \in Seq(T) /\ Len(u) = Len(a) + Len(b)
        /\ Len(a) > 0 => u[1] = a[1]
    BY <1>c, <2>1, <2>2, Zenon
  <2> HIDE DEF u
  <2>6. /\ Len(v) = Len(u) + Len(e)
        /\ Len(u) > 0 => v[1] = u[1]
        /\ Len(e) > 0 => v[Len(u) + Len(e)] = e[Len(e)]
    BY <1>c, <2>3, <2>5, Zenon
  <2>7. InitDialog(c) = v
    BY <2>4 DEF u
  <2> HIDE DEF v
  <2>. QED
    BY <2>1, <2>2, <2>3, <2>5, <2>6, <2>7
<1>5. Len(SpawnGauge(c)) > 0 /\ SpawnGauge(c)[1] = Source(1)
  <2> DEFINE a == <<Source(1), Other("stdout"), Other("stderr")>>
             b == Ttys(c, 5)
             e == <<Other("gaugeR"), Other("gaugeW")>>
  <2>1. a \in Seq(T) /\ Len(a) = 3 /\ a[1] = Source(1)
    BY <1>3
  <2>2. b \in Seq(T)
    BY <1>1, <1>3 DEF Ttys
  <2>3. e \in Seq(T)
    BY <1>3
  <2>4. SpawnGauge(c) = a \o b \o e
    BY <1>1 DEF SpawnGauge
  <2> HIDE DEF a, b, e
  <2> DEFINE u == a \o b
             v == u \o e
  <2>5. /\ u \in Seq(T) /\ Len(u) = Len(a) + Len(b)
        /\ Len(a) > 0 => u[1] = a[1]
    BY <1>c, <2>1, <2>2, Zenon
  <2> HIDE DEF u
  <2>6. /\ Len(v) = Len(u) + Len(e)
        /\ Len(u) > 0 => v[1] = u[1]
    BY <1>c, <2>3, <2>5, Zenon
  <2>7. SpawnGauge(c) = v
    BY <2>4 DEF u
  <2>8. Len(b) >= 0 /\ Len(e) >= 0 /\ Len(b) \in Nat /\ Len(e) \in Nat
    BY <2>2, <2>3
  <2> HIDE DEF v
  <2>. QED
    BY <2>1, <2>5, <2>6, <2>7, <2>8
<1>. QED
  BY <1>4, <1>5, KindsDiffer DEF Table

\* Whatever was opened since: the source of a callback is the standard input.
LEMMA StdinSource ==
  ASSUME TypeOK, CountInv, StdinInv, Serves, ~ cfg.multiple, InWhile, NEW o \in Opened
  PROVE  o.table = desc /\ o.fd = StdinAt /\ SourceOf(o.table, o.fd) = 1
<1>1. StdinBelow(6 + ForOutput) /\ fd \in {-1, StdinAt}
  BY DEF StdinInv, InWhile
<1>2. StdinAt \in Fds
  BY MaxFdAssumption DEF StdinAt, Fds, Serves
<1>3. SourceOf(desc, StdinAt) = 1
  BY <1>1, <1>2 DEF StdinBelow, SourceOf, Source, Desc
<1>4. CASE fd >= 0
  <2>1. o.table = desc /\ o.fd = fd
    BY <1>4 DEF Opened
  <2>2. fd = StdinAt
    BY <1>1, <1>4
  <2>. QED
    BY <1>3, <2>1, <2>2
<1>5. CASE ~ (fd >= 0)
  <2>1. o \in {[table |-> desc, fd |-> StdinFd(desc, i)] :
                 i \in LowestFree \cup {j \in {-1} : NoneFree(desc)}}
    BY <1>5, Zenon DEF Opened
  <2>2. PICK i \in LowestFree \cup {j \in {-1} : NoneFree(desc)} :
             o = [table |-> desc, fd |-> StdinFd(desc, i)]
    BY <2>1, Zenon
  <2>3. o.table = desc /\ o.fd = StdinFd(desc, i)
    BY <2>2
  <2>4. StdinFd(desc, i) = StdinAt
    <3>1. CASE cfg.display = "LIBDIALOG"
      <4>1. /\ desc[0].k = "tty"
            /\ \A j \in Fds : desc[j] = Closed <=> j >= 6 + ForOutput
        BY <1>1, <3>1 DEF StdinBelow
      <4>2. ForOutput \in 0 .. 2 /\ 6 + ForOutput \in Fds
        BY <3>1, MaxFdAssumption DEF ForOutput, Fds, Serves
      <4>3. ~ NoneFree(desc)
        BY <4>1, <4>2 DEF NoneFree
      <4>4. i \in Fds /\ desc[i] = Closed /\ \A j \in Fds : desc[j] = Closed => i <= j
        BY <4>3 DEF LowestFree, IsLowestFree
      <4>5. i = 6 + ForOutput
        BY <4>1, <4>2, <4>4, MaxFdAssumption DEF Fds
      <4>. QED
        BY <3>1, <4>1, <4>5 DEF StdinFd, StdinAt, ForOutput
    <3>2. CASE cfg.display # "LIBDIALOG"
      <4>1. cfg.output = "NONE" /\ StdinAt = 0
        BY <3>2 DEF Serves, StdinAt
      <4>2. desc[0].k = "src"
        BY <1>1, <4>1, KindsDiffer DEF StdinBelow
      <4>. QED
        BY <4>1, <4>2 DEF StdinFd
    <3>. QED
      BY <3>1, <3>2
  <2>. QED
    BY <1>3, <2>3, <2>4
<1>. QED
  BY <1>4, <1>5

LEMMA StdinStep == TypeOK /\ CountInv /\ StdinInv /\ [TNext]_tvars => StdinInv'
<1> SUFFICES ASSUME TypeOK, CountInv, StdinInv, [TNext]_tvars, Serves', ~ cfg'.multiple
             PROVE  StdinInv'
  BY DEF StdinInv
<1>0. KnownTable(desc) /\ cfg \in Configs /\ nthfile \in Int
  BY Invoked DEF TypeOK, CountInv
<1>c. cfg' = cfg
  <2>1. [AnyNext]_loopVars
    BY TransferStep
  <2>. QED
    BY <2>1, ClientIsAny DEF AnyNext, AnyCallback, Next, Loop, CallEmpty, Call,
       HeadInterrupted, HeadOpen, HeadOpenFails, ListEnd, Callback, TestCallback, FileEnd,
       Finish, ResetGlobals, Interrupt, loopVars
<1>m. ~ cfg.multiple /\ Serves /\ cfg.n = 1 /\ InvocationOK(cfg)
  BY <1>0, <1>c, InvocationsAssumption DEF Serves, InvocationOK
<1>f. Files = {1} /\ Size(1)' = Size(1) /\ StdinAt' = StdinAt /\ ForOutput' = ForOutput
  BY <1>c, <1>m DEF Files, Size, StdinAt, ForOutput
<1>d. cfg.display \in {"LIBDIALOG", "DIALOG"} /\ cfg.output \in {"NONE", "FILE", "SHELL"}
  BY <1>m DEF InvocationOK, ConfigOK
<1>s. StdinAt \in Fds
  BY <1>m, MaxFdAssumption DEF StdinAt, Fds, Serves
<1>g. ASSUME UNCHANGED <<errors, pos, status>>
      PROVE  errors' \in Nat /\ (errors' = 0 /\ status'[1] = "DONE" => pos'[1] > 0 \/ Size(1)' = 0)
  BY <1>f, <1>g, <1>m DEF StdinInv
<1>a. ASSUME UNCHANGED <<errors, pos, status, desc, fd>>, pc' # "idle",
             pc' = "head" => (pc = "head" /\ nthfile' = nthfile) \/ nthfile' # 0,
             pc' = "while" /\ keepGoing' => pc = "while" /\ keepGoing
      PROVE  StdinInv'
  BY <1>a, <1>c, <1>f, <1>g, <1>m DEF StdinInv, StdinBelow
<1>1. CASE TCall
  <2>1. /\ pc = "idle" /\ pc' = "head" /\ desc' = SetUp(cfg) /\ UNCHANGED fd
        /\ status' = [f \in Files |-> "RUNNING"]
    BY <1>1 DEF TCall, Call
  <2>2. status'[1] = "RUNNING" /\ fd' = -1
    BY <1>f, <1>m, <2>1 DEF StdinInv
  <2>3. cfg.display = "LIBDIALOG" => SetUp(cfg)[5] = Source(1) /\ SetUp(cfg)[0].k = "tty"
    BY <1>0, <1>m, StdinTable, MaxFdAssumption DEF SetUp, Fds, Serves
  <2>4. cfg.display = "LIBDIALOG" => \A i \in Fds : SetUp(cfg)[i] = Closed <=> i >= 6
    <3> SUFFICES ASSUME cfg.display = "LIBDIALOG" PROVE \A i \in Fds : SetUp(cfg)[i] = Closed <=> i >= 6
      OBVIOUS
    <3>1. Len(Table(cfg)) = 6
      BY <1>0, <1>m, StdinTable
    <3>2. \A i \in Fds : SetUp(cfg)[i] # Closed <=> i < 6
      BY <3>1, SetUpKnown
    <3>3. \A i \in Fds : i \in Int
      BY MaxFdAssumption DEF Fds
    <3>. QED
      BY <3>2, <3>3
  <2>5. cfg.display = "DIALOG" => SetUp(cfg)[0] = Source(1)
    BY <1>0, <1>m, StdinTable, MaxFdAssumption DEF SetUp, Fds
  <2>6. StdinBelow(6)'
    BY <1>c, <1>d, <1>f, <2>1, <2>3, <2>4, <2>5 DEF StdinBelow, StdinAt
  <2>. QED
    BY <1>1, <1>m, <2>1, <2>2, <2>6 DEF TCall, StdinInv
<1>2. CASE TOpenNothing \/ TOpenFile \/ TSpawn
  <2>1. /\ pc = "head" /\ pc' = "while" /\ nthfile < cfg.n /\ nthfile' = nthfile + 1
        /\ UNCHANGED <<status, pos, errors, fd>>
    BY <1>2 DEF TOpenNothing, TOpenFile, TSpawn, UnchangedData, HeadOpen, NextFile
  <2>2. nthfile = 0 /\ nthfile' = 1
    BY <1>0, <1>m, <2>1 DEF TypeOK
  <2>3. fd = -1 /\ StdinBelow(6)
    BY <1>m, <2>1, <2>2 DEF StdinInv
  <2>4. StdinBelow(6 + ForOutput)'
    <3>1. CASE cfg.output = "NONE"
      <4>1. desc' = desc /\ ForOutput = 0
        BY <1>2, <3>1 DEF TOpenNothing, TOpenFile, TSpawn, ForOutput
      <4>. QED
        BY <1>c, <1>f, <2>3, <4>1 DEF StdinBelow
    <3>2. CASE cfg.output # "NONE"
      <4>1. cfg.display = "LIBDIALOG" /\ MaxFd >= 8 /\ (cfg.output = "SHELL" => cfg.outOK[nthfile'])
        BY <1>m, <2>2, <3>2 DEF Serves
      <4>2. /\ desc[5] = Source(1) /\ desc[0].k = "tty" /\ StdinAt = 5
            /\ \A i \in Fds : desc[i] = Closed <=> i >= 6
        BY <2>3, <4>1 DEF StdinBelow, StdinAt
      <4>3. 0 \in Fds /\ 5 \in Fds /\ 6 \in Fds /\ 7 \in Fds /\ \A i \in Fds : i \in Int
        BY <4>1, MaxFdAssumption DEF Fds
      <4>4. \A i \in Fds : IsLowestFree(desc, i) => i = 6
        BY <4>2, <4>3 DEF IsLowestFree
      <4>5. CASE cfg.output = "FILE"
        <5>1. PICK i \in Fds : /\ IsLowestFree(desc, i)
                               /\ desc' = [desc EXCEPT ![i] = Other("out")]
          BY <1>2, <4>5 DEF TOpenNothing, TOpenFile, TSpawn
        <5>2. desc' = [desc EXCEPT ![6] = Other("out")]
          BY <4>4, <5>1
        <5>3. desc'[5] = desc[5] /\ desc'[0] = desc[0]
              /\ \A j \in Fds : desc'[j] = Closed <=> j >= 7
          BY <1>0, <4>2, <4>3, <5>2, KindsDiffer DEF KnownTable
        <5>. QED
          BY <1>c, <1>f, <4>2, <4>5, <5>3 DEF StdinBelow, ForOutput
      <4>6. CASE cfg.output = "SHELL"
        <5>1. PICK i \in Fds, j \in Fds :
                    /\ IsLowestFree(desc, i)
                    /\ IsLowestFree([desc EXCEPT ![i] = Other("pipeR")], j)
                    /\ desc' = [desc EXCEPT ![i] = Other("pipeR"), ![j] = Other("pipeW")]
          BY <1>2, <4>1, <4>6 DEF TOpenNothing, TOpenFile, TSpawn
        <5>2. i = 6
          BY <4>4, <5>1
        <5> DEFINE d == [desc EXCEPT ![6] = Other("pipeR")]
        <5>3. \A l \in Fds : d[l] = Closed <=> l >= 7
          BY <1>0, <4>2, <4>3, KindsDiffer DEF KnownTable
        <5>4. d[5] = desc[5] /\ d[0] = desc[0] /\ d = [l \in Fds |-> d[l]]
          BY <1>0, <4>3 DEF KnownTable
        <5>5. IsLowestFree(d, j) /\ desc' = [d EXCEPT ![j] = Other("pipeW")]
          BY <5>1, <5>2
        <5> HIDE DEF d
        <5>6. j = 7
          BY <4>3, <5>3, <5>5 DEF IsLowestFree
        <5>7. desc'[5] = desc[5] /\ desc'[0] = desc[0]
              /\ \A l \in Fds : desc'[l] = Closed <=> l >= 8
          BY <4>3, <5>3, <5>4, <5>5, <5>6, KindsDiffer
        <5>. QED
          BY <1>c, <1>f, <4>2, <4>6, <5>7 DEF StdinBelow, ForOutput
      <4>. QED
        BY <1>d, <3>2, <4>5, <4>6
    <3>. QED
      BY <3>1, <3>2
  <2>. QED
    BY <1>g, <2>1, <2>3, <2>4 DEF StdinInv
<1>3. CASE TOpenFileFails
  BY <1>3, <1>g DEF TOpenFileFails, HeadOpenFails, UnchangedData, StdinInv
<1>4. CASE TSpawnDies \/ TActionDies
  <2>1. UNCHANGED <<pc, nthfile, keepGoing, status, desc, fd, pos, errors>>
    BY <1>4 DEF TSpawnDies, TActionDies, loopVars, flow, walk, file
  <2>. QED
    BY <1>c, <1>f, <1>g, <1>m, <2>1 DEF StdinInv, StdinBelow
<1>5. CASE TAction
  <2>1. InWhile /\ nthfile = 1
    BY <1>5, <1>f DEF TAction, InWhile, CountInv
  <2>2. /\ StdinBelow(6 + ForOutput) /\ fd \in {-1, StdinAt}
        /\ pos[1] \in Int
    BY <1>f, <1>m, <2>1 DEF StdinInv, InWhile, CountInv
  <2>3. ~ OpenSourceFails
    BY <1>m DEF OpenSourceFails
  <2>4. ASSUME NEW o \in Opened, ReadEnds(o.table, o.fd) PROVE StdinInv'
    <3>1. SourceOf(o.table, o.fd) = 1
      BY <1>m, <2>1, StdinSource
    <3>2. /\ Callback(100, "DONE", abort) /\ UNCHANGED pos
          /\ pos[1] = Size(1) \/ errors' = errors + 1
      BY <2>4, <3>1 DEF ReadEnds, NoData
    <3>3. pc' = "while" /\ ~ keepGoing'
      <4>1. keepGoing' = (IF cfg.noOverrun \/ cfg.test THEN 100 < 100 ELSE "DONE" = "RUNNING")
        BY <3>2 DEF Callback, AfterCallback
      <4>2. ~ (100 < 100) /\ "DONE" # "RUNNING"
        OBVIOUS
      <4>3. ~ keepGoing'
        BY <4>1, <4>2, Zenon
      <4>. QED
        BY <2>1, <3>2, <4>3 DEF Callback, InWhile, flow
    <3>4. errors' \in Nat /\ (errors' = 0 => pos[1] = Size(1))
      <4>1. errors \in Nat
        BY <1>m DEF StdinInv
      <4>. QED
        BY <2>4, <3>1, <4>1 DEF ReadEnds, NoData
    <3>5. Size(1) \in Nat
      BY <1>f, Invoked
    <3>6. errors' = 0 => pos'[1] > 0 \/ Size(1)' = 0
      BY <1>f, <3>2, <3>4, <3>5
    <3>. QED
      BY <3>3, <3>4, <3>6 DEF StdinInv
  <2>5. ASSUME NEW o \in Opened, NEW m \in 1 .. BufSize, ReadData(o.table, o.fd, m)
        PROVE  StdinInv'
    <3>1. o.table = desc /\ o.fd = StdinAt /\ SourceOf(o.table, o.fd) = 1
      BY <1>m, <2>1, StdinSource
    <3>2. /\ desc' = desc /\ fd' = StdinAt /\ pos' = [pos EXCEPT ![1] = @ + m]
          /\ errors' = errors
      BY <2>5, <3>1 DEF ReadData
    <3>3. /\ pc' = "while" /\ \E p : Callback(p, status[nthfile], abort)
      BY <2>1, <2>5 DEF ReadData, Callback, InWhile, flow
    <3>4. status' = status
      BY <1>f, <2>1, <3>3 DEF Callback, TypeOK
    <3>5. pos'[1] = pos[1] + m /\ m \in Nat /\ m > 0
      BY <1>f, <3>2, BufSizeAssumption DEF CountInv
    <3>6. /\ errors' \in Nat
          /\ errors' = 0 /\ status'[1] = "DONE" => pos'[1] > 0 \/ Size(1)' = 0
      BY <1>f, <1>m, <2>2, <3>2, <3>4, <3>5 DEF StdinInv
    <3>. QED
      BY <1>c, <1>f, <2>2, <3>2, <3>3, <3>6 DEF StdinInv, StdinBelow
  <2>. QED
    BY <1>5, <2>3, <2>4, <2>5 DEF TAction
<1>6. CASE TFileEnd
  <2>1. pc = "while" /\ pc' \in {"head", "finish"} /\ UNCHANGED <<nthfile, status, pos, errors>>
    BY <1>6 DEF TFileEnd, FileEnd, UnchangedData, file
  <2>2. nthfile' # 0
    BY <1>f, <2>1 DEF CountInv
  <2>. QED
    BY <1>g, <2>1, <2>2 DEF StdinInv
<1>7. CASE TOtherwise
  BY <1>7, <1>g DEF TOtherwise, HeadInterrupted, ListEnd, Finish, dataVars, file, StdinInv
<1>8. CASE TInterrupt \/ UNCHANGED tvars
  <2>1. UNCHANGED <<pc, nthfile, keepGoing, status, desc, fd, pos, errors>>
    BY <1>8 DEF TInterrupt, Interrupt, tvars, dataVars, loopVars, flow, walk, file
  <2>. QED
    BY <1>c, <1>f, <1>g, <1>m, <2>1 DEF StdinInv, StdinBelow
<1>. QED
  BY <1>1, <1>2, <1>3, <1>4, <1>5, <1>6, <1>7, <1>8 DEF TNext, TStep
\* Without -m, the standard input is read to its end before it is called done:
\* the arithmetic on descriptors finds it wherever dialog(3) put it and whatever
\* was opened for the output, unless reading it fails.
THEOREM StandardInputFound == TSpec => [](Serves /\ errors = 0 => FindsStdin)
<1>1. StdinInv => (Serves /\ errors = 0 => FindsStdin)
  BY DEF StdinInv, FindsStdin
<1>2. TSpec => []TypeOK
  BY TransferIsClient, AnyClient, PTL
<1>. QED
  BY <1>1, <1>2, CountInit, TransferStep, StdinInit, StdinStep, PTL DEF TSpec
-----------------------------------------------------------------------------
(***************************************************************************)
(* dpv(1) implements its contract.                                         *)
(***************************************************************************)

\* The invocations the contract is for: each file has an output of its own, every
\* command of -x fits its buffer, and the source of a callback is the one it is
\* meant to read: several files, or files that may be cut short, but not both.
Contracted ==
  /\ cfg.multiple => ~ cfg.noOverrun
  /\ Serves
  /\ \A f \in Files : OwnSink(f)
  /\ cfg.output = "SHELL" => \A f \in Files : cfg.outOK[f]

\* No read failed, and the disk of the output files is not full.
Undisturbed == errors = 0 /\ (cfg.output = "FILE" => free > 0)

\* The inductive invariant: files after the current one are untouched, the
\* current one is running as long as callbacks are made for it, has its output
\* open, and was not read from before its source was opened.
CopyInv ==
  /\ pc = "idle" => nthfile = 0 /\ \A f \in Files : status[f] = "RUNNING"
  /\ pc \in {"head", "while"} => \A f \in Files : f > nthfile => status[f] = "RUNNING"
  /\ pc = "while" /\ keepGoing => status[nthfile] = "RUNNING"
  /\ pc = "while" /\ cfg.output # "NONE" => outfd >= 0
  /\ pc = "while" /\ keepGoing /\ cfg.multiple /\ fd < 0 => pos[nthfile] = 0

LEMMA CopyInit == TInit => CopyInv
BY DEF TInit, Init, CopyInv

\* How much of file f was delivered, and that it is the beginning of the file.
Amount(f) == IF cfg.output = "NONE" THEN pos[f] ELSE outpos[f]

LEMMA DeliveredIs ==
  ASSUME TypeOK, DataInv, NEW f \in Files, OwnSink(f)
  PROVE  /\ Delivered(f) = SubSeq(Src(f), 1, Amount(f)) /\ Len(Delivered(f)) = Amount(f)
         /\ Amount(f) \in Nat /\ Amount(f) <= Size(f) /\ Len(Src(f)) = Size(f)
         /\ SubSeq(Src(f), 1, Size(f)) = Src(f)
<1>1. /\ pos[f] \in Nat /\ outpos[f] \in Nat /\ Size(f) \in Nat
      /\ outpos[f] <= pos[f] /\ pos[f] <= Size(f)
  BY Invoked DEF DataInv, DataTypes, Received
<1>2. Amount(f) \in Nat /\ Amount(f) <= Size(f)
  BY <1>1 DEF Amount
<1>3. \A n \in Nat : \A t : Len(SubSeq(t, 1, n)) = n /\ SubSeq(t, 1, n) = [i \in 1 .. n |-> t[i]]
  OBVIOUS
<1>4. Len(Delivered(f)) = Amount(f)
  BY <1>1, <1>3 DEF Delivered, Amount
<1>5. Delivered(f) = SubSeq(Src(f), 1, Amount(f))
  BY <1>4, PrefixDelivered
<1>6. Src(f) = [i \in 1 .. Size(f) |-> Src(f)[i]] /\ Len(Src(f)) = Size(f)
  BY <1>1 DEF Src
<1>7. SubSeq(Src(f), 1, Size(f)) = [i \in 1 .. Size(f) |-> Src(f)[i]]
  BY <1>1, <1>3
<1>. QED
  BY <1>2, <1>4, <1>5, <1>6, <1>7

\* While a file is worked on, what was delivered is what was read.
LEMMA AmountIsPos ==
  ASSUME CountInv, DataInv, CopyInv, Undisturbed, pc = "while"
  PROVE  Amount(nthfile) = pos[nthfile] /\ (cfg.output # "NONE" => outpos[nthfile] = pos[nthfile])
BY DEF CountInv, DataInv, DataTypes, InStep, CopyInv, Undisturbed, Amount

\* A callback that has a source open reads the current file.
LEMMA RightSource ==
  ASSUME TypeOK, CountInv, SourceInv, StdinInv, Contracted, alive, InWhile, NEW o \in Opened
  PROVE  SourceOf(o.table, o.fd) = nthfile /\ ~ (o.fd < 0)
<1>0. nthfile \in Files
  BY DEF CountInv, InWhile
<1>1. CASE ~ cfg.multiple
  <2>1. cfg.n = 1
    BY <1>1, InvocationsAssumption DEF TypeOK, InvocationOK
  <2>2. nthfile = 1
    BY <1>0, <2>1 DEF Files
  <2>3. o.fd = StdinAt /\ SourceOf(o.table, o.fd) = 1
    BY <1>1, StdinSource DEF Contracted
  <2>. QED
    BY <2>2, <2>3 DEF StdinAt
<1>2. CASE cfg.multiple
  <2>0. \A i \in Fds : ~ (i < 0)
    BY MaxFdAssumption DEF Fds
  <2>1. CASE fd >= 0
    <3>1. fd \in Fds /\ desc[fd] = Source(nthfile)
      BY <1>2, <2>1 DEF SourceInv, InWhile, Contracted, MayCut
    <3>2. o.table = desc /\ o.fd = fd
      BY <2>1 DEF Opened
    <3>. QED
      BY <2>0, <3>1, <3>2 DEF SourceOf, Source, Desc
  <2>2. CASE ~ (fd >= 0)
    <3>1. o \in {[table |-> [desc EXCEPT ![i] = Source(nthfile)], fd |-> i] :
                    i \in {j \in LowestFree : cfg.openable[nthfile]}}
      BY <1>2, <2>2, Zenon DEF Opened
    <3>2. PICK i \in LowestFree :
               o = [table |-> [desc EXCEPT ![i] = Source(nthfile)], fd |-> i]
      BY <3>1, Zenon
    <3>3. o.table = [desc EXCEPT ![i] = Source(nthfile)] /\ o.fd = i
      BY <3>2
    <3>4. i \in Fds /\ o.table[i] = Source(nthfile)
      BY <3>3 DEF LowestFree, IsLowestFree, CountInv, KnownTable
    <3>. QED
      BY <2>0, <3>3, <3>4 DEF SourceOf, Source, Desc
  <2>. QED
    BY <2>1, <2>2
<1>. QED
  BY <1>1, <1>2

\* The arguments do not change.
LEMMA ArgumentsStay ==
  ASSUME TypeOK, CountInv, [TNext]_tvars
  PROVE  cfg' = cfg /\ (Contracted' <=> Contracted)
<1>1. [AnyNext]_loopVars
  BY TransferStep
<1>2. cfg' = cfg
  BY <1>1, ClientIsAny DEF AnyNext, AnyCallback, Next, Loop, CallEmpty, Call,
     HeadInterrupted, HeadOpen, HeadOpenFails, ListEnd, Callback, TestCallback, FileEnd,
     Finish, ResetGlobals, Interrupt, loopVars
<1>. QED
  BY <1>2 DEF Contracted, Serves, OwnSink, Files

LEMMA CopyInvStep ==
  TypeOK /\ CountInv /\ SourceInv /\ StdinInv /\ DataInv /\ CopyInv /\ Contracted
    /\ [TNext]_tvars => CopyInv'
<1> SUFFICES ASSUME TypeOK, CountInv, SourceInv, StdinInv, DataInv, CopyInv, Contracted,
                    [TNext]_tvars
             PROVE  CopyInv'
  OBVIOUS
<1>0. cfg \in Configs /\ cfg' = cfg /\ cfg.n \in Nat /\ nthfile \in 0 .. cfg.n /\ Files' = Files
  BY ArgumentsStay, Invoked DEF TypeOK, Files
<1>d. cfg.output \in {"NONE", "FILE", "SHELL"} /\ ~ cfg.test
  BY <1>0, InvocationsAssumption DEF InvocationOK, ConfigOK
<1>i. \A i \in Fds : i >= 0
  BY MaxFdAssumption DEF Fds
<1>1. CASE TCall
  BY <1>0, <1>1 DEF TCall, Call, CopyInv
<1>2. CASE TOpenNothing \/ TOpenFile \/ TSpawn
  <2>1. /\ pc = "head" /\ nthfile' = nthfile + 1 /\ nthfile' \in Files /\ pc' = "while"
        /\ UNCHANGED <<status, pos>>
    BY <1>0, <1>2 DEF TOpenNothing, TOpenFile, TSpawn, UnchangedData, HeadOpen, NextFile, Files
  <2>2. nthfile' > nthfile /\ \A f \in Files : f > nthfile' => f > nthfile
    BY <1>0, <2>1 DEF Files
  <2>3. status'[nthfile'] = "RUNNING" /\ \A f \in Files : f > nthfile' => status'[f] = "RUNNING"
    BY <2>1, <2>2 DEF CopyInv
  <2>4. pos'[nthfile'] = 0
    BY <2>1, <2>2 DEF DataInv
  <2>5. cfg.output # "NONE" => outfd' >= 0
    BY <1>2, <1>d, <1>i, <2>1 DEF TOpenNothing, TOpenFile, TSpawn, Contracted
  <2>. QED
    BY <1>0, <2>1, <2>3, <2>4, <2>5 DEF CopyInv
<1>3. CASE TOpenFileFails
  BY <1>3 DEF TOpenFileFails, HeadOpenFails, CopyInv
<1>4. CASE TSpawnDies \/ TActionDies \/ TInterrupt \/ UNCHANGED tvars
  <2>1. UNCHANGED <<pc, nthfile, keepGoing, status, outfd, fd, pos>>
    BY <1>4 DEF TSpawnDies, TActionDies, TInterrupt, Interrupt, tvars, dataVars, loopVars, flow,
       walk, file
  <2>. QED
    BY <1>0, <2>1 DEF CopyInv
<1>5. CASE TAction /\ alive
  <2>1. InWhile /\ nthfile \in Files /\ pc = "while" /\ keepGoing
    BY <1>5 DEF TAction, InWhile, CountInv
  <2>2. ASSUME NEW p \in Int, NEW st, st # "RUNNING", p < 100 => cfg.multiple,
               Callback(p, st, abort), UNCHANGED outfd
        PROVE  CopyInv'
    <3>1. /\ pc' = "while" /\ nthfile' = nthfile /\ outfd' = outfd
          /\ status' = [status EXCEPT ![nthfile] = st]
          /\ keepGoing' = (IF cfg.noOverrun \/ cfg.test THEN p < 100 ELSE st = "RUNNING")
      BY <2>1, <2>2 DEF Callback, AfterCallback, flow, walk
    <3>2. p < 100 => ~ cfg.noOverrun
      BY <2>2 DEF Contracted
    <3>3. ~ keepGoing'
      BY <1>d, <2>2, <3>1, <3>2, Zenon
    <3>4. \A f \in Files : f > nthfile => status'[f] = "RUNNING"
      BY <1>0, <2>1, <3>1 DEF CopyInv, Files, TypeOK
    <3>. QED
      BY <1>0, <2>1, <3>1, <3>3, <3>4 DEF CopyInv
  <2>3. CASE OpenSourceFails
    BY <2>2, <2>3 DEF OpenSourceFails, dataVars
  <2>4. ASSUME NEW o \in Opened, ReadEnds(o.table, o.fd) PROVE CopyInv'
    BY <2>2, <2>4 DEF ReadEnds
  <2>5. ASSUME NEW o \in Opened, NEW m \in 1 .. BufSize, ReadData(o.table, o.fd, m)
        PROVE  CopyInv'
    <3>1. /\ pc' = "while" /\ nthfile' = nthfile /\ outfd' = outfd
          /\ status' = [status EXCEPT ![nthfile] = status[nthfile]]
      BY <2>1, <2>5 DEF ReadData, Callback, flow, walk
    <3>2. status' = status
      BY <2>1, <3>1 DEF TypeOK
    <3>3. ~ (fd' < 0)
      BY <1>5, <2>1, <2>5, RightSource DEF ReadData
    <3>. QED
      BY <1>0, <2>1, <3>1, <3>2, <3>3 DEF CopyInv
  <2>. QED
    BY <1>5, <2>3, <2>4, <2>5 DEF TAction
<1>6. CASE TFileEnd
  <2>1. pc = "while" /\ pc' \in {"head", "finish"} /\ UNCHANGED <<nthfile, status>>
    BY <1>6 DEF TFileEnd, FileEnd, file
  <2>. QED
    BY <1>0, <2>1 DEF CopyInv
<1>7. CASE TOtherwise
  BY <1>7 DEF TOtherwise, HeadInterrupted, ListEnd, Finish, CopyInv
<1>. QED
  BY <1>1, <1>2, <1>3, <1>4, <1>5, <1>6, <1>7 DEF TNext, TStep

\* What the outputs hold, as the contract sees it.
Faithful ==
  /\ \A f \in Files :
        /\ Delivered(f) = SubSeq(Src(f), 1, Amount(f)) /\ Len(Delivered(f)) = Amount(f)
        /\ Amount(f) \in Nat /\ Amount(f) <= Size(f) /\ Len(Src(f)) = Size(f)
        /\ SubSeq(Src(f), 1, Size(f)) = Src(f)
  /\ pc = "while" => Amount(nthfile) = pos[nthfile]

LEMMA CopyFaithful ==
  TypeOK /\ CountInv /\ DataInv /\ CopyInv /\ Contracted /\ Undisturbed => Faithful
BY DeliveredIs, AmountIsPos DEF Faithful, Contracted

\* The heart of it: every step of dpv(1) is one of its contract, or leaves what
\* the contract speaks of alone.
LEMMA ContractStep ==
  /\ TypeOK /\ EndedInv /\ CountInv /\ SourceInv /\ StdinInv /\ DataInv /\ CopyInv /\ Contracted
  /\ Undisturbed /\ Faithful /\ Undisturbed' /\ Faithful' /\ [TNext]_tvars
  => [Contract!Next]_(Contract!copyVars)
<1> SUFFICES ASSUME TypeOK, EndedInv, CountInv, SourceInv, StdinInv, DataInv, CopyInv, Contracted,
                    Undisturbed, Faithful, Undisturbed', Faithful', [TNext]_tvars
             PROVE  [Contract!Next]_(Contract!copyVars)
  OBVIOUS
<1> DEFINE src == [f \in Files |-> Src(f)]
           copied == [f \in Files |-> Delivered(f)]
           going == alive /\ pc \in {"idle", "head", "while"}
<1>0. cfg \in Configs /\ cfg' = cfg /\ cfg.n \in Nat /\ nthfile \in 0 .. cfg.n /\ ~ cfg.test
  BY ArgumentsStay, Invoked, InvocationsAssumption DEF TypeOK, InvocationOK
<1>u. /\ Files' = Files /\ src' = src /\ DOMAIN src = Files /\ Len(src) = cfg.n
      /\ \A f \in Files : Size(f)' = Size(f) /\ Src(f)' = Src(f) /\ src[f] = Src(f)
                          /\ copied[f] = Delivered(f)
  BY <1>0 DEF Files, Src, Size, Token
<1>s. ASSUME UNCHANGED <<pos, outpos>> PROVE copied' = copied
  <2>1. \A f \in Files : Amount(f)' = Amount(f)
    BY <1>0, <1>s DEF Amount
  <2>2. \A f \in Files : Delivered(f)' = Delivered(f)
    BY <1>u, <2>1 DEF Faithful
  <2>. QED
    BY <1>u, <2>2
<1>q. ASSUME UNCHANGED <<pos, outpos, nthfile, status>>, going' = going
      PROVE  UNCHANGED Contract!copyVars
  BY <1>u, <1>s, <1>q DEF Contract!copyVars
<1>t. ASSUME UNCHANGED <<pos, outpos, status>>, going, ~ going', nthfile' \in {nthfile, nthfile + 1}
      PROVE  Contract!Stop
  <2>1. going = TRUE /\ going' = FALSE
    BY <1>t
  <2>. QED
    BY <1>u, <1>s, <1>t, <2>1, Zenon DEF Contract!Stop
<1>1. CASE TCall
  <2>1. /\ pc = "idle" /\ pc' = "head" /\ nthfile = 0 /\ nthfile' = 0 /\ alive' = alive
        /\ UNCHANGED <<pos, outpos>> /\ status' = [f \in Files |-> "RUNNING"]
        /\ \A f \in Files : status[f] = "RUNNING"
    BY <1>1 DEF TCall, Call, CopyInv
  <2>2. status' = status
    BY <2>1 DEF TypeOK
  <2>3. going' = going
    BY <2>1
  <2>. QED
    BY <1>q, <2>1, <2>2, <2>3
<1>2. CASE (TOpenNothing \/ TOpenFile \/ TSpawn) /\ alive
  <2>1. /\ HeadOpen /\ UNCHANGED <<pos, outpos, alive>>
    BY <1>2 DEF TOpenNothing, TOpenFile, TSpawn, UnchangedData
  <2>2. /\ pc = "head" /\ pc' = "while" /\ ~ interrupt /\ nthfile < cfg.n /\ nthfile' = nthfile + 1
        /\ UNCHANGED status
    BY <2>1 DEF HeadOpen, NextFile
  <2>3. nthfile # 0 => status[nthfile] # "RUNNING"
    <3>1. CASE cfg.multiple
      BY <1>0, <2>2, <3>1 DEF EndedInv, Ended, Contracted
    <3>2. CASE ~ cfg.multiple
      BY <1>0, <2>2, <3>2, InvocationsAssumption DEF InvocationOK
    <3>. QED
      BY <3>1, <3>2
  <2>4. going = TRUE /\ going' = going
    BY <1>2, <2>1, <2>2
  <2>5. nthfile < Len(src) /\ copied' = copied
    BY <1>u, <1>s, <2>1, <2>2
  <2>6. Contract!Advance
    BY <1>u, <2>2, <2>3, <2>4, <2>5, Zenon DEF Contract!Advance
  <2>. QED
    BY <2>6 DEF Contract!Next
<1>3. CASE (TOpenFileFails \/ TOtherwise) /\ alive
  <2>1. UNCHANGED <<pos, outpos, alive, status>>
    BY <1>3 DEF TOpenFileFails, UnchangedData, HeadOpenFails, TOtherwise, dataVars,
       HeadInterrupted, ListEnd, Finish, file
  <2>2. CASE Finish
    BY <1>q, <2>1, <2>2 DEF Finish, walk
  <2>3. CASE ~ Finish
    <3>1. /\ pc = "head" /\ pc' \in {"finish", "returned"}
          /\ nthfile' \in {nthfile, nthfile + 1}
      BY <1>3, <2>3 DEF TOpenFileFails, HeadOpenFails, TOtherwise, HeadInterrupted, NextFile, ListEnd,
         walk
    <3>. QED
      BY <1>3, <1>t, <2>1, <3>1 DEF Contract!Next
  <2>. QED
    BY <2>2, <2>3
<1>4. CASE (TSpawnDies \/ TActionDies \/ TInterrupt) /\ alive
  <2>1. UNCHANGED <<pos, outpos, status, pc, nthfile>>
    BY <1>4 DEF TSpawnDies, TActionDies, TInterrupt, Interrupt, dataVars, loopVars, flow, walk, file
  <2>2. CASE going' = going
    BY <1>q, <2>1, <2>2
  <2>3. CASE going' # going
    <3>1. going /\ ~ going'
      BY <1>4, <2>1, <2>3
    <3>. QED
      BY <1>t, <2>1, <3>1 DEF Contract!Next
  <2>. QED
    BY <2>2, <2>3
<1>5. CASE TAction /\ alive
  <2>1. InWhile /\ nthfile \in Files /\ pc = "while" /\ status[nthfile] = "RUNNING"
    BY <1>5 DEF TAction, InWhile, CountInv, CopyInv
  <2>2. Amount(nthfile) = pos[nthfile]
    BY <2>1 DEF Faithful
  <2>c. ASSUME NEW p, NEW st, Callback(p, st, abort), alive' = alive
        PROVE  /\ going = TRUE /\ going' = going /\ nthfile' = nthfile
               /\ pc' = "while" /\ status' = [status EXCEPT ![nthfile] = st]
    BY <1>5, <2>1, <2>c DEF Callback, flow, walk
  <2>3. CASE OpenSourceFails
    <3>1. Callback(-1, "FAILED", abort) /\ UNCHANGED <<alive, pos, outpos>>
      BY <2>3 DEF OpenSourceFails, dataVars
    <3>2. pos[nthfile] = 0
      BY <2>1, <2>3 DEF OpenSourceFails, CopyInv, InWhile
    <3>3. Len(copied[nthfile]) = 0 /\ copied[nthfile] = SubSeq(Src(nthfile), 1, 0)
      BY <1>u, <2>1, <2>2, <3>2 DEF Faithful
    <3>4. copied[nthfile] = << >>
      BY <3>3
    <3>5. Contract!End
      BY <1>s, <1>u, <2>1, <2>c, <3>1, <3>4, Zenon DEF Contract!End, Contract!Sources
    <3>. QED
      BY <3>5 DEF Contract!Next
  <2>4. ASSUME NEW o \in Opened, ReadEnds(o.table, o.fd) PROVE Contract!Next
    <3>1. SourceOf(o.table, o.fd) = nthfile
      BY <1>5, <2>1, RightSource
    <3>2. Callback(100, "DONE", abort) /\ UNCHANGED <<alive, pos, outpos>>
      BY <2>4 DEF ReadEnds
    <3>3. pos[nthfile] = Size(nthfile)
      BY <1>0, <2>1, <2>4, <3>1 DEF ReadEnds, NoData, Undisturbed, Files
    <3>4. copied[nthfile] = Src(nthfile)
      BY <1>u, <2>1, <2>2, <3>3 DEF Faithful
    <3>5. Contract!End
      BY <1>s, <1>u, <2>1, <2>c, <3>2, <3>4, Zenon DEF Contract!End, Contract!Sources
    <3>. QED
      BY <3>5 DEF Contract!Next
  <2>5. ASSUME NEW o \in Opened, NEW m \in 1 .. BufSize, ReadData(o.table, o.fd, m)
        PROVE  Contract!Next
    <3>1. SourceOf(o.table, o.fd) = nthfile
      BY <1>5, <2>1, RightSource
    <3>2. /\ \E p : Callback(p, status[nthfile], abort)
          /\ pos' = [pos EXCEPT ![nthfile] = @ + m] /\ alive' = alive
          /\ \/ outpos' = outpos
             \/ \E w : outpos' = [outpos EXCEPT ![nthfile] = w]
      BY <2>5, <3>1 DEF ReadData, Written
    <3>3. /\ going = TRUE /\ going' = going /\ nthfile' = nthfile /\ pc' = "while"
          /\ status' = status
      <4>1. PICK p : Callback(p, status[nthfile], abort)
        BY <3>2
      <4>2. status' = [status EXCEPT ![nthfile] = status[nthfile]]
        BY <2>c, <3>2, <4>1
      <4>3. status' = status
        BY <2>1, <4>2 DEF TypeOK
      <4>. QED
        BY <2>c, <3>2, <4>1, <4>3
    <3>4. /\ pos'[nthfile] = pos[nthfile] + m /\ pos[nthfile] \in Nat /\ m \in Nat /\ m > 0
          /\ \A f \in Files : f # nthfile => pos'[f] = pos[f] /\ outpos'[f] = outpos[f]
      BY <2>1, <3>2, BufSizeAssumption DEF DataInv, DataTypes
    <3>5. Amount(nthfile)' = Amount(nthfile) + m
      BY <2>2, <3>3, <3>4 DEF Faithful
    <3>6. \A f \in Files : f # nthfile => Amount(f)' = Amount(f)
      BY <1>0, <3>4 DEF Amount
    <3> DEFINE k == Amount(nthfile)'
    <3>7. /\ k \in (Len(copied[nthfile]) + 1) .. Len(src[nthfile])
          /\ Delivered(nthfile)' = SubSeq(src[nthfile], 1, k)
      BY <1>u, <2>1, <3>3, <3>4, <3>5 DEF Faithful
    <3>8. \A f \in Files : f # nthfile => Delivered(f)' = Delivered(f)
      BY <1>u, <3>6 DEF Faithful
    <3> HIDE DEF k
    <3>9. copied' = [copied EXCEPT ![nthfile] = SubSeq(src[nthfile], 1, k)]
      BY <1>u, <2>1, <3>3, <3>7, <3>8
    <3>10. Contract!Copy
      BY <1>u, <2>1, <3>3, <3>7, <3>9, Zenon DEF Contract!Copy, Contract!Sources
    <3>. QED
      BY <3>10 DEF Contract!Next
  <2>. QED
    BY <1>5, <2>3, <2>4, <2>5 DEF TAction
<1>6. CASE TFileEnd /\ alive
  <2>1. /\ pc = "while" /\ pc' \in {"head", "finish"}
        /\ UNCHANGED <<alive, pos, outpos, nthfile, status>>
    BY <1>6 DEF TFileEnd, FileEnd, UnchangedData, file
  <2>2. CASE pc' = "head"
    BY <1>q, <2>1, <2>2
  <2>3. CASE pc' = "finish"
    BY <1>6, <1>t, <2>1, <2>3 DEF Contract!Next
  <2>. QED
    BY <2>1, <2>2, <2>3
<1>7. CASE UNCHANGED tvars
  BY <1>7, <1>q DEF tvars, dataVars, loopVars, flow, walk, file
<1>. QED
  BY <1>1, <1>2, <1>3, <1>4, <1>5, <1>6, <1>7 DEF TNext, TStep, Contract!Next

LEMMA ContractInit == TInit => Contract!Init
<1> SUFFICES ASSUME TInit PROVE Contract!Init
  OBVIOUS
<1>1. /\ nthfile = 0 /\ pc = "idle" /\ alive = TRUE
      /\ status = [f \in Files |-> "RUNNING"]
      /\ \A f \in Files : pos[f] = 0 /\ outpos[f] = 0
  BY DEF TInit, Init
<1>2. \A t : SubSeq(t, 1, 0) = << >>
  OBVIOUS
<1>3. \A f \in Files : Delivered(f) = << >>
  BY <1>1, <1>2 DEF Delivered
<1>. QED
  BY <1>1, <1>3 DEF Contract!Init, Contract!Sources

LEMMA ContractedStep == TypeOK /\ CountInv /\ Contracted /\ [TNext]_tvars => Contracted'
BY ArgumentsStay

\* With a source and an output of its own for every file, and as long as no read
\* fails and the disk has room, dpv(1) copies the files one after the other, and
\* a file it reports done was copied whole.
THEOREM CopiesAsPromised == TSpec /\ Contracted /\ []Undisturbed => CopiesInSequence
<1>1. TSpec => []TypeOK /\ []EndedInv /\ []CountInv
  BY TransferIsClient, AnyClient, TypeInit, CountInit, TransferStep, PTL DEF TSpec
<1>2. TSpec => []SourceInv /\ []StdinInv
  BY <1>1, CountInit, KeptInit, DescriptorStep, KeptStep, SourceIs, StdinInit, StdinStep, PTL
     DEF TSpec
<1>3. TSpec /\ Contracted => []Contracted
  BY <1>1, ContractedStep, PTL DEF TSpec
<1>4. Contracted => KeepsApart
  BY DEF Contracted, KeepsApart, MayCut
<1>5. TSpec /\ Contracted => []DataInv /\ []CopyInv
  BY <1>1, <1>2, <1>3, <1>4, DataInit, DataStep, CopyInit, CopyInvStep, PTL DEF TSpec
<1>6. [Contract!Next]_(Contract!copyVars) => [~ MayCut => Contract!Next]_(Contract!copyVars)
  OBVIOUS
<1>. QED
  BY <1>1, <1>2, <1>3, <1>5, <1>6, ContractInit, CopyFaithful, ContractStep, PTL
     DEF TSpec, CopiesInSequence
=============================================================================
