-------------------------- MODULE DistInstallProofs --------------------------
\* What an installation that succeeds has installed, for every release, every
\* server, medium and disk, and every answer of dpv(3).
EXTENDS DistInstall, TLAPS

Installed(f) ==
  \/ \A k \in 1..Entries[f] : <<f, k>> \in Range(extracted)
  \/ ~Listed(Names[f]) /\ disk[Names[f]] = 0
Failed == \E f \in Files : status[f] = "FAILED"

\* The variables have values of their types as far as the proofs look at them.
TypeInv ==
  /\ cfg \in Configs
  /\ pc \in Places /\ ret \in {"none", "ok", "err"}
  /\ nthfile \in 0..cfg.n /\ (pc = "while" => nthfile \in Files)
  /\ status \in [Files -> Status]
  /\ archive \in [of : Nat, pos : Nat]
  /\ extracted \in Seq(Nat \X Nat)

\* Extracting is the last stage, and begins with all that is listed in one piece.
StageInv ==
  /\ stage # "extract" => pc = "idle"
  /\ stage = "extract" => ChecksumOK
  /\ pc = "idle" => /\ archive = Closed /\ extracted = <<>> /\ exit # "ok"
                    /\ \A f \in Files : status[f] = "RUNNING"
  /\ exit = "ok" => pc = "returned" /\ ret = "ok"

\* Files are left when they are over, unless dpv() was interrupted.
EndedInv ==
  /\ pc = "head" /\ ~interrupt => \A f \in 1..nthfile : status[f] # "RUNNING"
  /\ pc = "while" => /\ keepGoing <=> status[nthfile] = "RUNNING"
                     /\ \A f \in 1..(nthfile - 1) : status[f] # "RUNNING"
  /\ pc \in {"head", "while"} => \A f \in (nthfile + 1)..cfg.n : status[f] = "RUNNING"
  /\ pc = "finish" /\ ~interrupt /\ ~abort => \A f \in Files : status[f] # "RUNNING"
  /\ pc = "returned" /\ ret = "ok" => ~abort /\ \A f \in Files : status[f] # "RUNNING"

\* A failure is the end: no callback follows it, and it is not forgotten.
FailInv ==
  Failed => /\ abort /\ pc \in {"while", "finish", "returned"}
            /\ pc = "while" => ~keepGoing

\* The archive that is open is the current file's, and what was read of it has
\* been extracted; unless dpv() is about to return.
ArchiveInv ==
  ~Failed =>
    /\ ~interrupt /\ archive # Closed =>
         pc = "while" /\ archive.of = nthfile /\ status[nthfile] = "RUNNING"
    /\ \A k \in 1..archive.pos : <<archive.of, k>> \in Range(extracted)

DoneInv ==
  /\ \A f \in Files : status[f] = "DONE" => Installed(f)
  /\ \A i \in DOMAIN extracted : extracted[i][1] \in Files
  /\ OnlyVerified

IInv == TypeInv /\ StageInv /\ EndedInv /\ FailInv /\ ArchiveInv /\ DoneInv

LEMMA InitHolds == InstallInit => IInv
<1> SUFFICES ASSUME InstallInit PROVE IInv
  OBVIOUS
<1>0. /\ pc = "idle" /\ ret = "none" /\ nthfile = 0 /\ cfg \in Configs
      /\ status = [f \in Files |-> "RUNNING"]
      /\ archive = Closed /\ extracted = <<>> /\ exit = "none" /\ stage # "extract"
  BY DEF InstallInit, Init, ExtractInit
<1>1. cfg.n \in Nat
  BY <1>0, ConfigsAssumption DEF ConfigOK
<1>2. archive.pos = 0
  BY <1>0 DEF Closed
<1>. QED
  BY <1>0, <1>1, <1>2 DEF IInv, TypeInv, Places, Status, StageInv, EndedInv, FailInv,
     Failed, ArchiveInv, DoneInv, OnlyVerified, Closed

-----------------------------------------------------------------------------
\* Before anything is extracted, what is fetched may change as it likes.
Before ==
  /\ stage # "extract" /\ (stage' = "extract" => ChecksumOK')
  /\ exit' # "ok"
  /\ UNCHANGED <<loopVars, archive, extracted>>

LEMMA BeforeHolds == IInv /\ Before => IInv'
<1> SUFFICES ASSUME IInv, Before PROVE IInv'
  OBVIOUS
<1>1. /\ pc = "idle" /\ archive = Closed /\ extracted = <<>>
      /\ \A f \in Files : status[f] = "RUNNING"
  BY DEF IInv, StageInv, Before
<1>2. UNCHANGED <<cfg, pc, ret, nthfile, status, keepGoing, interrupt, abort, archive, extracted>>
  BY DEF Before, loopVars, flow, walk, file, flags
<1>3. archive.pos = 0
  BY <1>1 DEF Closed
<1>4. TypeInv' /\ StageInv' /\ EndedInv'
  BY <1>1, <1>2 DEF Before, IInv, TypeInv, StageInv, EndedInv, Files
<1>5. FailInv' /\ ArchiveInv' /\ DoneInv'
  BY <1>1, <1>2, <1>3 DEF FailInv, Failed, ArchiveInv, DoneInv, OnlyVerified, Files
<1>. QED
  BY <1>4, <1>5 DEF IInv

LEMMA PreparationIsBefore ==
  ASSUME IInv,
         \/ StartNetwork \/ StartMedium \/ FetchStep \/ Fetched \/ FetchFails \/ Checksum
         \/ ServerTurns
  PROVE  Before
<1>1. exit # "ok" \/ stage = "extract"
  BY DEF IInv, StageInv
<1>2. CASE StartNetwork
  BY <1>1, <1>2 DEF StartNetwork, autoVars, Before
<1>3. CASE StartMedium
  BY <1>1, <1>3 DEF StartMedium, autoVars, Before
<1>4. CASE FetchStep
  BY <1>1, <1>4 DEF FetchStep, autoVars, Before
<1>5. CASE Fetched
  BY <1>1, <1>5 DEF Fetched, Before
<1>6. CASE FetchFails
  BY <1>1, <1>6 DEF FetchFails, autoVars, Before
<1>7. CASE Checksum
  <2>1. UNCHANGED <<cfg, disk, manifest, published>>
    BY <1>7 DEF Checksum, kept, loopVars
  <2>2. ChecksumOK' <=> ChecksumOK
    BY <2>1 DEF ChecksumOK, Distributions, Files, Listed, Matches, BlocksOf, Position
  <2>. QED
    BY <1>1, <1>7, <2>2 DEF Checksum, Before
<1>8. CASE ServerTurns
  BY <1>1, <1>8 DEF ServerTurns, clientVars, Before
<1>. QED
  BY <1>2, <1>3, <1>4, <1>5, <1>6, <1>7, <1>8

-----------------------------------------------------------------------------
\* While distextract runs, what it reads stays as it is.
Still == stage = "extract" /\ UNCHANGED <<stage, published, disk, manifest, cfg>>

LEMMA StillListed ==
  ASSUME Still
  PROVE  /\ ChecksumOK' <=> ChecksumOK
         /\ \A f : Listed(Names[f])' <=> Listed(Names[f])
         /\ \A f : Whole(f)' <=> Whole(f)
         /\ Files' = Files
BY DEF Still, ChecksumOK, Distributions, Files, Listed, Matches, BlocksOf, Position, Whole

\* What is checked is each distribution's own archive.
LEMMA ListedIsWhole ==
  ASSUME IInv, Still, NEW f \in Files, Listed(Names[f])
  PROVE  Whole(f)
<1>1. f \in DOMAIN Names
  BY ExtractAssumption DEF IInv, TypeInv, Files
<1>2. Matches(Names[f])
  BY DEF IInv, StageInv, Still, ChecksumOK, Distributions
<1>3. Position(Names[f]) = f
  BY <1>1, NamesAssumption DEF Position
<1>4. BlocksOf[Names[f]] = Entries[f] + 1
  BY <1>1, <1>3, NamesAssumption DEF BlocksOf, MANIFEST
<1>. QED
  BY <1>2, <1>4 DEF Matches, Whole

LEMMA AppendRange ==
  ASSUME NEW S, NEW s \in Seq(S), NEW x \in S
  PROVE  Range(Append(s, x)) = Range(s) \cup {x}
<1>1. /\ Len(Append(s, x)) = Len(s) + 1 /\ Len(s) \in Nat
      /\ DOMAIN s = 1..Len(s) /\ DOMAIN Append(s, x) = 1..(Len(s) + 1)
      /\ Append(s, x)[Len(s) + 1] = x
      /\ \A i \in 1..Len(s) : Append(s, x)[i] = s[i]
  OBVIOUS
<1>2. \A y : y \in Range(Append(s, x)) => y \in Range(s) \cup {x}
  <2> SUFFICES ASSUME NEW i \in 1..(Len(s) + 1) PROVE Append(s, x)[i] \in Range(s) \cup {x}
    BY <1>1 DEF Range
  <2>1. i \in 1..Len(s) \/ i = Len(s) + 1
    BY <1>1
  <2>. QED
    BY <1>1, <2>1 DEF Range
<1>3. \A i \in 1..Len(s) : s[i] \in Range(Append(s, x))
  <2> TAKE i \in 1..Len(s)
  <2>1. i \in 1..(Len(s) + 1) /\ Append(s, x)[i] = s[i]
    BY <1>1
  <2>. QED
    BY <1>1, <2>1 DEF Range
<1>4. x \in Range(Append(s, x))
  <2>1. Len(s) + 1 \in 1..(Len(s) + 1)
    BY <1>1
  <2>. QED
    BY <1>1, <2>1 DEF Range
<1>. QED
  BY <1>1, <1>2, <1>3, <1>4 DEF Range

\* Steps that do not touch the archive: of dpv(3) and of main().
Aside == Still /\ UNCHANGED <<archive, extracted>>

LEMMA AsideDone ==
  ASSUME DoneInv, Aside,
         \A f \in Files : status'[f] = status[f] \/ status'[f] # "DONE"
  PROVE  DoneInv'
<1>1. \A f \in Files : Installed(f) <=> Installed(f)'
  BY StillListed DEF Aside, Still, Installed
<1>. QED
  BY <1>1, StillListed DEF Aside, DoneInv, OnlyVerified

\* main() before and after dpv(3), and the memory there is for archives.
LEMMA MainHolds ==
  ASSUME IInv, Still, CountAll \/ MainFails \/ Exit \/ MemoryTurns
  PROVE  IInv'
<1>1. Aside /\ UNCHANGED loopVars
  BY DEF CountAll, MainFails, Exit, MemoryTurns, kept, Aside, Still
<1>2. UNCHANGED <<cfg, pc, ret, nthfile, status, keepGoing, interrupt, abort, archive, extracted>>
  BY <1>1 DEF Aside, loopVars, flow, walk, file, flags
<1>3. exit' = "ok" => pc = "returned" /\ ret = "ok"
  BY DEF CountAll, MainFails, Exit, MemoryTurns, IInv, StageInv
<1>4. exit' # "ok" \/ pc # "idle"
  BY <1>3
<1>5. StageInv'
  BY <1>2, <1>3, <1>4, StillListed DEF IInv, StageInv, Still
<1>6. TypeInv' /\ EndedInv' /\ FailInv' /\ ArchiveInv'
  BY <1>2, StillListed DEF IInv, TypeInv, EndedInv, FailInv, Failed, ArchiveInv
<1>7. DoneInv'
  BY <1>1, <1>2, AsideDone DEF IInv
<1>. QED
  BY <1>5, <1>6, <1>7 DEF IInv

\* What every step of dpv(3) leaves alone.
LEMMA DpvFrame ==
  ASSUME IInv, Still, exit = "none", UNCHANGED clientVars, pc' # "idle",
         \A f \in Files : status'[f] = status[f] \/ status'[f] # "DONE"
  PROVE  StageInv' /\ DoneInv'
<1>1. Aside /\ exit' = "none"
  BY DEF Aside, Still, clientVars
<1>. QED
  BY <1>1, AsideDone, StillListed DEF IInv, StageInv, Still

LEMMA CallHolds ==
  ASSUME IInv, Still, exit = "none", UNCHANGED clientVars, Call
  PROVE  IInv'
<1>1. /\ pc = "idle" /\ pc' = "head" /\ ret' = "none" /\ nthfile' = 0
      /\ status' = [f \in Files |-> "RUNNING"]
      /\ UNCHANGED <<keepGoing, interrupt, abort>>
  BY DEF Call, flags
<1>2. archive = Closed /\ archive.pos = 0 /\ UNCHANGED <<archive, extracted>>
  BY <1>1 DEF IInv, StageInv, clientVars, Closed
<1>3. cfg.n \in Nat /\ cfg' = cfg /\ Files' = Files
  BY ConfigsAssumption, StillListed DEF IInv, TypeInv, ConfigOK, Still
<1>4. TypeInv'
  BY <1>1, <1>2, <1>3 DEF IInv, TypeInv, Places, Status
<1>5. EndedInv'
  <2>1. \A f \in (nthfile' + 1)..cfg.n : f \in Files
    BY <1>1, <1>3 DEF Files
  <2>. QED
    BY <1>1, <1>3, <2>1 DEF EndedInv
<1>6. FailInv' /\ ArchiveInv'
  BY <1>1, <1>2, <1>3 DEF FailInv, Failed, ArchiveInv
<1>7. StageInv' /\ DoneInv'
  BY <1>1, DpvFrame
<1>. QED
  BY <1>4, <1>5, <1>6, <1>7 DEF IInv

\* A file is taken from the list, or the list is at its end: no file failed and
\* no archive is open, unless dpv(3) was interrupted.
LEMMA HeadHolds ==
  ASSUME IInv, Still, exit = "none", UNCHANGED clientVars,
         HeadInterrupted \/ HeadOpen \/ ListEnd
  PROVE  IInv'
<1>0. cfg.n \in Nat /\ nthfile \in 0..cfg.n /\ cfg' = cfg /\ Files' = Files
  BY ConfigsAssumption, StillListed DEF IInv, TypeInv, ConfigOK, Still
<1>1. /\ pc = "head" /\ pc' \in {"while", "finish"}
      /\ UNCHANGED <<ret, status, interrupt, abort, archive, extracted>>
  BY DEF HeadInterrupted, HeadOpen, ListEnd, NextFile, file, flags, clientVars
<1>2. ~Failed
  BY <1>1 DEF IInv, FailInv
<1>3. ~interrupt => archive = Closed
  BY <1>1, <1>2 DEF IInv, ArchiveInv
<1>4. /\ nthfile' \in 0..cfg.n
      /\ pc' = "while" => nthfile' \in Files /\ nthfile' = nthfile + 1 /\ keepGoing' /\ ~interrupt
  BY <1>0 DEF HeadInterrupted, HeadOpen, ListEnd, NextFile, walk, Files
<1>5. pc' = "finish" => interrupt \/ nthfile = cfg.n
  BY DEF HeadInterrupted, HeadOpen, ListEnd
<1>6. TypeInv'
  BY <1>0, <1>1, <1>4 DEF IInv, TypeInv, Places
<1>7. FailInv' /\ ArchiveInv'
  BY <1>0, <1>1, <1>2, <1>3 DEF IInv, FailInv, Failed, ArchiveInv
<1>8. EndedInv'
  <2>1. ~interrupt => \A f \in 1..nthfile : status[f] # "RUNNING"
    BY <1>1 DEF IInv, EndedInv
  <2>2. \A f \in (nthfile + 1)..cfg.n : status[f] = "RUNNING"
    BY <1>1 DEF IInv, EndedInv
  <2>3. CASE pc' = "while"
    <3>1. nthfile' - 1 = nthfile /\ nthfile' \in (nthfile + 1)..cfg.n
      BY <1>0, <1>4, <2>3 DEF Files
    <3>2. \A f \in (nthfile' + 1)..cfg.n : f \in (nthfile + 1)..cfg.n
      BY <1>0, <1>4, <2>3
    <3>. QED
      BY <1>0, <1>1, <1>4, <2>1, <2>2, <2>3, <3>1, <3>2 DEF EndedInv
  <2>4. CASE pc' = "finish"
    BY <1>0, <1>1, <1>5, <2>1, <2>4 DEF EndedInv, Files
  <2>. QED
    BY <1>1, <2>3, <2>4
<1>9. StageInv' /\ DoneInv'
  BY <1>1, DpvFrame
<1>. QED
  BY <1>6, <1>7, <1>8, <1>9 DEF IInv

\* dpv(3) leaves a file: it is over, or an interrupt or a failure is why.
LEMMA FileEndHolds ==
  ASSUME IInv, Still, exit = "none", UNCHANGED clientVars, FileEnd
  PROVE  IInv'
<1>0. cfg.n \in Nat /\ nthfile \in 0..cfg.n /\ cfg' = cfg /\ Files' = Files
  BY ConfigsAssumption, StillListed DEF IInv, TypeInv, ConfigOK, Still
<1>1. /\ pc = "while" /\ nthfile \in Files /\ (interrupt \/ ~keepGoing)
      /\ pc' = IF abort THEN "finish" ELSE "head"
      /\ UNCHANGED <<ret, nthfile, status, keepGoing, interrupt, abort, archive, extracted>>
  BY DEF FileEnd, file, flags, clientVars, IInv, TypeInv
<1>2. TypeInv'
  BY <1>0, <1>1 DEF IInv, TypeInv, Places
<1>3. EndedInv'
  <2>1. ASSUME ~interrupt, NEW f \in 1..nthfile PROVE status[f] # "RUNNING"
    <3>1. f \in 1..(nthfile - 1) \/ f = nthfile
      BY <1>0
    <3>. QED
      BY <1>1, <2>1, <3>1 DEF IInv, EndedInv
  <2>2. \A f \in (nthfile + 1)..cfg.n : status[f] = "RUNNING"
    BY <1>1 DEF IInv, EndedInv
  <2>. QED
    BY <1>0, <1>1, <2>1, <2>2 DEF EndedInv
<1>4. FailInv'
  BY <1>0, <1>1 DEF IInv, FailInv, Failed
<1>5. ArchiveInv'
  <2>1. ~interrupt => status[nthfile] # "RUNNING"
    BY <1>1 DEF IInv, EndedInv
  <2>. QED
    BY <1>0, <1>1, <2>1 DEF IInv, ArchiveInv, Failed
<1>6. StageInv' /\ DoneInv'
  BY <1>1, DpvFrame
<1>. QED
  BY <1>2, <1>3, <1>4, <1>5, <1>6 DEF IInv

LEMMA FinishHolds ==
  ASSUME IInv, Still, exit = "none", UNCHANGED clientVars, Finish
  PROVE  IInv'
<1>1. /\ pc = "finish" /\ pc' = "returned" /\ cfg' = cfg /\ Files' = Files
      /\ ret' = IF interrupt \/ abort THEN "err" ELSE "ok"
      /\ UNCHANGED <<nthfile, status, keepGoing, interrupt, abort, archive, extracted>>
  BY StillListed DEF Finish, walk, file, flags, clientVars, Still
<1>2. TypeInv' /\ EndedInv' /\ FailInv' /\ ArchiveInv'
  BY <1>1 DEF IInv, TypeInv, Places, EndedInv, FailInv, Failed, ArchiveInv
<1>3. StageInv' /\ DoneInv'
  BY <1>1, DpvFrame
<1>. QED
  BY <1>2, <1>3 DEF IInv

LEMMA InterruptHolds ==
  ASSUME IInv, Still, exit = "none", UNCHANGED clientVars, Interrupt
  PROVE  IInv'
<1>1. /\ pc \in {"head", "while", "finish"} /\ interrupt' = TRUE /\ Files' = Files
      /\ UNCHANGED <<cfg, pc, ret, nthfile, status, keepGoing, abort, archive, extracted>>
  BY StillListed DEF Interrupt, flow, walk, file, clientVars
<1>2. TypeInv' /\ EndedInv' /\ FailInv' /\ ArchiveInv'
  BY <1>1 DEF IInv, TypeInv, EndedInv, FailInv, Failed, ArchiveInv
<1>3. StageInv' /\ DoneInv'
  BY <1>1, DpvFrame
<1>. QED
  BY <1>2, <1>3 DEF IInv

-----------------------------------------------------------------------------
\* What a callback finds: the current file is running, nothing has failed, and
\* the archive it reads from is that file's, with all that was read of it extracted.
LEMMA CallbackFinds ==
  ASSUME IInv, InWhile
  PROVE  /\ ~Failed /\ nthfile \in Files /\ status[nthfile] = "RUNNING"
         /\ Opening.of = nthfile /\ Opening.pos \in Nat /\ Opening \in [of : Nat, pos : Nat]
         /\ \A k \in 1..Opening.pos : <<nthfile, k>> \in Range(extracted)
<1>1. pc = "while" /\ ~interrupt /\ keepGoing
  BY DEF InWhile
<1>2. ~Failed /\ nthfile \in Files /\ status[nthfile] = "RUNNING"
  BY <1>1 DEF IInv, FailInv, TypeInv, EndedInv
<1>3. cfg.n \in Nat
  BY ConfigsAssumption DEF IInv, TypeInv, ConfigOK
<1>4. CASE archive = Closed
  BY <1>2, <1>3, <1>4 DEF Opening, Files
<1>5. CASE archive # Closed
  BY <1>1, <1>2, <1>5 DEF IInv, ArchiveInv, TypeInv, Opening
<1>. QED
  BY <1>2, <1>4, <1>5

\* What a callback for the current file leaves, whatever it did to the archive.
LEMMA CallbackLeaves ==
  ASSUME IInv, Still, exit = "none", NEW p, NEW st \in Status, NEW a, Callback(p, st, a),
         archive' \in [of : Nat, pos : Nat], extracted' \in Seq(Nat \X Nat),
         exit' # "ok", st = "FAILED" => a
  PROVE  /\ TypeInv' /\ StageInv' /\ EndedInv' /\ FailInv'
         /\ Failed' <=> st = "FAILED"
         /\ pc' = "while" /\ UNCHANGED <<nthfile, interrupt>>
         /\ status' \in [Files -> Status] /\ status'[nthfile] = st
         /\ \A f \in Files \ {nthfile} : status'[f] = status[f]
<1>0. cfg.n \in Nat /\ nthfile \in 0..cfg.n /\ cfg' = cfg /\ Files' = Files
      /\ ~cfg.noOverrun /\ ~cfg.test
  BY ConfigsAssumption, ExtractAssumption, StillListed DEF IInv, TypeInv, ConfigOK, Still
<1>1. /\ pc = "while" /\ pc' = "while" /\ abort' = a
      /\ status' = [status EXCEPT ![nthfile] = st]
      /\ UNCHANGED <<ret, nthfile, interrupt>>
  BY DEF Callback, InWhile, flow, walk
<1>2. keepGoing' = (st = "RUNNING")
  BY <1>0 DEF Callback, AfterCallback
<1>3. ~Failed /\ nthfile \in Files
  BY CallbackFinds DEF Callback
<1>4. /\ status' \in [Files -> Status] /\ status'[nthfile] = st
      /\ \A f \in Files \ {nthfile} : status'[f] = status[f]
  BY <1>1, <1>3 DEF IInv, TypeInv
<1>5. Failed' <=> st = "FAILED"
  BY <1>0, <1>3, <1>4 DEF Failed
<1>6. TypeInv'
  BY <1>0, <1>1, <1>3, <1>4 DEF IInv, TypeInv
<1>7. StageInv'
  BY <1>1, StillListed DEF IInv, StageInv, Still
<1>8. FailInv'
  BY <1>1, <1>2, <1>5 DEF FailInv
<1>9. EndedInv'
  <2>1. \A f \in 1..(nthfile - 1) : f \in Files \ {nthfile}
    BY <1>0 DEF Files
  <2>2. \A f \in (nthfile + 1)..cfg.n : f \in Files \ {nthfile}
    BY <1>0 DEF Files
  <2>3. /\ \A f \in 1..(nthfile - 1) : status'[f] # "RUNNING"
        /\ \A f \in (nthfile + 1)..cfg.n : status'[f] = "RUNNING"
    BY <1>1, <1>4, <2>1, <2>2 DEF IInv, EndedInv
  <2>. QED
    BY <1>0, <1>1, <1>2, <1>4, <2>3 DEF EndedInv
<1>. QED
  BY <1>1, <1>4, <1>5, <1>6, <1>7, <1>8, <1>9
\* The action fails, or finds no memory: nothing is extracted.
LEMMA FailureHolds ==
  ASSUME IInv, Still, exit = "none", NoMemory \/ CannotOpen \/ EntryFails
  PROVE  IInv'
<1>1. InWhile
  BY DEF NoMemory, CannotOpen, EntryFails, Fail, Callback
<1>2. /\ Opening.of \in Nat /\ Opening.pos \in Nat /\ Opening \in [of : Nat, pos : Nat]
      /\ nthfile \in Files /\ ~Failed /\ status[nthfile] = "RUNNING"
  BY <1>1, CallbackFinds DEF IInv, TypeInv
<1>3. archive' \in [of : Nat, pos : Nat]
  <2>1. archive' \in {archive, Opening, [Opening EXCEPT !.pos = @ + 1]}
    BY DEF NoMemory, CannotOpen, EntryFails
  <2>2. [Opening EXCEPT !.pos = @ + 1] \in [of : Nat, pos : Nat]
    BY <1>2
  <2>. QED
    BY <1>2, <2>1, <2>2 DEF IInv, TypeInv
<1>4. UNCHANGED <<extracted, exit>> /\ extracted' \in Seq(Nat \X Nat)
  BY DEF NoMemory, CannotOpen, EntryFails, IInv, TypeInv
<1>5. PICK st \in {"RUNNING", "FAILED"} :
        /\ Callback(-1, st, TRUE)
        /\ st = "RUNNING" => archive = Closed /\ archive' = archive
  BY <1>2 DEF NoMemory, CannotOpen, EntryFails, Fail
<1>6. st \in Status
  BY DEF Status
<1>7. /\ TypeInv' /\ StageInv' /\ EndedInv' /\ FailInv'
      /\ Failed' <=> st = "FAILED"
      /\ status'[nthfile] = st /\ \A f \in Files \ {nthfile} : status'[f] = status[f]
  BY <1>3, <1>4, <1>5, <1>6, CallbackLeaves
<1>8. ArchiveInv'
  <2>1. ~Failed' => archive' = Closed /\ archive'.pos = 0
    BY <1>5, <1>7 DEF Closed
  <2>. QED
    BY <2>1 DEF ArchiveInv, Closed
<1>9. DoneInv'
  <2>1. \A f \in Files : Installed(f) <=> Installed(f)'
    BY <1>4, StillListed DEF Still, Installed
  <2>2. \A f \in Files : status'[f] = status[f] \/ status'[f] # "DONE"
    BY <1>7
  <2>. QED
    BY <1>4, <2>1, <2>2, StillListed DEF IInv, DoneInv, OnlyVerified
<1>. QED
  BY <1>7, <1>8, <1>9 DEF IInv

\* Where the archive of a file ends without an error, all of it was extracted, or
\* nothing was there to be checked.
LEMMA EndIsWhole ==
  ASSUME IInv, Still, InWhile, AtEnd(Opening.of, Opening.pos)
  PROVE  Installed(nthfile)
<1>1. /\ nthfile \in Files /\ nthfile \in DOMAIN Names /\ Entries[nthfile] \in Nat
      /\ Opening.of = nthfile
      /\ \A k \in 1..Opening.pos : <<nthfile, k>> \in Range(extracted)
  BY CallbackFinds, NamesAssumption, ExtractAssumption DEF IInv, TypeInv, Files
<1>2. CASE Whole(nthfile)
  <2>1. Opening.pos = Entries[nthfile]
    BY <1>1, <1>2 DEF AtEnd, Readable
  <2>. QED
    BY <1>1, <2>1 DEF Installed
<1>3. CASE disk[Names[nthfile]] = 0
  <2>1. ASSUME Listed(Names[nthfile]) PROVE disk[Names[nthfile]] = Entries[nthfile] + 1
    BY <1>1, <2>1, ListedIsWhole DEF Whole
  <2>. QED
    BY <1>1, <1>3, <2>1 DEF Installed
<1>. QED
  BY <1>1, <1>2, <1>3 DEF AtEnd

LEMMA EndOfArchiveHolds ==
  ASSUME IInv, Still, exit = "none", EndOfArchive
  PROVE  IInv'
<1>1. /\ Callback(100, "DONE", abort) /\ InWhile
      /\ archive' = Closed /\ UNCHANGED <<extracted, exit>>
  BY DEF EndOfArchive, AfterEnd, Callback
<1>2. archive' \in [of : Nat, pos : Nat] /\ archive'.pos = 0 /\ extracted' \in Seq(Nat \X Nat)
  BY <1>1 DEF Closed, IInv, TypeInv
<1>3. /\ TypeInv' /\ StageInv' /\ EndedInv' /\ FailInv'
      /\ \A f \in Files \ {nthfile} : status'[f] = status[f]
  BY <1>1, <1>2, CallbackLeaves DEF Status
<1>4. ArchiveInv'
  BY <1>1, <1>2 DEF ArchiveInv, Closed
<1>5. DoneInv'
  <2>1. Installed(nthfile)
    BY <1>1, EndIsWhole DEF EndOfArchive
  <2>2. \A f \in Files : Installed(f) <=> Installed(f)'
    BY <1>1, StillListed DEF Still, Installed
  <2>. QED
    BY <1>1, <1>3, <2>1, <2>2, StillListed DEF IInv, DoneInv, OnlyVerified
<1>. QED
  BY <1>3, <1>4, <1>5 DEF IInv

LEMMA ExtractEntryHolds ==
  ASSUME IInv, Still, exit = "none", ExtractEntry
  PROVE  IInv'
<1>1. InWhile
  BY DEF ExtractEntry, Callback
<1>2. /\ ~Failed /\ nthfile \in Files /\ nthfile \in Nat /\ status[nthfile] = "RUNNING"
      /\ Opening.of = nthfile /\ Opening.pos \in Nat
      /\ \A k \in 1..Opening.pos : <<nthfile, k>> \in Range(extracted)
  BY <1>1, CallbackFinds DEF Files
<1>3. PICK n \in Nat : n = Opening.pos + 1 /\ Opening.pos = n - 1
  BY <1>2
<1>4. /\ archive' = [of |-> nthfile, pos |-> n]
      /\ extracted' = Append(extracted, <<nthfile, n>>)
  BY <1>2, <1>3, CallbackFinds, <1>1 DEF ExtractEntry
<1>5. /\ archive' \in [of : Nat, pos : Nat]
      /\ <<nthfile, n>> \in Nat \X Nat
      /\ extracted \in Seq(Nat \X Nat) /\ extracted' \in Seq(Nat \X Nat)
  <2>1. <<nthfile, n>> \in Nat \X Nat /\ [of |-> nthfile, pos |-> n] \in [of : Nat, pos : Nat]
    BY <1>2, <1>3
  <2>2. extracted \in Seq(Nat \X Nat)
    BY DEF IInv, TypeInv
  <2>3. Append(extracted, <<nthfile, n>>) \in Seq(Nat \X Nat)
    BY <2>1, <2>2
  <2>. QED
    BY <1>4, <2>1, <2>2, <2>3
<1>6. exit' # "ok"
  BY DEF ExtractEntry
<1>7. /\ TypeInv' /\ StageInv' /\ EndedInv' /\ FailInv' /\ ~Failed'
      /\ pc' = "while" /\ nthfile' = nthfile
      /\ \A f \in Files : status'[f] = status[f]
  <2>1. CASE Callback(Percent(nthfile), status[nthfile], abort)
    <3>1. "RUNNING" \in Status
      BY DEF Status
    <3>. QED
      BY <1>2, <1>5, <1>6, <2>1, <3>1, CallbackLeaves
  <2>2. CASE UNCHANGED loopVars
    <3>1. UNCHANGED <<cfg, pc, ret, nthfile, status, keepGoing, interrupt, abort>> /\ pc = "while"
      BY <1>1, <2>2 DEF loopVars, flow, walk, file, flags, InWhile
    <3>2. TypeInv' /\ EndedInv' /\ FailInv' /\ ~Failed'
      BY <1>2, <1>5, <3>1, StillListed DEF IInv, TypeInv, EndedInv, FailInv, Failed
    <3>3. StageInv'
      BY <1>6, <3>1, StillListed DEF IInv, StageInv, Still
    <3>. QED
      BY <3>1, <3>2, <3>3
  <2>. QED
    BY <2>1, <2>2 DEF ExtractEntry
<1>8. Range(extracted') = Range(extracted) \cup {<<nthfile, n>>}
  <2>1. Range(Append(extracted, <<nthfile, n>>)) = Range(extracted) \cup {<<nthfile, n>>}
    <3>1. extracted \in Seq(Nat \X Nat)
      BY <1>5
    <3>2. \A x \in Nat \X Nat : Range(Append(extracted, x)) = Range(extracted) \cup {x}
      BY <3>1, AppendRange, Zenon
    <3>. QED
      BY <1>5, <3>2, Zenon
  <2>. QED
    BY <1>4, <2>1, Zenon
<1>9. ArchiveInv'
  <2>1. ASSUME NEW k \in 1..n PROVE <<nthfile, k>> \in Range(extracted')
    <3>1. k \in 1..Opening.pos \/ k = n
      BY <1>2, <1>3
    <3>2. CASE k \in 1..Opening.pos
      BY <1>2, <1>8, <3>2, Zenon
    <3>3. CASE k = n
      BY <1>8, <3>3, Zenon
    <3>. QED
      BY <3>1, <3>2, <3>3
  <2>2. archive'.of = nthfile /\ archive'.pos = n
    BY <1>4
  <2>3. status'[nthfile] = "RUNNING"
    BY <1>2, <1>7
  <2>. QED
    BY <1>7, <2>1, <2>2, <2>3 DEF ArchiveInv
<1>10. DoneInv'
  <2>1. \A f \in Files : Installed(f) => Installed(f)'
    BY <1>8, StillListed DEF Still, Installed
  <2>2. \A i \in DOMAIN extracted' :
          \/ i \in DOMAIN extracted /\ extracted'[i] = extracted[i]
          \/ extracted'[i][1] = nthfile
    BY <1>4 DEF IInv, TypeInv
  <2>3. Listed(Names[nthfile]) => Whole(nthfile)
    BY <1>2, ListedIsWhole
  <2>. QED
    BY <1>2, <1>7, <2>1, <2>2, <2>3, StillListed DEF IInv, DoneInv, OnlyVerified
<1>. QED
  BY <1>7, <1>9, <1>10 DEF IInv
-----------------------------------------------------------------------------
\* Every step of the installation keeps the invariant.
LEMMA NextHolds == IInv /\ [InstallNext]_vars => IInv'
<1> SUFFICES ASSUME IInv, [InstallNext]_vars PROVE IInv'
  OBVIOUS
<1>1. CASE \/ StartNetwork \/ StartMedium \/ FetchStep \/ Fetched \/ FetchFails \/ Checksum
           \/ ServerTurns
  BY <1>1, PreparationIsBefore, BeforeHolds
<1>2. ASSUME stage = "extract", UNCHANGED autoVars, CountAll \/ MainFails \/ Exit \/ MemoryTurns
      PROVE  IInv'
  <2>1. Still
    BY <1>2 DEF Still, autoVars, CountAll, MainFails, Exit, MemoryTurns, kept, loopVars
  <2>. QED
    BY <1>2, <2>1, MainHolds
<1>3. ASSUME stage = "extract", UNCHANGED autoVars, DpvStep \/ DpvInterrupt
      PROVE  IInv'
  <2>1. exit = "none" /\ UNCHANGED clientVars
    BY <1>3 DEF DpvStep, DpvInterrupt
  <2>2. UNCHANGED cfg
    BY <1>3 DEF DpvStep, DpvInterrupt, Call, HeadInterrupted, HeadOpen, ListEnd, FileEnd,
       Finish, Interrupt
  <2>3. Still
    BY <1>3, <2>1, <2>2 DEF Still, autoVars, clientVars
  <2>. QED
    BY <1>3, <2>1, <2>3, CallHolds, HeadHolds, FileEndHolds, FinishHolds, InterruptHolds
    DEF DpvStep, DpvInterrupt
<1>4. ASSUME stage = "extract", UNCHANGED autoVars, ActionStep
      PROVE  IInv'
  <2>1. exit = "none" /\ Action
    BY <1>4 DEF ActionStep
  <2>2. UNCHANGED <<cfg, kept>>
    BY <2>1 DEF Action, NoMemory, CannotOpen, EndOfArchive, EntryFails, ExtractEntry, Fail,
       Callback, loopVars
  <2>3. Still
    BY <1>4, <2>2 DEF Still, autoVars, kept
  <2>. QED
    BY <2>1, <2>3, FailureHolds, EndOfArchiveHolds, ExtractEntryHolds DEF Action
<1>5. CASE UNCHANGED vars
  <2>1. CASE stage = "extract"
    <3>1. Still /\ UNCHANGED <<loopVars, clientVars>>
      BY <1>5, <2>1 DEF vars, autoVars, clientVars, loopVars, Still
    <3>2. UNCHANGED <<cfg, pc, ret, nthfile, status, keepGoing, interrupt, abort,
                      archive, extracted, exit>>
      BY <3>1 DEF loopVars, flow, walk, file, flags, clientVars
    <3>3. Aside
      BY <3>1, <3>2 DEF Aside
    <3>4. TypeInv' /\ StageInv' /\ EndedInv' /\ FailInv' /\ ArchiveInv'
      BY <3>1, <3>2, StillListed DEF IInv, TypeInv, StageInv, EndedInv, FailInv, Failed,
         ArchiveInv, Still
    <3>. QED
      BY <3>2, <3>3, <3>4, AsideDone DEF IInv
  <2>2. CASE stage # "extract"
    <3>1. exit # "ok"
      BY <2>2 DEF IInv, StageInv
    <3>2. Before
      BY <1>5, <2>2, <3>1 DEF Before, vars, autoVars, clientVars
    <3>. QED
      BY <3>2, BeforeHolds
  <2>. QED
    BY <2>1, <2>2
<1>. QED
  BY <1>1, <1>2, <1>3, <1>4, <1>5
  DEF InstallNext, Install, Extract, ExtractStep, Interrupted, MemoryTurns, Ended

LEMMA InstallKeeps == InstallSpec => []IInv
<1>. QED
  BY InitHolds, NextHolds, PTL DEF InstallSpec

\* When the installer goes on after distextract, every distribution is there with
\* all its entries, however many there are, whatever failed on the way, and
\* however often dpv(3) was interrupted or its client short of memory.
THEOREM SuccessIsInstalled == InstallSpec => []SuccessMeansInstalled
<1>1. IInv => SuccessMeansInstalled
  <2> SUFFICES ASSUME IInv, exit = "ok", NEW f \in Files PROVE Installed(f)
    BY DEF SuccessMeansInstalled, Installed
  <2>1. ~abort /\ status[f] # "RUNNING"
    BY DEF IInv, StageInv, EndedInv
  <2>2. status[f] # "FAILED" /\ status[f] \in Status
    BY <2>1 DEF IInv, FailInv, Failed, TypeInv
  <2>. QED
    BY <2>1, <2>2 DEF Status, IInv, DoneInv
<1>. QED
  BY <1>1, InstallKeeps, PTL

\* Nothing of a distribution that MANIFEST lists is extracted unless it came whole.
THEOREM ExtractedIsVerified == InstallSpec => []OnlyVerified
<1>1. IInv => OnlyVerified
  BY DEF IInv, DoneInv
<1>. QED
  BY <1>1, InstallKeeps, PTL

\* After an archive failed nothing more is extracted, as dpv_abort keeps dpv()
\* from the next file and FAILED from another callback for this one.
THEOREM FailureIsTheEnd == InstallSpec => NothingAfterFailure
<1>1. IInv /\ [InstallNext]_vars => [Failed => extracted' = extracted]_vars
  <2> SUFFICES ASSUME IInv, InstallNext, Failed PROVE extracted' = extracted
    OBVIOUS
  <2>1. ~InWhile
    BY DEF IInv, FailInv, InWhile
  <2>2. ~ActionStep
    BY <2>1 DEF ActionStep
  <2>. QED
    BY <2>2 DEF InstallNext, Install, StartNetwork, StartMedium, FetchStep, Fetched,
       FetchFails, Checksum, Extract, ExtractStep, CountAll, MainFails, DpvStep, Exit,
       Interrupted, DpvInterrupt, MemoryTurns, ServerTurns, Ended, clientVars, vars
<1>. QED
  BY <1>1, InstallKeeps, PTL DEF InstallSpec, NothingAfterFailure, Failed
=============================================================================
