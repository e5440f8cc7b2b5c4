------------------------------- MODULE DpvLoop -------------------------------
(***************************************************************************)
(* libdpv: the body of dpv(3), for an arbitrary client.                    *)
(*                                                                         *)
(* dpv() walks a list of files.  For each it opens an output, calls the    *)
(* client's action callback until the file is finished, redraws the gauge, *)
(* and pages through the list, display_limit files to a page.  The client  *)
(* is anything dpv.3 allows: the callback may return any percentage, set   *)
(* any status on the current file and raise dpv_abort; dpv_interrupt may   *)
(* be raised by a signal handler at any time.                              *)
(*                                                                         *)
(* A program may call dpv() several times (dpv.3 tells it which globals to *)
(* reset in between); dpv_nfiles is such a global of the library.          *)
(***************************************************************************)
EXTENDS Integers, FiniteSetsExt

CONSTANTS
    Configs,   \* the (config, file_list) pairs the program may call dpv() with
    Pcts,      \* the values the action callback may return
    Word,      \* 2^(width of unsigned int): the overall percentage is unsigned
    MaxCalls   \* bound: calls of dpv() made by one program

(***************************************************************************)
(* One call's arguments.  A file is its position in the list; lines[f] is  *)
(* the number of screen lines its label takes.  rows is the height of the  *)
(* screen and base the height of the box without the file lines.           *)
(***************************************************************************)
ConfigOK(c) ==
    /\ c.n \in Nat
    /\ c.lines \in [1 .. c.n -> Nat]
    /\ c.limit \in Int
    /\ c.rows \in Nat /\ c.base \in Nat
    /\ c.output \in {"NONE", "FILE", "SHELL"}
    /\ c.noOverrun \in BOOLEAN
    /\ c.test \in BOOLEAN
    /\ c.increment \in Nat \ {0}

ASSUME ConfigsAssumption == \A c \in Configs : ConfigOK(c)
ASSUME PctsAssumption == Pcts \subseteq Int
ASSUME WordAssumption == Word \in Nat \ {0}
ASSUME MaxCallsAssumption == MaxCalls \in Nat

VARIABLES
    cfg,        \* the arguments of the calls
    calls,      \* calls of dpv() made so far
    pc,         \* where dpv() is
    ret,        \* what the last call returned
    nfiles,     \* dpv_nfiles: a global, counted up by every call
    limit,      \* display_limit, after dprompt_init()
    nthfile,    \* nthfile; curfile is the nthfile'th node of the list
    filesLeft,  \* files_left
    listHead,   \* list_head, as a position in the list
    status,     \* the status member of each node
    keepGoing,  \* keep_going
    pct,        \* pct
    interrupt,  \* dpv_interrupt
    abort,      \* dpv_abort
    gauge,      \* gauge_percent, the percentage on the screen
    page,       \* what the last redraw showed: the page's head, the current file, its pct
    oldNth      \* dialog_old_nthfile

flow == <<calls, pc, ret, nfiles>>
walk == <<limit, nthfile, filesLeft, listHead>>
file == <<status, keepGoing, pct>>
flags == <<interrupt, abort>>
screen == <<gauge, page, oldNth>>
loopVars == <<cfg, flow, walk, file, flags, screen>>

Status == {"RUNNING", "DONE", "FAILED"}
Places == {"idle", "head", "while", "finish", "returned"}
Files == 1 .. cfg.n
DPV_DISPLAY_LIMIT == 10
NoPage == [head |-> 1, cur |-> 0, pct |-> 0]  \* drawn before the loop: no current file

-----------------------------------------------------------------------------
(***************************************************************************)
(* Paging: how many files fit on the screen.                               *)
(***************************************************************************)

\* The lines taken by the (at most d) files of a page that starts at file h.
PageLines(c, h, d) ==
    MapThenSumSet(LAMBDA f : c.lines[f], {f \in h .. (h + d - 1) : f <= c.n})

\* fheight for pages of d files: the tallest page, and never less than one
\* line for each file.  nf is dpv_nfiles.
Fheight(c, nf, d) ==
    LET pages == {PageLines(c, h, d) : h \in {i \in 1 .. c.n : (i - 1) % d = 0}}
    IN  Max(pages \cup {IF nf > d THEN d ELSE nf})

\* display_limit as dprompt_init() first sets it, from the request of dpv().
Requested(c) ==
    IF c.limit < -1 THEN -1
    ELSE IF c.limit = 0 \/ c.limit > DPV_DISPLAY_LIMIT THEN DPV_DISPLAY_LIMIT
    ELSE c.limit

Fits(c, nf, d) == c.base + Fheight(c, nf, d) <= c.rows

\* dprompt_init() lowers display_limit until a page fits; it may reach 0.
IsDisplayLimit(c, nf, d) ==
    IF Requested(c) < 0
    THEN d = Requested(c)
    ELSE /\ d \in 0 .. Requested(c)
         /\ d > 0 => Fits(c, nf, d)
         /\ \A e \in (d + 1) .. Requested(c) : ~ Fits(c, nf, e)

-----------------------------------------------------------------------------
(***************************************************************************)
(* The overall percentage: int arithmetic divided by an unsigned count.    *)
(***************************************************************************)
Progress(nth, p) == 100 * nth - 100 + p
Unsigned(x) == x % Word
Signed(x) == IF 2 * x >= Word THEN x - Word ELSE x

\* Mutant: the files before the current one are forgotten.
OverallOfOne(nth, p, nf) == p \div nf

Overall(nth, p, nf) ==
    LET q == Signed(Unsigned(Progress(nth, p)) \div nf)
        r == Unsigned(Progress(nth, p) * 10) \div nf
    IN  IF r % 100 > 50 THEN q + 1 ELSE q

\* Mutant: a percentage out of range reaches the gauge.
DrawUnchecked(p) ==
    /\ gauge' = Overall(nthfile, p, nfiles)
    /\ page' = [head |-> listHead, cur |-> nthfile, pct |-> p]
    /\ oldNth' = nthfile

\* dprompt_recreate() and dprompt_libprint() or dprompt_dprint(): the page is
\* redrawn; a percentage out of range leaves the gauge where it was.
Draw(p) ==
    LET o == Overall(nthfile, p, nfiles)
    IN  /\ gauge' = IF o \in 0 .. 100 THEN o ELSE gauge
        /\ page' = [head |-> listHead, cur |-> nthfile, pct |-> p]
        /\ oldNth' = nthfile

\* Mutant: a redraw is due only on the first callback for a file.
MaybeDrawOnce(p) == IF nthfile # oldNth THEN Draw(p) ELSE UNCHANGED screen

\* A redraw is due on the first callback for a file and at 100; in between,
\* it depends on the clock.
MaybeDraw(p) ==
    \/ Draw(p)
    \/ /\ nthfile = oldNth /\ p # 100
       /\ UNCHANGED screen

-----------------------------------------------------------------------------
Init ==
    /\ cfg \in Configs
    /\ calls = 0 /\ pc = "idle" /\ ret = "none" /\ nfiles = 0
    /\ limit = 0 /\ nthfile = 0 /\ filesLeft = 0 /\ listHead = 1
    /\ status = [f \in Files |-> "RUNNING"] /\ keepGoing = FALSE /\ pct = 0
    /\ interrupt = FALSE /\ abort = FALSE
    /\ gauge = 0 /\ page = NoPage /\ oldNth = 0

\* The program calls dpv() without a file to process.
CallEmpty ==
    /\ pc = "idle" /\ calls < MaxCalls
    /\ nfiles + cfg.n = 0
    /\ calls' = calls + 1 /\ pc' = "returned" /\ ret' = "err"
    /\ UNCHANGED <<cfg, nfiles, walk, file, flags, screen>>

\* The program calls dpv() with a fresh list.  Everything up to the loop over
\* the list happens here; the gauge is first drawn at 0.
Call ==
    /\ pc = "idle" /\ calls < MaxCalls
    /\ nfiles + cfg.n > 0
    /\ calls' = calls + 1 /\ pc' = "head" /\ ret' = "none"
    /\ nfiles' = nfiles + cfg.n
    /\ \E d \in -1 .. DPV_DISPLAY_LIMIT :
          /\ IsDisplayLimit(cfg, nfiles', d)
          /\ limit' = d
    /\ nthfile' = 0 /\ filesLeft' = nfiles' /\ listHead' = 1
    /\ status' = [f \in Files |-> "RUNNING"]
    /\ gauge' = 0 /\ page' = NoPage /\ oldNth' = 0
    /\ UNCHANGED <<cfg, keepGoing, pct, flags>>

\* The head of the loop over the list: counters move to the next node.
NextFile ==
    /\ pc = "head" /\ nthfile < cfg.n
    /\ nthfile' = nthfile + 1 /\ filesLeft' = filesLeft - 1
    /\ keepGoing' = TRUE
    /\ pct' = IF cfg.test /\ ~ interrupt THEN 0 - cfg.increment ELSE 0

HeadInterrupted ==
    /\ NextFile
    /\ interrupt
    /\ pc' = "finish"
    /\ UNCHANGED <<cfg, calls, ret, nfiles, limit, listHead, status, flags, screen>>

HeadOpen ==
    /\ NextFile
    /\ ~ interrupt
    /\ pc' = "while"
    /\ UNCHANGED <<cfg, calls, ret, nfiles, limit, listHead, status, flags, screen>>

\* The output file cannot be opened: dpv() returns from the middle of the loop.
HeadOpenFails ==
    /\ NextFile
    /\ ~ interrupt
    /\ cfg.output = "FILE" /\ ~ cfg.test
    /\ pc' = "returned" /\ ret' = "err"
    /\ UNCHANGED <<cfg, calls, nfiles, limit, listHead, status, flags, screen>>

ListEnd ==
    /\ pc = "head" /\ nthfile = cfg.n
    /\ pc' = "finish"
    /\ UNCHANGED <<cfg, calls, ret, nfiles, walk, file, flags, screen>>

\* Mutant: an interrupt does not stop the callbacks.
InWhileInterrupted == pc = "while" /\ keepGoing

InWhile == pc = "while" /\ ~ interrupt /\ keepGoing

\* Mutant: a file that reached 100 is left although it is still running.
AfterCallbackHundred(p, st) ==
    /\ pct' = p
    /\ keepGoing' = (p < 100 /\ st = "RUNNING")
    /\ MaybeDraw(p)

\* Mutant: a file is cut only beyond 100.
AfterCallbackBeyond(p, st) ==
    /\ pct' = p
    /\ keepGoing' = IF cfg.noOverrun \/ cfg.test THEN p <= 100
                                                 ELSE st = "RUNNING"
    /\ MaybeDraw(p)

\* What follows a callback that returned p with the current file in status st.
AfterCallback(p, st) ==
    /\ pct' = p
    /\ keepGoing' = IF cfg.noOverrun \/ cfg.test THEN p < 100
                                                 ELSE st = "RUNNING"
    /\ MaybeDraw(p)

\* One turn of the inner loop: the action callback returns p, leaves the
\* current file in status st and dpv_abort in a.
Callback(p, st, a) ==
    /\ InWhile /\ ~ cfg.test
    /\ status' = [status EXCEPT ![nthfile] = st]
    /\ abort' = a
    /\ AfterCallback(p, st)
    /\ UNCHANGED <<cfg, flow, walk, interrupt>>

ClientCallback ==
    \E p \in Pcts, st \in Status, a \in {abort, TRUE} : Callback(p, st, a)

\* Mutant: the simulated percentage stands still.
TestCallbackStill ==
    /\ InWhile /\ cfg.test
    /\ AfterCallback(pct, status[nthfile])
    /\ UNCHANGED <<cfg, flow, walk, status, flags>>

\* In test mode the callback is not called: the percentage is simulated.
TestCallback ==
    /\ InWhile /\ cfg.test
    /\ AfterCallback(pct + cfg.increment, status[nthfile])
    /\ UNCHANGED <<cfg, flow, walk, status, flags>>

\* Mutant: the page turns one file late.
AdvanceLate(nth) == IF limit > 0 /\ nth > 1 /\ (nth - 1) % limit = 0 THEN nth + 1 ELSE listHead

\* list_head, after file nth: pages turn when one is full.
Advance(nth) == IF limit > 0 /\ nth % limit = 0 THEN nth + 1 ELSE listHead

\* Mutant: dpv_abort is not looked at.
FileEndNoAbort ==
    /\ pc = "while" /\ (interrupt \/ ~ keepGoing)
    /\ pc' = "head" /\ listHead' = Advance(nthfile)
    /\ UNCHANGED <<cfg, calls, ret, nfiles, limit, nthfile, filesLeft, file, flags, screen>>

\* The inner loop is left: the output is closed, and waited for; dpv_abort is
\* looked at; the page may turn.
FileEnd ==
    /\ pc = "while" /\ (interrupt \/ ~ keepGoing)
    /\ IF abort
       THEN pc' = "finish" /\ listHead' = listHead
       ELSE pc' = "head" /\ listHead' = Advance(nthfile)
    /\ UNCHANGED <<cfg, calls, ret, nfiles, limit, nthfile, filesLeft, file, flags, screen>>

Finish ==
    /\ pc = "finish"
    /\ pc' = "returned"
    /\ ret' = IF interrupt \/ abort THEN "err" ELSE "ok"
    /\ UNCHANGED <<cfg, calls, nfiles, walk, file, flags, screen>>

\* Between two calls the program resets the globals that dpv.3 lists.
ResetGlobals ==
    /\ pc = "returned" /\ calls < MaxCalls
    /\ pc' = "idle"
    /\ interrupt' = FALSE /\ abort' = FALSE
    /\ UNCHANGED <<cfg, calls, ret, nfiles, walk, file, screen>>

\* A signal handler of the program raises dpv_interrupt during the call.
Interrupt ==
    /\ pc \in {"head", "while", "finish"}
    /\ ~ interrupt
    /\ interrupt' = TRUE
    /\ UNCHANGED <<cfg, flow, walk, file, abort, screen>>

Loop ==
    \/ CallEmpty \/ Call
    \/ HeadInterrupted \/ HeadOpen \/ HeadOpenFails \/ ListEnd
    \/ ClientCallback \/ TestCallback
    \/ FileEnd \/ Finish
    \/ ResetGlobals

Next == Loop \/ Interrupt

Spec == Init /\ [][Next]_loopVars

\* dpv() itself never waits for anything but the callback: it keeps running.
FairSpec == Spec /\ WF_loopVars(Loop)

-----------------------------------------------------------------------------
(***************************************************************************)
(* Properties                                                              *)
(***************************************************************************)

\* Every variable keeps the type its C declaration and its uses give it.
TypeOK ==
    /\ cfg \in Configs
    /\ calls \in Nat /\ nfiles \in Nat
    /\ pc \in Places /\ ret \in {"none", "ok", "err"}
    /\ limit \in Int /\ nthfile \in 0 .. cfg.n
    /\ filesLeft \in Int /\ listHead \in 1 .. (cfg.n + 1)
    /\ status \in [Files -> Status] /\ keepGoing \in BOOLEAN /\ pct \in Int
    /\ interrupt \in BOOLEAN /\ abort \in BOOLEAN
    /\ gauge \in 0 .. 100 /\ oldNth \in 0 .. cfg.n
    /\ page \in [head : 1 .. (cfg.n + 1), cur : 0 .. cfg.n, pct : Int]

\* The page on the screen always contains the file being processed: dpv()
\* turns pages (list_head, "Advance head of list when we hit the max display
\* lines") in step with dprompt_add_files(), which stops after display_limit
\* entries and would otherwise never reach the current file.
PageShowsCurrent ==
    limit > 0 /\ page.cur > 0 =>
        page.head <= page.cur /\ page.cur < page.head + limit

\* dpv() returns success only when every file of the list was worked on until
\* its client ended it, unless the client asked for another rule.
SuccessMeansAllEnded ==
    pc = "returned" /\ ret = "ok" /\ ~ cfg.noOverrun /\ ~ cfg.test =>
        \A f \in Files : status[f] # "RUNNING"

\* Once a callback raised dpv_abort no further file is started, whatever the
\* client's later callbacks for the current file do.
NoFileAfterAbort == [][abort => nthfile' = nthfile]_loopVars

\* In the first call, a client whose last callback returns 100 leaves the gauge
\* full, also when earlier percentages were out of range or skipped.
FullAtSuccess ==
    calls = 1 /\ pc = "returned" /\ ret = "ok" /\ pct = 100 => gauge = 100

\* In test mode, where percentages only grow, the gauge never moves back: not
\* within a file, and not when the next file starts again from zero.  (It does
\* move back when the increment oversteps 100, as Xdialog's does.)
GaugeNeverBack ==
    [][ cfg.test /\ 100 % cfg.increment = 0 /\ calls' = calls
        => gauge' >= gauge ]_loopVars

\* After an interrupt dpv() returns, even to a client that would never end its
\* file.
InterruptReturns == interrupt ~> pc = "returned"

\* Test mode ends by itself, with either increment.
TestModeEnds == (pc = "head" /\ cfg.test) ~> pc = "returned"
=============================================================================
