----------------------------- MODULE DpvTransfer -----------------------------
(***************************************************************************)
(* dpv(1): the data path.                                                  *)
(*                                                                         *)
(* dpv(1) is a client of libdpv (DpvLoop): its action callback reads a     *)
(* buffer from the source of the current file and writes it to the output  *)
(* dpv() opened for it.  The source is a static descriptor of dpv(1) that  *)
(* outlives the callback: it is opened on the first callback that finds    *)
(* none, and closed when a read does not return data.  Without -m it is    *)
(* the standard input, found by descriptor arithmetic, since dialog(3) may *)
(* have moved it.                                                          *)
(*                                                                         *)
(* The model has the table of descriptors, the offsets of the sources and  *)
(* outputs, and the contents of the outputs.  A unit of data is a token    *)
(* <<source, position>>.  Test mode (-T) moves no data and is left to      *)
(* DpvLoop.                                                                *)
(***************************************************************************)
EXTENDS DpvLoop, Sequences

CONSTANTS
    BufSize,    \* bound: tokens in the buffer
    MaxFd,      \* the highest descriptor the process may have
    MaxErrors   \* bound: reads that fail with an error

ASSUME BufSizeAssumption == BufSize \in Nat \ {0}
ASSUME MaxFdAssumption == MaxFd \in Nat
ASSUME MaxErrorsAssumption == MaxErrors \in Nat

VARIABLES
    desc,     \* the table of descriptors
    fd,       \* fd: the source, -1 when none is open
    outfd,    \* output_out
    pos,      \* offset of each source
    read,     \* the read member of each node
    overall,  \* dpv_overall_read
    out,      \* contents of the outputs
    outpos,   \* offset each output was written up to
    free,     \* room left on the disk of the outputs
    errors,   \* reads that failed so far
    alive     \* FALSE when the process died in the middle

dataVars == <<desc, fd, outfd, pos, read, overall, out, outpos, free, errors, alive>>
tvars == <<loopVars, dataVars>>

-----------------------------------------------------------------------------
(***************************************************************************)
(* The invocation.  kinds[f] is the contents of source f, "nl" a newline,  *)
(* "nul" a NUL, "ch" another byte; length[f] the number given before the   *)
(* label, -1 for none; sink[f] the output dpv() writes file f to: by -o    *)
(* the path with the label put in (labels may be equal, or -o may have no  *)
(* %s), by -x a new command each.  stale is what an output file already    *)
(* held, space what the disk of the outputs has room for besides.          *)
(***************************************************************************)
Kind == {"ch", "nl", "nul"}

InvocationOK(c) ==
    /\ ConfigOK(c)
    /\ ~ c.test
    /\ c.kinds \in [1 .. c.n -> Seq(Kind)]
    /\ c.length \in [1 .. c.n -> Nat \cup {-1}]
    /\ c.openable \in [1 .. c.n -> BOOLEAN]
    /\ c.outOK \in [1 .. c.n -> BOOLEAN]
    /\ c.sink \in [1 .. c.n -> 1 .. c.n]
    /\ c.output = "SHELL" => \A f, g \in 1 .. c.n : c.sink[f] = c.sink[g] => f = g
    /\ c.multiple \in BOOLEAN /\ c.lineMode \in BOOLEAN
    /\ ~ c.multiple => c.n = 1
    /\ c.display \in {"LIBDIALOG", "DIALOG"}
    /\ c.piped \in BOOLEAN
    /\ ~ c.multiple => c.piped
    /\ c.stale \in Nat /\ c.space \in Nat

ASSUME InvocationsAssumption == \A c \in Configs : InvocationOK(c)

Size(f) == Len(cfg.kinds[f])
Token(f, i) == [src |-> f, at |-> i]
Src(f) == [i \in 1 .. Size(f) |-> Token(f, i)]
Stale(i) == [src |-> 0, at |-> i]

-----------------------------------------------------------------------------
(***************************************************************************)
(* Descriptors                                                             *)
(***************************************************************************)
Fds == 0 .. MaxFd
Desc(k, f) == [k |-> k, f |-> f]
Closed == Desc("closed", 0)
Source(f) == Desc("src", f)
Other(k) == Desc(k, 0)

IsLowestFree(d, i) ==
    /\ i \in Fds /\ d[i] = Closed
    /\ \A j \in Fds : d[j] = Closed => i <= j

NoneFree(d) == \A i \in Fds : d[i] # Closed

Stdin(c) == IF ~ c.piped THEN Other("tty")
            ELSE IF c.multiple THEN Other("stdin") ELSE Source(1)

\* dialog_maxcols() and dialog_maxrows() each leave an open /dev/tty behind
\* while the standard input is not a terminal.
Ttys(c, k) == IF c.piped THEN [i \in 1 .. k |-> Other("devtty")] ELSE << >>

\* init_dialog(3) opens the terminal, keeps a duplicate of a standard input that
\* is not a terminal, and puts the terminal in its place.
InitDialog(c) ==
    <<Other("tty"), Other("stdout"), Other("stderr")>> \o Ttys(c, 1)
    \o IF c.piped THEN <<Other("devtty"), Stdin(c)>> ELSE << >>

\* With dialog(1) the standard input stays where it is; the gauge is a process
\* behind a pipe, of which dpv() keeps both ends.
SpawnGauge(c) ==
    <<Stdin(c), Other("stdout"), Other("stderr")>> \o Ttys(c, 5)
    \o <<Other("gaugeR"), Other("gaugeW")>>

\* The descriptors when the loop over the files starts.
Table(c) == IF c.display = "LIBDIALOG" THEN InitDialog(c) ELSE SpawnGauge(c)
SetUp(c) == [i \in Fds |-> IF i < Len(Table(c)) THEN Table(c)[i + 1] ELSE Closed]

\* Mutant: the reading end of the pipe is thought to be closed.
StdinFdOnePipe(d, lowest) ==
    LET start == IF d[0].k = "tty" THEN lowest - 1 ELSE 0
    IN  IF cfg.output = "NONE" THEN start ELSE start - 1

\* operate_common() without -m: descriptor 0, or, if that is a terminal, the
\* highest descriptor in use, found by opening one more; then as many less as
\* dpv() opened for the output.
StdinFd(d, lowest) ==
    LET start == IF d[0].k = "tty" THEN lowest - 1 ELSE 0
    IN  CASE cfg.output = "FILE"  -> start - 1
          [] cfg.output = "SHELL" -> start - 2
          [] OTHER                -> start

\* The source behind descriptor i, or 0: reading anything else fails.
SourceOf(d, i) == IF i \in Fds /\ d[i].k = "src" THEN d[i].f ELSE 0

-----------------------------------------------------------------------------
TInit ==
    /\ Init
    /\ desc = [i \in Fds |-> Closed] /\ fd = -1 /\ outfd = -1
    /\ pos = [f \in Files |-> 0] /\ read = [f \in Files |-> 0] /\ overall = 0
    /\ out = [f \in Files |-> IF cfg.output = "FILE" THEN [i \in 1 .. cfg.stale |-> Stale(i)]
                                                     ELSE << >>]
    /\ outpos = [f \in Files |-> 0] /\ free = cfg.space
    /\ errors = 0 /\ alive = TRUE

TCall ==
    /\ Call
    /\ desc' = SetUp(cfg)
    /\ UNCHANGED <<fd, outfd, pos, read, overall, out, outpos, free, errors, alive>>

UnchangedData == UNCHANGED <<fd, pos, read, overall, out, outpos, free, errors, alive>>

\* No output was asked for, or the command line for -x does not fit its buffer:
\* the file is processed without an output.
TOpenNothing ==
    /\ HeadOpen
    /\ \/ cfg.output = "NONE"
       \/ cfg.output = "SHELL" /\ ~ cfg.outOK[nthfile']
    /\ outfd' = -1
    /\ UNCHANGED desc /\ UnchangedData

\* -o: the file is opened for writing at its start, created if need be, and not
\* truncated.
TOpenFile ==
    /\ HeadOpen
    /\ cfg.output = "FILE" /\ cfg.outOK[nthfile']
    /\ \E i \in Fds : /\ IsLowestFree(desc, i)
                      /\ desc' = [desc EXCEPT ![i] = Other("out")]
                      /\ outfd' = i
    /\ UnchangedData

TOpenFileFails ==
    /\ HeadOpenFails
    /\ ~ cfg.outOK[nthfile'] \/ NoneFree(desc)
    /\ outfd' = -1
    /\ UNCHANGED desc /\ UnchangedData

\* -x: a pipe to a new command; dpv() keeps both ends.
TSpawn ==
    /\ HeadOpen
    /\ cfg.output = "SHELL" /\ cfg.outOK[nthfile']
    /\ \E i, j \in Fds :
          /\ IsLowestFree(desc, i)
          /\ IsLowestFree([desc EXCEPT ![i] = Other("pipeR")], j)
          /\ desc' = [desc EXCEPT ![i] = Other("pipeR"), ![j] = Other("pipeW")]
          /\ outfd' = j
    /\ UnchangedData

\* No two descriptors are left for the pipe: err(3) ends the process.
TSpawnDies ==
    /\ pc = "head" /\ nthfile < cfg.n /\ ~ interrupt
    /\ cfg.output = "SHELL" /\ cfg.outOK[nthfile + 1]
    /\ \/ NoneFree(desc)
       \/ \E i \in Fds : /\ IsLowestFree(desc, i)
                         /\ NoneFree([desc EXCEPT ![i] = Other("pipeR")])
    /\ alive' = FALSE
    /\ UNCHANGED <<loopVars, desc, fd, outfd, pos, read, overall, out, outpos, free, errors>>

-----------------------------------------------------------------------------
(***************************************************************************)
(* The action callback: operate_on_bytes() and operate_on_lines()          *)
(***************************************************************************)

\* operate_common() with -m: the path cannot be opened.
OpenSourceFails ==
    /\ fd < 0 /\ cfg.multiple
    /\ ~ cfg.openable[nthfile] \/ NoneFree(desc)
    /\ Callback(-1, "FAILED", abort)
    /\ UNCHANGED dataVars

\* operate_common(): the table of descriptors and the source after it.
LowestFree == {i \in Fds : IsLowestFree(desc, i)}
Opened ==
    IF fd >= 0 THEN {[table |-> desc, fd |-> fd]}
    ELSE IF cfg.multiple
    THEN {[table |-> [desc EXCEPT ![i] = Source(nthfile)], fd |-> i] :
            i \in {j \in LowestFree : cfg.openable[nthfile]}}
    ELSE {[table |-> desc, fd |-> StdinFd(desc, i)] :
            i \in LowestFree \cup {j \in {-1} : NoneFree(desc)}}

NoData(s) ==
    \/ s = 0 /\ errors' = errors
    \/ s # 0 /\ pos[s] = Size(s) /\ errors' = errors
    \/ s # 0 /\ errors < MaxErrors /\ errors' = errors + 1

\* Mutants: the descriptor is closed but remembered; the file is left running.
ReadEndsKeeps(d, i) ==
    /\ NoData(SourceOf(d, i))
    /\ desc' = IF i # 0 /\ i \in Fds THEN [d EXCEPT ![i] = Closed] ELSE d
    /\ fd' = i
    /\ Callback(100, "DONE", abort)
    /\ UNCHANGED <<outfd, pos, read, overall, out, outpos, free, alive>>
ReadEndsRunning(d, i) ==
    /\ NoData(SourceOf(d, i))
    /\ desc' = IF i # 0 /\ i \in Fds THEN [d EXCEPT ![i] = Closed] ELSE d
    /\ fd' = -1
    /\ Callback(100, "RUNNING", abort)
    /\ UNCHANGED <<outfd, pos, read, overall, out, outpos, free, alive>>

\* read(2) gives no data: end of file, an error, or not a source at all.  The
\* descriptor is closed (unless it is 0) and forgotten.
ReadEnds(d, i) ==
    /\ NoData(SourceOf(d, i))
    /\ desc' = IF i # 0 /\ i \in Fds THEN [d EXCEPT ![i] = Closed] ELSE d
    /\ fd' = -1
    /\ Callback(100, "DONE", abort)
    /\ UNCHANGED <<outfd, pos, read, overall, out, outpos, free, alive>>

\* What the buffer of m tokens after position p of source s counts for: its
\* tokens, or its newlines up to the first NUL.
Units(s, p, m) ==
    IF ~ cfg.lineMode THEN m
    ELSE Cardinality({i \in (p + 1) .. (p + m) :
             /\ cfg.kinds[s][i] = "nl"
             /\ \A j \in (p + 1) .. i : cfg.kinds[s][j] # "nul"})

\* The percentage for rd units read of a file of the given length.
Percent(rd, length) ==
    LET p == (rd * 100) \div (IF length > 0 THEN length ELSE 1)
    IN  IF length < 0 THEN -1
        ELSE IF cfg.noOverrun /\ p = 100 /\ rd < length THEN p - 1
        ELSE p

\* operate_on_lines() divides by the length without looking: a trap on some
\* processors, 0 on others.
DividesByZero == cfg.lineMode /\ cfg.length[nthfile] = 0

\* How many of m tokens written to output g at offset p find room: a disk may
\* be full, a pipe is waited for.
Larger(x, y) == IF x > y THEN x ELSE y
Smaller(x, y) == IF x < y THEN x ELSE y
RoomFor(g, p, m) ==
    IF cfg.output # "FILE" THEN m
    ELSE Smaller(m, free + Larger(Len(out[g]) - p, 0))

\* The output after its tokens from position p + 1 are overwritten by data.
Overwrite(old, p, data) ==
    [i \in 1 .. Larger(p + Len(data), Len(old)) |->
        IF i > p /\ i <= p + Len(data) THEN data[i - p] ELSE old[i]]

\* Output g after data is written at p; what does not overwrite takes room.
Store(g, p, data) ==
    LET new == Overwrite(out[g], p, data)
    IN  /\ out' = [out EXCEPT ![g] = new]
        /\ free' = IF cfg.output = "FILE" THEN free - (Len(new) - Len(out[g])) ELSE free

Chunk(s, w) == SubSeq(Src(s), pos[s] + 1, pos[s] + w)

\* Mutants: every write starts over; the offset lags one token behind.
WrittenAtStart(s, m, w) ==
    IF outfd < 0 THEN UNCHANGED <<out, outpos, free>>
    ELSE /\ Store(cfg.sink[nthfile], 0, Chunk(s, w))
         /\ outpos' = [outpos EXCEPT ![nthfile] = w]
WrittenLagging(s, m, w) ==
    IF outfd < 0 THEN UNCHANGED <<out, outpos, free>>
    ELSE /\ Store(cfg.sink[nthfile], outpos[nthfile], Chunk(s, w))
         /\ outpos' = [outpos EXCEPT ![nthfile] = @ + w - 1]

\* write(2) took w of the m tokens just read from source s; the code looks no
\* closer than "not negative".
Written(s, m, w) ==
    IF outfd < 0 THEN UNCHANGED <<out, outpos, free>>
    ELSE /\ Store(cfg.sink[nthfile], outpos[nthfile], Chunk(s, w))
         /\ outpos' = [outpos EXCEPT ![nthfile] = @ + w]

\* read(2) gives m tokens of source s, they are written, and counted.
ReadData(d, i, m) ==
    LET s == SourceOf(d, i)
        w == RoomFor(cfg.sink[nthfile], outpos[nthfile], m)
        u == Units(s, pos[s], m)
        rd == read[nthfile] + u
        pct100 == Percent(rd, cfg.length[nthfile])
    IN  /\ s # 0 /\ m <= Size(s) - pos[s]
        /\ outfd >= 0 => w > 0
        /\ desc' = d /\ fd' = i
        /\ Written(s, m, w)
        /\ pos' = [pos EXCEPT ![s] = @ + m]
        /\ read' = [read EXCEPT ![nthfile] = rd]
        /\ overall' = overall + u
        /\ Callback(IF DividesByZero THEN 0 ELSE pct100, status[nthfile], abort)
        /\ UNCHANGED <<outfd, errors, alive>>

\* The process dies in the callback: write(2) fails for want of space, or the
\* division traps.
TActionDies ==
    /\ InWhile
    /\ \E o \in Opened :
          /\ SourceOf(o.table, o.fd) # 0
          /\ pos[SourceOf(o.table, o.fd)] < Size(SourceOf(o.table, o.fd))
    /\ \/ outfd >= 0 /\ RoomFor(cfg.sink[nthfile], outpos[nthfile], 1) = 0
       \/ DividesByZero
    /\ alive' = FALSE
    /\ UNCHANGED <<loopVars, desc, fd, outfd, pos, read, overall, out, outpos, free, errors>>

TAction ==
    /\ InWhile
    /\ \/ OpenSourceFails
       \/ \E o \in Opened :
             \/ ReadEnds(o.table, o.fd)
             \/ \E m \in 1 .. BufSize : ReadData(o.table, o.fd, m)

-----------------------------------------------------------------------------
\* Mutant: the output stays open.
TFileEndLeaks ==
    /\ FileEnd
    /\ outfd' = -1
    /\ UNCHANGED desc /\ UnchangedData

\* dpv() closes its end of the output, and waits for a command to finish.
TFileEnd ==
    /\ FileEnd
    /\ desc' = IF outfd >= 0 THEN [desc EXCEPT ![outfd] = Closed] ELSE desc
    /\ outfd' = -1
    /\ UnchangedData

TOtherwise ==
    /\ HeadInterrupted \/ ListEnd \/ Finish
    /\ UNCHANGED dataVars

\* main() catches SIGINT only when dialog(3) owns the terminal; otherwise the
\* signal ends the process.
TInterrupt ==
    /\ pc \in {"head", "while", "finish"}
    /\ \/ cfg.display = "LIBDIALOG" /\ Interrupt /\ UNCHANGED dataVars
       \/ /\ cfg.display # "LIBDIALOG"
          /\ alive' = FALSE
          /\ UNCHANGED <<loopVars, desc, fd, outfd, pos, read, overall, out, outpos, free, errors>>

TStep ==
    \/ TCall \/ TOpenNothing \/ TOpenFile \/ TOpenFileFails \/ TSpawn \/ TSpawnDies
    \/ TAction \/ TActionDies \/ TFileEnd \/ TOtherwise

TNext == alive /\ (TStep \/ TInterrupt)

TSpec == TInit /\ [][TNext]_tvars

\* dpv(1) runs alone; what it waits for (a source, a command) is here always
\* ready, so it keeps running.
TFairSpec == TSpec /\ WF_tvars(alive /\ TStep)

-----------------------------------------------------------------------------
(***************************************************************************)
(* Properties                                                              *)
(***************************************************************************)
Tokens == [src : 0 .. cfg.n, at : Nat]

\* -N ended file f at the length stated for it: dpv(1) was not called again for
\* it, and left its source open.
CutShort(f) ==
    cfg.noOverrun /\ cfg.length[f] >= 0 /\ read[f] >= Larger(cfg.length[f], 1)

\* With -m, "read from a set of paths (one for each label)": a descriptor kept
\* from an earlier callback belongs to the file the next callback is for, or to
\* an earlier one, if -N cut that file and every file since.  (Those are not read
\* from their own paths: operate_common() opens a path only when fd is negative.)
OwnSource ==
    alive /\ InWhile /\ cfg.multiple /\ fd >= 0 =>
        LET s == SourceOf(desc, fd)
        IN  s \in 1 .. nthfile /\ \A f \in s .. (nthfile - 1) : CutShort(f)

\* Without -m the bytes come from the standard input: the descriptor arithmetic
\* finds it again wherever dialog(3) put it and whatever dpv() opened since.
FindsStdin ==
    alive /\ ~ cfg.multiple /\ status[1] = "DONE" => pos[1] > 0 \/ Size(1) = 0

\* What of source f reached its output, or was read if there is none.
Delivered(f) ==
    IF cfg.output = "NONE" THEN SubSeq(Src(f), 1, pos[f])
    ELSE SubSeq(out[cfg.sink[f]], 1, outpos[f])

\* The files after one that -N cuts may be read from its source.
MayCut == cfg.multiple /\ cfg.noOverrun /\ \E f \in Files : cfg.length[f] >= 0

\* The contract of dpv(1), as long as each file has an output of its own.
Contract == INSTANCE SequentialCopy WITH
    src <- [f \in Files |-> Src(f)],
    current <- nthfile,
    copied <- [f \in Files |-> Delivered(f)],
    outcome <- status,
    running <- alive /\ pc \in {"idle", "head", "while"}

\* It is kept by every invocation in which a file has no source but its own.
CopiesInSequence ==
    Contract!Init /\ [][~ MayCut => Contract!Next]_(Contract!copyVars)

\* Whatever is lost to full disks and read errors is lost at the end: an output
\* that no other file shares has received a prefix of its source (where a file
\* has no source but its own).  The code does not look at short writes; that the
\* next write fails is what ends the process before anything could be written
\* behind the gap.
DeliversPrefix ==
    ~ MayCut => \A f \in Files : (\A g \in Files : cfg.sink[g] = cfg.sink[f] => g = f) =>
        /\ outpos[f] <= Size(f)
        /\ Delivered(f) = SubSeq(Src(f), 1, Len(Delivered(f)))

Open(d) == {i \in Fds : d[i] # Closed}

\* With -m, between two files as many descriptors are open as when the loop
\* started, and one more while the source of a file that -N cut is kept; each
\* command started by -x leaves one behind.
DescriptorsGoBack ==
    alive /\ cfg.multiple /\ pc = "head" /\ ~ interrupt =>
        Cardinality(Open(desc)) =
            Len(Table(cfg)) + (IF fd >= 0 THEN 1 ELSE 0)
            + IF cfg.output = "SHELL"
              THEN Cardinality({f \in 1 .. nthfile : cfg.outOK[f]}) ELSE 0

\* -N, "stop reading known-length inputs when input reaches stated length": a
\* callback is made only while the file is short of its length, so that no more
\* than one buffer is read beyond it.  (Lines of a file said to have none are a
\* division by zero: where that does not trap, the file is read to its end.)
StopsWithinBuffer ==
    cfg.noOverrun => \A f \in Files :
        cfg.length[f] >= 0 /\ ~ (cfg.lineMode /\ cfg.length[f] = 0)
            => read[f] < Larger(cfg.length[f], 1) + BufSize

\* dpv(1) ends: every file is read to its end, failed, cut or interrupted.  The
\* exception is a path that cannot be opened with -N: the loop then looks at the
\* percentage and not at the status, and the path is tried again for ever.
Terminates ==
    \/ <>(pc = "returned" \/ ~ alive)
    \/ <>[](cfg.noOverrun /\ nthfile \in Files /\ status[nthfile] = "FAILED")
=============================================================================
