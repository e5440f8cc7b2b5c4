----------------------------- MODULE DistExtract -----------------------------
\* bsdinstall's distextract as a client of dpv(3): its action reads one entry
\* of an archive and extracts it.  The archive being read is kept in a static
\* variable from one call of the action to the next, and from file to file.
EXTENDS DpvLoop, SequencesExt

CONSTANTS
  Names,       \* the distributions, in order; a name is a sequence of its parts
  Entries      \* how many entries the archive of each has

VARIABLES
  manifest,
  disk,        \* how many blocks of each archive there are: one for each entry
               \* and one for the end
  archive,     \* the archive that is open: whose it is, and the entries read
  reads, lengths,   \* the nodes' members read and length
  extracted,   \* the entries that were extracted
  memory,      \* archive_read_new() would find memory
  exit

clientVars == <<manifest, disk, archive, reads, lengths, extracted, memory, exit>>
kept == <<manifest, disk>>

Distributions == {Names[f] : f \in Files}
Absent == -1     \* instead of a length: there is no such file
Closed == [of |-> 0, pos |-> 0]
Whole(f) == disk[Names[f]] = Entries[f] + 1

ExtractInit ==
  /\ archive = Closed
  /\ reads = [f \in Files |-> 0] /\ lengths = [f \in Files |-> -1]
  /\ extracted = <<>> /\ memory = TRUE /\ exit = "none"

-----------------------------------------------------------------------------
\* archive(3).  A file that is cut off gives an error where it ends, one that is
\* empty is an archive without entries.
Readable(f) ==
  IF Whole(f) THEN Entries[f]
  ELSE IF disk[Names[f]] <= Entries[f] THEN disk[Names[f]] ELSE Entries[f]
AtEnd(f, pos) == pos = Readable(f) /\ (Whole(f) \/ disk[Names[f]] = 0)
CutOff(f, pos) == disk[Names[f]] = Absent \/ (pos = Readable(f) /\ ~AtEnd(f, pos))

\* The count of the first line with a name that the distribution's begins with.
Mentioned(f) == {k \in DOMAIN manifest : IsPrefix(manifest[k].name, Names[f])}
CountFiles(f) ==
  IF Mentioned(f) # {}
  THEN manifest[CHOOSE k \in Mentioned(f) : \A j \in Mentioned(f) : k <= j].count
  ELSE Readable(f)

Uncountable(f) == Mentioned(f) = {} /\ disk[Names[f]] = Absent

CountAll ==
  /\ pc = "idle" /\ calls = 0 /\ exit = "none" /\ \A f \in Files : lengths[f] = -1
  /\ \A f \in Files : ~Uncountable(f)
  /\ lengths' = [f \in Files |-> CountFiles(f)]
  /\ UNCHANGED <<loopVars, kept, archive, reads, extracted, memory, exit>>

\* An archive cannot be counted, memory is short, or chdir(2) fails.
MainFails ==
  /\ pc = "idle" /\ calls = 0 /\ exit = "none"
  /\ exit' = "err"
  /\ UNCHANGED <<loopVars, kept, archive, reads, lengths, extracted, memory>>

-----------------------------------------------------------------------------
\* extract_files()
Opens == archive # Closed \/ (memory /\ disk[Names[nthfile]] # Absent)
Opening == IF archive = Closed THEN [of |-> nthfile, pos |-> 0] ELSE archive

\* The list is to be aborted, but its file stays as it is: dpv(3) calls again.
NoMemory ==
  /\ archive = Closed /\ ~memory
  /\ Callback(-1, status[nthfile], TRUE)
  /\ UNCHANGED <<kept, archive, reads, lengths, extracted, memory, exit>>

\* Mutant: the list goes on after a failure.
FailOn == Callback(-1, "FAILED", abort)
\* Mutant: the file is left as it is.
FailRunning == Callback(-1, status[nthfile], TRUE)
Fail == Callback(-1, "FAILED", TRUE)

CannotOpen ==
  /\ archive = Closed /\ memory
  /\ Fail
  /\ archive' = Opening
  /\ UNCHANGED <<kept, reads, lengths, extracted, memory, exit>>

\* Mutant: the archive stays open at its end.
AfterEndOpen == Opening
AfterEnd == Closed

EndOfArchive ==
  /\ Opens
  /\ AtEnd(Opening.of, Opening.pos)
  /\ Callback(100, "DONE", abort)
  /\ archive' = AfterEnd
  /\ UNCHANGED <<kept, reads, lengths, extracted, memory, exit>>

\* Entries that are damaged, or cannot be extracted.
EntryFails ==
  /\ Opens
  /\ \/ CutOff(Opening.of, Opening.pos) /\ archive' = Opening
     \/ /\ Opening.pos < Readable(Opening.of)
        /\ archive' = [Opening EXCEPT !.pos = @ + 1]
  /\ Fail
  /\ UNCHANGED <<kept, reads, lengths, extracted, memory, exit>>

\* Extracted, or all but its times.
Percent(f) == ((reads[f] + 1) * 100) \div lengths[f]
ExtractEntry ==
  /\ Opens
  /\ Opening.pos < Readable(Opening.of)
  /\ archive' = [Opening EXCEPT !.pos = @ + 1]
  /\ extracted' = Append(extracted, <<Opening.of, Opening.pos + 1>>)
  /\ reads' = [reads EXCEPT ![nthfile] = @ + 1]
  /\ IF lengths[nthfile] = 0
     THEN InWhile /\ exit' = "crashed" /\ UNCHANGED loopVars
     ELSE Callback(Percent(nthfile), status[nthfile], abort) /\ UNCHANGED exit
  /\ UNCHANGED <<kept, lengths, memory>>

Action == NoMemory \/ CannotOpen \/ EndOfArchive \/ EntryFails \/ ExtractEntry

-----------------------------------------------------------------------------
DpvStep ==
  /\ exit = "none" /\ \A f \in Files : lengths[f] >= 0
  /\ \/ Call \/ HeadInterrupted \/ HeadOpen \/ ListEnd \/ FileEnd \/ Finish
  /\ UNCHANGED clientVars
DpvInterrupt ==
  exit = "none" /\ Interrupt /\ UNCHANGED clientVars
ActionStep == exit = "none" /\ InWhile /\ Action
Exit ==
  /\ exit = "none" /\ pc = "returned"
  /\ exit' = ret
  /\ UNCHANGED <<loopVars, kept, archive, reads, lengths, extracted, memory>>

ExtractStep == CountAll \/ MainFails \/ DpvStep \/ ActionStep \/ Exit
=============================================================================
