----------------------------- MODULE DistInstall -----------------------------
\* The part of the installer's script "auto" that brings the distributions to
\* the disk: those that are not on the installation medium are fetched, the
\* others and MANIFEST are copied by the same program, all are checked, and
\* extracted.
EXTENDS DistExtract

CONSTANTS
  Published    \* the lines of MANIFEST that the release may have

ASSUME NamesAssumption ==
  /\ \A f, g \in DOMAIN Names : Names[f] = Names[g] => f = g
  /\ \A f \in DOMAIN Names : Names[f] # <<"MANIFEST">> /\ Entries[f] \in Nat
\* distextract has an action of its own, and is done with a file when it says so.
ASSUME ExtractAssumption ==
  \A c \in Configs : 1..c.n \subseteq DOMAIN Names /\ ~c.noOverrun /\ ~c.test

VARIABLES
  stage, local, published,
  serving,                                \* the server answers, or hangs up
  list, told, at, next, got, nsuccess     \* distfetch

fetchVars == <<list, told, at, next, got, nsuccess>>
autoVars == <<stage, local, published, serving>>
vars == <<loopVars, clientVars, autoVars, fetchVars>>

MANIFEST == <<"MANIFEST">>
Position(d) == CHOOSE f \in DOMAIN Names : Names[f] = d
BlocksOf ==
  [d \in {Names[f] : f \in DOMAIN Names} \cup {MANIFEST} |->
     IF d = MANIFEST THEN Len(published) ELSE Entries[Position(d)] + 1]

Fetch == INSTANCE DistFetch WITH blocks <- BlocksOf

Selected == SubSeq(Names, 1, cfg.n)
Remote == SelectSeq(Selected, LAMBDA d : d \notin local)
Medium == <<MANIFEST>> \o SelectSeq(Selected, LAMBDA d : d \in local)

InstallInit ==
  /\ Init /\ ExtractInit
  /\ published \in Published /\ manifest = <<>>
  /\ disk = [d \in DOMAIN BlocksOf |-> Absent]
  /\ local \in SUBSET Distributions /\ serving = TRUE
  /\ stage = IF Remote # <<>> THEN "network" ELSE "medium"
  /\ list = <<>> /\ told = {} /\ at = "next" /\ next = 1 /\ got = 0 /\ nsuccess = 0

\* distfetch is run twice, with a server that may not know lengths and with files.
StartNetwork ==
  /\ stage = "network" /\ list = <<>>
  /\ \E t \in SUBSET Range(Remote) : Fetch!Start(Remote, t)
  /\ UNCHANGED <<loopVars, manifest, archive, reads, lengths, extracted, memory, exit, autoVars>>
StartMedium ==
  /\ stage = "medium" /\ list = <<>>
  /\ Fetch!Start(Medium, Range(Medium))
  /\ UNCHANGED <<loopVars, manifest, archive, reads, lengths, extracted, memory, exit, autoVars>>
\* fetch(3) was given no time after which to give up: it waits for the server.
Answered == stage = "medium" \/ serving \/ at = "close"
FetchStep ==
  /\ stage \in {"network", "medium"} /\ list # <<>> /\ exit = "none"
  /\ Answered
  /\ Fetch!Step
  /\ UNCHANGED <<loopVars, manifest, archive, reads, lengths, extracted, memory, exit, autoVars>>
Fetched ==
  /\ stage \in {"network", "medium"} /\ list # <<>> /\ Fetch!AllFetched
  /\ stage' = IF stage = "network" THEN "medium" ELSE "checksum"
  /\ manifest' = IF stage = "medium" THEN SubSeq(published, 1, disk[MANIFEST]) ELSE manifest
  /\ list' = <<>> /\ next' = 1
  /\ UNCHANGED <<loopVars, disk, archive, reads, lengths, extracted, memory, exit,
                 local, published, serving, told, at, got, nsuccess>>
FetchFails ==
  /\ stage \in {"network", "medium"} /\ list # <<>> /\ exit = "none" /\ Fetch!SomeFailed
  /\ exit' = "err"
  /\ UNCHANGED <<loopVars, kept, archive, reads, lengths, extracted, memory, autoVars, fetchVars>>

Listed(d) == \E k \in DOMAIN manifest : manifest[k].name = d
\* Mutant: what is there is taken for what was published.
MatchesSome(d) == disk[d] # Absent
Matches(d) == disk[d] = BlocksOf[d]
ChecksumOK == \A d \in Distributions : Listed(d) => Matches(d)
Checksum ==
  /\ stage = "checksum" /\ exit = "none"
  /\ IF ChecksumOK THEN stage' = "extract" /\ UNCHANGED exit
                   ELSE exit' = "err" /\ UNCHANGED stage
  /\ UNCHANGED <<loopVars, kept, archive, reads, lengths, extracted, memory, local, published,
                 serving, fetchVars>>

Extract == stage = "extract" /\ ExtractStep /\ UNCHANGED <<autoVars, fetchVars>>
Interrupted == stage = "extract" /\ DpvInterrupt /\ UNCHANGED <<autoVars, fetchVars>>

\* The world around: nobody promises that it ever becomes better.
MemoryTurns ==
  /\ stage = "extract" /\ exit = "none"
  /\ memory' = ~memory
  /\ UNCHANGED <<loopVars, kept, archive, reads, lengths, extracted, exit, autoVars, fetchVars>>
ServerTurns ==
  /\ stage = "network" /\ exit = "none"
  /\ serving' = ~serving
  /\ UNCHANGED <<loopVars, clientVars, stage, local, published, fetchVars>>

Install ==
  \/ StartNetwork \/ StartMedium \/ FetchStep \/ Fetched \/ FetchFails
  \/ Checksum \/ Extract
Ended == exit # "none" /\ UNCHANGED vars
InstallNext == Install \/ Interrupted \/ MemoryTurns \/ ServerTurns \/ Ended
InstallSpec == InstallInit /\ [][InstallNext]_vars
\* The script waits for its programs, and they for files, servers and memory; that
\* a box with a message is dismissed belongs to the step that shows it.
FairInstall == InstallSpec /\ WF_vars(Install)

-----------------------------------------------------------------------------
EntriesOf(f, n) == [k \in 1..n |-> <<f, k>>]

\* When the installer goes on after distextract, every distribution is there
\* with all its entries.  The one exception is a distribution that MANIFEST
\* does not list and of which nothing at all was stored: an empty file is taken
\* for an archive without entries.
SuccessMeansInstalled ==
  exit = "ok" => \A f \in Files :
    \/ \A k \in 1..Entries[f] : <<f, k>> \in Range(extracted)
    \/ ~Listed(Names[f]) /\ disk[Names[f]] = 0

\* Nothing of a distribution that MANIFEST lists is extracted unless it came whole.
OnlyVerified ==
  \A i \in DOMAIN extracted :
    Listed(Names[extracted[i][1]]) => Whole(extracted[i][1])

\* After an archive failed nothing more is extracted.
NothingAfterFailure ==
  [][(\E f \in Files : status[f] = "FAILED") => extracted' = extracted]_vars

\* Once the server answers or hangs up whenever it is asked, and there is memory
\* for an archive, the installer comes to an end, whatever went wrong before,
\* whatever the disk and the user do.  Without either it may never end:
\* distfetch waits for the server with no time limit (distfetch.c:176), and
\* distextract leaves a file running for which archive_read_new() found no memory,
\* so that dpv(3) calls it again and again (distextract.c:274-280).
InstallEnds == <>[](serving /\ memory) => <>(exit # "none")
=============================================================================
