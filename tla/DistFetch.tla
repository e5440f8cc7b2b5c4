------------------------------ MODULE DistFetch ------------------------------
\* bsdinstall's distfetch: every distribution of a list is fetched into the
\* directory of distributions.  Contents are counted in blocks.
EXTENDS Integers, Sequences

VARIABLES
  blocks,          \* the length of each file where it is fetched from
  list, told,      \* what is fetched; those whose length the server tells
  at, next, got,   \* what fetch_files() does, to which of the list, with what it read
  nsuccess,
  disk             \* how much of each distribution is in the directory, or Absent


Absent == -1

Start(l, t) ==
  /\ at = "next" /\ next > Len(list)
  /\ list' = l /\ told' = t
  /\ at' = "next" /\ next' = 1 /\ got' = 0 /\ nsuccess' = 0
  /\ UNCHANGED disk

Current == list[next]

\* fetchXGetURL() gives nothing, or the file cannot be opened: the next one.
NotOpened ==
  /\ at = "next" /\ next <= Len(list)
  /\ next' = next + 1
  /\ UNCHANGED <<list, told, at, got, nsuccess, disk>>
\* The file is opened with "w+": what was in it is gone.
Opened ==
  /\ at = "next" /\ next <= Len(list)
  /\ disk' = [disk EXCEPT ![Current] = 0]
  /\ at' = "copy" /\ got' = 0
  /\ UNCHANGED <<list, told, next, nsuccess>>
CopyBlock ==
  /\ at = "copy" /\ got < blocks[Current]
  /\ got' = got + 1
  /\ UNCHANGED <<list, told, at, next, nsuccess, disk>>
\* The end of the data, the end of the connection, or a write that fell short.
CopyEnd ==
  /\ at = "copy"
  /\ at' = "close"
  /\ UNCHANGED <<list, told, next, got, nsuccess, disk>>

\* Mutant: a file is done when its data ended.
DoneAlways == TRUE
\* Without the length nothing is known to be missing.
Done == ~(Current \in told /\ got < blocks[Current])
\* fclose() is not asked whether what was written last got to the disk.
Close ==
  /\ at = "close"
  /\ nsuccess' = IF Done THEN nsuccess + 1 ELSE nsuccess
  /\ \E stored \in 0..got : disk' = [disk EXCEPT ![Current] = stored]
  /\ at' = "next" /\ next' = next + 1
  /\ UNCHANGED <<list, told, got>>

AllFetched == at = "next" /\ next > Len(list) /\ nsuccess = Len(list)
SomeFailed == at = "next" /\ next > Len(list) /\ nsuccess # Len(list)

Step == NotOpened \/ Opened \/ CopyBlock \/ CopyEnd \/ Close
=============================================================================
