---- MODULE PendingEdits ----
\* What an editor of pending changes promises: the disks are as they were until
\* the user has asked for the changes to be written, and a session given up
\* before that leaves neither a change on a disk nor one pending.

VARIABLES
  phase,   \* "edit", then "write", "over" or "lost"
  shown,   \* the disks as the user sees them, changes included
  disk     \* the disks

vars == <<phase, shown, disk>>

Init == phase = "edit" /\ shown = disk

Edit == phase = "edit" /\ shown' # shown /\ UNCHANGED <<phase, disk>>

GiveUp == phase = "edit" /\ phase' = "over" /\ shown' = disk /\ UNCHANGED disk

\* The editor dies, or fails, with changes pending.
Lose == phase = "edit" /\ phase' = "lost" /\ UNCHANGED disk

Write == phase = "edit" /\ phase' = "write" /\ UNCHANGED <<shown, disk>>

\* Some of the changes reach a disk, or the rest of them is given up.
Written == phase = "write" /\ phase' \in {"write", "over", "lost"}

Next == Edit \/ GiveUp \/ Lose \/ Write \/ Written

Spec == Init /\ [][Next]_vars
====
