# pkgcenter in TLA+

Models, model checking and proofs for [FrauBSD/pkgcenter](../src/README.md): the
package centre's own scripts and the programs it carries under `depend/`.
Everything here is translated from the sources under `src/`; manual pages, comments
and tests are used only for what they *claim*, with which section 4 confronts
what the code does.

- `*.tla` without prefix: the models and the abstract specifications.
- `MC*.tla`, `*.cfg`: instances for TLC. One `.cfg` is one question.
- `*Proofs.tla`: theorems checked by TLAPS, for every value of the constants.
- `PROJECT.json`: components, runs, mutants, the map from definitions to source lines,
  findings, hazards and theorems.

Run `tlc -workers 2 -config X.cfg M` for a run, `tlapm MProofs.tla` for the proofs.

## 1. The system: inventory

| component | state it keeps | operations | interacts with | what makes it correct |
|---|---|---|---|---|
| **libdpv**, `depend/libdpv/dpv.c` | globals `dpv_nfiles`, `dpv_interrupt`, `dpv_abort`, `dpv_overall_read`; per call the list, the current node, `pct`, `keep_going`, the page | `dpv()`: config, paging, loop over files, loop of callbacks, redraw, close | calls the client's `action`; client and signal handlers write the globals; spawns children (below) | every file is processed until its client ends it, in order; abort and interrupt end the call; the screen tells the truth |
| libdpv prompt, `dprompt.c` | heights, widths, the prompt text, `gauge_percent` | `dprompt_init`, `dprompt_recreate`, print | called by `dpv()` only | the current file is on the page; pages fit the box |
| libdpv children, `util.c`, `dialog_util.c` | pipes, process ids, terminal size | spawn gauge, spawn command | `dpv()` writes to both; `waitpid` | nobody waits for somebody who waits; data reaches the command |
| **dpv(1)**, `depend/dpv/dpv.c` | `fd` of the source, buffer, counters in the nodes | options; the actions for bytes and lines; SIGINT | client of libdpv | each source is copied whole, in order, to its own output, and reported so |
| libfigpar, `figpar.c`, `string_m.c` | a configuration table, an open file | `parse_config`, string helpers | callbacks into the client (libdpv's `dialogrc.c`, libfigput) | values are cut out of the file as the manual says; descriptors are closed |
| libfigput, `figput.c` | a configuration file and a temporary copy | `put_config` | uses libfigpar's table | a file is replaced whole or not at all; what was not asked for stays |
| **libcmb**, `libcmb/cmb.c` | a `struct cmb_config`, the current set and indices | `cmb`, `cmb_count`, `cmb_transform` | action callback per combination | every combination once, in order; count and seek agree with it |
| cmb(1), language bindings | options | filters and formatting | libcmb | as libcmb |
| **partedit**, `bsdinstall/partedit` | the kernel's pending GEOM changes, a list of mount metadata | create, edit, delete, destroy, revert, commit | `libgeom`, the user through dialog | metadata and partitions agree; revert really reverts; commit is complete |
| distfetch, distextract | list of archives, open transfer | fetch/extract callbacks | clients of libdpv | archives are complete when reported done |
| bsdinstall scripts | files in `/tmp`, mounts | the stages of an installation | each other by files and exit status | a restart of a stage leaves a usable state |
| bsdconfig | rc.conf, packages, interfaces | `sysrc.subr`, `packages.subr`, menus | the tools of the base system | other settings survive a change |
| **git hooks** `.git-hooks`, `.git-filters/keywords` | working tree, index, HEAD; `/tmp/keywords.PID` | pre-commit, commit-msg, post-commit, keyword expansion | run by git, one after the other | only keywords change; what is committed is what was staged |
| package scripts (`Mk`, `freebsd`, `redhat`) | package trees, tags | stage, create, unpack, tag, import | make, git | every tagged tree can be rebuilt |
| cputools, sysconf, dwatch | none | print | none | nothing a model would add |

### Hard behaviours

- **dpv()** runs the client's code between its own steps: a callback may return anything,
  change the status of its file, raise `dpv_abort`; a signal handler raises
  `dpv_interrupt` between any two steps; the clock decides which redraws take place.
- **dpv(1)** keeps its source in a static descriptor that outlives the callback and the
  file; dialog(3) moves the standard input; dpv() opens outputs; the program finds its
  input by arithmetic on descriptor numbers. Reads and writes are short or fail.
- Descriptors are a bounded resource which pipes to commands use up.
- Several calls of `dpv()` in one program share globals.

Every hazard, at its line, with the properties aimed at it, is in `PROJECT.json`.

## 2. Plan and order

What is done, in the order it was done: the most important behaviour of the repository's
own C code first.

| | modules | abstract specification | proofs |
|---|---|---|---|
| 1 | `DpvLoop`: `dpv()` for an arbitrary client | | `DpvProofs` |
| 2 | `DpvTransfer`, EXTENDS `DpvLoop`: dpv(1) as its client | `SequentialCopy`; `DpvLoop` | `DpvProofs` |
| 3 | `CmbSeq`: `cmb()`, `cmb_bn()` and the counting functions | `CombinationSlice` | `CmbSeqProofs` |
| 4 | `PartPlatform`, `PartGeom`, `PartEdit`: the partition editor over the kernel's pending tables | `PendingEdits` | `PartEditProofs` |
| 5 | `DiskEditor`: the list of the editor and its keys | | `DiskEditorProofs` |
| 6 | `FigparLexer`: `parse_config()` | | `FigparProofs` |
| 7 | `DistFetch`, `DistExtract` (EXTENDS `DpvLoop`), `DistInstall`: fetching, checking and extracting an installation | | `DistInstallProofs` |
| 8 | `CmbTool`, EXTENDS `CmbSeq`: cmb(1) from the command line to its output | the definition of `Combinations` and `Before` in `CombinationSlice` | `CmbToolProofs` |
| 9 | `PyCmb`, EXTENDS `CmbSeq`: the Python extension's objects, globals and references | | `PyCmbProofs` |

What would come next: a theorem that what cmb(1) prints is what was asked for; one that
distextract too is a client of `DpvLoop`; dpv(1), its gauge and its command as processes around
bounded pipes; the hooks of git.

## 3. The modules

### DpvLoop

`dpv()` as a state machine. `cfg` holds the arguments of the call; `pc` says where
`dpv()` is: `idle` (the program has not called), `head` (the `for` over the list),
`while` (the inner loop), `finish` (behind the loop), `returned`.

| action | code (`libdpv/dpv.c`) |
|---|---|
| `CallEmpty` | 381-388, no labels |
| `Call` | everything up to the loop: counting the files (305), `dprompt_init()` choosing `display_limit`, the first drawing |
| `HeadInterrupted`, `HeadOpen`, `HeadOpenFails`, `ListEnd` | 571-618; `NextFile` is what they share |
| `ClientCallback` | one turn of the inner loop: the action (any percentage, status, abort), the rule for going on (630-635), a redraw if due |
| `TestCallback` | the same in test mode |
| `FileEnd` | 700-711: close, `dpv_abort`, next page |
| `Finish` | 713-728 |
| `ResetGlobals`, `Interrupt` | the program between calls; a signal handler |

A file is its position in the list; a label is the number of lines it takes. Wording,
colours and widths are left out. The clock is a nondeterministic choice (`MaybeDraw`).
The overall percentage keeps the C arithmetic, an `int` divided by an `unsigned int`
of width `Word`.

### DpvTransfer

EXTENDS `DpvLoop`: dpv(1) is one client of it. Each action is an action of `DpvLoop`
joined with what happens to the table of descriptors (`desc`), the offsets (`pos`,
`outpos`), the outputs (`out`) and the counters. `ReadEnds` and `ReadData` are the two
outcomes of `read(2)` in the action callback, `OpenSourceFails` the path that cannot be
opened; `TSpawn` is `shell_spawn_pipecmd()`; `TSpawnDies` and `TActionDies` are the
places where `err(3)` or a trap ends the process. Data are tokens `<<source,
position>>`, so that loss, duplication, reordering and mixing of sources are visible.

`free` is what is left on the disk of the outputs.

External, modelled from how the code uses it: `open`, `pipe`, `read`, `write` (lowest
free descriptor, short writes on a full disk), `init_dialog(3)` (moves a standard input
that is not a terminal). The FreeBSD branch of the `#if` in `operate_common()` is
modelled, not the one for Linux and macOS.

### SequentialCopy

What dpv(1) promises, with no descriptors, callbacks or buffers: one source after the
other is copied to an output of its own and ends whole (DONE) or untouched (FAILED).
`DpvTransfer!CopiesInSequence` is the refinement: `copied[f]` is the written part of
f's output (or what was read, where no output was asked for), `running` that dpv() is
in its loops.

### CmbSeq

`cmb()` (and `cmb_bn()`, which is the same program with big numbers and without the
question to `cmb_count()`) as a state machine over the sizes of combinations.

| action | code (`libcmb/cmb.c`) |
|---|---|
| `Refuse`, `Prepare` | 440-496: options, `cmb_count()`, clamping of sizes, direction |
| `EmptyFirst`, `EmptyPassed`, `NoEmptyFirst` | 498-518: the empty set when sizes go up |
| `PassSet`, `EnterSet`, `SetsEnd` | 537-564: the head of the loop over the sizes, skipping sizes before the start |
| `ShowFirst` | 566-617: the leading items; left by `break` |
| `Shift` | 622-710: one step to the next combination, given to the action or only counted; left by `goto` |
| `SetEnd` | 712-716 |
| `EmptyLast`, `NoEmptyLast` | 718-730: the empty set when sizes go down |

Items are their positions (from 1 here, from 0 in the code), `setnums` the sequence of
the positions chosen, `log` the calls of the action. `i` and `k` of the recurrence for
`z` move in step with `curset` and are written as expressions in it. `Ways(n, k)`, the number of
combinations of one size, is the code's own recurrence of multiplying and dividing. `CmbCount` and
`CmbCountBn` are the counting functions, which are separate code in the source. Numbers
are exact; at most `MaxItems` = 30 items, because `1 << nitems` is an `int`.

### CombinationSlice

What `cmb.3` promises, with no arithmetic of combinations: a combination is a *set* of
items, the order is by size and then by the first item in which two sets differ, a
combination's number is how many come before it. The slice from `start`, at most `count`
long, is given to the action until an answer is not zero. `CmbSeq!GivesSlice` is the
refinement, with liveness: the slice is given whole and the call returns. `Safety` is the
promise without it.

### PartPlatform, PartGeom, PartEdit, PendingEdits

The partition editor keeps *two* accounts of what will happen: the kernel's pending
changes of partition tables, and a list of its own (`part_metadata`) of what to format,
mount and make bootable. `st` holds both, and the disks as they are: `st.tab` the tables as
they are shown, `st.mod` the geoms with changes pending, `st.disk` what has been committed,
`st.md` the list, `st.esps` the file of EFI partitions.

- `PartPlatform`: one record for each `partedit_<machine>.c` and each firmware.
- `PartGeom`: the kernel's PART class (external, modelled from how `gpart_ops.c` uses it:
  adding, deleting, destroying, undoing and committing, nested tables that come and go
  with their partition) and `gpart_max_free()`: its loop over the sorted partitions is a fold
  that looks at each after those that start before it. `LaidOut` says of a table that its
  partitions are within it and apart; it is asked of the disks as they are found.
- `PartEdit`: the program. Emptying a disk and giving up are folds of one deletion, or one
  undo, over a sequence of names. `StartCommit` takes the mesh that `gpart_commit()` walks: the
  geoms with changes and, for each, what is to be made bootable as it is found then, and which
  partitions it passes over (`Occupied`). `WriteCodes` writes any part of the boot code:
  what fails is shown and has no other consequence; `missed` remembers it.
  An entry of the list remembers as `cancelled` that the dialog of options was left with Cancel
  when its command was made. Both are there for the properties only.

| actions of `PartEdit` | code (`bsdinstall/partedit`) |
|---|---|
| `StartCreate`, `Options`, `SubmitForm`, `CancelForm`, `AddPartition`, `AddRefused`, `AddRetry` | `gpart_create()`, `newfs_command()` |
| `BootFound`, `BootDeclined`, `BootWanted`, `AddBoot`, `BootRefused`, `BootRetry` | `add_boot_partition()` and the call of `gpart_create()` in it |
| `ChooseScheme`, `CancelScheme` | `gpart_partition()`, `choose_part_type()` |
| `MenuCreate`, `MenuDelete`, `MenuModify`, `MenuRevert`, `MenuAuto`, `MenuFinish`, `EditOk`, `EditCancel` | `main()`, `gpart_delete()`, `gpart_edit()`, `gpart_destroy()`, `gpart_revert()` |
| `ChooseDisk`, `UseDisk`, `WizardScheme`, `DoMakeParts` and their refusals | `part_wizard.c` |
| `DoDisk`, `NothingLeft`, `Resume` | `scripted.c` |
| `StartCommit`, `CommitGeom`, `Format`, `WriteFstab` | `gpart_commit()`, `validate_setup()`, `apply_changes()` |
| `Quit`, `Interrupt` | the end without changes; the handler of SIGINT, `gpart_revert_all()` |

`PendingEdits` is what the program tells its user: no disk changes until he asks for it, and
giving up leaves nothing pending. `PartEdit!KeepsPromise` is the refinement: the phase is
read off `pc`, what is shown off `st.tab`, the disks off `st.disk`.

### DiskEditor

`diskeditor_show()`, called by `main()` again and again with what it left in `i` and
`nscroll` and a list that was read anew. `Show` is `main()`'s correction of a selection past
the end of the list and the scrolling to it; one action for each key; `Leave` is a button.

### FigparLexer

`parse_config()` and the string functions it applies to a value. A file is a sequence of
characters of which only the significant ones are told apart; `in` is the descriptor's
offset, the buffer `p` and the last result of read(2), which are three things because `p`
keeps its character at the end of the file. A directive and a value are measured by reading
and taken by seeking back; `dsize` and `vsize` are what is allocated for them and used
again.

| action | code (`libfigpar/figpar.c`) |
|---|---|
| `Begin`, `Skip`, `EndOfFile` | 148-166: white space and comments before a directive |
| `Directive`, `ToValue` | 168-251: the name, the equals sign, the way to the value |
| `Value`, `ValueAtEnd`, `CountsForever` | 253-358: to the end of the value, counting backslashes by reading backwards |
| `Cut` | 360-420, `string_m.c`: the value, its memory, `strexpand()` and its kin |
| `Call`, `NoAssignment` | 422-472: the functions of the directive, and their answers |

### DistFetch, DistExtract, DistInstall

`DistFetch` is `fetch_files()`; contents are counted in blocks. `DistExtract` is a client of
`DpvLoop`, like dpv(1): every disjunct of `Action` is a way through `extract_files()`, joined
with `DpvLoop!Callback`. The archive being read is a static variable (`archive`), which is
where files could be mixed. `memory` says whether `archive_read_new()` would find any: without it
`NoMemory` asks to abort and leaves the file running, and dpv() calls again. `DistInstall` composes both with the stages of `auto` around
them: those distributions that are not on the medium are fetched from a server that may
break off and may or may not tell lengths, the others copied with MANIFEST, all of them
checked by `checksum`, extracted; `DistFetch` is INSTANCEd, once for two runs of it. `serving` says
whether the server answers, if only by hanging up: distfetch sets no time limit and waits for it
(`Answered`). `MemoryTurns` and `ServerTurns` change the two at any time; they are not steps of the
program, and no fairness is asked of them.

### CmbTool

EXTENDS `CmbSeq`: the library's steps are the same, the configuration is what `main()` makes
of the command line (`Config`). `ReadOption` has an action for each option, `MakeItems` the
counting and expanding of ranges (two pieces of code that must agree on a length), the words
and the reading of files, `CallLibrary` the transformation, `-t`, random and negative starts
(again counting) and the call, `CleanUp` the freeing. `unsigned int` has `UintMax` = 7 as
its largest value: ranges next to it and past it are small.

### PyCmb

EXTENDS `CmbSeq`: `python.c/cmb/cmb.c`. An object keeps a `cmb_config`; the function, the
list it is called with and the tuple around it are globals of the extension (`func`, `list`,
`tuple`); `refs` counts references to functions. `Stub` is `stub_cmb_func()`, called for
every combination; `CallFromFunction` a call of `cmb_callback()` from inside the function.

The list is filled with `PyList_SET_ITEM`, which takes over a reference, with items of which the
module owns none: when a list is replaced, each item in it loses a reference (`Released`).
`held` is how often the program refers to each item, `items` how many of these references are
left; where none is, or the list is shorter than its items, what the function sees is
arbitrary or the interpreter comes down (`Broken`, `Handed`). `Return` gives back the function,
the last list's items, the arguments, which belong to the caller, and the list that went with its
tuple: it may come down whatever the program did.

## 4. Runs

| run | question | bounds, and why they suffice |
|---|---|---|
| DpvLoopAll | What do success, abort and interrupt mean for any client? Is the current file always on a page that fits? Does test mode end, does the gauge only grow? | 0 to 3 files with every client (first, middle and last), percentages -1, 50, 100, 105 (below, within, at and above the range), two calls for what survives a call; lists of 4 and 5 files whose last page is full or not, with labels of several lines and screens that force `display_limit` down, to nothing if need be; test mode with 1 and 3 files and both increments; `Word` 2^16 stands for 2^32, far beyond every percentage |
| Transfer | Is dpv(1) a sequential copy that ends? What does it leave open, how far does -N read, is the standard input found? | 1 and 3 files, one empty, one of a wrong length; buffers of 2 tokens (full and partial reads); every output and display; a path that cannot be opened, an output that exists or cannot be created; with -N lengths unknown, zero, within and at the edge of a buffer, for one file and for three of which none, one or more are cut, with and without a path that cannot be opened; 16 descriptors, more than any of these needs |
| TransferTight | Does what arrives stay a prefix of its source when resources run out? | 6 descriptors, disks with room for 0 to 4 tokens, one read error, one output for all |
| CmbAll | Is exactly the requested slice given, counted and numbered? | 0 to 4 items, all sizes from 0 to one too many, up and down; limits below and beyond the total; starts at 1, in the middle, at the last combination and behind it |
| DiskEditorKeys | Is what a button acts on an item of the list, and in view? | a window of 3 lines; lists of 1 to 8 items: shorter than the window, exactly one, more than two windows; every order of keys and of lists |
| PartEditor | Does the list of what to format and mount stay in step with the pending tables? Is free space free? Does giving up give up? | one disk of 6 sectors that is empty, has a GPT or an MBR slice with a nested table; three operations of the menu: enough to create a slice, fill it and take it away again; ZFS partitions and slices, one type with a dialog of options and one without; every dialog also cancelled, that of options with either type before it; old tables that show up in new partitions |
| PartAuto | Does an installation end with / on a disk and boot code where it is needed? Does what is added without asking fit? | two disks, ten machines, the guided mode for UFS and ZFS and the scripted mode; tables that cannot be committed and boot code that cannot be written; old tables that show up in new partitions; an empty, a partitioned and a shared disk; disks of 12 sectors on which 7 are enough for the guided mode, so that a boot partition of 2 and what aligning takes fit beside swap and root (`HasRoom`) |
| Figpar | Is everything in a file given to a function? Do the texts fit their memory? Does the parser end? | all files of up to three of eight characters, those of up to five that end their last line, many of six: two directives with values, an escaped quote, a comment behind a value |
| DistInstall | What does success of an installation mean? Is anything extracted unchecked, or after a failure? Does it end? | two distributions, of which one's name begins the other's; MANIFESTs that list both, one, none, with a count of 0; a server that stops answering and memory that comes and goes, as often as they like |
| CmbTool | Does cmb(1) print the combinations asked for? Is -t their number? Do ranges fill their array? | up to four items from words, ranges and files; every option that changes the result, with sizes, starts and limits on both sides of what there is; with and without OpenSSL |
| PyCmb | Does a Python function see each combination? Can plain use bring the interpreter down before its call ends? | two objects, two functions, lists of 0, 2 and 3 items, two or three references to each (fewer than, as many as, and more than the items), three operations |
| CmbFind (a violation) | `cmb.c:785`: "Find `-X op' results matching num." | one item list; products of it |

`DeliversPrefix` in TransferTight holds although short writes are not noticed: the disk
that cuts one write short lets the next one fail, and that one ends the process; so data
are only ever missing at the end. `StopsWithinBuffer` leaves out a length of 0 in line mode:
where a division by it does not trap, dpv(1) takes the file for one of unknown length and reads
it to its end. `CountAgrees` speaks of calls that `StopsCleanly`. `TotalIsTheirNumber` leaves out
ranges that never end, of which -t nevertheless gives a total (`cmb -rt 0`), and sizes below -1,
which stand for numbers near `UINT_MAX`. These exceptions were found by
proving the properties. `PrintsWhatIsAsked` speaks of the command lines `Documented`
names and of files whose last item is ended, `NothingLost` and `Terminates` of `Ordinary` files,
and each comment says why; the next section lists
what happens to the others, which the models contain. `OwnSource`, `DescriptorsGoBack` and
`Terminates` of dpv(1) name what -N does to them: a file that was cut leaves its source to the next
one, and a path that cannot be opened is tried for ever; `CopiesInSequence` and `DeliversPrefix` are
about the invocations in which no file can be left to the next (`~ MayCut`). `NewfsMatchesType` sets
apart the commands a cancelled dialog of options left to another type, `CodeInstalled` the boot code whose
failure was shown or whose partition was occupied; both happen in the runs. `InstallEnds` is
about servers that answer and memory that suffices from some time on. `SeesTheCombination` and
`PlainUseIsSafe` are about programs that are `Plain`: one call of `cmb_callback()`, not from inside a function,
no more items than its list has, and as many references to each item as there are items; and about that call
up to its end, since the end itself is safe for no program.

Deadlock is checked where the end of the program is a state with an action of its own
(PartEdit, Figpar, DistInstall, DiskEditor); elsewhere it is off, as a program that has
made its last call has stopped.

### Where code and documentation part

`CmbFind` is the one disagreement with a run. Those below were met while modelling, and most
of them confirmed with TLC; the models contain what the code does, and the configurations or
the premises of the properties leave them out.

libdpv and dpv(1)
- `dpv_abort` does not end the callbacks of the current file (`dpv.c:620`; `dpv.h:51`).
- With -m, a file that -N cuts leaves its descriptor to the next one (`dpv/dpv.c:87`;
  `dpv.1:153`), and an unreadable path is tried for ever (`dpv/dpv.c:93`; `dpv.3:317`).
- With dialog(1) and an output, a negative descriptor is read instead of the standard
  input (`dpv/dpv.c:119`; `dpv.1:55`).
- A read error ends a file as DONE (`dpv/dpv.c:171`; `dpv.h:81`).
- `DPV_NO_OVERRUN` ignores the status and reads up to a buffer too far; `dpv_nfiles`
  accumulates over calls; Xdialog's test mode steps over 100; `-x` keeps a descriptor per
  file when its command does not fit the buffer; with `-o` an uninitialised process id is
  waited for.

libcmb, cmb(1) and the Python extension
- A non-zero answer to the first combination of a size does not keep a decreasing
  enumeration from giving the empty set (`libcmb/cmb.c:593`; `cmb.h:118`).
- `cmb_count_bn()` leaves the empty set out unless all sizes are asked for (`cmb.c:849`;
  `cmb.3:158`). Sizes beyond the number of items are refused by `cmb()` but taken for all
  items with the empty set and by `cmb_bn()`. The inner loop of `cmb()` at line 669 writes one
  position past the current size, which the model's sequences do not have.
- Ranges that go down to 0, or end at `UINT_MAX`, never end: the counter is unsigned
  (`cmb/cmb.c:408`; `cmb.1:195`).
- `-c` and `-i` store their number for the function that the options read *so far* select, so
  `-o` has to come first; `-e -e` undoes itself, a random start stays in force after `-i num`;
  `-o -i random` with nothing to choose divides by zero; `-o -k -1..-1` prints nothing; `-d` also
  separates what is in files; the last item of a file without its separator is followed by
  what is behind it in memory; the cleaning up after `-f` frees pointers into the file's text.
- Python: `cmb()` on an object after `cmb_callback()` crashes, as does a second
  `cmb_callback()` once the function's references are spent (one too many is given back);
  a nested call takes the outer one's list away; the number of items is not checked against
  the list. The list is filled with items the module has no reference to
  (`python.c/cmb/cmb.c:616`), so that each list that is replaced (612) takes one reference from
  each item in it: an item to which a program refers less often than there are sizes may be gone
  while it is still shown. At its end `cmb_callback()` gives back its arguments, which are the
  caller's (718), and the list once more after it went with the tuple (720-721).

libfigpar and libfigput
- A last line without its end loses its value's last character; `\\"` is taken for an escaped
  quote; a directive that runs into the beginning of the file makes the counting of
  backslashes read for ever; a value of no characters before any other is written through a
  NULL pointer; with `FIGPAR_REQUIRE_EQUALS` an error leaves the file open.
- `put_config()` is unfinished: it leaves with an error before the temporary file is renamed.

bsdinstall
- Cancelling the dialog of file system options keeps the command of the type chosen before
  (`gpart_ops.c:1124`, against the comment at 1121). PartEditor has it: a partition is marked
  `cancelled` then, and without that exception TLC finds `NewfsMatchesType` violated.
- A boot partition in which an old table shows up gets no boot code: the table is destroyed, but
  until the commit it is still a table in the partition, and such partitions are passed over
  (`gpart_ops.c:1461`). The proof of `CodeInstalled` is how this was found; PartAuto has it, as a
  code that is `missed`. Boot code that cannot be read or written is shown as an error, after which
  the editor goes on to end in success (402, 423, 461).
- Without a form, a boot partition that is refused is asked for again for ever
  (`gpart_ops.c:1244`), which `WizardFits` says does not happen with what the wizard adds under a
  bootable scheme. Errors of the scripted mode leave changes pending; failures of commits and
  of newfs(8) still end in success; cancelling the form for editing acts on the text in it;
  changing the type of a slice loses the mount points of what was in it; a wizard that
  is given a slice of another type uses a NULL geom; names are appended to
  `/tmp/bsdinstall-esps` without a separator.
- distfetch sets no `fetchTimeout`: a server that no longer answers keeps it waiting
  (`distfetch.c:176`). Without memory for an archive distextract asks to abort and leaves the
  file running (`distextract.c:279`): dpv() calls it again for as long as memory is short, and
  extracts the file when it is there again.
- distfetch ignores what fclose(3) cannot write, and a short file of unknown length is
  "Done"; distextract takes an empty file for an archive without entries, divides by a count
  of 0, and takes the count of a distribution whose name begins that of its own.

### Fairness

`DpvLoop!FairSpec` is weak fairness of dpv()'s own steps together (`Loop`), not of
`Interrupt`: dpv() is sequential code whose only waits are for the callback and for
children. It does *not* say that a client ever ends its file; `InterruptReturns` and
`TestModeEnds` hold without that. `TFairSpec` is the same for dpv(1), whose sources are
files or a pipe with data or its end at hand. `CmbSeq!FairSpec` says that a running function
goes on; the action is assumed to return. `FigparLexer!FairSpec` and `FairInstall` are fairness
of one sequential program (`Parse`, `Install`), not of the user's SIGINT; nor, in the
latter, of what the server and the memory do: that they are there from some time on is the premise
of `InstallEnds`, and without it distfetch may wait, and distextract be called, for ever. No fairness is asked of a user in
`PartEdit` or `DiskEditor`.

## 5. Proofs

`DpvProofs` proves about `DpvLoop`, for every list, label, screen, percentage, word size and number
of calls:

- `TypeCorrect`: `Spec => []TypeOK`; its substance is that the gauge stays in 0..100.
- `CurrentFileOnPage`: `[]PageShowsCurrent`. The property alone is not inductive: it
  says nothing between redraws. The invariant `PageInv` adds that the head of the page is
  `k * limit + 1` for a `k` with `k * limit <= m < k * limit + limit`, where `m` files
  have been passed; that one more file keeps this, turning the page or not, is the lemma
  `PageTurn`.
- `SuccessIsComplete`: `[]SuccessMeansAllEnded`, from an invariant which says that every
  file passed has ended as long as the loop was neither interrupted nor aborted.
- `AbortStartsNothing`: `NoFileAfterAbort`, from an invariant which says that an abort is
  only ever pending inside the inner loop or behind the loop over the list.
- `GaugeEndsFull`: `[](FitsWord => FullAtSuccess)`. The hypothesis, `1000 * n < Word`, is what the
  unsigned arithmetic needs: with 32 bits, fewer than 4294968 files. The invariant `GaugeInv`
  says that in the first call, from the last file on, a `pct` of 100 is on the screen as 100;
  `LastFileIsWhole` says that for the last file nothing wraps and nothing is rounded.
- `TestModeOnlyGrows`: `Spec /\ FitsWord => GaugeNeverBack`. What is rounded (the code looks at the last two
  digits of the tenths) still grows with what was done (`ShownGrows`), and a percentage whose
  steps divide 100 does not miss it (`StepsTo`). The invariant `GrowInv` says that the gauge is not ahead
  of the call (`Reached`), also where redraws were left out.

The lemmas are about `AnyNext`, the steps of dpv() with a client that may return any `int`;
those of `Spec` are among them. `AnyClient` says so for every program that makes such steps.

and about `DpvTransfer`, for every invocation, size of the buffer and table of descriptors:

- `TransferIsClient`: `TSpec => AnySpec`, dpv(1) implements the loop for an arbitrary client.
  What has to be shown is that the percentage dpv(1) computes is a number. That rests on the
  counts of what was read, and these on every source in the table of descriptors being the
  source of a file (`CountInv`), from what dialog(3) leaves behind (`TableKnown`) on.
- `CopiedFileOnPage` and `SuccessIsEveryFile`: `PageShowsCurrent` and `SuccessMeansAllEnded`
  carry over to dpv(1).
- `ReadsOwnSource`: `[]OwnSource`. The invariant `KeptInv` says that an open source means that
  its file is running and that dpv() is in its inner loop, or that -N cut it and every file
  since (a percentage of 100 means that the length is reached, `HundredIsLength`), unless a
  signal came: then nothing is read any more. It needs `EndedInv` of the loop: that without -N
  dpv() goes on exactly as long as the client has not ended the file.
- `OneBufferBeyond`: `[]StopsWithinBuffer`: with -N no callback reads once the length is
  reached, so what was read exceeds it by less than a buffer.
- `OutputIsPrefix`: `[]DeliversPrefix`. Where no file can be left to the next, `KeptInv` gives
  that the source of a callback is the current file's (`SourceInv`). In `DataInv`, what was written of a file is the beginning of what was read of it (`Received`), and
  while its output is open the two are in step, or there is no room left to continue behind
  the gap.
- `DescriptorsReturned`: `DescriptorsGoBack`, as long as the table a display leaves
  behind fits the process's limit. `BackInv` counts: open besides that table are the source, the
  output and one end of the pipe of each command so far.
- `StandardInputFound`: `[](Serves /\ errors = 0 => FindsStdin)`. `Serves` names the displays for
  which the arithmetic on descriptor numbers is right: dialog(3), which moves the standard
  input to 5, with at least nine descriptors; dialog(1) only without an output.
- `CopiesAsPromised`: `TSpec /\ Contracted /\ []Undisturbed => CopiesInSequence`, the refinement
  of `SequentialCopy` step by step. `Contracted` collects the above: each file has an output of
  its own, its command fits its buffer, its source is found; `Undisturbed` says that no read
  failed and the disk is not full. `CopyInv` relates the status of a file to its turn. What breaks
  the hypotheses is listed in section 4.

`CmbSeqProofs` proves for every number of items and every configuration:

- `EachFollowsTheLast`: `NextInOrder`. The lemma `ShiftedIsSuccessor` is about the shift
  alone: applied to ascending positions it yields ascending positions, lexicographically
  later, with no combination in between. It rests on what the scan for the generator
  finds (`GeneratorIsRightmost`: everything to its right is at its last place), and that
  on the existence of a largest position, by well-foundedness of the naturals. The
  invariant `ShiftInv` carries the ascending positions through the state machine.
- `CountIsKept`: `[]WithinCount`. The invariant `CountInv` says that the calls made and
  the calls left add up to the count while the function runs, and that no call is made
  behind the loops once the sum is spent or the action has stopped it.
- `ReadsItemsOnly`: `[]TypeOK`, whose substance is that every position is one of an item: the shift
  is never applied to the last combination of a size. `ExactInv` says that the combinations
  made of a size and those to go (`ToGo`, a sum over the positions from the right) add up to
  `Ways`, which is Pascal's rule and with it that the code's division never leaves a remainder;
  only the last combination has none to go. `SeekInv` types the search for a start. The inductions are
  over sets of naturals (a set that holds 0 and with each number the next holds them all),
  which the provers can use.
- `CountingAgrees`: `[]CountAgrees`: what `cmb_count()` adds up before the call is the number of calls
  of the action plus what a start skips. `CountIsSum` turns the counting function into a sum
  over the sizes in the loop's order, for which the special case of all sizes (`1 << nitems`, or one less)
  needs that a row of Pascal's triangle adds up to a power of two. `PlaceInv` says where among the
  sizes the loop is and that a seek ends within the size it entered, `MadeInv` that calls are in
  step with combinations made, or that calls made and what is still sought make up the start.

- `GivesTheSlice`: `Spec /\ StopsCleanly(conf) => Slice!Safety`, the safety part of `GivesSlice`: a step
  that calls the action is the promise's `Give`, the one that returns its `End`, all others stutter.
  The promise speaks of sets, the code of ascending positions, and four bodies of lemmas connect
  them. A sequence of positions is the set it `Holds`, one for one (`SubsetIsHeld`, `Held`). The code's recurrence
  counts subsets: `SubsetsCounted`, by what holds the first item and what does not. The
  lexicographic order of the shift is the promise's order by the first item in which two sets differ
  (`OrderIsPromised`); `RankIs` then says that a combination's number is the size of all earlier sizes, plus
  `Ways` of its own less those still to go. And the sizes of the loops, up or down, with or without the
  empty set and with a range beyond the items, are the sizes of the promise (`SizesArePromised`,
  `CombinationsArePromised`). With that, `SliceInv` states that the number of the combination at hand
  is where the promise has got to; `PlaceInv` and `MadeInv` supply the arithmetic, also for a seek that
  skips whole sizes, and `QuotaIs` when it is over.
  `StopsCleanly` leaves out only what section 4 reports: sizes that decrease to the empty set with an
  action that stops, where the code goes on.

All hold up to `MaxItems` items, the most for which the code's `1 << nitems` is defined.

`CmbToolProofs` proves for every command line, every width of `unsigned int` and every file
(`LineInv`: the line is one of `CommandLines`, and the later of -f and -r has replaced the other):

- `RangesFill`: `[]FillsTheArray`. One loop of `main()` counts the numbers of the ranges, another writes them
  into an array of that many, each in 32 bits. `FillInv` says that before the `n`-th range is
  expanded exactly as many are written as were counted for those before it, and within one, as many more as
  the counter has moved from its first number; a `Bounded` range ends before the counter wraps,
  so the sum the first loop refused to let overflow is reached and never passed.
- `TotalIsCounted`: `[]TotalIsTheirNumber`. Three things that were never computed together are shown
  to agree: what the options say, the items made, and the combinations promised. `ParsedInv` says
  that each setting is what those of its options read so far ask for (`TodoInv`: they and those to do are
  the command line). `ItemsInv` says that the items counted or read are as many as are asked for, operand by
  operand; that rests on `FlatLength`, the length of sequences put together, and for files
  on `BeginsAndCuts`: `cmb_parse()` counts where items begin, the property what stands between
  delimiters. `CountIsTheirs` then joins the counting functions to the promise with `CountIsSum` and
  `CombinationsArePromised` of `CmbSeqProofs`, and `SameCombinations` shows that the size -1, to the code a number
  next to `UINT_MAX`, stands for all items.

`PyCmbProofs` proves, on top of the invariants of `CmbSeq` (`CmbInv`: a library running under
Python shows positions of items only):

- `FunctionSeesCombination`: `[]SeesTheCombination`; `PlainUseKept`: `[]PlainUseIsSafe`. `StubFills`
  says what a call of `stub_cmb_func()` does to the list and to the references of the items, from any list;
  `PlainInv` that a program without `misuse` has the tuple, enough items in the list, and the reference to
  its function which the call gives back too often. `TakenInv` counts what the replaced lists
  took: no item has lost more references than sizes were left behind (`Behind`), one less while
  the list of the last of them is still there (`Due`). `TakenStep` shows that every step of the
  library keeps this, upwards and downwards, with and without the empty set; so with as many
  references as items one is left of each item that is handed over.

`FigparProofs` proves for files of every length, every table of directives and all options:

- `BuffersFit`: `[]FitsBuffers`. `ReadInv` relates the descriptor's offset, what was measured and what is
  allocated; every step of measuring moves within the file.
- `QuotesLength`: what `strcount()` counts is what `replaceall()` adds, for every text: the memory
  for an expanded value is exactly enough. The two are folds over a sequence; a lemma shows that
  a function of all prefixes exists (`FoldExists`), and induction over prefixes does the rest.
- `NothingGetsLost`: `[]NothingLost`. The invariant `KeepsInv` says for every place of the program
  up to which offset each letter is in a directive or value that was told of or in a comment
  (`Passed`, `Open`), and that none is between there and what is being cut (`Bare`). Behind a name
  the character that ends it may have been looked at without being read (`AtName`). A value that is
  cut has at least one character, so a read that returns nothing means the end of the file. Of
  the premises of the property only `Ended` and that every directive has its function are used.

`DiskEditorProofs` proves for every height of the window and every length of the list:

- `TypeCorrect`: `Spec => []TypeOK`, indices never become negative, whatever is subtracted.
- `SelectionIsVisible`: `[]SelectionVisible`. The two are inductive together. That `Show`
  establishes the property from types alone, `ClampedInList`, whatever was selected in the last
  list, is what makes a stale selection harmless; `LastPageInList` is what paging rests on.

`PartEditProofs` proves for every number and size of disks, all tables that may be on them, every
machine, script, fstab and answer to every dialog:

- `EveryEntryHasAHome`: `[]MetadataHasHome`. `FormatsWhatItSays`: `[]NewfsMatchesType`, however
  the dialogs of options are left. `RootIsOnADisk`: `[]RootCommitted`. `BootCodeIsInstalled`:
  `[]CodeInstalled`, whatever fails and whichever old tables turn up. None of them has a premise.
- `OffersFreeSpace`: `[]FreeRegionIsFree`. That a gap between neighbours is free rests on
  partitions never overlapping, whatever is added, deleted, undone or comes back (`Laid`, a
  part of `Good`): an addition goes where the kernel finds the region free (`AddedFits`), the
  rest takes partitions away or changes none's place (`StillLaid`). `SeenLooked` goes through
  the loop of `gpart_max_free()`: behind the partitions looked at there is the largest
  gap none of them reaches into; `Rounding` is the arithmetic of the stripe.
- `PromiseIsKept`: `Spec => KeepsPromise`, the refinement of `PendingEdits` step by step. Its
  substance is that a revert brings the tables back to what is on the disks.
- `WizardSucceeds`: `HasRoom => (Spec => []WizardFits)`, under a bootable scheme nothing the guided mode adds
  without asking is refused. `HasRoom` is about constants: of `MIN_FREE_SPACE`, and of an empty disk,
  there is left more than a boot partition and a stripe beside swap, and a scheme that is bootable has the type it
  boots from. `PartAuto` satisfies it (`RoomAssumption`). It is needed: on disks of 5 sectors, which a
  boot partition behind the first stripe fills, TLC finds the slice after it refused.

One invariant, `Inv`, carries the first six. While the user edits, the two accounts are `Good`:

- `Sound` and `InStep` are about the kernel's: tables sit on disks or, as BSD tables or ones about
  to go, in partitions of a disk; a table without changes is as on its disk (`Written`); what is
  on a disk and not shown is in a table with changes (`Gone`). The latter two make undoing all
  that changed give back the disks (`RevertAllIs`).
- `EntryOK` is about the list's: each entry names a disk, a partition or a label of fstab, a
  command fits the partition's type. `CodeDue` adds that where boot code is due the table has
  changes pending, as `gpart_commit()` looks nowhere else; for this a change of type of a slice
  with a table inside has to be known to be a change (`InSlices`).
- `Good` does not hold within the handlers: between the kernel's verb and the change of the
  list, one name is out of step. `GoodBut` is `Good` except for that name; each lemma about an
  operator (`PartGoneGood`, `RazedGood`, `AddedGood`, `PutGood`, `ModifyGood`) says how it is
  restored.

Beside it, `Inv` says what the form shown is about (`FormFits`, `Shown`: a form's geom is still
there when it is submitted), that fstab and the disks are as found (`Steady`), and, once writing
has begun, which boot code is written or missed and which is still to come (`Committing`), also that of
a partition which is `Vacated` only by a commit on the way. Each action has
a lemma. The folds of the model (delete what is in a table, undo what changed, write lines) are
computed by a function over sets of indices; `FoldExists` says that there is one, and each kind has a
lemma that goes through the prefixes of its sequence by induction over a set of naturals, with what
the steps so far have taken away in its hypothesis.
`MetadataHasHome` excepts the label, which fstab may name more than once.

`GuidedInv` carries the seventh, beside `Inv`: which tasks the guided mode has left at each dialog, and
where. Whatever takes a root partition is a table with a scheme for file systems, and the size
root was given was measured there (`Leaves`); each table asked for comes to be empty, or with the
slice that was wanted, before the next task is begun. A form that asks nobody has been `Granted`: what it wants
is free, of a type the scheme knows, and, if a boot partition comes first, large enough to be
moved behind it and aligned. `AddBootInv` and `AddPartitionInv` show that what is granted
is what the kernel is then asked for, `FreeBehind` that the rest of a free region is free once
the boot partition is there.

`DistInstallProofs` proves for every release, medium, server, disk and order of failures:

- `SuccessIsInstalled`: `[]SuccessMeansInstalled`; `ExtractedIsVerified`: `[]OnlyVerified`;
  `FailureIsTheEnd`: `NothingAfterFailure`. One invariant carries the three. `StageInv`: nothing
  is extracted before all that MANIFEST lists is whole. `ArchiveInv`: the archive that is open
  is the current file's, and what was read of it is extracted, unless the call was interrupted
  or failed; without it an archive left open would be taken for the next file's. `FailInv`: a
  failure comes with `dpv_abort` and is not followed by a callback. `EndedInv` is that of the
  loop, for the rule that ends a file.

Assumptions: those of the constants in `DpvLoop`, `DpvTransfer`, `CmbSeq`, `CmbTool`, `PyCmb`, `FigparLexer`,
`PartEdit`, `DiskEditor` and `DistInstall`, which TLC evaluates in every run. That of `CmbTool` says what scanning an argument, an operand and a file
returns (`CommandLinesAssumption`); those of `PyCmb`, that the name for no function is none's
(`FunctionsAssumption`) and that a program refers to each item at least once
(`ItemRefsAssumption`). Those of `PartEdit`
say what the program is run on: no disk has the name that stands for labels
(`LabelAssumption`); the disks' tables are finite, with partitions that do not overlap and BSD
tables in slices only (`DiskedAssumption`); fstab mounts no partition twice (`FstabsAssumption`); a boot partition is no
slice, and one that is mounted is no file system of FreeBSD, which `PartPlatform` satisfies as a
run over all its machines shows (`MachinesAssumption`); a script creates partitions under schemes
there are (`ScriptsAssumption`).

Only model-checked: liveness and ENABLED; the heights of pages (a sum over a set of
files); of `CmbTool` the property of the output, `PrintsWhatIsAsked`. Of
`CmbSeq!GivesSlice` that is the part with fairness: that the slice is given whole and the call returns.

## 6. Not modelled

The components listed as `not_modelled` in `PROJECT.json`, each with its reason. Within
the modelled ones:

- text on the screen, widths and colours, the status line's wording, exhaustion of memory
  other than in distextract, the client of dpv() writing to nodes other than the current
  one, the children of dpv() as processes;
- the rounding of `cmb()`'s long doubles, 31 items and more (`1 << nitems`), numbers that are not
  whole in cmb(1), its prefix, suffix and -q; the references to an item from elsewhere than the program's list
  (`held` counts all the program has), the keys' list and the functions without state of the Python extension, the other bindings;
- labels of partitions, `gpart_activate()`, the attributes set by `apply_workaround()`, warnings
  that only lead back to their form;
- `get_config_option()`, a lookup, and what the functions given to libfigpar do with values;
- the stages of `auto` other than those about distributions, `zfsboot` and the dialogs.
