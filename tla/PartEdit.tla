---- MODULE PartEdit ----
\* The partition editor of bsdinstall (partedit): pending changes in the kernel
\* beside the program's own list of what to mount, format and make bootable,
\* from the menu, the guided mode and the scripted mode to the writing of it
\* all.  Warnings that only lead back to their form are left out; any answer
\* that goes on is possible.
EXTENDS PartGeom

CONSTANTS
  Machines,      \* records of PartPlatform
  Disked,        \* what may be on the disks at first: functions like k.disk
  Fstabs,        \* what may be in fstab at first: sequences of name and mount
  Modes,         \* "editor", "ufs" and "zfs" for autopart, "script"
  Scripts,       \* the scripts of scripted mode: sequences of disk, scheme and parts
  FormTypes, FormSizes, FormMounts,   \* what is typed into the forms
  OptionAnswers, \* how the dialog of file system options is left: "ok", "cancel"
  Reported,      \* the stripe size a disk reports: Stripe or 0
  Dirty,         \* whether new partitions may hold an old table
  MinFree,       \* MIN_FREE_SPACE, in sectors
  Swap,          \* SWAP_SIZE of what is available, in sectors
  MaxOps         \* bound: operations begun from the menu

VARIABLES
  st,         \* tab, mod, disk of PartGeom; md, the program's list; esps, the file
  fstab,      \* the lines of fstab
  coded,      \* geoms and partitions whose boot code is written
  missed,     \* those it was not written to: an error was shown, or a table in the way
  formatted,  \* partitions newfs has been run on
  pc,         \* the dialog shown, or what the program is doing
  form,       \* gpart_create()'s variables
  target,     \* what the scheme dialog and the edit form are about
  home,       \* where the guided and scripted modes create partitions
  job,        \* what they have still to do
  mode, plat, ops

vars == <<st, fstab, coded, missed, formatted, pc, form, target, home, job, mode, plat, ops>>

Nowhere == <<>>
Label == <<"label">> \* what fstab mounts by another name than a partition's
ASSUME LabelAssumption == "label" \notin Disks
ASSUME DirtyAssumption == Dirty \subseteq BOOLEAN

\* A boot partition is no slice, and one that is mounted no file system of FreeBSD.
ASSUME MachinesAssumption ==
  \A m \in Machines :
    /\ m.default \in Schemes
    /\ \A s \in Schemes :
         m.type[s] # "freebsd" /\ (m.mount[s] # NoMount => m.type[s] \notin FileSystems)

ASSUME DiskedAssumption == \A disk \in Disked : OnDisks(disk)

\* fstab(5) mounts no partition twice.
ASSUME FstabsAssumption ==
  \A lines \in Fstabs :
    /\ lines \in Seq(Range(lines))
    /\ \A i \in DOMAIN lines : lines[i].mount # NoMount
    /\ \A i, j \in DOMAIN lines :
         lines[i].name = lines[j].name /\ lines[i].name # Label => i = j

\* A script names schemes; what it lists for a disk are partitions to create.
IsTask(task) ==
  task.do = "disk" =>
    /\ task.scheme \in Schemes \cup {None} /\ task.parts \in Seq(Range(task.parts))
    /\ \A i \in DOMAIN task.parts : task.parts[i].do = "create"
ASSUME ScriptsAssumption ==
  \A script \in Scripts :
    script \in Seq(Range(script)) /\ \A i \in DOMAIN script : IsTask(script[i])

Keep == "keep"       \* newfs is NULL: what was to be done to format it is kept
Confirmed == FALSE   \* no dialog of options was cancelled on the way to newfs
NoForm == [inter |-> FALSE]
Rest == 0            \* no size given: all there is
Untyped == ""        \* no type given: the usual one of the scheme

\* An entry of the list, with what is remembered of its history: newfs is as a
\* cancelled dialog of options left it.
Blank(name) ==
  [name |-> name, mount |-> NoMount, fs |-> "", newfs |-> "", cancelled |-> FALSE,
   bootcode |-> FALSE]
FromFstab(lines) ==
  [i \in DOMAIN lines |-> [Blank(lines[i].name) EXCEPT !.mount = lines[i].mount, !.fs = "freebsd-ufs"]]
WriteLine(lines, m) ==
  IF m.mount = NoMount THEN lines ELSE Append(lines, [name |-> m.name, mount |-> m.mount])
ToFstab(md) == FoldLeft(WriteLine, <<>>, md)

-----------------------------------------------------------------------------
\* The list part_metadata.
Has(md, name) == \E i \in DOMAIN md : md[i].name = name
Index(md, name) == CHOOSE i \in DOMAIN md : md[i].name = name
Metadata(md, name) == IF Has(md, name) THEN md[Index(md, name)] ELSE Blank(name)
Put(md, m) ==
  IF Has(md, m.name) THEN [i \in DOMAIN md |-> IF md[i].name = m.name THEN m ELSE md[i]]
  ELSE Append(md, m)
Drop(md, name) == IF Has(md, name) THEN RemoveAt(md, Index(md, name)) ELSE md
Roots(md) == {i \in DOMAIN md : md[i].mount = "/"}

\* newfs_command(): the file systems it knows how to make.
Newfs(type) ==
  IF type \in {"freebsd-ufs", "freebsd-zfs", "fat32", "efi", "ms-basic-data"} THEN type ELSE ""

\* set_default_part_metadata()
Mountpoint(scheme, type, mount) ==
  LET asked == IF type = "freebsd-swap" THEN "none" ELSE mount
  IN IF type = plat.type[scheme] /\ asked = NoMount THEN plat.mount[scheme] ELSE asked
Unmountable(scheme, type) == type = plat.type[scheme] /\ plat.mount[scheme] = NoMount
SetDefault(s, name, scheme, type, mount, newfs, cancelled) ==
  LET old == Metadata(s.md, name)
      where == Mountpoint(scheme, type, mount)
      needscode == \/ Unmountable(scheme, type)
                   \/ scheme = "VTOC8" /\ type \in FileSystems
      new == [old EXCEPT !.newfs = IF newfs = Keep THEN @ ELSE newfs,
                         !.cancelled = IF newfs = Keep THEN @ ELSE cancelled,
                         !.mount = where, !.fs = IF where = NoMount THEN "" ELSE type,
                         !.bootcode = @ \/ needscode]
  IN [s EXCEPT !.md = Put(@, new),
               !.esps = IF Unmountable(scheme, type) THEN Append(@, name) ELSE @]

\* The kernel's share of s.
With(s, k) == [s EXCEPT !.tab = k.tab, !.mod = k.mod, !.disk = k.disk]
Kernel(s) == [tab |-> s.tab, mod |-> s.mod, disk |-> s.disk]

\* delete_part_metadata()
Forget(s, name) == [s EXCEPT !.md = Drop(@, name)]

\* gpart_partition() once it has a scheme that can be created.
Partition(s, g, scheme) ==
  LET made == With(s, Create(Kernel(s), g, scheme))
  IN IF scheme \notin plat.bootcode THEN made
     ELSE [made EXCEPT !.md = Put(@, [Metadata(@, g) EXCEPT !.bootcode = TRUE])]

\* Mutant: what was to be done with the partition is remembered.
DeleteLeafRemembered(s, p) ==
  IF CanDelete(Kernel(s), p) THEN With(s, Delete(Kernel(s), p)) ELSE s

\* gpart_delete() of a partition without a table of its own.
DeleteLeaf(s, p) ==
  IF ~CanDelete(Kernel(s), p) THEN s
  ELSE Forget(With(s, Delete(Kernel(s), p)), p)

\* gpart_destroy(), with del for the gpart_delete() of each partition.
DestroyWith(s, g, del(_, _)) ==
  LET emptied == FoldLeft(del, s, SetToSeq(PartsOf(s.tab, g)))
      undone == With(emptied, Undo(Kernel(emptied), g))
      destroyed == With(undone, Destroy(Kernel(undone), g))
  IN Forget(destroyed, g)
\* Mutant: the metadata of the children is kept.
DestroyNestedOnly(s, g) == With(s, Destroy(Undo(Kernel(s), g), g))
DestroyNested(s, g) == DestroyWith(s, g, DeleteLeaf)
DeletePart(s, p) ==
  IF p \notin DOMAIN s.tab THEN DeleteLeaf(s, p)
  ELSE LET bare == DestroyNested(s, p)
       IN DeleteLeaf(With(bare, Undo(Kernel(bare), p)), p)
DestroyGeom(s, g) == IF IsDisk(g) THEN DestroyWith(s, g, DeletePart) ELSE DestroyNested(s, g)

\* What the guided mode does once there is room: a slice if the disk has an MBR,
\* root and swap in the disk or the slice.
Wizard(fs) ==
  <<[do |-> "slice", inter |-> TRUE], [do |-> "makeparts", fs |-> fs, inter |-> TRUE]>>

-----------------------------------------------------------------------------
Init ==
  /\ plat \in Machines /\ mode \in Modes
  /\ \E disk \in Disked, lines \in Fstabs :
       /\ \A i \in DOMAIN lines : lines[i].name \in Partitions(disk) \cup {Label}
       /\ fstab = lines
       /\ st = [tab |-> disk, mod |-> {}, disk |-> disk, md |-> FromFstab(lines), esps |-> <<>>]
  /\ coded = {} /\ missed = {} /\ formatted = {}
  /\ form = NoForm /\ target = Nowhere /\ home = Nowhere /\ ops = 0
  /\ IF mode = "script"
     THEN pc = "resume" /\ \E script \in Scripts : job = script
     ELSE IF mode = "editor" THEN pc = "menu" /\ job = <<>>
     ELSE pc = "wdisk" /\ job = Wizard(IF mode = "zfs" THEN "freebsd-zfs" ELSE "freebsd-ufs")

\* Where the program goes when a gpart_ function is done: to the rest of what
\* the guided or the scripted mode has to do, or to the menu.
Return == pc' = "resume"
Stay == UNCHANGED <<fstab, coded, missed, formatted, mode, plat>>

\* gpart_partition() without a scheme: the menu of schemes, again and again
\* until one can be created or none is chosen.
AskScheme(g) == pc' = "scheme" /\ target' = g
ChooseScheme(scheme) ==
  /\ pc = "scheme"
  /\ CanCreate(Kernel(st), target, scheme)
  /\ st' = Partition(st, target, scheme)
  /\ Return
  /\ Stay /\ UNCHANGED <<form, target, home, job, ops>>
CancelScheme ==
  /\ pc = "scheme"
  /\ Return
  /\ Stay /\ UNCHANGED <<st, form, target, home, job, ops>>

-----------------------------------------------------------------------------
\* gpart_create() on provider p.
GeomFor(p) == IF p \in DOMAIN st.tab THEN p ELSE IF IsDisk(p) THEN Nowhere ELSE Front(p)
StartCreate(p, inter, type, size, mount, named) ==
  LET g == GeomFor(p)
      free == MaxFree(st.tab, g)
      text == CASE type # Untyped -> type
                [] type = Untyped /\ st.tab[g].scheme = "MBR" -> "freebsd"
                [] OTHER -> "freebsd-ufs"
  IN IF g = Nowhere \/ Zombie(st.tab, g)
     THEN AskScheme(p) /\ UNCHANGED form /\ home' = IF named THEN Nowhere ELSE home
     ELSE IF free.size <= 0
     THEN Return /\ UNCHANGED <<form, target>> /\ home' = IF named THEN Nowhere ELSE home
     ELSE /\ form' = [inter |-> inter, geom |-> g, scheme |-> st.tab[g].scheme,
                      seen |-> st.tab[g], max |-> free, free |-> free.start,
                      type |-> text, asked |-> size, size |-> free.size, mount |-> mount,
                      fstype |-> text, newfs |-> Newfs(text), cancelled |-> FALSE,
                      named |-> named]
          /\ pc' = "addform"
          /\ UNCHANGED <<target, home>>

\* The Options button: newfs_command() leaves its command alone when its dialog
\* is cancelled; a type without options has no such dialog.
Options(type, answer) ==
  /\ pc = "addform" /\ form.inter
  /\ form' = [form EXCEPT !.fstype = type,
                          !.newfs = IF answer = "ok" \/ Newfs(type) = "" THEN Newfs(type) ELSE @,
                          !.cancelled = answer # "ok" /\ Newfs(type) # ""]
  /\ Stay /\ UNCHANGED <<st, pc, target, home, job, ops>>

Smaller(a, b) == IF a < b THEN a ELSE b
WantsBoot(type, mount) ==
  (type = "freebsd" \/ mount = "/") /\ plat.size[form.scheme] > 0
SubmitForm(type, size, mount) ==
  /\ pc = "addform"
  /\ ~form.inter => type = form.type /\ size = form.asked /\ mount = form.mount
  /\ form' = [form EXCEPT !.type = type, !.asked = size, !.mount = mount, !.fstype = type,
                !.newfs = IF type = form.fstype THEN @ ELSE Newfs(type),
                !.cancelled = @ /\ type = form.fstype,
                !.size = IF size = Rest THEN form.max.size ELSE Smaller(size, form.max.size)]
  /\ pc' = IF type = "freebsd" /\ mount # NoMount THEN "adderror"
           ELSE IF WantsBoot(type, mount) THEN "boot" ELSE "add"
  /\ Stay /\ UNCHANGED <<st, target, home, job, ops>>
CancelForm ==
  /\ pc = "addform" /\ form.inter
  /\ home' = IF form.named THEN Nowhere ELSE home
  /\ Return
  /\ Stay /\ UNCHANGED <<st, form, target, job, ops>>

\* add_boot_partition(): a boot partition of the table as it was when
\* gpart_create() was called, if it is one that will be used.
BootType == plat.type[form.scheme]
BootMount == plat.mount[form.scheme]
Serves(i) ==
  LET name == Append(form.geom, i)
      m == Metadata(st.md, name)
  IN /\ form.seen.parts[i].type = BootType
     /\ BootMount = NoMount => m.bootcode
     /\ BootMount # NoMount => m.mount \in {NoMount, BootMount}
BootFound ==
  /\ pc = "boot"
  /\ \E i \in DOMAIN form.seen.parts :
       /\ Serves(i)
       /\ \A j \in DOMAIN form.seen.parts : Serves(j) => i <= j
       /\ st' = IF BootMount # NoMount /\ ~Has(st.md, Append(form.geom, i))
                THEN SetDefault(st, Append(form.geom, i), form.scheme, BootType, BootMount,
                                Keep, Confirmed)
                ELSE st
  /\ pc' = "add"
  /\ Stay /\ UNCHANGED <<form, target, home, job, ops>>
NoBootFound == pc = "boot" /\ \A i \in DOMAIN form.seen.parts : ~Serves(i)
BootDeclined ==
  /\ NoBootFound /\ form.inter
  /\ pc' = "add"
  /\ Stay /\ UNCHANGED <<st, form, target, home, job, ops>>
BootWanted ==
  /\ NoBootFound
  /\ pc' = "bootadd"
  /\ Stay /\ UNCHANGED <<st, form, target, home, job, ops>>

\* The partition gpart_create() adds, and what the destroying of a table that
\* showed up in it leaves.
Added(s, g, type, start, size, dirty) ==
  LET name == Append(g, NewIndex(s.tab, g))
      added == Add(Kernel(s), g, type, start, size)
      shown == IF dirty /\ CanCreate(added, name, "BSD") THEN Create(added, name, "BSD") ELSE added
  IN [name |-> name, st |-> With(s, Destroy(shown, name))]

\* The partition really wanted moves past the boot partition, and shrinks by
\* what it may lose to the stripe.  Mutant: it does not.
ForwardTight(f, boot) ==
  [f EXCEPT !.size = @ - boot, !.free = @ + boot + ((Stripe - ((@ + boot) % Stripe)) % Stripe)]
Forward(f, boot) ==
  [f EXCEPT !.size = @ - (boot + Reported),
            !.free = @ + boot + IF Reported = 0 THEN 0
                                ELSE (Stripe - ((@ + boot) % Stripe)) % Stripe]

\* gpart_create() called by add_boot_partition(): it starts from the same table
\* as its caller, and asks nobody.
AddBoot ==
  LET size == Smaller(plat.size[form.scheme], form.max.size)
  IN /\ pc = "bootadd"
     /\ CanAdd(Kernel(st), form.geom, BootType, form.max.start, size)
     /\ \E dirty \in Dirty :
          LET new == Added(st, form.geom, BootType, form.max.start, size, dirty)
          IN st' = SetDefault(new.st, new.name, form.scheme, BootType, BootMount,
                              IF BootMount = NoMount THEN "" ELSE Newfs(BootType), Confirmed)
     /\ form' = Forward(form, plat.size[form.scheme])
     /\ pc' = "add"
     /\ Stay /\ UNCHANGED <<target, home, job, ops>>
BootRefused ==
  /\ pc = "bootadd"
  /\ ~CanAdd(Kernel(st), form.geom, BootType, form.max.start,
             Smaller(plat.size[form.scheme], form.max.size))
  /\ pc' = "booterror"
  /\ Stay /\ UNCHANGED <<st, form, target, home, job, ops>>
BootRetry ==
  /\ pc = "booterror" /\ pc' = "bootadd"
  /\ Stay /\ UNCHANGED <<st, form, target, home, job, ops>>

AddPartition ==
  /\ pc = "add"
  /\ CanAdd(Kernel(st), form.geom, form.type, form.free, form.size)
  /\ \E dirty \in Dirty :
       LET new == Added(st, form.geom, form.type, form.free, form.size, dirty)
       IN /\ st' = IF form.type = "freebsd" THEN Partition(new.st, new.name, "BSD")
                   ELSE SetDefault(new.st, new.name, form.scheme, form.type, form.mount,
                                   form.newfs, form.cancelled)
          /\ home' = IF form.named THEN new.name ELSE home
  /\ Return
  /\ Stay /\ UNCHANGED <<form, target, job, ops>>
AddRefused ==
  /\ pc = "add"
  /\ ~CanAdd(Kernel(st), form.geom, form.type, form.free, form.size)
  /\ pc' = "adderror"
  /\ Stay /\ UNCHANGED <<st, form, target, home, job, ops>>
AddRetry ==
  /\ pc = "adderror" /\ pc' = "addform"
  /\ Stay /\ UNCHANGED <<st, form, target, home, job, ops>>

-----------------------------------------------------------------------------
\* The menu, diskeditor_show(): an item and a button.
Menu == pc = "menu" /\ ops < MaxOps /\ ops' = ops + 1

MenuCreate(p) ==
  /\ Menu
  /\ StartCreate(p, TRUE, Untyped, Rest, NoMount, FALSE)
  /\ Stay /\ UNCHANGED <<st, job>>

\* gpart_delete(): of a disk, what it holds; of a partition, all of it.
MenuDelete(p) ==
  /\ Menu
  /\ st' = IF ~IsDisk(p) THEN DeletePart(st, p)
           ELSE IF p \in DOMAIN st.tab THEN DestroyGeom(st, p) ELSE st
  /\ UNCHANGED pc
  /\ Stay /\ UNCHANGED <<form, target, home, job>>

\* gpart_edit(): a disk is partitioned anew, a partition has its form.
MenuModify(p) ==
  /\ Menu
  /\ LET blank == p \notin DOMAIN st.tab \/ Zombie(st.tab, p)
     IN IF IsDisk(p) \/ Zombie(st.tab, p)
        THEN /\ AskScheme(p)
             /\ st' = IF blank THEN st ELSE DestroyGeom(st, p)
        ELSE pc' = "editform" /\ target' = p /\ UNCHANGED st
  /\ Stay /\ UNCHANGED <<form, home, job>>

\* What gpart_edit() does when its form is closed and the type in it is not the
\* partition's: a nested table goes, with the metadata of its name, and a
\* partition for a nested table gets one.
EndEdit(s, type) ==
  LET changed == type # Part(st.tab, target).type
      bare == IF changed /\ target \in DOMAIN s.tab THEN DestroyNested(s, target) ELSE s
  IN IF ~changed \/ type # "freebsd" THEN st' = bare /\ Return
     ELSE IF CanCreate(Kernel(bare), target, "BSD")
     THEN st' = Partition(bare, target, "BSD") /\ Return
     ELSE st' = bare /\ pc' = "scheme"
EditOk(type, mount) ==
  LET old == Part(st.tab, target).type
      scheme == st.tab[Front(target)].scheme
      \* set_default_part_metadata() copies the name of a pool it has not made
      nopool == /\ type = old /\ type = "freebsd-zfs"
                /\ Mountpoint(scheme, type, mount) # NoMount
      kept == With(st, Modify(Kernel(st), target, type))
  IN /\ pc = "editform"
     /\ CanModify(Kernel(st), target, type)
     /\ IF nopool THEN st' = kept /\ pc' = "crashed"
        ELSE EndEdit(SetDefault(kept, target, scheme, type, mount,
                                IF type = old THEN Keep ELSE Newfs(type), Confirmed), type)
     /\ Stay /\ UNCHANGED <<form, target, home, job, ops>>
\* The text of the form may be changed already.
EditCancel(type) ==
  /\ pc = "editform"
  /\ EndEdit(st, type)
  /\ Stay /\ UNCHANGED <<form, target, home, job, ops>>

UndoChanged(k, g) == IF g \in k.mod THEN Undo(k, g) ELSE k

\* Mutant: nested tables are passed over.
RevertDisks(s) ==
  With(s, FoldLeft(UndoChanged, Kernel(s), SetToSeq({g \in s.mod : IsDisk(g)})))

\* gpart_revert_all(), in the order the kernel lists its geoms: disks first.
RevertAll(s) ==
  With(s, FoldLeft(UndoChanged, Kernel(s),
                   SetToSeq({g \in s.mod : IsDisk(g)}) \o SetToSeq({g \in s.mod : ~IsDisk(g)})))
MenuRevert ==
  /\ Menu
  /\ st' = [RevertAll(st) EXCEPT !.md = FromFstab(fstab)]
  /\ UNCHANGED pc
  /\ Stay /\ UNCHANGED <<form, target, home, job>>
MenuAuto ==
  /\ Menu
  /\ pc' = "wdisk" /\ job' = Wizard("freebsd-ufs")
  /\ Stay /\ UNCHANGED <<st, form, target, home>>
MenuFinish ==
  /\ pc = "menu"
  /\ pc' = "confirm"
  /\ Stay /\ UNCHANGED <<st, form, target, home, job, ops>>

-----------------------------------------------------------------------------
\* part_wizard(): choose a disk, make room on it, create root and swap.
ToMenu == pc' = "menu" /\ job' = <<>>
ChooseDisk(d) ==
  /\ pc = "wdisk"
  /\ home' = <<d>>
  /\ pc' = "wpart"
  /\ Stay /\ UNCHANGED <<st, form, target, job, ops>>
NoDisk ==
  /\ pc = "wdisk" /\ Cardinality(Disks) > 1
  /\ ToMenu
  /\ Stay /\ UNCHANGED <<st, form, target, home, ops>>

\* wizard_partition(): the whole disk, a part of it, or an escape from the
\* question.  A table that has to go is destroyed before a new scheme is chosen;
\* the slice is asked for in a form unless the answer was the whole disk.
Scheme(g) == IF g \in DOMAIN st.tab THEN st.tab[g].scheme ELSE None
UseDisk(answer) ==
  /\ pc = "wpart"
  /\ LET scheme == Scheme(home)
         anew == \/ answer = "entire" \/ scheme = None
                 \/ answer = "partition" /\ scheme \notin plat.bootable
         slice == [Head(job) EXCEPT !.inter = answer # "entire"]
     IN /\ st' = IF anew /\ scheme # None THEN DestroyGeom(st, home) ELSE st
        /\ job' = IF anew \/ scheme = "MBR" THEN <<slice>> \o Tail(job) ELSE Tail(job)
        /\ pc' = IF anew THEN "wscheme" ELSE "resume"
  /\ Stay /\ UNCHANGED <<form, target, home, ops>>
WizardScheme(scheme) ==
  /\ pc = "wscheme"
  /\ st' = Partition(st, home, scheme)
  /\ job' = IF scheme = "MBR" THEN job ELSE Tail(job)
  /\ Return
  /\ Stay /\ UNCHANGED <<form, target, home, ops>>
NoWizardScheme ==
  /\ pc = "wscheme"
  /\ ToMenu
  /\ Stay /\ UNCHANGED <<st, form, target, home, ops>>

\* wizard_makeparts() in the table named home.  What is left for the root file
\* system is written as a text of three digits and read again.
Rounded(n) == n-1..n+1
Root(fs, size) == [do |-> "create", type |-> fs, size |-> size, mount |-> "/"]
SwapPart == [do |-> "create", type |-> "freebsd-swap", size |-> Swap, mount |-> NoMount]
DoMakeParts(task) ==
  LET room == MaxFree(st.tab, home).size
      short == task.inter /\ (Zombie(st.tab, home) \/ room < MinFree)
  IN IF home = Nowhere
     THEN IF task.inter THEN ToMenu ELSE pc' = "crashed" /\ UNCHANGED job
     ELSE IF home \notin DOMAIN st.tab THEN pc' = "crashed" /\ UNCHANGED job
     ELSE IF short THEN pc' = "wshort" /\ UNCHANGED job
     ELSE /\ UNCHANGED pc
          /\ \E size \in Rounded(room - Swap) :
               job' = <<Root(task.fs, size), SwapPart>> \o Tail(job)
AnotherDisk ==
  /\ pc = "wshort"
  /\ pc' = "wdisk" /\ job' = Wizard(Head(job).fs)
  /\ Stay /\ UNCHANGED <<st, form, target, home, ops>>
ToEditor ==
  /\ pc = "wshort"
  /\ ToMenu
  /\ Stay /\ UNCHANGED <<st, form, target, home, ops>>

-----------------------------------------------------------------------------
\* part_config() of one disk of a script: any table goes, a new one with what
\* the script lists, or with what the guided mode would make.
DoDisk(task) ==
  LET g == <<task.disk>>
      scheme == IF task.scheme = None THEN plat.default ELSE task.scheme
      bare == IF g \in DOMAIN st.tab THEN DestroyGeom(st, g) ELSE st
      slice == IF scheme = "MBR" THEN <<[do |-> "slice", inter |-> FALSE]>> ELSE <<>>
      parts == IF task.parts # <<>> THEN task.parts
               ELSE <<[do |-> "makeparts", fs |-> "freebsd-ufs", inter |-> FALSE]>>
  IN IF task.disk \notin Disks
     THEN pc' = "failed" /\ UNCHANGED <<st, home, job>>
     ELSE /\ st' = Partition(bare, g, scheme)
          /\ home' = g
          /\ job' = slice \o parts \o Tail(job)
          /\ UNCHANGED pc

\* The next thing to do of the guided and the scripted modes.
Next1 == Head(job)
NothingLeft ==
  /\ pc = "resume" /\ job = <<>>
  /\ pc' = IF mode = "script" THEN "confirm" ELSE "menu"
  /\ form' = NoForm /\ target' = Nowhere /\ home' = Nowhere
  /\ Stay /\ UNCHANGED <<st, job, ops>>
Resume ==
  /\ pc = "resume" /\ job # <<>>
  /\ \/ /\ Next1.do = "slice" /\ job' = Tail(job)
        /\ StartCreate(home, Next1.inter, "freebsd", Rest, NoMount, TRUE)
        /\ UNCHANGED st
     \/ /\ Next1.do = "create" /\ job' = Tail(job)
        /\ StartCreate(home, FALSE, Next1.type, Next1.size, Next1.mount, FALSE)
        /\ UNCHANGED st
     \/ /\ Next1.do = "makeparts" /\ DoMakeParts(Next1)
        /\ UNCHANGED <<st, form, target, home>>
     \/ /\ Next1.do = "disk" /\ DoDisk(Next1)
        /\ UNCHANGED <<form, target>>
  /\ Stay /\ UNCHANGED ops

-----------------------------------------------------------------------------
\* Finish, or the end of a script: validate_setup(), and apply_changes().
Scripted == mode = "script"
NotYet ==
  /\ pc = "confirm"
  /\ IF Scripted
     THEN /\ \A i \in Roots(st.md) : i = Max(Roots(st.md)) => st.md[i].newfs = ""
          /\ pc' = "quit" /\ st' = RevertAll(st)
     ELSE pc' = "menu" /\ UNCHANGED st
  /\ Stay /\ UNCHANGED <<form, target, home, job, ops>>
Quit ==
  /\ pc = "confirm" /\ ~Scripted
  /\ pc' = "quit" /\ st' = RevertAll(st)
  /\ Stay /\ UNCHANGED <<form, target, home, job, ops>>
\* The boot code gpart_commit() writes before the table: that of the geom, and
\* that of its partitions unless they hold a table.
\* Mutant: the geom's only.
CodesOfGeom(g) ==
  {x \in {g} : Metadata(st.md, g).bootcode /\ st.tab[g].scheme \in plat.bootcode}
Codes(g) ==
  LET scheme == st.tab[g].scheme
      parts == {p \in PartsOf(st.tab, g) : p \notin DOMAIN st.tab /\ Metadata(st.md, p).bootcode}
  IN {x \in {g} : Metadata(st.md, g).bootcode /\ scheme \in plat.bootcode}
     \cup {p \in parts : scheme \in plat.partcode}
\* The partitions it passes over, for a table that is destroyed and still there.
Occupied(g) ==
  {p \in PartsOf(st.tab, g) : /\ p \in DOMAIN st.tab /\ Zombie(st.tab, p)
                              /\ Metadata(st.md, p).bootcode
                              /\ st.tab[g].scheme \in plat.partcode}
\* The geoms with changes, as gpart_commit() finds them when it begins.
Commits ==
  LET geoms == SetToSeq(st.mod)
  IN [i \in DOMAIN geoms |->
        [geom |-> geoms[i], codes |-> Codes(geoms[i]), occupied |-> Occupied(geoms[i])]]

\* Mutant: without validate_setup().
StartCommitUnchecked ==
  /\ pc = "confirm"
  /\ pc' = "commit"
  /\ job' = Commits
  /\ Stay /\ UNCHANGED <<st, form, target, home, ops>>
StartCommit ==
  /\ pc = "confirm"
  /\ Roots(st.md) # {}
  /\ pc' = "commit"
  /\ job' = Commits
  /\ Stay /\ UNCHANGED <<st, form, target, home, ops>>

\* gpart_bootcode() and gpart_partcode(): what fails is shown, and nobody is told.
WriteCodes(geom) ==
  \E written \in SUBSET geom.codes :
    /\ coded' = coded \cup written
    /\ missed' = missed \cup (geom.codes \ written) \cup geom.occupied
\* gpart_commit() of one geom with changes; so it is with the table.
CommitGeom ==
  /\ pc = "commit" /\ job # <<>>
  /\ WriteCodes(Head(job))
  /\ \/ st' = With(st, Commit(Kernel(st), Head(job).geom))
     \/ UNCHANGED st
  /\ job' = Tail(job)
  /\ UNCHANGED <<pc, fstab, formatted, form, target, home, mode, plat, ops>>

\* Every newfs in the order of the list, whether the last one worked or not.
Unformatted == {i \in DOMAIN st.md : st.md[i].newfs # "" /\ st.md[i].name \notin formatted}
Format ==
  /\ pc = "commit" /\ job = <<>>
  /\ \E i \in Unformatted :
       /\ \A j \in Unformatted : i <= j
       /\ formatted' = formatted \cup {st.md[i].name}
  /\ UNCHANGED <<pc, st, fstab, coded, missed, form, target, home, job, mode, plat, ops>>
WriteFstab ==
  /\ pc = "commit" /\ job = <<>> /\ Unformatted = {}
  /\ \/ fstab' = ToFstab(st.md) /\ pc' = "done"
     \/ UNCHANGED fstab /\ pc' = "failed"
  /\ UNCHANGED <<st, coded, missed, formatted, form, target, home, job, mode, plat, ops>>

\* SIGINT: sigint_handler() at any time.
Ended == {"quit", "interrupted", "failed", "crashed", "done"}
Interrupt ==
  /\ pc \notin Ended
  /\ st' = RevertAll(st)
  /\ pc' = "interrupted"
  /\ form' = NoForm /\ target' = Nowhere /\ home' = Nowhere /\ job' = <<>>
  /\ Stay /\ UNCHANGED ops
Exited == pc \in Ended /\ UNCHANGED vars

Dialog ==
  \/ \E scheme \in Schemes : ChooseScheme(scheme) \/ WizardScheme(scheme)
  \/ CancelScheme \/ NoWizardScheme
  \/ \E type \in FormTypes, size \in FormSizes \cup {Rest}, mount \in FormMounts :
       SubmitForm(type, size, mount)
  \/ \E type \in FormTypes, answer \in OptionAnswers : Options(type, answer)
  \/ CancelForm \/ BootDeclined
  \/ \E p \in Providers(st.tab) : MenuCreate(p) \/ MenuDelete(p) \/ MenuModify(p)
  \/ MenuRevert \/ MenuAuto \/ MenuFinish
  \/ \E type \in FormTypes, mount \in FormMounts : EditOk(type, mount)
  \/ \E type \in FormTypes : EditCancel(type)
  \/ \E d \in Disks : ChooseDisk(d)
  \/ NoDisk
  \/ \E answer \in {"entire", "partition", "escape"} : UseDisk(answer)
  \/ AnotherDisk \/ ToEditor \/ NotYet \/ Quit \/ StartCommit

\* What the program does without waiting for an answer.
Program ==
  \/ ~form.inter /\ SubmitForm(form.type, form.asked, form.mount)
  \/ BootFound \/ BootWanted \/ AddBoot \/ BootRefused \/ BootRetry
  \/ AddPartition \/ AddRefused \/ AddRetry
  \/ NothingLeft \/ Resume \/ CommitGeom \/ Format \/ WriteFstab

Next == Dialog \/ Program \/ Interrupt \/ Exited
Spec == Init /\ [][Next]_vars

-----------------------------------------------------------------------------
\* Tables sit on providers, changes are pending in tables.
TablesSit ==
  /\ DOMAIN st.tab \subseteq Providers(st.tab)
  /\ st.mod \subseteq DOMAIN st.tab

\* newfs will be run on partitions that will exist, and makes the file system
\* their type says: through every deletion, change of type, revert and nested
\* table, the list and the kernel's pending tables are kept apart but in step.
\* The exception is what gpart_ops.c:1121 means to undo and does not: options_fstype
\* is set before the dialog of options is shown (1113), so that when the dialog is
\* cancelled the command of the type before it is kept for the type typed last.
NewfsMatchesType ==
  pc \notin Ended => \A i \in DOMAIN st.md :
    LET m == st.md[i]
    IN m.newfs # "" =>
         /\ m.name \in Partitions(st.tab)
         /\ Part(st.tab, m.name).type = m.newfs \/ m.cancelled

\* Nothing will be mounted, and no boot code written, that is in no pending
\* table and was not in fstab, nor anything twice: the list has one entry a name,
\* while tables come and go with the partitions they sit on.
MetadataHasHome ==
  /\ TablesSit
  /\ \A i, j \in DOMAIN st.md :
       st.md[i].name = st.md[j].name /\ st.md[i].name # Label => i = j
  /\ pc \notin Ended => \A i \in DOMAIN st.md :
       \/ st.md[i].name \in Providers(st.tab)
       \/ \E j \in DOMAIN fstab : fstab[j].name = st.md[i].name

\* Whatever was added and deleted, the region gpart_max_free() offers is on the
\* disk, aligned and in nobody's partition.
FreeRegionIsFree ==
  pc \notin Ended => \A g \in DOMAIN st.tab :
    LET free == MaxFree(st.tab, g)
    IN free.size > 0 /\ ~Zombie(st.tab, g) =>
         FreeIn(st.tab, g, free.start, free.size) /\ free.start % Stripe = 0

\* What the prompt promises ("No changes will be made until you select Finish"),
\* and the handler of SIGINT: the editor implements PendingEdits.
Phase == CASE pc = "commit" -> "write"
           [] pc \in {"quit", "interrupted", "done"} -> "over"
           [] pc \in {"failed", "crashed"} -> "lost"
           [] OTHER -> "edit"
Promise == INSTANCE PendingEdits WITH phase <- Phase, shown <- st.tab, disk <- st.disk
KeepsPromise == Promise!Spec

\* When every table has been written, fstab mounts / from a partition that is
\* on a disk, or from what it named otherwise before.
RootCommitted ==
  pc = "done" /\ st.mod = {} =>
    \E i \in DOMAIN fstab :
      fstab[i].mount = "/" /\ fstab[i].name \in Partitions(st.disk) \cup {Label}

\* Of every table and boot partition that is to have boot code, gpart_commit() has
\* written it by the end, has shown that it could not (gpart_ops.c:402, 423, 461), or
\* has found the partition occupied by a table that was destroyed (1454): bootcode
\* is only looked at in geoms with changes pending, yet none is forgotten.
NeedsCode(m) ==
  /\ m.bootcode
  /\ IF m.name \in DOMAIN st.tab THEN st.tab[m.name].scheme \in plat.bootcode
     ELSE m.name \in Partitions(st.tab) /\ st.tab[Front(m.name)].scheme \in plat.partcode
CodeInstalled ==
  pc = "done" => \A i \in DOMAIN st.md : NeedsCode(st.md[i]) => st.md[i].name \in coded \cup missed

\* A whole disk, and what the guided mode leaves for a root partition, is larger
\* than a boot partition and what aligning may take; where a scheme is bootable
\* it has the type of partition it boots from.
HasRoom ==
  /\ Swap \in Nat /\ MinFree \in Int /\ MinFree > Swap + 1 /\ Reported \in {0, Stripe}
  /\ \A m \in Machines : \A s \in m.bootable :
       /\ m.size[s] \in Nat
       /\ m.size[s] > 0 =>
            /\ m.type[s] \in Types[s]
            /\ m.size[s] + Reported < MinFree - Swap - 1
            /\ m.size[s] + Reported <= LastSector - Stripe

\* On every machine, what the guided mode adds without asking fits: with a
\* bootable scheme, no root, swap, slice or boot partition is refused, which
\* nothing could end.
WizardFits ==
  pc \in {"adderror", "booterror"} /\ ~form.inter /\ mode # "script" =>
    form.scheme \notin plat.bootable

-----------------------------------------------------------------------------
====
