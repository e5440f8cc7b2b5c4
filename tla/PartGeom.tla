---- MODULE PartGeom ----
\* Partition tables as the kernel's PART class keeps them (external: modelled
\* from how gpart_ops.c uses it), and gpart_max_free(), which reads them.
\* A provider is named by a sequence: <<disk>>, <<disk, index>> for a partition,
\* <<disk, index, index>> for one of a nested table; a PART geom has the name
\* of the provider it partitions.
EXTENDS Integers, FiniteSets, SequencesExt, PartPlatform

CONSTANTS
  Disks,
  LastSector,   \* the last usable sector of a disk; the first one is FirstSector
  Stripe        \* the adjusted stripe size, in sectors

FirstSector == 1

ASSUME DiskAssumption ==
  LastSector \in Nat /\ LastSector >= FirstSector /\ Stripe \in Nat \ {0}

None == "(none)"    \* the scheme of a table whose destruction is pending

\* The types a scheme can express.
Types == [GPT |-> {"freebsd-ufs", "freebsd-zfs", "freebsd-swap", "freebsd-boot", "freebsd",
                   "efi", "ms-basic-data", "prep-boot", "apple-boot"},
          MBR |-> {"freebsd", "fat16", "fat32", "efi", "prep-boot"},
          BSD |-> {"freebsd-ufs", "freebsd-zfs", "freebsd-swap"},
          APM |-> {"freebsd-ufs", "freebsd-zfs", "freebsd-swap", "apple-boot"},
          VTOC8 |-> {"freebsd-ufs", "freebsd-zfs", "freebsd-swap"}]

Table(scheme) == [scheme |-> scheme, parts |-> [i \in {} |-> 0]]

\* A function with a value replaced or added, and one laid over another.
Assign(f, x, v) == [y \in DOMAIN f \cup {x} |-> IF y = x THEN v ELSE f[y]]
Over(f, h) == [y \in DOMAIN f \cup DOMAIN h |-> IF y \in DOMAIN f THEN f[y] ELSE h[y]]

-----------------------------------------------------------------------------
\* k.tab: the tables as they are shown, pending changes included; k.mod: the
\* geoms with pending changes; k.disk: the tables on the disks.
IsDisk(name) == Len(name) = 1
PartsOf(tab, g) == {Append(g, i) : i \in DOMAIN tab[g].parts}
Partitions(tab) == UNION {PartsOf(tab, g) : g \in DOMAIN tab}
Providers(tab) == {<<d>> : d \in Disks} \cup Partitions(tab)
Part(tab, name) == tab[Front(name)].parts[Last(name)]
End(part) == part.start + part.size - 1
Zombie(tab, g) == g \in DOMAIN tab /\ tab[g].scheme = None

\* Sectors a table can give to partitions: those of a nested one are relative.
FirstOf(g) == IF IsDisk(g) THEN FirstSector ELSE 0
LastOf(tab, g) == IF IsDisk(g) THEN LastSector ELSE Part(tab, g).size - 1

\* The partitions of a table are within it and apart.
Inside(part, first, last) ==
  /\ part.start \in Int /\ part.size \in Int
  /\ part.size > 0 /\ part.start >= first /\ End(part) <= last
Disjoint(a, b) == End(a) < b.start \/ End(b) < a.start
LaidOut(parts, first, last) ==
  /\ \A i \in DOMAIN parts : Inside(parts[i], first, last)
  /\ \A i, j \in DOMAIN parts : i # j => Disjoint(parts[i], parts[j])
Laid(tab) == \A g \in DOMAIN tab : LaidOut(tab[g].parts, FirstOf(g), LastOf(tab, g))

\* What tables may be on disks: those of the disks, and BSD tables in slices; the
\* kernel takes none whose partitions overlap.
DiskNames == {<<d>> : d \in Disks}
IsRegion(part) == part = [start |-> part.start, size |-> part.size, type |-> part.type]
IsTable(table) ==
  /\ table = [scheme |-> table.scheme, parts |-> [i \in DOMAIN table.parts |-> table.parts[i]]]
  /\ table.scheme \in Schemes \cup {None}
  /\ IsFiniteSet(DOMAIN table.parts) /\ DOMAIN table.parts \subseteq Nat \ {0}
  /\ \A i \in DOMAIN table.parts : IsRegion(table.parts[i])
  /\ table.scheme = None => DOMAIN table.parts = {}
InSlice(tab, g) ==
  \E h \in DiskNames \cap DOMAIN tab : \E i \in DOMAIN tab[h].parts :
    g = Append(h, i) /\ tab[h].parts[i].type = "freebsd"
OnDisks(tab) ==
  /\ IsFiniteSet(DOMAIN tab) /\ tab = [g \in DOMAIN tab |-> tab[g]] /\ Laid(tab)
  /\ \A g \in DOMAIN tab :
       /\ IsTable(tab[g]) /\ tab[g].scheme # None
       /\ g \in DiskNames \/ (InSlice(tab, g) /\ tab[g].scheme = "BSD")

FreeIn(tab, g, start, size) ==
  /\ start \in Nat /\ size \in Nat \ {0}
  /\ start >= FirstOf(g) /\ start + size - 1 <= LastOf(tab, g)
  /\ \A i \in DOMAIN tab[g].parts :
       LET part == tab[g].parts[i]
       IN End(part) < start \/ start + size - 1 < part.start

\* A table whose provider is gone is gone.
Kept(k, tab, g) ==
  LET there == {n \in DOMAIN tab : IsDisk(n) \/ n \in Partitions(tab)}
  IN [k EXCEPT !.tab = Restrict(tab, there), !.mod = (@ \cup {g}) \cap there]

\* The verbs.  Only BSD tables nest, and nothing nests in them.
CanCreate(k, g, scheme) ==
  /\ g \in Providers(k.tab)
  /\ g \in DOMAIN k.tab => Zombie(k.tab, g)
  /\ IsDisk(g) \/ (scheme = "BSD" /\ Len(g) = 2)
Create(k, g, scheme) == Kept(k, Assign(k.tab, g, Table(scheme)), g)

CanDestroy(k, g) ==
  g \in DOMAIN k.tab /\ ~Zombie(k.tab, g) /\ PartsOf(k.tab, g) \cap k.mod = {}
Destroy(k, g) ==
  IF CanDestroy(k, g) THEN Kept(k, Assign(k.tab, g, Table(None)), g) ELSE k

CanAdd(k, g, type, start, size) ==
  /\ g \in DOMAIN k.tab /\ ~Zombie(k.tab, g)
  /\ type \in Types[k.tab[g].scheme]
  /\ FreeIn(k.tab, g, start, size)
NewIndex(tab, g) ==
  CHOOSE i \in 1..Cardinality(DOMAIN tab[g].parts) + 1 :
    /\ i \notin DOMAIN tab[g].parts
    /\ \A j \in 1..i-1 : j \in DOMAIN tab[g].parts
SetPart(k, g, i, part) ==
  Kept(k, [k.tab EXCEPT ![g].parts = Assign(@, i, part)], g)
Add(k, g, type, start, size) ==
  SetPart(k, g, NewIndex(k.tab, g), [start |-> start, size |-> size, type |-> type])

CanModify(k, p, type) == type \in Types[k.tab[Front(p)].scheme]
Modify(k, p, type) == SetPart(k, Front(p), Last(p), [Part(k.tab, p) EXCEPT !.type = type])

\* A partition whose nested table has changes pending is in use.
CanDelete(k, p) == p \in Partitions(k.tab) \ k.mod
Delete(k, p) ==
  Kept(k, [k.tab EXCEPT ![Front(p)].parts = Restrict(@, DOMAIN @ \ {Last(p)})], Front(p))

\* The table is read from the disk again, with the nested ones of partitions
\* that come back; a table that never was on the disk disappears.
Undo(k, g) ==
  LET onDisk == Restrict(k.disk, {n \in DOMAIN k.disk :
                  n = g \/ (g \in DOMAIN k.disk /\ n \in PartsOf(k.disk, g))})
      stays == {n \in DOMAIN k.tab :
                 n # g /\ (Front(n) = g => /\ g \in DOMAIN k.disk
                                           /\ n \in PartsOf(k.disk, g)
                                           /\ Part(k.disk, n) = Part(k.tab, n))}
      after == Kept(k, Over(Restrict(k.tab, stays), onDisk), g)
  IN IF g \in DOMAIN k.tab THEN [after EXCEPT !.mod = @ \ {g}] ELSE k

Commit(k, g) ==
  LET gone == {n \in DOMAIN k.disk : Front(n) = g /\ n \notin DOMAIN k.tab}
      others == Restrict(k.disk, DOMAIN k.disk \ (gone \cup {g}))
      zombies == IF Zombie(k.tab, g) THEN {g} ELSE {}
  IN [tab  |-> Restrict(k.tab, DOMAIN k.tab \ zombies),
      mod  |-> k.mod \ {g},
      disk |-> IF Zombie(k.tab, g) THEN others ELSE Assign(others, g, k.tab[g])]

-----------------------------------------------------------------------------
\* gpart_max_free(): the last of the largest gaps between the partitions in
\* their order, each looked at after those that start before it; its start is
\* rounded up to the stripe.
Topmost(parts) == CHOOSE p \in parts : \A q \in parts : q.start <= p.start
Gap(last, next) == [start |-> last + 1, size |-> next - last - 1]
Look(part, seen) ==
  [last |-> End(part),
   best |-> IF part.start - seen.last > seen.best.size
            THEN Gap(seen.last, part.start) ELSE seen.best]
Seen(parts, first) ==
  MapThenFoldSet(Look, [last |-> first - 1, best |-> Gap(0, 1)], LAMBDA p : p, Topmost, parts)
LargestGap(tab, g) ==
  LET seen == Seen({tab[g].parts[i] : i \in DOMAIN tab[g].parts}, FirstOf(g))
      rest == Gap(seen.last, LastOf(tab, g) + 1)
  IN IF rest.size > seen.best.size THEN rest ELSE seen.best
Offset(start) == (Stripe - (start % Stripe)) % Stripe
\* Mutant: the size is not reduced by what the rounding skips.
MaxFreeMoved(tab, g) ==
  LET best == LargestGap(tab, g) IN [best EXCEPT !.start = @ + Offset(@)]
MaxFree(tab, g) ==
  LET best == LargestGap(tab, g)
  IN [start |-> best.start + Offset(best.start), size |-> best.size - Offset(best.start)]
====
