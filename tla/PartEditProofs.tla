---- MODULE PartEditProofs ----
\* Theorems about PartEdit, for every number and size of disks, every machine,
\* all that may be on the disks at first, and every answer to every dialog.
EXTENDS PartEdit, FiniteSetTheorems, SequenceTheorems, WellFoundedInduction, TLAPS

-----------------------------------------------------------------------------
\* Names: a disk's has one element, a partition's one more than its table's.
Names == Seq(Disks \cup Nat)

LEMMA DiskNamed ==
  ASSUME NEW h \in DiskNames
  PROVE  h \in Names /\ Len(h) = 1 /\ IsDisk(h) /\ h # Label
<1>1. PICK d \in Disks : h = <<d>>
  BY DEF DiskNames
<1>2. h # Label
  BY <1>1, LabelAssumption DEF Label
<1>. QED
  BY <1>1, <1>2 DEF Names, IsDisk

LEMMA Grown ==
  ASSUME NEW g \in Names, NEW i \in Nat
  PROVE  /\ Append(g, i) \in Names /\ Len(Append(g, i)) = Len(g) + 1
         /\ Front(Append(g, i)) = g /\ Last(Append(g, i)) = i
BY DEF Names, Front, Last

LEMMA Split ==
  ASSUME NEW n \in Names, Len(n) >= 1
  PROVE  /\ Front(n) \in Names /\ Len(Front(n)) = Len(n) - 1
         /\ n = Append(Front(n), Last(n))
<1> DEFINE S == Disks \cup Nat
<1>0. n \in Seq(S) /\ Len(n) \in Nat
  BY DEF Names
<1>1. /\ Front(n) \in Seq(S) /\ Len(Front(n)) = Len(n) - 1
      /\ \A i \in 1 .. Len(n) - 1 : Front(n)[i] = n[i]
  <2>1. 1 \in 1 .. Len(n) + 1 /\ Len(n) - 1 \in 1 - 1 .. Len(n)
    BY <1>0
  <2>2. /\ SubSeq(n, 1, Len(n) - 1) \in Seq(S)
        /\ Len(SubSeq(n, 1, Len(n) - 1)) = (Len(n) - 1) - 1 + 1
        /\ \A i \in 1 .. (Len(n) - 1) - 1 + 1 : SubSeq(n, 1, Len(n) - 1)[i] = n[1 + i - 1]
    <3>1. Len(n) - 1 \in Int /\ 1 \in Int /\ \A i \in 1 .. Len(n) - 1 : n[i] \in S
      BY <1>0
    <3>2. (Len(n) - 1) - 1 + 1 = IF 1 <= Len(n) - 1 THEN (Len(n) - 1) - 1 + 1 ELSE 0
      <4>1. \A x \in Nat : x >= 1 => (x - 1) - 1 + 1 = IF 1 <= x - 1 THEN (x - 1) - 1 + 1 ELSE 0
        OBVIOUS
      <4>. QED
        BY <1>0, <4>1
    <3> HIDE DEF S
    <3>. QED
      BY <3>1, <3>2, SubSeqProperties
  <2>3. (Len(n) - 1) - 1 + 1 = Len(n) - 1 /\ \A i \in Nat : 1 + i - 1 = i
    BY <1>0
  <2>. QED
    BY <1>0, <2>2, <2>3 DEF Front
<1>2. Last(n) \in S /\ Last(n) = n[Len(n)]
  BY <1>0 DEF Last
<1> HIDE DEF S
<1>3. /\ Append(Front(n), Last(n)) \in Seq(S) /\ Len(Append(Front(n), Last(n))) = Len(n)
      /\ \A i \in 1 .. Len(n) : Append(Front(n), Last(n))[i] = n[i]
  BY <1>0, <1>1, <1>2
<1>4. Append(Front(n), Last(n)) = n
  BY <1>0, <1>3, SeqEqual
<1>. QED
  BY <1>1, <1>4 DEF Names, S

LEMMA FrontOfDisk ==
  ASSUME NEW h \in DiskNames
  PROVE  Front(h) \in Names /\ Len(Front(h)) = 0
BY DiskNamed, Split

-----------------------------------------------------------------------------
\* Where tables sit, and partitions.
Sits(tab, n) == Front(n) \in DOMAIN tab /\ Last(n) \in DOMAIN tab[Front(n)].parts
Slot(tab, n) == n \in Names /\ Len(n) = 2 /\ Front(n) \in DiskNames /\ Sits(tab, n)

Sound(tab) ==
  /\ IsFiniteSet(DOMAIN tab) /\ tab = [g \in DOMAIN tab |-> tab[g]]
  /\ \A g \in DOMAIN tab :
       /\ IsTable(tab[g])
       /\ g \in DiskNames \/ (Slot(tab, g) /\ tab[g].scheme \in {"BSD", None})

\* What is on the disks, while some of the changes may have been written.
Shaped(tab) ==
  /\ IsFiniteSet(DOMAIN tab) /\ tab = [g \in DOMAIN tab |-> tab[g]]
  /\ \A g \in DOMAIN tab :
       /\ IsTable(tab[g]) /\ tab[g].scheme # None
       /\ \/ g \in DiskNames
          \/ g \in Names /\ Len(g) = 2 /\ Front(g) \in DiskNames /\ tab[g].scheme = "BSD"

IsKernel(k) ==
  /\ k = [tab |-> k.tab, mod |-> k.mod, disk |-> k.disk]
  /\ Sound(k.tab) /\ Shaped(k.disk) /\ k.mod \subseteq DOMAIN k.tab

\* Names of geoms have one element or two.
LEMMA SoundGeoms ==
  ASSUME NEW tab, Sound(tab), NEW g \in DOMAIN tab
  PROVE  IsTable(tab[g]) /\ (g \notin DiskNames => Slot(tab, g) /\ tab[g].scheme \in {"BSD", None})
BY DEF Sound

LEMMA TableParts ==
  ASSUME NEW t, IsTable(t)
  PROVE  /\ DOMAIN t.parts \subseteq Nat /\ IsFiniteSet(DOMAIN t.parts)
         /\ t.scheme \in Schemes \cup {None} /\ (t.scheme = None => DOMAIN t.parts = {})
BY DEF IsTable

LEMMA DiskNameApart ==
  ASSUME NEW g \in DiskNames
  PROVE  /\ g \in Names /\ Len(g) = 1 /\ Len(Front(g)) = 0 /\ Len(Front(Front(g))) # 1
         /\ Front(g) # g /\ Front(Front(g)) # g
<1>1. g \in Names /\ Len(g) = 1 /\ Front(g) \in Names /\ Len(Front(g)) = 0
  BY DiskNamed, FrontOfDisk
<1>2. Len(Front(Front(g))) # 1
  <2>1. Front(g) \in Seq(Disks \cup Nat)
    BY <1>1 DEF Names
  <2>2. SubSeq(Front(g), 1, 0 - 1) = <<>>
    BY <2>1, SubSeqEmpty
  <2>. QED
    BY <1>1, <2>2 DEF Front
<1>. QED
  BY <1>1, <1>2

LEMMA SliceNameApart ==
  ASSUME NEW g \in Names, Len(g) = 2, Front(g) \in DiskNames
  PROVE  /\ Len(Front(g)) = 1 /\ Len(Front(Front(g))) = 0 /\ g \notin DiskNames
         /\ Front(g) # g /\ Front(Front(g)) # g
<1>1. Len(Front(g)) = 1 /\ Len(Front(Front(g))) = 0
  BY DiskNamed, FrontOfDisk
<1>2. g \notin DiskNames
  BY DiskNamed
<1>. QED
  BY <1>1, <1>2

LEMMA GeomNames ==
  ASSUME NEW tab, Sound(tab), NEW g \in DOMAIN tab
  PROVE  /\ g \in Names /\ Len(g) \in {1, 2} /\ Len(g) >= 1 /\ (Len(g) = 1 <=> g \in DiskNames)
         /\ Front(g) # g /\ Front(Front(g)) # g
         /\ DOMAIN tab[g].parts \subseteq Nat
         /\ (g \notin DiskNames => Front(g) \in DiskNames /\ Front(g) \in DOMAIN tab)
<1>1. DOMAIN tab[g].parts \subseteq Nat
  BY SoundGeoms, TableParts
<1>2. CASE g \in DiskNames
  BY <1>1, <1>2, DiskNameApart
<1>3. CASE g \notin DiskNames
  <2>1. g \in Names /\ Len(g) = 2 /\ Front(g) \in DiskNames /\ Front(g) \in DOMAIN tab
    BY <1>3, SoundGeoms DEF Slot, Sits
  <2>2. Front(g) # g /\ Front(Front(g)) # g
    BY <2>1, SliceNameApart
  <2>. QED
    BY <1>1, <1>3, <2>1, <2>2
<1>. QED
  BY <1>2, <1>3

\* A partition is what sits in a table.
LEMMA PartitionsSit ==
  ASSUME NEW tab,
         \A g \in DOMAIN tab : g \in Names /\ Len(g) >= 1 /\ DOMAIN tab[g].parts \subseteq Nat
  PROVE  /\ \A n \in Names : Len(n) >= 2 => (n \in Partitions(tab) <=> Sits(tab, n))
         /\ \A n \in Partitions(tab) : n \in Names /\ Sits(tab, n) /\ Len(n) >= 2
<1>1. ASSUME NEW n \in Partitions(tab)
      PROVE  n \in Names /\ Sits(tab, n) /\ Len(n) >= 2
  <2>1. PICK g \in DOMAIN tab : n \in PartsOf(tab, g)
    BY DEF Partitions
  <2>2. PICK i \in DOMAIN tab[g].parts : n = Append(g, i)
    BY <2>1 DEF PartsOf
  <2>3. g \in Names /\ Len(g) >= 1 /\ Len(g) \in Nat /\ i \in Nat
    BY DEF Names
  <2>4. Front(n) = g /\ Last(n) = i /\ n \in Names /\ Len(n) = Len(g) + 1
    BY <2>2, <2>3, Grown
  <2>. QED
    BY <2>3, <2>4 DEF Sits
<1>2. ASSUME NEW n \in Names, Len(n) >= 2, Sits(tab, n) PROVE n \in Partitions(tab)
  <2>1. n = Append(Front(n), Last(n))
    BY <1>2, Split
  <2>. QED
    BY <1>2, <2>1 DEF Sits, Partitions, PartsOf
<1>. QED
  BY <1>1, <1>2

LEMMA SoundPartitions ==
  ASSUME NEW tab, Sound(tab)
  PROVE  /\ \A n \in Names : Len(n) >= 2 => (n \in Partitions(tab) <=> Sits(tab, n))
         /\ \A n \in Partitions(tab) : n \in Names /\ Sits(tab, n) /\ Len(n) >= 2
<1>1. ASSUME NEW g \in DOMAIN tab
      PROVE g \in Names /\ Len(g) >= 1 /\ DOMAIN tab[g].parts \subseteq Nat
  BY GeomNames
<1>. QED
  BY <1>1, PartitionsSit

\* Tables are on providers.
LEMMA SoundSits ==
  ASSUME NEW tab, Sound(tab), NEW g \in DOMAIN tab
  PROVE  g \in Providers(tab)
<1>1. CASE g \in DiskNames
  BY <1>1 DEF Providers, DiskNames
<1>2. CASE g \notin DiskNames
  <2>1. g \in Names /\ Len(g) = 2 /\ Sits(tab, g)
    BY <1>2 DEF Sound, Slot
  <2>. QED
    BY <2>1, SoundPartitions DEF Providers
<1>. QED
  BY <1>1, <1>2

-----------------------------------------------------------------------------
\* Every verb but undo and commit replaces or adds one table, and what sat in
\* it and no longer does is gone.
IsReplaced(k, r, g, t) ==
  /\ IsKernel(r) /\ r.disk = k.disk /\ g \in DOMAIN r.tab
  /\ DOMAIN r.tab = {n \in DOMAIN k.tab \cup {g} : Front(n) = g => Last(n) \in DOMAIN t.parts}
  /\ \A n \in DOMAIN r.tab : r.tab[n] = IF n = g THEN t ELSE k.tab[n]
  /\ r.mod = (k.mod \cup {g}) \cap DOMAIN r.tab

LEMMA AssignIs ==
  ASSUME NEW f, NEW x, NEW v
  PROVE  /\ DOMAIN Assign(f, x, v) = DOMAIN f \cup {x}
         /\ Assign(f, x, v)[x] = v
         /\ \A y \in DOMAIN f : y # x => Assign(f, x, v)[y] = f[y]
BY DEF Assign

\* A table may be put on a disk, or on a slice.
Seat(tab, g, t) == g \in DiskNames \/ (Slot(tab, g) /\ t.scheme \in {"BSD", None})

LEMMA Replaced ==
  ASSUME NEW k, IsKernel(k), NEW g, NEW t, IsTable(t), Seat(k.tab, g, t)
  PROVE  IsReplaced(k, Kept(k, Assign(k.tab, g, t), g), g, t)
<1> DEFINE tab == k.tab
           T == Assign(tab, g, t)
           there == {n \in DOMAIN T : IsDisk(n) \/ n \in Partitions(T)}
           r == Kept(k, T, g)
           R(n) == Front(n) = g => Last(n) \in DOMAIN t.parts
<1>1. Sound(tab) /\ Shaped(k.disk) /\ k.mod \subseteq DOMAIN tab
  BY DEF IsKernel
<1>2. /\ r = [tab |-> [n \in there |-> T[n]], mod |-> (k.mod \cup {g}) \cap there,
              disk |-> k.disk]
  <2>1. k = [tab |-> k.tab, mod |-> k.mod, disk |-> k.disk]
    BY DEF IsKernel
  <2> HIDE DEF T
  <2>2. r = [k EXCEPT !.tab = [n \in there |-> T[n]], !.mod = (@ \cup {g}) \cap there]
    BY DEF Kept, Restrict
  <2> HIDE DEF there, r
  <2>. QED
    BY <2>1, <2>2
<1>3. DOMAIN T = DOMAIN tab \cup {g} /\ T[g] = t /\ \A n \in DOMAIN tab : n # g => T[n] = tab[n]
  <2> HIDE DEF tab
  <2>. QED
    BY DEF Assign
<1>4. /\ g \in Names /\ Len(g) \in {1, 2} /\ Len(g) >= 1 /\ (Len(g) = 1 <=> g \in DiskNames)
      /\ Front(g) # g /\ Front(Front(g)) # g
      /\ (g \notin DiskNames => Front(g) \in DiskNames /\ Front(g) \in DOMAIN tab)
  <2>1. CASE g \in DiskNames
    BY <2>1, DiskNameApart
  <2>2. CASE g \notin DiskNames
    <3>1. g \in Names /\ Len(g) = 2 /\ Front(g) \in DiskNames /\ Front(g) \in DOMAIN tab
      BY <2>2 DEF Seat, Slot, Sits
    <3>. QED
      BY <2>2, <3>1, SliceNameApart
  <2>. QED
    BY <2>1, <2>2
<1>5. \A n \in DOMAIN T :
        /\ n \in Names /\ Len(n) \in {1, 2} /\ Len(n) >= 1 /\ (Len(n) = 1 <=> n \in DiskNames)
        /\ DOMAIN T[n].parts \subseteq Nat
        /\ (n \notin DiskNames => Len(n) = 2 /\ Front(n) \in DiskNames /\ Front(n) \in DOMAIN tab)
  <2> SUFFICES ASSUME NEW n \in DOMAIN T
      PROVE  /\ n \in Names /\ Len(n) \in {1, 2} /\ Len(n) >= 1 /\ (Len(n) = 1 <=> n \in DiskNames)
             /\ DOMAIN T[n].parts \subseteq Nat
             /\ (n \notin DiskNames => Len(n) = 2 /\ Front(n) \in DiskNames /\ Front(n) \in DOMAIN tab)
    OBVIOUS
  <2>1. CASE n = g
    BY <2>1, <1>3, <1>4, TableParts
  <2>2. CASE n # g
    BY <2>2, <1>1, <1>3, GeomNames
  <2>. QED
    BY <2>1, <2>2
<1>6. \A n \in DOMAIN T : n \in there <=> R(n)
  <2> SUFFICES ASSUME NEW n \in DOMAIN T PROVE n \in there <=> R(n)
    OBVIOUS
  <2>1. CASE n \in DiskNames
    <3>1. IsDisk(n) /\ Len(Front(n)) = 0
      BY <2>1, DiskNamed, FrontOfDisk
    <3>. QED
      BY <3>1, <1>4
  <2>2. CASE n \notin DiskNames
    <3>1. n \in Names /\ Len(n) = 2 /\ ~IsDisk(n) /\ Front(n) \in DOMAIN tab
      BY <1>5, <2>2 DEF IsDisk
    <3>2. n \in Partitions(T) <=> Sits(T, n)
      <4>1. /\ \A h \in DOMAIN T : h \in Names /\ Len(h) >= 1 /\ DOMAIN T[h].parts \subseteq Nat
            /\ Len(n) >= 2
        BY <1>5, <3>1
      <4> HIDE DEF T
      <4>. QED
        BY <3>1, <4>1, PartitionsSit
    <3>3. Sits(tab, n) \/ n = g
      BY <1>1, <1>3, <2>2, SoundGeoms DEF Slot
    <3>4. Sits(tab, g) \/ g \in DiskNames
      BY DEF Seat, Slot
    <3>5. Sits(T, n) <=> R(n)
      <4>1. CASE Front(n) = g
        BY <4>1, <1>3 DEF Sits
      <4>2. CASE Front(n) # g
        BY <4>2, <1>3, <3>1, <3>3, <3>4, <2>2 DEF Sits
      <4>. QED
        BY <4>1, <4>2
    <3>. QED
      BY <3>1, <3>2, <3>5
  <2>. QED
    BY <2>1, <2>2
<1>7. /\ DOMAIN r.tab = there /\ r.mod = (k.mod \cup {g}) \cap there /\ r.disk = k.disk
      /\ \A n \in there : r.tab[n] = T[n]
      /\ r = [tab |-> r.tab, mod |-> r.mod, disk |-> r.disk]
      /\ r.tab = [n \in DOMAIN r.tab |-> r.tab[n]]
  BY <1>2
<1>8. /\ there = {n \in DOMAIN tab \cup {g} : R(n)}
      /\ \A n \in there : r.tab[n] = IF n = g THEN t ELSE tab[n]
  BY <1>3, <1>6, <1>7
<1> HIDE DEF r, T, there
<1>9. Sound(r.tab)
  <2>1. IsFiniteSet(DOMAIN r.tab)
    <3>1. IsFiniteSet(DOMAIN tab \cup {g})
      BY <1>1, FS_AddElement DEF Sound
    <3>2. DOMAIN r.tab \subseteq DOMAIN tab \cup {g}
      BY <1>7, <1>8
    <3>. QED
      BY <3>1, <3>2, FS_Subset
  <2>2. ASSUME NEW n \in DOMAIN r.tab
        PROVE  IsTable(r.tab[n]) /\ (n \in DiskNames \/ (Slot(r.tab, n) /\ r.tab[n].scheme \in {"BSD", None}))
    <3>1. IsTable(r.tab[n])
      BY <1>1, <1>7, <1>8, <2>2, SoundGeoms
    <3>2. ASSUME n \notin DiskNames
          PROVE  Slot(r.tab, n) /\ r.tab[n].scheme \in {"BSD", None}
      <4>1. r.tab[n].scheme \in {"BSD", None}
        BY <1>1, <1>7, <1>8, <2>2, <3>2, SoundGeoms DEF Seat
      <4>2. n \in Names /\ Len(n) = 2 /\ Front(n) \in DiskNames /\ Front(n) \in DOMAIN tab
        BY <1>3, <1>5, <1>7, <1>8, <2>2, <3>2
      <4>3. Len(Front(Front(n))) = 0
        BY <4>2, FrontOfDisk
      <4>4. Front(n) \in DOMAIN r.tab
        BY <1>4, <1>7, <1>8, <4>2, <4>3
      <4>5. Last(n) \in DOMAIN r.tab[Front(n)].parts
        <5>1. CASE Front(n) = g
          BY <5>1, <1>7, <1>8, <2>2, <4>4
        <5>2. CASE Front(n) # g
          <6>1. Sits(tab, n)
            BY <1>1, <1>7, <1>8, <2>2, <3>2, SoundGeoms DEF Seat, Slot
          <6>. QED
            BY <5>2, <6>1, <1>7, <1>8, <4>4 DEF Sits
        <5>. QED
          BY <5>1, <5>2
      <4>. QED
        BY <4>1, <4>2, <4>4, <4>5 DEF Slot, Sits
    <3>. QED
      BY <3>1, <3>2
  <2>. QED
    BY <1>7, <2>1, <2>2 DEF Sound
<1>10. IsKernel(r)
  BY <1>1, <1>7, <1>9 DEF IsKernel
<1>11. g \in DOMAIN r.tab
  BY <1>4, <1>7, <1>8
<1>12. IsReplaced(k, r, g, t)
  BY <1>7, <1>8, <1>10, <1>11, Zenon DEF IsReplaced
<1>. QED
  BY <1>12 DEF r, T

LEMMA EmptyTable ==
  ASSUME NEW scheme \in Schemes \cup {None}
  PROVE  IsTable(Table(scheme)) /\ Table(scheme).scheme = scheme /\ DOMAIN Table(scheme).parts = {}
<1>1. /\ Table(scheme).scheme = scheme /\ DOMAIN Table(scheme).parts = {}
      /\ Table(scheme).parts = [i \in DOMAIN Table(scheme).parts |-> Table(scheme).parts[i]]
      /\ Table(scheme) = [scheme |-> scheme, parts |-> Table(scheme).parts]
  BY DEF Table
<1>2. IsFiniteSet({})
  BY FS_EmptySet
<1>. QED
  BY <1>1, <1>2 DEF IsTable

LEMMA TableSeats ==
  ASSUME NEW tab, Sound(tab), NEW g \in DOMAIN tab, NEW t, t.scheme \in {tab[g].scheme, None}
  PROVE  Seat(tab, g, t)
BY SoundGeoms DEF Seat

LEMMA CanCreateSeats ==
  ASSUME NEW k, IsKernel(k), NEW g, NEW scheme, CanCreate(k, g, scheme)
  PROVE  Seat(k.tab, g, Table(scheme))
<1>0. Sound(k.tab)
  BY DEF IsKernel
<1>1. CASE g \in DiskNames
  BY <1>1 DEF Seat
<1>2. CASE g \notin DiskNames
  <2>1. g \in Partitions(k.tab)
    BY <1>2 DEF CanCreate, Providers, DiskNames
  <2>2. g \in Names /\ Sits(k.tab, g) /\ Len(g) >= 2
    BY <1>0, <2>1, SoundPartitions
  <2>a. Len(g) # 1
    <3>1. Len(g) \in Nat
      BY <2>2 DEF Names
    <3>2. \A x \in Nat : x >= 2 => x # 1
      OBVIOUS
    <3>. QED
      BY <2>2, <3>1, <3>2
  <2>3. scheme = "BSD" /\ Len(g) = 2
    BY <2>a DEF CanCreate, IsDisk
  <2>4. Front(g) \in DOMAIN k.tab /\ Len(Front(g)) = 1
    <3>1. Len(g) >= 1 /\ 2 - 1 = 1
      BY <2>3
    <3>. QED
      BY <2>2, <2>3, <3>1, Split DEF Sits
  <2>5. Front(g) \in DiskNames
    BY <1>0, <2>4, GeomNames
  <2>6. Table(scheme).scheme = "BSD"
    BY <2>3 DEF Table
  <2>. QED
    BY <2>2, <2>3, <2>5, <2>6 DEF Seat, Slot
<1>. QED
  BY <1>1, <1>2

LEMMA Created ==
  ASSUME NEW k, IsKernel(k), NEW g, NEW scheme \in Schemes \cup {None}, Seat(k.tab, g, Table(scheme))
  PROVE  IsReplaced(k, Create(k, g, scheme), g, Table(scheme))
BY EmptyTable, Replaced DEF Create

LEMMA Destroyed ==
  ASSUME NEW k, IsKernel(k), NEW g, CanDestroy(k, g)
  PROVE  IsReplaced(k, Destroy(k, g), g, Table(None))
<1>1. g \in DOMAIN k.tab /\ Sound(k.tab) /\ None \in Schemes \cup {None}
  BY DEF CanDestroy, IsKernel
<1>2. Seat(k.tab, g, Table(None))
  BY <1>1, EmptyTable, TableSeats
<1>3. Destroy(k, g) = Kept(k, Assign(k.tab, g, Table(None)), g)
  BY DEF Destroy
<1>. QED
  BY <1>1, <1>2, <1>3, EmptyTable, Replaced

\* The tables that SetPart and Delete make.
Filled(t, i, part) == [scheme |-> t.scheme, parts |-> Assign(t.parts, i, part)]
Without(t, i) == [scheme |-> t.scheme, parts |-> Restrict(t.parts, DOMAIN t.parts \ {i})]

LEMMA FilledIsTable ==
  ASSUME NEW t, IsTable(t), t.scheme # None, NEW i \in Nat \ {0}, NEW part, IsRegion(part)
  PROVE  IsTable(Filled(t, i, part))
<1> DEFINE P == Assign(t.parts, i, part)
<1>1. /\ DOMAIN P = DOMAIN t.parts \cup {i} /\ P[i] = part
      /\ \A j \in DOMAIN t.parts : j # i => P[j] = t.parts[j]
      /\ P = [j \in DOMAIN P |-> P[j]]
  BY DEF Assign
<1>2. IsFiniteSet(DOMAIN t.parts) /\ DOMAIN t.parts \subseteq Nat \ {0} /\ t.scheme \in Schemes \cup {None}
  BY DEF IsTable
<1>3. \A j \in DOMAIN t.parts : IsRegion(t.parts[j])
  BY DEF IsTable
<1> HIDE DEF P
<1>4. IsFiniteSet(DOMAIN P) /\ DOMAIN P \subseteq Nat \ {0}
  BY <1>1, <1>2, FS_AddElement
<1>5. \A j \in DOMAIN P : IsRegion(P[j])
  BY <1>1, <1>3
<1>6. Filled(t, i, part) = [scheme |-> t.scheme, parts |-> P]
  BY DEF Filled, P
<1>. QED
  BY <1>1, <1>2, <1>4, <1>5, <1>6 DEF IsTable

LEMMA WithoutIsTable ==
  ASSUME NEW t, IsTable(t), NEW i
  PROVE  IsTable(Without(t, i))
<1> DEFINE P == Restrict(t.parts, DOMAIN t.parts \ {i})
<1>1. /\ DOMAIN P = DOMAIN t.parts \ {i} /\ \A j \in DOMAIN P : P[j] = t.parts[j]
      /\ P = [j \in DOMAIN P |-> P[j]]
  BY DEF Restrict
<1>2. IsFiniteSet(DOMAIN t.parts) /\ DOMAIN t.parts \subseteq Nat \ {0} /\ t.scheme \in Schemes \cup {None}
  BY DEF IsTable
<1>3. \A j \in DOMAIN t.parts : IsRegion(t.parts[j])
  BY DEF IsTable
<1>4. t.scheme = None => DOMAIN t.parts = {}
  BY DEF IsTable
<1> HIDE DEF P
<1>5. IsFiniteSet(DOMAIN P) /\ DOMAIN P \subseteq Nat \ {0}
  BY <1>1, <1>2, FS_RemoveElement
<1>6. \A j \in DOMAIN P : IsRegion(P[j])
  BY <1>1, <1>3
<1>7. Without(t, i) = [scheme |-> t.scheme, parts |-> P]
  BY DEF Without, P
<1>8. t.scheme = None => DOMAIN P = {}
  BY <1>1, <1>4
<1>9. /\ Without(t, i).scheme = t.scheme /\ Without(t, i).parts = P
      /\ Without(t, i) = [scheme |-> t.scheme, parts |-> [j \in DOMAIN P |-> P[j]]]
  BY <1>1, <1>7
<1> HIDE DEF None
<1>. QED
  BY <1>2, <1>5, <1>6, <1>8, <1>9, Zenon DEF IsTable

\* A table in its place, with other partitions.
LEMMA PartsExcept ==
  ASSUME NEW tab, Sound(tab), NEW g \in DOMAIN tab, NEW P
  PROVE  [tab EXCEPT ![g].parts = P] = Assign(tab, g, [scheme |-> tab[g].scheme, parts |-> P])
<1>1. tab = [h \in DOMAIN tab |-> tab[h]] /\ DOMAIN tab \cup {g} = DOMAIN tab
  BY DEF Sound
<1>2. tab[g] = [scheme |-> tab[g].scheme, parts |-> tab[g].parts]
  BY SoundGeoms DEF IsTable
<1>3. [tab[g] EXCEPT !.parts = P] = [scheme |-> tab[g].scheme, parts |-> P]
  BY <1>2
<1>. QED
  BY <1>1, <1>3 DEF Assign

LEMMA PartSet ==
  ASSUME NEW k, IsKernel(k), NEW g \in DOMAIN k.tab, ~Zombie(k.tab, g), NEW i \in Nat \ {0},
         NEW part, IsRegion(part)
  PROVE  IsReplaced(k, SetPart(k, g, i, part), g, Filled(k.tab[g], i, part))
<1>1. Sound(k.tab) /\ k.tab[g].scheme # None
  BY DEF IsKernel, Zombie
<1>2. IsTable(Filled(k.tab[g], i, part)) /\ Filled(k.tab[g], i, part).scheme = k.tab[g].scheme
  BY <1>1, SoundGeoms, FilledIsTable DEF Filled
<1>3. Seat(k.tab, g, Filled(k.tab[g], i, part))
  BY <1>1, <1>2, TableSeats
<1>4. SetPart(k, g, i, part) = Kept(k, Assign(k.tab, g, Filled(k.tab[g], i, part)), g)
  BY <1>1, PartsExcept DEF SetPart, Filled
<1>. QED
  BY <1>2, <1>3, <1>4, Replaced

LEMMA Deleted ==
  ASSUME NEW k, IsKernel(k), NEW p \in Partitions(k.tab)
  PROVE  IsReplaced(k, Delete(k, p), Front(p), Without(k.tab[Front(p)], Last(p)))
<1> DEFINE g == Front(p)
<1>1. Sound(k.tab)
  BY DEF IsKernel
<1>2. g \in DOMAIN k.tab
  BY <1>1, SoundPartitions DEF Sits
<1>3. IsTable(Without(k.tab[g], Last(p))) /\ Without(k.tab[g], Last(p)).scheme = k.tab[g].scheme
  BY <1>1, <1>2, SoundGeoms, WithoutIsTable DEF Without
<1>4. Seat(k.tab, g, Without(k.tab[g], Last(p)))
  BY <1>1, <1>2, <1>3, TableSeats
<1>5. Delete(k, p) = Kept(k, Assign(k.tab, g, Without(k.tab[g], Last(p))), g)
  BY <1>1, <1>2, PartsExcept DEF Delete, Without
<1>. QED
  BY <1>3, <1>4, <1>5, Replaced

-----------------------------------------------------------------------------
\* Undo: a geom is what the disk says, with the slices that come back; what
\* else was shown stays, but for tables in slices the disk does not have.
Back(k, g) ==
  {n \in DOMAIN k.disk :
     n = g \/ (g \in DOMAIN k.disk /\ Front(n) = g /\ Last(n) \in DOMAIN k.disk[g].parts)}
Stays(k, g) ==
  {n \in DOMAIN k.tab :
     /\ n # g
     /\ Front(n) = g => /\ g \in DOMAIN k.disk /\ Last(n) \in DOMAIN k.disk[g].parts
                        /\ k.disk[g].parts[Last(n)] = k.tab[g].parts[Last(n)]}
IsUndone(k, r, g) ==
  /\ IsKernel(r) /\ r.disk = k.disk
  /\ DOMAIN r.tab = Stays(k, g) \cup Back(k, g)
  /\ \A n \in DOMAIN r.tab : r.tab[n] = IF n \in Stays(k, g) THEN k.tab[n] ELSE k.disk[n]
  /\ r.mod = (k.mod \ {g}) \cap DOMAIN r.tab

LEMMA PartsOfIs ==
  ASSUME NEW tab, NEW g \in Names, DOMAIN tab[g].parts \subseteq Nat, NEW n \in Names, Len(n) >= 1
  PROVE  n \in PartsOf(tab, g) <=> Front(n) = g /\ Last(n) \in DOMAIN tab[g].parts
<1>1. ASSUME n \in PartsOf(tab, g) PROVE Front(n) = g /\ Last(n) \in DOMAIN tab[g].parts
  <2>1. PICK i \in DOMAIN tab[g].parts : n = Append(g, i)
    BY <1>1 DEF PartsOf
  <2>. QED
    BY <2>1, Grown
<1>2. n = Append(Front(n), Last(n))
  BY Split
<1>. QED
  BY <1>1, <1>2 DEF PartsOf

LEMMA ShapedNames ==
  ASSUME NEW disk, Shaped(disk), NEW g \in DOMAIN disk
  PROVE  /\ g \in Names /\ Len(g) \in {1, 2} /\ Len(g) >= 1 /\ (Len(g) = 1 <=> g \in DiskNames)
         /\ Front(g) # g /\ Front(Front(g)) # g
         /\ DOMAIN disk[g].parts \subseteq Nat /\ IsTable(disk[g]) /\ disk[g].scheme # None
         /\ (g \notin DiskNames =>
               Len(g) = 2 /\ Front(g) \in DiskNames /\ disk[g].scheme = "BSD")
<1>1. IsTable(disk[g]) /\ disk[g].scheme # None
  BY DEF Shaped
<1>2. DOMAIN disk[g].parts \subseteq Nat
  BY <1>1, TableParts
<1>3. CASE g \in DiskNames
  BY <1>1, <1>2, <1>3, DiskNameApart
<1>4. CASE g \notin DiskNames
  <2>1. g \in Names /\ Len(g) = 2 /\ Front(g) \in DiskNames /\ disk[g].scheme = "BSD"
    BY <1>4 DEF Shaped
  <2>2. Front(g) # g /\ Front(Front(g)) # g
    BY <2>1, SliceNameApart
  <2>. QED
    BY <1>1, <1>2, <1>4, <2>1, <2>2
<1>. QED
  BY <1>3, <1>4

LEMMA Undone ==
  ASSUME NEW k, IsKernel(k), NEW g \in DOMAIN k.tab
  PROVE  IsUndone(k, Undo(k, g), g)
<1> DEFINE tab == k.tab
           disk == k.disk
           onDisk == Restrict(disk, {n \in DOMAIN disk :
                       n = g \/ (g \in DOMAIN disk /\ n \in PartsOf(disk, g))})
           stays == {n \in DOMAIN tab :
                       n # g /\ (Front(n) = g => /\ g \in DOMAIN disk /\ n \in PartsOf(disk, g)
                                                 /\ Part(disk, n) = Part(tab, n))}
           S == Stays(k, g)
           B == Back(k, g)
           T == Over(Restrict(tab, stays), onDisk)
           there == {n \in DOMAIN T : IsDisk(n) \/ n \in Partitions(T)}
           r == Undo(k, g)
<1>1. Sound(tab) /\ Shaped(disk) /\ k.mod \subseteq DOMAIN tab
  BY DEF IsKernel
<1>2. stays = S
  <2>1. ASSUME NEW n \in DOMAIN tab, Front(n) = g, g \in DOMAIN disk
        PROVE  /\ n \in PartsOf(disk, g) <=> Last(n) \in DOMAIN disk[g].parts
               /\ Part(disk, n) = disk[g].parts[Last(n)] /\ Part(tab, n) = tab[g].parts[Last(n)]
    <3>1. n \in Names /\ Len(n) >= 1 /\ g \in Names /\ DOMAIN disk[g].parts \subseteq Nat
      BY <1>1, <2>1, GeomNames, ShapedNames
    <3>. QED
      BY <2>1, <3>1, PartsOfIs DEF Part
  <2>. QED
    BY <2>1 DEF Stays
<1>3. DOMAIN onDisk = B /\ \A n \in B : onDisk[n] = disk[n]
  <2>1. ASSUME NEW n \in DOMAIN disk, g \in DOMAIN disk
        PROVE  n \in PartsOf(disk, g) <=> Front(n) = g /\ Last(n) \in DOMAIN disk[g].parts
    <3>1. n \in Names /\ Len(n) >= 1 /\ g \in Names /\ DOMAIN disk[g].parts \subseteq Nat
      BY <1>1, <2>1, GeomNames, ShapedNames
    <3>. QED
      BY <3>1, PartsOfIs
  <2>. QED
    BY <2>1 DEF Restrict, Back
<1>4. /\ DOMAIN T = S \cup B
      /\ \A n \in DOMAIN T : T[n] = IF n \in S THEN tab[n] ELSE disk[n]
  <2> HIDE DEF onDisk, stays, S, B
  <2>. QED
    BY <1>2, <1>3 DEF Over, Restrict
<1>5. r = [tab |-> [n \in there |-> T[n]], mod |-> ((k.mod \cup {g}) \cap there) \ {g},
           disk |-> disk]
  <2>1. k = [tab |-> k.tab, mod |-> k.mod, disk |-> k.disk]
    BY DEF IsKernel
  <2>2. r = [Kept(k, T, g) EXCEPT !.mod = @ \ {g}]
    BY DEF Undo
  <2> HIDE DEF T
  <2>3. Kept(k, T, g) = [k EXCEPT !.tab = [n \in there |-> T[n]], !.mod = (@ \cup {g}) \cap there]
    BY DEF Kept, Restrict
  <2> HIDE DEF there, r
  <2>. QED
    BY <2>1, <2>2, <2>3
<1> HIDE DEF onDisk, stays, T, there, r
<1>6. S \subseteq DOMAIN tab \ {g} /\ B \subseteq DOMAIN disk
  BY DEF Stays, Back
<1>7. \A n \in DOMAIN T :
        /\ n \in Names /\ Len(n) \in {1, 2} /\ Len(n) >= 1 /\ (Len(n) = 1 <=> n \in DiskNames)
        /\ DOMAIN T[n].parts \subseteq Nat /\ IsTable(T[n])
        /\ (n \notin DiskNames =>
              Len(n) = 2 /\ Front(n) \in DiskNames /\ T[n].scheme \in {"BSD", None})
  <2> SUFFICES ASSUME NEW n \in DOMAIN T
      PROVE  /\ n \in Names /\ Len(n) \in {1, 2} /\ Len(n) >= 1 /\ (Len(n) = 1 <=> n \in DiskNames)
             /\ DOMAIN T[n].parts \subseteq Nat /\ IsTable(T[n])
             /\ (n \notin DiskNames =>
                   Len(n) = 2 /\ Front(n) \in DiskNames /\ T[n].scheme \in {"BSD", None})
    OBVIOUS
  <2>1. CASE n \in S
    BY <2>1, <1>1, <1>4, <1>6, GeomNames, SoundGeoms
  <2>2. CASE n \notin S
    BY <2>2, <1>1, <1>4, <1>6, ShapedNames
  <2>. QED
    BY <2>1, <2>2
<1>8. ASSUME NEW n \in DOMAIN T, n \notin DiskNames
      PROVE  Sits(T, n)
  <2>1. g \in Names /\ Front(g) # g /\ Front(Front(g)) # g /\ (Len(g) = 1 <=> g \in DiskNames)
    BY <1>1, GeomNames
  <2>2. CASE Front(n) = g
    <3>1. g \in DOMAIN disk /\ Last(n) \in DOMAIN disk[g].parts
      BY <1>4, <2>1, <2>2 DEF Stays, Back
    <3>2. g \in DOMAIN T /\ T[g] = disk[g]
      BY <1>4, <1>6, <3>1 DEF Back
    <3>. QED
      BY <2>2, <3>1, <3>2 DEF Sits
  <2>3. CASE Front(n) # g
    <3>1. n \in DOMAIN tab
      BY <1>4, <2>3 DEF Stays, Back
    <3>2. Front(n) \in DOMAIN tab /\ Front(n) \in DiskNames /\ Last(n) \in DOMAIN tab[Front(n)].parts
      BY <1>1, <1>8, <3>1, SoundGeoms DEF Slot, Sits
    <3>3. Front(Front(n)) # g
      BY <2>1, <3>2, FrontOfDisk, <1>1, GeomNames
    <3>4. Front(n) \in S
      BY <2>3, <3>2, <3>3 DEF Stays
    <3>. QED
      BY <1>4, <3>2, <3>4 DEF Sits
  <2>. QED
    BY <2>2, <2>3
<1>9. there = DOMAIN T
  <2>1. ASSUME NEW n \in DOMAIN T PROVE IsDisk(n) \/ n \in Partitions(T)
    <3>1. CASE n \in DiskNames
      BY <3>1, DiskNamed
    <3>2. CASE n \notin DiskNames
      <4>1. n \in Names /\ Len(n) >= 2 /\ Sits(T, n)
        BY <1>7, <1>8, <3>2
      <4>2. \A h \in DOMAIN T : h \in Names /\ Len(h) >= 1 /\ DOMAIN T[h].parts \subseteq Nat
        BY <1>7
      <4>. QED
        BY <4>1, <4>2, PartitionsSit
    <3>. QED
      BY <3>1, <3>2
  <2>. QED
    BY <2>1 DEF there
<1>10. /\ DOMAIN r.tab = DOMAIN T /\ \A n \in DOMAIN r.tab : r.tab[n] = T[n]
       /\ r.mod = (k.mod \ {g}) \cap DOMAIN T /\ r.disk = disk
       /\ r = [tab |-> r.tab, mod |-> r.mod, disk |-> r.disk]
       /\ r.tab = [n \in DOMAIN r.tab |-> r.tab[n]]
  BY <1>5, <1>9
<1>11. IsFiniteSet(DOMAIN T)
  <2>1. IsFiniteSet(S) /\ IsFiniteSet(B)
    BY <1>1, <1>6, FS_Subset DEF Sound, Shaped
  <2>. QED
    BY <1>4, <2>1, FS_Union
<1>12. Sound(r.tab)
  BY <1>7, <1>8, <1>10, <1>11 DEF Sound, Slot, Sits
<1>13. IsKernel(r)
  BY <1>1, <1>10, <1>12 DEF IsKernel
<1> HIDE DEF S, B
<1>14. IsUndone(k, r, g)
  BY <1>4, <1>10, <1>13 DEF IsUndone, S, B
<1>. QED
  BY <1>14 DEF r

-----------------------------------------------------------------------------
\* What is shown and what is on the disks agree, but for the pending changes:
\* tables without changes are on a disk, and a table that is on a disk and not
\* shown is in a slice whose disk has changes.
Written(k) == \A n \in DOMAIN k.tab \ k.mod : n \in DOMAIN k.disk /\ k.tab[n] = k.disk[n]
Gone(k) == \A n \in DOMAIN k.disk \ DOMAIN k.tab : n \notin DiskNames /\ Front(n) \in k.mod
Whole(disk) == \A n \in DOMAIN disk : n \notin DiskNames => Sits(disk, n)
InStep(k) == IsKernel(k) /\ Written(k) /\ Gone(k) /\ Whole(k.disk)

LEMMA ReplacedWritten ==
  ASSUME NEW k, NEW r, NEW g, NEW t, Written(k), IsReplaced(k, r, g, t)
  PROVE  Written(r)
<1> SUFFICES ASSUME NEW n \in DOMAIN r.tab \ r.mod
             PROVE  n \in DOMAIN r.disk /\ r.tab[n] = r.disk[n]
  BY DEF Written
<1>1. n # g /\ n \in DOMAIN k.tab \ k.mod /\ r.tab[n] = k.tab[n] /\ r.disk = k.disk
  BY DEF IsReplaced
<1>. QED
  BY <1>1 DEF Written

LEMMA GeomFront ==
  ASSUME NEW tab, Sound(tab), NEW g \in DOMAIN tab, NEW h \in DiskNames
  PROVE  Front(h) # g
<1>1. Len(Front(h)) = 0 /\ Len(g) >= 1
  BY FrontOfDisk, GeomNames
<1>. QED
  BY <1>1

LEMMA ReplacedGone ==
  ASSUME NEW k, NEW r, NEW g, NEW t, IsKernel(k), Gone(k), IsReplaced(k, r, g, t)
  PROVE  Gone(r)
<1> SUFFICES ASSUME NEW n \in DOMAIN r.disk \ DOMAIN r.tab
             PROVE  n \notin DiskNames /\ Front(n) \in r.mod
  BY DEF Gone
<1>1. /\ r.disk = k.disk /\ g \in DOMAIN r.tab /\ g \in r.mod
      /\ \A m \in DOMAIN k.tab : Front(m) # g => m \in DOMAIN r.tab
      /\ r.mod = (k.mod \cup {g}) \cap DOMAIN r.tab /\ k.mod \subseteq DOMAIN k.tab
      /\ Sound(r.tab) /\ Shaped(k.disk)
  BY DEF IsReplaced, IsKernel
<1>2. \A h \in DiskNames : Front(h) # g
  BY <1>1, GeomFront
<1>3. CASE n \in DOMAIN k.tab
  <2>1. Front(n) = g
    BY <1>1, <1>3
  <2>. QED
    BY <1>1, <1>2, <2>1
<1>4. CASE n \notin DOMAIN k.tab
  <2>1. n \notin DiskNames /\ Front(n) \in k.mod
    BY <1>1, <1>4 DEF Gone
  <2>2. Front(n) \in DiskNames
    BY <1>1, <2>1, ShapedNames
  <2>. QED
    BY <1>1, <1>2, <2>1, <2>2
<1>. QED
  BY <1>3, <1>4

LEMMA ReplacedInStep ==
  ASSUME NEW k, NEW r, NEW g, NEW t, InStep(k), IsReplaced(k, r, g, t)
  PROVE  InStep(r)
BY ReplacedWritten, ReplacedGone DEF InStep, IsReplaced

LEMMA UndoneWritten ==
  ASSUME NEW k, NEW r, NEW g, Written(k), IsUndone(k, r, g)
  PROVE  Written(r)
<1> SUFFICES ASSUME NEW n \in DOMAIN r.tab \ r.mod
             PROVE  n \in DOMAIN r.disk /\ r.tab[n] = r.disk[n]
  BY DEF Written
<1>1. r.disk = k.disk
  BY DEF IsUndone
<1>2. CASE n \in Stays(k, g)
  <2>1. n \in DOMAIN k.tab \ k.mod /\ r.tab[n] = k.tab[n]
    BY <1>2 DEF IsUndone, Stays
  <2>. QED
    BY <1>1, <2>1 DEF Written
<1>3. CASE n \notin Stays(k, g)
  BY <1>1, <1>3 DEF IsUndone, Back
<1>. QED
  BY <1>2, <1>3

LEMMA UndoneGone ==
  ASSUME NEW k, NEW r, NEW g \in DOMAIN k.tab, IsKernel(k), Gone(k), Whole(k.disk), IsUndone(k, r, g)
  PROVE  Gone(r)
<1> SUFFICES ASSUME NEW n \in DOMAIN r.disk \ DOMAIN r.tab
             PROVE  n \notin DiskNames /\ Front(n) \in r.mod
  BY DEF Gone
<1>1. /\ r.disk = k.disk /\ DOMAIN r.tab = Stays(k, g) \cup Back(k, g)
      /\ r.mod = (k.mod \ {g}) \cap DOMAIN r.tab
      /\ Sound(k.tab) /\ Shaped(k.disk) /\ k.mod \subseteq DOMAIN k.tab
  BY DEF IsUndone, IsKernel
<1>2. n \notin Stays(k, g) /\ n \notin Back(k, g) /\ n \in DOMAIN k.disk
  BY <1>1
<1>3. n # g
  BY <1>2 DEF Back
<1>4. \A h \in DiskNames : Front(h) # g
  BY <1>1, GeomFront
<1>5. Front(n) # g
  <2> SUFFICES ASSUME Front(n) = g PROVE FALSE
    OBVIOUS
  <2>1. n \notin DiskNames
    BY <1>4
  <2>2. Sits(k.disk, n)
    BY <1>2, <2>1 DEF Whole
  <2>. QED
    BY <1>2, <2>2 DEF Back, Sits
<1>6. n \notin DOMAIN k.tab
  BY <1>2, <1>3, <1>5 DEF Stays
<1>7. n \notin DiskNames /\ Front(n) \in k.mod
  BY <1>2, <1>6 DEF Gone
<1>8. Front(n) \in DiskNames
  BY <1>1, <1>2, <1>7, ShapedNames
<1>9. Front(n) \in Stays(k, g)
  BY <1>1, <1>4, <1>5, <1>7, <1>8 DEF Stays
<1>. QED
  BY <1>1, <1>5, <1>7, <1>9

LEMMA UndoneInStep ==
  ASSUME NEW k, NEW r, NEW g \in DOMAIN k.tab, InStep(k), IsUndone(k, r, g)
  PROVE  InStep(r)
BY UndoneWritten, UndoneGone DEF InStep, IsUndone

\* With nothing pending, what is shown is what is on the disks.
LEMMA NothingPending ==
  ASSUME NEW k, InStep(k), k.mod = {}
  PROVE  k.tab = k.disk
<1>1. DOMAIN k.tab = DOMAIN k.disk /\ \A n \in DOMAIN k.tab : k.tab[n] = k.disk[n]
  BY DEF InStep, Written, Gone
<1>2. k.tab = [n \in DOMAIN k.tab |-> k.tab[n]] /\ k.disk = [n \in DOMAIN k.disk |-> k.disk[n]]
  BY DEF InStep, IsKernel, Sound, Shaped
<1>. QED
  BY <1>1, <1>2

-----------------------------------------------------------------------------
\* Folds over sequences.  What is said of all prefixes is proved by induction on
\* their length, in sets of numbers: a set that holds 0 and with each number the
\* next one holds them all.
LEMMA Induction ==
  ASSUME NEW S, 0 \in S, \A n \in Nat : n \in S => n + 1 \in S
  PROVE  \A n \in Nat : n \in S
<1> SUFFICES ASSUME \E n \in Nat : n \notin S PROVE FALSE
  OBVIOUS
<1> DEFINE T == Nat \ S
<1>1. T \subseteq Nat /\ T # {}
  OBVIOUS
<1>2. PICK m \in T : \A y \in T : ~ (<<y, m>> \in OpToRel(<, Nat))
  BY <1>1, NatLessThanWellFounded, WFMin, Zenon
<1>3. m \in Nat /\ m \notin S /\ m # 0
  OBVIOUS
<1>4. m - 1 \in Nat /\ m - 1 < m /\ (m - 1) + 1 = m
  BY <1>3
<1>5. m - 1 \in T
  BY <1>3, <1>4
<1>6. <<m - 1, m>> \in OpToRel(<, Nat)
  BY <1>3, <1>4 DEF OpToRel
<1>. QED
  BY <1>2, <1>5, <1>6

\* The greatest of some numbers.
LEMMA Greatest ==
  ASSUME NEW n \in Nat, NEW s \in SUBSET (1 .. n), s # {}
  PROVE  Max(s) \in s /\ \A y \in s : Max(s) >= y
<1> DEFINE S == {m \in Nat : \A t \in SUBSET (1 .. m) : t # {} => \E x \in t : \A y \in t : x >= y}
<1>1. 0 \in S
  <2>1. \A t \in SUBSET (1 .. 0) : t = {}
    OBVIOUS
  <2>. QED
    BY <2>1
<1>2. ASSUME NEW m \in Nat, m \in S PROVE m + 1 \in S
  <2> SUFFICES ASSUME NEW t \in SUBSET (1 .. m + 1), t # {} PROVE \E x \in t : \A y \in t : x >= y
    OBVIOUS
  <2>1. CASE m + 1 \in t
    BY <2>1
  <2>2. CASE m + 1 \notin t
    BY <1>2, <2>2
  <2>. QED
    BY <2>1, <2>2
<1> HIDE DEF S
<1>3. n \in S
  BY <1>1, <1>2, Induction
<1>. QED
  BY <1>3 DEF S, Max

LEMMA GreatestOfAll ==
  ASSUME NEW n \in Nat \ {0}
  PROVE  Max(1 .. n) = n
<1>1. n \in Nat /\ 1 .. n \in SUBSET (1 .. n) /\ 1 .. n # {}
  OBVIOUS
<1>2. Max(1 .. n) \in 1 .. n /\ \A y \in 1 .. n : Max(1 .. n) >= y
  BY <1>1, Greatest, Zenon
<1>. QED
  BY <1>2

\* The four folds of the model, and their steps.
FoldedBy(kind, x, y) ==
  CASE kind = 1 -> DeleteLeaf(x, y)
    [] kind = 2 -> DeletePart(x, y)
    [] kind = 3 -> UndoChanged(x, y)
    [] OTHER -> WriteLine(x, y)
FoldStep(kind, base, seq, h, s) ==
  IF s = {} THEN base ELSE FoldedBy(kind, h[s \ {Max(s)}], seq[Max(s)])

IsFold(f, kind, base, seq, n) ==
  f = [s \in SUBSET (1 .. n) |-> FoldStep(kind, base, seq, f, s)]

\* The function a fold is calculated by exists: every set is made from the one
\* without its greatest element.
LEMMA FoldExists ==
  ASSUME NEW n \in Nat, NEW kind, NEW base, NEW seq
  PROVE  \E f : IsFold(f, kind, base, seq, n)
<1> DEFINE Good(m, f) == /\ f = [s \in SUBSET (1 .. m) |-> f[s]]
                         /\ \A s \in SUBSET (1 .. m) : f[s] = FoldStep(kind, base, seq, f, s)
           Built(m) == \E f : Good(m, f)
           S == {m \in Nat : Built(m)}
<1>1. 0 \in S
  <2> DEFINE f == [s \in SUBSET (1 .. 0) |-> base]
  <2>1. \A s \in SUBSET (1 .. 0) : s = {} /\ f[s] = base
    OBVIOUS
  <2>2. f = [s \in SUBSET (1 .. 0) |-> f[s]]
    OBVIOUS
  <2> HIDE DEF f
  <2>3. \A s \in SUBSET (1 .. 0) : f[s] = FoldStep(kind, base, seq, f, s)
    BY <2>1, Zenon DEF FoldStep
  <2>4. Built(0)
    BY <2>2, <2>3, Zenon
  <2> HIDE DEF Built
  <2>. QED
    BY <2>4
<1>2. ASSUME NEW m \in Nat, m \in S PROVE m + 1 \in S
  <2>0. Built(m)
    <3> HIDE DEF Built
    <3>. QED
      BY <1>2
  <2>1. PICK f : Good(m, f)
    BY <2>0, Zenon
  <2> DEFINE g == [s \in SUBSET (1 .. m + 1) |->
                     IF m + 1 \in s THEN FoldedBy(kind, f[s \ {m + 1}], seq[m + 1]) ELSE f[s]]
  <2>2. ASSUME NEW s \in SUBSET (1 .. m + 1), m + 1 \in s
        PROVE  g[s] = FoldStep(kind, base, seq, g, s)
    <3>0. m + 1 \in Nat /\ s # {}
      BY <2>2
    <3>1. Max(s) \in s /\ \A y \in s : Max(s) >= y
      BY <3>0, Greatest, Zenon
    <3>2. Max(s) = m + 1
      <4>1. Max(s) \in 1 .. m + 1 /\ Max(s) >= m + 1
        BY <2>2, <3>1
      <4>. QED
        BY <4>1
    <3>3. s \ {m + 1} \in SUBSET (1 .. m) /\ s \ {m + 1} \in SUBSET (1 .. m + 1)
          /\ m + 1 \notin s \ {m + 1}
      OBVIOUS
    <3>4. g[s \ {m + 1}] = f[s \ {m + 1}]
      BY <3>3, Zenon
    <3>5. g[s] = FoldedBy(kind, f[s \ {m + 1}], seq[m + 1])
      BY <2>2, Zenon
    <3> HIDE DEF g
    <3>. QED
      BY <3>0, <3>2, <3>4, <3>5, Zenon DEF FoldStep
  <2>3. ASSUME NEW s \in SUBSET (1 .. m + 1), m + 1 \notin s
        PROVE  g[s] = FoldStep(kind, base, seq, g, s)
    <3>1. s \in SUBSET (1 .. m)
      BY <2>3
    <3>a. g[s] = f[s]
      BY <2>3, Zenon
    <3>2. f[s] = FoldStep(kind, base, seq, f, s)
      BY <2>1, <3>1, Zenon
    <3>3. \A y : s \ {y} \in SUBSET (1 .. m) /\ m + 1 \notin s \ {y} /\ s \ {y} \in SUBSET (1 .. m + 1)
      BY <2>3, <3>1
    <3>4. g[s \ {Max(s)}] = f[s \ {Max(s)}]
      BY <3>3, Zenon
    <3> HIDE DEF g
    <3>. QED
      BY <3>a, <3>2, <3>4, Zenon DEF FoldStep
  <2>4. g = [s \in SUBSET (1 .. m + 1) |-> g[s]]
    OBVIOUS
  <2>5. Good(m + 1, g)
    <3> HIDE DEF g
    <3>. QED
      BY <2>2, <2>3, <2>4, Zenon
  <2>6. Built(m + 1)
    BY <2>5, Zenon
  <2> HIDE DEF Built
  <2>. QED
    BY <2>6
<1> HIDE DEF S
<1>3. n \in S
  BY <1>1, <1>2, Induction
<1>4. Built(n)
  <2> HIDE DEF Built
  <2>. QED
    BY <1>3 DEF S
<1>5. PICK f : Good(n, f)
  BY <1>4, Zenon
<1>6. IsFold(f, kind, base, seq, n)
  BY <1>5, Zenon DEF IsFold
<1>. QED
  BY <1>6, Zenon

\* A fold is the end of a run of its steps over the sequence.
IsRun(kind, base, seq, n, run) ==
  /\ run[0] = base
  /\ \A i \in 1 .. n : run[i] = FoldedBy(kind, run[i - 1], seq[i])
LEMMA RunOf ==
  ASSUME NEW n \in Nat, NEW kind, NEW base, NEW seq, NEW f,
         IsFold(f, kind, base, seq, n)
  PROVE  \E run : IsRun(kind, base, seq, n, run) /\ run[n] = f[1 .. n]
<1> DEFINE run == [i \in 0 .. n |-> f[1 .. i]]
<1>3. \A s \in SUBSET (1 .. n) : f[s] = FoldStep(kind, base, seq, f, s)
  BY Zenon DEF IsFold
<1>4. run[0] = base
  <2>1. 1 .. 0 = {} /\ 1 .. 0 \in SUBSET (1 .. n) /\ run[0] = f[1 .. 0]
    OBVIOUS
  <2> HIDE DEF run
  <2>. QED
    BY <1>3, <2>1, Zenon DEF FoldStep
<1>5. ASSUME NEW i \in 1 .. n PROVE run[i] = FoldedBy(kind, run[i - 1], seq[i])
  <2>1. /\ i \in Nat \ {0} /\ 1 .. i \in SUBSET (1 .. n) /\ 1 .. i # {}
        /\ (1 .. i) \ {i} = 1 .. i - 1
    <3> HIDE DEF run
    <3>. QED
      OBVIOUS
  <2>a. run[i] = f[1 .. i] /\ run[i - 1] = f[1 .. i - 1]
    OBVIOUS
  <2>2. Max(1 .. i) = i
    BY <2>1, GreatestOfAll
  <2> HIDE DEF run
  <2>. QED
    BY <1>3, <2>1, <2>a, <2>2, Zenon DEF FoldStep
<1>6. run[n] = f[1 .. n]
  OBVIOUS
<1> HIDE DEF run
<1>7. IsRun(kind, base, seq, n, run) /\ run[n] = f[1 .. n]
  BY <1>4, <1>5, <1>6, Zenon DEF IsRun
<1>. QED
  BY <1>7, Zenon

LEMMA LeafRuns ==
  ASSUME NEW n \in Nat, NEW seq, DOMAIN seq = 1 .. n, NEW base
  PROVE  \E run : IsRun(1, base, seq, n, run) /\ run[n] = FoldLeft(DeleteLeaf, base, seq)
<1> DEFINE A(h, s) == IF s = {} THEN base ELSE DeleteLeaf(h[s \ {Max(s)}], seq[Max(s)])
<1>1. \A h, s : A(h, s) = FoldStep(1, base, seq, h, s)
  BY DEF FoldStep, FoldedBy
<1>2. \E g : IsFold(g, 1, base, seq, n)
  BY FoldExists
<1>3. PICK g : IsFold(g, 1, base, seq, n)
  BY <1>2, Zenon
<1> HIDE DEF A
<1>4. g = [s \in SUBSET (1 .. n) |-> A(g, s)]
  BY <1>1, <1>3, Zenon DEF IsFold
<1> DEFINE f == CHOOSE h : h = [s \in SUBSET (1 .. n) |-> A(h, s)]
<1>5. f = [s \in SUBSET (1 .. n) |-> A(f, s)]
  BY <1>4, Zenon
<1>6. FoldLeft(DeleteLeaf, base, seq) = f[1 .. n]
  BY Zenon DEF FoldLeft, MapThenFoldSet, A
<1> HIDE DEF f
<1>7. IsFold(f, 1, base, seq, n)
  BY <1>1, <1>5, Zenon DEF IsFold
<1>8. \E run : IsRun(1, base, seq, n, run) /\ run[n] = f[1 .. n]
  BY <1>7, RunOf
<1>. QED
  BY <1>6, <1>8, Zenon

LEMMA PartRuns ==
  ASSUME NEW n \in Nat, NEW seq, DOMAIN seq = 1 .. n, NEW base
  PROVE  \E run : IsRun(2, base, seq, n, run) /\ run[n] = FoldLeft(DeletePart, base, seq)
<1> DEFINE A(h, s) == IF s = {} THEN base ELSE DeletePart(h[s \ {Max(s)}], seq[Max(s)])
<1>1. \A h, s : A(h, s) = FoldStep(2, base, seq, h, s)
  BY DEF FoldStep, FoldedBy
<1>2. \E g : IsFold(g, 2, base, seq, n)
  BY FoldExists
<1>3. PICK g : IsFold(g, 2, base, seq, n)
  BY <1>2, Zenon
<1> HIDE DEF A
<1>4. g = [s \in SUBSET (1 .. n) |-> A(g, s)]
  BY <1>1, <1>3, Zenon DEF IsFold
<1> DEFINE f == CHOOSE h : h = [s \in SUBSET (1 .. n) |-> A(h, s)]
<1>5. f = [s \in SUBSET (1 .. n) |-> A(f, s)]
  BY <1>4, Zenon
<1>6. FoldLeft(DeletePart, base, seq) = f[1 .. n]
  BY Zenon DEF FoldLeft, MapThenFoldSet, A
<1> HIDE DEF f
<1>7. IsFold(f, 2, base, seq, n)
  BY <1>1, <1>5, Zenon DEF IsFold
<1>8. \E run : IsRun(2, base, seq, n, run) /\ run[n] = f[1 .. n]
  BY <1>7, RunOf
<1>. QED
  BY <1>6, <1>8, Zenon

LEMMA UndoRuns ==
  ASSUME NEW n \in Nat, NEW seq, DOMAIN seq = 1 .. n, NEW base
  PROVE  \E run : IsRun(3, base, seq, n, run) /\ run[n] = FoldLeft(UndoChanged, base, seq)
<1> DEFINE A(h, s) == IF s = {} THEN base ELSE UndoChanged(h[s \ {Max(s)}], seq[Max(s)])
<1>1. \A h, s : A(h, s) = FoldStep(3, base, seq, h, s)
  BY DEF FoldStep, FoldedBy
<1>2. \E g : IsFold(g, 3, base, seq, n)
  BY FoldExists
<1>3. PICK g : IsFold(g, 3, base, seq, n)
  BY <1>2, Zenon
<1> HIDE DEF A
<1>4. g = [s \in SUBSET (1 .. n) |-> A(g, s)]
  BY <1>1, <1>3, Zenon DEF IsFold
<1> DEFINE f == CHOOSE h : h = [s \in SUBSET (1 .. n) |-> A(h, s)]
<1>5. f = [s \in SUBSET (1 .. n) |-> A(f, s)]
  BY <1>4, Zenon
<1>6. FoldLeft(UndoChanged, base, seq) = f[1 .. n]
  BY Zenon DEF FoldLeft, MapThenFoldSet, A
<1> HIDE DEF f
<1>7. IsFold(f, 3, base, seq, n)
  BY <1>1, <1>5, Zenon DEF IsFold
<1>8. \E run : IsRun(3, base, seq, n, run) /\ run[n] = f[1 .. n]
  BY <1>7, RunOf
<1>. QED
  BY <1>6, <1>8, Zenon

LEMMA LineRuns ==
  ASSUME NEW n \in Nat, NEW seq, DOMAIN seq = 1 .. n, NEW base
  PROVE  \E run : IsRun(4, base, seq, n, run) /\ run[n] = FoldLeft(WriteLine, base, seq)
<1> DEFINE A(h, s) == IF s = {} THEN base ELSE WriteLine(h[s \ {Max(s)}], seq[Max(s)])
<1>1. \A h, s : A(h, s) = FoldStep(4, base, seq, h, s)
  BY DEF FoldStep, FoldedBy
<1>2. \E g : IsFold(g, 4, base, seq, n)
  BY FoldExists
<1>3. PICK g : IsFold(g, 4, base, seq, n)
  BY <1>2, Zenon
<1> HIDE DEF A
<1>4. g = [s \in SUBSET (1 .. n) |-> A(g, s)]
  BY <1>1, <1>3, Zenon DEF IsFold
<1> DEFINE f == CHOOSE h : h = [s \in SUBSET (1 .. n) |-> A(h, s)]
<1>5. f = [s \in SUBSET (1 .. n) |-> A(f, s)]
  BY <1>4, Zenon
<1>6. FoldLeft(WriteLine, base, seq) = f[1 .. n]
  BY Zenon DEF FoldLeft, MapThenFoldSet, A
<1> HIDE DEF f
<1>7. IsFold(f, 4, base, seq, n)
  BY <1>1, <1>5, Zenon DEF IsFold
<1>8. \E run : IsRun(4, base, seq, n, run) /\ run[n] = f[1 .. n]
  BY <1>7, RunOf
<1>. QED
  BY <1>6, <1>8, Zenon

\* A finite set as a sequence.
LEMMA SetAsSeq ==
  ASSUME NEW S, IsFiniteSet(S)
  PROVE  LET q == SetToSeq(S) n == Cardinality(S)
         IN /\ n \in Nat /\ q \in [1 .. n -> S] /\ DOMAIN q = 1 .. n /\ q \in Seq(S) /\ Len(q) = n
            /\ \A i, j \in 1 .. n : q[i] = q[j] => i = j
            /\ \A x \in S : \E i \in 1 .. n : q[i] = x
<1> DEFINE n == Cardinality(S)
           q == SetToSeq(S)
<1>1. n \in Nat /\ ExistsBijection(1 .. n, S)
  BY FS_CardinalityType
<1>2. \E f \in [1 .. n -> S] : IsInjective(f)
  BY <1>1 DEF ExistsBijection, Bijection, Injection
<1>3. q \in [1 .. n -> S] /\ IsInjective(q)
  BY <1>2, Zenon DEF SetToSeq
<1>4. q \in Injection(1 .. n, S)
  BY <1>3 DEF Injection
<1>5. Cardinality(1 .. n) = n
  <2>1. 1 \in Int /\ n \in Int /\ n - 1 + 1 = n /\ (n < 1 => n = 0)
    BY <1>1
  <2> HIDE DEF n, q
  <2>2. Cardinality(1 .. n) = IF 1 > n THEN 0 ELSE n - 1 + 1
    BY <2>1, FS_Interval
  <2>. QED
    BY <1>1, <2>1, <2>2
<1> HIDE DEF n, q
<1>6. q \in Surjection(1 .. n, S)
  <2>1. Cardinality(1 .. n) = Cardinality(S)
    BY <1>5 DEF n
  <2>. QED
    BY <1>4, <2>1, FS_Injection
<1>7. \A x \in S : \E i \in 1 .. n : q[i] = x
  BY <1>6 DEF Surjection
<1>8. \A i, j \in 1 .. n : q[i] = q[j] => i = j
  BY <1>3 DEF IsInjective
<1>9. DOMAIN q = 1 .. n /\ q \in Seq(S) /\ Len(q) = n
  BY <1>1, <1>3
<1>. QED
  BY <1>1, <1>3, <1>7, <1>8, <1>9 DEF n, q

-----------------------------------------------------------------------------
\* The list: what the operations on it leave of its entries.
IsEntry(m) ==
  m = [name |-> m.name, mount |-> m.mount, fs |-> m.fs, newfs |-> m.newfs,
       cancelled |-> m.cancelled, bootcode |-> m.bootcode]
IsList(md) == md \in Seq(Range(md)) /\ \A i \in DOMAIN md : IsEntry(md[i])
Once(md) ==
  \A i, j \in DOMAIN md : md[i].name = md[j].name /\ md[i].name # Label => i = j

LEMMA Found ==
  ASSUME NEW md, NEW name, Has(md, name)
  PROVE  Index(md, name) \in DOMAIN md /\ md[Index(md, name)].name = name
BY DEF Has, Index

LEMMA BlankIs ==
  ASSUME NEW name
  PROVE  /\ IsEntry(Blank(name)) /\ Blank(name).name = name /\ Blank(name).mount = NoMount
         /\ Blank(name).newfs = "" /\ Blank(name).bootcode = FALSE
BY DEF Blank, IsEntry

LEMMA MetadataIs ==
  ASSUME NEW md, IsList(md), NEW name
  PROVE  /\ IsEntry(Metadata(md, name)) /\ Metadata(md, name).name = name
         /\ Metadata(md, name) \in Range(md) \cup {Blank(name)}
         /\ ~Has(md, name) => Metadata(md, name) = Blank(name)
<1>1. CASE Has(md, name)
  BY <1>1, Found DEF Metadata, IsList, Range
<1>2. CASE ~Has(md, name)
  BY <1>2, BlankIs DEF Metadata
<1>. QED
  BY <1>1, <1>2

LEMMA SeqOfItself ==
  ASSUME NEW S, NEW s \in Seq(S)
  PROVE  s \in Seq(Range(s))
<1>1. Len(s) \in Nat /\ DOMAIN s = 1 .. Len(s) /\ s = [i \in 1 .. Len(s) |-> s[i]]
  OBVIOUS
<1>2. \A i \in 1 .. Len(s) : s[i] \in Range(s)
  BY <1>1 DEF Range
<1>. QED
  BY <1>1, <1>2

LEMMA WithDrop ==
  ASSUME NEW md, IsList(md), Once(md), NEW name, name # Label
  PROVE  /\ IsList(Drop(md, name)) /\ Once(Drop(md, name))
         /\ Range(Drop(md, name)) = {m \in Range(md) : m.name # name}
<1>1. CASE ~Has(md, name)
  BY <1>1 DEF Drop, Has, Range
<1>2. CASE Has(md, name)
  <2> DEFINE i == Index(md, name)
             R == Range(md)
             a == SubSeq(md, 1, i - 1)
             b == SubSeq(md, i + 1, Len(md))
             d == a \o b
  <2>1. md \in Seq(R) /\ i \in DOMAIN md /\ md[i].name = name /\ \A j \in DOMAIN md : IsEntry(md[j])
    BY <1>2, Found DEF IsList
  <2> HIDE DEF i, R
  <2>2. Len(md) \in Nat /\ DOMAIN md = 1 .. Len(md) /\ i \in 1 .. Len(md)
    BY <2>1
  <2>a. a \in Seq(R) /\ Len(a) = i - 1 /\ \A j \in 1 .. i - 1 : a[j] = md[j]
    <3>1. /\ 1 \in 1 .. Len(md) + 1 /\ i - 1 \in 1 - 1 .. Len(md) /\ i - 1 - 1 + 1 = i - 1
          /\ \A j \in 1 .. i - 1 : 1 + j - 1 = j
      BY <2>2
    <3>2. /\ a \in Seq(R) /\ Len(a) = i - 1 - 1 + 1
          /\ \A j \in 1 .. i - 1 - 1 + 1 : a[j] = md[1 + j - 1]
      BY <2>1, <3>1, SubSeqProperties
    <3> HIDE DEF a
    <3>. QED
      BY <3>1, <3>2
  <2>b. b \in Seq(R) /\ Len(b) = Len(md) - i /\ \A j \in 1 .. Len(md) - i : b[j] = md[i + j]
    <3>1. /\ i + 1 \in 1 .. Len(md) + 1 /\ Len(md) \in (i + 1) - 1 .. Len(md)
          /\ Len(md) - (i + 1) + 1 = Len(md) - i
          /\ \A j \in 1 .. Len(md) - i : (i + 1) + j - 1 = i + j
      BY <2>2
    <3>2. /\ b \in Seq(R) /\ Len(b) = Len(md) - (i + 1) + 1
          /\ \A j \in 1 .. Len(md) - (i + 1) + 1 : b[j] = md[(i + 1) + j - 1]
      BY <2>1, <3>1, SubSeqProperties
    <3> HIDE DEF b
    <3>. QED
      BY <3>1, <3>2
  <2> HIDE DEF a, b
  <2>3. /\ a \in Seq(R) /\ Len(a) = i - 1 /\ \A j \in 1 .. i - 1 : a[j] = md[j]
        /\ b \in Seq(R) /\ Len(b) = Len(md) - i /\ \A j \in 1 .. Len(md) - i : b[j] = md[i + j]
    BY <2>a, <2>b
  <2>4. /\ d \in Seq(R) /\ Len(d) = Len(md) - 1 /\ DOMAIN d = 1 .. Len(md) - 1
        /\ \A j \in 1 .. Len(md) - 1 : d[j] = IF j < i THEN md[j] ELSE md[j + 1]
    <3>1. /\ d \in Seq(R) /\ Len(d) = Len(a) + Len(b)
          /\ \A j \in 1 .. Len(a) + Len(b) : d[j] = IF j <= Len(a) THEN a[j] ELSE b[j - Len(a)]
      BY <2>3, ConcatProperties
    <3> HIDE DEF d
    <3>2. Len(a) + Len(b) = Len(md) - 1 /\ DOMAIN d = 1 .. Len(md) - 1
      BY <2>2, <2>3, <3>1
    <3>3. ASSUME NEW j \in 1 .. Len(md) - 1 PROVE d[j] = IF j < i THEN md[j] ELSE md[j + 1]
      <4>1. CASE j < i
        <5>1. j \in 1 .. i - 1 /\ j <= Len(a) /\ j \in 1 .. Len(a) + Len(b)
          BY <2>2, <2>3, <4>1
        <5>. QED
          BY <2>3, <3>1, <4>1, <5>1
      <4>2. CASE ~(j < i)
        <5>1. /\ j - Len(a) \in 1 .. Len(md) - i /\ ~(j <= Len(a)) /\ i + (j - Len(a)) = j + 1
              /\ j \in 1 .. Len(a) + Len(b)
          BY <2>2, <2>3, <4>2
        <5>. QED
          BY <2>3, <3>1, <4>2, <5>1
      <4>. QED
        BY <4>1, <4>2
    <3>. QED
      BY <3>1, <3>2, <3>3
  <2>5. Drop(md, name) = d
    BY <1>2 DEF Drop, RemoveAt, d, a, b, i
  <2> HIDE DEF d
  <2>6. \A j \in DOMAIN md : md[j].name = name => j = i
    BY <2>1 DEF Once
  <2> DEFINE at(j) == IF j < i THEN j ELSE j + 1
  <2>7. \A j \in 1 .. Len(md) - 1 : at(j) \in 1 .. Len(md) /\ at(j) # i /\ d[j] = md[at(j)]
    BY <2>2, <2>4
  <2>8. \A j, l \in 1 .. Len(md) - 1 : at(j) = at(l) => j = l
    BY <2>2
  <2>9. \A l \in 1 .. Len(md) : l # i => \E j \in 1 .. Len(md) - 1 : l = at(j)
    <3> SUFFICES ASSUME NEW l \in 1 .. Len(md), l # i
                 PROVE \E j \in 1 .. Len(md) - 1 : l = at(j)
      OBVIOUS
    <3>1. CASE l < i
      BY <2>2, <3>1
    <3>2. CASE l > i
      <4>1. l - 1 \in 1 .. Len(md) - 1 /\ l = at(l - 1)
        BY <2>2, <3>2
      <4>. QED
        BY <4>1
    <3>. QED
      BY <2>2, <3>1, <3>2
  <2> HIDE DEF at
  <2>10. Once(d)
    <3> SUFFICES ASSUME NEW j \in DOMAIN d, NEW l \in DOMAIN d,
                        d[j].name = d[l].name, d[j].name # Label
                 PROVE j = l
      BY DEF Once
    <3>1. j \in 1 .. Len(md) - 1 /\ l \in 1 .. Len(md) - 1
      BY <2>4
    <3>2. /\ at(j) \in DOMAIN md /\ at(l) \in DOMAIN md
          /\ d[j] = md[at(j)] /\ d[l] = md[at(l)]
      BY <2>2, <2>7, <3>1
    <3>3. at(j) = at(l)
      BY <3>2 DEF Once
    <3> QED
      BY <2>8, <3>1, <3>3
  <2>11. IsList(d)
    BY <2>1, <2>2, <2>4, <2>7, SeqOfItself DEF IsList
  <2>12. Range(d) = {m \in Range(md) : m.name # name}
    <3>1. ASSUME NEW m \in Range(d) PROVE m \in Range(md) /\ m.name # name
      BY <2>2, <2>4, <2>6, <2>7 DEF Range
    <3>2. ASSUME NEW m \in Range(md), m.name # name PROVE m \in Range(d)
      <4>1. PICK l \in 1 .. Len(md) : m = md[l]
        BY <2>2 DEF Range
      <4>2. l # i
        BY <2>1, <3>2, <4>1
      <4>3. PICK j \in 1 .. Len(md) - 1 : l = at(j)
        BY <2>9, <4>2
      <4>. QED
        BY <2>4, <2>7, <4>1, <4>3 DEF Range
    <3>. QED
      BY <3>1, <3>2
  <2>. QED
    BY <2>5, <2>10, <2>11, <2>12
<1>. QED
  BY <1>1, <1>2

LEMMA WithPut ==
  ASSUME NEW md, IsList(md), Once(md), NEW m, IsEntry(m), m.name # Label
  PROVE  /\ IsList(Put(md, m)) /\ Once(Put(md, m))
         /\ Range(Put(md, m)) = {m} \cup {e \in Range(md) : e.name # m.name}
<1>0. md \in Seq(Range(md)) /\ Len(md) \in Nat /\ DOMAIN md = 1 .. Len(md)
      /\ \A i \in DOMAIN md : IsEntry(md[i])
  BY DEF IsList
<1>1. CASE ~Has(md, m.name)
  <2> DEFINE d == Append(md, m)
  <2>1. /\ Len(d) = Len(md) + 1 /\ DOMAIN d = 1 .. Len(md) + 1 /\ d[Len(md) + 1] = m
        /\ \A i \in 1 .. Len(md) : d[i] = md[i]
        /\ d \in Seq(Range(md) \cup {m})
    BY <1>0
  <2>2. Put(md, m) = d
    BY <1>1 DEF Put
  <2> HIDE DEF d
  <2>3. \A i \in 1 .. Len(md) : md[i].name # m.name
    BY <1>0, <1>1 DEF Has
  <2>4. IsList(d)
    <3>1. \A i \in 1 .. Len(md) + 1 : i \in 1 .. Len(md) \/ i = Len(md) + 1
      BY <1>0
    <3>. QED
      BY <1>0, <2>1, <3>1, SeqOfItself DEF IsList
  <2>5. Once(d)
    BY <1>0, <2>1, <2>3 DEF Once
  <2>6. Range(d) = {m} \cup {e \in Range(md) : e.name # m.name}
    BY <1>0, <2>1, <2>3 DEF Range
  <2>. QED
    BY <2>2, <2>4, <2>5, <2>6
<1>2. CASE Has(md, m.name)
  <2> DEFINE d == [i \in DOMAIN md |-> IF md[i].name = m.name THEN m ELSE md[i]]
  <2>1. /\ Put(md, m) = d /\ DOMAIN d = DOMAIN md
        /\ \A i \in DOMAIN md : d[i] = IF md[i].name = m.name THEN m ELSE md[i]
    BY <1>2 DEF Put
  <2>2. d \in Seq(Range(md) \cup {m})
    BY <1>0 DEF Range
  <2> HIDE DEF d
  <2>3. IsList(d)
    BY <1>0, <2>1, <2>2, SeqOfItself DEF IsList
  <2>4. Once(d)
    BY <2>1 DEF Once
  <2>5. Range(d) = {m} \cup {e \in Range(md) : e.name # m.name}
    BY <1>2, <2>1 DEF Range, Has
  <2>. QED
    BY <2>1, <2>3, <2>4, <2>5
<1>. QED
  BY <1>1, <1>2

-----------------------------------------------------------------------------
\* The editor's whole state of a session: the kernel's tables and the list.
IsStore(s) == s = [tab |-> s.tab, mod |-> s.mod, disk |-> s.disk, md |-> s.md, esps |-> s.esps]
Sane(s) == IsStore(s) /\ InStep(Kernel(s)) /\ IsList(s.md) /\ Once(s.md)

LEMMA WithIs ==
  ASSUME NEW s, IsStore(s), NEW k, IsKernel(k)
  PROVE  /\ IsStore(With(s, k)) /\ Kernel(With(s, k)) = k /\ With(s, k).md = s.md
         /\ With(s, k).tab = k.tab /\ With(s, k).mod = k.mod /\ With(s, k).disk = k.disk
<1>1. k = [tab |-> k.tab, mod |-> k.mod, disk |-> k.disk]
  BY DEF IsKernel
<1>2. s = [tab |-> s.tab, mod |-> s.mod, disk |-> s.disk, md |-> s.md, esps |-> s.esps]
  BY DEF IsStore
<1>3. With(s, k) = [tab |-> k.tab, mod |-> k.mod, disk |-> k.disk, md |-> s.md, esps |-> s.esps]
  <2> DEFINE w1 == [s EXCEPT !.tab = k.tab]
             w2 == [w1 EXCEPT !.mod = k.mod]
             w3 == [w2 EXCEPT !.disk = k.disk]
  <2>1. With(s, k) = w3
    BY Zenon DEF With
  <2>2. w1 = [tab |-> k.tab, mod |-> s.mod, disk |-> s.disk, md |-> s.md, esps |-> s.esps]
    BY <1>2
  <2> HIDE DEF w1
  <2>3. w2 = [tab |-> k.tab, mod |-> k.mod, disk |-> s.disk, md |-> s.md, esps |-> s.esps]
    BY <2>2
  <2> HIDE DEF w2
  <2>4. w3 = [tab |-> k.tab, mod |-> k.mod, disk |-> k.disk, md |-> s.md, esps |-> s.esps]
    BY <2>3
  <2> HIDE DEF w3
  <2>. QED
    BY <2>1, <2>4
<1>. QED
  BY <1>1, <1>3 DEF IsStore, Kernel

LEMMA ListIs ==
  ASSUME NEW s, IsStore(s), NEW md
  PROVE  /\ IsStore([s EXCEPT !.md = md]) /\ Kernel([s EXCEPT !.md = md]) = Kernel(s)
         /\ [s EXCEPT !.md = md].md = md /\ [s EXCEPT !.md = md].tab = s.tab
         /\ [s EXCEPT !.md = md].mod = s.mod /\ [s EXCEPT !.md = md].disk = s.disk
         /\ [s EXCEPT !.md = md].esps = s.esps
<1>2. s = [tab |-> s.tab, mod |-> s.mod, disk |-> s.disk, md |-> s.md, esps |-> s.esps]
  BY DEF IsStore
<1>3. [s EXCEPT !.md = md]
        = [tab |-> s.tab, mod |-> s.mod, disk |-> s.disk, md |-> md, esps |-> s.esps]
  BY <1>2
<1>. QED
  BY <1>3 DEF IsStore, Kernel

LEMMA KernelIs ==
  ASSUME NEW s
  PROVE  Kernel(s).tab = s.tab /\ Kernel(s).mod = s.mod /\ Kernel(s).disk = s.disk
BY DEF Kernel

LEMMA NotLabel ==
  ASSUME NEW tab, Sound(tab)
  PROVE  \A n \in Partitions(tab) \cup DOMAIN tab \cup DiskNames : n # Label
<1>1. ASSUME NEW n \in Partitions(tab) PROVE n # Label
  <2>1. Len(n) >= 2
    BY SoundPartitions
  <2>2. Len(Label) = 1 /\ ~(1 >= 2)
    BY DEF Label
  <2>. QED
    BY <2>1, <2>2, Zenon
<1>2. ASSUME NEW n \in DOMAIN tab \ DiskNames PROVE n # Label
  <2>1. n \in Partitions(tab)
    BY SoundSits DEF Providers, DiskNames
  <2>. QED
    BY <1>1, <2>1
<1>. QED
  BY <1>1, <1>2, DiskNamed

\* The deletion of a partition without a table.
LEMMA LeafDeleted ==
  ASSUME NEW s, Sane(s), NEW p \in Partitions(s.tab), p \notin s.mod
  PROVE  LET r == DeleteLeaf(s, p)
         IN /\ Sane(r)
            /\ IsReplaced(Kernel(s), Kernel(r), Front(p), Without(s.tab[Front(p)], Last(p)))
            /\ Range(r.md) = {m \in Range(s.md) : m.name # p}
<1> DEFINE k == Kernel(s)
           d == Delete(k, p)
           w == With(s, d)
           r == DeleteLeaf(s, p)
<1>1. IsStore(s) /\ IsKernel(k) /\ InStep(k) /\ IsList(s.md) /\ Once(s.md)
  BY DEF Sane, InStep
<1>2. k.tab = s.tab /\ k.mod = s.mod
  BY KernelIs
<1>3. CanDelete(k, p)
  BY <1>2 DEF CanDelete
<1> HIDE DEF k
<1>4. IsReplaced(k, d, Front(p), Without(s.tab[Front(p)], Last(p)))
  BY <1>1, <1>2, Deleted
<1>5. IsKernel(d) /\ InStep(d)
  BY <1>1, <1>4, ReplacedInStep DEF IsReplaced
<1> HIDE DEF d
<1>6. IsStore(w) /\ Kernel(w) = d /\ w.md = s.md
  BY <1>1, <1>5, WithIs
<1> HIDE DEF w
<1>7. r = Forget(w, p)
  BY <1>3 DEF DeleteLeaf, w, d, k
<1>8. r = [w EXCEPT !.md = Drop(s.md, p)]
  BY <1>6, <1>7 DEF Forget
<1> HIDE DEF r
<1>9. IsStore(r) /\ Kernel(r) = d /\ r.md = Drop(s.md, p)
  BY <1>6, <1>8, ListIs
<1>10. p # Label
  BY <1>1, <1>2, NotLabel DEF IsKernel
<1>11. IsList(r.md) /\ Once(r.md) /\ Range(r.md) = {m \in Range(s.md) : m.name # p}
  BY <1>1, <1>9, <1>10, WithDrop
<1>. QED
  BY <1>4, <1>5, <1>9, <1>11 DEF Sane, r, k

-----------------------------------------------------------------------------
\* gpart_destroy() of a nested table.  Its partitions go one by one: x is what s
\* has become when those named in D are gone.
Emptying(s, g, x, D) ==
  /\ Sane(x) /\ x.disk = s.disk /\ DOMAIN x.tab = DOMAIN s.tab
  /\ \A n \in DOMAIN s.tab : n # g => x.tab[n] = s.tab[n]
  /\ DOMAIN x.tab[g].parts = {j \in DOMAIN s.tab[g].parts : Append(g, j) \notin D}
  /\ x.mod \ {g} = s.mod \ {g}
  /\ Range(x.md) = {m \in Range(s.md) : m.name \notin D}

LEMMA SaneTab ==
  ASSUME NEW s, Sane(s)
  PROVE  /\ Sound(s.tab) /\ Shaped(s.disk) /\ s.mod \subseteq DOMAIN s.tab /\ IsKernel(Kernel(s))
         /\ Whole(s.disk)
BY KernelIs DEF Sane, InStep, IsKernel

LEMMA PartsAreNames ==
  ASSUME NEW tab, Sound(tab), NEW g \in DOMAIN tab, NEW p \in PartsOf(tab, g)
  PROVE  /\ p \in Names /\ Len(p) = Len(g) + 1 /\ Front(p) = g /\ Last(p) \in DOMAIN tab[g].parts
         /\ p = Append(g, Last(p)) /\ p \in Partitions(tab) /\ p \notin DiskNames /\ Len(p) >= 2
<1>1. PICK i \in DOMAIN tab[g].parts : p = Append(g, i)
  BY DEF PartsOf
<1>2. g \in Names /\ i \in Nat /\ Len(g) >= 1 /\ Len(g) \in Nat
  BY GeomNames DEF Names
<1>3. p \in Names /\ Len(p) = Len(g) + 1 /\ Front(p) = g /\ Last(p) = i
  BY <1>1, <1>2, Grown
<1>4. p \in Partitions(tab)
  BY DEF Partitions
<1>5. p \notin DiskNames
  <2>1. Len(p) # 1
    BY <1>2, <1>3
  <2>. QED
    BY <2>1, DiskNamed
<1>6. Len(p) >= 2
  BY <1>2, <1>3
<1>. QED
  BY <1>1, <1>3, <1>4, <1>5, <1>6

LEMMA PartsFinite ==
  ASSUME NEW tab, Sound(tab), NEW g \in DOMAIN tab
  PROVE  IsFiniteSet(PartsOf(tab, g))
<1> DEFINE D == DOMAIN tab[g].parts
           P == PartsOf(tab, g)
           f == [i \in D |-> Append(g, i)]
<1>1. IsFiniteSet(D)
  BY SoundGeoms, TableParts
<1>2. f \in Surjection(D, P)
  BY DEF Surjection, PartsOf
<1> HIDE DEF D, P, f
<1>3. IsFiniteSet(P)
  BY <1>1, <1>2, FS_Surjection
<1>. QED
  BY <1>3 DEF P

LEMMA EmptyOne ==
  ASSUME NEW s, NEW g, NEW x, NEW D, Sane(s), g \in DOMAIN s.tab, g \notin DiskNames,
         Emptying(s, g, x, D), NEW p \in PartsOf(s.tab, g), p \notin D
  PROVE  Emptying(s, g, DeleteLeaf(x, p), D \cup {p})
<1> DEFINE r == DeleteLeaf(x, p)
           j == Last(p)
<1>1. /\ Sound(s.tab) /\ Sane(x) /\ Sound(x.tab) /\ x.mod \subseteq DOMAIN x.tab
      /\ DOMAIN x.tab = DOMAIN s.tab
  BY SaneTab DEF Emptying
<1>2. /\ Front(p) = g /\ j \in DOMAIN s.tab[g].parts /\ p = Append(g, j) /\ Len(p) = Len(g) + 1
      /\ Len(g) = 2 /\ g \in Names
  BY <1>1, PartsAreNames, GeomNames
<1>3. \A n \in DOMAIN s.tab : Front(n) # g
  <2> SUFFICES ASSUME NEW n \in DOMAIN s.tab, Front(n) = g PROVE FALSE
    OBVIOUS
  <2>1. n \notin DiskNames
    BY <1>1, GeomFront
  <2>2. Front(n) \in DiskNames
    BY <1>1, <2>1, GeomNames
  <2>. QED
    BY <2>2
<1>4. j \in DOMAIN x.tab[g].parts
  BY <1>2 DEF Emptying
<1>5. p \in Partitions(x.tab)
  BY <1>1, <1>2, <1>4 DEF Partitions, PartsOf
<1>6. p \notin x.mod
  BY <1>1, <1>2, <1>3
<1>7. /\ Sane(r) /\ IsReplaced(Kernel(x), Kernel(r), g, Without(x.tab[g], j))
      /\ Range(r.md) = {m \in Range(x.md) : m.name # p}
  BY <1>1, <1>2, <1>5, <1>6, LeafDeleted
<1> HIDE DEF r
<1>8. /\ r.disk = x.disk
      /\ DOMAIN r.tab = {n \in DOMAIN x.tab \cup {g} :
                           Front(n) = g => Last(n) \in DOMAIN Without(x.tab[g], j).parts}
      /\ \A n \in DOMAIN r.tab : r.tab[n] = IF n = g THEN Without(x.tab[g], j) ELSE x.tab[n]
      /\ r.mod = (x.mod \cup {g}) \cap DOMAIN r.tab
  BY <1>7, KernelIs DEF IsReplaced
<1>9. DOMAIN Without(x.tab[g], j).parts = DOMAIN x.tab[g].parts \ {j}
  BY DEF Without, Restrict
<1>10. DOMAIN r.tab = DOMAIN s.tab
  BY <1>1, <1>3, <1>8
<1>11. r.disk = s.disk /\ \A n \in DOMAIN s.tab : n # g => r.tab[n] = s.tab[n]
  BY <1>8, <1>10 DEF Emptying
<1>12. DOMAIN r.tab[g].parts = {i \in DOMAIN s.tab[g].parts : Append(g, i) \notin D \cup {p}}
  <2>1. r.tab[g] = Without(x.tab[g], j)
    BY <1>8, <1>10
  <2>2. DOMAIN x.tab[g].parts = {i \in DOMAIN s.tab[g].parts : Append(g, i) \notin D}
    BY DEF Emptying
  <2>3. \A i \in DOMAIN s.tab[g].parts : Append(g, i) = p <=> i = j
    <3>1. \A i \in DOMAIN s.tab[g].parts : i \in Nat /\ Last(Append(g, i)) = i
      BY <1>1, <1>2, GeomNames, Grown
    <3>. QED
      BY <1>2, <3>1
  <2>. QED
    BY <1>9, <2>1, <2>2, <2>3
<1>13. r.mod \ {g} = s.mod \ {g}
  BY <1>1, <1>8, <1>10 DEF Emptying
<1>14. Range(r.md) = {m \in Range(s.md) : m.name \notin D \cup {p}}
  BY <1>7 DEF Emptying
<1>15. Emptying(s, g, r, D \cup {p})
  BY <1>7, <1>10, <1>11, <1>12, <1>13, <1>14 DEF Emptying
<1>. QED
  BY <1>15 DEF r

\* A run over names that goes from one to the next ends with all of them.
LEMMA Emptied ==
  ASSUME NEW s, NEW g, Sane(s), g \in DOMAIN s.tab, g \notin DiskNames
  PROVE  Emptying(s, g, FoldLeft(DeleteLeaf, s, SetToSeq(PartsOf(s.tab, g))), PartsOf(s.tab, g))
<1> DEFINE P == PartsOf(s.tab, g)
           q == SetToSeq(P)
           n == Cardinality(P)
           D(i) == {q[l] : l \in 1 .. i}
<1>1. IsFiniteSet(P)
  BY SaneTab, PartsFinite
<1>2. /\ n \in Nat /\ q \in [1 .. n -> P] /\ DOMAIN q = 1 .. n
      /\ \A i, j \in 1 .. n : q[i] = q[j] => i = j
      /\ \A x \in P : \E i \in 1 .. n : q[i] = x
  BY <1>1, SetAsSeq
<1> HIDE DEF q, n
<1>3. PICK run : IsRun(1, s, q, n, run) /\ run[n] = FoldLeft(DeleteLeaf, s, q)
  BY <1>2, LeafRuns
<1> DEFINE S == {i \in Nat : i <= n => Emptying(s, g, run[i], D(i))}
<1>4. 0 \in S
  <2>1. D(0) = {}
    OBVIOUS
  <2>2. run[0] = s
    BY <1>3 DEF IsRun
  <2>3. Emptying(s, g, s, {})
    BY DEF Emptying, Range
  <2>. QED
    BY <2>1, <2>2, <2>3
<1>5. ASSUME NEW i \in Nat, i \in S PROVE i + 1 \in S
  <2> SUFFICES ASSUME i + 1 <= n PROVE Emptying(s, g, run[i + 1], D(i + 1))
    OBVIOUS
  <2>1. i + 1 \in 1 .. n /\ (i + 1) - 1 = i /\ i <= n
    BY <1>2
  <2>2. Emptying(s, g, run[i], D(i))
    BY <1>5, <2>1
  <2>3. run[i + 1] = DeleteLeaf(run[i], q[i + 1])
    BY <1>3, <2>1 DEF IsRun, FoldedBy
  <2>4. q[i + 1] \in P
    BY <1>2, <2>1
  <2>5. q[i + 1] \notin D(i)
    BY <1>2, <2>1
  <2>6. D(i + 1) = D(i) \cup {q[i + 1]}
    BY <2>1
  <2> HIDE DEF D
  <2>. QED
    BY <2>2, <2>3, <2>4, <2>5, <2>6, EmptyOne
<1> HIDE DEF S
<1>6. n \in S
  BY <1>2, <1>4, <1>5, Induction
<1>7. Emptying(s, g, run[n], D(n))
  BY <1>2, <1>6 DEF S
<1>8. D(n) = P
  BY <1>2
<1>. QED
  BY <1>3, <1>7, <1>8 DEF q

\* What is left when a table's partitions, and the tables in them, are gone: the
\* names in N are those the list has lost.
Cleared(s, g, x, N) ==
  /\ Sane(x) /\ x.disk = s.disk
  /\ DOMAIN x.tab = {n \in DOMAIN s.tab : Front(n) # g}
  /\ \A n \in DOMAIN x.tab : n # g => x.tab[n] = s.tab[n]
  /\ x.mod \ {g} = (s.mod \ {g}) \cap DOMAIN x.tab
  /\ Range(x.md) = {m \in Range(s.md) : m.name \notin N}

\* A table that is gone, or is to go: nothing is in it any more.
Razed(s, r, g, N) ==
  /\ Sane(r) /\ r.disk = s.disk
  /\ DOMAIN r.tab \ {g} = {n \in DOMAIN s.tab : n # g /\ Front(n) # g}
  /\ \A n \in DOMAIN r.tab : n # g => r.tab[n] = s.tab[n]
  /\ g \in DOMAIN r.tab => r.tab[g] = Table(None) /\ g \in r.mod
  /\ r.mod \ {g} = (s.mod \ {g}) \cap DOMAIN r.tab
  /\ Range(r.md) = {m \in Range(s.md) : m.name \notin N}

\* The kernel's changes of a store that is sane.
LEMMA SaneWith ==
  ASSUME NEW s, Sane(s), NEW k, InStep(k)
  PROVE  /\ Sane(With(s, k)) /\ Kernel(With(s, k)) = k /\ With(s, k).md = s.md
         /\ With(s, k).tab = k.tab /\ With(s, k).mod = k.mod /\ With(s, k).disk = k.disk
BY WithIs DEF Sane, InStep

LEMMA SaneForget ==
  ASSUME NEW s, Sane(s), NEW g, g # Label
  PROVE  /\ Sane(Forget(s, g)) /\ Forget(s, g).tab = s.tab /\ Forget(s, g).mod = s.mod
         /\ Forget(s, g).disk = s.disk /\ Kernel(Forget(s, g)) = Kernel(s)
         /\ Range(Forget(s, g).md) = {m \in Range(s.md) : m.name # g}
<1> DEFINE r == Forget(s, g)
<1>1. r = [s EXCEPT !.md = Drop(s.md, g)]
  BY DEF Forget
<1> HIDE DEF r
<1>2. IsStore(s) /\ InStep(Kernel(s)) /\ IsList(s.md) /\ Once(s.md)
  BY DEF Sane
<1>3. /\ IsStore(r) /\ Kernel(r) = Kernel(s) /\ r.md = Drop(s.md, g)
      /\ r.tab = s.tab /\ r.mod = s.mod /\ r.disk = s.disk
  BY <1>1, <1>2, ListIs
<1>4. IsList(r.md) /\ Once(r.md) /\ Range(r.md) = {m \in Range(s.md) : m.name # g}
  BY <1>2, <1>3, WithDrop
<1>. QED
  BY <1>2, <1>3, <1>4 DEF Sane, r

LEMMA Razing ==
  ASSUME NEW s, NEW g, NEW x, NEW N, Sane(s), g \in DOMAIN s.tab, Cleared(s, g, x, N)
  PROVE  LET u == With(x, Undo(Kernel(x), g))
             d == With(u, Destroy(Kernel(u), g))
         IN Razed(s, Forget(d, g), g, N \cup {g})
<1> DEFINE k == Kernel(x)
           v == Undo(k, g)
           u == With(x, v)
           w == Destroy(v, g)
           d == With(u, w)
           r == Forget(d, g)
<1>1. /\ Sound(s.tab) /\ Sane(x) /\ Sound(x.tab) /\ Shaped(x.disk) /\ x.mod \subseteq DOMAIN x.tab
      /\ x.disk = s.disk /\ Front(g) # g
  BY SaneTab, GeomNames DEF Cleared
<1>2. g \in DOMAIN x.tab
  BY <1>1 DEF Cleared
<1>3. /\ k.tab = x.tab /\ k.mod = x.mod /\ k.disk = x.disk /\ IsKernel(k) /\ InStep(k)
  BY <1>1, KernelIs DEF Sane, InStep
<1> HIDE DEF k
<1>4. IsUndone(k, v, g) /\ InStep(v)
  BY <1>2, <1>3, Undone, UndoneInStep
<1> HIDE DEF v
<1>5. Sane(u) /\ Kernel(u) = v /\ u.md = x.md /\ u.disk = x.disk
  BY <1>1, <1>3, <1>4, SaneWith DEF IsUndone
<1> HIDE DEF u
<1>6. \A n \in DOMAIN x.tab : Front(n) # g
  BY DEF Cleared
<1>7. /\ DOMAIN v.tab \ {g} = (DOMAIN x.tab \ {g}) \cup {n \in DOMAIN v.tab : Front(n) = g}
      /\ \A n \in DOMAIN v.tab : n # g /\ Front(n) # g => v.tab[n] = x.tab[n]
      /\ g \in DOMAIN v.tab => v.tab[g] = x.disk[g] /\ g \in DOMAIN x.disk
      /\ v.mod = (x.mod \ {g}) \cap DOMAIN v.tab
      /\ v.disk = x.disk
  <2>1. Stays(k, g) = DOMAIN x.tab \ {g}
    BY <1>3, <1>6 DEF Stays
  <2>2. \A n \in Back(k, g) : n \in DOMAIN x.disk /\ (n = g \/ Front(n) = g)
    BY <1>3 DEF Back
  <2>. QED
    BY <1>1, <1>3, <1>4, <1>6, <2>1, <2>2 DEF IsUndone
<1>10. /\ InStep(w) /\ w.disk = x.disk
       /\ DOMAIN w.tab \ {g} = DOMAIN x.tab \ {g}
       /\ \A n \in DOMAIN w.tab : n # g => w.tab[n] = x.tab[n]
       /\ g \in DOMAIN w.tab => w.tab[g] = Table(None) /\ g \in w.mod
       /\ w.mod \ {g} = (x.mod \ {g}) \cap DOMAIN w.tab
  <2>1. CASE g \notin DOMAIN v.tab
    <3>1. w = v
      BY <2>1 DEF Destroy, CanDestroy
    <3>2. \A n \in DOMAIN v.tab : Front(n) # g
      <4> SUFFICES ASSUME NEW n \in DOMAIN v.tab, Front(n) = g PROVE FALSE
        OBVIOUS
      <4>1. Sound(v.tab)
        BY <1>4 DEF IsUndone, IsKernel
      <4>2. n \notin DiskNames
        BY <1>1, GeomFront
      <4>. QED
        BY <2>1, <4>1, <4>2, GeomNames
    <3>3. /\ InStep(w) /\ w.disk = x.disk
          /\ DOMAIN w.tab \ {g} = DOMAIN x.tab \ {g}
          /\ \A n \in DOMAIN w.tab : n # g => w.tab[n] = x.tab[n]
          /\ g \notin DOMAIN w.tab
          /\ w.mod \ {g} = (x.mod \ {g}) \cap DOMAIN w.tab
      BY <1>4, <1>7, <2>1, <3>1, <3>2
    <3>. QED
      BY <3>3
  <2>2. CASE g \in DOMAIN v.tab
    <3>1. CanDestroy(v, g)
      <4>1. v.tab[g].scheme # None
        BY <1>1, <1>7, <2>2, ShapedNames
      <4>2. PartsOf(v.tab, g) \cap v.mod = {}
        <5> SUFFICES ASSUME NEW p \in PartsOf(v.tab, g), p \in v.mod PROVE FALSE
          OBVIOUS
        <5>1. Sound(v.tab)
          BY <1>4 DEF IsUndone, IsKernel
        <5>2. Front(p) = g
          BY <2>2, <5>1, PartsAreNames
        <5>3. p \in DOMAIN x.tab
          BY <1>1, <1>7
        <5>. QED
          BY <1>6, <5>2, <5>3
      <4>. QED
        BY <2>2, <4>1, <4>2 DEF CanDestroy, Zombie
    <3>2. IsReplaced(v, w, g, Table(None))
      BY <1>4, <3>1, Destroyed DEF IsUndone
    <3> HIDE DEF w
    <3>3. InStep(w)
      BY <1>4, <3>2, ReplacedInStep
    <3>4. DOMAIN Table(None).parts = {}
      BY DEF Table
    <3>5. DOMAIN w.tab = {n \in DOMAIN v.tab : Front(n) # g}
      BY <2>2, <3>2, <3>4 DEF IsReplaced
    <3>6. /\ w.disk = x.disk /\ g \in DOMAIN w.tab
          /\ \A n \in DOMAIN w.tab : n # g => w.tab[n] = v.tab[n]
          /\ w.tab[g] = Table(None)
          /\ w.mod = (v.mod \cup {g}) \cap DOMAIN w.tab
      BY <1>7, <3>2 DEF IsReplaced
    <3>7. /\ InStep(w) /\ w.disk = x.disk
          /\ DOMAIN w.tab \ {g} = DOMAIN x.tab \ {g}
          /\ \A n \in DOMAIN w.tab : n # g => w.tab[n] = x.tab[n]
          /\ g \in DOMAIN w.tab => w.tab[g] = Table(None) /\ g \in w.mod
          /\ w.mod \ {g} = (x.mod \ {g}) \cap DOMAIN w.tab
      BY <1>6, <1>7, <3>3, <3>5, <3>6
    <3>. QED
      BY <3>7
  <2>. QED
    BY <2>1, <2>2
<1> HIDE DEF w
<1>11. Sane(d) /\ d.md = x.md /\ d.tab = w.tab /\ d.mod = w.mod /\ d.disk = w.disk
  BY <1>5, <1>10, SaneWith
<1> HIDE DEF d
<1>12. g # Label
  BY <1>1, NotLabel
<1>13. /\ Sane(r) /\ r.tab = w.tab /\ r.mod = w.mod /\ r.disk = w.disk
       /\ Range(r.md) = {m \in Range(x.md) : m.name # g}
  <2>1. /\ Sane(r) /\ r.tab = d.tab /\ r.mod = d.mod /\ r.disk = d.disk
        /\ Range(r.md) = {m \in Range(d.md) : m.name # g}
    BY <1>11, <1>12, SaneForget
  <2>. QED
    BY <1>11, <2>1
<1> HIDE DEF r
<1>14. Razed(s, r, g, N \cup {g})
  <2>1. /\ DOMAIN x.tab = {n \in DOMAIN s.tab : Front(n) # g}
        /\ \A n \in DOMAIN x.tab : n # g => x.tab[n] = s.tab[n]
        /\ x.mod \ {g} = (s.mod \ {g}) \cap DOMAIN x.tab
        /\ Range(x.md) = {m \in Range(s.md) : m.name \notin N}
    BY DEF Cleared
  <2>2. /\ DOMAIN r.tab \ {g} = {n \in DOMAIN s.tab : n # g /\ Front(n) # g}
        /\ \A n \in DOMAIN r.tab : n # g => r.tab[n] = s.tab[n]
        /\ r.mod \ {g} = (s.mod \ {g}) \cap DOMAIN r.tab
    BY <1>10, <1>13, <2>1
  <2>3. Range(r.md) = {m \in Range(s.md) : m.name \notin N \cup {g}}
    BY <1>13, <2>1
  <2>. QED
    BY <1>1, <1>10, <1>13, <2>2, <2>3 DEF Razed
<1>. QED
  BY <1>5, <1>14 DEF r, d, w, u, v, k

\* No table is nested in one that is not a disk's.
LEMMA NoneInSlice ==
  ASSUME NEW tab, Sound(tab), NEW g, g \notin DiskNames, Len(g) >= 1, NEW n \in DOMAIN tab
  PROVE  Front(n) # g
<1>1. CASE n \in DiskNames
  <2>1. Len(Front(n)) = 0
    BY <1>1, FrontOfDisk
  <2>. QED
    BY <2>1
<1>2. CASE n \notin DiskNames
  BY <1>2, GeomNames
<1>. QED
  BY <1>1, <1>2

LEMMA DestroyNestedIs ==
  ASSUME NEW s, Sane(s), NEW g, g \in DOMAIN s.tab, g \notin DiskNames
  PROVE  Razed(s, DestroyNested(s, g), g, PartsOf(s.tab, g) \cup {g})
<1> DEFINE P == PartsOf(s.tab, g)
           x == FoldLeft(DeleteLeaf, s, SetToSeq(P))
<1>1. Emptying(s, g, x, P)
  BY Emptied
<1>2. \A n \in DOMAIN s.tab : Front(n) # g
  BY SaneTab, GeomNames, NoneInSlice
<1>3. DestroyNested(s, g)
        = LET u == With(x, Undo(Kernel(x), g))
              d == With(u, Destroy(Kernel(u), g))
          IN Forget(d, g)
  BY DEF DestroyNested, DestroyWith
<1> HIDE DEF P, x
<1>4. Cleared(s, g, x, P)
  <2>1. s.mod \subseteq DOMAIN s.tab
    BY SaneTab
  <2>. QED
    BY <1>1, <1>2, <2>1 DEF Emptying, Cleared
<1>5. Razed(s, DestroyNested(s, g), g, P \cup {g})
  BY <1>3, <1>4, Razing
<1>. QED
  BY <1>5 DEF P

\* What goes with a partition or a disk: the partitions in it.
Held(tab, g) == {g} \cup {q \in Partitions(tab) : Front(q) = g \/ Front(Front(q)) = g}

PartGone(s, r, p) ==
  /\ Sane(r) /\ r.disk = s.disk
  /\ DOMAIN r.tab = DOMAIN s.tab \ {p}
  /\ \A n \in DOMAIN r.tab :
       r.tab[n] = IF n = Front(p) THEN Without(s.tab[Front(p)], Last(p)) ELSE s.tab[n]
  /\ r.mod = (s.mod \ {p}) \cup {Front(p)}
  /\ Range(r.md) = {m \in Range(s.md) : m.name \notin Held(s.tab, p)}

\* What a partition's table, if it has one, holds.
LEMMA HeldByPart ==
  ASSUME NEW tab, Sound(tab), NEW p \in Partitions(tab)
  PROVE  /\ p \in DOMAIN tab => Held(tab, p) = PartsOf(tab, p) \cup {p}
         /\ p \notin DOMAIN tab => Held(tab, p) = {p}
<1>1. p \in Names /\ Sits(tab, p) /\ Len(p) >= 2 /\ Len(p) >= 1 /\ p \notin DiskNames
  <2>1. p \in Names /\ Sits(tab, p) /\ Len(p) >= 2
    BY SoundPartitions
  <2>2. \A x \in Nat : x >= 2 => x # 1 /\ x >= 1
    OBVIOUS
  <2>3. Len(p) \in Nat
    BY <2>1 DEF Names
  <2>. QED
    BY <2>1, <2>2, <2>3, DiskNamed
<1>2. ASSUME NEW q \in Partitions(tab)
      PROVE  /\ Front(Front(q)) # p
             /\ Front(q) = p => p \in DOMAIN tab /\ q \in PartsOf(tab, p)
  <2>1. q \in Names /\ Sits(tab, q) /\ Len(q) >= 2
    BY SoundPartitions
  <2>2. Front(Front(q)) # p
    BY <1>1, <2>1, NoneInSlice DEF Sits
  <2>3. ASSUME Front(q) = p PROVE p \in DOMAIN tab /\ q \in PartsOf(tab, p)
    <3>1. p \in DOMAIN tab /\ Last(q) \in DOMAIN tab[p].parts
      BY <2>1, <2>3 DEF Sits
    <3>2. p \in Names /\ DOMAIN tab[p].parts \subseteq Nat /\ Len(q) >= 1
      <4>1. \A x \in Nat : x >= 2 => x >= 1
        OBVIOUS
      <4>. QED
        BY <1>1, <2>1, <3>1, <4>1, GeomNames DEF Names
    <3>. QED
      BY <2>1, <2>3, <3>1, <3>2, PartsOfIs
  <2>. QED
    BY <2>2, <2>3
<1>3. ASSUME p \in DOMAIN tab, NEW q \in PartsOf(tab, p) PROVE q \in Partitions(tab) /\ Front(q) = p
  BY <1>3, PartsAreNames
<1>. QED
  BY <1>2, <1>3 DEF Held

LEMMA PartDeleted ==
  ASSUME NEW s, Sane(s), NEW p \in Partitions(s.tab)
  PROVE  PartGone(s, DeletePart(s, p), p)
<1> DEFINE g == Front(p)
           i == Last(p)
           r == DeletePart(s, p)
<1>1. Sound(s.tab) /\ s.mod \subseteq DOMAIN s.tab
  BY SaneTab
<1>2. p \in Names /\ Sits(s.tab, p) /\ Len(p) >= 2 /\ Len(p) >= 1 /\ p \notin DiskNames
  <2>1. p \in Names /\ Sits(s.tab, p) /\ Len(p) >= 2
    BY <1>1, SoundPartitions
  <2>2. \A x \in Nat : x >= 2 => x # 1 /\ x >= 1
    OBVIOUS
  <2>3. Len(p) \in Nat
    BY <2>1 DEF Names
  <2>. QED
    BY <2>1, <2>2, <2>3, DiskNamed
<1>3. /\ g \in DOMAIN s.tab /\ i \in DOMAIN s.tab[g].parts
      /\ \A n \in DOMAIN s.tab : Front(n) # p
      /\ g # p
  <2>1. g \in DOMAIN s.tab /\ i \in DOMAIN s.tab[g].parts
    BY <1>2 DEF Sits
  <2>2. \A n \in DOMAIN s.tab : Front(n) # p
    BY <1>1, <1>2, NoneInSlice
  <2>3. g # p
    BY <1>2, Split
  <2>. QED
    BY <2>1, <2>2, <2>3
<1> HIDE DEF g, i
\* The deletion itself, from u, which differs from s in the table of p.
<1>4. ASSUME NEW u, Sane(u), u.disk = s.disk, u.mod \ {p} = s.mod \ {p}, p \notin u.mod,
             DOMAIN u.tab \ {p} = DOMAIN s.tab \ {p},
             \A n \in DOMAIN u.tab : n # p => u.tab[n] = s.tab[n],
             Range(u.md) = {m \in Range(s.md) : m.name \notin Held(s.tab, p) \ {p}}
                \/ Range(u.md) = {m \in Range(s.md) : m.name \notin Held(s.tab, p)}
      PROVE  PartGone(s, DeleteLeaf(u, p), p)
  <2> DEFINE d == DeleteLeaf(u, p)
  <2>1. Sound(u.tab) /\ u.mod \subseteq DOMAIN u.tab
    BY <1>4, SaneTab
  <2>2. g \in DOMAIN u.tab /\ u.tab[g] = s.tab[g]
    BY <1>3, <1>4
  <2>3. p \in Partitions(u.tab)
    BY <1>2, <1>3, <2>1, <2>2, SoundPartitions DEF Sits, g, i
  <2>4. /\ Sane(d) /\ IsReplaced(Kernel(u), Kernel(d), g, Without(u.tab[g], i))
        /\ Range(d.md) = {m \in Range(u.md) : m.name # p}
    BY <1>4, <2>3, LeafDeleted DEF g, i
  <2> HIDE DEF d
  <2>5. /\ d.disk = u.disk
        /\ DOMAIN d.tab = {n \in DOMAIN u.tab \cup {g} :
                             Front(n) = g => Last(n) \in DOMAIN Without(u.tab[g], i).parts}
        /\ \A n \in DOMAIN d.tab : d.tab[n] = IF n = g THEN Without(u.tab[g], i) ELSE u.tab[n]
        /\ d.mod = (u.mod \cup {g}) \cap DOMAIN d.tab
    BY <2>4, KernelIs DEF IsReplaced
  <2>6. DOMAIN Without(u.tab[g], i).parts = DOMAIN u.tab[g].parts \ {i}
    BY DEF Without, Restrict
  <2>7. \A n \in DOMAIN u.tab : Front(n) = g => (Last(n) \in DOMAIN u.tab[g].parts \ {i} <=> n # p)
    <3> SUFFICES ASSUME NEW n \in DOMAIN u.tab, Front(n) = g
                 PROVE  Last(n) \in DOMAIN u.tab[g].parts \ {i} <=> n # p
      OBVIOUS
    <3>1. n \in Names /\ Len(n) >= 1
      BY <2>1, GeomNames
    <3>2. n = Append(g, Last(n)) /\ p = Append(g, i)
      BY <1>2, <3>1, Split DEF g, i
    <3>3. n \notin DiskNames
      BY <2>1, <2>2, GeomFront
    <3>4. Last(n) \in DOMAIN u.tab[g].parts
      BY <2>1, <3>3, SoundGeoms DEF Slot, Sits
    <3>. QED
      BY <3>2, <3>4 DEF i
  <2>8. p \in DOMAIN u.tab => Front(p) = g
    BY DEF g
  <2>9. DOMAIN d.tab = DOMAIN s.tab \ {p}
    <3>1. Front(g) # g
      BY <2>1, <2>2, GeomNames
    <3>2. \A n : n \in DOMAIN d.tab <=> n \in DOMAIN u.tab /\ n # p
      BY <2>2, <2>5, <2>6, <2>7, <2>8, <3>1
    <3>. QED
      BY <1>4, <3>2
  <2>10. /\ \A n \in DOMAIN d.tab : d.tab[n] = IF n = g THEN Without(s.tab[g], i) ELSE s.tab[n]
         /\ d.mod = (s.mod \ {p}) \cup {g}
    BY <1>1, <1>3, <1>4, <2>2, <2>5, <2>9
  <2>11. Range(d.md) = {m \in Range(s.md) : m.name \notin Held(s.tab, p)}
    <3>1. p \in Held(s.tab, p)
      BY DEF Held
    <3>. QED
      BY <1>4, <2>4, <3>1
  <2>12. d.disk = s.disk
    BY <1>4, <2>5
  <2>. QED
    BY <2>4, <2>9, <2>10, <2>11, <2>12 DEF PartGone, d, g, i
<1>5. CASE p \notin DOMAIN s.tab
  <2>1. r = DeleteLeaf(s, p)
    BY <1>5 DEF DeletePart
  <2>2. Held(s.tab, p) \ {p} = {}
    BY <1>1, <1>5, HeldByPart
  <2>3. Range(s.md) = {m \in Range(s.md) : m.name \notin Held(s.tab, p) \ {p}}
    BY <2>2
  <2>4. p \notin s.mod
    BY <1>1, <1>5
  <2> HIDE DEF r
  <2>5. PartGone(s, r, p)
    BY <1>4, <2>1, <2>3, <2>4
  <2>. QED
    BY <2>5 DEF r
<1>6. CASE p \in DOMAIN s.tab
  <2> DEFINE b == DestroyNested(s, p)
             k == Undo(Kernel(b), p)
             u == With(b, k)
  <2>1. r = DeleteLeaf(u, p)
    BY <1>6 DEF DeletePart
  <2>2. Razed(s, b, p, Held(s.tab, p))
    BY <1>1, <1>2, <1>6, DestroyNestedIs, HeldByPart
  <2> HIDE DEF b
  <2>3. /\ Sane(b) /\ Sound(b.tab) /\ b.disk = s.disk /\ IsKernel(Kernel(b))
        /\ DOMAIN b.tab \ {p} = DOMAIN s.tab \ {p}
        /\ \A n \in DOMAIN b.tab : n # p => b.tab[n] = s.tab[n]
        /\ b.mod \ {p} = s.mod \ {p} /\ b.mod \subseteq DOMAIN b.tab
        /\ Range(b.md) = {m \in Range(s.md) : m.name \notin Held(s.tab, p)}
    BY <1>1, <1>3, <2>2, SaneTab DEF Razed
  <2>4. /\ InStep(k) /\ k.disk = s.disk /\ p \notin k.mod /\ k.mod \ {p} = s.mod \ {p}
        /\ DOMAIN k.tab \ {p} = DOMAIN s.tab \ {p}
        /\ \A n \in DOMAIN k.tab : n # p => k.tab[n] = s.tab[n]
    <3>0. InStep(Kernel(b))
      BY <2>3 DEF Sane
    <3>1. CASE p \notin DOMAIN b.tab
      <4>1. k = Kernel(b)
        BY <3>1, KernelIs DEF Undo
      <4> HIDE DEF k
      <4>. QED
        BY <2>3, <3>0, <3>1, <4>1, KernelIs
    <3>2. CASE p \in DOMAIN b.tab
      <4>1. IsUndone(Kernel(b), k, p) /\ InStep(k)
        BY <2>3, <3>0, <3>2, KernelIs, Undone, UndoneInStep
      <4> HIDE DEF k
      <4>2. \A n \in DOMAIN b.tab : Front(n) # p
        BY <1>2, <2>3, NoneInSlice
      <4>3. Stays(Kernel(b), p) = DOMAIN b.tab \ {p}
        BY <4>2, KernelIs DEF Stays
      <4>4. Back(Kernel(b), p) \subseteq {p}
        <5>1. \A n \in DOMAIN b.disk : Front(n) # p
          <6> SUFFICES ASSUME NEW n \in DOMAIN b.disk PROVE Front(n) # p
            OBVIOUS
          <6>1. Shaped(b.disk)
            BY <2>3, SaneTab
          <6>2. CASE n \in DiskNames
            <7>1. Len(Front(n)) = 0
              BY <6>2, FrontOfDisk
            <7>. QED
              BY <7>1, <1>2
          <6>3. CASE n \notin DiskNames
            BY <6>1, <6>3, <1>2, ShapedNames
          <6>. QED
            BY <6>2, <6>3
        <5>. QED
          BY <5>1, KernelIs DEF Back
      <4>5. /\ DOMAIN k.tab \ {p} = DOMAIN b.tab \ {p} /\ k.disk = b.disk
            /\ \A n \in DOMAIN k.tab : n # p => k.tab[n] = b.tab[n]
            /\ k.mod = (b.mod \ {p}) \cap DOMAIN k.tab
        BY <4>1, <4>3, <4>4, KernelIs DEF IsUndone
      <4>. QED
        BY <2>3, <4>1, <4>5
    <3>. QED
      BY <3>1, <3>2
  <2> HIDE DEF k
  <2>5. Sane(u) /\ u.md = b.md /\ u.tab = k.tab /\ u.mod = k.mod /\ u.disk = k.disk
    BY <2>3, <2>4, SaneWith
  <2> HIDE DEF u, r
  <2>6. PartGone(s, r, p)
    BY <1>4, <2>1, <2>3, <2>4, <2>5
  <2>. QED
    BY <2>6 DEF r
<1>. QED
  BY <1>5, <1>6

-----------------------------------------------------------------------------
\* gpart_destroy() of a disk's table: its partitions go with their tables.
HeldBy(tab, D) == UNION {Held(tab, p) : p \in D}
Breaking(s, g, x, D) ==
  /\ Sane(x) /\ x.disk = s.disk /\ DOMAIN x.tab = DOMAIN s.tab \ D
  /\ \A n \in DOMAIN x.tab : n # g => x.tab[n] = s.tab[n]
  /\ DOMAIN x.tab[g].parts = {j \in DOMAIN s.tab[g].parts : Append(g, j) \notin D}
  /\ x.mod \ {g} = (s.mod \ {g}) \ D
  /\ Range(x.md) = {m \in Range(s.md) : m.name \notin HeldBy(s.tab, D)}

LEMMA BreakOne ==
  ASSUME NEW s, NEW g, NEW x, NEW D, Sane(s), g \in DOMAIN s.tab, D \subseteq PartsOf(s.tab, g),
         Breaking(s, g, x, D), NEW p \in PartsOf(s.tab, g), p \notin D
  PROVE  Breaking(s, g, DeletePart(x, p), D \cup {p})
<1> DEFINE r == DeletePart(x, p)
           j == Last(p)
<1>1. /\ Sound(s.tab) /\ Sane(x) /\ Sound(x.tab) /\ x.mod \subseteq DOMAIN x.tab
      /\ DOMAIN x.tab = DOMAIN s.tab \ D
  BY SaneTab DEF Breaking
<1>2. /\ Front(p) = g /\ j \in DOMAIN s.tab[g].parts /\ p = Append(g, j) /\ p \in Partitions(s.tab)
      /\ g \in Names /\ DOMAIN s.tab[g].parts \subseteq Nat /\ Front(g) # g /\ p # g
  <2>1. /\ Front(p) = g /\ j \in DOMAIN s.tab[g].parts /\ p = Append(g, j) /\ p \in Partitions(s.tab)
    BY <1>1, PartsAreNames
  <2>. QED
    BY <1>1, <2>1, GeomNames
<1>3. g \in DOMAIN x.tab /\ j \in DOMAIN x.tab[g].parts
  <2>1. \A d \in D : Front(d) = g
    BY <1>1, PartsAreNames
  <2>. QED
    BY <1>1, <1>2, <2>1 DEF Breaking
<1>4. p \in Partitions(x.tab)
  BY <1>2, <1>3 DEF Partitions, PartsOf
<1>5. Held(x.tab, p) = Held(s.tab, p)
  <2>1. CASE p \in DOMAIN s.tab
    <3>1. p \in DOMAIN x.tab /\ x.tab[p] = s.tab[p]
      BY <1>1, <1>2, <2>1 DEF Breaking
    <3>2. PartsOf(x.tab, p) = PartsOf(s.tab, p)
      BY <3>1 DEF PartsOf
    <3>3. Held(x.tab, p) = PartsOf(x.tab, p) \cup {p}
      BY <1>1, <1>4, <3>1, HeldByPart
    <3>4. Held(s.tab, p) = PartsOf(s.tab, p) \cup {p}
      BY <1>1, <1>2, <2>1, HeldByPart
    <3>. QED
      BY <3>2, <3>3, <3>4
  <2>2. CASE p \notin DOMAIN s.tab
    <3>1. p \notin DOMAIN x.tab
      BY <1>1, <2>2
    <3>. QED
      BY <1>1, <1>2, <1>4, <2>2, <3>1, HeldByPart
  <2>. QED
    BY <2>1, <2>2
<1>6. PartGone(x, r, p)
  BY <1>1, <1>4, PartDeleted
<1> HIDE DEF r
<1>7. /\ Sane(r) /\ r.disk = x.disk /\ DOMAIN r.tab = DOMAIN x.tab \ {p}
      /\ \A n \in DOMAIN r.tab : r.tab[n] = IF n = g THEN Without(x.tab[g], j) ELSE x.tab[n]
      /\ r.mod = (x.mod \ {p}) \cup {g}
      /\ Range(r.md) = {m \in Range(x.md) : m.name \notin Held(s.tab, p)}
  BY <1>2, <1>5, <1>6 DEF PartGone
<1>8. DOMAIN r.tab = DOMAIN s.tab \ (D \cup {p})
  BY <1>1, <1>7
<1>9. r.disk = s.disk /\ \A n \in DOMAIN r.tab : n # g => r.tab[n] = s.tab[n]
  BY <1>7 DEF Breaking
<1>10. DOMAIN r.tab[g].parts = {i \in DOMAIN s.tab[g].parts : Append(g, i) \notin D \cup {p}}
  <2>1. r.tab[g] = Without(x.tab[g], j)
    BY <1>2, <1>3, <1>7
  <2>2. DOMAIN Without(x.tab[g], j).parts = DOMAIN x.tab[g].parts \ {j}
    BY DEF Without, Restrict
  <2>3. DOMAIN x.tab[g].parts = {i \in DOMAIN s.tab[g].parts : Append(g, i) \notin D}
    BY DEF Breaking
  <2>4. \A i \in DOMAIN s.tab[g].parts : Append(g, i) = p <=> i = j
    <3>1. \A i \in DOMAIN s.tab[g].parts : i \in Nat /\ Last(Append(g, i)) = i
      BY <1>2, Grown
    <3>. QED
      BY <1>2, <3>1
  <2>. QED
    BY <2>1, <2>2, <2>3, <2>4
<1>11. r.mod \ {g} = (s.mod \ {g}) \ (D \cup {p})
  BY <1>7 DEF Breaking
<1>12. Range(r.md) = {m \in Range(s.md) : m.name \notin HeldBy(s.tab, D \cup {p})}
  <2>1. HeldBy(s.tab, D \cup {p}) = HeldBy(s.tab, D) \cup Held(s.tab, p)
    BY DEF HeldBy
  <2>. QED
    BY <1>7, <2>1 DEF Breaking
<1>13. Breaking(s, g, r, D \cup {p})
  BY <1>7, <1>8, <1>9, <1>10, <1>11, <1>12 DEF Breaking
<1>. QED
  BY <1>13 DEF r

LEMMA Broken ==
  ASSUME NEW s, NEW g, Sane(s), g \in DOMAIN s.tab
  PROVE  Breaking(s, g, FoldLeft(DeletePart, s, SetToSeq(PartsOf(s.tab, g))), PartsOf(s.tab, g))
<1> DEFINE P == PartsOf(s.tab, g)
           q == SetToSeq(P)
           n == Cardinality(P)
           D(i) == {q[l] : l \in 1 .. i}
<1>1. IsFiniteSet(P)
  BY SaneTab, PartsFinite
<1>2. /\ n \in Nat /\ q \in [1 .. n -> P] /\ DOMAIN q = 1 .. n
      /\ \A i, j \in 1 .. n : q[i] = q[j] => i = j
      /\ \A x \in P : \E i \in 1 .. n : q[i] = x
  BY <1>1, SetAsSeq
<1> HIDE DEF q, n
<1>3. PICK run : IsRun(2, s, q, n, run) /\ run[n] = FoldLeft(DeletePart, s, q)
  BY <1>2, PartRuns
<1> DEFINE S == {i \in Nat : i <= n => Breaking(s, g, run[i], D(i))}
<1>4. 0 \in S
  <2>1. D(0) = {}
    OBVIOUS
  <2>2. run[0] = s
    BY <1>3 DEF IsRun
  <2>3. Breaking(s, g, s, {})
    BY DEF Breaking, HeldBy, Range
  <2>. QED
    BY <2>1, <2>2, <2>3
<1>5. ASSUME NEW i \in Nat, i \in S PROVE i + 1 \in S
  <2> SUFFICES ASSUME i + 1 <= n PROVE Breaking(s, g, run[i + 1], D(i + 1))
    OBVIOUS
  <2>1. i + 1 \in 1 .. n /\ (i + 1) - 1 = i /\ i <= n
    BY <1>2
  <2>2. Breaking(s, g, run[i], D(i))
    BY <1>5, <2>1
  <2>3. run[i + 1] = DeletePart(run[i], q[i + 1])
    BY <1>3, <2>1 DEF IsRun, FoldedBy
  <2>4. q[i + 1] \in P
    BY <1>2, <2>1
  <2>5. q[i + 1] \notin D(i)
    BY <1>2, <2>1
  <2>6. D(i + 1) = D(i) \cup {q[i + 1]} /\ D(i) \subseteq P
    BY <1>2, <2>1
  <2> HIDE DEF D
  <2>. QED
    BY <2>2, <2>3, <2>4, <2>5, <2>6, BreakOne
<1> HIDE DEF S
<1>6. n \in S
  BY <1>2, <1>4, <1>5, Induction
<1>7. Breaking(s, g, run[n], D(n))
  BY <1>2, <1>6 DEF S
<1>8. D(n) = P
  BY <1>2
<1>. QED
  BY <1>3, <1>7, <1>8 DEF q

LEMMA DestroyDiskIs ==
  ASSUME NEW s, Sane(s), NEW g, g \in DOMAIN s.tab, g \in DiskNames
  PROVE  Razed(s, DestroyWith(s, g, DeletePart), g, Held(s.tab, g))
<1> DEFINE P == PartsOf(s.tab, g)
           N == HeldBy(s.tab, P)
           x == FoldLeft(DeletePart, s, SetToSeq(P))
           r == DestroyWith(s, g, DeletePart)
<1>1. Breaking(s, g, x, P)
  BY Broken
<1>2. r = LET u == With(x, Undo(Kernel(x), g))
              d == With(u, Destroy(Kernel(u), g))
          IN Forget(d, g)
  BY DEF DestroyWith
<1> HIDE DEF x, r
<1>3. Sound(s.tab) /\ s.mod \subseteq DOMAIN s.tab /\ g \in Names /\ DOMAIN s.tab[g].parts \subseteq Nat
  BY SaneTab, GeomNames
<1>4. \A n \in DOMAIN s.tab : Front(n) = g <=> n \in P
  <2> SUFFICES ASSUME NEW n \in DOMAIN s.tab PROVE Front(n) = g <=> n \in P
    OBVIOUS
  <2>1. n \in Names /\ Len(n) >= 1
    BY <1>3, GeomNames
  <2>2. n \in P <=> Front(n) = g /\ Last(n) \in DOMAIN s.tab[g].parts
    BY <1>3, <2>1, PartsOfIs
  <2>3. ASSUME Front(n) = g PROVE Last(n) \in DOMAIN s.tab[g].parts
    <3>1. n \notin DiskNames
      BY <1>3, <2>3, GeomFront
    <3>. QED
      BY <1>3, <2>3, <3>1, SoundGeoms DEF Slot, Sits
  <2>. QED
    BY <2>2, <2>3
<1>5. Cleared(s, g, x, N)
  BY <1>1, <1>3, <1>4 DEF Breaking, Cleared
<1>6. Razed(s, r, g, N \cup {g})
  BY <1>2, <1>5, Razing
<1>7. N \cup {g} = Held(s.tab, g)
  <2>1. ASSUME NEW p \in P PROVE Held(s.tab, p) \subseteq Held(s.tab, g)
    <3>1. p \in Partitions(s.tab) /\ Front(p) = g
      BY <1>3, PartsAreNames
    <3>2. ASSUME NEW q \in Held(s.tab, p), q # p PROVE q \in Partitions(s.tab) /\ Front(Front(q)) = g
      <4>1. p \in DOMAIN s.tab /\ q \in PartsOf(s.tab, p)
        BY <1>3, <3>1, <3>2, HeldByPart
      <4>. QED
        BY <1>3, <3>1, <4>1, PartsAreNames
    <3>. QED
      BY <3>1, <3>2 DEF Held
  <2>2. ASSUME NEW q \in Held(s.tab, g), q # g PROVE q \in N
    <3>1. q \in Partitions(s.tab) /\ (Front(q) = g \/ Front(Front(q)) = g)
      BY <2>2 DEF Held
    <3>2. q \in Names /\ Sits(s.tab, q) /\ Len(q) >= 2 /\ Len(q) >= 1
      <4>1. q \in Names /\ Sits(s.tab, q) /\ Len(q) >= 2
        BY <1>3, <3>1, SoundPartitions
      <4>2. \A y \in Nat : y >= 2 => y >= 1
        OBVIOUS
      <4>. QED
        BY <4>1, <4>2 DEF Names
    <3>3. CASE Front(q) = g
      <4>1. q \in P
        BY <1>3, <3>2, <3>3, PartsOfIs DEF Sits
      <4>2. q \in Held(s.tab, q)
        BY DEF Held
      <4>. QED
        BY <4>1, <4>2 DEF HeldBy
    <3>4. CASE Front(Front(q)) = g
      <4>1. Front(q) \in DOMAIN s.tab
        BY <3>2 DEF Sits
      <4>2. Front(q) \in P
        BY <1>4, <3>4, <4>1
      <4>3. q \in Held(s.tab, Front(q))
        BY <3>1 DEF Held
      <4>. QED
        BY <4>2, <4>3 DEF HeldBy
    <3>. QED
      BY <3>1, <3>3, <3>4
  <2>3. g \in Held(s.tab, g)
    BY DEF Held
  <2>. QED
    BY <2>1, <2>2, <2>3 DEF HeldBy
<1>. QED
  BY <1>6, <1>7 DEF r

LEMMA DestroyGeomIs ==
  ASSUME NEW s, Sane(s), NEW g, g \in DOMAIN s.tab
  PROVE  Razed(s, DestroyGeom(s, g), g, Held(s.tab, g))
<1>1. Sound(s.tab)
  BY SaneTab
<1>2. CASE g \in DiskNames
  BY <1>2, DestroyDiskIs, DiskNamed DEF DestroyGeom
<1>3. CASE g \notin DiskNames
  <2>1. DestroyGeom(s, g) = DestroyNested(s, g)
    <3>1. Len(g) # 1
      BY <1>1, <1>3, GeomNames
    <3>. QED
      BY <3>1 DEF DestroyGeom, IsDisk
  <2>2. g \in Partitions(s.tab)
    BY <1>1, <1>3, SoundSits DEF Providers, DiskNames
  <2>3. Held(s.tab, g) = PartsOf(s.tab, g) \cup {g}
    BY <1>1, <2>2, HeldByPart
  <2>. QED
    BY <1>3, <2>1, <2>3, DestroyNestedIs
<1>. QED
  BY <1>2, <1>3

-----------------------------------------------------------------------------
\* What the list says: of what is there to be mounted, formatted or booted from.
Labels == {Label} \cap {fstab[j].name : j \in DOMAIN fstab}
EntryOK(m, tab) ==
  /\ m.name \in DiskNames \cup Partitions(tab) \cup Labels
  /\ m.mount # NoMount => m.name \in Partitions(tab) \cup Labels
  /\ m.newfs # "" =>
       m.name \in Partitions(tab) /\ (Part(tab, m.name).type = m.newfs \/ m.cancelled)

\* Boot code is written with the changes of the table it is for, and looked for
\* then where a destroyed table is still in the way.
CodeDue(m, tab, mod) ==
  m.bootcode =>
    /\ m.name \in DOMAIN tab => m.name \in mod
    /\ m.name \in Partitions(tab) /\ (m.name \in DOMAIN tab => Zombie(tab, m.name)) =>
         Front(m.name) \in mod

\* A table without changes that is in a partition is in a slice.
InSlices(tab, mod, but) ==
  \A n \in DOMAIN tab \ mod : n \notin DiskNames /\ n # but => Part(tab, n).type = "freebsd"

\* All of it, and all but for one name.
GoodBut(s, name) ==
  /\ Sane(s) /\ Laid(s.tab) /\ InSlices(s.tab, s.mod, name)
  /\ \A m \in Range(s.md) : m.name # name => EntryOK(m, s.tab) /\ CodeDue(m, s.tab, s.mod)
Good(s) ==
  /\ Sane(s) /\ Laid(s.tab) /\ \A name : InSlices(s.tab, s.mod, name)
  /\ \A m \in Range(s.md) : EntryOK(m, s.tab) /\ CodeDue(m, s.tab, s.mod)

LEMMA GoodIsGoodBut ==
  ASSUME NEW s, Good(s), NEW name
  PROVE  GoodBut(s, name)
BY DEF Good, GoodBut

LEMMA PartitionIs ==
  ASSUME NEW tab, Sound(tab), NEW q
  PROVE  q \in Partitions(tab) <=> q \in Names /\ Len(q) >= 2 /\ Sits(tab, q)
BY SoundPartitions

\* Partitions stay within their table and apart when one table changes, and
\* what is in partitions keeps its room.
LEMMA StillLaid ==
  ASSUME NEW tab, Laid(tab), NEW after, Sound(after), NEW g,
         \A n \in DOMAIN after : n # g => n \in DOMAIN tab /\ after[n] = tab[n],
         g \in DOMAIN after => LaidOut(after[g].parts, FirstOf(g), LastOf(after, g)),
         \A n \in DOMAIN after :
           n \notin DiskNames /\ Front(n) = g /\ n # g => Part(after, n).size = Part(tab, n).size
  PROVE  Laid(after)
<1> SUFFICES ASSUME NEW n \in DOMAIN after
             PROVE  LaidOut(after[n].parts, FirstOf(n), LastOf(after, n))
  BY DEF Laid
<1>1. CASE n = g
  BY <1>1
<1>2. CASE n # g
  <2>1. n \in DOMAIN tab /\ after[n] = tab[n] /\ LaidOut(tab[n].parts, FirstOf(n), LastOf(tab, n))
    BY <1>2 DEF Laid
  <2>2. LastOf(after, n) = LastOf(tab, n)
    <3>1. CASE n \in DiskNames
      BY <3>1, DiskNamed DEF LastOf, IsDisk
    <3>2. CASE n \notin DiskNames
      <4>1. Part(after, n).size = Part(tab, n).size
        <5>1. CASE Front(n) = g
          BY <1>2, <3>2, <5>1
        <5>2. CASE Front(n) # g
          <6>1. Front(n) \in DOMAIN after
            BY <3>2, SoundGeoms DEF Slot, Sits
          <6> QED
            BY <5>2, <6>1 DEF Part
        <5> QED
          BY <5>1, <5>2
      <4>2. ~IsDisk(n)
        BY <3>2, SoundGeoms DEF Slot, IsDisk
      <4> QED
        BY <4>1, <4>2 DEF LastOf
    <3> QED
      BY <3>1, <3>2
  <2> QED
    BY <2>1, <2>2
<1> QED
  BY <1>1, <1>2

LEMMA EmptyLaidOut ==
  ASSUME NEW parts, DOMAIN parts = {}, NEW first, NEW last
  PROVE  LaidOut(parts, first, last)
BY DEF LaidOut

LEMMA RazedGood ==
  ASSUME NEW s, NEW r, NEW g, GoodBut(s, g), g \in DOMAIN s.tab, Razed(s, r, g, Held(s.tab, g))
  PROVE  Good(r)
<1>1. /\ Sane(s) /\ Sane(r) /\ Sound(s.tab) /\ Sound(r.tab) /\ s.mod \subseteq DOMAIN s.tab
      /\ DOMAIN r.tab \ {g} = {n \in DOMAIN s.tab : n # g /\ Front(n) # g}
      /\ \A n \in DOMAIN r.tab : n # g => r.tab[n] = s.tab[n]
      /\ g \in DOMAIN r.tab => r.tab[g] = Table(None) /\ g \in r.mod
      /\ r.mod \ {g} = (s.mod \ {g}) \cap DOMAIN r.tab
      /\ Range(r.md) = {m \in Range(s.md) : m.name \notin Held(s.tab, g)}
  BY SaneTab DEF Razed, GoodBut
<1>2. ASSUME NEW q \in Partitions(s.tab), Front(q) # g, Front(Front(q)) # g
      PROVE  q \in Partitions(r.tab) /\ Part(r.tab, q) = Part(s.tab, q)
  <2>1. q \in Names /\ Len(q) >= 2 /\ Sits(s.tab, q)
    BY <1>1, PartitionIs
  <2>2. Front(q) \in DOMAIN r.tab /\ r.tab[Front(q)] = s.tab[Front(q)]
    BY <1>1, <1>2, <2>1 DEF Sits
  <2>3. Sits(r.tab, q)
    BY <2>1, <2>2 DEF Sits
  <2>. QED
    BY <1>1, <2>1, <2>2, <2>3, PartitionIs DEF Part
<1>3. ASSUME NEW m \in Range(r.md) PROVE EntryOK(m, r.tab) /\ CodeDue(m, r.tab, r.mod)
  <2>1. m \in Range(s.md) /\ m.name \notin Held(s.tab, g) /\ m.name # g
    BY <1>1, <1>3 DEF Held
  <2>2. EntryOK(m, s.tab) /\ CodeDue(m, s.tab, s.mod)
    BY <2>1 DEF GoodBut
  <2>3. m.name \in Partitions(s.tab) =>
          m.name \in Partitions(r.tab) /\ Part(r.tab, m.name) = Part(s.tab, m.name)
    BY <1>2, <2>1 DEF Held
  <2>4. Zombie(r.tab, m.name) => Zombie(s.tab, m.name)
    BY <1>1, <2>1 DEF Zombie
  <2>5. EntryOK(m, r.tab)
    BY <2>2, <2>3 DEF EntryOK
  <2>6. m.bootcode /\ m.name \in DOMAIN r.tab => m.name \in r.mod
    BY <1>1, <2>1, <2>2 DEF CodeDue
  <2>7. ASSUME m.bootcode, m.name \in Partitions(r.tab), m.name \in DOMAIN r.tab => Zombie(r.tab, m.name)
        PROVE  Front(m.name) \in r.mod
    <3>1. m.name \in Names /\ Len(m.name) >= 2 /\ Sits(r.tab, m.name)
      BY <1>1, <2>7, PartitionIs
    <3>2. Front(m.name) \in DOMAIN r.tab /\ Front(m.name) # g
      BY <1>1, <3>1, EmptyTable DEF Sits
    <3>3. Sits(s.tab, m.name)
      BY <1>1, <3>1, <3>2 DEF Sits
    <3>4. m.name \in Partitions(s.tab)
      BY <1>1, <3>1, <3>3, PartitionIs
    <3>5. m.name \in DOMAIN s.tab => Zombie(s.tab, m.name)
      BY <1>1, <2>1, <2>4, <2>7, <3>2
    <3>6. Front(m.name) \in s.mod
      BY <2>2, <2>7, <3>4, <3>5 DEF CodeDue
    <3>. QED
      BY <1>1, <3>2, <3>6
  <2>. QED
    BY <2>5, <2>6, <2>7 DEF CodeDue
<1>4. ASSUME NEW n \in DOMAIN r.tab \ r.mod, n \notin DiskNames PROVE Part(r.tab, n).type = "freebsd"
  <2>1. n \in DOMAIN s.tab \ s.mod /\ n # g /\ Front(n) # g
    BY <1>1, <1>4
  <2>2. Part(s.tab, n).type = "freebsd"
    BY <1>4, <2>1 DEF GoodBut, InSlices
  <2>3. Front(n) \in DOMAIN r.tab
    BY <1>1, <1>4, GeomNames
  <2>4. Part(r.tab, n) = Part(s.tab, n)
    BY <1>1, <2>1, <2>3 DEF Part
  <2>. QED
    BY <2>2, <2>4
<1>5. Laid(r.tab)
  <2>1. g \in DOMAIN r.tab => LaidOut(r.tab[g].parts, FirstOf(g), LastOf(r.tab, g))
    BY <1>1, EmptyTable, EmptyLaidOut
  <2>2. Laid(s.tab)
    BY DEF GoodBut
  <2>3. \A n \in DOMAIN r.tab : n # g => n \in DOMAIN s.tab /\ Front(n) # g
    BY <1>1
  <2>. QED
    BY <1>1, <2>1, <2>2, <2>3, StillLaid
<1>. QED
  BY <1>1, <1>3, <1>4, <1>5 DEF Good, InSlices

LEMMA PartGoneGood ==
  ASSUME NEW s, NEW r, NEW p \in Partitions(s.tab), Good(s), PartGone(s, r, p)
  PROVE  Good(r)
<1> DEFINE g == Front(p)
<1>1. /\ Sane(s) /\ Sane(r) /\ Sound(s.tab) /\ Sound(r.tab) /\ s.mod \subseteq DOMAIN s.tab
      /\ DOMAIN r.tab = DOMAIN s.tab \ {p}
      /\ \A n \in DOMAIN r.tab : r.tab[n] = IF n = g THEN Without(s.tab[g], Last(p)) ELSE s.tab[n]
      /\ r.mod = (s.mod \ {p}) \cup {g}
      /\ Range(r.md) = {m \in Range(s.md) : m.name \notin Held(s.tab, p)}
  BY SaneTab DEF PartGone, Good
<1>2. p \in Names /\ Len(p) >= 2 /\ Sits(s.tab, p) /\ p = Append(g, Last(p)) /\ g # p
  <2>1. p \in Names /\ Len(p) >= 2 /\ Sits(s.tab, p)
    BY <1>1, PartitionIs
  <2>2. Len(p) >= 1
    <3>1. \A x \in Nat : x >= 2 => x >= 1
      OBVIOUS
    <3>. QED
      BY <2>1, <3>1 DEF Names
  <2>. QED
    BY <2>1, <2>2, Split
<1> HIDE DEF g
<1>3. /\ DOMAIN Without(s.tab[g], Last(p)).parts = DOMAIN s.tab[g].parts \ {Last(p)}
      /\ \A j \in DOMAIN s.tab[g].parts : j # Last(p) =>
           Without(s.tab[g], Last(p)).parts[j] = s.tab[g].parts[j]
      /\ Without(s.tab[g], Last(p)).scheme = s.tab[g].scheme
  BY DEF Without, Restrict
<1>4. ASSUME NEW q \in Names, Len(q) >= 2, Sits(s.tab, q), q # p, Front(q) # p
      PROVE  Sits(r.tab, q) /\ Part(r.tab, q) = Part(s.tab, q)
  <2>1. Front(q) \in DOMAIN r.tab
    BY <1>1, <1>4 DEF Sits
  <2>2. CASE Front(q) # g
    BY <1>1, <1>4, <2>1, <2>2 DEF Sits, Part
  <2>3. CASE Front(q) = g
    <3>1. Len(q) >= 1
      <4>1. \A x \in Nat : x >= 2 => x >= 1
        OBVIOUS
      <4>. QED
        BY <1>4, <4>1 DEF Names
    <3>2. Last(q) # Last(p)
      BY <1>2, <1>4, <2>3, <3>1, Split
    <3>. QED
      BY <1>1, <1>3, <1>4, <2>1, <2>3, <3>2 DEF Sits, Part
  <2>. QED
    BY <2>2, <2>3
<1>5. ASSUME NEW m \in Range(r.md) PROVE EntryOK(m, r.tab) /\ CodeDue(m, r.tab, r.mod)
  <2>1. m \in Range(s.md) /\ m.name \notin Held(s.tab, p) /\ m.name # p
    BY <1>1, <1>5 DEF Held
  <2>2. EntryOK(m, s.tab) /\ CodeDue(m, s.tab, s.mod)
    BY <2>1 DEF Good
  <2>3. ASSUME m.name \in Partitions(s.tab)
        PROVE  m.name \in Partitions(r.tab) /\ Part(r.tab, m.name) = Part(s.tab, m.name)
    <3>1. m.name \in Names /\ Len(m.name) >= 2 /\ Sits(s.tab, m.name)
      BY <1>1, <2>3, PartitionIs
    <3>2. Front(m.name) # p
      BY <2>1, <2>3 DEF Held
    <3>3. Sits(r.tab, m.name) /\ Part(r.tab, m.name) = Part(s.tab, m.name)
      BY <1>4, <2>1, <3>1, <3>2
    <3>. QED
      BY <1>1, <3>1, <3>3, PartitionIs
  <2>4. Zombie(r.tab, m.name) => Zombie(s.tab, m.name)
    BY <1>1, <1>3 DEF Zombie
  <2>5. EntryOK(m, r.tab)
    BY <2>2, <2>3 DEF EntryOK
  <2>6. m.bootcode /\ m.name \in DOMAIN r.tab => m.name \in r.mod
    BY <1>1, <2>1, <2>2 DEF CodeDue
  <2>7. ASSUME m.bootcode, m.name \in Partitions(r.tab), m.name \in DOMAIN r.tab => Zombie(r.tab, m.name)
        PROVE  Front(m.name) \in r.mod
    <3>1. m.name \in Names /\ Len(m.name) >= 2 /\ Sits(r.tab, m.name)
      BY <1>1, <2>7, PartitionIs
    <3>2. Front(m.name) \in DOMAIN r.tab
      BY <3>1 DEF Sits
    <3>3. Sits(s.tab, m.name)
      BY <1>1, <1>3, <3>1, <3>2 DEF Sits
    <3>4. m.name \in Partitions(s.tab)
      BY <1>1, <3>1, <3>3, PartitionIs
    <3>5. m.name \in DOMAIN s.tab => Zombie(s.tab, m.name)
      BY <1>1, <2>1, <2>4, <2>7
    <3>6. Front(m.name) \in s.mod
      BY <2>2, <2>7, <3>4, <3>5 DEF CodeDue
    <3>. QED
      BY <1>1, <3>2, <3>6
  <2>. QED
    BY <2>5, <2>6, <2>7 DEF CodeDue
<1>6. ASSUME NEW n \in DOMAIN r.tab \ r.mod, n \notin DiskNames PROVE Part(r.tab, n).type = "freebsd"
  <2>1. n \in DOMAIN s.tab \ s.mod /\ n # p
    BY <1>1, <1>6
  <2>2. Part(s.tab, n).type = "freebsd"
    BY <1>6, <2>1 DEF Good, InSlices
  <2>3. n \in Names /\ Len(n) = 2 /\ Sits(s.tab, n) /\ Len(n) >= 2 /\ Front(n) \in DOMAIN r.tab
    <3>1. n \in Names /\ Len(n) = 2 /\ Sits(s.tab, n)
      BY <1>1, <1>6, <2>1, SoundGeoms DEF Slot
    <3>2. Front(n) \in DOMAIN r.tab
      BY <1>1, <1>6, GeomNames
    <3>. QED
      BY <3>1, <3>2
  <2>4. Part(r.tab, n) = Part(s.tab, n)
    BY <1>1, <1>4, <2>1, <2>3
  <2>. QED
    BY <2>2, <2>4
<1>7. Laid(r.tab)
  <2>1. Laid(s.tab)
    BY DEF Good
  <2>2. \A n \in DOMAIN r.tab : n \notin DiskNames => Part(r.tab, n) = Part(s.tab, n)
    <3> SUFFICES ASSUME NEW n \in DOMAIN r.tab, n \notin DiskNames
                 PROVE  Part(r.tab, n) = Part(s.tab, n)
      OBVIOUS
    <3>1. n \in DOMAIN s.tab /\ n # p /\ Front(n) \in DOMAIN r.tab
      BY <1>1, GeomNames
    <3>2. n \in Names /\ Len(n) = 2 /\ Sits(s.tab, n) /\ Front(n) # p
      BY <1>1, <3>1, SoundGeoms DEF Slot
    <3>3. Len(n) >= 2
      BY <3>2
    <3> QED
      BY <1>4, <3>1, <3>2, <3>3
  <2>3. g \in DOMAIN s.tab /\ LaidOut(s.tab[g].parts, FirstOf(g), LastOf(s.tab, g))
    BY <1>2, <2>1 DEF Laid, Sits, g
  <2>4. g \in DOMAIN r.tab /\ r.tab[g] = Without(s.tab[g], Last(p))
    BY <1>1, <1>2, <2>3
  <2>5. LastOf(r.tab, g) = LastOf(s.tab, g)
    <3>1. CASE g \in DiskNames
      BY <3>1, DiskNamed DEF LastOf, IsDisk
    <3>2. CASE g \notin DiskNames
      BY <2>2, <2>4, <3>2 DEF LastOf
    <3> QED
      BY <3>1, <3>2
  <2>6. LaidOut(r.tab[g].parts, FirstOf(g), LastOf(r.tab, g))
    BY <1>3, <2>3, <2>4, <2>5 DEF LaidOut
  <2>. QED
    BY <1>1, <2>1, <2>2, <2>6, StillLaid
<1>. QED
  BY <1>1, <1>5, <1>6, <1>7 DEF Good, InSlices

LEMMA AllBut ==
  ASSUME NEW s, \A name : GoodBut(s, name)
  PROVE  Good(s)
<1>1. GoodBut(s, 1) /\ GoodBut(s, 2) /\ 1 # 2
  OBVIOUS
<1>2. Sane(s) /\ Laid(s.tab)
  BY <1>1 DEF GoodBut
<1>3. ASSUME NEW m \in Range(s.md) PROVE EntryOK(m, s.tab) /\ CodeDue(m, s.tab, s.mod)
  <2>1. m.name # 1 \/ m.name # 2
    BY <1>1
  <2>. QED
    BY <1>1, <2>1 DEF GoodBut
<1>4. ASSUME NEW name PROVE InSlices(s.tab, s.mod, name)
  <2>1. \A n : n # 1 \/ n # 2
    BY <1>1
  <2>. QED
    BY <1>1, <2>1 DEF GoodBut, InSlices
<1>. QED
  BY <1>2, <1>3, <1>4 DEF Good

\* A table replaced by one that keeps the partitions and their types.
Fits(tab, g, t) ==
  /\ LaidOut(t.parts, FirstOf(g), LastOf(tab, g))
  /\ g \in DOMAIN tab => \A i \in DOMAIN tab[g].parts : t.parts[i].size = tab[g].parts[i].size
LEMMA ReplacedGood ==
  ASSUME NEW s, NEW r, NEW g, NEW t, NEW but, GoodBut(s, but), Sane(r),
         IsReplaced(Kernel(s), Kernel(r), g, t), t.scheme # None, Fits(s.tab, g, t),
         g \in DOMAIN s.tab => \A i \in DOMAIN s.tab[g].parts :
           /\ i \in DOMAIN t.parts
           /\ Append(g, i) # but => t.parts[i].type = s.tab[g].parts[i].type,
         Range(r.md) = Range(s.md)
  PROVE  /\ GoodBut(r, but) /\ DOMAIN r.tab = DOMAIN s.tab \cup {g}
         /\ \A n \in DOMAIN r.tab : r.tab[n] = IF n = g THEN t ELSE s.tab[n]
         /\ r.mod = s.mod \cup {g} /\ r.disk = s.disk
         /\ \A q \in Partitions(s.tab) :
              /\ q \in Partitions(r.tab)
              /\ q # but => Part(r.tab, q).type = Part(s.tab, q).type
              /\ Front(q) # g => Part(r.tab, q) = Part(s.tab, q)
         /\ \A q \in Partitions(r.tab) : Front(q) # g => q \in Partitions(s.tab)
<1>1. /\ Sane(s) /\ Sane(r) /\ Sound(s.tab) /\ Sound(r.tab) /\ s.mod \subseteq DOMAIN s.tab
      /\ DOMAIN r.tab = {n \in DOMAIN s.tab \cup {g} : Front(n) = g => Last(n) \in DOMAIN t.parts}
      /\ \A n \in DOMAIN r.tab : r.tab[n] = IF n = g THEN t ELSE s.tab[n]
      /\ r.mod = (s.mod \cup {g}) \cap DOMAIN r.tab /\ r.disk = s.disk
      /\ g \in DOMAIN r.tab
  BY SaneTab, KernelIs DEF IsReplaced, GoodBut
<1>2. DOMAIN r.tab = DOMAIN s.tab \cup {g}
  <2> SUFFICES ASSUME NEW n \in DOMAIN s.tab, Front(n) = g PROVE Last(n) \in DOMAIN t.parts
    BY <1>1
  <2>1. g \in DOMAIN r.tab
    BY <1>1
  <2>2. n \notin DiskNames
    BY <1>1, <2>1, GeomFront
  <2>3. g \in DOMAIN s.tab /\ Last(n) \in DOMAIN s.tab[g].parts
    BY <1>1, <2>2, SoundGeoms DEF Slot, Sits
  <2>. QED
    BY <2>3
<1>3. r.mod = s.mod \cup {g}
  BY <1>1, <1>2
<1>4. ASSUME NEW q \in Partitions(s.tab)
      PROVE  /\ q \in Partitions(r.tab)
             /\ q # but => Part(r.tab, q).type = Part(s.tab, q).type
             /\ Front(q) # g => Part(r.tab, q) = Part(s.tab, q)
  <2>1. q \in Names /\ Len(q) >= 2 /\ Sits(s.tab, q)
    BY <1>1, PartitionIs
  <2>2. q = Append(Front(q), Last(q))
    <3>1. \A x \in Nat : x >= 2 => x >= 1
      OBVIOUS
    <3>2. Len(q) >= 1
      BY <2>1, <3>1 DEF Names
    <3>. QED
      BY <2>1, <3>2, Split
  <2>3. CASE Front(q) # g
    <3>1. Sits(r.tab, q) /\ Part(r.tab, q) = Part(s.tab, q)
      BY <1>1, <1>2, <2>1, <2>3 DEF Sits, Part
    <3>. QED
      BY <1>1, <2>1, <2>3, <3>1, PartitionIs
  <2>4. CASE Front(q) = g
    <3>1. Sits(r.tab, q) /\ (q # but => Part(r.tab, q).type = Part(s.tab, q).type)
      BY <1>1, <1>2, <2>1, <2>2, <2>4 DEF Sits, Part
    <3>. QED
      BY <1>1, <2>1, <2>4, <3>1, PartitionIs
  <2>. QED
    BY <2>3, <2>4
<1>5. ASSUME NEW q \in Partitions(r.tab), Front(q) # g PROVE q \in Partitions(s.tab)
  <2>1. q \in Names /\ Len(q) >= 2 /\ Sits(r.tab, q)
    BY <1>1, PartitionIs
  <2>2. Sits(s.tab, q)
    BY <1>1, <1>2, <1>5, <2>1 DEF Sits
  <2>. QED
    BY <1>1, <2>1, <2>2, PartitionIs
<1>6. ASSUME NEW m \in Range(r.md), m.name # but PROVE EntryOK(m, r.tab) /\ CodeDue(m, r.tab, r.mod)
  <2>1. EntryOK(m, s.tab) /\ CodeDue(m, s.tab, s.mod)
    BY <1>6 DEF GoodBut
  <2>2. m.name \in Partitions(s.tab) =>
          m.name \in Partitions(r.tab) /\ Part(r.tab, m.name).type = Part(s.tab, m.name).type
    BY <1>4, <1>6
  <2>3. Zombie(r.tab, m.name) => Zombie(s.tab, m.name)
    BY <1>1, <1>2 DEF Zombie
  <2>4. EntryOK(m, r.tab)
    BY <2>1, <2>2 DEF EntryOK
  <2>5. CodeDue(m, r.tab, r.mod)
    <3>1. m.bootcode /\ m.name \in DOMAIN r.tab => m.name \in r.mod
      BY <1>2, <1>3, <2>1 DEF CodeDue
    <3>2. ASSUME m.bootcode, m.name \in Partitions(r.tab), m.name \in DOMAIN r.tab => Zombie(r.tab, m.name)
          PROVE  Front(m.name) \in r.mod
      BY <1>2, <1>3, <1>5, <2>1, <2>3, <3>2 DEF CodeDue
    <3>. QED
      BY <3>1, <3>2 DEF CodeDue
  <2>. QED
    BY <2>4, <2>5
<1>7. ASSUME NEW n \in DOMAIN r.tab \ r.mod, n \notin DiskNames, n # but
      PROVE  Part(r.tab, n).type = "freebsd"
  <2>1. n \in DOMAIN s.tab \ s.mod /\ n # g
    BY <1>2, <1>3, <1>7
  <2>2. Part(s.tab, n).type = "freebsd"
    BY <1>7, <2>1 DEF GoodBut, InSlices
  <2>3. n \in Partitions(s.tab)
    BY <1>1, <1>7, <2>1, SoundSits DEF Providers, DiskNames
  <2>. QED
    BY <1>4, <1>7, <2>2, <2>3
<1>8. Laid(r.tab)
  <2>1. Laid(s.tab) /\ r.tab[g] = t
    BY <1>1 DEF GoodBut
  <2>2. \A n \in DOMAIN r.tab : n \notin DiskNames => Part(r.tab, n).size = Part(s.tab, n).size
    <3> SUFFICES ASSUME NEW n \in DOMAIN r.tab, n \notin DiskNames
                 PROVE  Part(r.tab, n).size = Part(s.tab, n).size
      OBVIOUS
    <3>1. Sits(r.tab, n)
      BY <1>1, SoundGeoms DEF Slot
    <3>2. CASE Front(n) # g
      BY <1>1, <3>1, <3>2 DEF Sits, Part
    <3>3. CASE Front(n) = g
      <4>1. n # g /\ n \in DOMAIN s.tab
        BY <1>1, <1>2, <3>3, GeomNames
      <4>2. Sits(s.tab, n)
        BY <1>1, <4>1, SoundGeoms DEF Slot
      <4> QED
        BY <2>1, <3>3, <4>2 DEF Sits, Part, Fits
    <3> QED
      BY <3>2, <3>3
  <2>3. LastOf(r.tab, g) = LastOf(s.tab, g)
    <3>1. CASE g \in DiskNames
      BY <3>1, DiskNamed DEF LastOf, IsDisk
    <3>2. CASE g \notin DiskNames
      BY <1>1, <2>2, <3>2 DEF LastOf
    <3> QED
      BY <3>1, <3>2
  <2>4. LaidOut(r.tab[g].parts, FirstOf(g), LastOf(r.tab, g))
    BY <2>1, <2>3 DEF Fits
  <2>. QED
    BY <1>1, <1>2, <2>1, <2>2, <2>4, StillLaid
<1>. QED
  BY <1>1, <1>2, <1>3, <1>4, <1>5, <1>6, <1>7, <1>8 DEF GoodBut, InSlices

LEMMA SanePut ==
  ASSUME NEW s, Sane(s), NEW m, IsEntry(m), m.name # Label
  PROVE  LET md == Put(s.md, m)
         IN /\ IsList(md) /\ Once(md)
            /\ Range(md) = {m} \cup {e \in Range(s.md) : e.name # m.name}
            /\ Sane([s EXCEPT !.md = md])
            /\ Kernel([s EXCEPT !.md = md]) = Kernel(s) /\ [s EXCEPT !.md = md].md = md
            /\ [s EXCEPT !.md = md].tab = s.tab /\ [s EXCEPT !.md = md].mod = s.mod
            /\ [s EXCEPT !.md = md].disk = s.disk
<1> DEFINE md == Put(s.md, m)
<1>1. IsList(s.md) /\ Once(s.md) /\ IsStore(s) /\ InStep(Kernel(s))
  BY DEF Sane
<1>2. IsList(md) /\ Once(md) /\ Range(md) = {m} \cup {e \in Range(s.md) : e.name # m.name}
  BY <1>1, WithPut
<1> HIDE DEF md
<1>3. /\ IsStore([s EXCEPT !.md = md]) /\ Kernel([s EXCEPT !.md = md]) = Kernel(s)
      /\ [s EXCEPT !.md = md].md = md /\ [s EXCEPT !.md = md].tab = s.tab
      /\ [s EXCEPT !.md = md].mod = s.mod /\ [s EXCEPT !.md = md].disk = s.disk
  BY <1>1, ListIs
<1>4. Sane([s EXCEPT !.md = md])
  BY <1>1, <1>2, <1>3 DEF Sane
<1>. QED
  BY <1>2, <1>3, <1>4 DEF md

\* An entry put in the list.
LEMMA PutGood ==
  ASSUME NEW s, NEW r, NEW m, GoodBut(s, m.name), Sane(r), r.tab = s.tab, r.mod = s.mod,
         Range(r.md) = {m} \cup {e \in Range(s.md) : e.name # m.name}
  PROVE  /\ GoodBut(r, m.name)
         /\ EntryOK(m, s.tab) /\ CodeDue(m, s.tab, s.mod) /\ (\A name : InSlices(s.tab, s.mod, name))
              => Good(r)
BY DEF GoodBut, Good

LEMMA WithCode ==
  ASSUME NEW m, IsEntry(m), NEW v
  PROVE  LET e == [m EXCEPT !.bootcode = v]
         IN /\ IsEntry(e) /\ e.name = m.name /\ e.mount = m.mount /\ e.newfs = m.newfs
            /\ e.cancelled = m.cancelled /\ e.bootcode = v
<1>1. m = [name |-> m.name, mount |-> m.mount, fs |-> m.fs, newfs |-> m.newfs,
           cancelled |-> m.cancelled, bootcode |-> m.bootcode]
  BY DEF IsEntry
<1>2. [m EXCEPT !.bootcode = v]
        = [name |-> m.name, mount |-> m.mount, fs |-> m.fs, newfs |-> m.newfs,
           cancelled |-> m.cancelled, bootcode |-> v]
  BY <1>1
<1>. QED
  BY <1>2 DEF IsEntry

LEMMA PartitionGood ==
  ASSUME NEW s, Good(s), NEW g, NEW scheme \in Schemes, Seat(s.tab, g, Table(scheme)),
         g \in DOMAIN s.tab => Zombie(s.tab, g)
  PROVE  LET r == Partition(s, g, scheme)
         IN /\ Good(r) /\ r.disk = s.disk /\ DOMAIN r.tab = DOMAIN s.tab \cup {g}
            /\ \A n \in DOMAIN r.tab : r.tab[n] = IF n = g THEN Table(scheme) ELSE s.tab[n]
            /\ \A q \in Partitions(s.tab) : q \in Partitions(r.tab)
<1> DEFINE k == Kernel(s)
           c == Create(k, g, scheme)
           w == With(s, c)
           old == Metadata(w.md, g)
           e == [old EXCEPT !.bootcode = TRUE]
           r == Partition(s, g, scheme)
<1>1. Sane(s) /\ Sound(s.tab) /\ IsKernel(k) /\ InStep(k) /\ k.tab = s.tab
  BY SaneTab, KernelIs DEF Good, Sane
<1>2. IsReplaced(k, c, g, Table(scheme))
  <2> HIDE DEF k
  <2>. QED
    BY <1>1, Created
<1>3. InStep(c)
  BY <1>1, <1>2, ReplacedInStep
<1> HIDE DEF c
<1>4. Sane(w) /\ Kernel(w) = c /\ w.md = s.md
  BY <1>1, <1>3, SaneWith
<1> HIDE DEF w
<1>5. /\ Table(scheme).scheme = scheme /\ scheme # None /\ None \notin Schemes
      /\ DOMAIN Table(scheme).parts = {}
  BY DEF Table, None, Schemes
<1>6. g \in DOMAIN s.tab => DOMAIN s.tab[g].parts = {}
  BY <1>1, SoundGeoms, TableParts DEF Zombie
<1>7. \A but : GoodBut(s, but)
  BY GoodIsGoodBut
<1>8. ASSUME NEW but
      PROVE  /\ GoodBut(w, but) /\ DOMAIN w.tab = DOMAIN s.tab \cup {g}
             /\ \A n \in DOMAIN w.tab : w.tab[n] = IF n = g THEN Table(scheme) ELSE s.tab[n]
             /\ w.mod = s.mod \cup {g} /\ w.disk = s.disk
             /\ \A q \in Partitions(s.tab) :
                  /\ q \in Partitions(w.tab)
                  /\ q # but => Part(w.tab, q).type = Part(s.tab, q).type
                  /\ Front(q) # g => Part(w.tab, q) = Part(s.tab, q)
             /\ \A q \in Partitions(w.tab) : Front(q) # g => q \in Partitions(s.tab)
  <2>1. g \in DOMAIN s.tab => \A i \in DOMAIN s.tab[g].parts :
           /\ i \in DOMAIN Table(scheme).parts
           /\ Append(g, i) # but => Table(scheme).parts[i].type = s.tab[g].parts[i].type
    BY <1>6
  <2>2. IsReplaced(Kernel(s), Kernel(w), g, Table(scheme)) /\ Range(w.md) = Range(s.md)
    BY <1>2, <1>4
  <2>3. GoodBut(s, but) /\ Table(scheme).scheme # None /\ Fits(s.tab, g, Table(scheme))
    BY <1>5, <1>6, <1>7, EmptyLaidOut DEF Fits
  <2> HIDE DEF k
  <2>. QED
    BY <1>4, <2>1, <2>2, <2>3, ReplacedGood
<1>9. Good(w)
  BY <1>8, AllBut
<1>10. \A q \in Partitions(s.tab) :
          q \in Partitions(w.tab) /\ Part(w.tab, q).type = Part(s.tab, q).type
  <2> SUFFICES ASSUME NEW q \in Partitions(s.tab)
               PROVE  q \in Partitions(w.tab) /\ Part(w.tab, q).type = Part(s.tab, q).type
    OBVIOUS
  <2>1. q # 1 \/ q # 2
    OBVIOUS
  <2>. QED
    BY <1>8, <2>1
<1>11. CASE scheme \notin plat.bootcode
  <2>1. r = w
    BY <1>11 DEF Partition, w, c, k
  <2> HIDE DEF r
  <2>2. /\ Good(r) /\ r.disk = s.disk /\ DOMAIN r.tab = DOMAIN s.tab \cup {g}
        /\ \A n \in DOMAIN r.tab : r.tab[n] = IF n = g THEN Table(scheme) ELSE s.tab[n]
        /\ \A q \in Partitions(s.tab) : q \in Partitions(r.tab)
    BY <1>8, <1>9, <1>10, <2>1
  <2>. QED
    BY <2>2 DEF r
<1>12. CASE scheme \in plat.bootcode
  <2>1. r = [w EXCEPT !.md = Put(w.md, e)]
    BY <1>12 DEF Partition, w, c, k
  <2>2. IsList(w.md)
    BY <1>4 DEF Sane
  <2>3. /\ IsEntry(old) /\ old.name = g /\ old \in Range(w.md) \cup {Blank(g)}
    BY <2>2, MetadataIs
  <2> HIDE DEF old
  <2>4. /\ IsEntry(e) /\ e.name = g /\ e.mount = old.mount /\ e.newfs = old.newfs
        /\ e.cancelled = old.cancelled /\ e.bootcode = TRUE
    BY <2>3, WithCode, Zenon
  <2> HIDE DEF e, r
  <2>5. g \in DOMAIN w.tab /\ Sound(w.tab)
    BY <1>4, <1>8, SaneTab
  <2>6. g # Label
    BY <2>5, NotLabel
  <2>7. /\ Sane(r) /\ Kernel(r) = Kernel(w) /\ r.tab = w.tab /\ r.mod = w.mod /\ r.disk = w.disk
        /\ Range(r.md) = {e} \cup {m \in Range(w.md) : m.name # e.name}
    BY <1>4, <2>1, <2>4, <2>6, SanePut
  <2>8. /\ (old.mount # NoMount => g \in Partitions(w.tab) \cup Labels)
        /\ (old.newfs # "" =>
              g \in Partitions(w.tab) /\ (Part(w.tab, g).type = old.newfs \/ old.cancelled))
    <3>1. CASE old = Blank(g)
      <4>1. old.mount = NoMount /\ old.newfs = ""
        BY <3>1, BlankIs
      <4>. QED
        BY <4>1, Zenon
    <3>2. CASE old \in Range(w.md)
      <4>1. EntryOK(old, w.tab)
        BY <1>9, <3>2 DEF Good
      <4>. QED
        BY <2>3, <4>1, Zenon DEF EntryOK
    <3>. QED
      BY <2>3, <3>1, <3>2
  <2>9. g \in DiskNames \cup Partitions(w.tab)
    BY <2>5, SoundSits DEF Providers, DiskNames
  <2>10. ~Zombie(w.tab, g)
    BY <1>5, <1>8, <2>5 DEF Zombie
  <2>11. EntryOK(e, w.tab)
    <3>1. e.name \in DiskNames \cup Partitions(w.tab) \cup Labels
      BY <2>4, <2>9
    <3>. QED
      BY <2>4, <2>8, <3>1, Zenon DEF EntryOK
  <2>12. CodeDue(e, w.tab, w.mod)
    BY <1>8, <2>4, <2>5, <2>10 DEF CodeDue
  <2>13. Good(r)
    <3>1. GoodBut(w, e.name) /\ \A name : InSlices(w.tab, w.mod, name)
      BY <1>8, <1>9 DEF Good
    <3>. QED
      BY <2>7, <2>11, <2>12, <3>1, PutGood
  <2>14. /\ Good(r) /\ r.disk = s.disk /\ DOMAIN r.tab = DOMAIN s.tab \cup {g}
         /\ \A n \in DOMAIN r.tab : r.tab[n] = IF n = g THEN Table(scheme) ELSE s.tab[n]
         /\ \A q \in Partitions(s.tab) : q \in Partitions(r.tab)
    BY <1>8, <1>10, <2>7, <2>13
  <2>. QED
    BY <2>14 DEF r
<1>. QED
  BY <1>11, <1>12

\* set_default_part_metadata(): an entry for the name, and nothing else changes.
Needs(scheme, type) ==
  \/ Unmountable(scheme, type)
  \/ scheme = "VTOC8" /\ type \in FileSystems
IsDefault(s, r, name, scheme, type, mount, newfs, cancelled, new) ==
  LET old == Metadata(s.md, name)
  IN /\ Sane(r) /\ r.tab = s.tab /\ r.mod = s.mod /\ r.disk = s.disk
     /\ new.name = name
     /\ new.mount = Mountpoint(scheme, type, mount)
     /\ new.newfs = IF newfs = Keep THEN old.newfs ELSE newfs
     /\ new.cancelled = IF newfs = Keep THEN old.cancelled ELSE cancelled
     /\ new.bootcode = (old.bootcode \/ Needs(scheme, type))
     /\ Range(r.md) = {new} \cup {e \in Range(s.md) : e.name # new.name}

LEMMA SetDefaultIs ==
  ASSUME NEW s, Sane(s), NEW name, name # Label, NEW scheme, NEW type, NEW mount, NEW newfs,
         NEW cancelled
  PROVE  \E new : IsDefault(s, SetDefault(s, name, scheme, type, mount, newfs, cancelled),
                            name, scheme, type, mount, newfs, cancelled, new)
<1> DEFINE old == Metadata(s.md, name)
           where == Mountpoint(scheme, type, mount)
           nf == IF newfs = Keep THEN old.newfs ELSE newfs
           cc == IF newfs = Keep THEN old.cancelled ELSE cancelled
           fs == IF where = NoMount THEN "" ELSE type
           bc == old.bootcode \/ Needs(scheme, type)
           new == [old EXCEPT !.newfs = nf, !.cancelled = cc, !.mount = where, !.fs = fs,
                              !.bootcode = bc]
           esps == IF Unmountable(scheme, type) THEN Append(s.esps, name) ELSE s.esps
           md == Put(s.md, new)
           r == SetDefault(s, name, scheme, type, mount, newfs, cancelled)
<1>1. IsStore(s) /\ InStep(Kernel(s)) /\ IsList(s.md) /\ Once(s.md)
  BY DEF Sane
<1>2. IsEntry(old) /\ old.name = name
  BY <1>1, MetadataIs
<1>3. r = [s EXCEPT !.md = md, !.esps = esps]
  BY Zenon DEF SetDefault, Needs
<1> HIDE DEF old, where, nf, cc, fs, bc, esps
<1>4. /\ IsEntry(new) /\ new.name = name /\ new.mount = where /\ new.newfs = nf
      /\ new.cancelled = cc /\ new.bootcode = bc
  <2> DEFINE e0 == [old EXCEPT !.newfs = nf]
             e1 == [e0 EXCEPT !.cancelled = cc]
             e2 == [e1 EXCEPT !.mount = where]
             e3 == [e2 EXCEPT !.fs = fs]
             e4 == [e3 EXCEPT !.bootcode = bc]
  <2>1. old = [name |-> old.name, mount |-> old.mount, fs |-> old.fs, newfs |-> old.newfs,
               cancelled |-> old.cancelled, bootcode |-> old.bootcode]
    BY <1>2 DEF IsEntry
  <2>0. e0 = [name |-> old.name, mount |-> old.mount, fs |-> old.fs, newfs |-> nf,
              cancelled |-> old.cancelled, bootcode |-> old.bootcode]
    BY <2>1
  <2>3. new = e4
    BY Zenon
  <2> HIDE DEF new, e0
  <2>2. e1 = [name |-> old.name, mount |-> old.mount, fs |-> old.fs, newfs |-> nf,
              cancelled |-> cc, bootcode |-> old.bootcode]
    BY <2>0
  <2> HIDE DEF e1
  <2>4. e2 = [name |-> old.name, mount |-> where, fs |-> old.fs, newfs |-> nf,
              cancelled |-> cc, bootcode |-> old.bootcode]
    BY <2>2
  <2> HIDE DEF e2
  <2>5. e3 = [name |-> old.name, mount |-> where, fs |-> fs, newfs |-> nf,
              cancelled |-> cc, bootcode |-> old.bootcode]
    BY <2>4
  <2> HIDE DEF e3
  <2>6. e4 = [name |-> old.name, mount |-> where, fs |-> fs, newfs |-> nf,
              cancelled |-> cc, bootcode |-> bc]
    BY <2>5
  <2> HIDE DEF e4
  <2>. QED
    BY <1>2, <2>3, <2>6 DEF IsEntry
<1> HIDE DEF new
<1>5. IsList(md) /\ Once(md) /\ Range(md) = {new} \cup {e \in Range(s.md) : e.name # new.name}
  BY <1>1, <1>4, WithPut
<1> HIDE DEF md, r
<1>6. /\ IsStore(r) /\ Kernel(r) = Kernel(s) /\ r.md = md
      /\ r.tab = s.tab /\ r.mod = s.mod /\ r.disk = s.disk
  <2> DEFINE r1 == [s EXCEPT !.md = md]
             r2 == [r1 EXCEPT !.esps = esps]
  <2>1. s = [tab |-> s.tab, mod |-> s.mod, disk |-> s.disk, md |-> s.md, esps |-> s.esps]
    BY <1>1 DEF IsStore
  <2>2. r1 = [tab |-> s.tab, mod |-> s.mod, disk |-> s.disk, md |-> md, esps |-> s.esps]
    BY <2>1
  <2>3. r = r2
    BY <1>3, Zenon
  <2> HIDE DEF r1
  <2>4. r2 = [tab |-> s.tab, mod |-> s.mod, disk |-> s.disk, md |-> md, esps |-> esps]
    BY <2>2
  <2> HIDE DEF r2
  <2>. QED
    BY <2>3, <2>4 DEF IsStore, Kernel
<1>7. Sane(r)
  BY <1>1, <1>5, <1>6 DEF Sane
<1>8. IsDefault(s, r, name, scheme, type, mount, newfs, cancelled, new)
  BY <1>4, <1>5, <1>6, <1>7, Zenon DEF IsDefault, old, where, nf, cc, bc
<1>. QED
  BY <1>8, Zenon DEF r

\* What the list may say of a partition that is to be formatted, or booted from.
FormatsAs(s, name, newfs, cancelled) ==
  LET nf == IF newfs = Keep THEN Metadata(s.md, name).newfs ELSE newfs
      cc == IF newfs = Keep THEN Metadata(s.md, name).cancelled ELSE cancelled
  IN nf # "" => Part(s.tab, name).type = nf \/ cc
BootsFrom(s, name) ==
  /\ name \in DOMAIN s.tab => name \in s.mod
  /\ (name \in DOMAIN s.tab => Zombie(s.tab, name)) => Front(name) \in s.mod

Defaults(s, name, scheme, type, newfs, cancelled) ==
  /\ FormatsAs(s, name, newfs, cancelled)
  /\ \A n : InSlices(s.tab, s.mod, n)
  /\ Metadata(s.md, name).bootcode \/ Needs(scheme, type) => BootsFrom(s, name)

LEMMA SetDefaultGood ==
  ASSUME NEW s, NEW name, GoodBut(s, name), name \in Partitions(s.tab), NEW scheme, NEW type,
         NEW mount, NEW newfs, NEW cancelled
  PROVE  LET r == SetDefault(s, name, scheme, type, mount, newfs, cancelled)
         IN /\ GoodBut(r, name) /\ r.tab = s.tab /\ r.mod = s.mod /\ r.disk = s.disk
            /\ Defaults(s, name, scheme, type, newfs, cancelled) => Good(r)
<1> DEFINE r == SetDefault(s, name, scheme, type, mount, newfs, cancelled)
           old == Metadata(s.md, name)
<1>1. Sane(s) /\ Sound(s.tab)
  BY SaneTab DEF GoodBut
<1>2. name # Label
  BY <1>1, NotLabel
<1>3. PICK new : IsDefault(s, r, name, scheme, type, mount, newfs, cancelled, new)
  BY <1>1, <1>2, SetDefaultIs
<1> HIDE DEF r, old
<1>4. /\ Sane(r) /\ r.tab = s.tab /\ r.mod = s.mod /\ r.disk = s.disk /\ new.name = name
      /\ Range(r.md) = {new} \cup {e \in Range(s.md) : e.name # new.name}
      /\ new.newfs = IF newfs = Keep THEN old.newfs ELSE newfs
      /\ new.cancelled = IF newfs = Keep THEN old.cancelled ELSE cancelled
      /\ new.bootcode = (old.bootcode \/ Needs(scheme, type))
  BY <1>3, Zenon DEF IsDefault, old
<1>5. /\ GoodBut(r, name)
      /\ EntryOK(new, s.tab) /\ CodeDue(new, s.tab, s.mod) /\ (\A n : InSlices(s.tab, s.mod, n))
           => Good(r)
  BY <1>4, PutGood, Zenon
<1>6. ASSUME FormatsAs(s, name, newfs, cancelled), \A n : InSlices(s.tab, s.mod, n),
             old.bootcode \/ Needs(scheme, type) => BootsFrom(s, name)
      PROVE  Good(r)
  <2>1. new.newfs # "" => Part(s.tab, name).type = new.newfs \/ new.cancelled
    BY <1>4, <1>6, Zenon DEF FormatsAs, old
  <2>2. new.bootcode => BootsFrom(s, name)
    BY <1>4, <1>6, Zenon
  <2>3. new.name \in Partitions(s.tab)
    BY <1>4
  <2>4. EntryOK(new, s.tab)
    <3>1. /\ new.name \in DiskNames \cup Partitions(s.tab) \cup Labels
          /\ new.name \in Partitions(s.tab) \cup Labels
      BY <2>3
    <3>. QED
      BY <1>4, <2>1, <2>3, <3>1, Zenon DEF EntryOK
  <2>5. CodeDue(new, s.tab, s.mod)
    BY <1>4, <2>2, Zenon DEF CodeDue, BootsFrom
  <2>. QED
    BY <1>5, <1>6, <2>4, <2>5
<1>7. Defaults(s, name, scheme, type, newfs, cancelled) => Good(r)
  BY <1>6, Zenon DEF old, Defaults
<1>8. GoodBut(r, name) /\ r.tab = s.tab /\ r.mod = s.mod /\ r.disk = s.disk
  BY <1>4, <1>5
<1>. QED
  BY <1>7, <1>8, Zenon DEF r

\* The index of a new partition is one that is not taken.
LEMMA NewIndexIs ==
  ASSUME NEW tab, Sound(tab), NEW g \in DOMAIN tab
  PROVE  NewIndex(tab, g) \in Nat \ {0} /\ NewIndex(tab, g) \notin DOMAIN tab[g].parts
<1> DEFINE D == DOMAIN tab[g].parts
           c == Cardinality(D)
           T == {i \in 1 .. c + 1 : i \notin D}
<1>1. IsFiniteSet(D) /\ c \in Nat
  BY SoundGeoms, TableParts, FS_CardinalityType
<1> HIDE DEF D
<1>2. T # {}
  <2> SUFFICES ASSUME 1 .. c + 1 \subseteq D PROVE FALSE
    OBVIOUS
  <2>1. Cardinality(1 .. c + 1) <= c
    BY <1>1, FS_Subset
  <2> HIDE DEF c
  <2>2. 1 \in Int /\ c + 1 \in Int /\ ~(1 > c + 1) /\ (c + 1) - 1 + 1 = c + 1
    BY <1>1
  <2>3. Cardinality(1 .. c + 1) = IF 1 > c + 1 THEN 0 ELSE (c + 1) - 1 + 1
    BY <2>2, FS_Interval
  <2>. QED
    BY <1>1, <2>1, <2>2, <2>3
<1> HIDE DEF c
<1>3. T \subseteq Nat
  BY <1>1
<1>4. PICK m \in T : \A y \in T : ~ (<<y, m>> \in OpToRel(<, Nat))
  BY <1>2, <1>3, NatLessThanWellFounded, WFMin, Zenon
<1>5. \A j \in 1 .. m - 1 : j \in D
  <2> SUFFICES ASSUME NEW j \in 1 .. m - 1, j \notin D PROVE FALSE
    OBVIOUS
  <2>1. j \in T /\ j \in Nat /\ m \in Nat /\ j < m
    BY <1>1
  <2>2. <<j, m>> \in OpToRel(<, Nat)
    BY <2>1 DEF OpToRel
  <2>. QED
    BY <1>4, <2>1, <2>2
<1>6. \E i \in 1 .. c + 1 : i \notin D /\ \A j \in 1 .. i - 1 : j \in D
  BY <1>5
<1>7. NewIndex(tab, g) \in 1 .. c + 1 /\ NewIndex(tab, g) \notin D
  BY <1>6 DEF NewIndex, D, c
<1>. QED
  BY <1>1, <1>7 DEF D

\* What gpart_create() has made: a partition named p, of the type that was asked
\* for, with nothing in the list about it.
IsAdded(s, r, g, p, type) ==
  /\ r.disk = s.disk /\ r.md = s.md
  /\ p \in Partitions(r.tab) /\ Part(r.tab, p).type = type
  /\ p \notin Partitions(s.tab) /\ Front(p) = g /\ Metadata(s.md, p) = Blank(p)
  /\ p \in DOMAIN r.tab => Zombie(r.tab, p) /\ p \in r.mod
  /\ g \in r.mod
  /\ DOMAIN s.tab \subseteq DOMAIN r.tab
  /\ \A n \in DOMAIN s.tab : /\ r.tab[n].scheme = s.tab[n].scheme
                             /\ DOMAIN s.tab[n].parts \subseteq DOMAIN r.tab[n].parts
  /\ Partitions(s.tab) \subseteq Partitions(r.tab)

\* And where it has made it.
Settled(s, r, g, p, start, size) ==
  /\ \A n \in DOMAIN s.tab \ {g} : r.tab[n] = s.tab[n]
  /\ r.tab[g].parts[Last(p)].start = start /\ r.tab[g].parts[Last(p)].size = size
  /\ \A j \in DOMAIN r.tab[g].parts : j # Last(p) =>
       j \in DOMAIN s.tab[g].parts /\ r.tab[g].parts[j] = s.tab[g].parts[j]

LEMMA Unlisted ==
  ASSUME NEW s, Good(s), NEW p, p \notin DiskNames, p \notin Partitions(s.tab), p # Label
  PROVE  Metadata(s.md, p) = Blank(p) /\ \A m \in Range(s.md) : m.name # p
<1>1. \A m \in Range(s.md) : m.name # p
  BY DEF Good, EntryOK, Labels
<1>2. ~Has(s.md, p)
  BY <1>1 DEF Has, Range
<1>. QED
  BY <1>1, <1>2 DEF Metadata

LEMMA AddedFits ==
  ASSUME NEW tab, Laid(tab), NEW g \in DOMAIN tab, NEW t, NEW i,
         DOMAIN t.parts = DOMAIN tab[g].parts \cup {i}, i \notin DOMAIN tab[g].parts,
         \A j \in DOMAIN tab[g].parts : t.parts[j] = tab[g].parts[j],
         t.parts[i].start \in Int, t.parts[i].size \in Int,
         FreeIn(tab, g, t.parts[i].start, t.parts[i].size)
  PROVE  Fits(tab, g, t)
<1> DEFINE first == FirstOf(g)
           last == LastOf(tab, g)
<1>1. LaidOut(tab[g].parts, first, last)
  BY DEF Laid
<1>2. Inside(t.parts[i], first, last)
  BY DEF FreeIn, Inside, End
<1>3. \A j \in DOMAIN tab[g].parts : Disjoint(t.parts[j], t.parts[i]) /\ Disjoint(t.parts[i], t.parts[j])
  BY DEF FreeIn, Disjoint, End
<1> HIDE DEF first, last
<1>4. LaidOut(t.parts, first, last)
  BY <1>1, <1>2, <1>3 DEF LaidOut
<1> QED
  BY <1>4 DEF Fits, first, last

LEMMA AddedGood ==
  ASSUME NEW s, Good(s), NEW g, g \in DOMAIN s.tab, ~Zombie(s.tab, g), NEW type,
         NEW start \in Int, NEW size \in Int, FreeIn(s.tab, g, start, size), NEW dirty \in Dirty
  PROVE  LET new == Added(s, g, type, start, size, dirty)
         IN /\ Good(new.st) /\ IsAdded(s, new.st, g, new.name, type)
            /\ Settled(s, new.st, g, new.name, start, size)
<1> DEFINE i == NewIndex(s.tab, g)
           p == Append(g, i)
           k == Kernel(s)
           part == [start |-> start, size |-> size, type |-> type]
           t == Filled(s.tab[g], i, part)
           a == Add(k, g, type, start, size)
           w == With(s, a)
           shown == IF dirty /\ CanCreate(a, p, "BSD") THEN Create(a, p, "BSD") ELSE a
           d == Destroy(shown, p)
           r == With(s, d)
<1>1. Sane(s) /\ Sound(s.tab) /\ IsKernel(k) /\ InStep(k) /\ k.tab = s.tab /\ k.mod = s.mod
  BY SaneTab, KernelIs DEF Good, Sane
<1>2. i \in Nat \ {0} /\ i \notin DOMAIN s.tab[g].parts
  BY <1>1, NewIndexIs
<1>3. /\ g \in Names /\ p \in Names /\ Front(p) = g /\ Last(p) = i /\ Len(p) >= 2 /\ p \notin DiskNames
      /\ Front(g) # g
  <2>1. g \in Names /\ Len(g) >= 1 /\ Front(g) # g
    BY <1>1, GeomNames
  <2>2. p \in Names /\ Len(p) = Len(g) + 1 /\ Front(p) = g /\ Last(p) = i
    BY <1>2, <2>1, Grown
  <2>3. Len(p) >= 2 /\ Len(p) # 1
    BY <2>1, <2>2 DEF Names
  <2>. QED
    BY <2>1, <2>2, <2>3, DiskNamed
<1>4. \A n \in DOMAIN s.tab : n # p
  <2> SUFFICES ASSUME p \in DOMAIN s.tab PROVE FALSE
    OBVIOUS
  <2>1. Sits(s.tab, p)
    BY <1>1, <1>3, SoundGeoms DEF Slot
  <2>. QED
    BY <1>2, <1>3, <2>1 DEF Sits
<1>5. p \notin Partitions(s.tab)
  BY <1>1, <1>2, <1>3, PartitionIs DEF Sits
<1>6. p # Label
  <2>1. Len(Label) = 1 /\ ~(1 >= 2)
    BY DEF Label
  <2>. QED
    BY <1>3, <2>1, Zenon
<1>7. Added(s, g, type, start, size, dirty) = [name |-> p, st |-> r]
  BY DEF Added
<1>8. IsReplaced(k, a, g, t)
  <2>1. IsRegion(part)
    BY DEF IsRegion
  <2>2. a = SetPart(k, g, i, part)
    BY <1>1 DEF Add
  <2> HIDE DEF k, i, part, a
  <2>. QED
    BY <1>1, <1>2, <2>1, <2>2, PartSet
<1>9. /\ t.scheme = s.tab[g].scheme /\ DOMAIN t.parts = DOMAIN s.tab[g].parts \cup {i}
      /\ t.parts[i] = part /\ \A j \in DOMAIN s.tab[g].parts : t.parts[j] = s.tab[g].parts[j]
  BY <1>2 DEF Filled, Assign
<1>10. part.type = type /\ part.start = start /\ part.size = size
  OBVIOUS
<1> HIDE DEF i, p, a, t, part
<1>22. Fits(s.tab, g, t)
  BY <1>2, <1>9, <1>10, AddedFits DEF Good
<1>11. InStep(a)
  BY <1>1, <1>8, ReplacedInStep
<1>12. Sane(w) /\ Kernel(w) = a /\ w.md = s.md /\ w.tab = a.tab /\ w.mod = a.mod /\ w.disk = a.disk
  BY <1>1, <1>11, SaneWith
<1> HIDE DEF w
<1>13. ASSUME NEW but
       PROVE  /\ GoodBut(w, but) /\ DOMAIN w.tab = DOMAIN s.tab \cup {g}
              /\ \A n \in DOMAIN w.tab : w.tab[n] = IF n = g THEN t ELSE s.tab[n]
              /\ w.mod = s.mod \cup {g} /\ w.disk = s.disk
              /\ \A q \in Partitions(s.tab) :
                   /\ q \in Partitions(w.tab)
                   /\ q # but => Part(w.tab, q).type = Part(s.tab, q).type
                   /\ Front(q) # g => Part(w.tab, q) = Part(s.tab, q)
              /\ \A q \in Partitions(w.tab) : Front(q) # g => q \in Partitions(s.tab)
  <2>1. t.scheme # None
    BY <1>9 DEF Zombie
  <2>2. g \in DOMAIN s.tab => \A j \in DOMAIN s.tab[g].parts :
           /\ j \in DOMAIN t.parts
           /\ Append(g, j) # but => t.parts[j].type = s.tab[g].parts[j].type
    BY <1>9
  <2>3. /\ IsReplaced(Kernel(s), Kernel(w), g, t) /\ Range(w.md) = Range(s.md) /\ GoodBut(s, but)
        /\ Fits(s.tab, g, t)
    BY <1>8, <1>12, <1>22, GoodIsGoodBut
  <2> HIDE DEF k
  <2>. QED
    BY <1>12, <2>1, <2>2, <2>3, ReplacedGood
<1>14. Good(w)
  BY <1>13, AllBut
<1>15. Sound(w.tab) /\ DOMAIN w.tab = DOMAIN s.tab /\ IsKernel(a)
  BY <1>8, <1>12, <1>13, SaneTab DEF IsReplaced
<1>16. p \in Partitions(w.tab) /\ Part(w.tab, p).type = type
  <2>1. w.tab[g] = t /\ g \in DOMAIN w.tab
    BY <1>13
  <2>2. Sits(w.tab, p)
    BY <1>3, <1>9, <2>1 DEF Sits
  <2>. QED
    BY <1>3, <1>9, <1>10, <1>15, <2>1, <2>2, PartitionIs DEF Part
<1>17. Metadata(s.md, p) = Blank(p) /\ \A m \in Range(s.md) : m.name # p
  BY <1>3, <1>5, <1>6, Unlisted
<1>18. Partitions(s.tab) \subseteq Partitions(w.tab)
  BY <1>13
<1>19. \A n \in DOMAIN s.tab : /\ w.tab[n].scheme = s.tab[n].scheme
                               /\ DOMAIN s.tab[n].parts \subseteq DOMAIN w.tab[n].parts
  BY <1>9, <1>13
<1>23. Settled(s, w, g, p, start, size)
  BY <1>3, <1>9, <1>10, <1>13, <1>15 DEF Settled
<1>20. CASE ~(dirty /\ CanCreate(a, p, "BSD"))
  <2>1. shown = a
    BY <1>20, Zenon
  <2> HIDE DEF shown
  <2>2. d = a
    <3>1. p \notin DOMAIN a.tab
      BY <1>4, <1>12, <1>15
    <3>. QED
      BY <2>1, <3>1 DEF Destroy, CanDestroy
  <2>3. r = w
    BY <2>2 DEF w
  <2> HIDE DEF r, d
  <2>4. Good(r) /\ IsAdded(s, r, g, p, type)
    <3>1. p \notin DOMAIN w.tab /\ g \in w.mod /\ w.disk = s.disk
      BY <1>4, <1>13, <1>15
    <3>. QED
      BY <1>3, <1>5, <1>12, <1>14, <1>15, <1>16, <1>17, <1>18, <1>19, <2>3, <3>1 DEF IsAdded
  <2>5. [name |-> p, st |-> r].st = r /\ [name |-> p, st |-> r].name = p
    OBVIOUS
  <2>. QED
    BY <1>7, <1>23, <2>3, <2>4, <2>5, Zenon DEF r, p
<1>21. CASE dirty /\ CanCreate(a, p, "BSD")
  <2> DEFINE c == Create(a, p, "BSD")
  <2>1. shown = c
    BY <1>21, Zenon
  <2>2. IsReplaced(a, c, p, Table("BSD"))
    <3>1. Seat(a.tab, p, Table("BSD"))
      BY <1>15, <1>21, CanCreateSeats
    <3>2. "BSD" \in Schemes \cup {None}
      BY DEF Schemes
    <3>. QED
      BY <1>15, <3>1, <3>2, Created
  <2> HIDE DEF c
  <2>3. /\ IsKernel(c) /\ Sound(c.tab) /\ p \in DOMAIN c.tab /\ c.tab[p] = Table("BSD")
        /\ InStep(c)
    BY <1>11, <2>2, ReplacedInStep DEF IsReplaced, IsKernel
  <2>4. CanDestroy(c, p)
    <3>1. Table("BSD").scheme # None /\ DOMAIN Table("BSD").parts = {}
      BY DEF Table, None
    <3>2. PartsOf(c.tab, p) = {}
      BY <2>3, <3>1 DEF PartsOf
    <3>. QED
      BY <2>3, <3>1, <3>2 DEF CanDestroy, Zombie
  <2>5. IsReplaced(c, d, p, Table(None))
    BY <2>1, <2>3, <2>4, Destroyed
  <2> HIDE DEF shown, d
  <2>6. InStep(d)
    BY <2>3, <2>5, ReplacedInStep
  <2>7. /\ DOMAIN d.tab = DOMAIN w.tab \cup {p}
        /\ \A n \in DOMAIN d.tab : d.tab[n] = IF n = p THEN Table(None) ELSE w.tab[n]
        /\ d.mod = w.mod \cup {p} /\ d.disk = w.disk
    <3>1. \A n \in DOMAIN w.tab : Front(n) # p
      <4>1. \A x \in Nat : x >= 2 => x >= 1
        OBVIOUS
      <4>2. Len(p) >= 1
        BY <1>3, <4>1 DEF Names
      <4>. QED
        BY <1>3, <1>15, <4>2, NoneInSlice
    <3>2. g # p
      BY <1>4
    <3>3. /\ DOMAIN c.tab = DOMAIN w.tab \cup {p} /\ c.disk = w.disk
          /\ \A n \in DOMAIN c.tab : n # p => c.tab[n] = w.tab[n]
          /\ c.mod = w.mod \cup {p}
      <4>1. w.mod \subseteq DOMAIN w.tab
        BY <1>12, SaneTab
      <4>. QED
        BY <1>3, <1>12, <2>2, <3>1, <3>2, <4>1 DEF IsReplaced
    <3>4. c.mod \subseteq DOMAIN c.tab
      BY <2>3 DEF IsKernel
    <3>. QED
      BY <1>3, <2>5, <3>1, <3>2, <3>3, <3>4 DEF IsReplaced
  <2>8. Sane(r) /\ r.md = s.md /\ r.tab = d.tab /\ r.mod = d.mod /\ r.disk = d.disk
    BY <1>1, <2>6, SaneWith
  <2> HIDE DEF r
  <2>9. Sound(r.tab)
    BY <2>8, SaneTab
  <2>10. \A q \in Names : Len(q) >= 2 /\ Front(q) # p => (Sits(r.tab, q) <=> Sits(w.tab, q))
    BY <2>7, <2>8 DEF Sits
  <2>11. ASSUME NEW q \in Partitions(w.tab)
         PROVE  q \in Partitions(r.tab) /\ Part(r.tab, q) = Part(w.tab, q) /\ Front(q) # p
    <3>1. q \in Names /\ Len(q) >= 2 /\ Sits(w.tab, q)
      BY <1>15, PartitionIs
    <3>2. Front(q) # p /\ Front(q) \in DOMAIN w.tab
      BY <1>4, <1>15, <3>1 DEF Sits
    <3>3. Part(r.tab, q) = Part(w.tab, q)
      BY <2>7, <2>8, <3>2 DEF Part
    <3>. QED
      BY <2>9, <2>10, <3>1, <3>2, <3>3, PartitionIs
  <2>12. ASSUME NEW q \in Partitions(r.tab) PROVE q \in Partitions(w.tab)
    <3>1. q \in Names /\ Len(q) >= 2 /\ Sits(r.tab, q)
      BY <2>9, PartitionIs
    <3>2. Front(q) # p
      <4>1. DOMAIN Table(None).parts = {}
        BY DEF Table
      <4>. QED
        BY <2>7, <2>8, <3>1, <4>1 DEF Sits
    <3>. QED
      BY <1>15, <2>10, <3>1, <3>2, PartitionIs
  <2>13. ASSUME NEW m \in Range(r.md) PROVE EntryOK(m, r.tab) /\ CodeDue(m, r.tab, r.mod)
    <3>1. m \in Range(w.md) /\ m.name # p
      BY <1>12, <1>17, <2>8
    <3>2. EntryOK(m, w.tab) /\ CodeDue(m, w.tab, w.mod)
      BY <1>14, <3>1 DEF Good
    <3>3. Zombie(r.tab, m.name) => Zombie(w.tab, m.name)
      BY <2>7, <2>8, <3>1 DEF Zombie
    <3>4. EntryOK(m, r.tab)
      BY <2>11, <3>2 DEF EntryOK
    <3>5. m.name \in Partitions(r.tab) <=> m.name \in Partitions(w.tab)
      BY <2>11, <2>12
    <3>6. m.name \in DOMAIN r.tab <=> m.name \in DOMAIN w.tab
      BY <2>7, <2>8, <3>1
    <3>7. r.mod = w.mod \cup {p}
      BY <2>7, <2>8
    <3>8. CodeDue(m, r.tab, r.mod)
      BY <3>2, <3>3, <3>5, <3>6, <3>7 DEF CodeDue
    <3>. QED
      BY <3>4, <3>8
  <2>14. ASSUME NEW n \in DOMAIN r.tab \ r.mod, n \notin DiskNames PROVE Part(r.tab, n).type = "freebsd"
    <3>1. n \in DOMAIN w.tab \ w.mod
      BY <2>7, <2>8, <2>14
    <3>2. Part(w.tab, n).type = "freebsd"
      BY <1>14, <2>14, <3>1 DEF Good, InSlices
    <3>3. n \in Partitions(w.tab)
      BY <1>15, <2>14, <3>1, SoundSits DEF Providers, DiskNames
    <3>. QED
      BY <2>11, <3>2, <3>3
  <2>18. Laid(r.tab)
    <3>1. /\ Laid(w.tab)
          /\ p \in DOMAIN r.tab => LaidOut(r.tab[p].parts, FirstOf(p), LastOf(r.tab, p))
      <4>1. DOMAIN Table(None).parts = {}
        BY EmptyTable
      <4>2. p \in DOMAIN r.tab => DOMAIN r.tab[p].parts = {}
        BY <2>7, <2>8, <4>1
      <4> QED
        BY <1>14, <4>2, EmptyLaidOut DEF Good
    <3>2. \A n \in DOMAIN r.tab : n \notin DiskNames => Front(n) # p
      <4>1. DOMAIN r.tab[p].parts = {}
        BY <2>7, <2>8, EmptyTable
      <4> QED
        BY <2>9, <4>1, SoundGeoms DEF Slot, Sits
    <3> QED
      BY <2>7, <2>8, <2>9, <3>1, <3>2, StillLaid
  <2>15. Good(r)
    BY <2>8, <2>13, <2>14, <2>18 DEF Good, InSlices
  <2>16. IsAdded(s, r, g, p, type)
    <3>1. p \in Partitions(r.tab) /\ Part(r.tab, p).type = type
      BY <1>16, <2>11
    <3>2. p \in r.mod /\ g \in r.mod /\ r.disk = s.disk
      BY <1>13, <2>7, <2>8
    <3>3. Zombie(r.tab, p)
      BY <2>7, <2>8 DEF Zombie, Table
    <3>4. /\ DOMAIN s.tab \subseteq DOMAIN r.tab
          /\ \A n \in DOMAIN s.tab : /\ r.tab[n].scheme = s.tab[n].scheme
                                     /\ DOMAIN s.tab[n].parts \subseteq DOMAIN r.tab[n].parts
      BY <1>4, <1>15, <1>19, <2>7, <2>8
    <3>5. Partitions(s.tab) \subseteq Partitions(r.tab)
      BY <1>18, <2>11
    <3>. QED
      BY <1>3, <1>5, <1>17, <2>8, <3>1, <3>2, <3>3, <3>4, <3>5 DEF IsAdded
  <2>17. [name |-> p, st |-> r].st = r /\ [name |-> p, st |-> r].name = p
    OBVIOUS
  <2>19. Settled(s, r, g, p, start, size)
    BY <1>4, <1>15, <1>23, <2>7, <2>8 DEF Settled
  <2>. QED
    BY <1>7, <2>15, <2>16, <2>17, <2>19, Zenon DEF r, p
<1>. QED
  BY <1>20, <1>21

\* The type of a partition changed.
LEMMA ModifyGood ==
  ASSUME NEW s, Good(s), NEW p \in Partitions(s.tab), NEW type
  PROVE  LET r == With(s, Modify(Kernel(s), p, type))
         IN /\ GoodBut(r, p) /\ (type = Part(s.tab, p).type => Good(r))
            /\ r.md = s.md /\ r.disk = s.disk /\ DOMAIN r.tab = DOMAIN s.tab
            /\ r.mod = s.mod \cup {Front(p)}
            /\ p \in Partitions(r.tab) /\ Part(r.tab, p).type = type
            /\ \A n \in DOMAIN r.tab : r.tab[n].scheme = s.tab[n].scheme
<1> DEFINE g == Front(p)
           i == Last(p)
           k == Kernel(s)
           part == [Part(s.tab, p) EXCEPT !.type = type]
           t == Filled(s.tab[g], i, part)
           a == Modify(k, p, type)
           r == With(s, a)
<1>1. Sane(s) /\ Sound(s.tab) /\ IsKernel(k) /\ InStep(k) /\ k.tab = s.tab /\ k.mod = s.mod
  BY SaneTab, KernelIs DEF Good, Sane
<1>2. /\ p \in Names /\ Len(p) >= 2 /\ g \in DOMAIN s.tab /\ i \in DOMAIN s.tab[g].parts
      /\ p = Append(g, i) /\ i \in Nat \ {0} /\ ~Zombie(s.tab, g)
  <2>1. p \in Names /\ Len(p) >= 2 /\ g \in DOMAIN s.tab /\ i \in DOMAIN s.tab[g].parts
    BY <1>1, PartitionIs DEF Sits
  <2>2. Len(p) >= 1
    <3>1. \A x \in Nat : x >= 2 => x >= 1
      OBVIOUS
    <3>. QED
      BY <2>1, <3>1 DEF Names
  <2>3. IsTable(s.tab[g])
    BY <1>1, <2>1, SoundGeoms
  <2>. QED
    BY <2>1, <2>2, <2>3, Split, TableParts DEF IsTable, Zombie
<1>3. Part(s.tab, p) = s.tab[g].parts[i] /\ IsRegion(Part(s.tab, p))
  <2>1. IsTable(s.tab[g])
    BY <1>1, <1>2, SoundGeoms
  <2>. QED
    BY <1>2, <2>1 DEF Part, IsTable
<1>4. /\ IsRegion(part) /\ part.type = type
      /\ part.start = Part(s.tab, p).start /\ part.size = Part(s.tab, p).size
  BY <1>3 DEF IsRegion
<1>5. a = SetPart(k, g, i, part)
  BY <1>1 DEF Modify
<1> HIDE DEF part, k, a, g, i
<1>6. IsReplaced(k, a, g, t)
  BY <1>1, <1>2, <1>4, <1>5, PartSet
<1>7. InStep(a)
  BY <1>1, <1>6, ReplacedInStep
<1>8. /\ t.scheme = s.tab[g].scheme /\ DOMAIN t.parts = DOMAIN s.tab[g].parts
      /\ t.parts[i] = part /\ \A j \in DOMAIN s.tab[g].parts : j # i => t.parts[j] = s.tab[g].parts[j]
  BY <1>2 DEF Filled, Assign
<1> HIDE DEF t
<1>15. Fits(s.tab, g, t)
  <2>1. LaidOut(s.tab[g].parts, FirstOf(g), LastOf(s.tab, g))
    BY <1>2 DEF Good, Laid
  <2>2. \A j \in DOMAIN t.parts : /\ t.parts[j].start = s.tab[g].parts[j].start
                                 /\ t.parts[j].size = s.tab[g].parts[j].size
    BY <1>2, <1>3, <1>4, <1>8
  <2> QED
    BY <1>2, <1>8, <2>1, <2>2 DEF Fits, LaidOut, Inside, Disjoint, End
<1>9. Sane(r) /\ Kernel(r) = a /\ r.md = s.md
  BY <1>1, <1>7, SaneWith
<1> HIDE DEF r
<1>10. ASSUME NEW but, but = p \/ type = Part(s.tab, p).type
       PROVE  /\ GoodBut(r, but) /\ DOMAIN r.tab = DOMAIN s.tab \cup {g}
              /\ \A n \in DOMAIN r.tab : r.tab[n] = IF n = g THEN t ELSE s.tab[n]
              /\ r.mod = s.mod \cup {g} /\ r.disk = s.disk
              /\ \A q \in Partitions(s.tab) :
                   /\ q \in Partitions(r.tab)
                   /\ q # but => Part(r.tab, q).type = Part(s.tab, q).type
                   /\ Front(q) # g => Part(r.tab, q) = Part(s.tab, q)
              /\ \A q \in Partitions(r.tab) : Front(q) # g => q \in Partitions(s.tab)
  <2>1. t.scheme # None
    BY <1>2, <1>8 DEF Zombie
  <2>2. g \in DOMAIN s.tab => \A j \in DOMAIN s.tab[g].parts :
           /\ j \in DOMAIN t.parts
           /\ Append(g, j) # but => t.parts[j].type = s.tab[g].parts[j].type
    BY <1>2, <1>3, <1>4, <1>8, <1>10
  <2>3. /\ IsReplaced(Kernel(s), Kernel(r), g, t) /\ Range(r.md) = Range(s.md) /\ GoodBut(s, but)
        /\ Fits(s.tab, g, t)
    BY <1>6, <1>9, <1>15, GoodIsGoodBut DEF k
  <2>. QED
    BY <1>9, <2>1, <2>2, <2>3, ReplacedGood
<1>11. type = Part(s.tab, p).type => Good(r)
  BY <1>10, AllBut
<1>12. r.tab[g] = t /\ g \in DOMAIN r.tab /\ DOMAIN r.tab = DOMAIN s.tab
  BY <1>2, <1>10
<1>13. Part(r.tab, p).type = type
  BY <1>4, <1>8, <1>12 DEF Part, g, i
<1>14. /\ GoodBut(r, p) /\ (type = Part(s.tab, p).type => Good(r))
       /\ r.md = s.md /\ r.disk = s.disk /\ DOMAIN r.tab = DOMAIN s.tab
       /\ r.mod = s.mod \cup {Front(p)}
       /\ p \in Partitions(r.tab) /\ Part(r.tab, p).type = type
       /\ \A n \in DOMAIN r.tab : r.tab[n].scheme = s.tab[n].scheme
  BY <1>8, <1>9, <1>10, <1>11, <1>12, <1>13 DEF g
<1>. QED
  BY <1>14 DEF r, a, k

\* What is left when the form of a partition is closed: its nested table goes if
\* its type has changed, and it may get a new one.
LEMMA EditDone ==
  ASSUME NEW s, NEW p \in Partitions(s.tab), GoodBut(s, p), NEW changed \in BOOLEAN,
         ~changed \/ p \notin DOMAIN s.tab => Good(s)
  PROVE  LET bare == IF changed /\ p \in DOMAIN s.tab THEN DestroyNested(s, p) ELSE s
         IN /\ Good(bare) /\ bare.disk = s.disk
            /\ CanCreate(Kernel(bare), p, "BSD") =>
                 Good(Partition(bare, p, "BSD")) /\ Partition(bare, p, "BSD").disk = s.disk
<1> DEFINE bare == IF changed /\ p \in DOMAIN s.tab THEN DestroyNested(s, p) ELSE s
<1>0. Sane(s) /\ Sound(s.tab)
  BY SaneTab DEF GoodBut
<1>1. Good(bare) /\ bare.disk = s.disk
  <2>1. CASE changed /\ p \in DOMAIN s.tab
    <3>1. p \notin DiskNames
      BY <1>0, PartitionIs, DiskNamed, \A x \in Nat : x >= 2 => x # 1
    <3>2. Razed(s, DestroyNested(s, p), p, PartsOf(s.tab, p) \cup {p})
      BY <1>0, <2>1, <3>1, DestroyNestedIs
    <3>3. Held(s.tab, p) = PartsOf(s.tab, p) \cup {p}
      BY <1>0, <2>1, HeldByPart
    <3>4. Good(DestroyNested(s, p))
      BY <2>1, <3>2, <3>3, RazedGood
    <3> QED
      BY <2>1, <3>2, <3>4 DEF Razed
  <2>2. CASE ~(changed /\ p \in DOMAIN s.tab)
    BY <2>2
  <2> QED
    BY <2>1, <2>2
<1>2. ASSUME CanCreate(Kernel(bare), p, "BSD")
      PROVE  Good(Partition(bare, p, "BSD")) /\ Partition(bare, p, "BSD").disk = s.disk
  <2> HIDE DEF bare
  <2>1. IsKernel(Kernel(bare)) /\ Kernel(bare).tab = bare.tab
    BY <1>1, SaneTab, KernelIs DEF Good
  <2>2. Seat(bare.tab, p, Table("BSD"))
    BY <1>2, <2>1, CanCreateSeats
  <2>3. p \in DOMAIN bare.tab => Zombie(bare.tab, p)
    BY <1>2, <2>1 DEF CanCreate
  <2>4. "BSD" \in Schemes
    BY DEF Schemes
  <2> QED
    BY <1>1, <2>2, <2>3, <2>4, PartitionGood
<1> QED
  BY <1>1, <1>2

LEMMA NewfsIs ==
  ASSUME NEW type
  PROVE  Newfs(type) # Keep /\ (Newfs(type) # "" => Newfs(type) = type)
<1>1. CASE type \in {"freebsd-ufs", "freebsd-zfs", "fat32", "efi", "ms-basic-data"}
  <2>1. Newfs(type) = type
    BY <1>1 DEF Newfs
  <2>2. type # Keep
    BY <1>1 DEF Keep
  <2> QED
    BY <2>1, <2>2
<1>2. CASE type \notin {"freebsd-ufs", "freebsd-zfs", "fat32", "efi", "ms-basic-data"}
  <2>1. Newfs(type) = ""
    BY <1>2, Zenon DEF Newfs
  <2>2. "" # Keep
    BY Zenon DEF Keep
  <2> QED
    BY <2>1, <2>2, Zenon
<1> QED
  BY <1>1, <1>2

\* The scheme of the table a partition is in, and what the machine makes of it.
LEMMA SchemeOf ==
  ASSUME NEW tab, Sound(tab), NEW p \in Partitions(tab)
  PROVE  Front(p) \in DOMAIN tab /\ tab[Front(p)].scheme \in Schemes
<1>1. Sits(tab, p)
  BY PartitionIs
<1>2. IsTable(tab[Front(p)])
  BY <1>1, SoundGeoms DEF Sits
<1> QED
  BY <1>1, <1>2, TableParts DEF Sits
LEMMA NeedsNoSlice ==
  ASSUME plat \in Machines, NEW scheme \in Schemes, NEW type, Needs(scheme, type)
  PROVE  type # "freebsd"
<1>1. plat.type[scheme] # "freebsd"
  BY MachinesAssumption
<1>2. "freebsd" \notin FileSystems
  BY DEF FileSystems
<1> QED
  BY <1>1, <1>2 DEF Needs, Unmountable

\* The form of a partition is filled in: all is well but for the partition
\* itself, and for that too unless a table is to go from it.
LEMMA EditGood ==
  ASSUME NEW s, Good(s), plat \in Machines, NEW p \in Partitions(s.tab), ~Zombie(s.tab, p),
         NEW type, NEW mount
  PROVE  LET old == Part(s.tab, p).type
             kept == With(s, Modify(Kernel(s), p, type))
             done == SetDefault(kept, p, s.tab[Front(p)].scheme, type, mount,
                                IF type = old THEN Keep ELSE Newfs(type), Confirmed)
         IN /\ GoodBut(done, p) /\ done.disk = s.disk /\ p \in Partitions(done.tab)
            /\ type = old \/ p \notin DOMAIN done.tab => Good(done)
            /\ type = old => Good(kept)
            /\ kept.disk = s.disk
<1> DEFINE old == Part(s.tab, p).type
           kept == With(s, Modify(Kernel(s), p, type))
           scheme == s.tab[Front(p)].scheme
           newfs == IF type = old THEN Keep ELSE Newfs(type)
           done == SetDefault(kept, p, scheme, type, mount, newfs, Confirmed)
<1>1. Sane(s) /\ Sound(s.tab) /\ Front(p) \in DOMAIN s.tab /\ scheme \in Schemes
  BY SaneTab, SchemeOf DEF Good
<1>2. /\ GoodBut(kept, p) /\ (type = old => Good(kept))
      /\ kept.md = s.md /\ kept.disk = s.disk /\ DOMAIN kept.tab = DOMAIN s.tab
      /\ kept.mod = s.mod \cup {Front(p)}
      /\ p \in Partitions(kept.tab) /\ Part(kept.tab, p).type = type
      /\ \A n \in DOMAIN kept.tab : kept.tab[n].scheme = s.tab[n].scheme
  BY ModifyGood, Good(s), p \in Partitions(s.tab), SMTT(60)
<1> HIDE DEF kept
<1>3. Metadata(s.md, p) \in Range(s.md) \cup {Blank(p)} /\ Metadata(s.md, p).name = p
  BY <1>1, MetadataIs DEF Sane
<1>4. /\ EntryOK(Metadata(s.md, p), s.tab) \/ Metadata(s.md, p) = Blank(p)
      /\ CodeDue(Metadata(s.md, p), s.tab, s.mod) \/ Metadata(s.md, p) = Blank(p)
  BY <1>3 DEF Good
<1>5. GoodBut(done, p) /\ done.disk = kept.disk /\ done.tab = kept.tab
      /\ (Defaults(kept, p, scheme, type, newfs, Confirmed) => Good(done))
  BY <1>2, SetDefaultGood, SMTT(60)
<1>6. ~Zombie(kept.tab, p)
  BY <1>2 DEF Zombie
<1>7. ASSUME type = old \/ p \notin DOMAIN kept.tab
      PROVE  Defaults(kept, p, scheme, type, newfs, Confirmed)
  <2>1. FormatsAs(kept, p, newfs, Confirmed)
    <3>1. CASE type = old
      <4>1. newfs = Keep
        BY <3>1
      <4>2. Metadata(s.md, p) = Blank(p) => Metadata(s.md, p).newfs = ""
        BY BlankIs
      <4>3. Metadata(s.md, p).newfs # "" => old = Metadata(s.md, p).newfs \/ Metadata(s.md, p).cancelled
        BY <1>3, <1>4, <4>2 DEF EntryOK
      <4> QED
        BY <1>2, <3>1, <4>1, <4>3 DEF FormatsAs
    <3>2. CASE type # old
      <4>1. newfs # Keep /\ (newfs # "" => newfs = type)
        BY <3>2, NewfsIs
      <4> QED
        BY <1>2, <4>1 DEF FormatsAs
    <3> QED
      BY <3>1, <3>2
  <2>2. \A n : InSlices(kept.tab, kept.mod, n)
    <3>1. CASE type = old
      BY <1>2, <3>1 DEF Good
    <3>2. CASE p \notin DOMAIN kept.tab
      BY <1>2, <3>2 DEF GoodBut, InSlices
    <3> QED
      BY <1>7, <3>1, <3>2
  <2>3. ASSUME Metadata(kept.md, p).bootcode \/ Needs(scheme, type)
        PROVE  BootsFrom(kept, p)
    <3>1. ASSUME p \in DOMAIN kept.tab
          PROVE  p \in kept.mod
      <4>1. type = old /\ p \in DOMAIN s.tab
        BY <1>2, <1>7, <3>1
      <4>2. CASE Needs(scheme, type)
        <5>1. type # "freebsd"
          BY <1>1, <4>2, NeedsNoSlice
        <5>2. p \notin DiskNames
          BY <1>1, PartitionIs, DiskNamed, \A x \in Nat : x >= 2 => x # 1
        <5>3. InSlices(s.tab, s.mod, <<>>) /\ p # <<>>
          BY <1>1, PartitionIs DEF Good, Names
        <5>4. p \in s.mod
          BY <4>1, <5>1, <5>2, <5>3 DEF InSlices
        <5> QED
          BY <1>2, <5>4
      <4>3. CASE Metadata(kept.md, p).bootcode
        <5>1. Metadata(s.md, p) = Blank(p) => Metadata(s.md, p).bootcode = FALSE
          BY BlankIs
        <5>2. p \in s.mod
          BY <1>2, <1>3, <1>4, <4>1, <4>3, <5>1 DEF CodeDue
        <5> QED
          BY <1>2, <5>2
      <4> QED
        BY <2>3, <4>2, <4>3
    <3> QED
      BY <1>2, <1>6, <3>1 DEF BootsFrom
  <2> QED
    BY <2>1, <2>2, <2>3 DEF Defaults
<1> HIDE DEF done, newfs
<1>8. /\ GoodBut(done, p) /\ done.disk = s.disk /\ p \in Partitions(done.tab)
      /\ type = old \/ p \notin DOMAIN done.tab => Good(done)
      /\ type = old => Good(kept)
      /\ kept.disk = s.disk
  BY <1>2, <1>5, <1>7
<1> QED
  BY <1>8 DEF done, newfs, kept

-----------------------------------------------------------------------------
\* gpart_revert_all().
Undoing(k, x, D) ==
  /\ IsKernel(x) /\ x.disk = k.disk /\ x.mod \subseteq k.mod \ D
  /\ InStep(k) => InStep(x)

LEMMA UndoOne ==
  ASSUME NEW k, NEW x, NEW D, Undoing(k, x, D), NEW g
  PROVE  Undoing(k, UndoChanged(x, g), D \cup {g})
<1>1. CASE g \in x.mod
  <2>1. g \in DOMAIN x.tab
    BY <1>1 DEF Undoing, IsKernel
  <2>2. IsUndone(x, Undo(x, g), g)
    BY <2>1, Undone DEF Undoing
  <2>3. InStep(k) => InStep(Undo(x, g))
    BY <2>1, <2>2, UndoneInStep DEF Undoing
  <2> QED
    BY <1>1, <2>2, <2>3 DEF Undoing, IsUndone, UndoChanged
<1>2. CASE g \notin x.mod
  BY <1>2 DEF Undoing, UndoChanged
<1> QED
  BY <1>1, <1>2

LEMMA AllUndone ==
  ASSUME NEW k, IsKernel(k), NEW n \in Nat, NEW q, DOMAIN q = 1 .. n,
         \A x \in k.mod : \E i \in 1 .. n : q[i] = x
  PROVE  LET r == FoldLeft(UndoChanged, k, q)
         IN IsKernel(r) /\ r.disk = k.disk /\ r.mod = {} /\ (InStep(k) => InStep(r))
<1> DEFINE D(i) == {q[l] : l \in 1 .. i}
<1>1. PICK run : IsRun(3, k, q, n, run) /\ run[n] = FoldLeft(UndoChanged, k, q)
  BY UndoRuns
<1> DEFINE S == {i \in Nat : i <= n => Undoing(k, run[i], D(i))}
<1>2. 0 \in S
  <2>1. D(0) = {}
    OBVIOUS
  <2>2. run[0] = k
    BY <1>1 DEF IsRun
  <2>3. Undoing(k, k, {})
    BY DEF Undoing
  <2> QED
    BY <2>1, <2>2, <2>3
<1>3. ASSUME NEW i \in Nat, i \in S PROVE i + 1 \in S
  <2>0. i + 1 \in Nat
    OBVIOUS
  <2> SUFFICES ASSUME i + 1 <= n PROVE Undoing(k, run[i + 1], D(i + 1))
    BY <2>0, Zenon
  <2>1. i + 1 \in 1 .. n /\ (i + 1) - 1 = i /\ i <= n
    OBVIOUS
  <2>2. Undoing(k, run[i], D(i))
    BY <1>3, <2>1
  <2>3. run[i + 1] = UndoChanged(run[i], q[i + 1])
    BY <1>1, <2>1 DEF IsRun, FoldedBy
  <2>4. D(i + 1) = D(i) \cup {q[i + 1]}
    BY <2>1
  <2> HIDE DEF D
  <2> QED
    BY <2>2, <2>3, <2>4, UndoOne
<1> HIDE DEF S
<1>4. n \in S
  BY <1>2, <1>3, Induction
<1>5. Undoing(k, run[n], D(n))
  BY <1>4 DEF S
<1>6. k.mod \subseteq D(n)
  OBVIOUS
<1> HIDE DEF D
<1>7. k.mod \ D(n) = {}
  BY <1>6
<1> QED
  BY <1>1, <1>5, <1>7 DEF Undoing

\* Nothing is pending any more; and while no change was being written, what is
\* shown is what is on the disks.
LEMMA Reverted ==
  ASSUME NEW s, IsStore(s), IsKernel(Kernel(s))
  PROVE  LET r == RevertAll(s)
         IN /\ IsStore(r) /\ IsKernel(Kernel(r)) /\ r.disk = s.disk /\ r.md = s.md /\ r.mod = {}
            /\ InStep(Kernel(s)) => InStep(Kernel(r)) /\ r.tab = s.disk
<1> DEFINE k == Kernel(s)
           A == {g \in s.mod : IsDisk(g)}
           B == {g \in s.mod : ~IsDisk(g)}
           a == SetToSeq(A)
           b == SetToSeq(B)
           q == a \o b
           n == Len(a) + Len(b)
           u == FoldLeft(UndoChanged, k, q)
           r == RevertAll(s)
<1>1. IsFiniteSet(s.mod)
  BY FS_Subset, KernelIs DEF IsKernel, Sound
<1>2. IsFiniteSet(A) /\ IsFiniteSet(B)
  BY <1>1, FS_Subset
<1>3. a \in Seq(A) /\ b \in Seq(B) /\ Len(a) \in Nat /\ Len(b) \in Nat
      /\ (\A x \in A : \E i \in 1 .. Len(a) : a[i] = x)
      /\ (\A x \in B : \E i \in 1 .. Len(b) : b[i] = x)
  <2> HIDE DEF A, B
  <2> QED
    BY <1>2, SetAsSeq
<1> HIDE DEF a, b
<1>4. a \in Seq(s.mod) /\ b \in Seq(s.mod)
  BY <1>3
<1>5. /\ DOMAIN q = 1 .. n /\ n \in Nat
      /\ \A i \in 1 .. Len(a) : q[i] = a[i]
      /\ \A i \in 1 .. Len(b) : q[Len(a) + i] = b[i]
  BY <1>3, <1>4
<1>6. \A x \in s.mod : \E i \in 1 .. n : q[i] = x
  <2> SUFFICES ASSUME NEW x \in s.mod PROVE \E i \in 1 .. n : q[i] = x
    OBVIOUS
  <2>1. CASE x \in A
    <3>1. PICK i \in 1 .. Len(a) : a[i] = x
      BY <1>3, <2>1
    <3> QED
      BY <1>3, <1>5, <3>1
  <2>2. CASE x \in B
    <3>1. PICK i \in 1 .. Len(b) : b[i] = x
      BY <1>3, <2>2
    <3>2. Len(a) + i \in 1 .. n
      BY <1>3
    <3> QED
      BY <1>5, <3>1, <3>2
  <2> QED
    BY <2>1, <2>2
<1> HIDE DEF q, n
<1>7. k.mod = s.mod /\ k.disk = s.disk /\ IsKernel(k)
  BY KernelIs
<1> HIDE DEF k
<1>8. IsKernel(u) /\ u.disk = k.disk /\ u.mod = {} /\ (InStep(k) => InStep(u))
  BY <1>5, <1>6, <1>7, AllUndone
<1>9. r = With(s, u)
  BY DEF RevertAll, q, a, b, k
<1> HIDE DEF u, r
<1>10. InStep(u) => u.tab = u.disk
  BY <1>8, NothingPending
<1>11. /\ IsStore(r) /\ Kernel(r) = u /\ r.md = s.md
       /\ r.tab = u.tab /\ r.mod = u.mod /\ r.disk = u.disk
  BY <1>8, <1>9, WithIs
<1>12. /\ IsStore(r) /\ IsKernel(Kernel(r)) /\ r.disk = s.disk /\ r.md = s.md /\ r.mod = {}
       /\ InStep(k) => InStep(Kernel(r)) /\ r.tab = s.disk
  BY <1>7, <1>8, <1>10, <1>11
<1> QED
  BY <1>12 DEF r, k

-----------------------------------------------------------------------------
\* What init_fstab_metadata() starts from.
LEMMA DisksSound ==
  ASSUME NEW tab, OnDisks(tab)
  PROVE  /\ Sound(tab) /\ Shaped(tab) /\ Whole(tab)
         /\ \A name : InSlices(tab, {}, name)
<1>1. ASSUME NEW g \in DOMAIN tab, g \notin DiskNames
      PROVE  Slot(tab, g) /\ Part(tab, g).type = "freebsd"
  <2>1. InSlice(tab, g)
    BY <1>1 DEF OnDisks
  <2>2. PICK h \in DiskNames \cap DOMAIN tab : \E i \in DOMAIN tab[h].parts :
          g = Append(h, i) /\ tab[h].parts[i].type = "freebsd"
    BY <2>1 DEF InSlice
  <2>3. PICK i \in DOMAIN tab[h].parts : g = Append(h, i) /\ tab[h].parts[i].type = "freebsd"
    BY <2>2
  <2>4. i \in Nat
    BY <2>2, <2>3, TableParts DEF OnDisks
  <2>5. h \in Names /\ Len(h) = 1
    BY <2>2, DiskNamed
  <2>6. /\ Append(h, i) \in Names /\ Len(Append(h, i)) = Len(h) + 1
        /\ Front(Append(h, i)) = h /\ Last(Append(h, i)) = i
    BY <2>4, <2>5, Grown, Zenon
  <2>7. g \in Names /\ Front(g) = h /\ Last(g) = i /\ Len(g) = Len(h) + 1
    BY <2>3, <2>6, Zenon
  <2>8. Len(g) = 2
    BY <2>5, <2>7
  <2> QED
    BY <2>2, <2>3, <2>7, <2>8, Zenon DEF Slot, Sits, Part
<1>2. Sound(tab)
  BY <1>1 DEF Sound, OnDisks
<1>3. Shaped(tab)
  BY <1>1 DEF Shaped, OnDisks, Slot
<1>4. Whole(tab)
  BY <1>1 DEF Whole, Slot
<1> QED
  BY <1>1, <1>2, <1>3, <1>4 DEF InSlices

LEMMA EntryIs ==
  ASSUME NEW name, NEW mount, NEW fs, NEW newfs, NEW cancelled, NEW bootcode
  PROVE  LET m == [name |-> name, mount |-> mount, fs |-> fs, newfs |-> newfs,
                   cancelled |-> cancelled, bootcode |-> bootcode]
         IN IsEntry(m) /\ m.name = name /\ m.mount = mount /\ m.newfs = newfs /\ m.bootcode = bootcode
BY DEF IsEntry
LEMMA FromFstabIs ==
  ASSUME NEW lines, lines \in Seq(Range(lines))
  PROVE  LET md == FromFstab(lines)
         IN /\ IsList(md) /\ DOMAIN md = DOMAIN lines
            /\ \A i \in DOMAIN md : /\ md[i].name = lines[i].name /\ md[i].mount = lines[i].mount
                                    /\ md[i].newfs = "" /\ md[i].bootcode = FALSE
<1> DEFINE md == FromFstab(lines)
<1>1. DOMAIN md = DOMAIN lines
  BY DEF FromFstab
<1>2. ASSUME NEW i \in DOMAIN md
      PROVE  /\ IsEntry(md[i]) /\ md[i].name = lines[i].name /\ md[i].mount = lines[i].mount
             /\ md[i].newfs = "" /\ md[i].bootcode = FALSE
  <2>1. md[i] = [Blank(lines[i].name) EXCEPT !.mount = lines[i].mount, !.fs = "freebsd-ufs"]
    BY <1>1, <1>2 DEF FromFstab
  <2> DEFINE e == [name |-> lines[i].name, mount |-> lines[i].mount, fs |-> "freebsd-ufs",
                   newfs |-> "", cancelled |-> FALSE, bootcode |-> FALSE]
  <2>2. md[i] = e
    BY <2>1, Zenon DEF Blank
  <2>3. /\ IsEntry(e) /\ e.name = lines[i].name /\ e.mount = lines[i].mount
        /\ e.newfs = "" /\ e.bootcode = FALSE
    BY EntryIs, Zenon
  <2> HIDE DEF e, md
  <2> QED
    BY <2>2, <2>3, Zenon
<1>3. md \in Seq(Range(md))
  <2>1. Len(lines) \in Nat /\ DOMAIN lines = 1 .. Len(lines)
    OBVIOUS
  <2>2. md = [i \in 1 .. Len(lines) |-> md[i]]
    BY <2>1 DEF FromFstab
  <2>3. \A i \in 1 .. Len(lines) : md[i] \in Range(md)
    BY <1>1, <2>1 DEF Range
  <2> HIDE DEF md
  <2> QED
    BY <2>1, <2>2, <2>3
<1> HIDE DEF md
<1>4. /\ IsList(md) /\ DOMAIN md = DOMAIN lines
      /\ \A i \in DOMAIN md : /\ md[i].name = lines[i].name /\ md[i].mount = lines[i].mount
                              /\ md[i].newfs = "" /\ md[i].bootcode = FALSE
  BY <1>1, <1>2, <1>3 DEF IsList
<1> QED
  BY <1>4 DEF md

\* The session begins, or begins again.
LEMMA FreshGood ==
  ASSUME NEW s, IsStore(s), OnDisks(s.disk), s.tab = s.disk, s.mod = {},
         fstab \in Fstabs, \A i \in DOMAIN fstab : fstab[i].name \in Partitions(s.disk) \cup {Label},
         s.md = FromFstab(fstab)
  PROVE  Good(s)
<1>1. /\ fstab \in Seq(Range(fstab))
      /\ \A i, j \in DOMAIN fstab : fstab[i].name = fstab[j].name /\ fstab[i].name # Label => i = j
  BY FstabsAssumption
<1> DEFINE md == FromFstab(fstab)
<1>0. /\ IsList(md) /\ DOMAIN md = DOMAIN fstab
      /\ \A i \in DOMAIN md : /\ md[i].name = fstab[i].name /\ md[i].mount = fstab[i].mount
                              /\ md[i].newfs = "" /\ md[i].bootcode = FALSE
  BY <1>1, FromFstabIs, Zenon
<1> HIDE DEF md
<1>2. /\ IsList(s.md) /\ DOMAIN s.md = DOMAIN fstab
      /\ \A i \in DOMAIN s.md : /\ s.md[i].name = fstab[i].name /\ s.md[i].mount = fstab[i].mount
                                /\ s.md[i].newfs = "" /\ s.md[i].bootcode = FALSE
  BY <1>0, Zenon DEF md
<1>3. Once(s.md)
  BY <1>1, <1>2 DEF Once
<1>4. Sound(s.tab) /\ Shaped(s.disk) /\ Whole(s.disk) /\ \A name : InSlices(s.tab, s.mod, name)
  BY DisksSound
<1>5. Sane(s)
  BY <1>2, <1>3, <1>4, KernelIs DEF Sane, InStep, IsKernel, Written, Gone, Kernel
<1>6. ASSUME NEW m \in Range(s.md) PROVE EntryOK(m, s.tab) /\ CodeDue(m, s.tab, s.mod)
  <2>1. PICK i \in DOMAIN s.md : m = s.md[i]
    BY <1>6 DEF Range
  <2>2. m.name \in Partitions(s.tab) \cup Labels
    BY <1>2, <2>1 DEF Labels
  <2>3. m.newfs = "" /\ m.bootcode = FALSE
    BY <1>2, <2>1
  <2> QED
    BY <2>2, <2>3 DEF EntryOK, CodeDue
<1> QED
  BY <1>4, <1>5, <1>6 DEF Good, OnDisks

-----------------------------------------------------------------------------
\* gpart_commit() of one geom: what is pending elsewhere stays so, and only what
\* was to be destroyed is gone.
Writing(s) ==
  /\ IsStore(s) /\ IsKernel(Kernel(s)) /\ Written(Kernel(s)) /\ IsList(s.md) /\ Once(s.md)
  /\ Laid(s.tab)
  /\ \A m \in Range(s.md) : EntryOK(m, s.tab)

LEMMA Committed ==
  ASSUME NEW k, IsKernel(k), Written(k), NEW g \in DOMAIN k.tab
  PROVE  LET r == Commit(k, g)
         IN /\ IsKernel(r) /\ Written(r) /\ r.mod = k.mod \ {g}
            /\ DOMAIN r.tab = DOMAIN k.tab \ {n \in {g} : Zombie(k.tab, n)}
            /\ \A n \in DOMAIN r.tab : r.tab[n] = k.tab[n]
            /\ \A q : q \in Partitions(r.tab) <=> q \in Partitions(k.tab)
<1> DEFINE r == Commit(k, g)
           zombies == {n \in {g} : Zombie(k.tab, n)}
           gone == {n \in DOMAIN k.disk : Front(n) = g /\ n \notin DOMAIN k.tab}
           left == DOMAIN k.disk \ (gone \cup {g})
           others == Restrict(k.disk, left)
<1>1. Sound(k.tab) /\ Shaped(k.disk) /\ k.mod \subseteq DOMAIN k.tab
  BY DEF IsKernel
<1>2. /\ DOMAIN others = left /\ IsFiniteSet(left)
      /\ \A n \in left : n \in DOMAIN k.disk /\ others[n] = k.disk[n]
      /\ others = [n \in DOMAIN others |-> others[n]]
  BY <1>1, FS_Subset DEF Restrict, Shaped
<1>3. (IF Zombie(k.tab, g) THEN {g} ELSE {}) = zombies
  OBVIOUS
<1>4. r = [tab |-> r.tab, mod |-> r.mod, disk |-> r.disk]
  BY DEF Commit
<1>5. r.mod = k.mod \ {g}
  BY DEF Commit
<1>6. r.tab = Restrict(k.tab, DOMAIN k.tab \ zombies)
  BY <1>3 DEF Commit
<1>7. r.disk = IF Zombie(k.tab, g) THEN others ELSE Assign(others, g, k.tab[g])
  BY DEF Commit
<1> HIDE DEF r, others, left
<1>8. /\ DOMAIN r.tab = DOMAIN k.tab \ zombies
      /\ \A n \in DOMAIN r.tab : r.tab[n] = k.tab[n]
      /\ r.tab = [n \in DOMAIN r.tab |-> r.tab[n]]
  BY <1>6 DEF Restrict
<1>9. ASSUME NEW n \in Names, Sits(k.tab, n)
      PROVE  Front(n) \notin zombies
  <2>1. ASSUME Zombie(k.tab, Front(n)) PROVE FALSE
    <3>1. IsTable(k.tab[Front(n)])
      BY <1>1, <1>9, SoundGeoms DEF Sits
    <3> QED
      BY <1>9, <2>1, <3>1, TableParts DEF Sits, Zombie
  <2> QED
    BY <2>1
<1>10. \A n \in Names : Sits(k.tab, n) <=> Sits(r.tab, n)
  BY <1>8, <1>9 DEF Sits
<1>11. Sound(r.tab)
  <2>1. IsFiniteSet(DOMAIN r.tab)
    BY <1>1, <1>8, FS_Subset DEF Sound
  <2>2. ASSUME NEW n \in DOMAIN r.tab
        PROVE  /\ IsTable(r.tab[n])
               /\ n \in DiskNames \/ (Slot(r.tab, n) /\ r.tab[n].scheme \in {"BSD", None})
    BY <1>1, <1>8, <1>10 DEF Sound, Slot
  <2> QED
    BY <1>8, <2>1, <2>2 DEF Sound
<1>12. Shaped(r.disk)
  <2>1. CASE Zombie(k.tab, g)
    BY <1>1, <1>2, <1>7, <2>1 DEF Shaped
  <2>2. CASE ~Zombie(k.tab, g)
    <3>1. /\ DOMAIN r.disk = left \cup {g} /\ r.disk[g] = k.tab[g]
          /\ \A n \in left : n # g => r.disk[n] = k.disk[n]
          /\ r.disk = [n \in DOMAIN r.disk |-> r.disk[n]]
      BY <1>2, <1>7, <2>2 DEF Assign
    <3>2. IsFiniteSet(DOMAIN r.disk)
      BY <1>2, <3>1, FS_AddElement
    <3>3. k.tab[g].scheme # None
      BY <2>2 DEF Zombie
    <3>4. IsTable(k.tab[g]) /\ (g \notin DiskNames => Slot(k.tab, g) /\ k.tab[g].scheme = "BSD")
      BY <1>1, <3>3, SoundGeoms
    <3> QED
      BY <1>1, <1>2, <3>1, <3>2, <3>3, <3>4 DEF Shaped, Slot
  <2> QED
    BY <2>1, <2>2
<1>13. r.mod \subseteq DOMAIN r.tab
  BY <1>1, <1>5, <1>8
<1>14. Written(r)
  <2>1. ASSUME NEW n \in DOMAIN r.tab \ r.mod
        PROVE  n \in DOMAIN r.disk /\ r.tab[n] = r.disk[n]
    <3>1. CASE n = g
      BY <1>2, <1>7, <1>8, <2>1, <3>1 DEF Assign
    <3>2. CASE n # g
      <4>1. n \in DOMAIN k.disk /\ k.tab[n] = k.disk[n] /\ n \in DOMAIN k.tab
        BY <1>5, <1>8, <2>1, <3>2 DEF Written
      <4>2. n \in left
        BY <3>2, <4>1 DEF left
      <4> QED
        BY <1>2, <1>7, <1>8, <3>2, <4>1, <4>2 DEF Assign
    <3> QED
      BY <3>1, <3>2
  <2> QED
    BY <2>1 DEF Written
<1>15. IsKernel(r)
  BY <1>4, <1>11, <1>12, <1>13 DEF IsKernel
<1>16. \A q : q \in Partitions(r.tab) <=> q \in Partitions(k.tab)
  BY <1>1, <1>10, <1>11, PartitionIs
<1> QED
  BY <1>5, <1>8, <1>14, <1>15, <1>16 DEF r

LEMMA OneWritten ==
  ASSUME NEW s, Writing(s), NEW g \in DOMAIN s.tab
  PROVE  LET r == With(s, Commit(Kernel(s), g))
         IN /\ Writing(r) /\ r.md = s.md /\ r.mod = s.mod \ {g}
            /\ DOMAIN r.tab = DOMAIN s.tab \ {n \in {g} : Zombie(s.tab, n)}
            /\ \A n \in DOMAIN r.tab : r.tab[n] = s.tab[n]
            /\ \A q : q \in Partitions(r.tab) <=> q \in Partitions(s.tab)
<1> DEFINE k == Kernel(s)
           c == Commit(k, g)
           r == With(s, c)
<1>1. k.tab = s.tab /\ k.mod = s.mod /\ IsKernel(k) /\ Written(k) /\ IsStore(s) /\ g \in DOMAIN k.tab
  BY KernelIs DEF Writing
<1> HIDE DEF k
<1>2. /\ IsKernel(c) /\ Written(c) /\ c.mod = k.mod \ {g}
      /\ DOMAIN c.tab = DOMAIN k.tab \ {n \in {g} : Zombie(k.tab, n)}
      /\ \A n \in DOMAIN c.tab : c.tab[n] = k.tab[n]
      /\ \A q : q \in Partitions(c.tab) <=> q \in Partitions(k.tab)
  BY <1>1, Committed
<1> HIDE DEF c
<1>3. IsStore(r) /\ Kernel(r) = c /\ r.md = s.md /\ r.tab = c.tab /\ r.mod = c.mod
  BY <1>1, <1>2, WithIs
<1> HIDE DEF r
<1>4. ASSUME NEW m \in Range(r.md) PROVE EntryOK(m, r.tab)
  <2>1. EntryOK(m, s.tab)
    BY <1>3, <1>4 DEF Writing
  <2>2. \A q : q \in Partitions(r.tab) <=> q \in Partitions(s.tab)
    BY <1>1, <1>2, <1>3
  <2>3. m.name \in Partitions(s.tab) => Part(r.tab, m.name) = Part(s.tab, m.name)
    <3>1. SUFFICES ASSUME m.name \in Partitions(s.tab) PROVE Part(r.tab, m.name) = Part(s.tab, m.name)
      OBVIOUS
    <3>2. Front(m.name) \in DOMAIN r.tab
      BY <1>2, <1>3, <2>2, <3>1, PartitionIs DEF IsKernel, Sits
    <3> QED
      BY <1>1, <1>2, <1>3, <3>2 DEF Part
  <2> QED
    BY <2>1, <2>2, <2>3 DEF EntryOK
<1>7. Laid(r.tab)
  <2>1. Laid(s.tab) /\ Sound(r.tab)
    BY <1>2, <1>3 DEF Writing, IsKernel
  <2>2. \A n \in DOMAIN r.tab : n \in DOMAIN s.tab /\ r.tab[n] = s.tab[n]
    BY <1>1, <1>2, <1>3
  <2>3. <<>> \notin DOMAIN r.tab
    BY <2>1, GeomNames
  <2>4. \A n \in DOMAIN r.tab : n \notin DiskNames => Part(r.tab, n) = Part(s.tab, n)
    BY <2>1, <2>2, GeomNames DEF Part
  <2> QED
    BY <2>1, <2>2, <2>3, <2>4, StillLaid
<1>5. Writing(r)
  BY <1>2, <1>3, <1>4, <1>7 DEF Writing
<1>6. /\ Writing(r) /\ r.md = s.md /\ r.mod = s.mod \ {g}
      /\ DOMAIN r.tab = DOMAIN s.tab \ {n \in {g} : Zombie(s.tab, n)}
      /\ \A n \in DOMAIN r.tab : r.tab[n] = s.tab[n]
      /\ \A q : q \in Partitions(r.tab) <=> q \in Partitions(s.tab)
  BY <1>1, <1>2, <1>3, <1>5
<1> QED
  BY <1>6 DEF r, c, k

-----------------------------------------------------------------------------
\* gpart_max_free().  The partitions seen so far are the lower ones, whatever is
\* taken next is the topmost of those left: the fold is over all their sets.
Placed(P) == IsFiniteSet(P) /\ \A p \in P : p.start \in Int

LEMMA TopmostIs ==
  ASSUME NEW P, Placed(P), P # {}
  PROVE  Topmost(P) \in P /\ \A q \in P : q.start <= Topmost(P).start
<1> DEFINE Tops(t) == \E p \in t : \A q \in t : q.start <= p.start
           S == {m \in Nat : \A t \in SUBSET P : Cardinality(t) = m + 1 => Tops(t)}
<1>1. \A t \in SUBSET P : IsFiniteSet(t) /\ Cardinality(t) \in Nat
  BY FS_Subset, FS_CardinalityType DEF Placed
<1>2. 0 \in S
  <2> SUFFICES ASSUME NEW t \in SUBSET P, Cardinality(t) = 0 + 1 PROVE Tops(t)
    BY Zenon
  <2>1. PICK p : t = {p}
    BY <1>1, FS_Singleton, 0 + 1 = 1
  <2>2. p.start \in Int
    BY <2>1 DEF Placed
  <2> QED
    BY <2>1, <2>2
<1>3. ASSUME NEW m \in Nat, m \in S PROVE m + 1 \in S
  <2>0. m + 1 \in Nat
    OBVIOUS
  <2> SUFFICES ASSUME NEW t \in SUBSET P, Cardinality(t) = (m + 1) + 1 PROVE Tops(t)
    BY <2>0, Zenon
  <2>1. PICK x \in t : TRUE
    <3>1. t # {}
      BY <1>1, FS_EmptySet
    <3> QED
      BY <3>1
  <2>2. Cardinality(t \ {x}) = m + 1
    <3>1. Cardinality(t \ {x}) = Cardinality(t) - 1
      BY <1>1, <2>1, FS_RemoveElement
    <3> QED
      BY <3>1
  <2>3. Tops(t \ {x})
    BY <1>3, <2>2, Zenon
  <2>4. PICK p \in t \ {x} : \A q \in t \ {x} : q.start <= p.start
    BY <2>3
  <2>5. p.start \in Int /\ x.start \in Int /\ \A q \in t : q.start \in Int
    BY <2>1 DEF Placed
  <2>6. CASE x.start <= p.start
    <3>1. \A q \in t : q.start <= p.start
      BY <2>4, <2>6
    <3> QED
      BY <2>4, <3>1, Zenon
  <2>7. CASE ~(x.start <= p.start)
    <3>1. \A q \in t : q.start <= x.start
      BY <2>4, <2>5, <2>7
    <3> QED
      BY <2>1, <3>1, Zenon
  <2> QED
    BY <2>6, <2>7
<1> HIDE DEF S
<1>4. \A m \in Nat : m \in S
  BY <1>2, <1>3, Induction
<1>5. Tops(P)
  <2>1. Cardinality(P) \in Nat /\ Cardinality(P) # 0
    BY <1>1, FS_EmptySet DEF Placed
  <2>2. Cardinality(P) - 1 \in Nat /\ (Cardinality(P) - 1) + 1 = Cardinality(P)
    BY <2>1
  <2> HIDE DEF Tops
  <2> QED
    BY <1>4, <2>2 DEF S
<1> QED
  BY <1>5, Zenon DEF Topmost

Unseen(first) == [last |-> first - 1, best |-> Gap(0, 1)]
SeenStep(first, h, s) ==
  IF s = {} THEN Unseen(first) ELSE Look(Topmost(s), h[s \ {Topmost(s)}])
IsSeen(h, first, P) == h = [s \in SUBSET P |-> SeenStep(first, h, s)]

LEMMA SeenExists ==
  ASSUME NEW P, Placed(P), NEW first
  PROVE  \E h : IsSeen(h, first, P)
<1> DEFINE Upto(m) == {s \in SUBSET P : Cardinality(s) <= m}
           Sofar(m, f) == \A s \in Upto(m) : f[s] = SeenStep(first, f, s)
           Built(m) == \E f : Sofar(m, f)
           S == {m \in Nat : Built(m)}
<1>1. \A s \in SUBSET P : IsFiniteSet(s) /\ Cardinality(s) \in Nat /\ Placed(s)
                          /\ (Cardinality(s) = 0 <=> s = {})
  BY FS_Subset, FS_CardinalityType, FS_EmptySet DEF Placed
<1>2. \A s \in SUBSET P : s # {} =>
        /\ Topmost(s) \in s /\ s \ {Topmost(s)} \in SUBSET P
        /\ Cardinality(s \ {Topmost(s)}) = Cardinality(s) - 1
  <2> SUFFICES ASSUME NEW s \in SUBSET P, s # {}
               PROVE  /\ Topmost(s) \in s /\ s \ {Topmost(s)} \in SUBSET P
                      /\ Cardinality(s \ {Topmost(s)}) = Cardinality(s) - 1
    OBVIOUS
  <2>1. Topmost(s) \in s
    BY <1>1, TopmostIs
  <2> QED
    BY <1>1, <2>1, FS_RemoveElement
<1>3. 0 \in S
  <2> DEFINE f == [s \in SUBSET P |-> Unseen(first)]
  <2>1. \A s \in Upto(0) : s = {} /\ s \in SUBSET P
    BY <1>1
  <2>2. Sofar(0, f)
    BY <2>1, Zenon DEF SeenStep
  <2>3. Built(0)
    <3> HIDE DEF f, Sofar
    <3> QED
      BY <2>2, Zenon
  <2> HIDE DEF Built
  <2> QED
    BY <2>3
<1>4. ASSUME NEW m \in Nat, m \in S PROVE m + 1 \in S
  <2>0. Built(m)
    <3> HIDE DEF Built
    <3> QED
      BY <1>4
  <2>1. PICK f : Sofar(m, f)
    BY <2>0, Zenon
  <2> DEFINE g == [s \in SUBSET P |-> IF s \in Upto(m) THEN f[s] ELSE SeenStep(first, f, s)]
  <2>2. ASSUME NEW s \in Upto(m + 1) PROVE g[s] = SeenStep(first, f, s) /\ s \in SUBSET P
    BY <2>1, Zenon
  <2>3. ASSUME NEW s \in Upto(m + 1), s # {}
        PROVE  g[s \ {Topmost(s)}] = f[s \ {Topmost(s)}]
    <3>1. s \ {Topmost(s)} \in Upto(m)
      BY <1>1, <1>2, <2>3
    <3> HIDE DEF Upto
    <3>2. s \ {Topmost(s)} \in SUBSET P
      BY <1>2, <3>1 DEF Upto
    <3> QED
      BY <3>1, <3>2, Zenon
  <2>4. Sofar(m + 1, g)
    <3> SUFFICES ASSUME NEW s \in Upto(m + 1) PROVE g[s] = SeenStep(first, g, s)
      BY Zenon
    <3>1. SeenStep(first, g, s) = SeenStep(first, f, s)
      <4> HIDE DEF g, Upto
      <4> QED
        BY <2>3, Zenon DEF SeenStep
    <3> HIDE DEF g
    <3> QED
      BY <2>2, <3>1, Zenon
  <2>5. Built(m + 1)
    <3> HIDE DEF g, Sofar
    <3> QED
      BY <2>4, Zenon
  <2> HIDE DEF Built
  <2> QED
    BY <2>5
<1> HIDE DEF S
<1>5. Cardinality(P) \in S
  BY <1>1, <1>3, <1>4, Induction
<1>6. Built(Cardinality(P))
  <2> HIDE DEF Built
  <2> QED
    BY <1>5 DEF S
<1>7. PICK f : Sofar(Cardinality(P), f)
  BY <1>6, Zenon
<1>8. \A s \in SUBSET P : s \in Upto(Cardinality(P))
  BY <1>1, FS_Subset DEF Placed
<1>9. \A s \in SUBSET P : f[s] = SeenStep(first, f, s)
  BY <1>7, <1>8, Zenon
<1> DEFINE h == [s \in SUBSET P |-> f[s]]
<1>10. \A s \in SUBSET P : SeenStep(first, h, s) = SeenStep(first, f, s)
  <2> SUFFICES ASSUME NEW s \in SUBSET P PROVE SeenStep(first, h, s) = SeenStep(first, f, s)
    OBVIOUS
  <2>1. s \ {Topmost(s)} \in SUBSET P
    OBVIOUS
  <2>2. h[s \ {Topmost(s)}] = f[s \ {Topmost(s)}]
    BY <2>1, Zenon
  <2> QED
    BY <2>2, Zenon DEF SeenStep
<1>11. h = [s \in SUBSET P |-> SeenStep(first, h, s)]
  BY <1>9, <1>10, Zenon
<1> QED
  BY <1>11, Zenon DEF IsSeen

LEMMA SeenIs ==
  ASSUME NEW P, Placed(P), NEW first
  PROVE  \E h : IsSeen(h, first, P) /\ Seen(P, first) = h[P]
<1> DEFINE A(h, s) == IF s = {} THEN Unseen(first)
                      ELSE Look(Topmost(s), h[s \ {Topmost(s)}])
<1>1. \A h, s : A(h, s) = SeenStep(first, h, s)
  BY DEF SeenStep
<1>2. PICK g : IsSeen(g, first, P)
  BY SeenExists
<1> HIDE DEF A
<1>3. g = [s \in SUBSET P |-> A(g, s)]
  BY <1>1, <1>2, Zenon DEF IsSeen
<1> DEFINE f == CHOOSE h : h = [s \in SUBSET P |-> A(h, s)]
<1>4. f = [s \in SUBSET P |-> A(f, s)]
  BY <1>3, Zenon
<1>5. Seen(P, first) = f[P]
  BY Zenon DEF Seen, MapThenFoldSet, A, Unseen
<1> HIDE DEF f
<1>6. IsSeen(f, first, P)
  BY <1>1, <1>4, Zenon DEF IsSeen
<1> QED
  BY <1>5, <1>6, Zenon

\* What a look at partitions that are apart has found: the end of the last of
\* them, and a gap none of them reaches into.
Apart(part, start, size) == End(part) < start \/ start + size - 1 < part.start
Looked(P, first, seen) ==
  /\ seen.last \in Int /\ seen.best.start \in Int /\ seen.best.size \in Nat
  /\ seen.last >= first - 1 /\ \A p \in P : End(p) <= seen.last
  /\ seen.last # first - 1 => \E p \in P : seen.last = End(p)
  /\ seen.best.size > 0 =>
       /\ seen.best.start >= first /\ seen.best.start + seen.best.size - 1 <= seen.last
       /\ \A p \in P : Apart(p, seen.best.start, seen.best.size)
Spread(P, first, last) ==
  /\ IsFiniteSet(P) /\ \A p \in P : Inside(p, first, last)
  /\ \A p, q \in P : p # q => Disjoint(p, q)

LEMMA LookFurther ==
  ASSUME NEW first \in Int, NEW last \in Int, NEW P, Spread(P, first, last), NEW x \in P,
         \A q \in P : q.start <= x.start, NEW seen, Looked(P \ {x}, first, seen)
  PROVE  Looked(P, first, Look(x, seen))
<1> DEFINE e == Look(x, seen)
           gap == Gap(seen.last, x.start)
<1>1. /\ x.start \in Int /\ x.size \in Int /\ x.size > 0 /\ x.start >= first
      /\ End(x) = x.start + x.size - 1 /\ End(x) \in Int
  BY DEF Spread, Inside, End
<1>2. \A p \in P : p.start \in Int /\ p.size \in Int /\ End(p) \in Int /\ p.start <= End(p)
  BY DEF Spread, Inside, End
<1>3. \A p \in P \ {x} : End(p) < x.start
  <2> SUFFICES ASSUME NEW p \in P \ {x} PROVE End(p) < x.start
    OBVIOUS
  <2>1. Disjoint(p, x) /\ p.start <= x.start
    BY DEF Spread
  <2> QED
    BY <1>1, <1>2, <2>1 DEF Disjoint
<1>4. /\ e.last = End(x)
      /\ e.best = IF x.start - seen.last > seen.best.size THEN gap ELSE seen.best
  BY DEF Look
<1>5. gap.start = seen.last + 1 /\ gap.size = x.start - seen.last - 1
  BY DEF Gap
<1>6. /\ seen.last \in Int /\ seen.best.start \in Int /\ seen.best.size \in Nat
      /\ seen.last >= first - 1 /\ \A p \in P \ {x} : End(p) <= seen.last
  BY DEF Looked
<1>7. seen.last < x.start
  <2>1. CASE seen.last = first - 1
    BY <1>1, <2>1
  <2>2. CASE seen.last # first - 1
    <3>1. PICK p \in P \ {x} : seen.last = End(p)
      BY <2>2 DEF Looked
    <3> QED
      BY <1>3, <3>1
  <2> QED
    BY <2>1, <2>2
<1> SUFFICES Looked(P, first, e)
  OBVIOUS
<1> HIDE DEF e, gap
<1>11. e.last # first - 1 => \E p \in P : e.last = End(p)
  BY <1>4, Zenon
<1>8. e.last \in Int /\ e.last >= first - 1 /\ \A p \in P : End(p) <= e.last
  <2>1. \A p \in P \ {x} : End(p) <= e.last
    BY <1>1, <1>2, <1>3, <1>4
  <2> QED
    BY <1>1, <1>4, <2>1
<1>9. CASE x.start - seen.last > seen.best.size
  <2>1. e.best.start = seen.last + 1 /\ e.best.size = x.start - seen.last - 1
    BY <1>4, <1>5, <1>9
  <2>2. e.best.start \in Int /\ e.best.size \in Nat
    BY <1>1, <1>6, <1>9, <2>1
  <2>3. e.best.start >= first /\ e.best.start + e.best.size - 1 = x.start - 1
    BY <1>1, <1>6, <2>1
  <2>4. \A p \in P \ {x} : Apart(p, e.best.start, e.best.size)
    BY <1>2, <1>6, <2>1 DEF Apart
  <2>5. Apart(x, e.best.start, e.best.size)
    BY <1>1, <2>3 DEF Apart
  <2>6. \A p \in P : Apart(p, e.best.start, e.best.size)
    BY <2>4, <2>5, Zenon
  <2>7. e.best.start + e.best.size - 1 <= e.last
    BY <1>1, <1>4, <2>3
  <2> QED
    BY <1>1, <1>4, <1>8, <1>11, <2>2, <2>3, <2>6, <2>7 DEF Looked
<1>10. CASE ~(x.start - seen.last > seen.best.size)
  <2>1. e.best = seen.best
    BY <1>4, <1>10
  <2>2. ASSUME e.best.size > 0
        PROVE  /\ e.best.start >= first /\ e.best.start + e.best.size - 1 <= e.last
               /\ \A p \in P : Apart(p, e.best.start, e.best.size)
    <3>1. /\ e.best.start >= first /\ e.best.start + e.best.size - 1 <= seen.last
          /\ \A p \in P \ {x} : Apart(p, e.best.start, e.best.size)
      BY <2>1, <2>2 DEF Looked
    <3>2. Apart(x, e.best.start, e.best.size) /\ e.best.start + e.best.size - 1 <= e.last
      BY <1>1, <1>4, <1>6, <1>7, <2>1, <3>1 DEF Apart
    <3> QED
      BY <3>1, <3>2
  <2> QED
    BY <1>6, <1>8, <1>11, <2>1, <2>2 DEF Looked
<1> QED
  BY <1>9, <1>10

LEMMA SeenLooked ==
  ASSUME NEW first \in Int, NEW last \in Int, NEW P, Spread(P, first, last)
  PROVE  Looked(P, first, Seen(P, first))
<1>1. Placed(P)
  BY DEF Spread, Placed, Inside
<1>2. PICK h : IsSeen(h, first, P) /\ Seen(P, first) = h[P]
  BY <1>1, SeenIs, Zenon
<1> DEFINE S == {m \in Nat : \A s \in SUBSET P : Cardinality(s) = m => Looked(s, first, h[s])}
<1>3. \A s \in SUBSET P : /\ h[s] = SeenStep(first, h, s) /\ Spread(s, first, last) /\ Placed(s)
                          /\ Cardinality(s) \in Nat /\ (Cardinality(s) = 0 => s = {})
  <2>1. \A s \in SUBSET P : IsFiniteSet(s)
    BY <1>1, FS_Subset DEF Placed
  <2>2. \A s \in SUBSET P : Spread(s, first, last) /\ Placed(s)
    BY <1>1, <2>1 DEF Spread, Placed
  <2>3. \A s \in SUBSET P : h[s] = SeenStep(first, h, s)
    BY <1>2, Zenon DEF IsSeen
  <2> QED
    BY <2>1, <2>2, <2>3, FS_CardinalityType, FS_EmptySet
<1>4. 0 \in S
  <2> SUFFICES ASSUME NEW s \in SUBSET P, Cardinality(s) = 0 PROVE Looked(s, first, h[s])
    BY Zenon
  <2>1. s = {} /\ h[s] = Unseen(first)
    BY <1>3, Zenon DEF SeenStep
  <2>2. /\ Unseen(first).last = first - 1 /\ Unseen(first).best.start = 1
        /\ Unseen(first).best.size = 0
    BY DEF Unseen, Gap
  <2> QED
    BY <2>1, <2>2 DEF Looked
<1>5. ASSUME NEW m \in Nat, m \in S PROVE m + 1 \in S
  <2>0. m + 1 \in Nat
    OBVIOUS
  <2> SUFFICES ASSUME NEW s \in SUBSET P, Cardinality(s) = m + 1 PROVE Looked(s, first, h[s])
    BY <2>0, Zenon
  <2> DEFINE x == Topmost(s)
  <2>1. s # {}
    BY FS_EmptySet
  <2>2. x \in s /\ \A q \in s : q.start <= x.start
    BY <1>3, <2>1, TopmostIs
  <2>3. h[s] = Look(x, h[s \ {x}])
    BY <1>3, <2>1, Zenon DEF SeenStep
  <2> HIDE DEF x
  <2>4. s \ {x} \in SUBSET P /\ Cardinality(s \ {x}) = m
    <3>1. Cardinality(s \ {x}) = Cardinality(s) - 1
      BY <1>3, <2>2, FS_RemoveElement DEF Placed
    <3> QED
      BY <3>1
  <2>5. Looked(s \ {x}, first, h[s \ {x}])
    BY <1>5, <2>4, Zenon
  <2>6. Spread(s, first, last)
    BY <1>3
  <2> QED
    BY <2>2, <2>3, <2>5, <2>6, LookFurther
<1> HIDE DEF S
<1>6. Cardinality(P) \in S
  BY <1>3, <1>4, <1>5, Induction
<1> QED
  BY <1>2, <1>6 DEF S

\* The gap that is offered is nobody's, and so is what is left of it when its
\* start is rounded up.
LEMMA LargestGapIs ==
  ASSUME NEW tab, NEW g \in DOMAIN tab, IsTable(tab[g]), FirstOf(g) \in Int, LastOf(tab, g) \in Int,
         LaidOut(tab[g].parts, FirstOf(g), LastOf(tab, g))
  PROVE  LET gap == LargestGap(tab, g)
         IN /\ gap.start \in Int /\ gap.size \in Nat
            /\ gap.size > 0 => FreeIn(tab, g, gap.start, gap.size)
<1> DEFINE first == FirstOf(g)
           last == LastOf(tab, g)
           parts == tab[g].parts
           P == {parts[i] : i \in DOMAIN parts}
           seen == Seen(P, first)
           rest == Gap(seen.last, last + 1)
           gap == LargestGap(tab, g)
<1>1. Spread(P, first, last)
  <2>1. IsFiniteSet(DOMAIN parts)
    BY DEF IsTable
  <2>2. IsFiniteSet(P)
    <3> DEFINE f == [i \in DOMAIN parts |-> parts[i]]
    <3>1. f \in Surjection(DOMAIN parts, P)
      BY DEF Surjection
    <3> HIDE DEF f
    <3> QED
      BY <2>1, <3>1, FS_Surjection
  <2>3. ASSUME NEW p \in P, NEW q \in P, p # q PROVE Disjoint(p, q)
    <3>1. PICK i \in DOMAIN parts : p = parts[i]
      OBVIOUS
    <3>2. PICK j \in DOMAIN parts : q = parts[j]
      OBVIOUS
    <3> QED
      BY <2>3, <3>1, <3>2 DEF LaidOut
  <2>4. \A p \in P : Inside(p, first, last)
    BY DEF LaidOut
  <2> QED
    BY <2>2, <2>3, <2>4 DEF Spread
<1>2. gap = IF rest.size > seen.best.size THEN rest ELSE seen.best
  BY DEF LargestGap
<1> HIDE DEF gap
<1>3. \A start, size \in Int : (\A p \in P : Apart(p, start, size)) /\ size > 0
                               /\ start >= first /\ start + size - 1 <= last
                            => FreeIn(tab, g, start, size)
  <2> SUFFICES ASSUME NEW start \in Int, NEW size \in Int, size > 0, start >= first,
                      start + size - 1 <= last, \A p \in P : Apart(p, start, size)
               PROVE  FreeIn(tab, g, start, size)
    OBVIOUS
  <2>1. start \in Nat /\ size \in Nat \ {0}
    BY DEF FirstOf, FirstSector
  <2>2. \A i \in DOMAIN parts : Apart(parts[i], start, size)
    OBVIOUS
  <2> QED
    BY <2>1, <2>2 DEF FreeIn, Apart
<1> HIDE DEF P, first, last
<1>4. first \in Int /\ last \in Int
  BY DEF first, last
<1>5. Looked(P, first, seen)
  BY <1>1, <1>4, SeenLooked
<1>10. \A a, b : Gap(a, b).start = a + 1 /\ Gap(a, b).size = b - a - 1
  BY DEF Gap
<1>6. rest.start = seen.last + 1 /\ rest.size = (last + 1) - seen.last - 1
  BY <1>10, Zenon
<1> HIDE DEF rest, seen
<1>7. \A p \in P : End(p) \in Int /\ End(p) <= last
  BY <1>1 DEF Spread, Inside, End
<1>8. CASE rest.size > seen.best.size
  <2>1. /\ gap.start = seen.last + 1 /\ gap.size = (last + 1) - seen.last - 1 /\ gap.size > seen.best.size
    BY <1>2, <1>6, <1>8
  <2>2. gap.start \in Int /\ gap.size \in Nat /\ gap.start >= first /\ gap.start + gap.size - 1 <= last
    BY <1>4, <1>5, <2>1 DEF Looked
  <2>3. \A p \in P : Apart(p, gap.start, gap.size)
    BY <1>5, <1>7, <2>1 DEF Looked, Apart
  <2>4. gap.size > 0 => FreeIn(tab, g, gap.start, gap.size)
    BY <1>3, <2>2, <2>3
  <2> QED
    BY <2>2, <2>4 DEF gap
<1>9. CASE ~(rest.size > seen.best.size)
  <2>1. gap = seen.best /\ gap.start \in Int /\ gap.size \in Nat
    BY <1>2, <1>5, <1>9 DEF Looked
  <2>2. ASSUME gap.size > 0 PROVE FreeIn(tab, g, gap.start, gap.size)
    <3>1. /\ gap.start >= first /\ gap.start + gap.size - 1 <= seen.last
          /\ \A p \in P : Apart(p, gap.start, gap.size)
      BY <1>5, <2>1, <2>2 DEF Looked
    <3>2. gap.start + gap.size - 1 <= last
      <4>1. CASE seen.last = first - 1
        BY <1>4, <2>1, <2>2, <3>1, <4>1
      <4>2. CASE seen.last # first - 1
        <5>1. PICK p \in P : seen.last = End(p)
          BY <1>5, <4>2 DEF Looked
        <5> QED
          BY <1>4, <1>7, <2>1, <3>1, <5>1
      <4> QED
        BY <4>1, <4>2
    <3> QED
      BY <1>3, <2>1, <2>2, <3>1, <3>2
  <2> QED
    BY <2>1, <2>2 DEF gap
<1> QED
  BY <1>8, <1>9

LEMMA Rounding ==
  ASSUME NEW start \in Int
  PROVE  Offset(start) \in Nat /\ (start + Offset(start)) % Stripe = 0
<1>1. Stripe \in Nat /\ Stripe > 0
  BY DiskAssumption
<1>2. PICK q \in Int, r \in 0 .. Stripe - 1 : start = q * Stripe + r /\ start % Stripe = r
  <2>1. \A a \in Int, b \in Nat : b > 0 =>
          a = (a \div b) * b + (a % b) /\ a \div b \in Int /\ a % b \in 0 .. b - 1
    OBVIOUS
  <2> QED
    BY <1>1, <2>1
<1>3. \A b \in Nat : b > 0 => b % b = 0
  OBVIOUS
<1>4. \A a, b \in Nat : a < b => a % b = a
  OBVIOUS
<1>5. \A a \in Int, b \in Nat : b > 0 => (a * b) % b = 0
  OBVIOUS
<1>6. CASE r = 0
  <2>1. Offset(start) = 0
    BY <1>1, <1>2, <1>3, <1>6 DEF Offset
  <2> QED
    BY <1>2, <1>6, <2>1
<1>7. CASE r # 0
  <2>1. Stripe - r \in Nat /\ Stripe - r < Stripe
    BY <1>1, <1>7
  <2>2. Offset(start) = Stripe - r
    BY <1>1, <1>2, <1>4, <2>1 DEF Offset
  <2>3. start + Offset(start) = q * Stripe + Stripe
    BY <1>1, <1>2, <2>2
  <2>4. q * Stripe + Stripe = (q + 1) * Stripe
    BY <1>1
  <2>5. ((q + 1) * Stripe) % Stripe = 0
    BY <1>1, <1>5
  <2> QED
    BY <2>1, <2>2, <2>3, <2>4, <2>5
<1> QED
  BY <1>6, <1>7

LEMMA MaxFreeIs ==
  ASSUME NEW tab, NEW g \in DOMAIN tab, IsTable(tab[g]), FirstOf(g) \in Int, LastOf(tab, g) \in Int,
         LaidOut(tab[g].parts, FirstOf(g), LastOf(tab, g))
  PROVE  LET free == MaxFree(tab, g)
         IN /\ free.start \in Int /\ free.size \in Int /\ free.start % Stripe = 0
            /\ free.size > 0 => FreeIn(tab, g, free.start, free.size)
<1> DEFINE gap == LargestGap(tab, g)
           o == Offset(gap.start)
           free == MaxFree(tab, g)
           parts == tab[g].parts
<1>1. /\ gap.start \in Int /\ gap.size \in Nat
      /\ gap.size > 0 => FreeIn(tab, g, gap.start, gap.size)
  BY LargestGapIs
<1>2. free.start = gap.start + o /\ free.size = gap.size - o
  BY DEF MaxFree
<1> HIDE DEF gap, free
<1>3. o \in Nat /\ (gap.start + o) % Stripe = 0
  BY <1>1, Rounding
<1> HIDE DEF o
<1>4. /\ free.start \in Int /\ free.size \in Int /\ free.start % Stripe = 0
  BY <1>1, <1>2, <1>3
<1>5. ASSUME free.size > 0 PROVE FreeIn(tab, g, free.start, free.size)
  <2>1. gap.size > 0
    BY <1>1, <1>2, <1>3, <1>5
  <2>2. /\ gap.start >= FirstOf(g) /\ gap.start + gap.size - 1 <= LastOf(tab, g)
        /\ \A i \in DOMAIN parts :
             End(parts[i]) < gap.start \/ gap.start + gap.size - 1 < parts[i].start
    BY <1>1, <2>1 DEF FreeIn
  <2>3. free.start + free.size - 1 = gap.start + gap.size - 1 /\ free.start >= gap.start
    BY <1>1, <1>2, <1>3
  <2>4. \A i \in DOMAIN parts : parts[i].start \in Int /\ End(parts[i]) \in Int
    BY DEF LaidOut, Inside, End
  <2>5. \A i \in DOMAIN parts :
          End(parts[i]) < free.start \/ free.start + free.size - 1 < parts[i].start
    BY <1>1, <1>4, <2>2, <2>3, <2>4
  <2> QED
    BY <1>1, <1>4, <1>5, <2>2, <2>3, <2>5 DEF FreeIn
<1> QED
  BY <1>4, <1>5 DEF free

\* The room gpart_max_free() finds in a table.
LEMMA RoomIs ==
  ASSUME NEW tab, Sound(tab), Laid(tab), NEW g \in DOMAIN tab
  PROVE  /\ FirstOf(g) \in Int /\ LastOf(tab, g) \in Int
         /\ \A i \in DOMAIN tab[g].parts :
              tab[g].parts[i].start \in Int /\ tab[g].parts[i].size \in Int
         /\ MaxFree(tab, g).start \in Int /\ MaxFree(tab, g).size \in Int
         /\ MaxFree(tab, g).start % Stripe = 0
         /\ MaxFree(tab, g).size > 0 => FreeIn(tab, g, MaxFree(tab, g).start, MaxFree(tab, g).size)
<1>1. IsTable(tab[g]) /\ (g \in DiskNames \/ Slot(tab, g))
  BY DEF Sound
<1>2. FirstOf(g) \in Int
  BY DEF FirstOf, FirstSector
<1>3. LastOf(tab, g) \in Int
  <2>1. CASE IsDisk(g)
    BY <2>1, DiskAssumption DEF LastOf
  <2>2. CASE ~IsDisk(g)
    <3>1. Sits(tab, g)
      BY <1>1, <2>2 DEF Slot, DiskNames, IsDisk
    <3>2. Part(tab, g).size \in Int
      BY <3>1 DEF Sits, Part, Laid, LaidOut, Inside
    <3> QED
      BY <2>2, <3>2 DEF LastOf
  <2> QED
    BY <2>1, <2>2
<1>4. LaidOut(tab[g].parts, FirstOf(g), LastOf(tab, g))
  BY DEF Laid
<1>5. \A i \in DOMAIN tab[g].parts :
        tab[g].parts[i].start \in Int /\ tab[g].parts[i].size \in Int
  BY <1>4 DEF LaidOut, Inside
<1> QED
  BY <1>1, <1>2, <1>3, <1>4, <1>5, MaxFreeIs

-----------------------------------------------------------------------------
\* What the guided and the scripted modes have still to do.
IsJob(tasks) == tasks \in Seq(Range(tasks)) /\ \A i \in DOMAIN tasks : IsTask(tasks[i])

LEMMA JobOf ==
  ASSUME NEW S, NEW tasks \in Seq(S), \A t \in S : IsTask(t)
  PROVE  IsJob(tasks)
<1>1. \A i \in DOMAIN tasks : tasks[i] \in S
  OBVIOUS
<1> QED
  BY <1>1, SeqOfItself DEF IsJob
LEMMA TasksOf ==
  ASSUME NEW tasks, IsJob(tasks)
  PROVE  tasks \in Seq(Range(tasks)) /\ \A t \in Range(tasks) : IsTask(t)
BY DEF IsJob, Range
LEMMA NoJob == IsJob(<<>>)
BY DEF IsJob
LEMMA OneTask ==
  ASSUME NEW t, IsTask(t)
  PROVE  IsJob(<<t>>) /\ <<t>> # <<>>
<1> DEFINE S == {t}
<1>1. <<t>> \in Seq(S) /\ <<t>> # <<>> /\ \A x \in S : IsTask(x)
  OBVIOUS
<1> HIDE DEF S
<1> QED
  BY <1>1, JobOf
LEMMA JobTail ==
  ASSUME NEW tasks, IsJob(tasks), tasks # <<>>
  PROVE  IsJob(Tail(tasks)) /\ IsTask(Head(tasks))
<1>1. tasks \in Seq(Range(tasks)) /\ \A t \in Range(tasks) : IsTask(t)
  BY TasksOf
<1>2. Tail(tasks) \in Seq(Range(tasks)) /\ Head(tasks) \in Range(tasks)
  <2> DEFINE S == Range(tasks)
  <2>1. tasks \in Seq(S)
    BY <1>1
  <2> HIDE DEF S
  <2>2. Tail(tasks) \in Seq(S) /\ Head(tasks) \in S
    BY <2>1
  <2> QED
    BY <2>2 DEF S
<1> QED
  BY <1>1, <1>2, JobOf
LEMMA JobJoined ==
  ASSUME NEW a, NEW b, IsJob(a), IsJob(b)
  PROVE  IsJob(a \o b) /\ (a # <<>> \/ b # <<>> => a \o b # <<>>)
<1> DEFINE S == Range(a)
           T == Range(b)
<1>1. a \in Seq(S) /\ b \in Seq(T) /\ (\A t \in S \cup T : IsTask(t))
  BY TasksOf
<1> HIDE DEF S, T
<1>2. a \in Seq(S \cup T) /\ b \in Seq(S \cup T)
  BY <1>1
<1>3. a \o b \in Seq(S \cup T) /\ Len(a \o b) = Len(a) + Len(b)
  BY <1>2
<1>4. a # <<>> \/ b # <<>> => a \o b # <<>>
  BY <1>2, <1>3
<1> QED
  BY <1>1, <1>3, <1>4, JobOf

\* Tasks other than those for a disk of a script.
LEMMA IsAnyTask ==
  ASSUME NEW t, t.do # "disk"
  PROVE  IsTask(t)
BY DEF IsTask
LEMMA WizardIs ==
  ASSUME NEW fs
  PROVE  /\ IsJob(Wizard(fs)) /\ Wizard(fs) # <<>> /\ IsJob(Tail(Wizard(fs)))
         /\ \A v : LET slice == [Head(Wizard(fs)) EXCEPT !.inter = v]
                   IN IsJob(<<slice>> \o Tail(Wizard(fs))) /\ <<slice>> \o Tail(Wizard(fs)) # <<>>
<1> DEFINE a == [do |-> "slice", inter |-> TRUE]
           b == [do |-> "makeparts", fs |-> fs, inter |-> TRUE]
<1>1. IsTask(a) /\ IsTask(b)
  <2>1. a.do # "disk" /\ b.do # "disk"
    BY Zenon
  <2> HIDE DEF a, b
  <2> QED
    BY <2>1, IsAnyTask
<1>2. Wizard(fs) = <<a, b>>
  BY DEF Wizard
<1>3. ASSUME NEW v PROVE IsTask([a EXCEPT !.inter = v])
  <2>1. [a EXCEPT !.inter = v].do # "disk"
    BY Zenon
  <2> HIDE DEF a
  <2> QED
    BY <2>1, IsAnyTask
<1> HIDE DEF a, b
<1> DEFINE S == {a, b}
<1>4. /\ Head(<<a, b>>) = a /\ Tail(<<a, b>>) = <<b>> /\ <<a, b>> # <<>>
      /\ <<a, b>> \in Seq(S) /\ \A x \in S : IsTask(x)
  BY <1>1
<1>5. IsJob(<<a, b>>)
  <2> HIDE DEF S
  <2> QED
    BY <1>4, JobOf
<1>6. IsJob(<<b>>) /\ \A v : IsJob(<<[a EXCEPT !.inter = v]>>) /\ <<[a EXCEPT !.inter = v]>> # <<>>
  BY <1>1, <1>3, OneTask
<1>7. \A v : /\ IsJob(<<[a EXCEPT !.inter = v]>> \o <<b>>)
             /\ <<[a EXCEPT !.inter = v]>> \o <<b>> # <<>>
  BY <1>6, JobJoined
<1> QED
  BY <1>2, <1>4, <1>5, <1>6, <1>7

-----------------------------------------------------------------------------
\* The inductive invariant.
Forms == {"addform", "boot", "bootadd", "booterror", "add", "adderror"}
Editing == pc \notin Ended \cup {"commit"}

\* gpart_create()'s variables are about a table that is still there.
IsForm(f) ==
  f = [inter |-> f.inter, geom |-> f.geom, scheme |-> f.scheme, seen |-> f.seen, max |-> f.max,
       free |-> f.free, type |-> f.type, asked |-> f.asked, size |-> f.size, mount |-> f.mount,
       fstype |-> f.fstype, newfs |-> f.newfs, cancelled |-> f.cancelled, named |-> f.named]
FormFits(f, tab, at) ==
  /\ IsForm(f) /\ f.geom \in DOMAIN tab /\ ~Zombie(tab, f.geom)
  /\ f.scheme = tab[f.geom].scheme
  /\ DOMAIN f.seen.parts \subseteq DOMAIN tab[f.geom].parts
  /\ f.newfs # Keep /\ (f.newfs = Newfs(f.fstype) \/ f.cancelled)
  /\ at # "addform" => f.fstype = f.type

\* What the other dialogs are about, and what the modes without a menu go on with.
Shown(at, name, where, tasks, tab) ==
  /\ at = "editform" => name \in Partitions(tab) /\ ~Zombie(tab, name)
  /\ at \in {"wpart", "wscheme"} => where \in DiskNames
  /\ at = "wscheme" => (where \in DOMAIN tab => Zombie(tab, where)) /\ tasks # <<>>
  /\ at \in {"wdisk", "wpart"} => \E fs : tasks = Wizard(fs)
  /\ at \in Forms \cup {"resume", "scheme"} /\ tasks # <<>> => where \in Providers(tab) \cup {Nowhere}
  /\ at \in {"menu", "confirm", "editform"} => tasks = <<>>

\* Until something is written, the disks and fstab are as they were found.
Steady(disk, lines) ==
  /\ OnDisks(disk) /\ lines \in Fstabs
  /\ \A i \in DOMAIN lines : lines[i].name \in Partitions(disk) \cup {Label}

IsCommits(tasks, tab) ==
  /\ tasks \in Seq(Range(tasks))
  /\ \A i \in DOMAIN tasks : tasks[i].geom \in DOMAIN tab
  /\ \A i, j \in DOMAIN tasks : tasks[i].geom = tasks[j].geom => i = j
\* Boot code is due here too, once the destroyed table is gone.
Vacated(m) ==
  /\ m.bootcode /\ Zombie(st.tab, m.name)
  /\ m.name \in Partitions(st.tab) /\ st.tab[Front(m.name)].scheme \in plat.partcode
Due(m) == NeedsCode(m) \/ Vacated(m)
Committing ==
  /\ Writing(st) /\ Roots(st.md) # {} /\ IsCommits(job, st.tab)
  /\ \A m \in Range(st.md) : Due(m) =>
       m.name \in coded \cup missed \/ \E i \in DOMAIN job : m.name \in job[i].codes \cup job[i].occupied
Finished ==
  /\ Written(Kernel(st))
  /\ \E i \in DOMAIN fstab :
       fstab[i].mount = "/" /\ fstab[i].name \in Partitions(st.tab) \cup {Label}
  /\ \A i \in DOMAIN st.md : NeedsCode(st.md[i]) => st.md[i].name \in coded \cup missed

Always(s) == IsStore(s) /\ IsKernel(Kernel(s)) /\ Once(s.md)
Inv ==
  /\ plat \in Machines /\ Always(st)
  /\ Editing => Good(st) /\ Steady(st.disk, fstab) /\ IsJob(job)
  /\ pc = "commit" => Committing
  /\ pc = "done" => Finished
  /\ pc \in Forms => FormFits(form, st.tab, pc)
  /\ Shown(pc, target, home, job, st.tab)

\* What a step of the editor does not do, whatever it changes.
Promised ==
  /\ st'.disk = st.disk
  /\ pc' \in {"quit", "interrupted"} => st'.tab = st.disk
  /\ pc' = "commit" => st'.tab = st.tab
  /\ pc' # "done"

LEMMA GoodNext ==
  ASSUME Good(st'), UNCHANGED fstab
  PROVE  Good(st)'
BY DEF Good, EntryOK, Labels, CodeDue, InSlices, Laid

LEMMA Onward ==
  ASSUME Inv, Editing, Good(st'), st'.disk = st.disk, Stay, Editing', IsJob(job'),
         pc' \in Forms => FormFits(form', st'.tab, pc'),
         Shown(pc', target', home', job', st'.tab)
  PROVE  Inv' /\ Promised
<1>1. Good(st)'
  BY GoodNext DEF Stay
<1>2. Always(st')
  BY DEF Good, Sane, Always, InStep
<1>3. pc' \notin {"commit", "done", "quit", "interrupted"}
  BY DEF Editing, Ended
<1> QED
  BY <1>1, <1>2, <1>3 DEF Inv, Promised, Stay

\* The same when only the dialog changes.
LEMMA OnwardSame ==
  ASSUME Inv, Editing, UNCHANGED st, Stay, Editing', IsJob(job'),
         pc' \in Forms => FormFits(form', st.tab, pc'),
         Shown(pc', target', home', job', st.tab)
  PROVE  Inv' /\ Promised
BY Onward DEF Inv

LEMMA Now ==
  ASSUME Inv, Editing
  PROVE  /\ Good(st) /\ Sane(st) /\ Sound(st.tab) /\ Steady(st.disk, fstab) /\ IsJob(job)
         /\ plat \in Machines /\ IsKernel(Kernel(st))
BY SaneTab DEF Inv, Good

LEMMA MoreProviders ==
  ASSUME NEW a, NEW b, \A q \in Partitions(a) : q \in Partitions(b)
  PROVE  Providers(a) \subseteq Providers(b)
BY DEF Providers

-----------------------------------------------------------------------------
\* One lemma for each step.
LEMMA ChooseSchemeInv ==
  ASSUME Inv, NEW scheme \in Schemes, ChooseScheme(scheme)
  PROVE  Inv' /\ Promised
<1>1. pc = "scheme" /\ CanCreate(Kernel(st), target, scheme) /\ st' = Partition(st, target, scheme)
      /\ pc' = "resume" /\ Stay /\ UNCHANGED <<form, target, home, job, ops>>
  BY DEF ChooseScheme, Return
<1>2. Editing /\ Editing' /\ pc' \notin Forms
  BY <1>1 DEF Editing, Ended, Forms
<1>3. Good(st) /\ Sound(st.tab) /\ IsKernel(Kernel(st)) /\ Kernel(st).tab = st.tab /\ IsJob(job)
  BY <1>2, Now, KernelIs
<1>4. Seat(st.tab, target, Table(scheme)) /\ (target \in DOMAIN st.tab => Zombie(st.tab, target))
  BY <1>1, <1>3, CanCreateSeats DEF CanCreate
<1>5. Good(st') /\ st'.disk = st.disk /\ \A q \in Partitions(st.tab) : q \in Partitions(st'.tab)
  BY <1>1, <1>3, <1>4, PartitionGood
<1>6. Providers(st.tab) \subseteq Providers(st'.tab)
  BY <1>5, MoreProviders
<1>7. Shown(pc', target', home', job', st'.tab)
  BY <1>1, <1>6 DEF Inv, Shown
<1> QED
  BY <1>1, <1>2, <1>3, <1>5, <1>7, Onward

LEMMA WizardSchemeInv ==
  ASSUME Inv, NEW scheme \in Schemes, WizardScheme(scheme)
  PROVE  Inv' /\ Promised
<1>1. pc = "wscheme" /\ st' = Partition(st, home, scheme) /\ pc' = "resume"
      /\ job' = (IF scheme = "MBR" THEN job ELSE Tail(job))
      /\ Stay /\ UNCHANGED <<form, target, home, ops>>
  BY DEF WizardScheme, Return
<1>2. Editing /\ Editing' /\ pc' \notin Forms
  BY <1>1 DEF Editing, Ended, Forms
<1>3. Good(st) /\ IsJob(job)
  BY <1>2, Now
<1>4. home \in DiskNames /\ (home \in DOMAIN st.tab => Zombie(st.tab, home)) /\ job # <<>>
  BY <1>1 DEF Inv, Shown
<1>5. Seat(st.tab, home, Table(scheme))
  BY <1>4 DEF Seat
<1>6. Good(st') /\ st'.disk = st.disk
  BY <1>1, <1>3, <1>4, <1>5, PartitionGood
<1>7. IsJob(job')
  BY <1>1, <1>3, <1>4, JobTail
<1>8. Shown(pc', target', home', job', st'.tab)
  BY <1>1, <1>4 DEF Shown, Providers, DiskNames
<1> QED
  BY <1>1, <1>2, <1>6, <1>7, <1>8, Onward

LEMMA ToMenuInv ==
  ASSUME Inv, Editing, UNCHANGED st, Stay, ToMenu
  PROVE  Inv' /\ Promised
<1>1. pc' = "menu" /\ job' = <<>> /\ pc' \notin Forms /\ Editing'
  BY DEF ToMenu, Forms, Editing, Ended
<1>2. Shown(pc', target', home', job', st.tab)
  BY <1>1 DEF Shown, Forms
<1> QED
  BY <1>1, <1>2, NoJob, OnwardSame

LEMMA CancelSchemeInv ==
  ASSUME Inv, CancelScheme
  PROVE  Inv' /\ Promised
<1>1. pc = "scheme" /\ pc' = "resume" /\ Stay /\ UNCHANGED <<st, form, target, home, job, ops>>
  BY DEF CancelScheme, Return
<1>2. Editing /\ Editing' /\ pc' \notin Forms
  BY <1>1 DEF Editing, Ended, Forms
<1>3. IsJob(job')
  BY <1>1, <1>2, Now
<1>4. Shown(pc', target', home', job', st.tab)
  BY <1>1 DEF Inv, Shown
<1> QED
  BY <1>1, <1>2, <1>3, <1>4, OnwardSame

\* The dialogs of gpart_create() before anything is added.
LEMMA OnwardForm ==
  ASSUME Inv, pc \in Forms, UNCHANGED <<st, home, job>>, Stay, pc' \in Forms,
         FormFits(form', st.tab, pc')
  PROVE  Inv' /\ Promised
<1>1. Editing /\ Editing'
  BY DEF Editing, Ended, Forms
<1>2. IsJob(job')
  BY <1>1, Now
<1>3. Shown(pc', target', home', job', st.tab)
  BY DEF Inv, Shown, Forms
<1> QED
  BY <1>1, <1>2, <1>3, OnwardSame

LEMMA FormNow ==
  ASSUME Inv, pc \in Forms
  PROVE  /\ FormFits(form, st.tab, pc) /\ Editing /\ form.scheme \in Schemes
         /\ form.geom \in DOMAIN st.tab /\ ~Zombie(st.tab, form.geom)
<1>1. FormFits(form, st.tab, pc) /\ Editing
  BY DEF Inv, Editing, Ended, Forms
<1>2. IsTable(st.tab[form.geom])
  BY <1>1, Now, SoundGeoms DEF FormFits
<1> QED
  BY <1>1, <1>2, TableParts DEF FormFits, Zombie

LEMMA OptionsInv ==
  ASSUME Inv, NEW type, NEW answer \in OptionAnswers, Options(type, answer)
  PROVE  Inv' /\ Promised
<1>1. pc = "addform" /\ pc' = pc /\ Stay /\ UNCHANGED <<st, home, job>>
      /\ form' = [form EXCEPT !.fstype = type,
                    !.newfs = IF answer = "ok" \/ Newfs(type) = "" THEN Newfs(type) ELSE @,
                    !.cancelled = answer # "ok" /\ Newfs(type) # ""]
  BY DEF Options
<1>2. pc \in Forms /\ pc' \in Forms
  BY <1>1 DEF Forms
<1>3. FormFits(form, st.tab, pc)
  BY <1>2, FormNow
<1> DEFINE nf == IF answer = "ok" \/ Newfs(type) = "" THEN Newfs(type) ELSE form.newfs
           cc == answer # "ok" /\ Newfs(type) # ""
<1>4. nf # Keep /\ (nf = Newfs(type) \/ cc)
  <2>1. form.newfs # Keep /\ Newfs(type) # Keep
    BY <1>3, NewfsIs DEF FormFits
  <2> QED
    BY <2>1, Zenon
<1>5. form' = [form EXCEPT !.fstype = type, !.newfs = nf, !.cancelled = cc]
  BY <1>1, Zenon
<1> HIDE DEF nf, cc
<1>6. IsForm(form)
  BY <1>3 DEF FormFits
<1>7. /\ IsForm(form') /\ form'.geom = form.geom /\ form'.scheme = form.scheme
      /\ form'.seen = form.seen /\ form'.newfs = nf /\ form'.fstype = type /\ form'.cancelled = cc
  BY <1>5, <1>6 DEF IsForm
<1>8. FormFits(form', st.tab, pc')
  BY <1>1, <1>3, <1>4, <1>7 DEF FormFits
<1> QED
  BY <1>1, <1>2, <1>8, OnwardForm

LEMMA SubmitFormInv ==
  ASSUME Inv, NEW type, NEW size, NEW mount, SubmitForm(type, size, mount)
  PROVE  Inv' /\ Promised
<1> DEFINE nf == IF type = form.fstype THEN form.newfs ELSE Newfs(type)
           cc == form.cancelled /\ type = form.fstype
           sz == IF size = Rest THEN form.max.size ELSE Smaller(size, form.max.size)
<1>1. /\ pc = "addform" /\ Stay /\ UNCHANGED <<st, target, home, job, ops>>
      /\ form' = [form EXCEPT !.type = type, !.asked = size, !.mount = mount, !.fstype = type,
                    !.newfs = nf, !.cancelled = cc, !.size = sz]
      /\ pc' \in {"adderror", "boot", "add"}
  BY DEF SubmitForm
<1>2. pc \in Forms /\ pc' \in Forms
  BY <1>1 DEF Forms
<1>3. FormFits(form, st.tab, pc)
  BY <1>2, FormNow
<1>4. nf # Keep /\ (nf = Newfs(type) \/ cc)
  BY <1>3, NewfsIs DEF FormFits
<1> HIDE DEF nf, cc, sz
<1>5. IsForm(form)
  BY <1>3 DEF FormFits
<1>6. /\ IsForm(form') /\ form'.geom = form.geom /\ form'.scheme = form.scheme
      /\ form'.seen = form.seen /\ form'.newfs = nf /\ form'.fstype = type /\ form'.type = type
      /\ form'.cancelled = cc
  BY <1>1, <1>5 DEF IsForm
<1>7. FormFits(form', st.tab, pc')
  BY <1>1, <1>3, <1>4, <1>6 DEF FormFits
<1> QED
  BY <1>1, <1>2, <1>7, OnwardForm

LEMMA FormStepInv ==
  ASSUME Inv, BootDeclined \/ BootWanted \/ BootRefused \/ BootRetry \/ AddRefused \/ AddRetry
  PROVE  Inv' /\ Promised
<1>1. /\ pc \in Forms \ {"addform"} /\ pc' \in Forms
      /\ Stay /\ UNCHANGED <<st, form, target, home, job>>
  BY DEF BootDeclined, BootWanted, BootRefused, BootRetry, AddRefused, AddRetry, NoBootFound, Forms
<1>2. FormFits(form, st.tab, pc)
  BY <1>1, FormNow
<1>3. FormFits(form', st.tab, pc')
  BY <1>1, <1>2 DEF FormFits
<1> QED
  BY <1>1, <1>3, OnwardForm

LEMMA CancelFormInv ==
  ASSUME Inv, CancelForm
  PROVE  Inv' /\ Promised
<1>1. /\ pc = "addform" /\ pc' = "resume" /\ Stay /\ UNCHANGED <<st, form, target, job, ops>>
      /\ home' \in {home, Nowhere}
  BY DEF CancelForm, Return
<1>2. Editing /\ Editing' /\ pc' \notin Forms
  BY <1>1 DEF Editing, Ended, Forms
<1>3. IsJob(job')
  BY <1>1, <1>2, Now
<1>4. Shown(pc', target', home', job', st.tab)
  BY <1>1 DEF Inv, Shown, Forms
<1> QED
  BY <1>1, <1>2, <1>3, <1>4, OnwardSame

\* A form fits a table that has grown.
LEMMA FitsGrown ==
  ASSUME NEW f, NEW a, NEW b, NEW at, FormFits(f, a, at), f.geom \in DOMAIN b,
         b[f.geom].scheme = a[f.geom].scheme,
         DOMAIN a[f.geom].parts \subseteq DOMAIN b[f.geom].parts
  PROVE  FormFits(f, b, at)
BY DEF FormFits, Zombie

LEMMA BootFoundInv ==
  ASSUME Inv, BootFound
  PROVE  Inv' /\ Promised
<1>1. /\ pc = "boot" /\ pc' = "add" /\ Stay /\ UNCHANGED <<form, target, home, job, ops>>
  BY DEF BootFound
<1>2. PICK i \in DOMAIN form.seen.parts :
        st' = IF BootMount # NoMount /\ ~Has(st.md, Append(form.geom, i))
              THEN SetDefault(st, Append(form.geom, i), form.scheme, BootType, BootMount, Keep, Confirmed)
              ELSE st
  BY DEF BootFound
<1>3. pc \in Forms /\ pc' \in Forms /\ Editing' /\ pc # "addform" /\ pc' # "addform"
  BY <1>1 DEF Forms, Editing, Ended
<1>4. FormFits(form, st.tab, pc) /\ Editing /\ form.scheme \in Schemes
  BY <1>3, FormNow
<1>5. Good(st) /\ Sane(st) /\ Sound(st.tab) /\ IsJob(job) /\ plat \in Machines
  BY <1>4, Now
<1>6. Good(st') /\ st'.disk = st.disk /\ st'.tab = st.tab
  <2> DEFINE n == Append(form.geom, i)
             r == SetDefault(st, n, form.scheme, BootType, BootMount, Keep, Confirmed)
  <2>1. CASE BootMount # NoMount /\ ~Has(st.md, n)
    <3>1. n \in PartsOf(st.tab, form.geom)
      BY <1>2, <1>4 DEF FormFits, PartsOf
    <3>2. n \in Partitions(st.tab) /\ form.geom \in DOMAIN st.tab
      BY <1>4, <3>1 DEF FormFits, Partitions
    <3> HIDE DEF n
    <3>3. GoodBut(st, n)
      BY <1>5, GoodIsGoodBut
    <3>4. Metadata(st.md, n) = Blank(n)
      BY <1>5, <2>1, MetadataIs DEF Sane
    <3>5. Metadata(st.md, n).newfs = "" /\ Metadata(st.md, n).bootcode = FALSE
      BY <3>4, BlankIs
    <3>6. ~Needs(form.scheme, BootType)
      BY <1>4, <1>5, <2>1, MachinesAssumption DEF Needs, Unmountable, BootMount, BootType
    <3>7. FormatsAs(st, n, Keep, Confirmed)
      BY <3>5 DEF FormatsAs
    <3>8. Defaults(st, n, form.scheme, BootType, Keep, Confirmed)
      BY <1>5, <3>5, <3>6, <3>7 DEF Defaults, Good
    <3>9. Good(r) /\ r.tab = st.tab /\ r.disk = st.disk
      BY <3>2, <3>3, <3>8, SetDefaultGood, SMTT(60)
    <3> HIDE DEF r
    <3>10. st' = r
      BY <1>2, <2>1 DEF r, n
    <3> QED
      BY <3>9, <3>10
  <2>2. CASE ~(BootMount # NoMount /\ ~Has(st.md, n))
    BY <1>2, <1>5, <2>2
  <2> QED
    BY <2>1, <2>2
<1>7. FormFits(form', st'.tab, pc')
  BY <1>1, <1>3, <1>4, <1>6 DEF FormFits
<1>8. Shown(pc', target', home', job', st'.tab)
  BY <1>1, <1>3, <1>6 DEF Inv, Shown, Forms
<1> QED
  BY <1>1, <1>3, <1>4, <1>5, <1>6, <1>7, <1>8, Onward

\* What is added is set up as it was asked for.
IsNew(s, r, g, p, type, newfs, cancelled) ==
  /\ Good(r) /\ IsAdded(s, r, g, p, type)
  /\ newfs # Keep /\ (newfs # "" => newfs = type \/ cancelled)

LEMMA SetUp ==
  ASSUME NEW s, NEW g, NEW p, NEW type, NEW r, NEW newfs, NEW cancelled,
         IsNew(s, r, g, p, type, newfs, cancelled), NEW scheme, NEW mount
  PROVE  LET d == SetDefault(r, p, scheme, type, mount, newfs, cancelled)
         IN Good(d) /\ d.disk = s.disk /\ d.tab = r.tab
<1> DEFINE d == SetDefault(r, p, scheme, type, mount, newfs, cancelled)
<1>0. Good(r) /\ newfs # Keep /\ (newfs # "" => newfs = type \/ cancelled)
  BY DEF IsNew
<1>1. /\ p \in Partitions(r.tab) /\ Part(r.tab, p).type = type /\ Front(p) = g
      /\ (p \in DOMAIN r.tab => Zombie(r.tab, p) /\ p \in r.mod)
      /\ g \in r.mod /\ r.disk = s.disk
  BY DEF IsAdded, IsNew
<1>2. FormatsAs(r, p, newfs, cancelled)
  BY <1>0, <1>1 DEF FormatsAs
<1>3. BootsFrom(r, p)
  BY <1>1 DEF BootsFrom, Zombie
<1>4. Defaults(r, p, scheme, type, newfs, cancelled)
  BY <1>0, <1>2, <1>3 DEF Defaults, Good
<1>5. GoodBut(r, p)
  BY <1>0, GoodIsGoodBut
<1>6. /\ GoodBut(d, p) /\ d.tab = r.tab /\ d.mod = r.mod /\ d.disk = r.disk
      /\ Defaults(r, p, scheme, type, newfs, cancelled) => Good(d)
  <2>1. p \in Partitions(r.tab)
    BY <1>1
  <2> QED
    BY <1>5, <2>1, SetDefaultGood, Zenon
<1> QED
  BY <1>1, <1>4, <1>6

\* Tables that something has been added to.
Wider(a, b) ==
  /\ DOMAIN a \subseteq DOMAIN b
  /\ \A n \in DOMAIN a : /\ b[n].scheme = a[n].scheme
                         /\ DOMAIN a[n].parts \subseteq DOMAIN b[n].parts
  /\ \A q \in Partitions(a) : q \in Partitions(b)

LEMMA AddBootIs ==
  ASSUME Inv, AddBoot
  PROVE  /\ FormFits(form, st.tab, pc) /\ Good(st) /\ Good(st') /\ st'.disk = st.disk
         /\ Wider(st.tab, st'.tab)
         /\ LET size == Smaller(plat.size[form.scheme], form.max.size)
            IN /\ form.max.start \in Nat /\ size \in Nat
               /\ \E p : Settled(st, st', form.geom, p, form.max.start, size)
<1> DEFINE size == Smaller(plat.size[form.scheme], form.max.size)
           nf == IF BootMount = NoMount THEN "" ELSE Newfs(BootType)
<1>1. /\ pc = "bootadd" /\ pc' = "add" /\ Stay /\ UNCHANGED <<target, home, job, ops>>
      /\ form' = Forward(form, plat.size[form.scheme])
  BY DEF AddBoot
<1>2. PICK dirty \in Dirty :
        LET new == Added(st, form.geom, BootType, form.max.start, size, dirty)
        IN st' = SetDefault(new.st, new.name, form.scheme, BootType, BootMount, nf, Confirmed)
  BY DEF AddBoot
<1> DEFINE new == Added(st, form.geom, BootType, form.max.start, size, dirty)
<1>3. pc \in Forms
  BY <1>1 DEF Forms
<1>4. FormFits(form, st.tab, pc) /\ Editing /\ form.geom \in DOMAIN st.tab /\ ~Zombie(st.tab, form.geom)
  BY <1>3, FormNow
<1>5. Good(st)
  BY <1>4, Now
<1>6. /\ Good(new.st) /\ IsAdded(st, new.st, form.geom, new.name, BootType)
      /\ Settled(st, new.st, form.geom, new.name, form.max.start, size)
      /\ form.max.start \in Nat /\ size \in Nat
  <2>1. CanAdd(Kernel(st), form.geom, BootType, form.max.start, size)
    BY DEF AddBoot
  <2>2. /\ FreeIn(st.tab, form.geom, form.max.start, size)
        /\ form.max.start \in Nat /\ size \in Nat
    BY <2>1, KernelIs DEF CanAdd, FreeIn
  <2> HIDE DEF size
  <2> QED
    BY <1>4, <1>5, <2>2, AddedGood
<1> HIDE DEF new
<1>7. nf # Keep /\ (nf # "" => nf = BootType)
  <2>1. CASE BootMount = NoMount
    <3>1. nf = ""
      BY <2>1, Zenon
    <3>2. "" # Keep
      BY Zenon DEF Keep
    <3> QED
      BY <3>1, <3>2, Zenon
  <2>2. CASE BootMount # NoMount
    <3>1. nf = Newfs(BootType)
      BY <2>2, Zenon
    <3> HIDE DEF nf
    <3> QED
      BY <3>1, NewfsIs
  <2> QED
    BY <2>1, <2>2
<1>8. st' = SetDefault(new.st, new.name, form.scheme, BootType, BootMount, nf, Confirmed)
  BY <1>2, Zenon DEF new
<1> HIDE DEF nf
<1>9. Good(st') /\ st'.disk = st.disk /\ st'.tab = new.st.tab
  <2> DEFINE n == new.name
             r == new.st
             d == SetDefault(r, n, form.scheme, BootType, BootMount, nf, Confirmed)
  <2>1. IsNew(st, r, form.geom, n, BootType, nf, Confirmed)
    BY <1>6, <1>7 DEF IsNew
  <2> HIDE DEF n, r
  <2>2. Good(d) /\ d.disk = st.disk /\ d.tab = r.tab
    BY <2>1, SetUp, SMTT(60)
  <2> HIDE DEF d
  <2>3. st' = d
    BY <1>8 DEF d, n, r
  <2> QED
    BY <2>2, <2>3 DEF r
<1>10. Wider(st.tab, st'.tab)
  BY <1>6, <1>9 DEF IsAdded, Wider
<1>11. Settled(st, st', form.geom, new.name, form.max.start, size)
  BY <1>6, <1>9 DEF Settled
<1> HIDE DEF size
<1> QED
  BY <1>4, <1>5, <1>6, <1>9, <1>10, <1>11 DEF size
LEMMA AddBootInv ==
  ASSUME Inv, AddBoot
  PROVE  Inv' /\ Promised
<1>1. /\ pc = "bootadd" /\ pc' = "add" /\ Stay /\ UNCHANGED <<target, home, job, ops>>
      /\ form' = Forward(form, plat.size[form.scheme])
  BY DEF AddBoot
<1>2. pc \in Forms /\ pc' \in Forms /\ Editing /\ Editing' /\ pc # "addform" /\ pc' # "addform"
  BY <1>1 DEF Forms, Editing, Ended
<1>3. IsJob(job)
  BY <1>2, Now
<1>4. /\ FormFits(form, st.tab, pc) /\ Good(st') /\ st'.disk = st.disk /\ Wider(st.tab, st'.tab)
  BY AddBootIs
<1>5. FormFits(form, st'.tab, pc)
  BY <1>4, FitsGrown DEF FormFits, Wider
<1>6. /\ IsForm(form') /\ form'.geom = form.geom /\ form'.scheme = form.scheme
      /\ form'.seen = form.seen /\ form'.newfs = form.newfs /\ form'.fstype = form.fstype
      /\ form'.cancelled = form.cancelled
      /\ form'.type = form.type
  <2> DEFINE a == form.size - (plat.size[form.scheme] + Reported)
             b == form.free + plat.size[form.scheme]
                  + IF Reported = 0 THEN 0
                    ELSE (Stripe - ((form.free + plat.size[form.scheme]) % Stripe)) % Stripe
  <2>1. form' = [form EXCEPT !.size = a, !.free = b]
    BY <1>1 DEF Forward
  <2> HIDE DEF a, b
  <2>2. IsForm(form)
    BY <1>4 DEF FormFits
  <2> QED
    BY <2>1, <2>2 DEF IsForm
<1>7. FormFits(form', st'.tab, pc')
  BY <1>2, <1>5, <1>6 DEF FormFits
<1>8. Providers(st.tab) \subseteq Providers(st'.tab)
  BY <1>4, MoreProviders DEF Wider
<1>9. Shown(pc', target', home', job', st'.tab)
  BY <1>1, <1>2, <1>8 DEF Inv, Shown, Forms
<1> QED
  BY <1>1, <1>2, <1>3, <1>4, <1>7, <1>9, Onward

LEMMA AddPartitionIs ==
  ASSUME Inv, AddPartition
  PROVE  /\ Good(st') /\ st'.disk = st.disk /\ Wider(st.tab, st'.tab)
         /\ \E p \in Partitions(st'.tab) : home' = IF form.named THEN p ELSE home
<1>1. /\ pc = "add" /\ pc' = "resume" /\ Stay /\ UNCHANGED <<form, target, job, ops>>
      /\ CanAdd(Kernel(st), form.geom, form.type, form.free, form.size)
  BY DEF AddPartition, Return
<1>2. PICK dirty \in Dirty :
        LET new == Added(st, form.geom, form.type, form.free, form.size, dirty)
        IN /\ st' = IF form.type = "freebsd" THEN Partition(new.st, new.name, "BSD")
                    ELSE SetDefault(new.st, new.name, form.scheme, form.type, form.mount,
                                    form.newfs, form.cancelled)
           /\ home' = IF form.named THEN new.name ELSE home
  BY DEF AddPartition
<1> DEFINE new == Added(st, form.geom, form.type, form.free, form.size, dirty)
           p == new.name
           r == new.st
           g == form.geom
           part == Partition(r, p, "BSD")
           made == SetDefault(r, p, form.scheme, form.type, form.mount, form.newfs, form.cancelled)
<1>3. pc \in Forms /\ pc # "addform"
  BY <1>1 DEF Forms
<1>4. FormFits(form, st.tab, pc) /\ Editing /\ g \in DOMAIN st.tab /\ ~Zombie(st.tab, g)
  BY <1>3, FormNow
<1>5. Good(st) /\ Sound(st.tab)
  BY <1>4, Now
<1>6. Good(r) /\ IsAdded(st, r, g, p, form.type)
  <2>1. /\ FreeIn(st.tab, g, form.free, form.size)
        /\ form.free \in Int /\ form.size \in Int
    BY <1>1, KernelIs DEF CanAdd, FreeIn
  <2> QED
    BY <1>4, <1>5, <2>1, AddedGood
<1>7. /\ st' = IF form.type = "freebsd" THEN part ELSE made
      /\ home' = IF form.named THEN p ELSE home
  BY <1>2
<1> HIDE DEF p, r, new
<1>8. ASSUME form.type = "freebsd"
      PROVE  /\ Good(part) /\ part.disk = st.disk
             /\ \A q \in Partitions(r.tab) : q \in Partitions(part.tab)
             /\ DOMAIN part.tab = DOMAIN r.tab \cup {p}
             /\ \A n \in DOMAIN r.tab : n # p => part.tab[n] = r.tab[n]
  <2>1. g \in DiskNames
    <3>1. SUFFICES ASSUME g \notin DiskNames PROVE FALSE
      OBVIOUS
    <3>2. st.tab[g].scheme = "BSD"
      BY <1>4, <1>5, <3>1, SoundGeoms DEF Zombie
    <3>3. "freebsd" \in Types[st.tab[g].scheme]
      BY <1>1, <1>8, KernelIs DEF CanAdd
    <3> QED
      BY <3>2, <3>3 DEF Types
  <2>2. Sound(r.tab) /\ p \in Partitions(r.tab) /\ Front(p) = g
    BY <1>6, SaneTab DEF Good, IsAdded
  <2>3. p \in Names /\ Sits(r.tab, p) /\ Len(p) >= 2
    BY <2>2, PartitionIs
  <2>4. Len(p) = 2
    <3>1. Len(p) \in Nat /\ Len(g) = 1
      BY <2>1, <2>3, DiskNamed DEF Names
    <3>2. Len(Front(p)) = Len(p) - 1
      BY <2>3, <3>1, Split
    <3>3. Len(Front(p)) = 1
      BY <2>2, <3>1, Zenon
    <3>4. Len(p) - 1 = 1
      BY <3>2, <3>3
    <3>5. \A l \in Nat : l - 1 = 1 => l = 2
      OBVIOUS
    <3> QED
      BY <3>1, <3>4, <3>5
  <2>5. Slot(r.tab, p)
    BY <2>1, <2>2, <2>3, <2>4 DEF Slot
  <2>6. Seat(r.tab, p, Table("BSD"))
    BY <2>5 DEF Seat, Table
  <2>7. p \in DOMAIN r.tab => Zombie(r.tab, p)
    BY <1>6 DEF IsAdded
  <2>8. "BSD" \in Schemes
    BY DEF Schemes
  <2>9. /\ Good(part) /\ part.disk = r.disk
        /\ \A q \in Partitions(r.tab) : q \in Partitions(part.tab)
        /\ DOMAIN part.tab = DOMAIN r.tab \cup {p}
        /\ \A n \in DOMAIN r.tab : n # p => part.tab[n] = r.tab[n]
    BY <1>6, <2>6, <2>7, <2>8, PartitionGood
  <2> QED
    BY <1>6, <2>9 DEF IsAdded
<1>9. Good(made) /\ made.disk = st.disk /\ made.tab = r.tab
  <2>1. form.newfs # Keep /\ (form.newfs # "" => form.newfs = form.type \/ form.cancelled)
    BY <1>3, <1>4, NewfsIs DEF FormFits
  <2>2. IsNew(st, r, g, p, form.type, form.newfs, form.cancelled)
    BY <1>6, <2>1 DEF IsNew
  <2> QED
    BY <2>2, SetUp
<1> HIDE DEF part, made
<1>10. p \notin DOMAIN st.tab
  <2>1. p \in Names /\ Len(p) >= 2 /\ p \notin Partitions(st.tab)
    BY <1>6, SaneTab, PartitionIs DEF Good, IsAdded
  <2>2. p \notin DiskNames
    <3>1. \A x \in Nat : x >= 2 => x # 1
      OBVIOUS
    <3>2. Len(p) # 1
      BY <2>1, <3>1 DEF Names
    <3> QED
      BY <3>2, DiskNameApart
  <2> QED
    BY <1>5, <2>1, <2>2, SoundSits DEF Providers, DiskNames
<1>11. Good(st') /\ st'.disk = st.disk
  BY <1>7, <1>8, <1>9
<1>12. /\ DOMAIN r.tab \subseteq DOMAIN st'.tab
       /\ \A n \in DOMAIN st.tab : st'.tab[n] = r.tab[n]
       /\ \A q \in Partitions(r.tab) : q \in Partitions(st'.tab)
  <2>1. DOMAIN st.tab \subseteq DOMAIN r.tab
    BY <1>6 DEF IsAdded
  <2> QED
    BY <1>7, <1>8, <1>9, <1>10, <2>1
<1>13. Wider(st.tab, st'.tab) /\ p \in Partitions(st'.tab)
  BY <1>6, <1>12 DEF IsAdded, Wider
<1> QED
  BY <1>7, <1>11, <1>13
LEMMA AddPartitionInv ==
  ASSUME Inv, AddPartition
  PROVE  Inv' /\ Promised
<1>1. /\ pc = "add" /\ pc' = "resume" /\ Stay /\ UNCHANGED <<form, target, job, ops>>
  BY DEF AddPartition, Return
<1>2. pc \in Forms /\ pc' \notin Forms /\ Editing /\ Editing'
  BY <1>1 DEF Forms, Editing, Ended
<1>3. IsJob(job)
  BY <1>2, Now
<1>4. /\ Good(st') /\ st'.disk = st.disk /\ Wider(st.tab, st'.tab)
      /\ home' = home \/ home' \in Partitions(st'.tab)
  BY AddPartitionIs
<1>5. Providers(st.tab) \subseteq Providers(st'.tab) /\ (home' = home \/ home' \in Providers(st'.tab))
  BY <1>4, MoreProviders DEF Providers, Wider
<1>6. Shown(pc', target', home', job', st'.tab)
  BY <1>1, <1>2, <1>5 DEF Inv, Shown, Forms
<1> QED
  BY <1>1, <1>2, <1>3, <1>4, <1>6, Onward

LEMMA GeomForIs ==
  ASSUME Sound(st.tab), NEW p \in Providers(st.tab) \cup {Nowhere}, GeomFor(p) # Nowhere
  PROVE  GeomFor(p) \in DOMAIN st.tab
<1>1. CASE p \in DOMAIN st.tab
  BY <1>1 DEF GeomFor
<1>2. CASE p \notin DOMAIN st.tab
  <2>1. ~IsDisk(p) /\ GeomFor(p) = Front(p)
    BY <1>2 DEF GeomFor
  <2>2. CASE p = Nowhere
    <3>1. Front(p) = Nowhere
      BY <2>2 DEF Front, Nowhere
    <3> QED
      BY <2>1, <3>1
  <2>3. CASE p \in DiskNames
    BY <2>1, <2>3, DiskNamed
  <2>4. CASE p \in Partitions(st.tab)
    BY <2>1, <2>4, PartitionIs DEF Sits
  <2> QED
    BY <2>2, <2>3, <2>4 DEF Providers, DiskNames
<1> QED
  BY <1>1, <1>2

LEMMA StartCreateInv ==
  ASSUME Inv, Editing, NEW p \in Providers(st.tab) \cup {Nowhere}, NEW inter, NEW type, NEW size,
         NEW mount, NEW named, StartCreate(p, inter, type, size, mount, named),
         UNCHANGED st, Stay, IsJob(job'),
         job' # <<>> => home \in Providers(st.tab) \cup {Nowhere}
  PROVE  Inv' /\ Promised
<1> DEFINE g == GeomFor(p)
           max == MaxFree(st.tab, g)
           text == CASE type # Untyped -> type
                     [] type = Untyped /\ st.tab[g].scheme = "MBR" -> "freebsd"
                     [] OTHER -> "freebsd-ufs"
<1>1. CASE pc' \in {"scheme", "resume"} /\ home' \in {home, Nowhere}
  <2>1. Editing' /\ pc' \notin Forms
    BY <1>1 DEF Editing, Ended, Forms
  <2>2. Shown(pc', target', home', job', st.tab)
    BY <1>1 DEF Shown, Forms
  <2> QED
    BY <2>1, <2>2, OnwardSame
<1>2. CASE /\ g # Nowhere /\ ~Zombie(st.tab, g)
           /\ form' = [inter |-> inter, geom |-> g, scheme |-> st.tab[g].scheme,
                       seen |-> st.tab[g], max |-> max, free |-> max.start,
                       type |-> text, asked |-> size, size |-> max.size, mount |-> mount,
                       fstype |-> text, newfs |-> Newfs(text), cancelled |-> FALSE,
                       named |-> named]
           /\ pc' = "addform" /\ UNCHANGED <<target, home>>
  <2>1. Editing' /\ pc' \in Forms
    BY <1>2 DEF Editing, Ended, Forms
  <2>2. g \in DOMAIN st.tab
    BY <1>2, Now, GeomForIs
  <2> HIDE DEF text, max, g
  <2>3. /\ IsForm(form') /\ form'.geom = g /\ form'.scheme = st.tab[g].scheme
        /\ form'.seen = st.tab[g] /\ form'.newfs = Newfs(text) /\ form'.fstype = text
    BY <1>2 DEF IsForm
  <2>4. FormFits(form', st.tab, pc')
    BY <1>2, <2>2, <2>3, NewfsIs DEF FormFits
  <2>5. Shown(pc', target', home', job', st.tab)
    BY <1>2 DEF Shown, Forms
  <2> QED
    BY <2>1, <2>4, <2>5, OnwardSame
<1>3. \/ pc' \in {"scheme", "resume"} /\ home' \in {home, Nowhere}
      \/ /\ g # Nowhere /\ ~Zombie(st.tab, g)
         /\ form' = [inter |-> inter, geom |-> g, scheme |-> st.tab[g].scheme,
                     seen |-> st.tab[g], max |-> max, free |-> max.start,
                     type |-> text, asked |-> size, size |-> max.size, mount |-> mount,
                     fstype |-> text, newfs |-> Newfs(text), cancelled |-> FALSE,
                       named |-> named]
         /\ pc' = "addform" /\ UNCHANGED <<target, home>>
  <2>1. CASE g = Nowhere \/ Zombie(st.tab, g)
    BY <2>1 DEF StartCreate, AskScheme
  <2>2. CASE ~(g = Nowhere \/ Zombie(st.tab, g)) /\ max.size <= 0
    BY <2>2 DEF StartCreate, Return
  <2>3. CASE ~(g = Nowhere \/ Zombie(st.tab, g)) /\ ~(max.size <= 0)
    BY <2>3 DEF StartCreate
  <2> QED
    BY <2>1, <2>2, <2>3
<1> QED
  BY <1>1, <1>2, <1>3

LEMMA MenuCreateInv ==
  ASSUME Inv, NEW p \in Providers(st.tab), MenuCreate(p)
  PROVE  Inv' /\ Promised
<1>1. /\ pc = "menu" /\ Stay /\ UNCHANGED <<st, job>>
      /\ StartCreate(p, TRUE, Untyped, Rest, NoMount, FALSE)
  BY DEF MenuCreate, Menu
<1>2. Editing
  BY <1>1 DEF Editing, Ended
<1>3. job' = <<>>
  BY <1>1 DEF Inv, Shown
<1> QED
  BY <1>1, <1>2, <1>3, NoJob, StartCreateInv

LEMMA MenuDeleteInv ==
  ASSUME Inv, NEW p \in Providers(st.tab), MenuDelete(p)
  PROVE  Inv' /\ Promised
<1>1. /\ pc = "menu" /\ pc' = pc /\ Stay /\ UNCHANGED <<form, target, home, job>>
      /\ st' = IF ~IsDisk(p) THEN DeletePart(st, p)
               ELSE IF p \in DOMAIN st.tab THEN DestroyGeom(st, p) ELSE st
  BY DEF MenuDelete, Menu
<1>2. Editing /\ Editing' /\ pc' \notin Forms
  BY <1>1 DEF Editing, Ended, Forms
<1>3. Good(st) /\ Sane(st) /\ Sound(st.tab) /\ IsJob(job)
  BY <1>2, Now
<1>4. Good(st') /\ st'.disk = st.disk
  <2>1. CASE ~IsDisk(p)
    <3>1. p \in Partitions(st.tab)
      BY <2>1, DiskNamed DEF Providers, DiskNames
    <3>2. PartGone(st, DeletePart(st, p), p)
      BY <1>3, <3>1, PartDeleted
    <3>3. Good(DeletePart(st, p))
      BY <1>3, <3>1, <3>2, PartGoneGood
    <3> QED
      BY <1>1, <2>1, <3>2, <3>3 DEF PartGone
  <2>2. CASE IsDisk(p) /\ p \in DOMAIN st.tab
    <3>1. Razed(st, DestroyGeom(st, p), p, Held(st.tab, p))
      BY <1>3, <2>2, DestroyGeomIs
    <3>2. Good(DestroyGeom(st, p))
      BY <1>3, <2>2, <3>1, GoodIsGoodBut, RazedGood
    <3> QED
      BY <1>1, <2>2, <3>1, <3>2 DEF Razed
  <2>3. CASE IsDisk(p) /\ p \notin DOMAIN st.tab
    BY <1>1, <1>3, <2>3
  <2> QED
    BY <2>1, <2>2, <2>3
<1>5. Shown(pc', target', home', job', st'.tab)
  BY <1>1 DEF Inv, Shown, Forms
<1> QED
  BY <1>1, <1>2, <1>3, <1>4, <1>5, Onward

LEMMA MenuModifyInv ==
  ASSUME Inv, NEW p \in Providers(st.tab), MenuModify(p)
  PROVE  Inv' /\ Promised
<1> DEFINE blank == p \notin DOMAIN st.tab \/ Zombie(st.tab, p)
<1>1. /\ pc = "menu" /\ Stay /\ UNCHANGED <<form, home, job>>
      /\ IF IsDisk(p) \/ Zombie(st.tab, p)
         THEN pc' = "scheme" /\ st' = IF blank THEN st ELSE DestroyGeom(st, p)
         ELSE pc' = "editform" /\ target' = p /\ UNCHANGED st
  BY DEF MenuModify, Menu, AskScheme
<1>2. Editing /\ Editing' /\ pc' \notin Forms
  BY <1>1 DEF Editing, Ended, Forms
<1>3. Good(st) /\ Sane(st) /\ Sound(st.tab) /\ IsJob(job)
  BY <1>2, Now
<1>4. job' = <<>>
  BY <1>1 DEF Inv, Shown
<1>5. CASE ~(IsDisk(p) \/ Zombie(st.tab, p))
  <2>1. p \in Partitions(st.tab)
    BY <1>5, DiskNamed DEF Providers, DiskNames
  <2>2. Shown(pc', target', home', job', st.tab)
    BY <1>1, <1>4, <1>5, <2>1 DEF Shown, Forms
  <2> QED
    BY <1>1, <1>2, <1>4, <1>5, <2>2, NoJob, OnwardSame
<1>6. CASE IsDisk(p) \/ Zombie(st.tab, p)
  <2>1. Good(st') /\ st'.disk = st.disk
    <3>1. CASE blank
      BY <1>1, <1>3, <1>6, <3>1
    <3>2. CASE ~blank
      <4>1. Razed(st, DestroyGeom(st, p), p, Held(st.tab, p)) /\ p \in DOMAIN st.tab
        BY <1>3, <3>2, DestroyGeomIs
      <4>2. Good(DestroyGeom(st, p))
        BY <1>3, <4>1, GoodIsGoodBut, RazedGood
      <4> QED
        BY <1>1, <1>6, <3>2, <4>1, <4>2 DEF Razed
    <3> QED
      BY <3>1, <3>2
  <2>2. Shown(pc', target', home', job', st'.tab)
    BY <1>1, <1>4, <1>6 DEF Shown, Forms
  <2> QED
    BY <1>1, <1>2, <1>4, <2>1, <2>2, NoJob, Onward
<1> QED
  BY <1>5, <1>6

LEMMA MenuRevertInv ==
  ASSUME Inv, MenuRevert
  PROVE  Inv' /\ Promised
<1> DEFINE r == RevertAll(st)
           md == FromFstab(fstab)
<1>1. /\ pc = "menu" /\ pc' = pc /\ Stay /\ UNCHANGED <<form, target, home, job>>
      /\ st' = [r EXCEPT !.md = md]
  BY DEF MenuRevert, Menu
<1>2. Editing /\ Editing' /\ pc' \notin Forms
  BY <1>1 DEF Editing, Ended, Forms
<1>3. Good(st) /\ Sane(st) /\ IsJob(job) /\ IsKernel(Kernel(st)) /\ Steady(st.disk, fstab)
  BY <1>2, Now
<1>4. IsStore(st) /\ InStep(Kernel(st))
  BY <1>3 DEF Sane
<1>5. IsStore(r) /\ r.disk = st.disk /\ r.mod = {} /\ r.tab = st.disk
  BY <1>3, <1>4, Reverted
<1> HIDE DEF r, md
<1>6. /\ IsStore(st') /\ st'.md = md /\ st'.tab = st.disk /\ st'.mod = {} /\ st'.disk = st.disk
  BY <1>1, <1>5, ListIs
<1>7. Good(st')
  <2>1. fstab \in Fstabs /\ \A i \in DOMAIN fstab : fstab[i].name \in Partitions(st'.disk) \cup {Label}
    BY <1>3, <1>6 DEF Steady
  <2>2. OnDisks(st'.disk)
    BY <1>3, <1>6 DEF Steady
  <2> QED
    BY <1>6, <2>1, <2>2, FreshGood DEF md
<1>8. Shown(pc', target', home', job', st'.tab)
  BY <1>1 DEF Inv, Shown, Forms
<1> QED
  BY <1>1, <1>2, <1>3, <1>6, <1>7, <1>8, Onward

LEMMA MenuAutoInv ==
  ASSUME Inv, MenuAuto
  PROVE  Inv' /\ Promised
<1>1. /\ pc = "menu" /\ pc' = "wdisk" /\ Stay /\ job' = Wizard("freebsd-ufs") /\ UNCHANGED st
  BY DEF MenuAuto, Menu
<1>2. Editing /\ Editing' /\ pc' \notin Forms
  BY <1>1 DEF Editing, Ended, Forms
<1>3. Shown(pc', target', home', job', st.tab)
  BY <1>1 DEF Shown, Forms
<1> QED
  BY <1>1, <1>2, <1>3, WizardIs, OnwardSame

LEMMA MenuFinishInv ==
  ASSUME Inv, MenuFinish
  PROVE  Inv' /\ Promised
<1>1. /\ pc = "menu" /\ pc' = "confirm" /\ Stay /\ UNCHANGED <<st, form, target, home, job>>
  BY DEF MenuFinish
<1>2. Editing /\ Editing' /\ pc' \notin Forms
  BY <1>1 DEF Editing, Ended, Forms
<1>3. Shown(pc', target', home', job', st.tab) /\ job' = <<>>
  BY <1>1 DEF Inv, Shown, Forms
<1> QED
  BY <1>1, <1>2, <1>3, NoJob, OnwardSame

LEMMA EndEditInv ==
  ASSUME Inv, pc = "editform", NEW s, NEW type, EndEdit(s, type), GoodBut(s, target),
         target \in Partitions(s.tab), s.disk = st.disk,
         type = Part(st.tab, target).type \/ target \notin DOMAIN s.tab => Good(s),
         Stay, UNCHANGED <<form, target, home, job, ops>>
  PROVE  Inv' /\ Promised
<1> DEFINE changed == type # Part(st.tab, target).type
           bare == IF changed /\ target \in DOMAIN s.tab THEN DestroyNested(s, target) ELSE s
<1>1. /\ pc' \in {"resume", "scheme"}
      /\ \/ st' = bare
         \/ CanCreate(Kernel(bare), target, "BSD") /\ st' = Partition(bare, target, "BSD")
  BY DEF EndEdit, Return
<1>2. /\ Good(bare) /\ bare.disk = s.disk
      /\ CanCreate(Kernel(bare), target, "BSD") =>
           Good(Partition(bare, target, "BSD")) /\ Partition(bare, target, "BSD").disk = s.disk
  <2>1. changed \in BOOLEAN /\ (~changed \/ target \notin DOMAIN s.tab => Good(s))
    OBVIOUS
  <2> HIDE DEF changed
  <2> QED
    BY <2>1, EditDone
<1> HIDE DEF bare
<1>3. Good(st') /\ st'.disk = st.disk
  BY <1>1, <1>2
<1>4. Editing /\ Editing' /\ pc' \notin Forms
  BY <1>1 DEF Editing, Ended, Forms
<1>5. job' = <<>>
  BY DEF Inv, Shown
<1>6. Shown(pc', target', home', job', st'.tab)
  BY <1>1, <1>5 DEF Shown, Forms
<1> QED
  BY <1>3, <1>4, <1>5, <1>6, NoJob, Onward

LEMMA EditOkInv ==
  ASSUME Inv, NEW type, NEW mount, EditOk(type, mount)
  PROVE  Inv' /\ Promised
<1> DEFINE old == Part(st.tab, target).type
           scheme == st.tab[Front(target)].scheme
           nopool == /\ type = old /\ type = "freebsd-zfs"
                     /\ Mountpoint(scheme, type, mount) # NoMount
           kept == With(st, Modify(Kernel(st), target, type))
           done == SetDefault(kept, target, scheme, type, mount,
                              IF type = old THEN Keep ELSE Newfs(type), Confirmed)
<1>1. /\ pc = "editform" /\ Stay /\ UNCHANGED <<form, target, home, job, ops>>
      /\ IF nopool THEN st' = kept /\ pc' = "crashed" ELSE EndEdit(done, type)
  BY DEF EditOk
<1>2. Editing
  BY <1>1 DEF Editing, Ended
<1>3. Good(st) /\ Sane(st) /\ Sound(st.tab) /\ plat \in Machines
  BY <1>2, Now
<1>4. target \in Partitions(st.tab) /\ ~Zombie(st.tab, target)
  BY <1>1 DEF Inv, Shown
<1>5. /\ GoodBut(done, target) /\ done.disk = st.disk /\ target \in Partitions(done.tab)
      /\ type = old \/ target \notin DOMAIN done.tab => Good(done)
      /\ type = old => Good(kept)
      /\ kept.disk = st.disk
  BY <1>3, <1>4, EditGood, SMTT(60)
<1>6. CASE nopool
  <2>1. st' = kept /\ pc' = "crashed" /\ Good(kept)
    BY <1>1, <1>5, <1>6
  <2> HIDE DEF kept
  <2>2. Always(st') /\ st'.disk = st.disk
    BY <1>5, <2>1 DEF Good, Sane, Always, InStep
  <2>3. ~Editing' /\ pc' \notin {"commit", "done", "quit", "interrupted"} /\ pc' \notin Forms
    BY <2>1 DEF Editing, Ended, Forms
  <2>4. Shown(pc', target', home', job', st'.tab)
    BY <2>1 DEF Shown, Forms
  <2> QED
    BY <1>1, <1>3, <2>2, <2>3, <2>4 DEF Inv, Promised, Stay
<1>7. CASE ~nopool
  <2>1. EndEdit(done, type)
    BY <1>1, <1>7
  <2> HIDE DEF done
  <2> QED
    BY <1>1, <1>5, <2>1, EndEditInv
<1> QED
  BY <1>6, <1>7

LEMMA EditCancelInv ==
  ASSUME Inv, NEW type, EditCancel(type)
  PROVE  Inv' /\ Promised
<1>1. /\ pc = "editform" /\ EndEdit(st, type) /\ Stay /\ UNCHANGED <<form, target, home, job, ops>>
  BY DEF EditCancel
<1>2. Editing
  BY <1>1 DEF Editing, Ended
<1>3. Good(st)
  BY <1>2, Now
<1>4. target \in Partitions(st.tab) /\ GoodBut(st, target)
  BY <1>1, <1>3, GoodIsGoodBut DEF Inv, Shown
<1> QED
  BY <1>1, <1>3, <1>4, EndEditInv

LEMMA ChooseDiskInv ==
  ASSUME Inv, NEW d \in Disks, ChooseDisk(d)
  PROVE  Inv' /\ Promised
<1>1. /\ pc = "wdisk" /\ pc' = "wpart" /\ home' = <<d>> /\ Stay /\ UNCHANGED <<st, job>>
  BY DEF ChooseDisk
<1>2. Editing /\ Editing' /\ pc' \notin Forms
  BY <1>1 DEF Editing, Ended, Forms
<1>3. PICK fs : job = Wizard(fs)
  BY <1>1 DEF Inv, Shown
<1>4. Shown(pc', target', home', job', st.tab)
  BY <1>1, <1>3 DEF Shown, Forms, DiskNames
<1>5. IsJob(job')
  BY <1>1, <1>2, Now
<1> QED
  BY <1>1, <1>2, <1>4, <1>5, OnwardSame

LEMMA WizardStepInv ==
  ASSUME Inv, NoDisk \/ ToEditor \/ NoWizardScheme \/ AnotherDisk
  PROVE  Inv' /\ Promised
<1>1. pc \in {"wdisk", "wshort", "wscheme"} /\ Stay /\ UNCHANGED <<st, form, target, home>>
  BY DEF NoDisk, ToEditor, NoWizardScheme, AnotherDisk
<1>2. Editing
  BY <1>1 DEF Editing, Ended
<1>3. CASE ToMenu
  BY <1>1, <1>2, <1>3, ToMenuInv
<1>4. CASE AnotherDisk
  <2>1. pc' = "wdisk" /\ \E fs : job' = Wizard(fs)
    BY <1>4 DEF AnotherDisk
  <2>2. IsJob(job') /\ Editing' /\ pc' \notin Forms
    BY <2>1, WizardIs DEF Editing, Ended, Forms
  <2>3. Shown(pc', target', home', job', st.tab)
    BY <2>1 DEF Shown, Forms
  <2> QED
    BY <1>1, <1>2, <2>2, <2>3, OnwardSame
<1> QED
  BY <1>3, <1>4 DEF NoDisk, ToEditor, NoWizardScheme

LEMMA UseDiskInv ==
  ASSUME Inv, NEW answer, UseDisk(answer)
  PROVE  Inv' /\ Promised
<1> DEFINE scheme == Scheme(home)
           anew == \/ answer = "entire" \/ scheme = None
                   \/ answer = "partition" /\ scheme \notin plat.bootable
           slice == [Head(job) EXCEPT !.inter = answer # "entire"]
<1>1. /\ pc = "wpart" /\ Stay /\ UNCHANGED <<form, target, home, ops>>
      /\ st' = IF anew /\ scheme # None THEN DestroyGeom(st, home) ELSE st
      /\ job' = IF anew \/ scheme = "MBR" THEN <<slice>> \o Tail(job) ELSE Tail(job)
      /\ pc' = IF anew THEN "wscheme" ELSE "resume"
  BY DEF UseDisk
<1> HIDE DEF anew
<1>2. Editing /\ Editing' /\ pc' \notin Forms
  BY <1>1 DEF Editing, Ended, Forms
<1>3. Good(st) /\ Sane(st)
  BY <1>2, Now
<1>4. PICK fs : job = Wizard(fs)
  BY <1>1 DEF Inv, Shown
<1>5. home \in DiskNames
  BY <1>1 DEF Inv, Shown
<1>6. /\ IsJob(Tail(job)) /\ IsJob(<<slice>> \o Tail(job)) /\ <<slice>> \o Tail(job) # <<>>
  BY <1>4, WizardIs
<1> HIDE DEF slice
<1>7. IsJob(job') /\ (anew => job' # <<>>)
  BY <1>1, <1>6
<1>8. /\ Good(st') /\ st'.disk = st.disk
      /\ anew /\ home \in DOMAIN st'.tab => Zombie(st'.tab, home)
  <2>1. CASE anew /\ scheme # None
    <3>1. home \in DOMAIN st.tab
      BY <2>1 DEF Scheme
    <3>2. Razed(st, DestroyGeom(st, home), home, Held(st.tab, home))
      BY <1>3, <3>1, DestroyGeomIs
    <3>3. Good(DestroyGeom(st, home))
      BY <1>3, <3>1, <3>2, GoodIsGoodBut, RazedGood
    <3>4. st' = DestroyGeom(st, home)
      BY <1>1, <2>1
    <3>5. Table(None).scheme = None
      BY DEF Table
    <3> QED
      BY <3>2, <3>3, <3>4, <3>5 DEF Razed, Zombie
  <2>2. CASE ~(anew /\ scheme # None)
    BY <1>1, <1>3, <2>2 DEF Scheme, Zombie
  <2> QED
    BY <2>1, <2>2
<1> HIDE DEF scheme
<1>9. Shown(pc', target', home', job', st'.tab)
  BY <1>1, <1>5, <1>7, <1>8 DEF Shown, Forms, Providers, DiskNames
<1> QED
  BY <1>1, <1>2, <1>7, <1>8, <1>9, Onward

\* The editor dies.
LEMMA OnwardLost ==
  ASSUME Inv, Editing, UNCHANGED st, Stay, pc' \in {"crashed", "failed"}
  PROVE  Inv' /\ Promised
<1>1. ~Editing' /\ pc' \notin {"commit", "done", "quit", "interrupted"} /\ pc' \notin Forms
  BY DEF Editing, Ended, Forms
<1>2. Shown(pc', target', home', job', st'.tab)
  BY DEF Shown, Forms
<1>3. Always(st') /\ st'.disk = st.disk /\ plat' \in Machines
  BY DEF Inv, Stay
<1> QED
  BY <1>1, <1>2, <1>3 DEF Inv, Promised

LEMMA NothingLeftInv ==
  ASSUME Inv, NothingLeft
  PROVE  Inv' /\ Promised
<1>1. /\ pc = "resume" /\ job = <<>> /\ pc' \in {"menu", "confirm"} /\ Stay /\ UNCHANGED <<st, job>>
  BY DEF NothingLeft
<1>2. Editing /\ Editing' /\ pc' \notin Forms
  BY <1>1 DEF Editing, Ended, Forms
<1>3. Shown(pc', target', home', job', st.tab)
  BY <1>1 DEF Shown, Forms
<1> QED
  BY <1>1, <1>2, <1>3, NoJob, OnwardSame

LEMMA PartsJob ==
  ASSUME NEW fs, NEW size
  PROVE  IsJob(<<Root(fs, size), SwapPart>>)
<1> DEFINE S == {Root(fs, size), SwapPart}
<1>1. Root(fs, size).do # "disk" /\ SwapPart.do # "disk"
  BY DEF Root, SwapPart
<1>2. IsTask(Root(fs, size)) /\ IsTask(SwapPart)
  BY <1>1, IsAnyTask
<1>3. <<Root(fs, size), SwapPart>> \in Seq(S) /\ \A t \in S : IsTask(t)
  BY <1>2
<1> HIDE DEF S
<1> QED
  BY <1>3, JobOf

LEMMA DoMakePartsInv ==
  ASSUME Inv, pc = "resume", job # <<>>, NEW task, DoMakeParts(task),
         Stay, UNCHANGED <<st, form, target, home>>
  PROVE  Inv' /\ Promised
<1>1. Editing
  BY DEF Editing, Ended
<1>2. IsJob(job)
  BY <1>1, Now
<1>3. \/ ToMenu
      \/ pc' = "crashed"
      \/ pc' = "wshort" /\ UNCHANGED job
      \/ pc' = pc /\ \E size : job' = <<Root(task.fs, size), SwapPart>> \o Tail(job)
  BY DEF DoMakeParts
<1>4. CASE ToMenu
  BY <1>1, <1>4, ToMenuInv
<1>5. CASE pc' = "crashed"
  BY <1>1, <1>5, OnwardLost
<1>6. CASE pc' = "wshort" /\ UNCHANGED job
  <2>1. Editing' /\ pc' \notin Forms
    BY <1>6 DEF Editing, Ended, Forms
  <2>2. Shown(pc', target', home', job', st.tab)
    BY <1>6 DEF Shown, Forms
  <2> QED
    BY <1>1, <1>2, <1>6, <2>1, <2>2, OnwardSame
<1>7. CASE pc' = pc /\ \E size : job' = <<Root(task.fs, size), SwapPart>> \o Tail(job)
  <2>1. Editing' /\ pc' \notin Forms
    BY <1>7 DEF Editing, Ended, Forms
  <2>2. IsJob(job')
    BY <1>2, <1>7, PartsJob, JobTail, JobJoined
  <2>3. Shown(pc', target', home', job', st.tab)
    BY <1>7 DEF Inv, Shown, Forms
  <2> QED
    BY <1>1, <2>1, <2>2, <2>3, OnwardSame
<1> QED
  BY <1>3, <1>4, <1>5, <1>6, <1>7

LEMMA DoDiskInv ==
  ASSUME Inv, pc = "resume", job # <<>>, Head(job).do = "disk", DoDisk(Head(job)),
         Stay, UNCHANGED <<form, target>>
  PROVE  Inv' /\ Promised
<1> DEFINE task == Head(job)
           g == <<task.disk>>
           scheme == IF task.scheme = None THEN plat.default ELSE task.scheme
           bare == IF g \in DOMAIN st.tab THEN DestroyGeom(st, g) ELSE st
           slicing == [do |-> "slice", inter |-> FALSE]
           making == [do |-> "makeparts", fs |-> "freebsd-ufs", inter |-> FALSE]
           slice == IF scheme = "MBR" THEN <<slicing>> ELSE <<>>
           parts == IF task.parts # <<>> THEN task.parts ELSE <<making>>
<1>1. Editing
  BY DEF Editing, Ended
<1>2. Good(st) /\ Sane(st) /\ IsJob(job) /\ plat \in Machines
  BY <1>1, Now
<1>3. IsTask(task) /\ IsJob(Tail(job)) /\ task.do = "disk"
  BY <1>2, JobTail
<1>4. CASE task.disk \notin Disks
  <2>1. pc' = "failed" /\ UNCHANGED st
    BY <1>4 DEF DoDisk
  <2> QED
    BY <1>1, <2>1, OnwardLost
<1>5. CASE task.disk \in Disks
  <2>1. /\ st' = Partition(bare, g, scheme) /\ home' = g /\ job' = slice \o parts \o Tail(job)
        /\ pc' = pc
    BY <1>5 DEF DoDisk
  <2>2. g \in DiskNames
    BY <1>5 DEF DiskNames
  <2>3. scheme \in Schemes
    BY <1>2, <1>3, MachinesAssumption DEF IsTask
  <2>4. IsTask(slicing) /\ IsTask(making)
    <3>1. slicing.do # "disk" /\ making.do # "disk"
      BY Zenon
    <3> HIDE DEF slicing, making
    <3> QED
      BY <3>1, IsAnyTask
  <2> HIDE DEF slicing, making
  <2>5. IsJob(slice)
    BY <2>4, OneTask, NoJob
  <2>6. IsJob(parts)
    <3>1. IsJob(<<making>>)
      BY <2>4, OneTask
    <3>2. IsJob(task.parts)
      <4>1. /\ task.parts \in Seq(Range(task.parts))
            /\ \A i \in DOMAIN task.parts : task.parts[i].do = "create"
        BY <1>3 DEF IsTask
      <4>2. \A i \in DOMAIN task.parts : IsTask(task.parts[i])
        BY <4>1, IsAnyTask
      <4> QED
        BY <4>1, <4>2 DEF IsJob
    <3> QED
      BY <3>1, <3>2
  <2> HIDE DEF slice, parts
  <2>7. IsJob(job')
    BY <1>3, <2>1, <2>5, <2>6, JobJoined
  <2>8. Good(bare) /\ bare.disk = st.disk /\ (g \in DOMAIN bare.tab => Zombie(bare.tab, g))
    <3>1. CASE g \in DOMAIN st.tab
      <4>1. Razed(st, DestroyGeom(st, g), g, Held(st.tab, g))
        BY <1>2, <3>1, DestroyGeomIs
      <4>2. Good(DestroyGeom(st, g))
        BY <1>2, <3>1, <4>1, GoodIsGoodBut, RazedGood
      <4>3. Table(None).scheme = None
        BY DEF Table
      <4> QED
        BY <3>1, <4>1, <4>2, <4>3 DEF Razed, Zombie
    <3>2. CASE g \notin DOMAIN st.tab
      BY <1>2, <3>2
    <3> QED
      BY <3>1, <3>2
  <2> HIDE DEF bare, scheme, g
  <2>9. Seat(bare.tab, g, Table(scheme))
    BY <2>2 DEF Seat
  <2>10. Good(st') /\ st'.disk = st.disk
    BY <2>1, <2>3, <2>8, <2>9, PartitionGood
  <2>11. Editing' /\ pc' \notin Forms
    BY <2>1 DEF Editing, Ended, Forms
  <2>12. Shown(pc', target', home', job', st'.tab)
    BY <2>1, <2>2 DEF Shown, Forms, Providers, DiskNames
  <2> QED
    BY <1>1, <2>7, <2>10, <2>11, <2>12, Onward
<1> QED
  BY <1>4, <1>5

LEMMA ResumeInv ==
  ASSUME Inv, Resume
  PROVE  Inv' /\ Promised
<1>1. pc = "resume" /\ job # <<>> /\ Stay
  BY DEF Resume
<1>2. Editing
  BY <1>1 DEF Editing, Ended
<1>3. IsJob(Tail(job)) /\ home \in Providers(st.tab) \cup {Nowhere}
  BY <1>1, <1>2, Now, JobTail DEF Inv, Shown
<1>4. CASE Next1.do = "slice" /\ job' = Tail(job) /\ UNCHANGED st
           /\ StartCreate(home, Next1.inter, "freebsd", Rest, NoMount, TRUE)
  BY <1>1, <1>2, <1>3, <1>4, StartCreateInv
<1>5. CASE Next1.do = "create" /\ job' = Tail(job) /\ UNCHANGED st
           /\ StartCreate(home, FALSE, Next1.type, Next1.size, Next1.mount, FALSE)
  BY <1>1, <1>2, <1>3, <1>5, StartCreateInv
<1>6. CASE DoMakeParts(Next1) /\ UNCHANGED <<st, form, target, home>>
  BY <1>1, <1>6, DoMakePartsInv
<1>7. CASE Next1.do = "disk" /\ DoDisk(Next1) /\ UNCHANGED <<form, target>>
  BY <1>1, <1>7, DoDiskInv DEF Next1
<1> QED
  BY <1>4, <1>5, <1>6, <1>7 DEF Resume

-----------------------------------------------------------------------------
\* The end of a session.
LEMMA GivenUpInv ==
  ASSUME Inv, st' = RevertAll(st), pc' \in {"quit", "interrupted"}, Stay
  PROVE  Inv' /\ (Editing => Promised)
<1>1. Always(st)
  BY DEF Inv
<1>2. /\ IsStore(st') /\ IsKernel(Kernel(st')) /\ st'.disk = st.disk /\ st'.md = st.md
      /\ InStep(Kernel(st)) => st'.tab = st.disk
  BY <1>1, Reverted DEF Always
<1>3. Always(st')
  BY <1>1, <1>2 DEF Always
<1>4. ~Editing' /\ pc' \notin {"commit", "done"} /\ pc' \notin Forms
  BY DEF Editing, Ended, Forms
<1>5. Shown(pc', target', home', job', st'.tab)
  BY DEF Shown, Forms
<1>6. Editing => InStep(Kernel(st))
  BY DEF Inv, Good, Sane
<1> QED
  BY <1>2, <1>3, <1>4, <1>5, <1>6 DEF Inv, Promised, Stay

LEMMA MetadataOf ==
  ASSUME NEW md, IsList(md), Once(md), NEW m \in Range(md), m.name # Label
  PROVE  Metadata(md, m.name) = m
<1>1. PICK i \in DOMAIN md : md[i] = m
  BY DEF Range
<1>2. Has(md, m.name)
  BY <1>1 DEF Has
<1>3. Index(md, m.name) = i
  BY <1>1, <1>2, Found DEF Once
<1> QED
  BY <1>1, <1>2, <1>3 DEF Metadata

LEMMA WritingNext ==
  ASSUME Writing(st'), UNCHANGED fstab
  PROVE  Writing(st)'
BY DEF Writing, EntryOK, Labels

\* gpart_commit() begins with every geom that boot code is due for.
LEMMA CommitsIs ==
  ASSUME Sane(st)
  PROVE  /\ IsCommits(Commits, st.tab)
         /\ \A g \in st.mod : \E i \in DOMAIN Commits :
              Commits[i].codes = Codes(g) /\ Commits[i].occupied = Occupied(g)
<1> DEFINE q == SetToSeq(st.mod)
           n == Cardinality(st.mod)
<1>1. IsFiniteSet(st.mod) /\ st.mod \subseteq DOMAIN st.tab
  BY SaneTab, FS_Subset DEF Sound
<1>2. /\ n \in Nat /\ DOMAIN q = 1 .. n /\ (\A i \in 1 .. n : q[i] \in st.mod)
      /\ \A i, j \in 1 .. n : q[i] = q[j] => i = j
      /\ \A x \in st.mod : \E i \in 1 .. n : q[i] = x
  BY <1>1, SetAsSeq
<1> HIDE DEF q, n
<1>3. Commits =
        [i \in 1 .. n |-> [geom |-> q[i], codes |-> Codes(q[i]), occupied |-> Occupied(q[i])]]
  BY <1>2 DEF Commits, q
<1>4. \A i \in 1 .. n : Commits[i] \in Range(Commits)
  BY <1>3 DEF Range
<1>5. Commits \in Seq(Range(Commits))
  <2> DEFINE S == Range(Commits)
             c == Commits
  <2>1. c = [i \in 1 .. n |-> c[i]] /\ \A i \in 1 .. n : c[i] \in S
    BY <1>3, <1>4
  <2> HIDE DEF S, c
  <2>2. c \in Seq(S)
    BY <1>2, <2>1
  <2> QED
    BY <2>2 DEF S, c
<1>6. \A i \in 1 .. n : /\ Commits[i].geom = q[i] /\ Commits[i].codes = Codes(q[i])
                         /\ Commits[i].occupied = Occupied(q[i])
  BY <1>3
<1>7. DOMAIN Commits = 1 .. n
  BY <1>3
<1> QED
  BY <1>1, <1>2, <1>5, <1>6, <1>7 DEF IsCommits

LEMMA StartCommitInv ==
  ASSUME Inv, StartCommit
  PROVE  Inv' /\ Promised
<1>1. /\ pc = "confirm" /\ pc' = "commit" /\ Roots(st.md) # {} /\ job' = Commits
      /\ Stay /\ UNCHANGED <<st, form, target, home>>
  BY DEF StartCommit
<1>2. Editing /\ ~Editing' /\ pc' \notin Forms /\ pc' \notin {"done", "quit", "interrupted"}
  BY <1>1 DEF Editing, Ended, Forms
<1>3. Good(st) /\ Sane(st) /\ Sound(st.tab)
  BY <1>2, Now
<1>4. Writing(st)
  BY <1>3 DEF Good, Sane, Writing, InStep
<1>5. /\ IsCommits(job', st.tab)
      /\ \A g \in st.mod : \E i \in DOMAIN job' :
           job'[i].codes = Codes(g) /\ job'[i].occupied = Occupied(g)
  BY <1>1, <1>3, CommitsIs
<1>6. ASSUME NEW m \in Range(st.md), Due(m)
      PROVE  \E g \in st.mod : m.name \in Codes(g) \cup Occupied(g)
  <2>1. m.bootcode /\ CodeDue(m, st.tab, st.mod)
    BY <1>3, <1>6 DEF Due, NeedsCode, Vacated, Good
  <2>2. m.name # Label
    BY <1>3, <1>6, NotLabel DEF Due, NeedsCode, Vacated, Zombie
  <2>3. Metadata(st.md, m.name) = m
    BY <1>3, <2>2, MetadataOf DEF Sane
  <2>4. CASE NeedsCode(m) /\ m.name \in DOMAIN st.tab
    <3>1. m.name \in st.mod /\ st.tab[m.name].scheme \in plat.bootcode
      BY <2>1, <2>4 DEF NeedsCode, CodeDue
    <3>2. m.name \in Codes(m.name)
      BY <2>1, <2>3, <3>1 DEF Codes
    <3> QED
      BY <3>1, <3>2
  <2>5. CASE Vacated(m) \/ (NeedsCode(m) /\ m.name \notin DOMAIN st.tab)
    <3>1. /\ m.name \in Partitions(st.tab) /\ Front(m.name) \in st.mod
          /\ st.tab[Front(m.name)].scheme \in plat.partcode
          /\ m.name \in DOMAIN st.tab => Zombie(st.tab, m.name)
      BY <2>1, <2>5 DEF Vacated, NeedsCode, CodeDue
    <3>2. /\ m.name \in Names /\ Len(m.name) >= 2 /\ Sits(st.tab, m.name)
      BY <1>3, <3>1, PartitionIs
    <3>3. m.name = Append(Front(m.name), Last(m.name))
      BY <3>2, Split DEF Names
    <3>4. m.name \in PartsOf(st.tab, Front(m.name))
      BY <3>2, <3>3 DEF PartsOf, Sits
    <3>5. m.name \in Codes(Front(m.name)) \cup Occupied(Front(m.name))
      BY <2>1, <2>3, <3>1, <3>4 DEF Codes, Occupied
    <3> QED
      BY <3>1, <3>5
  <2> QED
    BY <1>6, <2>4, <2>5 DEF Due
<1>7. \A m \in Range(st.md) : Due(m) =>
        \E i \in DOMAIN job' : m.name \in job'[i].codes \cup job'[i].occupied
  BY <1>5, <1>6
<1>8. Committing'
  <2>1. Writing(st)'
    BY <1>1, <1>4, WritingNext DEF Stay
  <2>2. \A m : Due(m)' <=> Due(m)
    BY <1>1 DEF Due, Vacated, NeedsCode, Stay
  <2> QED
    BY <1>1, <1>5, <1>7, <2>1, <2>2 DEF Committing
<1>9. Shown(pc', target', home', job', st'.tab)
  BY <1>1 DEF Shown, Forms
<1> QED
  BY <1>1, <1>2, <1>8, <1>9 DEF Inv, Promised, Stay

LEMMA QuitInv ==
  ASSUME Inv, NotYet \/ Quit
  PROVE  Inv' /\ Promised
<1>1. pc = "confirm" /\ Stay /\ UNCHANGED <<form, target, home, job>>
  BY DEF NotYet, Quit
<1>2. Editing
  BY <1>1 DEF Editing, Ended
<1>3. \/ pc' = "quit" /\ st' = RevertAll(st)
      \/ pc' = "menu" /\ UNCHANGED st
  BY DEF NotYet, Quit
<1>4. CASE pc' = "quit" /\ st' = RevertAll(st)
  BY <1>1, <1>2, <1>4, GivenUpInv
<1>5. CASE pc' = "menu" /\ UNCHANGED st
  <2>1. Editing' /\ pc' \notin Forms
    BY <1>5 DEF Editing, Ended, Forms
  <2>2. job' = <<>>
    BY <1>1 DEF Inv, Shown
  <2>3. Shown(pc', target', home', job', st.tab)
    BY <1>5, <2>2 DEF Shown, Forms
  <2> QED
    BY <1>1, <1>2, <1>5, <2>1, <2>2, <2>3, NoJob, OnwardSame
<1> QED
  BY <1>3, <1>4, <1>5

-----------------------------------------------------------------------------
\* The writing of it all.
LEMMA FewerCommits ==
  ASSUME NEW tasks, NEW a, NEW b, IsCommits(tasks, a), tasks # <<>>,
         DOMAIN a \ {Head(tasks).geom} \subseteq DOMAIN b
  PROVE  /\ IsCommits(Tail(tasks), b) /\ Head(tasks).geom \in DOMAIN a
         /\ \A i \in DOMAIN tasks : \/ tasks[i] = Head(tasks)
                                    \/ \E j \in DOMAIN Tail(tasks) : Tail(tasks)[j] = tasks[i]
<1> DEFINE S == Range(tasks)
           n == Len(tasks)
           t == Tail(tasks)
<1>1. tasks \in Seq(S) /\ n \in Nat /\ n >= 1 /\ DOMAIN tasks = 1 .. n /\ Head(tasks) = tasks[1]
  BY DEF IsCommits
<1> HIDE DEF S
<1>2. t \in Seq(S) /\ DOMAIN t = 1 .. n - 1 /\ \A j \in 1 .. n - 1 : t[j] = tasks[j + 1]
  BY <1>1
<1> HIDE DEF n, t
<1>3. t \in Seq(Range(t))
  BY <1>2, SeqOfItself
<1>4. ASSUME NEW j \in 1 .. n - 1 PROVE t[j].geom \in DOMAIN b
  <2>1. j + 1 \in 1 .. n /\ 1 \in 1 .. n /\ j + 1 # 1
    BY <1>1
  <2>2. tasks[j + 1].geom # tasks[1].geom /\ tasks[j + 1].geom \in DOMAIN a
    BY <1>1, <2>1 DEF IsCommits
  <2> QED
    BY <1>1, <1>2, <2>2
<1>5. ASSUME NEW i \in 1 .. n - 1, NEW j \in 1 .. n - 1, t[i].geom = t[j].geom PROVE i = j
  <2>1. i + 1 \in 1 .. n /\ j + 1 \in 1 .. n
    BY <1>1
  <2>2. tasks[i + 1].geom = tasks[j + 1].geom
    BY <1>2, <1>5
  <2>3. \A x, y \in 1 .. n : tasks[x].geom = tasks[y].geom => x = y
    BY <1>1 DEF IsCommits
  <2>4. i + 1 = j + 1
    BY <2>1, <2>2, <2>3
  <2> QED
    BY <2>4
<1>6. ASSUME NEW i \in 1 .. n PROVE tasks[i] = tasks[1] \/ \E j \in 1 .. n - 1 : t[j] = tasks[i]
  <2>1. CASE i = 1
    BY <2>1
  <2>2. CASE i # 1
    <3>1. i - 1 \in 1 .. n - 1 /\ (i - 1) + 1 = i
      BY <1>1, <2>2
    <3> QED
      BY <1>2, <3>1
  <2> QED
    BY <2>1, <2>2
<1>7. tasks[1].geom \in DOMAIN a
  BY <1>1 DEF IsCommits
<1>8. /\ IsCommits(t, b) /\ Head(tasks).geom \in DOMAIN a
      /\ \A i \in DOMAIN tasks : tasks[i] = Head(tasks) \/ \E j \in DOMAIN t : t[j] = tasks[i]
  BY <1>1, <1>2, <1>3, <1>4, <1>5, <1>6, <1>7 DEF IsCommits
<1> QED
  BY <1>8 DEF t

LEMMA CommitGeomInv ==
  ASSUME Inv, CommitGeom
  PROVE  Inv'
<1> DEFINE g == Head(job).geom
           r == With(st, Commit(Kernel(st), g))
<1>1. /\ pc = "commit" /\ job # <<>>
      /\ coded' \cup missed' = coded \cup missed \cup Head(job).codes \cup Head(job).occupied
      /\ st' \in {r, st} /\ job' = Tail(job)
      /\ UNCHANGED <<pc, fstab, formatted, form, target, home, mode, plat, ops>>
  BY DEF CommitGeom, WriteCodes
<1>2. Writing(st) /\ Roots(st.md) # {} /\ IsCommits(job, st.tab)
  BY <1>1 DEF Inv, Committing
<1>3. g \in DOMAIN st.tab
  BY <1>1, <1>2, FewerCommits
<1>4. /\ Writing(r) /\ r.md = st.md
      /\ DOMAIN r.tab = DOMAIN st.tab \ {n \in {g} : Zombie(st.tab, n)}
      /\ \A n \in DOMAIN r.tab : r.tab[n] = st.tab[n]
      /\ \A q : q \in Partitions(r.tab) <=> q \in Partitions(st.tab)
  BY <1>2, <1>3, OneWritten
<1> HIDE DEF r
<1>5. /\ Writing(st') /\ st'.md = st.md
      /\ \A n \in DOMAIN st.tab : n \in DOMAIN st'.tab \/ (n = g /\ Zombie(st.tab, n))
      /\ \A n \in DOMAIN st'.tab : n \in DOMAIN st.tab /\ st'.tab[n] = st.tab[n]
      /\ \A q : q \in Partitions(st'.tab) <=> q \in Partitions(st.tab)
  BY <1>1, <1>2, <1>4
<1>6. DOMAIN st.tab \ {g} \subseteq DOMAIN st'.tab
  BY <1>5
<1>7. /\ IsCommits(job', st'.tab)
      /\ \A i \in DOMAIN job : job[i] = Head(job) \/ \E j \in DOMAIN job' : job'[j] = job[i]
  BY <1>1, <1>2, <1>6, FewerCommits
<1> HIDE DEF g
<1>8. ASSUME NEW m \in Range(st'.md), Due(m)'
      PROVE  \/ m.name \in coded' \cup missed'
             \/ \E j \in DOMAIN job' : m.name \in job'[j].codes \cup job'[j].occupied
  <2>1. m \in Range(st.md)
    BY <1>5
  <2>3. m.name \in Partitions(st'.tab) => Front(m.name) \in DOMAIN st'.tab
    <3>1. Sound(st'.tab)
      BY <1>5, KernelIs DEF Writing, IsKernel
    <3> QED
      BY <3>1, PartitionIs DEF Sits
  <2>4. Due(m)
    <3>1. CASE Vacated(m)'
      BY <1>1, <1>5, <2>3, <3>1 DEF Due, Vacated, Zombie
    <3>2. CASE NeedsCode(m)' /\ m.name \in DOMAIN st'.tab
      BY <1>1, <1>5, <3>2 DEF Due, NeedsCode
    <3>3. CASE NeedsCode(m)' /\ m.name \notin DOMAIN st'.tab
      <4>1. /\ m.bootcode /\ m.name \in Partitions(st.tab)
            /\ st.tab[Front(m.name)].scheme \in plat.partcode
        BY <1>1, <1>5, <2>3, <3>3 DEF NeedsCode
      <4>2. m.name \notin DOMAIN st.tab \/ Zombie(st.tab, m.name)
        BY <1>5, <3>3
      <4> QED
        BY <4>1, <4>2 DEF Due, NeedsCode, Vacated
    <3> QED
      BY <1>8, <3>1, <3>2, <3>3 DEF Due
  <2>5. \/ m.name \in coded \cup missed
        \/ \E i \in DOMAIN job : m.name \in job[i].codes \cup job[i].occupied
    BY <1>1, <1>8, <2>1, <2>4 DEF Inv, Committing
  <2> QED
    BY <1>1, <1>7, <2>5
<1>9. Committing'
  <2>1. Writing(st)'
    BY <1>1, <1>5, WritingNext
  <2> QED
    BY <1>2, <1>5, <1>7, <1>8, <2>1 DEF Committing
<1>10. Always(st')
  BY <1>5 DEF Writing, Always
<1>11. Shown(pc', target', home', job', st'.tab) /\ ~Editing' /\ pc' \notin Forms /\ pc' # "done"
  BY <1>1 DEF Shown, Editing, Ended, Forms
<1> QED
  BY <1>1, <1>9, <1>10, <1>11 DEF Inv

LEMMA FormatInv ==
  ASSUME Inv, Format
  PROVE  Inv'
<1>1. /\ pc = "commit"
      /\ UNCHANGED <<pc, st, fstab, coded, missed, form, target, home, job, mode, plat, ops>>
  BY DEF Format
<1>2. Committing
  BY <1>1 DEF Inv
<1>3. Committing'
  <2>1. Writing(st)'
    BY <1>1, <1>2, WritingNext DEF Committing
  <2>2. \A m : Due(m)' <=> Due(m)
    BY <1>1 DEF Due, Vacated, NeedsCode
  <2> QED
    BY <1>1, <1>2, <2>1, <2>2 DEF Committing
<1>4. Shown(pc', target', home', job', st'.tab) /\ ~Editing' /\ pc' \notin Forms /\ pc' # "done"
  BY <1>1 DEF Shown, Editing, Ended, Forms
<1> QED
  BY <1>1, <1>3, <1>4 DEF Inv

\* write_fstab() has a line for everything that has a mount point.
Line(m) == [name |-> m.name, mount |-> m.mount]
Lined(md, i, lines) ==
  /\ lines \in Seq(Range(lines))
  /\ \A l \in 1 .. i : md[l].mount # NoMount => \E j \in DOMAIN lines : lines[j] = Line(md[l])

LEMMA LineAppended ==
  ASSUME NEW lines, lines \in Seq(Range(lines)), NEW x
  PROVE  LET r == Append(lines, x)
         IN /\ r \in Seq(Range(r)) /\ \E j \in DOMAIN r : r[j] = x
            /\ \A j \in DOMAIN lines : j \in DOMAIN r /\ r[j] = lines[j]
<1> DEFINE S == Range(lines) \cup {x}
           r == Append(lines, x)
<1>1. lines \in Seq(S) /\ x \in S
  <2> DEFINE T == Range(lines)
  <2>1. lines \in Seq(T)
    OBVIOUS
  <2> HIDE DEF T
  <2>2. lines \in Seq(T \cup {x})
    BY <2>1
  <2> QED
    BY <2>2 DEF T
<1> HIDE DEF S
<1>2. r \in Seq(S) /\ DOMAIN r = 1 .. Len(lines) + 1 /\ r[Len(lines) + 1] = x
      /\ (\A j \in 1 .. Len(lines) : r[j] = lines[j]) /\ Len(lines) \in Nat
      /\ DOMAIN lines = 1 .. Len(lines)
  BY <1>1
<1> HIDE DEF r
<1>3. r \in Seq(Range(r))
  BY <1>2, SeqOfItself
<1>4. Len(lines) + 1 \in DOMAIN r
  BY <1>2
<1>5. \A j \in DOMAIN lines : j \in DOMAIN r /\ r[j] = lines[j]
  BY <1>2
<1>6. r \in Seq(Range(r)) /\ (\E j \in DOMAIN r : r[j] = x)
      /\ \A j \in DOMAIN lines : j \in DOMAIN r /\ r[j] = lines[j]
  BY <1>2, <1>3, <1>4, <1>5
<1> QED
  BY <1>6 DEF r

LEMMA LineWritten ==
  ASSUME NEW md, NEW i \in Nat, NEW lines, Lined(md, i, lines)
  PROVE  Lined(md, i + 1, WriteLine(lines, md[i + 1]))
<1> DEFINE m == md[i + 1]
           r == WriteLine(lines, m)
<1>1. \A l \in 1 .. i + 1 : l \in 1 .. i \/ l = i + 1
  OBVIOUS
<1>2. CASE m.mount = NoMount
  <2>1. r = lines
    BY <1>2 DEF WriteLine
  <2> QED
    BY <1>1, <1>2, <2>1 DEF Lined
<1>3. CASE m.mount # NoMount
  <2> DEFINE a == Append(lines, Line(m))
  <2>1. r = a
    BY <1>3 DEF WriteLine, Line
  <2>2. /\ a \in Seq(Range(a)) /\ \E j \in DOMAIN a : a[j] = Line(m)
        /\ \A j \in DOMAIN lines : j \in DOMAIN a /\ a[j] = lines[j]
    BY LineAppended DEF Lined
  <2> HIDE DEF a, r
  <2>3. Lined(md, i + 1, a)
    <3>1. ASSUME NEW l \in 1 .. i + 1, md[l].mount # NoMount
          PROVE  \E j \in DOMAIN a : a[j] = Line(md[l])
      <4>1. CASE l = i + 1
        BY <2>2, <4>1
      <4>2. CASE l \in 1 .. i
        <5>1. PICK j \in DOMAIN lines : lines[j] = Line(md[l])
          BY <3>1, <4>2 DEF Lined
        <5> QED
          BY <2>2, <5>1
      <4> QED
        BY <1>1, <4>1, <4>2
    <3> QED
      BY <2>2, <3>1 DEF Lined
  <2> QED
    BY <2>1, <2>3 DEF r
<1> QED
  BY <1>2, <1>3

LEMMA FstabWritten ==
  ASSUME NEW md, IsList(md), NEW l \in DOMAIN md, md[l].mount # NoMount
  PROVE  \E j \in DOMAIN ToFstab(md) : ToFstab(md)[j] = Line(md[l])
<1> DEFINE n == Len(md)
<1>1. n \in Nat /\ DOMAIN md = 1 .. n
  BY DEF IsList
<1> HIDE DEF n
<1>2. PICK run : IsRun(4, <<>>, md, n, run) /\ run[n] = FoldLeft(WriteLine, <<>>, md)
  BY <1>1, LineRuns
<1> DEFINE S == {i \in Nat : i <= n => Lined(md, i, run[i])}
<1>3. 0 \in S
  <2>1. run[0] = <<>>
    BY <1>2 DEF IsRun
  <2>2. Lined(md, 0, <<>>)
    BY DEF Lined
  <2> QED
    BY <2>1, <2>2
<1>4. ASSUME NEW i \in Nat, i \in S PROVE i + 1 \in S
  <2>0. i + 1 \in Nat
    OBVIOUS
  <2> SUFFICES ASSUME i + 1 <= n PROVE Lined(md, i + 1, run[i + 1])
    BY <2>0, Zenon
  <2>1. i + 1 \in 1 .. n /\ (i + 1) - 1 = i /\ i <= n
    BY <1>1
  <2>2. Lined(md, i, run[i])
    BY <1>4, <2>1
  <2>3. run[i + 1] = WriteLine(run[i], md[i + 1])
    BY <1>2, <2>1 DEF IsRun, FoldedBy
  <2> QED
    BY <2>2, <2>3, LineWritten
<1> HIDE DEF S
<1>5. n \in S
  BY <1>1, <1>3, <1>4, Induction
<1>6. Lined(md, n, run[n])
  BY <1>1, <1>5 DEF S
<1> QED
  BY <1>1, <1>2, <1>6 DEF Lined, ToFstab

LEMMA WriteFstabInv ==
  ASSUME Inv, WriteFstab
  PROVE  Inv'
<1>1. /\ pc = "commit" /\ job = <<>>
      /\ UNCHANGED <<st, coded, missed, formatted, form, target, home, job, mode, plat, ops>>
      /\ (pc' = "done" /\ fstab' = ToFstab(st.md)) \/ pc' = "failed"
  BY DEF WriteFstab
<1>2. Committing
  BY <1>1 DEF Inv
<1>3. Writing(st) /\ IsList(st.md)
  BY <1>2 DEF Committing, Writing
<1>4. CASE pc' = "done" /\ fstab' = ToFstab(st.md)
  <2>1. \E j \in DOMAIN fstab' :
          fstab'[j].mount = "/" /\ fstab'[j].name \in Partitions(st.tab) \cup {Label}
    <3>1. PICK l \in DOMAIN st.md : st.md[l].mount = "/"
      BY <1>2 DEF Committing, Roots
    <3>2. "/" # NoMount
      BY Zenon DEF NoMount
    <3>3. st.md[l].mount # NoMount
      BY <3>1, <3>2
    <3>4. PICK j \in DOMAIN ToFstab(st.md) : ToFstab(st.md)[j] = Line(st.md[l])
      BY <1>3, <3>3, FstabWritten
    <3>5. st.md[l].name \in Partitions(st.tab) \cup {Label}
      BY <1>3, <3>3 DEF Writing, EntryOK, Labels, Range
    <3>6. Line(st.md[l]).mount = st.md[l].mount /\ Line(st.md[l]).name = st.md[l].name
      BY DEF Line
    <3> QED
      BY <1>4, <3>1, <3>4, <3>5, <3>6
  <2>2. ASSUME NEW i \in DOMAIN st.md, NeedsCode(st.md[i])
        PROVE  st.md[i].name \in coded \cup missed
    <3>1. st.md[i] \in Range(st.md)
      BY DEF Range
    <3>2. DOMAIN job = {}
      BY <1>1
    <3> QED
      BY <1>2, <2>2, <3>1, <3>2 DEF Committing, Due
  <2>3. \A m : NeedsCode(m)' <=> NeedsCode(m)
    BY <1>1 DEF NeedsCode
  <2>4. Finished'
    BY <1>1, <1>3, <2>1, <2>2, <2>3 DEF Finished, Writing
  <2>5. Shown(pc', target', home', job', st'.tab) /\ ~Editing' /\ pc' \notin Forms /\ pc' # "commit"
    BY <1>4 DEF Shown, Editing, Ended, Forms
  <2> QED
    BY <1>1, <2>4, <2>5 DEF Inv
<1>5. CASE pc' = "failed"
  <2>1. /\ Shown(pc', target', home', job', st'.tab) /\ ~Editing' /\ pc' \notin Forms
        /\ pc' \notin {"commit", "done"}
    BY <1>5 DEF Shown, Editing, Ended, Forms
  <2> QED
    BY <1>1, <2>1 DEF Inv
<1> QED
  BY <1>1, <1>4, <1>5

LEMMA InterruptInv ==
  ASSUME Inv, Interrupt
  PROVE  Inv' /\ (Editing => Promised)
<1>1. st' = RevertAll(st) /\ pc' = "interrupted" /\ Stay
  BY DEF Interrupt
<1> QED
  BY <1>1, GivenUpInv

LEMMA IdleInv ==
  ASSUME Inv, UNCHANGED vars
  PROVE  Inv'
<1>1. \A m : (NeedsCode(m)' <=> NeedsCode(m)) /\ (Due(m)' <=> Due(m))
  BY DEF vars, Due, Vacated, NeedsCode
<1>2. ASSUME Committing PROVE Committing'
  <2>1. Writing(st)'
    BY <1>2, WritingNext DEF vars, Committing
  <2> QED
    BY <1>1, <1>2, <2>1 DEF vars, Committing
<1>3. Finished' <=> Finished
  BY <1>1 DEF vars, Finished
<1>4. Editing => Good(st)'
  BY GoodNext DEF vars, Inv
<1>5. Editing' <=> Editing
  BY DEF vars, Editing
<1> QED
  BY <1>2, <1>3, <1>4, <1>5 DEF vars, Inv

-----------------------------------------------------------------------------
LEMMA InitInv ==
  ASSUME Init
  PROVE  Inv
<1>1. PICK disk \in Disked, lines \in Fstabs :
        /\ \A i \in DOMAIN lines : lines[i].name \in Partitions(disk) \cup {Label}
        /\ fstab = lines
        /\ st = [tab |-> disk, mod |-> {}, disk |-> disk, md |-> FromFstab(lines), esps |-> <<>>]
  BY DEF Init
<1>2. plat \in Machines /\ home = Nowhere
  BY DEF Init
<1>3. OnDisks(disk)
  BY DiskedAssumption
<1>4. /\ st.tab = disk /\ st.mod = {} /\ st.disk = disk /\ st.md = FromFstab(fstab) /\ IsStore(st)
  BY <1>1 DEF IsStore
<1>5. Steady(st.disk, fstab)
  BY <1>1, <1>3, <1>4 DEF Steady
<1>6. Good(st)
  BY <1>4, <1>5, FreshGood DEF Steady
<1>7. /\ pc \in {"resume", "menu", "wdisk"} /\ IsJob(job)
      /\ pc = "menu" => job = <<>>
      /\ pc = "wdisk" => \E fs : job = Wizard(fs)
  <2>1. CASE mode = "script"
    <3>1. PICK script \in Scripts : job = script
      BY <2>1 DEF Init
    <3>2. pc = "resume"
      BY <2>1 DEF Init
    <3> QED
      BY <3>1, <3>2, ScriptsAssumption DEF IsJob
  <2>2. CASE mode = "editor"
    <3>1. pc = "menu" /\ job = <<>>
      BY <2>2 DEF Init
    <3> QED
      BY <3>1, NoJob
  <2>3. CASE mode # "script" /\ mode # "editor"
    <3>1. pc = "wdisk" /\ job = Wizard(IF mode = "zfs" THEN "freebsd-zfs" ELSE "freebsd-ufs")
      BY <2>3 DEF Init
    <3> QED
      BY <3>1, WizardIs
  <2> QED
    BY <2>1, <2>2, <2>3
<1>8. Editing /\ pc \notin {"commit", "done"} /\ pc \notin Forms
  BY <1>7 DEF Editing, Ended, Forms
<1>9. Shown(pc, target, home, job, st.tab)
  BY <1>2, <1>7 DEF Shown, Forms
<1>10. Always(st)
  BY <1>6 DEF Good, Sane, Always, InStep
<1> QED
  BY <1>2, <1>5, <1>6, <1>7, <1>8, <1>9, <1>10 DEF Inv

\* Only an editor that is still at it asks, or goes on.
LEMMA DialogEdits ==
  ASSUME Dialog
  PROVE  Editing
<1>1. pc \notin {"commit", "quit", "interrupted", "failed", "crashed", "done"}
  BY DEF Dialog, ChooseScheme, WizardScheme, CancelScheme, NoWizardScheme, SubmitForm, Options,
         CancelForm, BootDeclined, NoBootFound, MenuCreate, MenuDelete, MenuModify, MenuRevert,
         MenuAuto, MenuFinish, Menu, EditOk, EditCancel, ChooseDisk, NoDisk, UseDisk, AnotherDisk,
         ToEditor, NotYet, Quit, StartCommit
<1> QED
  BY <1>1 DEF Editing, Ended
LEMMA DialogInv ==
  ASSUME Inv, Dialog
  PROVE  Inv' /\ Promised
<1>1. CASE \E scheme \in Schemes : ChooseScheme(scheme) \/ WizardScheme(scheme)
  BY <1>1, ChooseSchemeInv, WizardSchemeInv
<1>2. CASE CancelScheme \/ CancelForm
  BY <1>2, CancelSchemeInv, CancelFormInv
<1>3. CASE NoWizardScheme \/ NoDisk \/ AnotherDisk \/ ToEditor
  BY <1>3, WizardStepInv
<1>4. CASE \E type \in FormTypes, size \in FormSizes \cup {Rest}, mount \in FormMounts :
             SubmitForm(type, size, mount)
  BY <1>4, SubmitFormInv
<1>5. CASE \E type \in FormTypes, answer \in OptionAnswers : Options(type, answer)
  BY <1>5, OptionsInv
<1>6. CASE BootDeclined
  BY <1>6, FormStepInv
<1>7. CASE \E p \in Providers(st.tab) : MenuCreate(p) \/ MenuDelete(p) \/ MenuModify(p)
  BY <1>7, MenuCreateInv, MenuDeleteInv, MenuModifyInv
<1>8. CASE MenuRevert \/ MenuAuto \/ MenuFinish
  BY <1>8, MenuRevertInv, MenuAutoInv, MenuFinishInv
<1>9. CASE \E type \in FormTypes, mount \in FormMounts : EditOk(type, mount)
  BY <1>9, EditOkInv
<1>10. CASE \E type \in FormTypes : EditCancel(type)
  BY <1>10, EditCancelInv
<1>11. CASE \E d \in Disks : ChooseDisk(d)
  BY <1>11, ChooseDiskInv
<1>12. CASE \E answer \in {"entire", "partition", "escape"} : UseDisk(answer)
  BY <1>12, UseDiskInv
<1>13. CASE NotYet \/ Quit
  BY <1>13, QuitInv
<1>14. CASE StartCommit
  BY <1>14, StartCommitInv
<1> QED
  BY <1>1, <1>2, <1>3, <1>4, <1>5, <1>6, <1>7, <1>8, <1>9, <1>10, <1>11, <1>12, <1>13, <1>14
  DEF Dialog

LEMMA ProgramEdits ==
  ASSUME Program
  PROVE  Editing \/ CommitGeom \/ Format \/ WriteFstab
<1>1. \/ pc \notin {"commit", "quit", "interrupted", "failed", "crashed", "done"}
      \/ CommitGeom \/ Format \/ WriteFstab
  BY DEF Program, SubmitForm, BootFound, BootWanted, NoBootFound, AddBoot, BootRefused, BootRetry,
         AddPartition, AddRefused, AddRetry, NothingLeft, Resume
<1> QED
  BY <1>1 DEF Editing, Ended
LEMMA ProgramInv ==
  ASSUME Inv, Program
  PROVE  Inv' /\ (Promised \/ CommitGeom \/ Format \/ WriteFstab)
<1>1. CASE ~form.inter /\ SubmitForm(form.type, form.asked, form.mount)
  BY <1>1, SubmitFormInv
<1>2. CASE BootFound \/ AddBoot \/ AddPartition
  BY <1>2, BootFoundInv, AddBootInv, AddPartitionInv
<1>3. CASE BootWanted \/ BootRefused \/ BootRetry \/ AddRefused \/ AddRetry
  BY <1>3, FormStepInv
<1>4. CASE NothingLeft \/ Resume
  BY <1>4, NothingLeftInv, ResumeInv
<1>5. CASE CommitGeom \/ Format \/ WriteFstab
  BY <1>5, CommitGeomInv, FormatInv, WriteFstabInv
<1> QED
  BY <1>1, <1>2, <1>3, <1>4, <1>5 DEF Program

LEMMA NextInv ==
  ASSUME Inv, [Next]_vars
  PROVE  Inv'
<1>1. CASE Exited \/ UNCHANGED vars
  BY <1>1, IdleInv DEF Exited
<1> QED
  BY <1>1, DialogInv, ProgramInv, InterruptInv DEF Next

\* Every state of a session satisfies it.
LEMMA AlwaysInv == Spec => []Inv
<1>1. Init => Inv
  BY InitInv
<1>2. Inv /\ [Next]_vars => Inv'
  BY NextInv
<1> QED
  BY <1>1, <1>2, PTL DEF Spec

-----------------------------------------------------------------------------
\* Part of what is free is free, and so is what is behind a new partition.
LEMMA FreeWithin ==
  ASSUME NEW tab, Sound(tab), Laid(tab), NEW g \in DOMAIN tab, NEW start, NEW size,
         FreeIn(tab, g, start, size), NEW a \in Int, NEW n \in Int,
         n > 0, a >= start, a + n <= start + size
  PROVE  FreeIn(tab, g, a, n)
<1>1. /\ start \in Nat /\ size \in Nat \ {0}
      /\ start >= FirstOf(g) /\ start + size - 1 <= LastOf(tab, g)
      /\ \A i \in DOMAIN tab[g].parts :
           End(tab[g].parts[i]) < start \/ start + size - 1 < tab[g].parts[i].start
  BY DEF FreeIn
<1>2. FirstOf(g) \in Int /\ LastOf(tab, g) \in Int
  BY RoomIs
<1>3. \A i \in DOMAIN tab[g].parts : tab[g].parts[i].start \in Int /\ End(tab[g].parts[i]) \in Int
  BY RoomIs DEF End
<1>4. a \in Nat /\ n \in Nat \ {0} /\ a >= FirstOf(g) /\ a + n - 1 <= LastOf(tab, g)
  BY <1>1, <1>2
<1>5. \A i \in DOMAIN tab[g].parts :
        End(tab[g].parts[i]) < a \/ a + n - 1 < tab[g].parts[i].start
  BY <1>1, <1>3
<1> QED
  BY <1>4, <1>5 DEF FreeIn
LEMMA FreeBehind ==
  ASSUME NEW s, NEW r, Sound(s.tab), Laid(s.tab), NEW g \in DOMAIN s.tab, NEW p, NEW start, NEW boot,
         NEW size, FreeIn(s.tab, g, start, size), Settled(s, r, g, p, start, boot),
         boot \in Nat, NEW a \in Int, NEW n \in Int,
         n > 0, a >= start + boot, a + n <= start + size
  PROVE  FreeIn(r.tab, g, a, n)
<1>1. start \in Nat /\ size \in Nat \ {0}
  BY DEF FreeIn
<1>2. FreeIn(s.tab, g, a, n)
  BY <1>1, FreeWithin
<1>3. LastOf(r.tab, g) = LastOf(s.tab, g)
  <2>1. CASE IsDisk(g)
    BY <2>1 DEF LastOf
  <2>2. CASE ~IsDisk(g)
    <3>1. Sits(s.tab, g) /\ Front(g) # g
      BY <2>2, SoundGeoms, GeomNames DEF Slot, DiskNames, IsDisk
    <3>2. r.tab[Front(g)] = s.tab[Front(g)]
      BY <3>1 DEF Sits, Settled
    <3> QED
      BY <2>2, <3>2 DEF LastOf, Part
  <2> QED
    BY <2>1, <2>2
<1>4. ASSUME NEW i \in DOMAIN r.tab[g].parts
      PROVE  End(r.tab[g].parts[i]) < a \/ a + n - 1 < r.tab[g].parts[i].start
  <2>1. CASE i = Last(p)
    <3>1. r.tab[g].parts[i].start = start /\ r.tab[g].parts[i].size = boot
      BY <2>1 DEF Settled
    <3> QED
      BY <1>1, <3>1 DEF End
  <2>2. CASE i # Last(p)
    BY <1>2, <2>2 DEF Settled, FreeIn
  <2> QED
    BY <2>1, <2>2
<1> QED
  BY <1>2, <1>3, <1>4 DEF FreeIn

\* Rounding to the stripe costs less than a stripe; an empty disk has the rest.
LEMMA OffsetBelow ==
  ASSUME NEW start \in Int
  PROVE  Offset(start) \in 0 .. Stripe - 1
<1>1. Stripe \in Nat /\ Stripe > 0
  BY DiskAssumption
<1>2. \A a \in Int, b \in Nat : b > 0 => a % b \in 0 .. b - 1
  OBVIOUS
<1>3. start % Stripe \in Int
  BY <1>1, <1>2
<1>4. (Stripe - (start % Stripe)) \in Int
  BY <1>1, <1>3
<1>5. (Stripe - (start % Stripe)) % Stripe \in 0 .. Stripe - 1
  BY <1>1, <1>2, <1>4
<1> QED
  BY <1>5 DEF Offset
LEMMA EmptyRoom ==
  ASSUME NEW tab, NEW d \in DiskNames, DOMAIN tab[d].parts = {}
  PROVE  MaxFree(tab, d).size \in Int /\ MaxFree(tab, d).size > LastSector - Stripe
<1> DEFINE seen == Seen({}, 1)
           rest == Gap(seen.last, LastSector + 1)
           gap == LargestGap(tab, d)
<1>1. LastSector \in Nat /\ LastSector >= 1 /\ Stripe \in Nat
  BY DiskAssumption DEF FirstSector
<1>2. FirstOf(d) = 1 /\ LastOf(tab, d) = LastSector
  BY DiskNamed DEF FirstOf, LastOf, FirstSector, IsDisk
<1>3. Spread({}, 1, LastSector)
  BY FS_EmptySet DEF Spread
<1>4. Looked({}, 1, seen)
  BY <1>1, <1>3, SeenLooked
<1>5. {tab[d].parts[i] : i \in DOMAIN tab[d].parts} = {}
  OBVIOUS
<1>6. gap = IF rest.size > seen.best.size THEN rest ELSE seen.best
  BY <1>2, <1>5 DEF LargestGap
<1>7. rest.start = seen.last + 1 /\ rest.size = (LastSector + 1) - seen.last - 1
  BY Zenon DEF Gap
<1>8. MaxFree(tab, d).size = gap.size - Offset(gap.start)
  BY DEF MaxFree
<1> HIDE DEF seen, rest, gap
<1>9. seen.last = 0
  BY <1>4 DEF Looked
<1>10. seen.best.size = 0
  BY <1>4, <1>9 DEF Looked
<1>11. gap.size = LastSector /\ gap.start = 1
  BY <1>1, <1>6, <1>7, <1>9, <1>10
<1>12. Offset(gap.start) \in 0 .. Stripe - 1
  BY <1>11, OffsetBelow
<1> QED
  BY <1>1, <1>8, <1>11, <1>12

\* Where the partition really wanted goes when there is a boot partition.
LEMMA ForwardIs ==
  ASSUME NEW f, IsForm(f), f.free \in Int, f.size \in Int, NEW boot \in Nat, Reported \in {0, Stripe}
  PROVE  LET r == Forward(f, boot)
         IN /\ IsForm(r) /\ r.inter = f.inter /\ r.geom = f.geom /\ r.scheme = f.scheme
            /\ r.type = f.type /\ r.mount = f.mount /\ r.named = f.named
            /\ r.size = f.size - (boot + Reported)
            /\ \E a \in 0 .. Reported : r.free = f.free + boot + a
<1> DEFINE size == f.size - (boot + Reported)
           skipped == IF Reported = 0 THEN 0 ELSE (Stripe - ((f.free + boot) % Stripe)) % Stripe
           free == f.free + boot + skipped
<1>1. Forward(f, boot) = [f EXCEPT !.size = size, !.free = free]
  BY DEF Forward
<1>2. skipped \in 0 .. Reported
  <2>1. f.free + boot \in Int
    OBVIOUS
  <2>2. Offset(f.free + boot) \in 0 .. Stripe - 1 /\ Stripe \in Nat
    BY <2>1, OffsetBelow, DiskAssumption
  <2>3. Reported # 0 => skipped = Offset(f.free + boot)
    BY DEF Offset
  <2>4. Reported = 0 => skipped = 0
    OBVIOUS
  <2> HIDE DEF skipped
  <2> QED
    BY <2>2, <2>3, <2>4
<1> HIDE DEF skipped, size
<1>3. \E a \in 0 .. Reported : free = f.free + boot + a
  BY <1>2
<1> HIDE DEF free
<1> DEFINE r == Forward(f, boot)
<1>4. r = [f EXCEPT !.size = size, !.free = free] /\ IsForm(f)
  BY <1>1
<1> HIDE DEF r
<1>5. /\ IsForm(r) /\ r.inter = f.inter /\ r.geom = f.geom /\ r.scheme = f.scheme
      /\ r.type = f.type /\ r.mount = f.mount /\ r.named = f.named
      /\ r.size = size /\ r.free = free
  BY <1>4 DEF IsForm
<1> QED
  BY <1>3, <1>5 DEF size, r

-----------------------------------------------------------------------------
\* The guided mode: what it has still to do.
SliceTask(inter) == [do |-> "slice", inter |-> inter]
PartsTask(fs) == [do |-> "makeparts", fs |-> fs, inter |-> TRUE]
Slicing(tasks, inter) == \E fs \in FileSystems : tasks = <<SliceTask(inter), PartsTask(fs)>>
Making(tasks) == \E fs \in FileSystems : tasks = <<PartsTask(fs)>>
Rooting(tasks, size) == \E fs \in FileSystems : tasks = <<Root(fs, size), SwapPart>>

\* Where it does it: not in a table of slices, and in one that takes file systems;
\* what is left for a root partition was measured there.
NoSlices(tab, where) == where = Nowhere \/ (where \in DOMAIN tab => tab[where].scheme # "MBR")
Takes(tab, where) == where \in DOMAIN tab /\ tab[where].scheme \notin {None, "MBR"}
Leaves(tab, where, size) ==
  /\ MaxFree(tab, where).size >= MinFree
  /\ size \in Int /\ size >= MaxFree(tab, where).size - Swap - 1

\* What a form that asks nobody wants can be had, after the boot partition too.
Boots(f) == plat.size[f.scheme]
BootRoom(f, size) == Boots(f) > 0 /\ Boots(f) + Reported < size
Sized(f) == IF f.asked = Rest THEN f.max.size ELSE Smaller(f.asked, f.max.size)
Offered(f, tab) == FreeIn(tab, f.geom, f.max.start, f.max.size) /\ f.free = f.max.start
Granted(f, at, tab) ==
  /\ at \notin {"booterror", "adderror"}
  /\ f.type \in Types[f.scheme] /\ (f.type = "freebsd" => f.mount = NoMount)
  /\ at = "addform" =>
       /\ Offered(f, tab) /\ f.asked \in Nat
       /\ (f.type = "freebsd" \/ f.mount = "/") /\ Boots(f) > 0 => BootRoom(f, Sized(f))
  /\ at \in {"boot", "bootadd"} =>
       Offered(f, tab) /\ f.size \in 1 .. f.max.size /\ BootRoom(f, f.size)
  /\ at = "add" => FreeIn(tab, f.geom, f.free, f.size)

AtResume(where, tasks, tab) ==
  \/ tasks = <<>>
  \/ Slicing(tasks, TRUE)
  \/ Slicing(tasks, FALSE) /\ where \in DiskNames \cap DOMAIN tab /\ tab[where] = Table("MBR")
  \/ Making(tasks) /\ NoSlices(tab, where)
  \/ Takes(tab, where) /\ \E size \in Int : Rooting(tasks, size) /\ Leaves(tab, where, size)
  \/ Takes(tab, where) /\ tasks = <<SwapPart>>
AtForm(where, tasks, f, tab) ==
  \/ tasks = <<>>
  \/ Making(tasks) /\ f.named
  \/ Takes(tab, where) /\ tasks = <<SwapPart>> /\ ~f.named
Guided(at, where, tasks, f, tab) ==
  /\ at \in {"menu", "confirm", "editform"} => tasks = <<>>
  /\ at \in {"wdisk", "wpart"} => Slicing(tasks, TRUE)
  /\ at = "wshort" => Making(tasks)
  /\ at = "wscheme" => \E inter \in BOOLEAN : Slicing(tasks, inter)
  /\ at = "scheme" => tasks = <<>> \/ (Making(tasks) /\ where = Nowhere)
  /\ at = "resume" => AtResume(where, tasks, tab)
  /\ at \in Forms => /\ AtForm(where, tasks, f, tab)
                     /\ ~f.inter /\ f.scheme \in plat.bootable => Granted(f, at, tab)
GuidedInv == mode # "script" => Guided(pc, home, job, form, st.tab)
Session == Inv /\ HasRoom /\ mode # "script" /\ Guided(pc, home, job, form, st.tab)
Guides == Guided(pc', home', job', form', st'.tab)

\* The tasks, one by one.
LEMMA TasksAre ==
  /\ \A inter : SliceTask(inter).do = "slice" /\ SliceTask(inter).inter = inter
  /\ \A fs : PartsTask(fs).do = "makeparts" /\ PartsTask(fs).fs = fs /\ PartsTask(fs).inter
  /\ \A fs, size : /\ Root(fs, size).do = "create" /\ Root(fs, size).type = fs
                   /\ Root(fs, size).size = size /\ Root(fs, size).mount = "/"
  /\ SwapPart.do = "create" /\ SwapPart.type = "freebsd-swap" /\ SwapPart.size = Swap
     /\ SwapPart.mount = NoMount
BY DEF SliceTask, PartsTask, Root, SwapPart
LEMMA PairIs ==
  ASSUME NEW a, NEW b
  PROVE  /\ <<a, b>> # <<>> /\ Head(<<a, b>>) = a /\ Tail(<<a, b>>) = <<b>>
         /\ <<b>> # <<>> /\ Head(<<b>>) = b /\ Tail(<<b>>) = <<>> /\ <<a>> \o <<b>> = <<a, b>>
         /\ <<a, b>> \o <<>> = <<a, b>>
<1>1. <<a, b>> # <<>> /\ Head(<<a, b>>) = a /\ Tail(<<a, b>>) = <<b>>
  OBVIOUS
<1>2. <<b>> # <<>> /\ Head(<<b>>) = b /\ Tail(<<b>>) = <<>>
  OBVIOUS
<1> DEFINE S == {a, b}
<1>3. <<a>> \in Seq(S) /\ <<b>> \in Seq(S) /\ <<a, b>> \in Seq(S) /\ <<>> \in Seq(S)
  OBVIOUS
<1>4. <<a>> \o <<b>> = <<a, b>>
  <2> DEFINE s == <<a>>
             t == <<b>>
             c == s \o t
             d == <<a, b>>
  <2>1. /\ s \in Seq(S) /\ t \in Seq(S) /\ Len(s) = 1 /\ Len(t) = 1 /\ s[1] = a /\ t[1] = b
        /\ d \in Seq(S) /\ Len(d) = 2 /\ d[1] = a /\ d[2] = b
    BY <1>3
  <2> HIDE DEF s, t, d, S
  <2>2. /\ c \in Seq(S) /\ Len(c) = Len(s) + Len(t)
        /\ \A i \in 1 .. Len(s) + Len(t) : c[i] = IF i <= Len(s) THEN s[i] ELSE t[i - Len(s)]
    BY <2>1, ConcatProperties, Zenon
  <2>4. c \in Seq(S) /\ Len(c) = 2 /\ c[1] = a /\ c[2] = b
    <3> HIDE DEF c
    <3> QED
      BY <2>1, <2>2
  <2> HIDE DEF c
  <2>3. c = d
    BY <2>1, <2>4
  <2> QED
    BY <2>3 DEF c, d, s, t
<1> HIDE DEF S
<1>5. \A s \in Seq(S) : s \o <<>> = s
  OBVIOUS
<1> QED
  BY <1>1, <1>2, <1>3, <1>4, <1>5, Zenon
LEMMA SlicingIs ==
  ASSUME NEW tasks, NEW inter, Slicing(tasks, inter)
  PROVE  /\ tasks # <<>> /\ Head(tasks) = SliceTask(inter) /\ Making(Tail(tasks))
BY PairIs, Zenon DEF Slicing, Making
LEMMA MakingIs ==
  ASSUME NEW tasks, Making(tasks)
  PROVE  /\ tasks # <<>> /\ Tail(tasks) = <<>> /\ \E fs \in FileSystems : Head(tasks) = PartsTask(fs)
BY PairIs, Zenon DEF Making
LEMMA RootingIs ==
  ASSUME NEW tasks, NEW size, Rooting(tasks, size)
  PROVE  /\ tasks # <<>> /\ Tail(tasks) = <<SwapPart>>
         /\ \E fs \in FileSystems : Head(tasks) = Root(fs, size)
<1>1. PICK fs \in FileSystems : tasks = <<Root(fs, size), SwapPart>>
  BY DEF Rooting
<1>2. tasks # <<>> /\ Tail(tasks) = <<SwapPart>> /\ Head(tasks) = Root(fs, size)
  BY <1>1, PairIs, Zenon
<1> QED
  BY <1>2
LEMMA SlicingAnew ==
  ASSUME NEW tasks, NEW inter, Slicing(tasks, inter), NEW v
  PROVE  Slicing(<<[Head(tasks) EXCEPT !.inter = v]>> \o Tail(tasks), v)
<1>1. PICK fs \in FileSystems : tasks = <<SliceTask(inter), PartsTask(fs)>>
  BY DEF Slicing
<1>2. Head(tasks) = SliceTask(inter) /\ Tail(tasks) = <<PartsTask(fs)>>
  BY <1>1, PairIs, Zenon
<1>3. [SliceTask(inter) EXCEPT !.inter = v] = SliceTask(v)
  BY DEF SliceTask
<1>4. <<[Head(tasks) EXCEPT !.inter = v]>> \o Tail(tasks) = <<SliceTask(v)>> \o <<PartsTask(fs)>>
  BY <1>2, <1>3, Zenon
<1> QED
  BY <1>4, PairIs, Zenon DEF Slicing
LEMMA WizardSlices ==
  ASSUME NEW fs \in FileSystems
  PROVE  Slicing(Wizard(fs), TRUE)
BY DEF Slicing, Wizard, SliceTask, PartsTask

\* A step that keeps to the plan.
LEMMA GuidedNext ==
  ASSUME Session, mode' = mode, plat' = plat, Guides
  PROVE  GuidedInv'
BY DEF Session, Guides, GuidedInv, Guided, AtResume, AtForm, Granted, Offered, Boots, BootRoom,
       Sized
LEMMA GuidesDone ==
  ASSUME job' = <<>>, pc' \in {"menu", "confirm", "editform", "scheme", "resume"}
  PROVE  Guides
BY DEF Guides, Guided, AtResume, Forms
LEMMA GuidesEnd ==
  ASSUME pc' \in Ended \cup {"commit"}
  PROVE  Guides
BY DEF Guides, Guided, Ended, Forms

\* What holds while the editor asks.
LEMMA SessionNow ==
  ASSUME Session, Editing
  PROVE  /\ Inv /\ Good(st) /\ Sane(st) /\ Sound(st.tab) /\ Laid(st.tab) /\ plat \in Machines
         /\ mode # "script" /\ Guided(pc, home, job, form, st.tab)
BY Now DEF Session, Good
LEMMA BootableRoom ==
  ASSUME Session, plat \in Machines, NEW s \in plat.bootable
  PROVE  /\ plat.size[s] \in Nat /\ Swap \in Nat /\ MinFree \in Int /\ MinFree > Swap + 1
         /\ Reported \in {0, Stripe} /\ Reported \in Nat
         /\ plat.size[s] > 0 => /\ plat.type[s] \in Types[s]
                               /\ plat.size[s] + Reported < MinFree - Swap - 1
                               /\ plat.size[s] + Reported <= LastSector - Stripe
BY DiskAssumption DEF Session, HasRoom

\* The scheme dialogs.
LEMMA SchemeGuides ==
  ASSUME Session, NEW scheme \in Schemes, ChooseScheme(scheme) \/ CancelScheme
  PROVE  Guides
<1>1. pc = "scheme" /\ pc' = "resume" /\ UNCHANGED <<home, job>>
  BY DEF ChooseScheme, CancelScheme, Return
<1>2. job' = <<>> \/ (Making(job') /\ home' = Nowhere)
  BY <1>1 DEF Session, Guided
<1>3. AtResume(home', job', st'.tab)
  BY <1>2 DEF AtResume, NoSlices
<1> QED
  BY <1>1, <1>3 DEF Guides, Guided, Forms
LEMMA WizardSchemeGuides ==
  ASSUME Session, NEW scheme \in Schemes, WizardScheme(scheme)
  PROVE  Guides
<1>1. /\ pc = "wscheme" /\ pc' = "resume" /\ st' = Partition(st, home, scheme) /\ UNCHANGED home
      /\ job' = IF scheme = "MBR" THEN job ELSE Tail(job)
  BY DEF WizardScheme, Return
<1>2. Editing
  BY <1>1 DEF Editing, Ended
<1>3. PICK inter \in BOOLEAN : Slicing(job, inter)
  BY <1>1 DEF Session, Guided
<1>4. home \in DiskNames /\ (home \in DOMAIN st.tab => Zombie(st.tab, home)) /\ Good(st)
  BY <1>1, <1>2, SessionNow DEF Inv, Shown
<1>5. Seat(st.tab, home, Table(scheme))
  BY <1>4 DEF Seat
<1>6. home \in DOMAIN st'.tab /\ st'.tab[home] = Table(scheme)
  BY <1>1, <1>4, <1>5, PartitionGood
<1>7. AtResume(home', job', st'.tab)
  <2>1. CASE scheme = "MBR"
    BY <1>1, <1>3, <1>4, <1>6, <2>1 DEF AtResume
  <2>2. CASE scheme # "MBR"
    <3>1. Making(job')
      BY <1>1, <1>3, <2>2, SlicingIs
    <3>2. st'.tab[home].scheme # "MBR"
      BY <1>6, <2>2 DEF Table
    <3> QED
      BY <1>1, <3>1, <3>2 DEF AtResume, NoSlices
  <2> QED
    BY <2>1, <2>2
<1> QED
  BY <1>1, <1>7 DEF Guides, Guided, Forms

\* What leads to the menu, and what begins the guided mode.
LEMMA MenuGuides ==
  ASSUME Session, NoDisk \/ ToEditor \/ NoWizardScheme \/ MenuFinish \/ MenuRevert \/ NothingLeft
                  \/ NotYet
  PROVE  Guides
<1>1. ASSUME ToMenu PROVE Guides
  BY <1>1, GuidesDone DEF ToMenu
<1>2. ASSUME MenuFinish \/ MenuRevert PROVE Guides
  <2>1. pc = "menu" /\ pc' \in {"menu", "confirm"} /\ UNCHANGED job
    BY <1>2 DEF MenuFinish, MenuRevert, Menu
  <2>2. job' = <<>>
    BY <2>1 DEF Session, Guided
  <2> QED
    BY <2>1, <2>2, GuidesDone
<1>3. ASSUME NothingLeft PROVE Guides
  <2>1. pc' \in {"menu", "confirm"} /\ job' = <<>>
    BY <1>3 DEF NothingLeft
  <2> QED
    BY <2>1, GuidesDone
<1>4. ASSUME NotYet PROVE Guides
  <2>1. pc = "confirm" /\ pc' \in {"menu", "quit"} /\ UNCHANGED job
    BY <1>4 DEF NotYet
  <2>2. job' = <<>>
    BY <2>1 DEF Session, Guided
  <2>3. pc' = "quit" => pc' \in Ended \cup {"commit"}
    BY DEF Ended
  <2> QED
    BY <2>1, <2>2, <2>3, GuidesDone, GuidesEnd
<1> QED
  BY <1>1, <1>2, <1>3, <1>4 DEF NoDisk, ToEditor, NoWizardScheme
LEMMA MenuItemGuides ==
  ASSUME Session, NEW p, MenuDelete(p) \/ MenuModify(p)
  PROVE  Guides
<1>1. pc = "menu" /\ pc' \in {"menu", "scheme", "editform"} /\ UNCHANGED job
  BY DEF MenuDelete, MenuModify, Menu, AskScheme
<1>2. job' = <<>>
  BY <1>1 DEF Session, Guided
<1> QED
  BY <1>1, <1>2, GuidesDone
LEMMA EditGuides ==
  ASSUME Session, NEW type, NEW mount, EditOk(type, mount) \/ EditCancel(type)
  PROVE  Guides
<1>1. pc = "editform" /\ pc' \in {"scheme", "resume", "crashed"} /\ UNCHANGED job
  BY DEF EditOk, EditCancel, EndEdit, Return
<1>2. job' = <<>>
  BY <1>1 DEF Session, Guided
<1>3. pc' = "crashed" => pc' \in Ended \cup {"commit"}
  BY DEF Ended
<1> QED
  BY <1>1, <1>2, <1>3, GuidesDone, GuidesEnd
LEMMA BeginGuides ==
  ASSUME Session, MenuAuto \/ AnotherDisk \/ \E d \in Disks : ChooseDisk(d)
  PROVE  Guides
<1>1. pc' \in {"wdisk", "wpart"} /\ Slicing(job', TRUE)
  <2>1. CASE MenuAuto
    <3>1. pc' = "wdisk" /\ job' = Wizard("freebsd-ufs")
      BY <2>1 DEF MenuAuto
    <3> QED
      BY <3>1, WizardSlices DEF FileSystems
  <2>2. CASE AnotherDisk
    <3>1. pc = "wshort" /\ pc' = "wdisk" /\ job' = Wizard(Head(job).fs)
      BY <2>2 DEF AnotherDisk
    <3>2. Making(job)
      BY <3>1 DEF Session, Guided
    <3>3. Head(job).fs \in FileSystems
      BY <3>2, MakingIs, TasksAre
    <3> QED
      BY <3>1, <3>3, WizardSlices
  <2>3. CASE \E d \in Disks : ChooseDisk(d)
    <3>1. pc = "wdisk" /\ pc' = "wpart" /\ UNCHANGED job
      BY <2>3 DEF ChooseDisk
    <3> QED
      BY <3>1 DEF Session, Guided
  <2> QED
    BY <2>1, <2>2, <2>3
<1> QED
  BY <1>1 DEF Guides, Guided, Forms
LEMMA UseDiskGuides ==
  ASSUME Session, NEW answer, UseDisk(answer)
  PROVE  Guides
<1> DEFINE scheme == Scheme(home)
           anew == \/ answer = "entire" \/ scheme = None
                   \/ answer = "partition" /\ scheme \notin plat.bootable
           asks == answer # "entire"
           slice == [Head(job) EXCEPT !.inter = asks]
<1>1. /\ pc = "wpart" /\ UNCHANGED home
      /\ st' = IF anew /\ scheme # None THEN DestroyGeom(st, home) ELSE st
      /\ job' = IF anew \/ scheme = "MBR" THEN <<slice>> \o Tail(job) ELSE Tail(job)
      /\ pc' = IF anew THEN "wscheme" ELSE "resume"
  BY DEF UseDisk
<1>2. Slicing(job, TRUE)
  BY <1>1 DEF Session, Guided
<1>3. Slicing(<<slice>> \o Tail(job), asks) /\ Making(Tail(job)) /\ asks \in BOOLEAN
  BY <1>2, SlicingAnew, SlicingIs
<1>4. anew \in BOOLEAN /\ (~anew => asks)
  OBVIOUS
<1> HIDE DEF slice, anew, asks
<1>5. CASE anew
  <2>1. pc' = "wscheme" /\ \E inter \in BOOLEAN : Slicing(job', inter)
    BY <1>1, <1>3, <1>5
  <2> QED
    BY <2>1 DEF Guides, Guided, Forms
<1>6. CASE ~anew
  <2>1. pc' = "resume" /\ st' = st
    BY <1>1, <1>6
  <2>2. asks = TRUE
    BY <1>3, <1>4, <1>6
  <2>3. CASE scheme = "MBR"
    <3>1. Slicing(job', TRUE)
      BY <1>1, <1>3, <2>2, <2>3
    <3> QED
      BY <2>1, <3>1 DEF Guides, Guided, Forms, AtResume
  <2>4. CASE scheme # "MBR"
    <3>1. Making(job')
      BY <1>1, <1>3, <1>6, <2>4
    <3>2. NoSlices(st'.tab, home')
      BY <1>1, <2>1, <2>4 DEF NoSlices, Scheme
    <3> QED
      BY <2>1, <3>1, <3>2 DEF Guides, Guided, Forms, AtResume
  <2> QED
    BY <2>3, <2>4
<1> QED
  BY <1>4, <1>5, <1>6

\* The dialogs of gpart_create().
LEMMA FormGuides ==
  ASSUME Session, pc \in Forms, pc' \in Forms, UNCHANGED <<home, job>>,
         form'.inter = form.inter, form'.scheme = form.scheme, form'.named = form.named,
         st'.tab = st.tab,
         ~form.inter /\ form.scheme \in plat.bootable /\ Granted(form, pc, st.tab) =>
           Granted(form', pc', st.tab)
  PROVE  Guides
<1>1. AtForm(home, job, form, st.tab)
  BY DEF Session, Guided
<1>2. AtForm(home', job', form', st'.tab)
  BY <1>1 DEF AtForm
<1>3. ~form.inter /\ form.scheme \in plat.bootable => Granted(form', pc', st'.tab)
  BY DEF Session, Guided
<1>4. pc' \notin {"menu", "confirm", "editform", "wdisk", "wpart", "wshort", "wscheme", "scheme", "resume"}
  BY DEF Forms
<1> QED
  BY <1>2, <1>3, <1>4, Zenon DEF Guides, Guided
LEMMA OptionsGuides ==
  ASSUME Session, NEW type, NEW answer, Options(type, answer)
  PROVE  Guides
<1> DEFINE nf == IF answer = "ok" \/ Newfs(type) = "" THEN Newfs(type) ELSE form.newfs
           cc == answer # "ok" /\ Newfs(type) # ""
<1>1. /\ pc = "addform" /\ pc' = pc /\ form.inter /\ UNCHANGED <<st, home, job>>
      /\ form' = [form EXCEPT !.fstype = type, !.newfs = nf, !.cancelled = cc]
  BY DEF Options
<1> HIDE DEF nf, cc
<1>2. pc \in Forms /\ pc' \in Forms
  BY <1>1 DEF Forms
<1>3. IsForm(form)
  BY <1>2, FormNow DEF FormFits, Session
<1>4. form'.inter = form.inter /\ form'.scheme = form.scheme /\ form'.named = form.named
  BY <1>1, <1>3 DEF IsForm
<1> QED
  BY <1>1, <1>2, <1>4, FormGuides

\* What is asked for is at most what is free, and so is what becomes of it.
LEMMA SizedIs ==
  ASSUME Session, pc \in Forms, NEW f, Offered(f, st.tab), f.geom = form.geom, f.asked \in Nat
  PROVE  Sized(f) \in 1 .. f.max.size
<1>1. f.max.size \in Nat /\ f.max.size > 0
  BY DEF Offered, FreeIn
<1>2. CASE f.asked = 0
  BY <1>1, <1>2 DEF Sized, Rest
<1>3. CASE f.asked # 0
  <2>1. f.asked > 0 /\ Sized(f) = Smaller(f.asked, f.max.size)
    BY <1>3 DEF Sized, Rest
  <2> QED
    BY <1>1, <2>1 DEF Smaller
<1> QED
  BY <1>2, <1>3
LEMMA OfferedFits ==
  ASSUME Session, pc \in Forms, NEW f, Offered(f, st.tab), f.geom = form.geom, NEW n \in 1 .. f.max.size
  PROVE  FreeIn(st.tab, f.geom, f.max.start, n) /\ f.max.start \in Nat
<1>1. Sound(st.tab) /\ Laid(st.tab) /\ f.geom \in DOMAIN st.tab
  BY FormNow, SessionNow DEF Session
<1>2. /\ FreeIn(st.tab, f.geom, f.max.start, f.max.size)
      /\ f.max.start \in Nat /\ f.max.size \in Nat
  BY DEF Offered, FreeIn
<1>3. n \in Int /\ n > 0 /\ f.max.start + n <= f.max.start + f.max.size
  BY <1>2
<1> QED
  BY <1>1, <1>2, <1>3, FreeWithin
LEMMA SubmitGuides ==
  ASSUME Session, NEW type, NEW size, NEW mount, SubmitForm(type, size, mount)
  PROVE  Guides
<1> DEFINE nf == IF type = form.fstype THEN form.newfs ELSE Newfs(type)
           cc == form.cancelled /\ type = form.fstype
           sz == IF size = Rest THEN form.max.size ELSE Smaller(size, form.max.size)
<1>1. /\ pc = "addform" /\ UNCHANGED <<st, home, job>>
      /\ ~form.inter => type = form.type /\ size = form.asked /\ mount = form.mount
      /\ form' = [form EXCEPT !.type = type, !.asked = size, !.mount = mount, !.fstype = type,
                    !.newfs = nf, !.cancelled = cc, !.size = sz]
      /\ pc' = IF type = "freebsd" /\ mount # NoMount THEN "adderror"
               ELSE IF WantsBoot(type, mount) THEN "boot" ELSE "add"
  BY DEF SubmitForm
<1>2. pc \in Forms /\ pc' \in Forms
  BY <1>1 DEF Forms
<1>3. IsForm(form)
  BY <1>2, FormNow DEF FormFits, Session
<1>4. size = form.asked => sz = Sized(form)
  BY DEF Sized
<1> HIDE DEF nf, cc, sz
<1>5. /\ form'.inter = form.inter /\ form'.scheme = form.scheme /\ form'.named = form.named
      /\ form'.geom = form.geom /\ form'.max = form.max /\ form'.free = form.free
      /\ form'.type = type /\ form'.mount = mount /\ form'.size = sz
  BY <1>1, <1>3 DEF IsForm
<1>6. ASSUME ~form.inter, form.scheme \in plat.bootable, Granted(form, pc, st.tab)
      PROVE  Granted(form', pc', st.tab)
  <2>1. /\ type = form.type /\ mount = form.mount /\ sz = Sized(form)
    BY <1>1, <1>4, <1>6
  <2>2. /\ form.type \in Types[form.scheme] /\ (form.type = "freebsd" => form.mount = NoMount)
        /\ Offered(form, st.tab) /\ form.asked \in Nat
        /\ WantsBoot(type, mount) => BootRoom(form, sz)
    BY <1>1, <1>6, <2>1 DEF Granted, WantsBoot, Boots
  <2>3. sz \in 1 .. form.max.size
    BY <1>2, <2>1, <2>2, SizedIs
  <2>4. FreeIn(st.tab, form.geom, form.max.start, sz) /\ form.free = form.max.start
    BY <1>2, <2>2, <2>3, OfferedFits DEF Offered
  <2>5. Offered(form', st.tab)
    BY <1>5, <2>2 DEF Offered
  <2>6. BootRoom(form, sz) => BootRoom(form', form'.size)
    BY <1>5 DEF BootRoom, Boots
  <2>7. pc' = IF WantsBoot(type, mount) THEN "boot" ELSE "add"
    BY <1>1, <2>1, <2>2
  <2>8. CASE WantsBoot(type, mount)
    BY <1>5, <2>1, <2>2, <2>3, <2>5, <2>6, <2>7, <2>8 DEF Granted
  <2>9. CASE ~WantsBoot(type, mount)
    BY <1>5, <2>1, <2>2, <2>4, <2>7, <2>9 DEF Granted
  <2> QED
    BY <2>8, <2>9
<1> QED
  BY <1>1, <1>2, <1>5, <1>6, FormGuides
LEMMA CancelFormGuides ==
  ASSUME Session, CancelForm
  PROVE  Guides
<1>1. /\ pc = "addform" /\ pc' = "resume" /\ UNCHANGED <<st, job>>
      /\ home' = IF form.named THEN Nowhere ELSE home
  BY DEF CancelForm, Return
<1>2. AtForm(home, job, form, st.tab)
  BY <1>1 DEF Session, Guided, Forms
<1>3. AtResume(home', job', st'.tab)
  BY <1>1, <1>2 DEF AtForm, AtResume, NoSlices
<1> QED
  BY <1>1, <1>3 DEF Guides, Guided, Forms
LEMMA BootFoundTab ==
  ASSUME Session, BootFound
  PROVE  st'.tab = st.tab
<1>1. pc = "boot"
  BY DEF BootFound
<1>2. PICK i \in DOMAIN form.seen.parts :
        st' = IF BootMount # NoMount /\ ~Has(st.md, Append(form.geom, i))
              THEN SetDefault(st, Append(form.geom, i), form.scheme, BootType, BootMount, Keep, Confirmed)
              ELSE st
  BY DEF BootFound
<1>3. FormFits(form, st.tab, pc) /\ Sane(st) /\ Sound(st.tab)
  BY <1>1, FormNow, SessionNow DEF Session, Forms
<1> DEFINE n == Append(form.geom, i)
<1>4. n \in PartsOf(st.tab, form.geom)
  BY <1>2, <1>3 DEF FormFits, PartsOf
<1>5. n # Label
  BY <1>3, <1>4, NotLabel DEF FormFits, Partitions
<1> HIDE DEF n
<1>6. SetDefault(st, n, form.scheme, BootType, BootMount, Keep, Confirmed).tab = st.tab
  <2>1. PICK new : IsDefault(st, SetDefault(st, n, form.scheme, BootType, BootMount, Keep, Confirmed),
                             n, form.scheme, BootType, BootMount, Keep, Confirmed, new)
    BY <1>3, <1>5, SetDefaultIs
  <2> QED
    BY <2>1 DEF IsDefault
<1> QED
  BY <1>2, <1>6 DEF n
LEMMA BootGuides ==
  ASSUME Session, BootFound \/ BootDeclined
  PROVE  Guides
<1>1. /\ pc = "boot" /\ pc' = "add" /\ UNCHANGED <<form, home, job>>
  BY DEF BootFound, BootDeclined, NoBootFound
<1>2. st'.tab = st.tab
  BY BootFoundTab DEF BootDeclined
<1>3. pc \in Forms /\ pc' \in Forms
  BY <1>1 DEF Forms
<1>4. ASSUME Granted(form, pc, st.tab) PROVE Granted(form', pc', st.tab)
  <2>1. /\ form.type \in Types[form.scheme] /\ (form.type = "freebsd" => form.mount = NoMount)
        /\ Offered(form, st.tab) /\ form.size \in 1 .. form.max.size
    BY <1>1, <1>4 DEF Granted
  <2>2. FreeIn(st.tab, form.geom, form.free, form.size)
    BY <1>3, <2>1, OfferedFits DEF Offered
  <2> QED
    BY <1>1, <2>1, <2>2 DEF Granted
<1> QED
  BY <1>1, <1>2, <1>3, <1>4, FormGuides

\* The boot partition fits where it is offered.
LEMMA BootFits ==
  ASSUME Session, pc = "bootadd", form.scheme \in plat.bootable, Granted(form, pc, st.tab)
  PROVE  /\ Smaller(plat.size[form.scheme], form.max.size) = plat.size[form.scheme]
         /\ plat.size[form.scheme] \in Nat /\ Reported \in {0, Stripe} /\ Reported \in Nat
         /\ CanAdd(Kernel(st), form.geom, BootType, form.max.start, plat.size[form.scheme])
         /\ plat.size[form.scheme] + Reported < form.size
         /\ Offered(form, st.tab) /\ form.size \in 1 .. form.max.size /\ form.max.size \in Nat
<1>1. pc \in Forms
  BY DEF Forms
<1>2. /\ Offered(form, st.tab) /\ form.size \in 1 .. form.max.size
      /\ plat.size[form.scheme] > 0 /\ plat.size[form.scheme] + Reported < form.size
  BY DEF Granted, BootRoom, Boots
<1>3. plat \in Machines
  BY DEF Session, Inv
<1>4. /\ plat.size[form.scheme] \in Nat /\ Reported \in Nat /\ Reported \in {0, Stripe}
      /\ plat.type[form.scheme] \in Types[form.scheme]
  BY <1>2, <1>3, BootableRoom
<1>5. form.max.size \in Nat
  BY <1>2 DEF Offered, FreeIn
<1>6. plat.size[form.scheme] \in 1 .. form.max.size
  BY <1>2, <1>4, <1>5
<1>7. FreeIn(st.tab, form.geom, form.max.start, plat.size[form.scheme])
  BY <1>1, <1>2, <1>6, OfferedFits
<1>8. Smaller(plat.size[form.scheme], form.max.size) = plat.size[form.scheme]
  BY <1>5, <1>6 DEF Smaller
<1>9. CanAdd(Kernel(st), form.geom, BootType, form.max.start, plat.size[form.scheme])
  BY <1>1, <1>4, <1>7, FormNow, KernelIs DEF CanAdd, BootType, Session, FormFits
<1> QED
  BY <1>2, <1>4, <1>5, <1>8, <1>9
LEMMA RetryGuides ==
  ASSUME Session, BootWanted \/ BootRefused \/ BootRetry \/ AddRefused \/ AddRetry
  PROVE  Guides
<1>1. pc \in Forms /\ pc' \in Forms /\ UNCHANGED <<st, form, home, job>>
  BY DEF BootWanted, NoBootFound, BootRefused, BootRetry, AddRefused, AddRetry, Forms
<1>2. ASSUME form.scheme \in plat.bootable, Granted(form, pc, st.tab)
      PROVE  Granted(form', pc', st.tab)
  <2>1. CASE BootWanted
    BY <1>1, <1>2, <2>1 DEF BootWanted, NoBootFound, Granted
  <2>2. CASE BootRefused
    BY <1>2, <2>2, BootFits DEF BootRefused
  <2>3. CASE BootRetry \/ AddRetry
    BY <1>2, <2>3 DEF BootRetry, AddRetry, Granted
  <2>4. CASE AddRefused
    <3>1. /\ pc = "add" /\ ~CanAdd(Kernel(st), form.geom, form.type, form.free, form.size)
      BY <2>4 DEF AddRefused
    <3>2. CanAdd(Kernel(st), form.geom, form.type, form.free, form.size)
      BY <1>1, <1>2, <3>1, FormNow, KernelIs DEF CanAdd, Granted, Session, FormFits
    <3> QED
      BY <3>1, <3>2
  <2> QED
    BY <2>1, <2>2, <2>3, <2>4
<1> QED
  BY <1>1, <1>2, FormGuides
LEMMA AddBootGuides ==
  ASSUME Session, AddBoot
  PROVE  Guides
<1> DEFINE boot == plat.size[form.scheme]
<1>1. /\ pc = "bootadd" /\ pc' = "add" /\ UNCHANGED <<home, job>> /\ form' = Forward(form, boot)
  BY DEF AddBoot
<1>2. pc \in Forms /\ Inv /\ Sound(st.tab) /\ Laid(st.tab)
  BY <1>1, SessionNow, FormNow DEF Forms, Session
<1>3. /\ FormFits(form, st.tab, pc) /\ Wider(st.tab, st'.tab)
      /\ LET size == Smaller(boot, form.max.size)
         IN \E p : Settled(st, st', form.geom, p, form.max.start, size)
  BY <1>2, AddBootIs
<1>4. AtForm(home, job, form, st.tab)
  BY <1>2 DEF Session, Guided
<1>5. IsForm(form) /\ form.geom \in DOMAIN st.tab
  BY <1>3 DEF FormFits
<1> HIDE DEF boot
<1>6. form'.inter = form.inter /\ form'.scheme = form.scheme /\ form'.named = form.named
  <2> DEFINE a == form.size - (boot + Reported)
             b == form.free + boot
                  + IF Reported = 0 THEN 0 ELSE (Stripe - ((form.free + boot) % Stripe)) % Stripe
  <2>1. form' = [form EXCEPT !.size = a, !.free = b]
    BY <1>1 DEF Forward
  <2> HIDE DEF a, b
  <2> QED
    BY <1>5, <2>1 DEF IsForm
<1>7. AtForm(home', job', form', st'.tab)
  <2>1. Takes(st.tab, home) => Takes(st'.tab, home)
    BY <1>3 DEF Takes, Wider
  <2> QED
    BY <1>1, <1>4, <1>6, <2>1 DEF AtForm
<1>8. ASSUME ~form.inter, form.scheme \in plat.bootable
      PROVE  Granted(form', pc', st'.tab)
  <2>1. Granted(form, pc, st.tab)
    BY <1>2, <1>8 DEF Session, Guided
  <2>2. /\ Smaller(boot, form.max.size) = boot /\ boot \in Nat
        /\ Reported \in {0, Stripe} /\ Reported \in Nat /\ boot + Reported < form.size
        /\ Offered(form, st.tab) /\ form.size \in 1 .. form.max.size /\ form.max.size \in Nat
    BY <1>1, <1>8, <2>1, BootFits DEF boot
  <2>3. /\ FreeIn(st.tab, form.geom, form.max.start, form.max.size) /\ form.free = form.max.start
        /\ form.free \in Nat /\ form.size \in Nat
    BY <2>2 DEF Offered, FreeIn
  <2>4. /\ form'.geom = form.geom /\ form'.scheme = form.scheme /\ form'.type = form.type
        /\ form'.mount = form.mount /\ form'.size = form.size - (boot + Reported)
        /\ \E a \in 0 .. Reported : form'.free = form.free + boot + a
    <3> DEFINE r == Forward(form, boot)
    <3>1. IsForm(form) /\ form.free \in Int /\ form.size \in Int
      BY <1>5, <2>3
    <3>2. /\ r.geom = form.geom /\ r.scheme = form.scheme /\ r.type = form.type
          /\ r.mount = form.mount /\ r.size = form.size - (boot + Reported)
          /\ \E a \in 0 .. Reported : r.free = form.free + boot + a
      BY <2>2, <3>1, ForwardIs, Zenon
    <3> HIDE DEF r
    <3>3. form' = r
      BY <1>1 DEF r
    <3> QED
      BY <3>2, <3>3
  <2>5. PICK a \in 0 .. Reported : form'.free = form.free + boot + a
    BY <2>4
  <2>6. PICK p : Settled(st, st', form.geom, p, form.max.start, boot)
    BY <1>3, <2>2
  <2>7. /\ form'.free \in Int /\ form'.size \in Int /\ form'.size > 0
        /\ form'.free >= form.max.start + boot
        /\ form'.free + form'.size <= form.max.start + form.max.size
    BY <2>2, <2>3, <2>4, <2>5
  <2>8. FreeIn(st'.tab, form.geom, form'.free, form'.size)
    BY <1>2, <1>5, <2>2, <2>3, <2>6, <2>7, FreeBehind
  <2> QED
    BY <1>1, <2>1, <2>4, <2>8 DEF Granted
<1>9. pc' \in Forms
  BY <1>1 DEF Forms
<1> QED
  BY <1>1, <1>6, <1>7, <1>8 DEF Guides, Guided
LEMMA AddPartitionGuides ==
  ASSUME Session, AddPartition
  PROVE  Guides
<1>1. pc = "add" /\ pc' = "resume" /\ UNCHANGED job
  BY DEF AddPartition, Return
<1>2. pc \in Forms
  BY <1>1 DEF Forms
<1>3. Good(st') /\ Wider(st.tab, st'.tab)
  BY AddPartitionIs DEF Session
<1>4. PICK p \in Partitions(st'.tab) : home' = IF form.named THEN p ELSE home
  BY AddPartitionIs DEF Session
<1>5. AtForm(home, job, form, st.tab)
  BY <1>2 DEF Session, Guided
<1>6. ASSUME p \in DOMAIN st'.tab PROVE st'.tab[p].scheme # "MBR"
  <2>1. Sound(st'.tab)
    BY <1>3, SaneTab DEF Good
  <2>2. p \in Names /\ Len(p) >= 2
    BY <2>1, PartitionIs
  <2>3. p \notin DiskNames
    <3>1. \A x \in Nat : x >= 2 => x # 1
      OBVIOUS
    <3>2. Len(p) # 1
      BY <2>2, <3>1 DEF Names
    <3> QED
      BY <3>2, DiskNameApart
  <2> QED
    BY <1>6, <2>1, <2>3, SoundGeoms DEF None
<1>7. Takes(st.tab, home) => Takes(st'.tab, home)
  BY <1>3 DEF Takes, Wider
<1>8. AtResume(home', job', st'.tab)
  BY <1>1, <1>4, <1>5, <1>6, <1>7 DEF AtForm, AtResume, NoSlices
<1> QED
  BY <1>1, <1>8 DEF Guides, Guided, Forms

\* How gpart_create() begins.
LEMMA StartedIs ==
  ASSUME NEW p, NEW inter, NEW type, NEW size, NEW mount, NEW named,
         StartCreate(p, inter, type, size, mount, named)
  PROVE  LET g == GeomFor(p)
             max == MaxFree(st.tab, g)
         IN \/ /\ pc' \in {"scheme", "resume"} /\ home' = IF named THEN Nowhere ELSE home
               /\ pc' = "scheme" => g = Nowhere \/ Zombie(st.tab, g)
            \/ /\ pc' = "addform" /\ UNCHANGED home /\ g # Nowhere /\ ~(max.size <= 0)
               /\ form'.inter = inter /\ form'.geom = g /\ form'.scheme = st.tab[g].scheme
               /\ form'.max = max /\ form'.free = max.start /\ form'.asked = size
               /\ form'.mount = mount /\ form'.named = named
               /\ type # Untyped => form'.type = type
<1> DEFINE g == GeomFor(p)
           max == MaxFree(st.tab, g)
           text == CASE type # Untyped -> type
                     [] type = Untyped /\ st.tab[g].scheme = "MBR" -> "freebsd"
                     [] OTHER -> "freebsd-ufs"
<1>1. CASE g = Nowhere \/ Zombie(st.tab, g)
  BY <1>1 DEF StartCreate, AskScheme
<1>2. CASE ~(g = Nowhere \/ Zombie(st.tab, g)) /\ max.size <= 0
  BY <1>2 DEF StartCreate, Return
<1>3. CASE ~(g = Nowhere \/ Zombie(st.tab, g)) /\ ~(max.size <= 0)
  <2>1. /\ pc' = "addform" /\ UNCHANGED home
        /\ form' = [inter |-> inter, geom |-> g, scheme |-> st.tab[g].scheme,
                    seen |-> st.tab[g], max |-> max, free |-> max.start,
                    type |-> text, asked |-> size, size |-> max.size, mount |-> mount,
                    fstype |-> text, newfs |-> Newfs(text), cancelled |-> FALSE,
                       named |-> named]
    BY <1>3 DEF StartCreate
  <2>2. type # Untyped => text = type
    OBVIOUS
  <2> HIDE DEF text, max, g
  <2> QED
    BY <1>3, <2>1, <2>2 DEF max, g
<1> QED
  BY <1>1, <1>2, <1>3
LEMMA MenuCreateGuides ==
  ASSUME Session, NEW p, MenuCreate(p)
  PROVE  Guides
<1>1. /\ pc = "menu" /\ UNCHANGED job /\ StartCreate(p, TRUE, Untyped, Rest, NoMount, FALSE)
  BY DEF MenuCreate, Menu
<1>2. job' = <<>>
  BY <1>1 DEF Session, Guided
<1>3. pc' \in {"scheme", "resume"} \/ (pc' = "addform" /\ form'.inter)
  BY <1>1, StartedIs
<1> QED
  BY <1>2, <1>3, GuidesDone DEF Guides, Guided, AtForm, Forms

\* In a table that takes partitions, the form of a task is right if its type is
\* one of the table's and it leaves room for the boot partition.
Suits(type, size, mount, scheme, max) ==
  /\ type \in Types[scheme] /\ (type = "freebsd" => mount = NoMount) /\ size \in Nat
  /\ (type = "freebsd" \/ mount = "/") /\ plat.size[scheme] > 0 =>
       plat.size[scheme] + Reported < (IF size = Rest THEN max.size ELSE Smaller(size, max.size))
LEMMA StartGuides ==
  ASSUME Session, pc = "resume", NEW inter, NEW type, NEW size, NEW mount, NEW named,
         type # Untyped, home \in DOMAIN st.tab, UNCHANGED st,
         StartCreate(home, inter, type, size, mount, named), pc' = "addform",
         AtForm(home', job', form', st'.tab),
         ~inter /\ st.tab[home].scheme \in plat.bootable =>
           Suits(type, size, mount, st.tab[home].scheme, MaxFree(st.tab, home))
  PROVE  Guides
<1> DEFINE max == MaxFree(st.tab, home)
<1>1. GeomFor(home) = home
  BY DEF GeomFor
<1>2. /\ ~(max.size <= 0)
      /\ form'.inter = inter /\ form'.geom = home /\ form'.scheme = st.tab[home].scheme
      /\ form'.max = max /\ form'.free = max.start /\ form'.asked = size
      /\ form'.mount = mount /\ form'.type = type
  BY <1>1, StartedIs
<1>3. Sound(st.tab) /\ Laid(st.tab)
  BY SessionNow DEF Editing, Ended
<1>4. FreeIn(st.tab, home, max.start, max.size)
  BY <1>2, <1>3, RoomIs
<1> HIDE DEF max
<1>5. Offered(form', st'.tab)
  BY <1>2, <1>4 DEF Offered
<1>6. ASSUME ~form'.inter, form'.scheme \in plat.bootable
      PROVE  Granted(form', pc', st'.tab)
  <2>1. Suits(type, size, mount, form'.scheme, form'.max)
    BY <1>2, <1>6 DEF max
  <2> QED
    BY <1>2, <1>5, <2>1 DEF Granted, Suits, Boots, BootRoom, Sized
<1> QED
  BY <1>6 DEF Guides, Guided, Forms

\* The tasks of the guided mode.
LEMMA SliceGuides ==
  ASSUME Session, pc = "resume", NEW inter \in BOOLEAN, Slicing(job, inter), job' = Tail(job),
         ~inter => home \in DiskNames \cap DOMAIN st.tab /\ st.tab[home] = Table("MBR"),
         StartCreate(home, inter, "freebsd", Rest, NoMount, TRUE), UNCHANGED st
  PROVE  Guides
<1>1. Making(job')
  BY SlicingIs
<1>2. "freebsd" # Untyped
  BY DEF Untyped
<1>3. CASE pc' \in {"scheme", "resume"}
  <2>1. home' = Nowhere
    BY <1>3, StartedIs
  <2> QED
    BY <1>1, <1>3, <2>1 DEF Guides, Guided, Forms, AtResume, NoSlices
<1>4. CASE pc' = "addform"
  <2>1. form'.named /\ form'.inter = inter
    BY <1>4, StartedIs
  <2>2. AtForm(home', job', form', st'.tab)
    BY <1>1, <2>1 DEF AtForm
  <2>3. CASE inter
    BY <1>4, <2>1, <2>2, <2>3 DEF Guides, Guided, Forms
  <2>4. CASE ~inter
    <3> DEFINE max == MaxFree(st.tab, home)
    <3>1. st.tab[home].scheme = "MBR" /\ DOMAIN st.tab[home].parts = {}
      BY <2>4 DEF Table
    <3>2. max.size \in Int /\ max.size > LastSector - Stripe
      BY <2>4, <3>1, EmptyRoom
    <3>3. ASSUME st.tab[home].scheme \in plat.bootable
          PROVE  Suits("freebsd", Rest, NoMount, "MBR", max)
      <4> HIDE DEF max
      <4>1. plat \in Machines /\ LastSector \in Nat /\ Stripe \in Nat
        BY DiskAssumption DEF Session, Inv
      <4>2. /\ plat.size["MBR"] \in Nat /\ Reported \in Nat
            /\ plat.size["MBR"] > 0 => plat.size["MBR"] + Reported <= LastSector - Stripe
        BY <3>1, <3>3, <4>1, BootableRoom
      <4>3. plat.size["MBR"] > 0 => plat.size["MBR"] + Reported < max.size
        BY <3>2, <4>1, <4>2
      <4>4. "freebsd" \in Types["MBR"]
        BY DEF Types
      <4> QED
        BY <4>3, <4>4 DEF Suits, Rest
    <3> HIDE DEF max
    <3>4. st.tab[home].scheme \in plat.bootable =>
            Suits("freebsd", Rest, NoMount, st.tab[home].scheme, MaxFree(st.tab, home))
      BY <3>1, <3>3 DEF max
    <3> QED
      BY <1>2, <1>4, <2>2, <2>4, <3>4, StartGuides
  <2> QED
    BY <2>3, <2>4
<1> QED
  BY <1>3, <1>4, StartedIs

\* A table that takes file systems has the types of both.
LEMMA TakesIs ==
  ASSUME Session, pc = "resume", Takes(st.tab, home)
  PROVE  /\ home \in DOMAIN st.tab /\ GeomFor(home) = home /\ home # Nowhere /\ ~Zombie(st.tab, home)
         /\ FileSystems \cup {"freebsd-swap"} \subseteq Types[st.tab[home].scheme]
         /\ MaxFree(st.tab, home).size \in Int
<1>1. Sound(st.tab) /\ Laid(st.tab)
  BY SessionNow DEF Editing, Ended
<1>2. home \in DOMAIN st.tab /\ st.tab[home].scheme \in Schemes \ {"MBR"}
  BY <1>1, SoundGeoms, TableParts DEF Takes
<1>3. FileSystems \cup {"freebsd-swap"} \subseteq Types[st.tab[home].scheme]
  BY <1>2 DEF Schemes, FileSystems, Types
<1>4. home # Nowhere
  <2>1. Len(home) >= 1
    BY <1>1, <1>2, GeomNames
  <2>2. Len(Nowhere) = 0
    BY DEF Nowhere
  <2>3. ~(0 >= 1)
    OBVIOUS
  <2> QED
    BY <2>1, <2>2, <2>3
<1> QED
  BY <1>1, <1>2, <1>3, <1>4, RoomIs DEF GeomFor, Zombie, Takes
LEMMA RootGuides ==
  ASSUME Session, pc = "resume", Takes(st.tab, home), NEW size \in Int, Rooting(job, size),
         Leaves(st.tab, home, size), job' = Tail(job), UNCHANGED st,
         NEW fs \in FileSystems, StartCreate(home, FALSE, fs, size, "/", FALSE)
  PROVE  Guides
<1> DEFINE max == MaxFree(st.tab, home)
           scheme == st.tab[home].scheme
<1>1. job' = <<SwapPart>>
  BY RootingIs
<1>2. /\ home \in DOMAIN st.tab /\ GeomFor(home) = home /\ home # Nowhere /\ ~Zombie(st.tab, home)
      /\ FileSystems \subseteq Types[scheme] /\ max.size \in Int
  BY TakesIs
<1>3. /\ \/ pc' = "resume"
         \/ pc' = "addform" /\ ~form'.named
      /\ UNCHANGED home
  BY <1>2, StartedIs
<1>4. Takes(st'.tab, home')
  BY <1>3
<1>5. CASE pc' = "resume"
  BY <1>1, <1>4, <1>5 DEF Guides, Guided, Forms, AtResume
<1>6. CASE pc' = "addform"
  <2>1. AtForm(home', job', form', st'.tab)
    BY <1>1, <1>3, <1>4, <1>6 DEF AtForm
  <2>2. fs # Untyped /\ fs # "freebsd"
    BY DEF FileSystems, Untyped
  <2>3. max.size >= MinFree /\ size >= max.size - Swap - 1
    BY DEF Leaves
  <2> HIDE DEF max, scheme
  <2>4. ASSUME scheme \in plat.bootable PROVE Suits(fs, size, "/", scheme, max)
    <3>1. plat \in Machines
      BY DEF Session, Inv
    <3>2. /\ plat.size[scheme] \in Nat /\ Swap \in Nat /\ MinFree \in Int /\ MinFree > Swap + 1
          /\ Reported \in Nat
          /\ plat.size[scheme] > 0 => plat.size[scheme] + Reported < MinFree - Swap - 1
      BY <2>4, <3>1, BootableRoom
    <3>3. size \in Nat /\ size > 0
      BY <1>2, <2>3, <3>2
    <3>4. plat.size[scheme] > 0 =>
            plat.size[scheme] + Reported < size /\ plat.size[scheme] + Reported < max.size
      BY <1>2, <2>3, <3>2
    <3> QED
      BY <1>2, <2>2, <3>3, <3>4 DEF Suits, Smaller, Rest
  <2> QED
    BY <1>2, <1>6, <2>1, <2>2, <2>4, StartGuides DEF max, scheme
<1> QED
  BY <1>3, <1>5, <1>6
LEMMA SwapGuides ==
  ASSUME Session, pc = "resume", Takes(st.tab, home), job' = <<>>, UNCHANGED st,
         StartCreate(home, FALSE, "freebsd-swap", Swap, NoMount, FALSE)
  PROVE  Guides
<1>1. CASE pc' \in {"scheme", "resume"}
  BY <1>1, GuidesDone
<1>2. CASE pc' = "addform"
  <2>1. AtForm(home', job', form', st'.tab)
    BY DEF AtForm
  <2>2. Swap \in Nat
    BY DEF Session, HasRoom
  <2>3. "freebsd-swap" # Untyped /\ "freebsd-swap" # "freebsd" /\ NoMount # "/"
    BY DEF Untyped, NoMount
  <2>4. home \in DOMAIN st.tab /\ "freebsd-swap" \in Types[st.tab[home].scheme]
    BY TakesIs
  <2>5. Suits("freebsd-swap", Swap, NoMount, st.tab[home].scheme, MaxFree(st.tab, home))
    BY <2>2, <2>3, <2>4 DEF Suits
  <2> QED
    BY <1>2, <2>1, <2>3, <2>4, <2>5, StartGuides
<1> QED
  BY <1>1, <1>2, StartedIs
LEMMA MakePartsGuides ==
  ASSUME Session, pc = "resume", Making(job), NoSlices(st.tab, home),
         DoMakeParts(Head(job)), UNCHANGED <<st, home>>
  PROVE  Guides
<1> DEFINE room == MaxFree(st.tab, home).size
<1>1. PICK fs \in FileSystems : Head(job) = PartsTask(fs)
  BY MakingIs
<1>2. Head(job).inter /\ Head(job).fs = fs /\ Tail(job) = <<>>
  BY <1>1, MakingIs, TasksAre
<1>3. \/ ToMenu
      \/ pc' = "crashed"
      \/ pc' = "wshort" /\ UNCHANGED job
      \/ /\ pc' = pc /\ home # Nowhere /\ home \in DOMAIN st.tab /\ ~Zombie(st.tab, home)
         /\ ~(room < MinFree)
         /\ \E size \in Rounded(room - Swap) : job' = <<Root(fs, size), SwapPart>> \o <<>>
  BY <1>2, Zenon DEF DoMakeParts
<1>4. CASE ToMenu
  BY <1>4, GuidesDone DEF ToMenu
<1>5. CASE pc' = "crashed"
  BY <1>5, GuidesEnd DEF Ended
<1>6. CASE pc' = "wshort" /\ UNCHANGED job
  BY <1>6 DEF Guides, Guided, Forms
<1>7. CASE /\ pc' = pc /\ home # Nowhere /\ home \in DOMAIN st.tab /\ ~Zombie(st.tab, home)
         /\ ~(room < MinFree)
           /\ \E size \in Rounded(room - Swap) : job' = <<Root(fs, size), SwapPart>> \o <<>>
  <2>1. Sound(st.tab) /\ Laid(st.tab)
    BY SessionNow DEF Editing, Ended
  <2>2. room \in Int
    BY <1>7, <2>1, RoomIs
  <2>3. Takes(st.tab, home)
    BY <1>7 DEF NoSlices, Takes, Zombie
  <2>4. PICK size \in Rounded(room - Swap) : job' = <<Root(fs, size), SwapPart>> \o <<>>
    BY <1>7
  <2>5. job' = <<Root(fs, size), SwapPart>>
    BY <2>4, PairIs, Zenon
  <2> HIDE DEF room
  <2>6. Swap \in Nat /\ MinFree \in Int
    BY DEF Session, HasRoom
  <2>7. size \in Int /\ size >= room - Swap - 1 /\ room >= MinFree
    BY <1>7, <2>2, <2>6 DEF Rounded
  <2>8. Rooting(job', size) /\ Leaves(st.tab, home, size)
    BY <2>5, <2>7 DEF Rooting, Leaves, room
  <2>9. AtResume(home', job', st'.tab)
    BY <2>3, <2>7, <2>8 DEF AtResume
  <2> QED
    BY <1>7, <2>9 DEF Guides, Guided, Forms
<1> QED
  BY <1>3, <1>4, <1>5, <1>6, <1>7
LEMMA ResumeGuides ==
  ASSUME Session, Resume
  PROVE  Guides
<1>1. pc = "resume" /\ job # <<>>
  BY DEF Resume
<1>2. AtResume(home, job, st.tab)
  BY <1>1 DEF Session, Guided
<1>3. \/ /\ Head(job).do = "slice" /\ job' = Tail(job) /\ UNCHANGED st
         /\ StartCreate(home, Head(job).inter, "freebsd", Rest, NoMount, TRUE)
      \/ /\ Head(job).do = "create" /\ job' = Tail(job) /\ UNCHANGED st
         /\ StartCreate(home, FALSE, Head(job).type, Head(job).size, Head(job).mount, FALSE)
      \/ /\ Head(job).do = "makeparts" /\ DoMakeParts(Head(job)) /\ UNCHANGED <<st, home>>
      \/ Head(job).do = "disk"
  BY DEF Resume, Next1
<1>4. ASSUME NEW inter \in BOOLEAN, Slicing(job, inter),
             ~inter => home \in DiskNames \cap DOMAIN st.tab /\ st.tab[home] = Table("MBR")
      PROVE  Guides
  <2>1. Head(job).do = "slice" /\ Head(job).inter = inter
    BY <1>4, SlicingIs, TasksAre
  <2> QED
    BY <1>1, <1>3, <1>4, <2>1, SliceGuides
<1>5. ASSUME Making(job), NoSlices(st.tab, home) PROVE Guides
  <2>1. Head(job).do = "makeparts"
    BY <1>5, MakingIs, TasksAre
  <2> QED
    BY <1>1, <1>3, <1>5, <2>1, MakePartsGuides
<1>6. ASSUME Takes(st.tab, home), NEW size \in Int, Rooting(job, size), Leaves(st.tab, home, size)
      PROVE  Guides
  <2>1. PICK fs \in FileSystems : Head(job) = Root(fs, size)
    BY <1>6, RootingIs
  <2>2. /\ Head(job).do = "create" /\ Head(job).type = fs /\ Head(job).size = size
        /\ Head(job).mount = "/"
    BY <2>1, TasksAre
  <2>3. job' = Tail(job) /\ UNCHANGED st /\ StartCreate(home, FALSE, fs, size, "/", FALSE)
    BY <1>3, <2>2
  <2> QED
    BY <1>1, <1>6, <2>3, RootGuides
<1>7. ASSUME Takes(st.tab, home), job = <<SwapPart>> PROVE Guides
  <2>1. Head(job) = SwapPart /\ Tail(job) = <<>>
    BY <1>7, PairIs, Zenon
  <2>2. /\ Head(job).do = "create" /\ Head(job).type = "freebsd-swap" /\ Head(job).size = Swap
        /\ Head(job).mount = NoMount
    BY <2>1, TasksAre
  <2>3. job' = <<>> /\ UNCHANGED st /\ StartCreate(home, FALSE, "freebsd-swap", Swap, NoMount, FALSE)
    BY <1>3, <2>1, <2>2
  <2> QED
    BY <1>1, <1>7, <2>3, SwapGuides
<1> QED
  BY <1>1, <1>2, <1>4, <1>5, <1>6, <1>7 DEF AtResume

\* The end of a session.
LEMMA EndGuides ==
  ASSUME Session, Quit \/ StartCommit \/ CommitGeom \/ Format \/ WriteFstab \/ Interrupt
  PROVE  Guides
<1>1. pc' \in Ended \cup {"commit"}
  BY DEF Quit, StartCommit, CommitGeom, WriteCodes, Format, WriteFstab, Interrupt, Ended
<1> QED
  BY <1>1, GuidesEnd

\* Every step keeps to the plan.
LEMMA DialogGuides ==
  ASSUME Session, Dialog
  PROVE  Guides
<1>1. CASE \E scheme \in Schemes : ChooseScheme(scheme) \/ WizardScheme(scheme)
  BY <1>1, SchemeGuides, WizardSchemeGuides
<1>2. CASE CancelScheme
  <2>1. "GPT" \in Schemes
    BY DEF Schemes
  <2> QED
    BY <1>2, <2>1, SchemeGuides
<1>3. CASE NoWizardScheme \/ NoDisk \/ ToEditor \/ MenuRevert \/ MenuFinish \/ NotYet
  BY <1>3, MenuGuides
<1>4. CASE \E type \in FormTypes, size \in FormSizes \cup {Rest}, mount \in FormMounts :
             SubmitForm(type, size, mount)
  BY <1>4, SubmitGuides
<1>5. CASE \E type \in FormTypes, answer \in OptionAnswers : Options(type, answer)
  BY <1>5, OptionsGuides
<1>6. CASE CancelForm
  BY <1>6, CancelFormGuides
<1>7. CASE BootDeclined
  BY <1>7, BootGuides
<1>8. CASE \E p \in Providers(st.tab) : MenuCreate(p) \/ MenuDelete(p) \/ MenuModify(p)
  BY <1>8, MenuCreateGuides, MenuItemGuides
<1>9. CASE \/ \E type \in FormTypes, mount \in FormMounts : EditOk(type, mount)
           \/ \E type \in FormTypes : EditCancel(type)
  BY <1>9, EditGuides
<1>10. CASE MenuAuto \/ AnotherDisk \/ \E d \in Disks : ChooseDisk(d)
  BY <1>10, BeginGuides
<1>11. CASE \E answer \in {"entire", "partition", "escape"} : UseDisk(answer)
  BY <1>11, UseDiskGuides
<1>12. CASE Quit \/ StartCommit
  BY <1>12, EndGuides
<1> QED
  BY <1>1, <1>2, <1>3, <1>4, <1>5, <1>6, <1>7, <1>8, <1>9, <1>10, <1>11, <1>12 DEF Dialog
LEMMA ProgramGuides ==
  ASSUME Session, Program
  PROVE  Guides
<1>1. CASE ~form.inter /\ SubmitForm(form.type, form.asked, form.mount)
  BY <1>1, SubmitGuides
<1>2. CASE BootFound
  BY <1>2, BootGuides
<1>3. CASE BootWanted \/ BootRefused \/ BootRetry \/ AddRefused \/ AddRetry
  BY <1>3, RetryGuides
<1>4. CASE AddBoot \/ AddPartition
  BY <1>4, AddBootGuides, AddPartitionGuides
<1>5. CASE NothingLeft \/ Resume
  BY <1>5, MenuGuides, ResumeGuides
<1>6. CASE CommitGeom \/ Format \/ WriteFstab
  BY <1>6, EndGuides
<1> QED
  BY <1>1, <1>2, <1>3, <1>4, <1>5, <1>6 DEF Program
LEMMA GuidedStep ==
  ASSUME Inv, HasRoom, GuidedInv, [Next]_vars
  PROVE  GuidedInv'
<1> SUFFICES ASSUME mode' # "script" PROVE GuidedInv'
  BY DEF GuidedInv
<1>1. mode' = mode /\ plat' = plat
  BY DEF Next, vars, Dialog, Program, Interrupt, Exited, Stay, ChooseScheme, WizardScheme,
         CancelScheme, NoWizardScheme, SubmitForm, Options, CancelForm, BootDeclined, MenuCreate,
         MenuDelete, MenuModify, MenuRevert, MenuAuto, MenuFinish, EditOk, EditCancel, ChooseDisk,
         NoDisk, UseDisk, AnotherDisk, ToEditor, NotYet, Quit, StartCommit, BootFound, BootWanted,
         AddBoot, BootRefused, BootRetry, AddPartition, AddRefused, AddRetry, NothingLeft, Resume,
         CommitGeom, WriteCodes, Format, WriteFstab
<1>2. Session
  BY <1>1 DEF Session, GuidedInv
<1>3. CASE Dialog \/ Program \/ Interrupt
  BY <1>1, <1>2, <1>3, DialogGuides, ProgramGuides, EndGuides, GuidedNext
<1>4. CASE Exited \/ UNCHANGED vars
  <2>1. Guides
    BY <1>2, <1>4 DEF Exited, vars, Guides, Session
  <2> QED
    BY <1>1, <1>2, <2>1, GuidedNext
<1> QED
  BY <1>3, <1>4 DEF Next
LEMMA InitGuided ==
  ASSUME Init
  PROVE  GuidedInv
<1> SUFFICES ASSUME mode # "script" PROVE Guided(pc, home, job, form, st.tab)
  BY DEF GuidedInv
<1>1. CASE mode = "editor"
  <2>1. pc = "menu" /\ job = <<>>
    BY <1>1 DEF Init
  <2> QED
    BY <2>1 DEF Guided, Forms
<1>2. CASE mode # "editor"
  <2>1. pc = "wdisk" /\ job = Wizard(IF mode = "zfs" THEN "freebsd-zfs" ELSE "freebsd-ufs")
    BY <1>2 DEF Init
  <2>2. Slicing(job, TRUE)
    BY <2>1, WizardSlices DEF FileSystems
  <2> QED
    BY <2>1, <2>2 DEF Guided, Forms
<1> QED
  BY <1>1, <1>2

-----------------------------------------------------------------------------
\* Whatever is created, deleted, changed, reverted and destroyed: no entry of the
\* list is left behind by what it is about, and none is made twice.
THEOREM EveryEntryHasAHome == Spec => []MetadataHasHome
<1>1. Inv => MetadataHasHome
  <2> SUFFICES ASSUME Inv PROVE MetadataHasHome
    OBVIOUS
  <2>1. Sound(st.tab) /\ st.mod \subseteq DOMAIN st.tab /\ Once(st.md)
    BY KernelIs DEF Inv, Always, IsKernel
  <2>2. TablesSit
    BY <2>1, SoundSits DEF TablesSit
  <2>3. ASSUME pc \notin Ended, NEW i \in DOMAIN st.md
        PROVE  \/ st.md[i].name \in Providers(st.tab)
               \/ \E j \in DOMAIN fstab : fstab[j].name = st.md[i].name
    <3>1. st.md[i] \in Range(st.md)
      BY DEF Range
    <3>2. EntryOK(st.md[i], st.tab)
      BY <2>3, <3>1 DEF Inv, Editing, Good, Committing, Writing
    <3> QED
      BY <3>2 DEF EntryOK, Labels, Providers, DiskNames
  <2> QED
    BY <2>1, <2>2, <2>3 DEF MetadataHasHome, Once
<1> QED
  BY <1>1, AlwaysInv, PTL

\* However the dialogs of file system options are left, newfs is run on partitions
\* that will exist, and they have the type it makes a file system for unless the
\* last of those dialogs was cancelled for the partition.
THEOREM FormatsWhatItSays == Spec => []NewfsMatchesType
<1>1. Inv => NewfsMatchesType
  <2> SUFFICES ASSUME Inv, pc \notin Ended, NEW i \in DOMAIN st.md, st.md[i].newfs # ""
               PROVE  /\ st.md[i].name \in Partitions(st.tab)
                      /\ \/ Part(st.tab, st.md[i].name).type = st.md[i].newfs
                         \/ st.md[i].cancelled
    BY DEF NewfsMatchesType
  <2>1. st.md[i] \in Range(st.md)
    BY DEF Range
  <2>2. EntryOK(st.md[i], st.tab)
    BY <2>1 DEF Inv, Editing, Good, Committing, Writing
  <2> QED
    BY <2>2 DEF EntryOK
<1> QED
  BY <1>1, AlwaysInv, PTL

\* When everything pending has been written, / is on a disk.
THEOREM RootIsOnADisk == Spec => []RootCommitted
<1>1. Inv => RootCommitted
  <2> SUFFICES ASSUME Inv, pc = "done", st.mod = {}
               PROVE  \E i \in DOMAIN fstab :
                        fstab[i].mount = "/" /\ fstab[i].name \in Partitions(st.disk) \cup {Label}
    BY DEF RootCommitted
  <2>1. /\ Written(Kernel(st))
        /\ \E i \in DOMAIN fstab :
             fstab[i].mount = "/" /\ fstab[i].name \in Partitions(st.tab) \cup {Label}
    BY DEF Inv, Finished
  <2>2. \A g \in DOMAIN st.tab : g \in DOMAIN st.disk /\ st.tab[g] = st.disk[g]
    BY <2>1, KernelIs DEF Written
  <2>3. Partitions(st.tab) \subseteq Partitions(st.disk)
    BY <2>2 DEF Partitions, PartsOf
  <2> QED
    BY <2>1, <2>3
<1> QED
  BY <1>1, AlwaysInv, PTL

\* Whatever fails and whatever shows up in new partitions, no boot code that is due
\* is forgotten: when the session ends well, each has been written, or writing it
\* failed before the user's eyes, or a destroyed table was in its way.
THEOREM BootCodeIsInstalled == Spec => []CodeInstalled
<1>1. Inv => CodeInstalled
  BY DEF Inv, Finished, CodeInstalled
<1> QED
  BY <1>1, AlwaysInv, PTL

\* Whatever was added and deleted, what gpart_max_free() offers is room on the
\* disk or in the slice that no partition has, from a multiple of the stripe on.
THEOREM OffersFreeSpace == Spec => []FreeRegionIsFree
<1>1. Inv => FreeRegionIsFree
  <2> SUFFICES ASSUME Inv, pc \notin Ended, NEW g \in DOMAIN st.tab, MaxFree(st.tab, g).size > 0
               PROVE  /\ FreeIn(st.tab, g, MaxFree(st.tab, g).start, MaxFree(st.tab, g).size)
                      /\ MaxFree(st.tab, g).start % Stripe = 0
    BY DEF FreeRegionIsFree
  <2>1. Laid(st.tab)
    BY DEF Inv, Editing, Good, Committing, Writing
  <2>2. Sound(st.tab)
    BY KernelIs DEF Inv, Always, IsKernel
  <2> QED
    BY <2>1, <2>2, RoomIs
<1> QED
  BY <1>1, AlwaysInv, PTL

\* Where disks and what the guided mode leaves for a root partition are larger
\* than a boot partition, nothing that it adds to a bootable disk without asking
\* is refused, which would ask the kernel for the same thing for ever: in any
\* state of the disks, on any machine, whatever was done in the menu before.
THEOREM WizardSucceeds == HasRoom => (Spec => []WizardFits)
<1> SUFFICES ASSUME HasRoom PROVE Spec => []WizardFits
  OBVIOUS
<1>1. Init => GuidedInv
  BY InitGuided
<1>2. Inv /\ GuidedInv /\ [Next]_vars => GuidedInv'
  BY GuidedStep
<1>3. GuidedInv => WizardFits
  BY DEF GuidedInv, Guided, Granted, Forms, WizardFits
<1> QED
  BY <1>1, <1>2, <1>3, AlwaysInv, PTL DEF Spec

\* The editor implements PendingEdits: what is shown may change at any time, a
\* disk only once the changes are being written, and a session given up before
\* leaves nothing pending.
THEOREM PromiseIsKept == Spec => KeepsPromise
<1>1. Init => Promise!Init
  <2> SUFFICES ASSUME Init PROVE Promise!Init
    OBVIOUS
  <2>1. st.tab = st.disk
    BY DEF Init
  <2>2. Editing
    BY InitInv DEF Init, Editing, Ended
  <2> QED
    BY <2>1, <2>2 DEF Promise!Init, Phase, Editing, Ended
<1>2. Inv /\ [Next]_vars => [Promise!Next]_(Promise!vars)
  <2> SUFFICES ASSUME Inv, [Next]_vars PROVE [Promise!Next]_(Promise!vars)
    OBVIOUS
  <2>1. CASE Editing /\ Promised
    <3>1. Phase = "edit"
      BY <2>1 DEF Phase, Editing, Ended
    <3>2. st'.disk = st.disk
      BY <2>1 DEF Promised
    <3>3. CASE Editing'
      <4>1. Phase' = "edit"
        BY <3>3 DEF Phase, Editing, Ended
      <4> QED
        BY <3>1, <3>2, <4>1 DEF Promise!Next, Promise!Edit, Promise!vars
    <3>4. CASE pc' \in {"quit", "interrupted"}
      <4>1. Phase' = "over" /\ st'.tab = st.disk
        BY <2>1, <3>4 DEF Phase, Promised
      <4> QED
        BY <3>1, <3>2, <4>1 DEF Promise!Next, Promise!GiveUp
    <3>5. CASE pc' \in {"failed", "crashed"}
      <4>1. Phase' = "lost"
        BY <3>5 DEF Phase
      <4> QED
        BY <3>1, <3>2, <4>1 DEF Promise!Next, Promise!Lose
    <3>6. CASE pc' = "commit"
      <4>1. Phase' = "write" /\ st'.tab = st.tab
        BY <2>1, <3>6 DEF Phase, Promised
      <4> QED
        BY <3>1, <3>2, <4>1 DEF Promise!Next, Promise!Write
    <3> QED
      BY <2>1, <3>3, <3>4, <3>5, <3>6 DEF Promised, Editing, Ended
  <2>2. CASE pc = "commit" /\ pc' \in {"commit", "done", "failed", "interrupted"}
    <3>1. Phase = "write" /\ Phase' \in {"write", "over", "lost"}
      BY <2>2 DEF Phase
    <3> QED
      BY <3>1 DEF Promise!Next, Promise!Written
  <2>3. CASE UNCHANGED vars
    BY <2>3 DEF vars, Phase, Promise!vars
  <2>4. CASE Dialog
    BY <2>1, <2>4, DialogEdits, DialogInv
  <2>5. CASE Program
    <3>1. CASE CommitGeom \/ Format \/ WriteFstab
      <4>1. pc = "commit" /\ pc' \in {"commit", "done", "failed"}
        BY <3>1 DEF CommitGeom, WriteCodes, Format, WriteFstab
      <4> QED
        BY <2>2, <4>1
    <3>2. CASE ~(CommitGeom \/ Format \/ WriteFstab)
      BY <2>1, <2>5, <3>2, ProgramEdits, ProgramInv
    <3> QED
      BY <3>1, <3>2
  <2>6. CASE Interrupt
    <3>1. Editing \/ pc = "commit"
      BY <2>6 DEF Interrupt, Editing
    <3>2. pc' = "interrupted"
      BY <2>6 DEF Interrupt
    <3> QED
      BY <2>1, <2>2, <2>6, <3>1, <3>2, InterruptInv
  <2> QED
    BY <2>3, <2>4, <2>5, <2>6 DEF Next, Exited
<1> QED
  BY <1>1, <1>2, AlwaysInv, PTL DEF Spec, KeepsPromise, Promise!Spec
====
