------------------------- MODULE PageTables_proofs --------------------------
(***************************************************************************)
(* What the functions of kern/pmap.c and kern/env.c in module PageTables   *)
(* do to a memory, for any number of pages, environments and page table    *)
(* entries.  The lemmas "...Is" say which fields a function writes and     *)
(* with what, the lemmas "Good..." that it keeps reference counts, free    *)
(* list and page tables in step.  In the middle of a function they are     *)
(* not: Good has a second argument, the references a frame counts beyond   *)
(* the places that hold it (page_insert takes one before it writes the     *)
(* entry), and a third, the pages taken off the free list that nothing     *)
(* refers to yet.  Between calls the third is empty, and the second only   *)
(* counts references from outside the model.                               *)
(*                                                                         *)
(* A record that a function changes is handed to a lemma as a name of its  *)
(* own (NEW n, n = PageRemove(...)) with the change of a field as Put, so  *)
(* that the provers meet no record update.                                 *)
(***************************************************************************)
EXTENDS PageTables, FiniteSetTheorems, SequenceTheorems, WellFoundedInduction, TLAPS

-----------------------------------------------------------------------------
\* Function f with v at x.
Put(f, x, v) == [f EXCEPT ![x] = v]

(* The shape of a memory, and writing one of its fields.                    *)

FreeLists == Seq(Frames)
RefCounts == [Frames -> 0..RefMod-1]
DirSets == [Envs -> Frames \cup {NULL}]
PdeSets == [Envs \X Pdxs -> Frames \cup {NULL}]
PteSets == [Envs \X Vas -> Ptes]

Shape ==
    [free : FreeLists, ref : RefCounts, dir : DirSets, pde : PdeSets, pte : PteSets,
     panic : BOOLEAN]

WithFree(m, v) == [m EXCEPT !.free = v]
WithRef(m, v) == [m EXCEPT !.ref = v]
WithDir(m, v) == [m EXCEPT !.dir = v]
WithPde(m, v) == [m EXCEPT !.pde = v]
WithPte(m, v) == [m EXCEPT !.pte = v]
Panicked(m) == [m EXCEPT !.panic = TRUE]

\* Only page_free_list.
LEMMA WriteFree ==
    ASSUME NEW m \in Shape, NEW v, NEW n, n = WithFree(m, v)
    PROVE  /\ n.free = v /\ n.ref = m.ref /\ n.dir = m.dir
           /\ n.pde = m.pde /\ n.pte = m.pte /\ n.panic = m.panic
           /\ v \in FreeLists => n \in Shape
<1> DEFINE old == [free |-> m.free, ref |-> m.ref,
                   dir |-> m.dir, pde |-> m.pde, pte |-> m.pte, panic |-> m.panic]
           new == [free |-> v, ref |-> m.ref,
                   dir |-> m.dir, pde |-> m.pde, pte |-> m.pte, panic |-> m.panic]
<1>1. m = old
  BY DEF Shape
<1>2. [old EXCEPT !.free = v] = new
  OBVIOUS
<1> HIDE DEF old
<1>3. n = new
  BY <1>1, <1>2, Zenon DEF WithFree
<1> QED BY <1>3 DEF Shape

\* Only the reference counts.
LEMMA WriteRef ==
    ASSUME NEW m \in Shape, NEW v, NEW n, n = WithRef(m, v)
    PROVE  /\ n.ref = v /\ n.free = m.free /\ n.dir = m.dir
           /\ n.pde = m.pde /\ n.pte = m.pte /\ n.panic = m.panic
           /\ v \in RefCounts => n \in Shape
<1> DEFINE old == [free |-> m.free, ref |-> m.ref,
                   dir |-> m.dir, pde |-> m.pde, pte |-> m.pte, panic |-> m.panic]
           new == [free |-> m.free, ref |-> v,
                   dir |-> m.dir, pde |-> m.pde, pte |-> m.pte, panic |-> m.panic]
<1>1. m = old
  BY DEF Shape
<1>2. [old EXCEPT !.ref = v] = new
  OBVIOUS
<1> HIDE DEF old
<1>3. n = new
  BY <1>1, <1>2, Zenon DEF WithRef
<1> QED BY <1>3 DEF Shape

\* Only the page directories.
LEMMA WriteDir ==
    ASSUME NEW m \in Shape, NEW v, NEW n, n = WithDir(m, v)
    PROVE  /\ n.dir = v /\ n.free = m.free /\ n.ref = m.ref
           /\ n.pde = m.pde /\ n.pte = m.pte /\ n.panic = m.panic
           /\ v \in DirSets => n \in Shape
<1> DEFINE old == [free |-> m.free, ref |-> m.ref,
                   dir |-> m.dir, pde |-> m.pde, pte |-> m.pte, panic |-> m.panic]
           new == [free |-> m.free, ref |-> m.ref,
                   dir |-> v, pde |-> m.pde, pte |-> m.pte, panic |-> m.panic]
<1>1. m = old
  BY DEF Shape
<1>2. [old EXCEPT !.dir = v] = new
  OBVIOUS
<1> HIDE DEF old
<1>3. n = new
  BY <1>1, <1>2, Zenon DEF WithDir
<1> QED BY <1>3 DEF Shape

\* Only the page tables.
LEMMA WritePde ==
    ASSUME NEW m \in Shape, NEW v, NEW n, n = WithPde(m, v)
    PROVE  /\ n.pde = v /\ n.free = m.free /\ n.ref = m.ref
           /\ n.dir = m.dir /\ n.pte = m.pte /\ n.panic = m.panic
           /\ v \in PdeSets => n \in Shape
<1> DEFINE old == [free |-> m.free, ref |-> m.ref,
                   dir |-> m.dir, pde |-> m.pde, pte |-> m.pte, panic |-> m.panic]
           new == [free |-> m.free, ref |-> m.ref,
                   dir |-> m.dir, pde |-> v, pte |-> m.pte, panic |-> m.panic]
<1>1. m = old
  BY DEF Shape
<1>2. [old EXCEPT !.pde = v] = new
  OBVIOUS
<1> HIDE DEF old
<1>3. n = new
  BY <1>1, <1>2, Zenon DEF WithPde
<1> QED BY <1>3 DEF Shape

\* Only the page table entries.
LEMMA WritePte ==
    ASSUME NEW m \in Shape, NEW v, NEW n, n = WithPte(m, v)
    PROVE  /\ n.pte = v /\ n.free = m.free /\ n.ref = m.ref
           /\ n.dir = m.dir /\ n.pde = m.pde /\ n.panic = m.panic
           /\ v \in PteSets => n \in Shape
<1> DEFINE old == [free |-> m.free, ref |-> m.ref,
                   dir |-> m.dir, pde |-> m.pde, pte |-> m.pte, panic |-> m.panic]
           new == [free |-> m.free, ref |-> m.ref,
                   dir |-> m.dir, pde |-> m.pde, pte |-> v, panic |-> m.panic]
<1>1. m = old
  BY DEF Shape
<1>2. [old EXCEPT !.pte = v] = new
  OBVIOUS
<1> HIDE DEF old
<1>3. n = new
  BY <1>1, <1>2, Zenon DEF WithPte
<1> QED BY <1>3 DEF Shape

\* Only the mark of a panic.
LEMMA WritePanic ==
    ASSUME NEW m \in Shape, NEW n, n = Panicked(m)
    PROVE  /\ n.panic = TRUE /\ n.free = m.free /\ n.ref = m.ref
           /\ n.dir = m.dir /\ n.pde = m.pde /\ n.pte = m.pte
           /\ n \in Shape
<1>0. PICK v : v = TRUE
  OBVIOUS
<1> DEFINE old == [free |-> m.free, ref |-> m.ref,
                   dir |-> m.dir, pde |-> m.pde, pte |-> m.pte, panic |-> m.panic]
           new == [free |-> m.free, ref |-> m.ref,
                   dir |-> m.dir, pde |-> m.pde, pte |-> m.pte, panic |-> v]
<1>1. m = old
  BY DEF Shape
<1>2. [old EXCEPT !.panic = v] = new
  OBVIOUS
<1> HIDE DEF old
<1>3. n = new
  BY <1>0, <1>1, <1>2, Zenon DEF Panicked
<1> QED BY <1>0, <1>3 DEF Shape

-----------------------------------------------------------------------------
(* What each function writes, and that it leaves the rest alone.            *)

\* The page that page_alloc gives.
Top(m) == Head(m.free)
HasFree(m) == m.free # <<>>

\* Memories m and n have the same entries, but for those of e.
OnlyAt(m, n, e) ==
    \A f \in Envs, va \in Vas : f # e => n.pte[<<f, va>>] = m.pte[<<f, va>>]

\* Counting down or up, modulo the width of pp_ref.
LEMMA SetRefIs ==
    ASSUME NEW m \in Shape, NEW p \in Frames, NEW k \in Int, NEW n, n = SetRef(m, p, k)
    PROVE  /\ n \in Shape /\ n.ref = Put(m.ref, p, k % RefMod)
           /\ n.free = m.free /\ n.dir = m.dir /\ n.pde = m.pde /\ n.pte = m.pte
           /\ n.panic = m.panic
<1> DEFINE v == Put(m.ref, p, k % RefMod)
<1>1. v \in RefCounts
  BY PageTablesAssumption DEF Shape, RefCounts, Put
<1>2. n = WithRef(m, v)
  BY Zenon DEF SetRef, WithRef, Put
<1> HIDE DEF v
<1>3. /\ n \in Shape /\ n.ref = v
      /\ n.free = m.free /\ n.dir = m.dir /\ n.pde = m.pde /\ n.pte = m.pte
      /\ n.panic = m.panic
  BY <1>1, <1>2, WriteRef
<1> QED BY <1>3 DEF v

\* A page directory entry.
LEMMA SetPdeIs ==
    ASSUME NEW m \in Shape, NEW e \in Envs, NEW i \in Pdxs, NEW p \in Frames \cup {NULL},
           NEW n, n = SetPde(m, e, i, p)
    PROVE  /\ n \in Shape /\ n.pde = Put(m.pde, <<e, i>>, p)
           /\ n.free = m.free /\ n.ref = m.ref /\ n.dir = m.dir /\ n.pte = m.pte
           /\ n.panic = m.panic
<1> DEFINE v == Put(m.pde, <<e, i>>, p)
<1>1. v \in PdeSets
  BY DEF Shape, PdeSets, Put
<1>2. n = WithPde(m, v)
  BY Zenon DEF SetPde, WithPde, Put
<1> HIDE DEF v
<1>3. /\ n \in Shape /\ n.pde = v
      /\ n.free = m.free /\ n.ref = m.ref /\ n.dir = m.dir /\ n.pte = m.pte
      /\ n.panic = m.panic
  BY <1>1, <1>2, WritePde
<1> QED BY <1>3 DEF v

\* A page table entry.
LEMMA SetPteIs ==
    ASSUME NEW m \in Shape, NEW e \in Envs, NEW va \in Vas, NEW entry \in Ptes,
           NEW n, n = SetPte(m, e, va, entry)
    PROVE  /\ n \in Shape /\ n.pte = Put(m.pte, <<e, va>>, entry)
           /\ n.free = m.free /\ n.ref = m.ref /\ n.dir = m.dir /\ n.pde = m.pde
           /\ n.panic = m.panic
<1> DEFINE v == Put(m.pte, <<e, va>>, entry)
<1>1. v \in PteSets
  BY DEF Shape, PteSets, Put
<1>2. n = WithPte(m, v)
  BY Zenon DEF SetPte, WithPte, Put
<1> HIDE DEF v
<1>3. /\ n \in Shape /\ n.pte = v
      /\ n.free = m.free /\ n.ref = m.ref /\ n.dir = m.dir /\ n.pde = m.pde
      /\ n.panic = m.panic
  BY <1>1, <1>2, WritePte
<1> QED BY <1>3 DEF v

\* A page directory.
LEMMA SetDirIs ==
    ASSUME NEW m \in Shape, NEW e \in Envs, NEW p \in Frames \cup {NULL},
           NEW n, n = SetDir(m, e, p)
    PROVE  /\ n \in Shape /\ n.dir = Put(m.dir, e, p)
           /\ n.free = m.free /\ n.ref = m.ref /\ n.pde = m.pde /\ n.pte = m.pte
           /\ n.panic = m.panic
<1> DEFINE v == Put(m.dir, e, p)
<1>1. v \in DirSets
  BY DEF Shape, DirSets, Put
<1>2. n = WithDir(m, v)
  BY Zenon DEF SetDir, WithDir, Put
<1> HIDE DEF v
<1>3. /\ n \in Shape /\ n.dir = v
      /\ n.free = m.free /\ n.ref = m.ref /\ n.pde = m.pde /\ n.pte = m.pte
      /\ n.panic = m.panic
  BY <1>1, <1>2, WriteDir
<1> QED BY <1>3 DEF v

\* page_alloc, with a page to give.
LEMMA PageAllocIs ==
    ASSUME NEW m \in Shape, m.free # <<>>, NEW n, n = PageAlloc(m)
    PROVE  /\ n \in Shape /\ n.free = Tail(m.free) /\ Head(m.free) \in Frames
           /\ n.ref = m.ref /\ n.dir = m.dir /\ n.pde = m.pde /\ n.pte = m.pte
           /\ n.panic = m.panic
<1>1. m.free \in Seq(Frames)
  BY DEF Shape, FreeLists
<1>2. Tail(m.free) \in Seq(Frames) /\ Head(m.free) \in Frames
  BY <1>1, HeadTailProperties
<1>3. n = WithFree(m, Tail(m.free)) /\ Tail(m.free) \in FreeLists
  BY <1>2, Zenon DEF PageAlloc, WithFree, FreeLists
<1> QED BY <1>2, <1>3, WriteFree

\* page_free of a page that nothing refers to and that is not on the list.
LEMMA PageFreeIs ==
    ASSUME NEW m \in Shape, NEW p \in Frames, NEW n, n = PageFree(m, p)
    PROVE  /\ n \in Shape /\ n.dir = m.dir /\ n.pde = m.pde /\ n.pte = m.pte /\ n.ref = m.ref
           /\ Len(n.free) >= Len(m.free)
           /\ m.ref[p] = 0 /\ (\A i \in 1..Len(m.free) : m.free[i] # p)
                => n.free = <<p>> \o m.free /\ n.panic = m.panic
<1>1. m.free \in Seq(Frames)
  BY DEF Shape, FreeLists
<1> DEFINE bad == m.ref[p] # 0 \/ \E i \in 1..(Len(m.free) - 1) : m.free[i] = p
<1>2. CASE bad
  <2>1. n = Panicked(m)
    BY <1>2, Zenon DEF PageFree, Panicked
  <2>2. /\ n \in Shape /\ n.dir = m.dir /\ n.pde = m.pde /\ n.pte = m.pte /\ n.ref = m.ref
        /\ n.free = m.free
    BY <2>1, WritePanic
  <2>3. ~(m.ref[p] = 0 /\ \A i \in 1..Len(m.free) : m.free[i] # p)
    BY <1>1, <1>2
  <2>4. Len(n.free) >= Len(m.free)
    BY <1>1, <2>2
  <2> QED BY <2>2, <2>3, <2>4
<1>3. CASE ~bad
  <2> DEFINE v == <<p>> \o m.free
  <2>1. n = WithFree(m, v)
    BY <1>3, Zenon DEF PageFree, WithFree
  <2>2. v \in FreeLists
    BY <1>1 DEF FreeLists
  <2> HIDE DEF v
  <2>3. /\ n \in Shape /\ n.dir = m.dir /\ n.pde = m.pde /\ n.pte = m.pte /\ n.ref = m.ref
        /\ n.free = v /\ n.panic = m.panic
    BY <2>1, <2>2, WriteFree
  <2>4. Len(v) >= Len(m.free)
    BY <1>1 DEF v
  <2> QED BY <2>3, <2>4 DEF v
<1> QED BY <1>2, <1>3

\* page_decref: the page goes to the free list when nothing refers to it.
LEMMA PageDecrefIs ==
    ASSUME NEW m \in Shape, NEW p \in Frames, NEW n, n = PageDecref(m, p)
    PROVE  /\ n \in Shape /\ n.dir = m.dir /\ n.pde = m.pde /\ n.pte = m.pte
           /\ n.ref = Put(m.ref, p, (m.ref[p] - 1) % RefMod)
           /\ Len(n.free) >= Len(m.free)
           /\ n.ref[p] # 0 => n.free = m.free /\ n.panic = m.panic
           /\ n.ref[p] = 0 /\ (\A i \in 1..Len(m.free) : m.free[i] # p)
                => n.free = <<p>> \o m.free /\ n.panic = m.panic
<1>1. m.ref[p] \in Int
  BY PageTablesAssumption DEF Shape, RefCounts
<1>2. PICK m1 : m1 = SetRef(m, p, m.ref[p] - 1)
  OBVIOUS
<1>3. /\ m1 \in Shape /\ m1.ref = Put(m.ref, p, (m.ref[p] - 1) % RefMod)
      /\ m1.free = m.free /\ m1.dir = m.dir /\ m1.pde = m.pde /\ m1.pte = m.pte
      /\ m1.panic = m.panic
  BY <1>1, <1>2, SetRefIs
<1>4. n = IF m1.ref[p] = 0 THEN PageFree(m1, p) ELSE m1
  BY <1>2 DEF PageDecref
<1>5. CASE m1.ref[p] # 0
  <2>1. Len(m1.free) >= Len(m.free)
    BY <1>3 DEF Shape, FreeLists
  <2> QED BY <1>3, <1>4, <1>5, <2>1
<1>6. CASE m1.ref[p] = 0
  <2>1. n = PageFree(m1, p) /\ m1 \in Shape
    BY <1>3, <1>4, <1>6
  <2>2. /\ n \in Shape /\ n.dir = m1.dir /\ n.pde = m1.pde /\ n.pte = m1.pte /\ n.ref = m1.ref
        /\ Len(n.free) >= Len(m1.free)
        /\ m1.ref[p] = 0 /\ (\A i \in 1..Len(m1.free) : m1.free[i] # p)
             => n.free = <<p>> \o m1.free /\ n.panic = m1.panic
    BY <2>1, PageFreeIs
  <2> QED BY <1>3, <1>6, <2>2
<1> QED BY <1>5, <1>6
\* The page directory entry of an address below UTOP.
LEMMA PdxType ==
    ASSUME NEW va \in Vas PROVE PDX(va) \in Pdxs
<1>1. NPte \in Nat /\ NPde \in Nat /\ va \in Nat /\ va < NPde * NPte
  BY PageTablesAssumption DEF Vas
<1>2. NPte > 0
  BY <1>1
<1>3. va \div NPte \in Nat /\ NPte * (va \div NPte) <= va
  BY <1>1, <1>2
<1>4. va \div NPte < NPde
  BY <1>1, <1>2, <1>3
<1> QED BY <1>1, <1>3, <1>4 DEF PDX, Pdxs

\* Entries hold frames.
LEMMA EntryPage ==
    ASSUME NEW entry \in Ptes
    PROVE  entry.page \in Frames \cup {NULL} /\ (entry.page = NULL <=> entry = Absent)
BY PageTablesAssumption DEF Ptes, Absent

\* What page_insert stores.
LEMMA EntryType ==
    ASSUME NEW p \in Frames, NEW perm, perm \subseteq Bits
    PROVE  Entry(p, perm) \in Ptes /\ Entry(p, perm).page = p /\ Entry(p, perm).perm = perm \cup {"P"}
<1>1. perm \cup {"P"} \in {b \in SUBSET Bits : "P" \in b}
  BY DEF Bits
<1> QED BY <1>1 DEF Entry, Ptes

\* A reference more.
LEMMA AddRefIs ==
    ASSUME NEW m \in Shape, NEW p \in Frames, NEW n, n = AddRef(m, p)
    PROVE  /\ n \in Shape /\ n.free = m.free /\ n.dir = m.dir /\ n.pde = m.pde /\ n.pte = m.pte
           /\ n.panic = m.panic
<1>1. PICK k \in Int : k = m.ref[p] + 1
  BY PageTablesAssumption DEF Shape, RefCounts
<1>2. n = SetRef(m, p, k)
  BY <1>1 DEF AddRef
<1>3. /\ n \in Shape /\ n.ref = Put(m.ref, p, k % RefMod)
      /\ n.free = m.free /\ n.dir = m.dir /\ n.pde = m.pde /\ n.pte = m.pte
      /\ n.panic = m.panic
  BY <1>2, SetRefIs
<1> QED BY <1>3

\* pgdir_walk takes at most one page.
LEMMA PgdirWalkIs ==
    ASSUME NEW m \in Shape, NEW e \in Envs, NEW va \in Vas, ~WalkFails(m, e, va),
           NEW n, n = PgdirWalk(m, e, va)
    PROVE  /\ n \in Shape /\ n.dir = m.dir /\ n.pte = m.pte /\ n.panic = m.panic
           /\ Len(n.free) >= Len(m.free) - 1
<1>1. CASE m.pde[<<e, PDX(va)>>] # NULL
  <2>1. n = m
    BY <1>1 DEF PgdirWalk
  <2>2. Len(m.free) \in Nat
    BY DEF Shape, FreeLists
  <2> QED BY <2>1, <2>2
<1>2. CASE m.pde[<<e, PDX(va)>>] = NULL
  <2>1. m.free # <<>>
    BY <1>2 DEF WalkFails
  <2>2. PICK t : t = Head(m.free)
    OBVIOUS
  <2>3. PICK m1 : m1 = PageAlloc(m)
    OBVIOUS
  <2>4. PICK m2 : m2 = AddRef(m1, t)
    OBVIOUS
  <2>5. n = SetPde(m2, e, PDX(va), t)
    BY <1>2, <2>2, <2>3, <2>4 DEF PgdirWalk
  <2>6. /\ m1 \in Shape /\ m1.free = Tail(m.free) /\ t \in Frames
        /\ m1.ref = m.ref /\ m1.dir = m.dir /\ m1.pde = m.pde /\ m1.pte = m.pte
        /\ m1.panic = m.panic
    BY <2>1, <2>2, <2>3, PageAllocIs
  <2>7. /\ m2 \in Shape /\ m2.free = m1.free /\ m2.dir = m.dir /\ m2.pte = m.pte
        /\ m2.panic = m.panic
    BY <2>4, <2>6, AddRefIs
  <2>8. PDX(va) \in Pdxs /\ t \in Frames \cup {NULL}
    BY <2>6, PdxType
  <2>9. /\ n \in Shape /\ n.pde = Put(m2.pde, <<e, PDX(va)>>, t)
        /\ n.free = m2.free /\ n.ref = m2.ref /\ n.dir = m2.dir /\ n.pte = m2.pte
        /\ n.panic = m2.panic
    BY <2>5, <2>7, <2>8, SetPdeIs
  <2>10. Len(Tail(m.free)) >= Len(m.free) - 1
    <3>1. m.free \in Seq(Frames)
      BY DEF Shape, FreeLists
    <3> QED BY <2>1, <3>1, HeadTailProperties
  <2> QED BY <2>6, <2>7, <2>9, <2>10
<1> QED BY <1>1, <1>2

\* page_remove erases the one entry.
LEMMA PageRemoveIs ==
    ASSUME NEW m \in Shape, NEW e \in Envs, NEW va \in Vas, NEW n, n = PageRemove(m, e, va)
    PROVE  /\ n \in Shape /\ n.pte = Put(m.pte, <<e, va>>, Absent)
           /\ n.dir = m.dir /\ n.pde = m.pde /\ Len(n.free) >= Len(m.free)
<1>1. PICK p : p = m.pte[<<e, va>>].page
  OBVIOUS
<1>2. m.pte \in [Envs \X Vas -> Ptes] /\ Len(m.free) \in Nat
  BY DEF Shape, PteSets, FreeLists
<1>3. p \in Frames \cup {NULL} /\ (p = NULL <=> m.pte[<<e, va>>] = Absent)
  BY <1>1, <1>2, EntryPage
<1>4. CASE p = NULL
  <2>1. n = m
    BY <1>1, <1>4 DEF PageRemove
  <2>2. m.pte = Put(m.pte, <<e, va>>, Absent)
    BY <1>2, <1>3, <1>4 DEF Put
  <2> QED BY <1>2, <2>1, <2>2
<1>5. CASE p # NULL
  <2>1. PICK m1 : m1 = PageDecref(m, p)
    OBVIOUS
  <2>2. n = SetPte(m1, e, va, Absent) /\ p \in Frames /\ Absent \in Ptes
    BY <1>1, <1>3, <1>5, <2>1 DEF PageRemove, Ptes
  <2>3. /\ m1 \in Shape /\ m1.dir = m.dir /\ m1.pde = m.pde /\ m1.pte = m.pte
        /\ Len(m1.free) >= Len(m.free)
    BY <2>1, <2>2, PageDecrefIs
  <2>4. /\ n \in Shape /\ n.pte = Put(m1.pte, <<e, va>>, Absent)
        /\ n.free = m1.free /\ n.ref = m1.ref /\ n.dir = m1.dir /\ n.pde = m1.pde
        /\ n.panic = m1.panic
    BY <2>2, <2>3, SetPteIs
  <2> QED BY <2>3, <2>4
<1> QED BY <1>4, <1>5

\* page_insert writes the one entry.
LEMMA PageInsertIs ==
    ASSUME NEW m \in Shape, NEW e \in Envs, NEW va \in Vas, NEW p \in Frames,
           NEW perm, perm \subseteq Bits, ~WalkFails(m, e, va),
           NEW n, n = PageInsert(m, e, p, va, perm)
    PROVE  /\ n \in Shape /\ n.pte = Put(m.pte, <<e, va>>, Entry(p, perm))
           /\ n.dir = m.dir /\ Len(n.free) >= Len(m.free) - 1
<1>1. PICK m1 : m1 = PgdirWalk(m, e, va)
  OBVIOUS
<1>2. PICK m2 : m2 = AddRef(m1, p)
  OBVIOUS
<1>3. PICK m3 : m3 = PageRemove(m2, e, va)
  OBVIOUS
<1>4. PICK entry \in Ptes : entry = Entry(p, perm)
  BY EntryType
<1>5. n = SetPte(m3, e, va, entry)
  BY <1>1, <1>2, <1>3, <1>4, PageTablesAssumption, Zenon DEF PageInsert
<1>6. /\ m1 \in Shape /\ m1.dir = m.dir /\ m1.pte = m.pte
      /\ Len(m1.free) >= Len(m.free) - 1
  BY <1>1, PgdirWalkIs
<1>7. m2 \in Shape /\ m2.free = m1.free /\ m2.dir = m1.dir /\ m2.pte = m1.pte
  BY <1>2, <1>6, AddRefIs
<1>8. /\ m3 \in Shape /\ m3.pte = Put(m2.pte, <<e, va>>, Absent)
      /\ m3.dir = m2.dir /\ m3.pde = m2.pde /\ Len(m3.free) >= Len(m2.free)
  BY <1>3, <1>7, PageRemoveIs
<1>9. /\ n \in Shape /\ n.pte = Put(m3.pte, <<e, va>>, entry)
      /\ n.free = m3.free /\ n.ref = m3.ref /\ n.dir = m3.dir /\ n.pde = m3.pde
      /\ n.panic = m3.panic
  BY <1>5, <1>8, SetPteIs
<1>10. m.pte \in [Envs \X Vas -> Ptes] /\ Len(m.free) \in Nat /\ Len(m1.free) \in Nat
       /\ Len(m3.free) \in Nat
  BY <1>6, <1>8 DEF Shape, PteSets, FreeLists
<1>11. n.pte = Put(m.pte, <<e, va>>, entry)
  BY <1>6, <1>7, <1>8, <1>9, <1>10 DEF Put
<1> QED BY <1>4, <1>6, <1>7, <1>8, <1>9, <1>10, <1>11

\* env_setup_vm writes env_pgdir of its environment, and its entries only.
LEMMA EnvSetupVmIs ==
    ASSUME NEW m \in Shape, NEW e \in Envs, HasFree(m), NEW n, n = EnvSetupVm(m, e)
    PROVE  /\ n \in Shape /\ n.dir = Put(m.dir, e, Top(m)) /\ Top(m) \in Frames
           /\ OnlyAt(m, n, e)
           /\ Len(n.free) >= Len(m.free) - 2
<1>1. PICK d : d = Top(m) /\ d = Head(m.free)
  BY DEF Top
<1>2. PICK m1 : m1 = PageAlloc(m)
  OBVIOUS
<1>3. PICK m2 : m2 = AddRef(m1, d)
  OBVIOUS
<1>4. PICK m3 : m3 = SetDir(m2, e, d)
  OBVIOUS
<1>5. n = IF WalkFails(m3, e, VgaUser) THEN Panicked(m3)
          ELSE PageInsert(m3, e, Vga, VgaUser, Bits)
  BY <1>1, <1>2, <1>3, <1>4, Zenon DEF EnvSetupVm, Panicked
<1>6. /\ m1 \in Shape /\ m1.free = Tail(m.free) /\ d \in Frames
      /\ m1.ref = m.ref /\ m1.dir = m.dir /\ m1.pde = m.pde /\ m1.pte = m.pte
      /\ m1.panic = m.panic
  BY <1>1, <1>2, PageAllocIs DEF HasFree
<1>7. m2 \in Shape /\ m2.free = m1.free /\ m2.dir = m1.dir /\ m2.pte = m1.pte
  BY <1>3, <1>6, AddRefIs
<1>8. /\ m3 \in Shape /\ m3.dir = Put(m2.dir, e, d)
      /\ m3.free = m2.free /\ m3.ref = m2.ref /\ m3.pde = m2.pde /\ m3.pte = m2.pte
      /\ m3.panic = m2.panic
  BY <1>4, <1>6, <1>7, SetDirIs
<1>9. Len(m.free) \in Nat /\ Len(Tail(m.free)) = Len(m.free) - 1
  <2>1. m.free \in Seq(Frames)
    BY DEF Shape, FreeLists
  <2> QED BY <2>1, HeadTailProperties DEF HasFree
<1>10. CASE WalkFails(m3, e, VgaUser)
  <2>1. n \in Shape /\ n.free = m3.free /\ n.dir = m3.dir /\ n.pte = m3.pte
    BY <1>5, <1>8, <1>10, WritePanic
  <2> QED BY <1>1, <1>6, <1>7, <1>8, <1>9, <2>1 DEF OnlyAt
<1>11. CASE ~WalkFails(m3, e, VgaUser)
  <2>1. n = PageInsert(m3, e, Vga, VgaUser, Bits) /\ Vga \in Frames /\ VgaUser \in Vas
    BY <1>5, <1>11, PageTablesAssumption DEF Frames
  <2>2. /\ n \in Shape /\ n.pte = Put(m3.pte, <<e, VgaUser>>, Entry(Vga, Bits))
        /\ n.dir = m3.dir /\ Len(n.free) >= Len(m3.free) - 1
    BY <1>8, <1>11, <2>1, PageInsertIs
  <2>3. m.pte \in [Envs \X Vas -> Ptes] /\ n.pte = Put(m.pte, <<e, VgaUser>>, Entry(Vga, Bits))
    BY <1>6, <1>7, <1>8, <2>2 DEF Shape, PteSets
  <2>4. OnlyAt(m, n, e)
    BY <2>3 DEF Put, OnlyAt
  <2>5. Len(n.free) >= Len(m.free) - 2
    <3>1. Len(n.free) \in Nat
      BY <2>2 DEF Shape, FreeLists
    <3> QED BY <1>6, <1>7, <1>8, <1>9, <2>2, <3>1
  <2> QED BY <1>1, <1>6, <1>7, <1>8, <2>2, <2>4, <2>5
<1> QED BY <1>10, <1>11

-----------------------------------------------------------------------------
(* Counting references.                                                     *)

\* The places that refer to frame p.
Refs(m, p) ==
    Cardinality(Mappings(m, p)) + Cardinality(Tables(m, p)) + Cardinality(Directories(m, p))

\* For counting.
One(x, y) == IF x = y THEN 1 ELSE 0

\* There are finitely many places that can refer to a frame.
LEMMA PlacesFinite ==
    ASSUME NEW m, NEW p
    PROVE  /\ IsFiniteSet(Mappings(m, p)) /\ IsFiniteSet(Tables(m, p))
           /\ IsFiniteSet(Directories(m, p))
           /\ Cardinality(Mappings(m, p)) \in Nat /\ Cardinality(Tables(m, p)) \in Nat
           /\ Cardinality(Directories(m, p)) \in Nat
           /\ Cardinality(Mappings(m, p)) = 0 <=> Mappings(m, p) = {}
           /\ Cardinality(Tables(m, p)) = 0 <=> Tables(m, p) = {}
           /\ Cardinality(Directories(m, p)) = 0 <=> Directories(m, p) = {}
           /\ Refs(m, p) \in Nat
<1>1. IsFiniteSet(Vas) /\ IsFiniteSet(Pdxs)
  <2>1. NPde \in Int /\ NPde * NPte - 1 \in Int
    BY PageTablesAssumption
  <2> QED BY <2>1, FS_Interval DEF Vas, Pdxs
<1>2. IsFiniteSet(Envs \X Vas) /\ IsFiniteSet(Envs \X Pdxs) /\ IsFiniteSet(Envs)
  BY <1>1, FS_Product, PageTablesAssumption
<1>3. /\ Mappings(m, p) \in SUBSET (Envs \X Vas) /\ Tables(m, p) \in SUBSET (Envs \X Pdxs)
      /\ Directories(m, p) \in SUBSET Envs
  BY DEF Mappings, Tables, Directories
<1>4. IsFiniteSet(Mappings(m, p)) /\ IsFiniteSet(Tables(m, p)) /\ IsFiniteSet(Directories(m, p))
  BY <1>2, <1>3, FS_Subset
<1> QED BY <1>4, FS_CardinalityType, FS_EmptySet DEF Refs

\* A set that gains or loses one element.
LEMMA CountMoved ==
    ASSUME NEW A, NEW B, NEW x, IsFiniteSet(A), A \ {x} = B \ {x}
    PROVE  Cardinality(B) = Cardinality(A) - (IF x \in A THEN 1 ELSE 0) + (IF x \in B THEN 1 ELSE 0)
<1>1. Cardinality(A) \in Nat
  BY FS_CardinalityType
<1>2. CASE x \in A /\ x \notin B
  <2>1. B = A \ {x}
    BY <1>2
  <2> QED BY <1>1, <1>2, <2>1, FS_RemoveElement DEF One
<1>3. CASE x \notin A /\ x \in B
  <2>1. B = A \cup {x}
    BY <1>3
  <2> QED BY SMTT(30), <1>1, <1>3, <2>1, FS_AddElement DEF One
<1>4. CASE x \in A <=> x \in B
  <2>1. B = A
    BY <1>4
  <2> QED BY <1>1, <1>4, <2>1 DEF One
<1> QED BY <1>2, <1>3, <1>4

\* Writing a page table entry.
LEMMA MappingsMoved ==
    ASSUME NEW m \in Shape, NEW n \in Shape, NEW x \in Envs \X Vas, NEW entry \in Ptes,
           n.pte = Put(m.pte, x, entry), NEW p
    PROVE  /\ Cardinality(Mappings(n, p)) = Cardinality(Mappings(m, p))
                   - One(p, m.pte[x].page) + One(p, entry.page)
           /\ m.pte[x].page # p /\ entry.page # p => Mappings(n, p) = Mappings(m, p)
<1>1. m.pte \in [Envs \X Vas -> Ptes]
  BY DEF Shape, PteSets
<1>2. /\ x \in Mappings(m, p) <=> m.pte[x].page = p
      /\ x \in Mappings(n, p) <=> entry.page = p
  BY <1>1 DEF Mappings, Put
<1>3. Mappings(m, p) \ {x} = Mappings(n, p) \ {x}
  BY <1>1 DEF Mappings, Put
<1>4. Cardinality(Mappings(n, p)) = Cardinality(Mappings(m, p))
                   - (IF x \in Mappings(m, p) THEN 1 ELSE 0) + (IF x \in Mappings(n, p) THEN 1 ELSE 0)
  BY <1>3, PlacesFinite, CountMoved
<1> QED BY <1>2, <1>3, <1>4 DEF One

\* Writing a page directory entry.
LEMMA TablesMoved ==
    ASSUME NEW m \in Shape, NEW n \in Shape, NEW x \in Envs \X Pdxs, NEW q,
           n.pde = Put(m.pde, x, q), NEW p
    PROVE  /\ Cardinality(Tables(n, p)) = Cardinality(Tables(m, p))
                   - One(p, m.pde[x]) + One(p, q)
           /\ m.pde[x] # p /\ q # p => Tables(n, p) = Tables(m, p)
<1>1. m.pde \in [Envs \X Pdxs -> Frames \cup {NULL}]
  BY DEF Shape, PdeSets
<1>2. /\ x \in Tables(m, p) <=> m.pde[x] = p
      /\ x \in Tables(n, p) <=> q = p
  BY <1>1 DEF Tables, Put
<1>3. Tables(m, p) \ {x} = Tables(n, p) \ {x}
  BY <1>1 DEF Tables, Put
<1>4. Cardinality(Tables(n, p)) = Cardinality(Tables(m, p))
                   - (IF x \in Tables(m, p) THEN 1 ELSE 0) + (IF x \in Tables(n, p) THEN 1 ELSE 0)
  BY <1>3, PlacesFinite, CountMoved
<1> QED BY <1>2, <1>3, <1>4 DEF One

\* Writing a page directory.
LEMMA DirectoriesMoved ==
    ASSUME NEW m \in Shape, NEW n \in Shape, NEW e \in Envs, NEW q,
           n.dir = Put(m.dir, e, q), NEW p
    PROVE  /\ Cardinality(Directories(n, p)) = Cardinality(Directories(m, p))
                   - One(p, m.dir[e]) + One(p, q)
           /\ m.dir[e] # p /\ q # p => Directories(n, p) = Directories(m, p)
<1>1. m.dir \in [Envs -> Frames \cup {NULL}]
  BY DEF Shape, DirSets
<1>2. /\ e \in Directories(m, p) <=> m.dir[e] = p
      /\ e \in Directories(n, p) <=> q = p
  BY <1>1 DEF Directories, Put
<1>3. Directories(m, p) \ {e} = Directories(n, p) \ {e}
  BY <1>1 DEF Directories, Put
<1>4. Cardinality(Directories(n, p)) = Cardinality(Directories(m, p))
                   - (IF e \in Directories(m, p) THEN 1 ELSE 0)
                   + (IF e \in Directories(n, p) THEN 1 ELSE 0)
  BY <1>3, PlacesFinite, CountMoved
<1> QED BY <1>2, <1>3, <1>4 DEF One
-----------------------------------------------------------------------------
(* The state of the page allocator in the middle of a call.                 *)

Listed(fl, p) == \E i \in 1..Len(fl) : fl[i] = p
NoRepeat(fl) == \A i, j \in 1..Len(fl) : fl[i] = fl[j] => i = j

\* The references to p that its count stands for: the stored ones, and held[p]
\* that the call has counted and not stored yet, or dropped and not erased.
Count(m, held, p) == Refs(m, p) + held[p]

CountsExact(m, held) ==
    \A p \in Frames : /\ Count(m, held, p) >= 0
                      /\ m.ref[p] = Count(m, held, p) + One(p, Vga)

\* The free list, but for the pages in `loose', which have been taken off it
\* and not used yet.
FreeExact(m, held, loose) ==
    /\ NoRepeat(m.free)
    /\ \A p \in Pages : Listed(m.free, p) <=> Count(m, held, p) = 0 /\ p \notin loose
    /\ \A p \in loose : Count(m, held, p) = 0

\* A page table or directory is in one place, and no program can map it.
Separate(m) ==
    \A p \in Pages :
        Tables(m, p) # {} \/ Directories(m, p) # {} =>
            /\ Mappings(m, p) = {}
            /\ Cardinality(Tables(m, p)) + Cardinality(Directories(m, p)) = 1

\* Only pages are allocated: the VGA frame is never one.
OnlyPages(m) ==
    /\ m.free \in Seq(Pages)
    /\ m.dir \in [Envs -> Pages \cup {NULL}]
    /\ m.pde \in [Envs \X Pdxs -> Pages \cup {NULL}]

Good(m, held, loose) ==
    /\ m \in Shape /\ OnlyPages(m)
    /\ held \in [Frames -> Int] /\ loose \subseteq Pages
    /\ CountsExact(m, held)
    /\ FreeExact(m, held, loose)
    /\ Separate(m)

Zero == [p \in Frames |-> 0]

\* Every reference that is stored has been counted.
NoDebt(held) == \A p \in Frames : held[p] >= 0

LEMMA ZeroHeld == NoDebt(Zero) /\ Zero \in [Frames -> Int]
BY DEF NoDebt, Zero

With(S, x) == S \cup {x}
Without(S, x) == S \ {x}

\* The held references after counting, or uncounting, one to p.
Plus(held, p) == [held EXCEPT ![p] = held[p] + 1]
Minus(held, p) == [held EXCEPT ![p] = held[p] - 1]

\* The held references after storing a reference to `new' over one to `old'.
Moved(held, old, new) == [p \in Frames |-> held[p] + One(p, old) - One(p, new)]

\* A count is a natural number, or becomes one.
LEMMA CountInt ==
    ASSUME NEW m, NEW held \in [Frames -> Int], NEW p \in Frames
    PROVE  Count(m, held, p) \in Int /\ Refs(m, p) \in Nat
BY PlacesFinite DEF Count

\* A list that loses its head.
LEMMA Pop ==
    ASSUME NEW fl \in Seq(Pages), fl # <<>>, NoRepeat(fl)
    PROVE  /\ Head(fl) \in Pages /\ Tail(fl) \in Seq(Pages) /\ NoRepeat(Tail(fl))
           /\ Listed(fl, Head(fl))
           /\ \A p : Listed(Tail(fl), p) <=> Listed(fl, p) /\ p # Head(fl)
<1> DEFINE tl == Tail(fl)
           h == Head(fl)
<1>1. /\ Len(fl) \in Nat /\ Len(fl) >= 1 /\ h = fl[1] /\ h \in Pages /\ tl \in Seq(Pages)
      /\ Len(tl) = Len(fl) - 1 /\ \A i \in 1..Len(tl) : tl[i] = fl[i+1]
  BY HeadTailProperties, EmptySeq
<1> HIDE DEF tl, h
<1>2. NoRepeat(tl)
  <2> SUFFICES ASSUME NEW i \in 1..Len(tl), NEW j \in 1..Len(tl), tl[i] = tl[j] PROVE i = j
    BY DEF NoRepeat
  <2>1. i+1 \in 1..Len(fl) /\ j+1 \in 1..Len(fl) /\ fl[i+1] = fl[j+1]
    BY <1>1
  <2>2. i+1 = j+1
    BY <2>1 DEF NoRepeat
  <2> QED BY <1>1, <2>2
<1>3. Listed(fl, h)
  BY <1>1 DEF Listed
<1>4. ASSUME NEW p PROVE Listed(tl, p) <=> Listed(fl, p) /\ p # h
  <2>1. ASSUME NEW i \in 1..Len(tl), tl[i] = p PROVE Listed(fl, p) /\ p # h
    <3>1. i+1 \in 1..Len(fl) /\ fl[i+1] = p /\ 1 \in 1..Len(fl)
      BY <1>1, <2>1
    <3>2. fl[i+1] # fl[1]
      BY <1>1, <3>1 DEF NoRepeat
    <3> QED BY <1>1, <3>1, <3>2 DEF Listed
  <2>2. ASSUME NEW i \in 1..Len(fl), fl[i] = p, p # h PROVE Listed(tl, p)
    <3>1. i-1 \in 1..Len(tl) /\ tl[i-1] = p
      BY <1>1, <2>2
    <3> QED BY <3>1 DEF Listed
  <2> QED BY <2>1, <2>2 DEF Listed
<1> QED BY <1>1, <1>2, <1>3, <1>4 DEF tl, h

\* A list that gets a new head.
LEMMA Push ==
    ASSUME NEW fl \in Seq(Pages), NoRepeat(fl), NEW q \in Pages, ~Listed(fl, q)
    PROVE  /\ <<q>> \o fl \in Seq(Pages) /\ NoRepeat(<<q>> \o fl)
           /\ \A p : Listed(<<q>> \o fl, p) <=> Listed(fl, p) \/ p = q
<1> DEFINE gl == <<q>> \o fl
<1>1. /\ gl \in Seq(Pages) /\ Len(gl) = Len(fl) + 1 /\ Len(fl) \in Nat
      /\ \A i \in 1..Len(gl) : gl[i] = IF i = 1 THEN q ELSE fl[i-1]
  BY ConcatProperties
<1> HIDE DEF gl
<1>2. NoRepeat(gl)
  <2> SUFFICES ASSUME NEW i \in 1..Len(gl), NEW j \in 1..Len(gl), gl[i] = gl[j] PROVE i = j
    BY DEF NoRepeat
  <2>1. CASE i = 1 \/ j = 1
    BY <1>1, <2>1 DEF Listed
  <2>2. CASE i # 1 /\ j # 1
    <3>1. i-1 \in 1..Len(fl) /\ j-1 \in 1..Len(fl) /\ fl[i-1] = fl[j-1]
      BY <1>1, <2>2
    <3>2. i-1 = j-1
      BY <3>1 DEF NoRepeat
    <3> QED BY <1>1, <3>2
  <2> QED BY <2>1, <2>2
<1>3. ASSUME NEW p PROVE Listed(gl, p) <=> Listed(fl, p) \/ p = q
  <2>1. ASSUME NEW i \in 1..Len(gl), gl[i] = p, p # q PROVE Listed(fl, p)
    <3>1. i-1 \in 1..Len(fl) /\ fl[i-1] = p
      BY <1>1, <2>1
    <3> QED BY <3>1 DEF Listed
  <2>2. ASSUME NEW i \in 1..Len(fl), fl[i] = p PROVE Listed(gl, p)
    <3>1. i+1 \in 1..Len(gl) /\ gl[i+1] = p
      BY <1>1, <2>2
    <3> QED BY <3>1 DEF Listed
  <2>3. Listed(gl, q)
    <3>1. 1 \in 1..Len(gl) /\ gl[1] = q
      BY <1>1
    <3> QED BY <3>1 DEF Listed
  <2> QED BY <2>1, <2>2, <2>3 DEF Listed
<1> QED BY <1>1, <1>2, <1>3 DEF gl

\* A page that is put back or mapped is no longer loose.
LEMMA NoLoose == \A x : Without({}, x) = {} /\ Without(With({}, x), x) = {}
BY DEF Without, With

-----------------------------------------------------------------------------
(* What each primitive does to that state.                                  *)

\* pp_ref does not wrap before its width is used up.
LEMMA ModSmall ==
    ASSUME NEW k \in 0..RefMod-1 PROVE k % RefMod = k
BY PageTablesAssumption

\* Calls that change no entry change no reference.
LEMMA SamePlaces ==
    ASSUME NEW m, NEW n, n.pte = m.pte, n.pde = m.pde, n.dir = m.dir
    PROVE  \A p : /\ Mappings(n, p) = Mappings(m, p) /\ Tables(n, p) = Tables(m, p)
                  /\ Directories(n, p) = Directories(m, p) /\ Refs(n, p) = Refs(m, p)
BY DEF Mappings, Tables, Directories, Refs

\* page_alloc makes the head of the list a loose page.
LEMMA GoodAlloc ==
    ASSUME NEW m, NEW held, NEW loose, Good(m, held, loose), HasFree(m),
           NEW n, n = PageAlloc(m),
           NEW q, q = Top(m)
    PROVE  /\ Good(n, held, With(loose, q))
           /\ q \in Pages \ loose /\ Count(m, held, q) = 0 /\ Listed(m.free, q)
           /\ n.ref = m.ref /\ n.dir = m.dir /\ n.pde = m.pde /\ n.pte = m.pte
           /\ n.panic = m.panic
<1>1. m \in Shape /\ m.free \in Seq(Pages)
  BY DEF Good, OnlyPages
<1>2. /\ n \in Shape /\ n.free = Tail(m.free)
      /\ n.ref = m.ref /\ n.dir = m.dir /\ n.pde = m.pde /\ n.pte = m.pte
      /\ n.panic = m.panic
  BY <1>1, PageAllocIs DEF With, Without, Top, HasFree
<1>3. /\ q \in Pages /\ n.free \in Seq(Pages) /\ NoRepeat(n.free)
      /\ Listed(m.free, q) /\ \A p : Listed(n.free, p) <=> Listed(m.free, p) /\ p # q
  BY <1>1, <1>2, Pop DEF Good, FreeExact, With, Without, Top, HasFree
<1>4. q \notin loose /\ Count(m, held, q) = 0
  BY <1>3 DEF Good, FreeExact
<1>5. \A p : Count(n, held, p) = Count(m, held, p)
  BY <1>2, SamePlaces DEF Count
<1>6. OnlyPages(n) /\ CountsExact(n, held)
  BY <1>2, <1>3, <1>5 DEF Good, OnlyPages, CountsExact
<1>7. FreeExact(n, held, With(loose, q))
  BY <1>3, <1>4, <1>5 DEF Good, FreeExact, With, Without, Top, HasFree
<1>8. Separate(n)
  BY <1>2, SamePlaces DEF Good, Separate
<1>9. Good(n, held, With(loose, q))
  BY <1>2, <1>3, <1>6, <1>7, <1>8 DEF Good, With, Without, Top, HasFree
<1> QED BY <1>2, <1>3, <1>4, <1>9

\* A reference that is counted and not stored yet.  A loose page is in use
\* from here on.
LEMMA GoodAddRef ==
    ASSUME NEW m, NEW held, NEW loose, Good(m, held, loose), NEW p \in Frames,
           m.ref[p] + 1 < RefMod, ~Listed(m.free, p), NEW n, n = AddRef(m, p),
           NEW h2, h2 = Plus(held, p)
    PROVE  /\ Good(n, h2, Without(loose, p))
           /\ n.ref = Put(m.ref, p, m.ref[p] + 1)
           /\ n.free = m.free /\ n.dir = m.dir /\ n.pde = m.pde /\ n.pte = m.pte
           /\ n.panic = m.panic
<1>1. m \in Shape /\ m.ref \in [Frames -> 0..RefMod-1] /\ held \in [Frames -> Int]
  BY DEF Good, Shape, RefCounts
<1>2. m.ref[p] + 1 \in Int /\ (m.ref[p] + 1) % RefMod = m.ref[p] + 1
  <2>1. PICK k \in Nat : k = m.ref[p] + 1 /\ k < RefMod
    BY <1>1, PageTablesAssumption
  <2>2. k \in 0..RefMod-1
    BY <2>1, PageTablesAssumption
  <2>3. k % RefMod = k
    BY <2>2, ModSmall
  <2> QED BY <2>1, <2>3
<1>3. /\ n \in Shape /\ n.ref = Put(m.ref, p, m.ref[p] + 1)
      /\ n.free = m.free /\ n.dir = m.dir /\ n.pde = m.pde /\ n.pte = m.pte
      /\ n.panic = m.panic
  BY SMTT(30), <1>1, <1>2, SetRefIs DEF AddRef
<1>4. h2 = [held EXCEPT ![p] = held[p] + 1]
  BY DEF Plus
<1>5. h2 \in [Frames -> Int]
  BY <1>1, <1>4
<1>6. ASSUME NEW q \in Frames
      PROVE  /\ Count(n, h2, q) = IF q = p THEN Count(m, held, q) + 1 ELSE Count(m, held, q)
             /\ Count(m, held, q) \in Int
  <2>1. Refs(n, q) = Refs(m, q) /\ Refs(m, q) \in Nat
    BY <1>3, SamePlaces, PlacesFinite
  <2> QED BY <1>1, <1>4, <2>1 DEF Count
<1>7. \A q \in Frames : Count(m, held, q) >= 0 /\ m.ref[q] = Count(m, held, q) + One(q, Vga)
  BY DEF Good, CountsExact
<1>8. CountsExact(n, h2)
  BY <1>1, <1>3, <1>6, <1>7 DEF CountsExact, One, Put
<1>9. FreeExact(n, h2, Without(loose, p))
  <2>1. \A q \in Pages : q \in Frames
    BY DEF Frames
  <2>2. loose \subseteq Pages
    BY DEF Good
  <2> QED BY <1>3, <1>6, <1>7, <2>1, <2>2 DEF FreeExact, Good, With, Without, Top, HasFree
<1>10. Separate(n) /\ OnlyPages(n)
  BY <1>3, SamePlaces DEF Good, Separate, OnlyPages
<1>11. Good(n, h2, Without(loose, p))
  BY <1>3, <1>5, <1>8, <1>9, <1>10 DEF Good, With, Without, Top, HasFree
<1> QED BY <1>3, <1>4, <1>11

\* page_decref of a page that something refers to.
LEMMA GoodDecref ==
    ASSUME NEW m, NEW held, NEW loose, Good(m, held, loose), NEW p \in Frames,
           Count(m, held, p) >= 1, NEW n, n = PageDecref(m, p),
           NEW h2, h2 = Minus(held, p)
    PROVE  /\ Good(n, h2, loose)
           /\ n.dir = m.dir /\ n.pde = m.pde /\ n.pte = m.pte /\ n.panic = m.panic
<1>1. m \in Shape /\ m.ref \in [Frames -> 0..RefMod-1] /\ held \in [Frames -> Int]
      /\ m.free \in Seq(Pages)
  BY DEF Good, Shape, RefCounts, OnlyPages
<1>2. \A q \in Frames : /\ Count(m, held, q) \in Int /\ Count(m, held, q) >= 0
                        /\ m.ref[q] = Count(m, held, q) + One(q, Vga)
  BY <1>1, CountInt DEF Good, CountsExact
<1>3. m.ref[p] - 1 \in 0..RefMod-1 /\ (m.ref[p] - 1) % RefMod = m.ref[p] - 1
  <2>1. m.ref[p] >= 1
    BY <1>2 DEF One
  <2>2. m.ref[p] - 1 \in 0..RefMod-1
    BY <1>1, <2>1, PageTablesAssumption
  <2> QED BY <2>2, ModSmall
<1>4. /\ n \in Shape /\ n.dir = m.dir /\ n.pde = m.pde /\ n.pte = m.pte
      /\ n.ref = Put(m.ref, p, m.ref[p] - 1)
      /\ n.ref[p] # 0 => n.free = m.free /\ n.panic = m.panic
      /\ n.ref[p] = 0 /\ (\A i \in 1..Len(m.free) : m.free[i] # p)
           => n.free = <<p>> \o m.free /\ n.panic = m.panic
  <2>1. /\ n \in Shape /\ n.dir = m.dir /\ n.pde = m.pde /\ n.pte = m.pte
        /\ n.ref = Put(m.ref, p, (m.ref[p] - 1) % RefMod)
        /\ Len(n.free) >= Len(m.free)
        /\ n.ref[p] # 0 => n.free = m.free /\ n.panic = m.panic
        /\ n.ref[p] = 0 /\ (\A i \in 1..Len(m.free) : m.free[i] # p)
             => n.free = <<p>> \o m.free /\ n.panic = m.panic
    BY <1>1, PageDecrefIs
  <2> QED BY <1>3, <2>1
<1>5. h2 = [held EXCEPT ![p] = held[p] - 1]
  BY DEF Minus
<1>6. ASSUME NEW q \in Frames
      PROVE  Count(n, h2, q) = IF q = p THEN Count(m, held, q) - 1 ELSE Count(m, held, q)
  <2>1. Refs(n, q) = Refs(m, q) /\ Refs(m, q) \in Nat
    BY <1>4, SamePlaces, PlacesFinite
  <2> QED BY <1>1, <1>5, <2>1 DEF Count
<1>7. h2 \in [Frames -> Int] /\ CountsExact(n, h2)
  <2>1. h2 \in [Frames -> Int]
    BY <1>1, <1>5
  <2>2. ASSUME NEW q \in Frames
        PROVE  Count(n, h2, q) >= 0 /\ n.ref[q] = Count(n, h2, q) + One(q, Vga)
    <3>1. CASE q = p
      BY <1>1, <1>2, <1>4, <1>6, <3>1 DEF One, Put
    <3>2. CASE q # p
      BY <1>1, <1>2, <1>4, <1>6, <3>2 DEF Put
    <3> QED BY <3>1, <3>2
  <2> QED BY <2>1, <2>2 DEF CountsExact
<1>8. /\ \A q \in Pages : q \in Frames
      /\ loose \subseteq Pages /\ p \notin loose
      /\ p \in Pages => ~Listed(m.free, p)
      /\ p # Vga => p \in Pages
  BY <1>2 DEF Frames, Good, FreeExact
<1>9. FreeExact(n, h2, loose) /\ n.free \in Seq(Pages) /\ n.panic = m.panic
  <2>1. CASE n.ref[p] # 0
    <3>1. n.free = m.free /\ n.panic = m.panic
      BY <1>4, <2>1
    <3>2. p \in Pages => Count(n, h2, p) # 0
      <4>1. n.ref[p] = Count(n, h2, p) + One(p, Vga)
        BY <1>7 DEF CountsExact
      <4>2. p \in Pages => One(p, Vga) = 0
        BY PageTablesAssumption DEF One
      <4>3. Count(n, h2, p) \in Int
        BY <1>7, CountInt
      <4> QED BY <2>1, <4>1, <4>2, <4>3
    <3> QED BY <1>1, <1>2, <1>6, <1>8, <3>1, <3>2 DEF Good, FreeExact
  <2>2. CASE n.ref[p] = 0
    <3>1. p # Vga /\ Count(m, held, p) = 1
      BY <1>1, <1>2, <1>4, <2>2 DEF One, Put
    <3>2. p \in Pages /\ ~Listed(m.free, p)
      BY <1>8, <3>1
    <3>3. n.free = <<p>> \o m.free /\ n.panic = m.panic
      BY <1>4, <2>2, <3>2 DEF Listed
    <3>4. /\ n.free \in Seq(Pages) /\ NoRepeat(n.free)
          /\ \A q : Listed(n.free, q) <=> Listed(m.free, q) \/ q = p
      BY <1>1, <3>2, <3>3, Push DEF Good, FreeExact
    <3> QED BY <1>2, <1>6, <1>8, <3>1, <3>3, <3>4 DEF Good, FreeExact
  <2> QED BY <2>1, <2>2
<1>10. Separate(n) /\ OnlyPages(n)
  BY <1>4, <1>9, SamePlaces DEF Good, Separate, OnlyPages, Put
<1>11. Good(n, h2, loose)
  BY <1>4, <1>7, <1>9, <1>10 DEF Good
<1> QED BY <1>4, <1>5, <1>9, <1>11

\* Storing into a page table entry.
LEMMA GoodSetPte ==
    ASSUME NEW m, NEW held, NEW loose, Good(m, held, loose),
           NEW e \in Envs, NEW va \in Vas, NEW entry \in Ptes,
           Tables(m, entry.page) = {} \/ entry.page = NULL,
           Directories(m, entry.page) = {} \/ entry.page = NULL,
           NEW n, n = SetPte(m, e, va, entry),
           NEW h2, h2 = Moved(held, m.pte[<<e, va>>].page, entry.page)
    PROVE  /\ Good(n, h2, loose)
           /\ n.pte = Put(m.pte, <<e, va>>, entry)
           /\ n.free = m.free /\ n.ref = m.ref /\ n.dir = m.dir /\ n.pde = m.pde
           /\ n.panic = m.panic
<1>1. PICK x \in Envs \X Vas : x = <<e, va>>
  OBVIOUS
<1>2. PICK old : old = m.pte[x].page
  OBVIOUS
<1>3. PICK new : new = entry.page
  OBVIOUS
<1>4. /\ n \in Shape /\ n.pte = Put(m.pte, x, entry)
      /\ n.free = m.free /\ n.ref = m.ref /\ n.dir = m.dir /\ n.pde = m.pde
      /\ n.panic = m.panic
  BY <1>1, SetPteIs DEF Good
<1>5. m \in Shape /\ held \in [Frames -> Int]
  BY DEF Good
<1>6. \A p : /\ Tables(n, p) = Tables(m, p) /\ Directories(n, p) = Directories(m, p)
             /\ Cardinality(Mappings(n, p)) =
                    Cardinality(Mappings(m, p)) - One(p, old) + One(p, new)
             /\ old # p /\ new # p => Mappings(n, p) = Mappings(m, p)
  BY <1>2, <1>3, <1>4, <1>5, MappingsMoved DEF Tables, Directories
<1>7. h2 = Moved(held, old, new)
  BY <1>1, <1>2, <1>3
<1>8. h2 \in [Frames -> Int]
  BY <1>5, <1>7 DEF Moved, One
<1>9. ASSUME NEW p \in Frames PROVE Count(n, h2, p) = Count(m, held, p)
  <2>1. /\ Cardinality(Mappings(m, p)) \in Nat /\ Cardinality(Tables(m, p)) \in Nat
        /\ Cardinality(Directories(m, p)) \in Nat
    BY PlacesFinite
  <2>2. h2[p] = held[p] + One(p, old) - One(p, new) /\ held[p] \in Int
    BY <1>5, <1>7 DEF Moved
  <2>3. One(p, old) \in Int /\ One(p, new) \in Int
    BY DEF One
  <2>4. /\ Tables(n, p) = Tables(m, p) /\ Directories(n, p) = Directories(m, p)
        /\ Cardinality(Mappings(n, p)) =
                   Cardinality(Mappings(m, p)) - One(p, old) + One(p, new)
    BY <1>6, Zenon
  <2> QED BY <2>1, <2>2, <2>3, <2>4 DEF Count, Refs
<1>10. \A p \in Pages : p \in Frames
  BY DEF Frames
<1>11. CountsExact(n, h2) /\ FreeExact(n, h2, loose) /\ OnlyPages(n)
  BY <1>4, <1>9, <1>10 DEF Good, CountsExact, FreeExact, OnlyPages
<1>12. Separate(n)
  <2> SUFFICES ASSUME NEW p \in Pages, Tables(m, p) # {} \/ Directories(m, p) # {}
               PROVE  /\ Mappings(n, p) = {}
                      /\ Cardinality(Tables(m, p)) + Cardinality(Directories(m, p)) = 1
    BY <1>6, Zenon DEF Separate
  <2>1. /\ Mappings(m, p) = {}
        /\ Cardinality(Tables(m, p)) + Cardinality(Directories(m, p)) = 1
    BY DEF Good, Separate
  <2>2. old # p
    BY <1>2, <2>1 DEF Mappings
  <2>3. new # p
    BY <1>3, <1>10, PageTablesAssumption
  <2>4. Mappings(n, p) = Mappings(m, p)
    BY <1>6, <2>2, <2>3, Zenon
  <2> QED BY <2>1, <2>4
<1>13. Good(n, h2, loose)
  BY <1>4, <1>8, <1>11, <1>12 DEF Good
<1> QED BY <1>1, <1>2, <1>3, <1>4, <1>7, <1>13

\* Storing a page table, or erasing one.
LEMMA GoodSetPde ==
    ASSUME NEW m, NEW held, NEW loose, Good(m, held, loose),
           NEW e \in Envs, NEW i \in Pdxs, NEW new \in Pages \cup {NULL},
           new # NULL => Refs(m, new) = 0,
           NEW n, n = SetPde(m, e, i, new),
           NEW h2, h2 = Moved(held, m.pde[<<e, i>>], new)
    PROVE  /\ Good(n, h2, loose)
           /\ n.pde = Put(m.pde, <<e, i>>, new)
           /\ n.free = m.free /\ n.ref = m.ref /\ n.dir = m.dir /\ n.pte = m.pte
           /\ n.panic = m.panic
<1>1. PICK x \in Envs \X Pdxs : x = <<e, i>>
  OBVIOUS
<1>2. PICK old : old = m.pde[x]
  OBVIOUS
<1>3. \A p \in Pages : p \in Frames
  BY DEF Frames
<1>4. /\ n \in Shape /\ n.pde = Put(m.pde, x, new)
      /\ n.free = m.free /\ n.ref = m.ref /\ n.dir = m.dir /\ n.pte = m.pte
      /\ n.panic = m.panic
  <2>1. new \in Frames \cup {NULL} /\ m \in Shape
    BY <1>3 DEF Good
  <2> QED BY <1>1, <2>1, SetPdeIs
<1>5. m \in Shape /\ held \in [Frames -> Int]
  BY DEF Good
<1>6. \A p : /\ Mappings(n, p) = Mappings(m, p) /\ Directories(n, p) = Directories(m, p)
             /\ Cardinality(Tables(n, p)) = Cardinality(Tables(m, p)) - One(p, old) + One(p, new)
             /\ old # p /\ new # p => Tables(n, p) = Tables(m, p)
  BY <1>2, <1>4, <1>5, TablesMoved DEF Mappings, Directories
<1>7. h2 = Moved(held, old, new)
  BY <1>1, <1>2
<1>8. h2 \in [Frames -> Int]
  BY <1>5, <1>7 DEF Moved, One
<1>9. ASSUME NEW p \in Frames PROVE Count(n, h2, p) = Count(m, held, p)
  <2>1. /\ Cardinality(Mappings(m, p)) \in Nat /\ Cardinality(Tables(m, p)) \in Nat
        /\ Cardinality(Directories(m, p)) \in Nat
    BY PlacesFinite
  <2>2. h2[p] = held[p] + One(p, old) - One(p, new) /\ held[p] \in Int
    BY <1>5, <1>7 DEF Moved
  <2>3. One(p, old) \in Int /\ One(p, new) \in Int
    BY DEF One
  <2>4. /\ Mappings(n, p) = Mappings(m, p) /\ Directories(n, p) = Directories(m, p)
        /\ Cardinality(Tables(n, p)) = Cardinality(Tables(m, p)) - One(p, old) + One(p, new)
    BY <1>6, Zenon
  <2> QED BY <2>1, <2>2, <2>3, <2>4 DEF Count, Refs
<1>10. OnlyPages(n)
  BY <1>4 DEF Good, OnlyPages, Put
<1>11. CountsExact(n, h2) /\ FreeExact(n, h2, loose)
  BY <1>3, <1>4, <1>9 DEF Good, CountsExact, FreeExact
<1>12. Separate(n)
  <2> SUFFICES ASSUME NEW p \in Pages, Tables(n, p) # {} \/ Directories(n, p) # {}
               PROVE  /\ Mappings(n, p) = {}
                      /\ Cardinality(Tables(n, p)) + Cardinality(Directories(n, p)) = 1
    BY DEF Separate
  <2>1. /\ Cardinality(Mappings(m, p)) \in Nat /\ Cardinality(Tables(m, p)) \in Nat
        /\ Cardinality(Directories(m, p)) \in Nat
        /\ Cardinality(Mappings(m, p)) = 0 <=> Mappings(m, p) = {}
        /\ Cardinality(Tables(m, p)) = 0 <=> Tables(m, p) = {}
        /\ Cardinality(Directories(m, p)) = 0 <=> Directories(m, p) = {}
        /\ Cardinality(Tables(n, p)) = 0 <=> Tables(n, p) = {}
    BY PlacesFinite
  <2>5. /\ Mappings(n, p) = Mappings(m, p) /\ Directories(n, p) = Directories(m, p)
        /\ Cardinality(Tables(n, p)) = Cardinality(Tables(m, p)) - One(p, old) + One(p, new)
        /\ old # p /\ new # p => Tables(n, p) = Tables(m, p)
    BY <1>6, Zenon
  <2>2. CASE p = new
    <3>1. /\ Cardinality(Mappings(m, p)) = 0 /\ Cardinality(Tables(m, p)) = 0
          /\ Cardinality(Directories(m, p)) = 0
      BY <1>3, <2>1, <2>2, PageTablesAssumption DEF Refs
    <3>2. old # p
      BY <1>2, <2>1, <3>1 DEF Tables
    <3>3. Cardinality(Tables(n, p)) = 1
      BY <2>5, <2>2, <3>1, <3>2 DEF One
    <3> QED BY <2>5, <2>1, <3>1, <3>3
  <2>3. CASE p # new /\ p # old
    BY <2>5, <2>3 DEF Good, Separate
  <2>4. CASE p # new /\ p = old
    <3>1. x \in Tables(m, p)
      BY <1>2, <2>4 DEF Tables
    <3>2. Mappings(m, p) = {} /\ Cardinality(Tables(m, p)) + Cardinality(Directories(m, p)) = 1
      BY <3>1 DEF Good, Separate
    <3>3. Cardinality(Tables(m, p)) # 0
      BY <2>1, <3>1
    <3>4. Cardinality(Tables(m, p)) = 1 /\ Cardinality(Directories(m, p)) = 0
      BY <2>1, <3>2, <3>3
    <3>5. Cardinality(Tables(n, p)) = 0
      BY <2>5, <2>4, <3>4 DEF One
    <3> QED BY <2>5, <2>1, <3>4, <3>5
  <2> QED BY <2>2, <2>3, <2>4
<1>13. Good(n, h2, loose)
  BY <1>4, <1>8, <1>10, <1>11, <1>12 DEF Good
<1> QED BY <1>1, <1>2, <1>4, <1>7, <1>13
\* Storing a page directory, or erasing one.
LEMMA GoodSetDir ==
    ASSUME NEW m, NEW held, NEW loose, Good(m, held, loose),
           NEW e \in Envs, NEW new \in Pages \cup {NULL},
           new # NULL => Refs(m, new) = 0,
           NEW n, n = SetDir(m, e, new),
           NEW h2, h2 = Moved(held, m.dir[e], new)
    PROVE  /\ Good(n, h2, loose)
           /\ n.dir = Put(m.dir, e, new)
           /\ n.free = m.free /\ n.ref = m.ref /\ n.pde = m.pde /\ n.pte = m.pte
           /\ n.panic = m.panic
<1>1. PICK x \in Envs : x = e
  OBVIOUS
<1>2. PICK old : old = m.dir[x]
  OBVIOUS
<1>3. \A p \in Pages : p \in Frames
  BY DEF Frames
<1>4. /\ n \in Shape /\ n.dir = Put(m.dir, x, new)
      /\ n.free = m.free /\ n.ref = m.ref /\ n.pde = m.pde /\ n.pte = m.pte
      /\ n.panic = m.panic
  <2>1. new \in Frames \cup {NULL} /\ m \in Shape
    BY <1>3 DEF Good
  <2> QED BY <1>1, <2>1, SetDirIs
<1>5. m \in Shape /\ held \in [Frames -> Int]
  BY DEF Good
<1>6. \A p : /\ Mappings(n, p) = Mappings(m, p) /\ Tables(n, p) = Tables(m, p)
             /\ Cardinality(Directories(n, p)) = Cardinality(Directories(m, p)) - One(p, old) + One(p, new)
             /\ old # p /\ new # p => Directories(n, p) = Directories(m, p)
  BY <1>2, <1>4, <1>5, DirectoriesMoved DEF Mappings, Tables
<1>7. h2 = Moved(held, old, new)
  BY <1>1, <1>2
<1>8. h2 \in [Frames -> Int]
  BY <1>5, <1>7 DEF Moved, One
<1>9. ASSUME NEW p \in Frames PROVE Count(n, h2, p) = Count(m, held, p)
  <2>1. /\ Cardinality(Mappings(m, p)) \in Nat /\ Cardinality(Directories(m, p)) \in Nat
        /\ Cardinality(Tables(m, p)) \in Nat
    BY PlacesFinite
  <2>2. h2[p] = held[p] + One(p, old) - One(p, new) /\ held[p] \in Int
    BY <1>5, <1>7 DEF Moved
  <2>3. One(p, old) \in Int /\ One(p, new) \in Int
    BY DEF One
  <2>4. /\ Mappings(n, p) = Mappings(m, p) /\ Tables(n, p) = Tables(m, p)
        /\ Cardinality(Directories(n, p)) = Cardinality(Directories(m, p)) - One(p, old) + One(p, new)
    BY <1>6, Zenon
  <2> QED BY <2>1, <2>2, <2>3, <2>4 DEF Count, Refs
<1>10. OnlyPages(n)
  BY <1>4 DEF Good, OnlyPages, Put
<1>11. CountsExact(n, h2) /\ FreeExact(n, h2, loose)
  BY <1>3, <1>4, <1>9 DEF Good, CountsExact, FreeExact
<1>12. Separate(n)
  <2> SUFFICES ASSUME NEW p \in Pages, Tables(n, p) # {} \/ Directories(n, p) # {}
               PROVE  /\ Mappings(n, p) = {}
                      /\ Cardinality(Tables(n, p)) + Cardinality(Directories(n, p)) = 1
    BY DEF Separate
  <2>1. /\ Cardinality(Mappings(m, p)) \in Nat /\ Cardinality(Directories(m, p)) \in Nat
        /\ Cardinality(Tables(m, p)) \in Nat
        /\ Cardinality(Mappings(m, p)) = 0 <=> Mappings(m, p) = {}
        /\ Cardinality(Directories(m, p)) = 0 <=> Directories(m, p) = {}
        /\ Cardinality(Tables(m, p)) = 0 <=> Tables(m, p) = {}
        /\ Cardinality(Directories(n, p)) = 0 <=> Directories(n, p) = {}
    BY PlacesFinite
  <2>5. /\ Mappings(n, p) = Mappings(m, p) /\ Tables(n, p) = Tables(m, p)
        /\ Cardinality(Directories(n, p)) = Cardinality(Directories(m, p)) - One(p, old) + One(p, new)
        /\ old # p /\ new # p => Directories(n, p) = Directories(m, p)
    BY <1>6, Zenon
  <2>2. CASE p = new
    <3>1. /\ Cardinality(Mappings(m, p)) = 0 /\ Cardinality(Directories(m, p)) = 0
          /\ Cardinality(Tables(m, p)) = 0
      BY <1>3, <2>1, <2>2, PageTablesAssumption DEF Refs
    <3>2. old # p
      BY <1>2, <2>1, <3>1 DEF Directories
    <3>3. Cardinality(Directories(n, p)) = 1
      BY <2>5, <2>2, <3>1, <3>2 DEF One
    <3> QED BY <2>5, <2>1, <3>1, <3>3
  <2>3. CASE p # new /\ p # old
    BY <2>5, <2>3 DEF Good, Separate
  <2>4. CASE p # new /\ p = old
    <3>1. x \in Directories(m, p)
      BY <1>2, <2>4 DEF Directories
    <3>2. Mappings(m, p) = {} /\ Cardinality(Tables(m, p)) + Cardinality(Directories(m, p)) = 1
      BY <3>1 DEF Good, Separate
    <3>3. Cardinality(Directories(m, p)) # 0
      BY <2>1, <3>1
    <3>4. Cardinality(Directories(m, p)) = 1 /\ Cardinality(Tables(m, p)) = 0
      BY <2>1, <3>2, <3>3
    <3>5. Cardinality(Directories(n, p)) = 0
      BY <2>5, <2>4, <3>4 DEF One
    <3> QED BY <2>5, <2>1, <3>4, <3>5
  <2> QED BY <2>2, <2>3, <2>4
<1>13. Good(n, h2, loose)
  BY <1>4, <1>8, <1>10, <1>11, <1>12 DEF Good
<1> QED BY <1>1, <1>2, <1>4, <1>7, <1>13

\* A reference that is counted and then stored.
LEMMA PlusMoved ==
    ASSUME NEW held \in [Frames -> Int], NEW p \in Frames, NEW h, h = Plus(held, p)
    PROVE  held = Moved(h, NULL, p)
BY PageTablesAssumption DEF Moved, One, Plus

\* A reference that is uncounted and then erased.
LEMMA MinusMoved ==
    ASSUME NEW held \in [Frames -> Int], NEW p \in Frames, NEW h, h = Minus(held, p)
    PROVE  held = Moved(h, p, NULL)
BY PageTablesAssumption DEF Moved, One, Minus

\* pgdir_walk with create.
LEMMA GoodWalk ==
    ASSUME NEW m, NEW held, NEW loose, Good(m, held, loose), NoDebt(held), NEW e \in Envs, NEW va \in Vas,
           ~WalkFails(m, e, va), NEW n, n = PgdirWalk(m, e, va)
    PROVE  /\ Good(n, held, loose)
           /\ n.pte = m.pte /\ n.dir = m.dir /\ n.panic = m.panic
           /\ \A p \in Frames : ~Listed(m.free, p) =>
                  n.ref[p] = m.ref[p] /\ Tables(n, p) = Tables(m, p) /\ ~Listed(n.free, p)
<1>1. CASE m.pde[<<e, PDX(va)>>] # NULL
  BY <1>1 DEF PgdirWalk
<1>2. CASE m.pde[<<e, PDX(va)>>] = NULL
  <2>1. HasFree(m)
    BY <1>2 DEF WalkFails, With, Without, Top, HasFree
  <2>2. PICK t : t = Top(m)
    OBVIOUS
  <2>3. PICK m1 : m1 = PageAlloc(m)
    OBVIOUS
  <2>4. PICK m2 : m2 = AddRef(m1, t)
    OBVIOUS
  <2>5. n = SetPde(m2, e, PDX(va), t)
    BY <1>2, <2>2, <2>3, <2>4 DEF PgdirWalk, With, Without, Top, HasFree
  <2>6. /\ Good(m1, held, With(loose, t))
        /\ t \in Pages \ loose /\ Count(m, held, t) = 0 /\ Listed(m.free, t)
        /\ m1.ref = m.ref /\ m1.dir = m.dir /\ m1.pde = m.pde /\ m1.pte = m.pte
        /\ m1.panic = m.panic
    BY <2>1, <2>2, <2>3, GoodAlloc
  <2>7. t \in Frames /\ Refs(m, t) = 0 /\ held \in [Frames -> Int]
    <3>1. t \in Frames /\ held \in [Frames -> Int]
      BY <2>6 DEF Frames, Good
    <3>2. held[t] \in Int /\ held[t] >= 0 /\ Refs(m, t) \in Nat /\ Refs(m, t) + held[t] = 0
      BY <2>6, <3>1, PlacesFinite DEF Count, NoDebt
    <3> QED BY <3>1, <3>2
  <2>8. m1.ref[t] = 0 /\ m1.ref[t] + 1 < RefMod /\ ~Listed(m1.free, t)
    <3>1. m1.ref[t] = Count(m1, held, t) + One(t, Vga) /\ Count(m1, held, t) = 0
      BY <2>6, <2>7 DEF Good, CountsExact, FreeExact, With, Without, Top, HasFree
    <3>2. One(t, Vga) = 0
      BY <2>6, PageTablesAssumption DEF One
    <3>3. ~Listed(m1.free, t)
      BY <2>6 DEF Good, FreeExact, With, Without, Top, HasFree
    <3> QED BY <3>1, <3>2, <3>3, PageTablesAssumption
  <2>9. PICK h : h = Plus(held, t)
    OBVIOUS
  <2>10. /\ Good(m2, h, Without(With(loose, t), t))
         /\ m2.ref = Put(m1.ref, t, m1.ref[t] + 1)
         /\ m2.free = m1.free /\ m2.dir = m.dir /\ m2.pde = m.pde /\ m2.pte = m.pte
         /\ m2.panic = m.panic
    BY <2>4, <2>6, <2>7, <2>8, <2>9, GoodAddRef
  <2>11. Without(With(loose, t), t) = loose
    BY <2>6 DEF With, Without, Top, HasFree
  <2>12. Refs(m2, t) = 0 /\ t # NULL /\ PDX(va) \in Pdxs /\ m2.pde[<<e, PDX(va)>>] = NULL
    <3>1. Refs(m2, t) = Refs(m, t)
      BY <2>10, SamePlaces
    <3> QED BY <1>2, <2>7, <2>10, <3>1, PdxType, PageTablesAssumption
  <2>14. held = Moved(h, NULL, t)
    BY <2>9, <2>7, PlusMoved
  <2>13. /\ Good(n, held, loose)
         /\ n.pde = Put(m2.pde, <<e, PDX(va)>>, t)
         /\ n.free = m2.free /\ n.ref = m2.ref /\ n.dir = m.dir /\ n.pte = m.pte
         /\ n.panic = m.panic
    <3>1. Good(m2, h, loose) /\ t \in Pages \cup {NULL}
      BY <2>6, <2>10, <2>11
    <3>2. held = Moved(h, m2.pde[<<e, PDX(va)>>], t)
      BY <2>12, <2>14
    <3> QED BY <2>5, <2>10, <2>12, <3>1, <3>2, GoodSetPde
  <2>15. ASSUME NEW p \in Frames, ~Listed(m.free, p)
         PROVE  n.ref[p] = m.ref[p] /\ Tables(n, p) = Tables(m, p) /\ ~Listed(n.free, p)
    <3>1. p # t /\ p # NULL
      BY <2>6, <2>15, PageTablesAssumption
    <3>2. n.ref[p] = m.ref[p]
      <4>1. m.ref \in [Frames -> 0..RefMod-1]
        BY DEF Good, Shape, RefCounts
      <4> QED BY <2>6, <2>10, <2>13, <3>1, <4>1 DEF Put
    <3>3. Tables(n, p) = Tables(m, p)
      <4>1. m.pde \in [Envs \X Pdxs -> Pages \cup {NULL}]
        BY DEF Good, OnlyPages
      <4>2. n.pde = Put(m.pde, <<e, PDX(va)>>, t)
        BY <2>10, <2>13
      <4> QED BY <1>2, <2>12, <3>1, <4>1, <4>2 DEF Tables, Put
    <3>4. ~Listed(n.free, p)
      <4>1. n.free = Tail(m.free)
        BY <2>1, <2>3, <2>10, <2>13, PageAllocIs DEF Good, With, Without, Top, HasFree
      <4> QED BY <2>1, <2>15, <4>1, Pop DEF Good, OnlyPages, FreeExact, With, Without, Top, HasFree
    <3> QED BY <3>2, <3>3, <3>4
  <2> QED BY <2>13, <2>15
<1> QED BY <1>1, <1>2

\* page_remove, in the middle of page_insert or on its own.
LEMMA GoodRemove ==
    ASSUME NEW m, NEW held, NEW loose, Good(m, held, loose), NEW e \in Envs, NEW va \in Vas,
           NoDebt(held), NEW n, n = PageRemove(m, e, va)
    PROVE  /\ Good(n, held, loose)
           /\ n.pte = Put(m.pte, <<e, va>>, Absent)
           /\ n.dir = m.dir /\ n.pde = m.pde /\ n.panic = m.panic
<1>1. PICK x \in Envs \X Vas : x = <<e, va>>
  OBVIOUS
<1>2. PICK p : p = m.pte[x].page
  OBVIOUS
<1>3. m.pte \in [Envs \X Vas -> Ptes] /\ held \in [Frames -> Int]
  BY DEF Good, Shape, PteSets
<1>4. p \in Frames \cup {NULL} /\ (p = NULL <=> m.pte[x] = Absent)
  BY <1>2, <1>3, EntryPage
<1>5. CASE p = NULL
  <2>1. n = m
    BY <1>1, <1>2, <1>5 DEF PageRemove
  <2>2. m.pte = Put(m.pte, x, Absent)
    BY <1>3, <1>4, <1>5 DEF Put
  <2> QED BY <1>1, <2>1, <2>2
<1>6. CASE p # NULL
  <2>1. PICK m1 : m1 = PageDecref(m, p)
    OBVIOUS
  <2>2. n = SetPte(m1, e, va, Absent)
    BY <1>1, <1>2, <1>6, <2>1 DEF PageRemove
  <2>3. p \in Frames
    BY <1>4, <1>6
  <2>4. Count(m, held, p) >= 1
    <3>1. x \in Mappings(m, p)
      BY <1>2 DEF Mappings
    <3>2. Cardinality(Mappings(m, p)) \in Nat \ {0} /\ Refs(m, p) \in Nat /\ Refs(m, p) >= 1
      BY <3>1, PlacesFinite DEF Refs
    <3>3. held[p] \in Int /\ held[p] >= 0
      BY <1>3, <2>3 DEF NoDebt
    <3> QED BY <3>2, <3>3 DEF Count
  <2>5. PICK h : h = Minus(held, p)
    OBVIOUS
  <2>6. /\ Good(m1, h, loose)
        /\ m1.dir = m.dir /\ m1.pde = m.pde /\ m1.pte = m.pte /\ m1.panic = m.panic
    BY <2>1, <2>3, <2>4, <2>5, GoodDecref
  <2>7. Absent \in Ptes /\ Absent.page = NULL /\ m1.pte[<<e, va>>].page = p
    BY <1>1, <1>2, <2>6 DEF Ptes, Absent
  <2>9. held = Moved(h, m1.pte[<<e, va>>].page, Absent.page)
    <3>1. held = Moved(h, p, NULL)
      BY <1>3, <2>3, <2>5, MinusMoved
    <3> QED BY <2>7, <3>1
  <2>8. /\ Good(n, held, loose)
        /\ n.pte = Put(m1.pte, <<e, va>>, Absent)
        /\ n.dir = m1.dir /\ n.pde = m1.pde /\ n.panic = m1.panic
    BY <2>2, <2>6, <2>7, <2>9, GoodSetPte
  <2> QED BY <2>6, <2>8
<1> QED BY <1>5, <1>6

\* A page that page_insert may map: it is in use as data, or has just been
\* taken off the free list.
Mappable(m, p) ==
    /\ p \in Frames /\ ~Listed(m.free, p)
    /\ Tables(m, p) = {} /\ Directories(m, p) = {}
    /\ m.ref[p] + 1 < RefMod

\* page_insert where pgdir_walk cannot fail.
LEMMA GoodInsert ==
    ASSUME NEW m, NEW held, NEW loose, Good(m, held, loose), NoDebt(held), NEW e \in Envs, NEW va \in Vas,
           NEW p, Mappable(m, p), NEW perm, perm \subseteq Bits, ~WalkFails(m, e, va),
           NEW n, n = PageInsert(m, e, p, va, perm)
    PROVE  /\ Good(n, held, Without(loose, p))
           /\ n.pte = Put(m.pte, <<e, va>>, Entry(p, perm))
           /\ n.dir = m.dir /\ n.panic = m.panic
<1>1. PICK m1 : m1 = PgdirWalk(m, e, va)
  OBVIOUS
<1>2. PICK m2 : m2 = AddRef(m1, p)
  OBVIOUS
<1>3. PICK m3 : m3 = PageRemove(m2, e, va)
  OBVIOUS
<1>4. PICK entry : entry = Entry(p, perm)
  OBVIOUS
<1>5. p \in Frames /\ p # NULL
  BY PageTablesAssumption DEF Mappable
<1>6. n = SetPte(m3, e, va, entry)
  BY <1>1, <1>2, <1>3, <1>4, <1>5, Zenon DEF PageInsert
<1>7. entry \in Ptes /\ entry.page = p
  BY <1>4, <1>5, EntryType
<1>8. /\ Good(m1, held, loose)
      /\ m1.pte = m.pte /\ m1.dir = m.dir /\ m1.panic = m.panic
      /\ \A q \in Frames : ~Listed(m.free, q) =>
             m1.ref[q] = m.ref[q] /\ Tables(m1, q) = Tables(m, q) /\ ~Listed(m1.free, q)
  BY <1>1, GoodWalk
<1>9. m1.ref[p] + 1 < RefMod /\ Tables(m1, p) = {} /\ ~Listed(m1.free, p)
  BY <1>8 DEF Mappable
<1>10. PICK h : h = Plus(held, p)
  OBVIOUS
<1>11. /\ Good(m2, h, Without(loose, p))
       /\ m2.dir = m1.dir /\ m2.pde = m1.pde /\ m2.pte = m1.pte /\ m2.panic = m1.panic
  <2>1. Good(m1, held, loose)
    BY <1>8
  <2>2. p \in Frames /\ m1.ref[p] + 1 < RefMod /\ ~Listed(m1.free, p)
    BY <1>5, <1>9
  <2> QED BY <1>2, <1>10, <2>1, <2>2, GoodAddRef
<1>12. NoDebt(h)
  <2>1. held \in [Frames -> Int]
    BY DEF Good
  <2> QED BY <1>5, <1>10, <2>1 DEF Plus, NoDebt
<1>13. /\ Good(m3, h, Without(loose, p))
       /\ m3.pte = Put(m2.pte, <<e, va>>, Absent)
       /\ m3.dir = m2.dir /\ m3.pde = m2.pde /\ m3.panic = m2.panic
  BY <1>3, <1>11, <1>12, GoodRemove
<1>14. m.pte \in [Envs \X Vas -> Ptes]
  BY DEF Good, Shape, PteSets
<1>15. Tables(m3, p) = {} /\ Directories(m3, p) = {}
  BY <1>8, <1>9, <1>11, <1>13 DEF Mappable, Tables, Directories
<1>16. held = Moved(h, m3.pte[<<e, va>>].page, entry.page)
  <2>1. m3.pte[<<e, va>>].page = NULL
    BY <1>8, <1>11, <1>13, <1>14 DEF Absent, Put
  <2>2. held = Moved(h, NULL, p)
    BY <1>5, <1>10, PlusMoved DEF Good
  <2> QED BY <1>7, <2>1, <2>2
<1>17. /\ Good(n, held, Without(loose, p))
       /\ n.pte = Put(m3.pte, <<e, va>>, entry)
       /\ n.dir = m3.dir /\ n.panic = m3.panic
  <2>1. Tables(m3, entry.page) = {} /\ Directories(m3, entry.page) = {}
    BY <1>7, <1>15
  <2> QED BY <1>6, <1>7, <1>13, <1>16, <2>1, GoodSetPte
<1>18. n.pte = Put(m.pte, <<e, va>>, entry)
  BY <1>8, <1>11, <1>13, <1>14, <1>17 DEF Put
<1> QED BY <1>4, <1>8, <1>11, <1>13, <1>17, <1>18

\* A page that nothing refers to is mappable once it is off the free list.
LEMMA LooseMappable ==
    ASSUME NEW m, NEW held, NEW loose, Good(m, held, loose), NoDebt(held), NEW p \in loose
    PROVE  Mappable(m, p) /\ p \in Pages /\ m.ref[p] = 0 /\ Mappings(m, p) = {}
<1>1. p \in Pages /\ p \in Frames /\ Count(m, held, p) = 0 /\ ~Listed(m.free, p)
  BY DEF Good, FreeExact, Frames
<1>2. Refs(m, p) = 0
  <2>1. held[p] \in Int /\ held[p] >= 0 /\ Refs(m, p) \in Nat /\ Refs(m, p) + held[p] = 0
    BY <1>1, PlacesFinite DEF Count, NoDebt, Good
  <2> QED BY <2>1
<1>3. Mappings(m, p) = {} /\ Tables(m, p) = {} /\ Directories(m, p) = {}
  <2>1. /\ Cardinality(Mappings(m, p)) \in Nat /\ Cardinality(Tables(m, p)) \in Nat
        /\ Cardinality(Directories(m, p)) \in Nat
    BY PlacesFinite
  <2>2. Cardinality(Mappings(m, p)) = 0 /\ Cardinality(Tables(m, p)) = 0
        /\ Cardinality(Directories(m, p)) = 0
    BY <1>2, <2>1 DEF Refs
  <2> QED BY <2>2, PlacesFinite
<1>4. m.ref[p] = 0
  <2>1. m.ref[p] = Count(m, held, p) + One(p, Vga)
    BY <1>1 DEF Good, CountsExact
  <2>2. One(p, Vga) = 0
    BY <1>1, PageTablesAssumption DEF One
  <2> QED BY <1>1, <2>1, <2>2
<1> QED BY <1>1, <1>3, <1>4, PageTablesAssumption DEF Mappable

\* The VGA frame can always be mapped.
LEMMA VgaMappable ==
    ASSUME NEW m, NEW held, NEW loose, Good(m, held, loose), NoDebt(held), m.ref[Vga] + 1 < RefMod
    PROVE  Mappable(m, Vga)
<1>1. m.free \in Seq(Pages) /\ m.dir \in [Envs -> Pages \cup {NULL}]
      /\ m.pde \in [Envs \X Pdxs -> Pages \cup {NULL}]
  BY DEF Good, OnlyPages
<1>2. Vga \in Frames /\ Vga \notin Pages \cup {NULL}
  BY PageTablesAssumption DEF Frames
<1>3. ~Listed(m.free, Vga)
  BY <1>1, <1>2 DEF Listed
<1>4. Tables(m, Vga) = {} /\ Directories(m, Vga) = {}
  BY <1>1, <1>2 DEF Tables, Directories
<1> QED BY <1>2, <1>3, <1>4 DEF Mappable

\* A page that an entry maps is mappable again: it holds data, and it is not
\* on the free list.
LEMMA MappedMappable ==
    ASSUME NEW m, NEW held, Good(m, held, {}), NoDebt(held), NEW x \in Envs \X Vas, NEW p, p = m.pte[x].page,
           p # NULL, m.ref[p] + 1 < RefMod
    PROVE  Mappable(m, p)
<1>1. p \in Frames
  <2>1. m.pte[x] \in Ptes
    BY DEF Good, Shape, PteSets
  <2> QED BY <2>1, EntryPage
<1>2. x \in Mappings(m, p)
  BY DEF Mappings
<1>3. CASE p \in Pages
  <2>1. Count(m, held, p) # 0
    <3>1. Cardinality(Mappings(m, p)) \in Nat \ {0} /\ Refs(m, p) \in Nat /\ Refs(m, p) # 0
      BY <1>2, PlacesFinite DEF Refs
    <3>2. held[p] \in Int /\ held[p] >= 0
      BY <1>1 DEF NoDebt, Good
    <3> QED BY <3>1, <3>2 DEF Count
  <2>2. ~Listed(m.free, p)
    BY <1>3, <2>1 DEF Good, FreeExact
  <2>3. Tables(m, p) = {} /\ Directories(m, p) = {}
    BY <1>2, <1>3 DEF Good, Separate
  <2> QED BY <1>1, <2>2, <2>3 DEF Mappable
<1>4. CASE p = Vga
  BY <1>4, VgaMappable
<1> QED BY <1>1, <1>3, <1>4 DEF Frames

\* page_free of the page an allocation could not use.
LEMMA GoodFree ==
    ASSUME NEW m, NEW held, NEW loose, Good(m, held, loose), NoDebt(held), NEW p \in loose, NEW n, n = PageFree(m, p)
    PROVE  /\ Good(n, held, Without(loose, p))
           /\ n.pte = m.pte /\ n.dir = m.dir /\ n.panic = m.panic
<1>1. Mappable(m, p) /\ p \in Pages /\ m.ref[p] = 0
  BY LooseMappable
<1>2. ~Listed(m.free, p) /\ p \in Frames /\ m \in Shape /\ m.free \in Seq(Pages)
      /\ NoRepeat(m.free) /\ loose \subseteq Pages
  BY <1>1 DEF Mappable, Good, OnlyPages, FreeExact
<1>3. /\ n \in Shape /\ n.dir = m.dir /\ n.pde = m.pde /\ n.pte = m.pte /\ n.ref = m.ref
      /\ n.free = <<p>> \o m.free /\ n.panic = m.panic
  BY <1>1, <1>2, PageFreeIs DEF Listed
<1>4. /\ n.free \in Seq(Pages) /\ NoRepeat(n.free)
      /\ \A q : Listed(n.free, q) <=> Listed(m.free, q) \/ q = p
  BY <1>1, <1>2, <1>3, Push
<1>5. \A q : Count(n, held, q) = Count(m, held, q)
  BY <1>3, SamePlaces DEF Count
<1>6. CountsExact(n, held)
  BY <1>3, <1>5 DEF Good, CountsExact
<1>7. FreeExact(n, held, Without(loose, p))
  BY <1>2, <1>4, <1>5 DEF Good, FreeExact, With, Without, Top, HasFree
<1>8. Separate(n) /\ OnlyPages(n)
  BY <1>3, <1>4, SamePlaces DEF Good, Separate, OnlyPages
<1> QED BY <1>1, <1>3, <1>6, <1>7, <1>8 DEF Good, With, Without, Top, HasFree

\* A panic changes nothing else.
LEMMA GoodPanicked ==
    ASSUME NEW m, NEW held, NEW loose, Good(m, held, loose), NEW n, n = Panicked(m)
    PROVE  Good(n, held, loose) /\ n.pte = m.pte /\ n.dir = m.dir /\ n.panic
<1>1. /\ n.panic = TRUE /\ n.free = m.free /\ n.ref = m.ref
      /\ n.dir = m.dir /\ n.pde = m.pde /\ n.pte = m.pte /\ n \in Shape
  BY WritePanic DEF Good
<1>2. \A p : Count(n, held, p) = Count(m, held, p)
  BY <1>1, SamePlaces DEF Count
<1>3. CountsExact(n, held) /\ FreeExact(n, held, loose)
  BY <1>1, <1>2 DEF Good, CountsExact, FreeExact
<1>4. Separate(n) /\ OnlyPages(n)
  BY <1>1, SamePlaces DEF Good, Separate, OnlyPages
<1> QED BY <1>1, <1>3, <1>4 DEF Good

\* env_setup_vm for a slot that has no page directory.
LEMMA GoodSetupVm ==
    ASSUME NEW m, NEW held, NEW loose, Good(m, held, loose), NoDebt(held), NEW e \in Envs, m.dir[e] = NULL, HasFree(m),
           m.ref[Vga] + 1 < RefMod, NEW n, n = EnvSetupVm(m, e)
    PROVE  /\ Good(n, held, loose)
           /\ \/ n.pte = m.pte /\ n.panic
              \/ n.pte = Put(m.pte, <<e, VgaUser>>, Entry(Vga, Bits))
           /\ Len(m.free) > 1 => n.panic = m.panic
<1>1. PICK d : d = Top(m)
  OBVIOUS
<1>2. PICK m1 : m1 = PageAlloc(m)
  OBVIOUS
<1>3. PICK m2 : m2 = AddRef(m1, d)
  OBVIOUS
<1>4. PICK m3 : m3 = SetDir(m2, e, d)
  OBVIOUS
<1>5. n = IF WalkFails(m3, e, VgaUser) THEN Panicked(m3)
          ELSE PageInsert(m3, e, Vga, VgaUser, Bits)
  BY <1>1, <1>2, <1>3, <1>4, Zenon DEF EnvSetupVm, Panicked, With, Without, Top, HasFree
<1>6. /\ Good(m1, held, With(loose, d))
      /\ d \in Pages \ loose /\ Count(m, held, d) = 0 /\ Listed(m.free, d)
      /\ m1.ref = m.ref /\ m1.dir = m.dir /\ m1.pde = m.pde /\ m1.pte = m.pte
      /\ m1.panic = m.panic
  BY <1>1, <1>2, GoodAlloc
<1>7. /\ Mappable(m1, d) /\ d \in Frames /\ m1.ref[d] = 0 /\ Mappings(m1, d) = {}
      /\ d # NULL /\ d # Vga
  <2>1. d \in With(loose, d)
    BY DEF With, Without, Top, HasFree
  <2>2. Mappable(m1, d) /\ m1.ref[d] = 0 /\ Mappings(m1, d) = {}
    BY <1>6, <2>1, LooseMappable
  <2> QED BY <1>6, <2>2, PageTablesAssumption DEF Frames
<1>8. PICK h : h = Plus(held, d)
  OBVIOUS
<1>9. /\ Good(m2, h, Without(With(loose, d), d))
      /\ m2.ref = Put(m1.ref, d, m1.ref[d] + 1)
      /\ m2.free = m1.free /\ m2.dir = m1.dir /\ m2.pde = m1.pde /\ m2.pte = m1.pte
      /\ m2.panic = m1.panic
  <2>1. m1.ref[d] + 1 < RefMod /\ ~Listed(m1.free, d)
    BY <1>7 DEF Mappable
  <2> QED BY <1>3, <1>6, <1>7, <1>8, <2>1, GoodAddRef
<1>10. Refs(m2, d) = 0
  <2>1. Refs(m2, d) = Refs(m, d)
    BY <1>6, <1>9, SamePlaces
  <2>2. Refs(m, d) = 0
    <3>1. held[d] \in Int /\ held[d] >= 0 /\ Refs(m, d) \in Nat /\ Refs(m, d) + held[d] = 0
      BY <1>6, <1>7, PlacesFinite DEF Count, NoDebt, Good
    <3> QED BY <3>1
  <2> QED BY <2>1, <2>2
<1>11. held = Moved(h, m2.dir[e], d)
  <2>1. m2.dir[e] = NULL
    BY <1>6, <1>9
  <2>2. held = Moved(h, NULL, d)
    BY <1>7, <1>8, PlusMoved DEF Good
  <2> QED BY <2>1, <2>2
<1>12. /\ Good(m3, held, loose)
       /\ m3.dir = Put(m2.dir, e, d)
       /\ m3.free = m2.free /\ m3.ref = m2.ref /\ m3.pde = m2.pde /\ m3.pte = m2.pte
       /\ m3.panic = m2.panic
  <2>1. Good(m2, h, loose) /\ d \in Pages \cup {NULL}
    <3>1. Without(With(loose, d), d) = loose
      BY <1>6 DEF With, Without, Top, HasFree
    <3> QED BY <1>6, <1>9, <3>1
  <2> QED BY <1>4, <1>10, <1>11, <2>1, GoodSetDir
<1>13. CASE WalkFails(m3, e, VgaUser)
  <2>1. n = Panicked(m3)
    BY <1>5, <1>13
  <2>2. Good(n, held, loose) /\ n.pte = m3.pte /\ n.panic
    BY <1>12, <2>1, GoodPanicked
  <2>3. ~(Len(m.free) > 1)
    <3>1. Tail(m.free) = <<>>
      <4>1. m1.free = Tail(m.free)
        BY <1>2, PageAllocIs DEF Good, With, Without, Top, HasFree
      <4> QED BY <1>9, <1>12, <1>13, <4>1 DEF WalkFails
    <3>2. m.free \in Seq(Pages)
      BY DEF Good, OnlyPages
    <3>3. PICK k \in Nat : k = Len(m.free)
      BY <3>2
    <3>7. Len(Tail(m.free)) = k - 1
      BY <3>2, <3>3, HeadTailProperties DEF With, Without, Top, HasFree
    <3>4. Tail(m.free) \in Seq(Pages)
      BY <3>2, HeadTailProperties DEF With, Without, Top, HasFree
    <3>5. Len(Tail(m.free)) = 0
      BY <3>1, <3>4, EmptySeq
    <3>6. k - 1 = 0
      BY <3>5, <3>7, Zenon
    <3>8. ~(k > 1)
      BY <3>6
    <3> QED BY <3>3, <3>8, Zenon
  <2> QED BY <1>6, <1>9, <1>12, <2>2, <2>3
<1>14. CASE ~WalkFails(m3, e, VgaUser)
  <2>1. n = PageInsert(m3, e, Vga, VgaUser, Bits) /\ VgaUser \in Vas
    BY <1>5, <1>14, PageTablesAssumption
  <2>2. Mappable(m3, Vga)
    <3>1. m3.ref[Vga] = m.ref[Vga]
      <4>1. m.ref \in [Frames -> 0..RefMod-1] /\ Vga \in Frames
        BY DEF Good, Shape, RefCounts, Frames
      <4> QED BY <1>6, <1>7, <1>9, <1>12, <4>1 DEF Put
    <3> QED BY <1>12, <3>1, VgaMappable
  <2>3. /\ Good(n, held, Without(loose, Vga))
        /\ n.pte = Put(m3.pte, <<e, VgaUser>>, Entry(Vga, Bits))
        /\ n.dir = m3.dir /\ n.panic = m3.panic
    BY <1>12, <1>14, <2>1, <2>2, GoodInsert
  <2>4. Without(loose, Vga) = loose
    BY PageTablesAssumption DEF Good, With, Without, Top, HasFree
  <2> QED BY <1>6, <1>9, <1>12, <2>3, <2>4
<1> QED BY <1>13, <1>14

\* A page taken and mapped: what is left of sys_page_alloc and region_alloc
\* when there is memory for the page and its page table.
LEMMA GoodAllocInsert ==
    ASSUME NEW m, NEW held, NEW loose, Good(m, held, loose), NoDebt(held), HasFree(m), NEW p, p = Top(m),
           NEW m1, m1 = PageAlloc(m), NEW e \in Envs, NEW va \in Vas,
           NEW perm, perm \subseteq Bits, ~WalkFails(m1, e, va),
           NEW n, n = PageInsert(m1, e, p, va, perm)
    PROVE  /\ Good(n, held, loose)
           /\ n.pte = Put(m.pte, <<e, va>>, Entry(p, perm))
           /\ n.dir = m.dir /\ n.panic = m.panic
           /\ p \in Pages /\ Mappings(m, p) = {}
<1>1. /\ Good(m1, held, With(loose, p))
      /\ p \in Pages \ loose /\ Count(m, held, p) = 0 /\ Listed(m.free, p)
      /\ m1.ref = m.ref /\ m1.dir = m.dir /\ m1.pde = m.pde /\ m1.pte = m.pte
      /\ m1.panic = m.panic
  BY GoodAlloc
<1>2. p \in With(loose, p) /\ Without(With(loose, p), p) = loose
  BY <1>1 DEF With, Without, Top, HasFree
<1>3. Mappable(m1, p) /\ Mappings(m1, p) = {}
  BY <1>1, <1>2, LooseMappable
<1>4. /\ Good(n, held, Without(With(loose, p), p))
      /\ n.pte = Put(m1.pte, <<e, va>>, Entry(p, perm))
      /\ n.dir = m1.dir /\ n.panic = m1.panic
  BY <1>1, <1>3, GoodInsert
<1>5. Mappings(m, p) = {}
  BY <1>1, <1>3 DEF Mappings
<1> QED BY <1>1, <1>2, <1>4, <1>5

-----------------------------------------------------------------------------
(* Loops over 0..N-1 written as recursive functions: the function exists,   *)
(* and what every round keeps holds at the end.  The induction is over a    *)
(* set of natural numbers, because the provers cannot instantiate the       *)
(* library's induction rules, which take a predicate.                       *)

\* Induction over the natural numbers, for a set.
LEMMA SetInduction ==
    ASSUME NEW S, 0 \in S, \A n \in Nat : n \in S => n + 1 \in S
    PROVE  Nat \subseteq S
<1> DEFINE T == {n \in Nat : n \notin S}
           Less == {x \in Nat \X Nat : x[1] < x[2]}
<1>1. IsWellFoundedOn(Less, Nat)
  <2>1. IsWellFoundedOn(OpToRel(<, Nat), Nat)
    BY NatLessThanWellFounded
  <2>2. OpToRel(<, Nat) = Less
    BY Z3 DEF OpToRel
  <2> QED BY <2>1, <2>2
<1> SUFFICES ASSUME T # {} PROVE FALSE
  OBVIOUS
<1>2. PICK x \in T : \A y \in T : ~(<<y, x>> \in Less)
  <2> HIDE DEF Less
  <2>1. T \subseteq Nat
    OBVIOUS
  <2> HIDE DEF T
  <2> QED BY <1>1, <2>1, WFMin
<1>3. x # 0
  OBVIOUS
<1>4. x - 1 \in Nat /\ <<x - 1, x>> \in Less
  BY <1>3
<1>5. x - 1 \in S
  BY <1>2, <1>4
<1> QED BY <1>4, <1>5

\* A loop of N rounds, each of which takes a state of S to a state of S, and
\* its run from state a: f[n] is the state after n rounds.
Loops(S, N) == [S \X (0..N-1) -> S]
IsRun(N, S, a, step, f) ==
    /\ f \in [0..N -> S] /\ f[0] = a
    /\ \A n \in 0..N-1 : f[n+1] = step[<<f[n], n>>]

\* A loop has a run.
LEMMA LoopRuns ==
    ASSUME NEW N \in Nat, NEW S, NEW a \in S, NEW step \in Loops(S, N)
    PROVE  \E f : IsRun(N, S, a, step, f)
<1>0. step \in [S \X (0..N-1) -> S]
  BY DEF Loops
<1> DEFINE Run(n, f) == f[0] = a /\ \A k \in 0..n-1 : f[k+1] = step[<<f[k], k>>]
           D == {n \in Nat : n <= N => \E f \in [0..n -> S] : Run(n, f)}
<1>1. 0 \in D
  <2>1. [k \in 0..0 |-> a] \in [0..0 -> S] /\ Run(0, [k \in 0..0 |-> a])
    OBVIOUS
  <2> QED BY <2>1
<1>2. ASSUME NEW n \in Nat, n \in D PROVE n + 1 \in D
  <2> SUFFICES ASSUME n + 1 <= N PROVE \E g \in [0..n+1 -> S] : Run(n + 1, g)
    OBVIOUS
  <2>1. PICK f \in [0..n -> S] : Run(n, f)
    BY <1>2
  <2> DEFINE g == [k \in 0..n+1 |-> IF k = n + 1 THEN step[<<f[n], n>>] ELSE f[k]]
  <2>2. f[n] \in S /\ n \in 0..N-1
    OBVIOUS
  <2>3. step[<<f[n], n>>] \in S
    BY <1>0, <2>2
  <2>4. g \in [0..n+1 -> S]
    BY <2>3
  <2>5. Run(n + 1, g)
    <3>1. g[0] = a
      BY <2>1
    <3>2. ASSUME NEW k \in 0..n PROVE g[k+1] = step[<<g[k], k>>]
      <4>1. CASE k = n
        <5>1. g[n+1] = step[<<f[n], n>>] /\ g[n] = f[n]
          OBVIOUS
        <5> HIDE DEF g
        <5> QED BY <4>1, <5>1
      <4>2. CASE k # n
        <5>1. k \in 0..n-1 /\ k + 1 \in 0..n /\ k + 1 # n + 1 /\ k # n + 1
          BY <4>2
        <5>2. g[k+1] = f[k+1] /\ g[k] = f[k]
          BY <5>1
        <5>3. f[k+1] = step[<<f[k], k>>]
          BY <2>1, <5>1
        <5> HIDE DEF g
        <5> QED BY <5>2, <5>3
      <4> QED BY <4>1, <4>2
    <3>3. n + 1 - 1 = n
      OBVIOUS
    <3> HIDE DEF g
    <3> QED BY <3>1, <3>2, <3>3
  <2> QED BY <2>4, <2>5
<1>3. N \in D
  <2> HIDE DEF D
  <2> QED BY <1>1, <1>2, SetInduction
<1> QED BY <1>3 DEF IsRun

\* What holds of the first state, and of the next when it holds of one, holds
\* of the last.
LEMMA LoopKeeps ==
    ASSUME NEW N \in Nat, NEW S, NEW f, f[0] \in S, \A n \in 0..N-1 : f[n] \in S => f[n+1] \in S
    PROVE  f[N] \in S
<1> DEFINE D == {n \in Nat : n <= N => f[n] \in S}
<1>1. 0 \in D
  OBVIOUS
<1>2. ASSUME NEW n \in Nat, n \in D PROVE n + 1 \in D
  <2> SUFFICES ASSUME n + 1 <= N PROVE f[n+1] \in S
    OBVIOUS
  <2>1. n \in 0..N-1 /\ f[n] \in S
    BY <1>2
  <2> QED BY <2>1
<1>3. N \in D
  <2> HIDE DEF D
  <2> QED BY <1>1, <1>2, SetInduction
<1> QED BY <1>3

-----------------------------------------------------------------------------
(* The loops of env_free.                                                   *)

\* The pages of a page table, by their place in it.
LEMMA TableVas ==
    ASSUME NEW i \in Pdxs, NEW j \in 0..NPte-1 PROVE i * NPte + j \in Vas
<1>1. i \in Nat /\ j \in Nat /\ NPte \in Nat /\ NPde \in Nat /\ i + 1 <= NPde /\ j + 1 <= NPte
  BY PageTablesAssumption DEF Pdxs
<1>2. (i + 1) * NPte <= NPde * NPte
  BY <1>1
<1>3. (i + 1) * NPte = i * NPte + NPte
  BY <1>1
<1>4. i * NPte \in Nat /\ NPde * NPte \in Nat
  BY <1>1
<1> QED BY <1>1, <1>2, <1>3, <1>4 DEF Vas

\* One round of the inner loop after another.
TableRounds(m, e, i, f) ==
    f = [j \in 0..NPte |-> IF j = 0 THEN m ELSE PageRemove(f[j - 1], e, i * NPte + (j - 1))]

\* The inner loop stays in any set of memories that page_remove does not
\* leave.
LEMMA FreeTableRuns ==
    ASSUME NEW m, NEW e \in Envs, NEW i \in Pdxs, NEW t, t = m.pde[<<e, i>>],
           t # NULL, NEW S, m \in S, \A k \in S, va \in Vas : PageRemove(k, e, va) \in S,
           NEW n, n = FreeTable(m, e, i)
    PROVE  \E k \in S : n = PageDecref(SetPde(k, e, i, NULL), t)
<1> DEFINE step == [x \in S \X (0..NPte-1) |-> PageRemove(x[1], e, i * NPte + x[2])]
<1>1. step \in Loops(S, NPte)
  <2> SUFFICES ASSUME NEW x \in S \X (0..NPte-1) PROVE PageRemove(x[1], e, i * NPte + x[2]) \in S
    BY DEF Loops
  <2>1. i * NPte + x[2] \in Vas
    BY TableVas
  <2> QED BY <2>1
<1>2. \E f : TableRounds(m, e, i, f)
  <2>0. PICK f : IsRun(NPte, S, m, step, f)
    <3> HIDE DEF step
    <3>1. NPte \in Nat
      BY PageTablesAssumption
    <3> QED BY <1>1, <3>1, LoopRuns
  <2>1. /\ f \in [0..NPte -> S] /\ f[0] = m
        /\ \A j \in 0..NPte-1 : f[j+1] = step[<<f[j], j>>]
    <3> HIDE DEF step
    <3> QED BY <2>0 DEF IsRun
  <2>2. ASSUME NEW j \in 0..NPte
        PROVE  f[j] = IF j = 0 THEN m ELSE PageRemove(f[j - 1], e, i * NPte + (j - 1))
    <3>1. CASE j = 0
      BY <2>1, <3>1
    <3>2. CASE j # 0
      <4>1. j - 1 \in 0..NPte-1 /\ (j - 1) + 1 = j
        BY <3>2, PageTablesAssumption
      <4>2. f[j] = step[<<f[j - 1], j - 1>>]
        BY <2>1, <4>1
      <4>3. <<f[j - 1], j - 1>> \in S \X (0..NPte-1)
        BY <2>1, <4>1, PageTablesAssumption
      <4>4. f[j] = PageRemove(f[j - 1], e, i * NPte + (j - 1))
        BY <4>2, <4>3
      <4> QED BY <3>2, <4>4
    <3> QED BY <3>1, <3>2
  <2>3. TableRounds(m, e, i, f)
    BY <2>1, <2>2 DEF TableRounds
  <2> QED BY <2>3
<1>3. PICK f : f = CHOOSE g : TableRounds(m, e, i, g)
  OBVIOUS
<1>4. TableRounds(m, e, i, f)
  BY <1>2, <1>3, Zenon
<1>5. n = PageDecref(SetPde(f[NPte], e, i, NULL), t)
  BY <1>3, Zenon DEF FreeTable, TableRounds
<1>6. f[0] = m /\ \A j \in 0..NPte-1 : f[j+1] = PageRemove(f[j], e, i * NPte + j)
  <2>1. \A j \in 0..NPte :
            f[j] = IF j = 0 THEN m ELSE PageRemove(f[j - 1], e, i * NPte + (j - 1))
    BY <1>4 DEF TableRounds
  <2>2. 0 \in 0..NPte
    BY PageTablesAssumption
  <2>3. ASSUME NEW j \in 0..NPte-1 PROVE f[j+1] = PageRemove(f[j], e, i * NPte + j)
    <3>1. j + 1 \in 0..NPte /\ j + 1 # 0 /\ (j + 1) - 1 = j
      BY PageTablesAssumption
    <3>2. f[j+1] = PageRemove(f[(j+1) - 1], e, i * NPte + ((j+1) - 1))
      BY <2>1, <3>1
    <3> QED BY <3>1, <3>2
  <2> QED BY <2>1, <2>2, <2>3
<1>7. f[NPte] \in S
  <2>1. ASSUME NEW j \in 0..NPte-1, f[j] \in S PROVE f[j+1] \in S
    <3>1. i * NPte + j \in Vas
      BY TableVas
    <3> QED BY <1>6, <2>1, <3>1
  <2> QED BY <1>6, <2>1, LoopKeeps, PageTablesAssumption
<1> QED BY <1>5, <1>7

\* One round of the outer loop after another.
DirRounds(m, e, f) ==
    f = [i \in 0..NPde |-> IF i = 0 THEN m ELSE FreeTable(f[i - 1], e, i - 1)]

\* The outer loop stays in any set of memories that freeing a table does not
\* leave.
LEMMA EnvFreeRuns ==
    ASSUME NEW m, NEW e \in Envs, NEW S, m \in S, \A k \in S, i \in Pdxs : FreeTable(k, e, i) \in S,
           NEW n, n = EnvFree(m, e)
    PROVE  \E k \in S : n = PageDecref(SetDir(k, e, NULL), m.dir[e])
<1> DEFINE step == [x \in S \X (0..NPde-1) |-> FreeTable(x[1], e, x[2])]
<1>1. step \in Loops(S, NPde)
  BY DEF Loops, Pdxs
<1>2. \E f : DirRounds(m, e, f)
  <2>0. PICK f : IsRun(NPde, S, m, step, f)
    <3> HIDE DEF step
    <3>1. NPde \in Nat
      BY PageTablesAssumption
    <3> QED BY <1>1, <3>1, LoopRuns
  <2>1. /\ f \in [0..NPde -> S] /\ f[0] = m
        /\ \A i \in 0..NPde-1 : f[i+1] = step[<<f[i], i>>]
    <3> HIDE DEF step
    <3> QED BY <2>0 DEF IsRun
  <2>2. ASSUME NEW i \in 0..NPde
        PROVE  f[i] = IF i = 0 THEN m ELSE FreeTable(f[i - 1], e, i - 1)
    <3>1. CASE i = 0
      BY <2>1, <3>1
    <3>2. CASE i # 0
      <4>1. i - 1 \in 0..NPde-1 /\ (i - 1) + 1 = i
        BY <3>2, PageTablesAssumption
      <4>2. f[i] = step[<<f[i - 1], i - 1>>]
        BY <2>1, <4>1
      <4>3. <<f[i - 1], i - 1>> \in S \X (0..NPde-1)
        BY <2>1, <4>1, PageTablesAssumption
      <4>4. f[i] = FreeTable(f[i - 1], e, i - 1)
        BY <4>2, <4>3
      <4> QED BY <3>2, <4>4
    <3> QED BY <3>1, <3>2
  <2>3. DirRounds(m, e, f)
    BY <2>1, <2>2 DEF DirRounds
  <2> QED BY <2>3
<1>3. PICK f : f = CHOOSE g : DirRounds(m, e, g)
  OBVIOUS
<1>4. DirRounds(m, e, f)
  BY <1>2, <1>3, Zenon
<1>5. n = PageDecref(SetDir(f[NPde], e, NULL), m.dir[e])
  BY <1>3, Zenon DEF EnvFree, DirRounds
<1>6. f[0] = m /\ \A i \in 0..NPde-1 : f[i+1] = FreeTable(f[i], e, i)
  <2>1. \A i \in 0..NPde : f[i] = IF i = 0 THEN m ELSE FreeTable(f[i - 1], e, i - 1)
    BY <1>4 DEF DirRounds
  <2>2. 0 \in 0..NPde
    BY PageTablesAssumption
  <2>3. ASSUME NEW i \in 0..NPde-1 PROVE f[i+1] = FreeTable(f[i], e, i)
    <3>1. i + 1 \in 0..NPde /\ i + 1 # 0 /\ (i + 1) - 1 = i
      BY PageTablesAssumption
    <3>2. f[i+1] = FreeTable(f[(i+1) - 1], e, (i+1) - 1)
      BY <2>1, <3>1
    <3> QED BY <3>1, <3>2
  <2> QED BY <2>1, <2>2, <2>3
<1>7. f[NPde] \in S
  <2>1. ASSUME NEW i \in 0..NPde-1, f[i] \in S PROVE f[i+1] \in S
    BY <1>6, <2>1 DEF Pdxs
  <2> QED BY <1>6, <2>1, LoopKeeps, PageTablesAssumption
<1> QED BY <1>5, <1>7

\* Memory n has the entries of m, but for some of e's that are erased.
Erased(m, n, e) ==
    \A f \in Envs, va \in Vas :
        \/ n.pte[<<f, va>>] = m.pte[<<f, va>>]
        \/ f = e /\ n.pte[<<f, va>>] = Absent

Unmapped(m, e) == {k \in Shape : k.dir = m.dir /\ Erased(m, k, e)}

\* page_remove erases nothing else.
LEMMA RemoveErases ==
    ASSUME NEW m, NEW e \in Envs, NEW k \in Unmapped(m, e), NEW va \in Vas,
           NEW n, n = PageRemove(k, e, va)
    PROVE  n \in Unmapped(m, e) /\ n.pde = k.pde
<1>1. /\ n \in Shape /\ n.pte = Put(k.pte, <<e, va>>, Absent)
      /\ n.dir = k.dir /\ n.pde = k.pde /\ Len(n.free) >= Len(k.free)
  BY PageRemoveIs DEF Unmapped
<1>2. k.dir = m.dir /\ Erased(m, k, e) /\ k.pte \in [Envs \X Vas -> Ptes]
  BY DEF Unmapped, Shape, PteSets
<1>3. Erased(m, n, e)
  BY <1>1, <1>2 DEF Erased, Put
<1> QED BY <1>1, <1>2, <1>3 DEF Unmapped

\* Freeing a page table, of any memory on the way.
LEMMA FreeTableErases ==
    ASSUME NEW m, NEW e \in Envs, NEW k \in Unmapped(m, e), NEW i \in Pdxs,
           NEW n, n = FreeTable(k, e, i)
    PROVE  n \in Unmapped(m, e)
<1>1. CASE k.pde[<<e, i>>] = NULL
  BY <1>1 DEF FreeTable
<1>2. CASE k.pde[<<e, i>>] # NULL
  <2>1. PICK t : t = k.pde[<<e, i>>]
    OBVIOUS
  <2>2. k \in Shape /\ Erased(m, k, e) /\ k.dir = m.dir
    BY DEF Unmapped
  <2>3. t \in Frames
    BY <1>2, <2>1, <2>2 DEF Shape, PdeSets
  <2>4. k \in Unmapped(m, e) /\ \A j \in Unmapped(m, e), va \in Vas : PageRemove(j, e, va) \in Unmapped(m, e)
    BY RemoveErases
  <2>5. PICK j \in Unmapped(m, e) : n = PageDecref(SetPde(j, e, i, NULL), t)
    <3> DEFINE S == Unmapped(m, e)
    <3>1. k \in S /\ \A l \in S, va \in Vas : PageRemove(l, e, va) \in S
      BY <2>4
    <3> HIDE DEF S
    <3>2. \E j \in S : n = PageDecref(SetPde(j, e, i, NULL), t)
      <4>1. t # NULL
        BY <1>2, <2>1
      <4> QED BY <2>1, <3>1, <4>1, FreeTableRuns
    <3> QED BY <3>2 DEF S
  <2>6. PICK j1 : j1 = SetPde(j, e, i, NULL)
    OBVIOUS
  <2>7. j \in Shape /\ j.dir = m.dir /\ Erased(m, j, e) /\ NULL \in Frames \cup {NULL}
    BY DEF Unmapped
  <2>8. /\ j1 \in Shape /\ j1.pde = Put(j.pde, <<e, i>>, NULL)
        /\ j1.free = j.free /\ j1.ref = j.ref /\ j1.dir = j.dir /\ j1.pte = j.pte
        /\ j1.panic = j.panic
    BY <2>6, <2>7, SetPdeIs
  <2>9. n = PageDecref(j1, t)
    BY <2>5, <2>6
  <2>10. n \in Shape /\ n.dir = j1.dir /\ n.pte = j1.pte
    BY <2>3, <2>8, <2>9, PageDecrefIs
  <2>11. Erased(m, n, e)
    BY <2>7, <2>8, <2>10 DEF Erased
  <2> QED BY <2>7, <2>8, <2>10, <2>11 DEF Unmapped
<1> QED BY <1>1, <1>2

\* env_free of an environment that has a page directory.
LEMMA EnvFreeIs ==
    ASSUME NEW m \in Shape, NEW e \in Envs, m.dir[e] # NULL, NEW n, n = EnvFree(m, e)
    PROVE  n \in Shape /\ n.dir = Put(m.dir, e, NULL) /\ Erased(m, n, e)
<1>1. m \in Unmapped(m, e)
  BY DEF Unmapped, Erased
<1>2. PICK d : d = m.dir[e]
  OBVIOUS
<1>3. d \in Frames
  BY <1>2 DEF Shape, DirSets
<1>4. PICK k \in Unmapped(m, e) : n = PageDecref(SetDir(k, e, NULL), d)
  <2> DEFINE S == Unmapped(m, e)
  <2>1. m \in S /\ \A k \in S, i \in Pdxs : FreeTable(k, e, i) \in S
    BY <1>1, FreeTableErases
  <2> HIDE DEF S
  <2>2. \E k \in S : n = PageDecref(SetDir(k, e, NULL), d)
    BY <1>2, <2>1, EnvFreeRuns
  <2> QED BY <2>2 DEF S
<1>5. k \in Shape /\ k.dir = m.dir /\ Erased(m, k, e) /\ NULL \in Frames \cup {NULL}
  BY DEF Unmapped
<1>6. PICK k1 : k1 = SetDir(k, e, NULL)
  OBVIOUS
<1>7. /\ k1 \in Shape /\ k1.dir = Put(k.dir, e, NULL)
      /\ k1.free = k.free /\ k1.ref = k.ref /\ k1.pde = k.pde /\ k1.pte = k.pte
      /\ k1.panic = k.panic
  BY <1>5, <1>6, SetDirIs
<1>8. n \in Shape /\ n.dir = k1.dir /\ n.pte = k1.pte
  <2>1. n = PageDecref(k1, d)
    BY <1>4, <1>6
  <2> QED BY <1>3, <1>7, <2>1, PageDecrefIs
<1>9. Erased(m, n, e)
  BY <1>5, <1>7, <1>8 DEF Erased
<1> QED BY <1>5, <1>7, <1>8, <1>9

\* Memories in order, with the tables of memory m or without.
Sound(panic) == {k \in Shape : Good(k, Zero, {}) /\ k.panic = panic}
SoundHere(panic, pde, dir) == {k \in Sound(panic) : k.pde = pde /\ k.dir = dir}

\* Freeing a page table keeps memory in order.
LEMMA GoodFreeTable ==
    ASSUME NEW m, Good(m, Zero, {}), NEW e \in Envs, NEW i \in Pdxs,
           NEW n, n = FreeTable(m, e, i)
    PROVE  Good(n, Zero, {}) /\ n.panic = m.panic /\ n.dir = m.dir
<1>1. CASE m.pde[<<e, i>>] = NULL
  BY <1>1 DEF FreeTable
<1>2. CASE m.pde[<<e, i>>] # NULL
  <2>1. PICK t : t = m.pde[<<e, i>>]
    OBVIOUS
  <2>2. PICK S : S = SoundHere(m.panic, m.pde, m.dir)
    OBVIOUS
  <2>3. t \in Pages /\ t \in Frames /\ t # NULL
    <3>1. m.pde \in [Envs \X Pdxs -> Pages \cup {NULL}]
      BY DEF Good, OnlyPages
    <3> QED BY <1>2, <2>1, <3>1, PageTablesAssumption DEF Frames
  <2>4. m \in S
    BY <2>2 DEF SoundHere, Sound, Good
  <2>5. ASSUME NEW k \in S, NEW va \in Vas PROVE PageRemove(k, e, va) \in S
    <3>1. PICK k1 : k1 = PageRemove(k, e, va)
      OBVIOUS
    <3>2. Good(k, Zero, {}) /\ k.panic = m.panic /\ k.pde = m.pde /\ k.dir = m.dir
      BY <2>2 DEF SoundHere, Sound
    <3>3. NoDebt(Zero)
      BY ZeroHeld
    <3>4. /\ Good(k1, Zero, {})
          /\ k1.pte = Put(k.pte, <<e, va>>, Absent)
          /\ k1.dir = k.dir /\ k1.pde = k.pde /\ k1.panic = k.panic
      BY <3>1, <3>2, <3>3, GoodRemove
    <3>5. k1 \in Shape
      BY <3>4 DEF Good
    <3> QED BY <2>2, <3>1, <3>2, <3>4, <3>5 DEF SoundHere, Sound
  <2>6. PICK k \in S : n = PageDecref(SetPde(k, e, i, NULL), t)
    <3>1. m \in S /\ \A l \in S, va \in Vas : PageRemove(l, e, va) \in S
      BY <2>4, <2>5
    <3>2. \E k \in S : n = PageDecref(SetPde(k, e, i, NULL), t)
      <4>1. t # NULL
        BY <1>2, <2>1
      <4> QED BY <2>1, <3>1, <4>1, FreeTableRuns
    <3> QED BY <3>2
  <2>7. Good(k, Zero, {}) /\ k.panic = m.panic /\ k.pde = m.pde /\ k.dir = m.dir
    BY <2>2, <2>6 DEF SoundHere, Sound
  <2>8. PICK k1 : k1 = SetPde(k, e, i, NULL)
    OBVIOUS
  <2>9. PICK h : h = Moved(Zero, t, NULL)
    OBVIOUS
  <2>10. h = Moved(Zero, k.pde[<<e, i>>], NULL) /\ NULL \in Pages \cup {NULL}
    BY <2>1, <2>7, <2>9
  <2>11. /\ Good(k1, h, {})
         /\ k1.pde = Put(k.pde, <<e, i>>, NULL)
         /\ k1.free = k.free /\ k1.ref = k.ref /\ k1.dir = k.dir /\ k1.pte = k.pte
         /\ k1.panic = k.panic
    BY <2>7, <2>8, <2>10, GoodSetPde
  <2>12. h \in [Frames -> Int] /\ h[t] = 1 /\ Zero = Minus(h, t)
    <3>1. \A p \in Frames : h[p] = IF p = t THEN 1 ELSE 0
      BY <2>3, <2>9, PageTablesAssumption DEF Moved, Zero, One
    <3>2. h \in [Frames -> Int]
      BY <2>11 DEF Good
    <3>3. Minus(h, t) \in [Frames -> Int] /\ \A p \in Frames : Minus(h, t)[p] = 0
      BY <2>3, <3>1, <3>2 DEF Minus
    <3>4. Zero \in [Frames -> Int] /\ \A p \in Frames : Zero[p] = 0
      BY DEF Zero
    <3>5. Zero = Minus(h, t)
      BY <3>3, <3>4
    <3> QED BY <2>3, <3>1, <3>2, <3>5
  <2>13. Count(k1, h, t) >= 1
    <3>1. Refs(k1, t) \in Nat
      BY PlacesFinite
    <3> QED BY <2>12, <3>1 DEF Count
  <2>14. n = PageDecref(k1, t)
    BY <2>6, <2>8
  <2>15. /\ Good(n, Zero, {})
         /\ n.dir = k1.dir /\ n.pde = k1.pde /\ n.pte = k1.pte /\ n.panic = k1.panic
    BY <2>3, <2>11, <2>12, <2>13, <2>14, GoodDecref
  <2> QED BY <2>7, <2>11, <2>15
<1> QED BY <1>1, <1>2

\* env_free keeps memory in order.
LEMMA GoodEnvFree ==
    ASSUME NEW m, Good(m, Zero, {}), NEW e \in Envs, m.dir[e] # NULL,
           NEW n, n = EnvFree(m, e)
    PROVE  Good(n, Zero, {}) /\ n.panic = m.panic
<1>1. PICK d : d = m.dir[e]
  OBVIOUS
<1>2. PICK S : S = {k \in Sound(m.panic) : k.dir = m.dir}
  OBVIOUS
<1>3. d \in Pages /\ d \in Frames /\ d # NULL
  <2>1. m.dir \in [Envs -> Pages \cup {NULL}]
    BY DEF Good, OnlyPages
  <2> QED BY <1>1, <2>1, PageTablesAssumption DEF Frames
<1>4. m \in S
  BY <1>2 DEF Sound, Good
<1>5. ASSUME NEW k \in S, NEW i \in Pdxs PROVE FreeTable(k, e, i) \in S
  <2>1. PICK k1 : k1 = FreeTable(k, e, i)
    OBVIOUS
  <2>2. Good(k, Zero, {}) /\ k.panic = m.panic /\ k.dir = m.dir
    BY <1>2 DEF Sound
  <2>3. Good(k1, Zero, {}) /\ k1.panic = k.panic /\ k1.dir = k.dir
    BY <2>1, <2>2, GoodFreeTable
  <2>4. k1 \in Shape
    BY <2>3 DEF Good
  <2> QED BY <1>2, <2>1, <2>2, <2>3, <2>4 DEF Sound
<1>6. PICK k \in S : n = PageDecref(SetDir(k, e, NULL), d)
  BY <1>1, <1>4, <1>5, EnvFreeRuns
<1>7. Good(k, Zero, {}) /\ k.panic = m.panic /\ k.dir = m.dir
  BY <1>2, <1>6 DEF Sound
<1>8. PICK k1 : k1 = SetDir(k, e, NULL)
  OBVIOUS
<1>9. PICK h : h = Moved(Zero, d, NULL)
  OBVIOUS
<1>10. h = Moved(Zero, k.dir[e], NULL) /\ NULL \in Pages \cup {NULL}
  BY <1>1, <1>7, <1>9
<1>11. /\ Good(k1, h, {})
       /\ k1.dir = Put(k.dir, e, NULL)
       /\ k1.free = k.free /\ k1.ref = k.ref /\ k1.pde = k.pde /\ k1.pte = k.pte
       /\ k1.panic = k.panic
  BY <1>7, <1>8, <1>10, GoodSetDir
<1>12. h \in [Frames -> Int] /\ h[d] = 1 /\ Zero = Minus(h, d)
  <2>1. \A p \in Frames : h[p] = IF p = d THEN 1 ELSE 0
    BY <1>3, <1>9, PageTablesAssumption DEF Moved, Zero, One
  <2>2. h \in [Frames -> Int]
    BY <1>11 DEF Good
  <2>3. Minus(h, d) \in [Frames -> Int] /\ \A p \in Frames : Minus(h, d)[p] = 0
    BY <1>3, <2>1, <2>2 DEF Minus
  <2>4. Zero \in [Frames -> Int] /\ \A p \in Frames : Zero[p] = 0
    BY DEF Zero
  <2>5. Zero = Minus(h, d)
    BY <2>3, <2>4
  <2> QED BY <1>3, <2>1, <2>2, <2>5
<1>13. Count(k1, h, d) >= 1
  <2>1. Refs(k1, d) \in Nat
    BY PlacesFinite
  <2> QED BY <1>12, <2>1 DEF Count
<1>14. n = PageDecref(k1, d)
  BY <1>6, <1>8
<1>15. /\ Good(n, Zero, {})
       /\ n.dir = k1.dir /\ n.pde = k1.pde /\ n.pte = k1.pte /\ n.panic = k1.panic
  BY <1>3, <1>11, <1>12, <1>13, <1>14, GoodDecref
<1> QED BY <1>7, <1>11, <1>15

-----------------------------------------------------------------------------
\* page_init leaves memory in order.
LEMMA GoodFresh ==
    /\ Good(FreshMem, Zero, {}) /\ FreshMem.free = FirstFree /\ FreshMem.ref[Vga] = 1
    /\ FreshMem.panic = FALSE
    /\ \A e \in Envs : FreshMem.dir[e] = NULL
    /\ \A x \in Envs \X Vas : FreshMem.pte[x] = Absent
<1>1. PICK m : m = FreshMem
  OBVIOUS
<1>2. /\ m.free = FirstFree /\ m.ref = [p \in Frames |-> IF p = Vga THEN 1 ELSE 0]
      /\ m.dir = [e \in Envs |-> NULL] /\ m.pde = [x \in Envs \X Pdxs |-> NULL]
      /\ m.pte = [x \in Envs \X Vas |-> Absent] /\ m.panic = FALSE
  BY <1>1 DEF FreshMem
<1>3. FirstFree \in Seq(Pages) /\ FirstFree \in Seq(Frames)
  <2>1. FirstFree \in Seq(Pages) /\ Pages \subseteq Frames
    BY PageTablesAssumption DEF Frames
  <2> QED BY <2>1
<1>4. m \in Shape
  <2>1. m = [free |-> m.free, ref |-> m.ref, dir |-> m.dir, pde |-> m.pde, pte |-> m.pte,
             panic |-> m.panic]
    BY <1>1 DEF FreshMem
  <2>2. /\ m.free \in FreeLists /\ m.dir \in DirSets
        /\ m.pde \in PdeSets /\ m.panic \in BOOLEAN
    BY <1>2, <1>3 DEF FreeLists, DirSets, PdeSets
  <2>3. m.ref \in RefCounts
    BY <1>2, PageTablesAssumption DEF RefCounts
  <2>4. m.pte \in PteSets
    BY <1>2 DEF PteSets, Ptes
  <2> QED BY <2>1, <2>2, <2>3, <2>4 DEF Shape
<1>5. OnlyPages(m)
  BY <1>2, <1>3 DEF OnlyPages
<1>6. ASSUME NEW p \in Frames
      PROVE  /\ Mappings(m, p) = {} /\ Tables(m, p) = {} /\ Directories(m, p) = {}
             /\ Count(m, Zero, p) = 0
  <2>1. p # NULL
    BY PageTablesAssumption
  <2>2. Mappings(m, p) = {} /\ Tables(m, p) = {} /\ Directories(m, p) = {}
    BY <1>2, <2>1 DEF Mappings, Tables, Directories, Absent
  <2>3. Cardinality(Mappings(m, p)) = 0 /\ Cardinality(Tables(m, p)) = 0
        /\ Cardinality(Directories(m, p)) = 0
    BY <2>2, PlacesFinite
  <2>4. Refs(m, p) = 0
    BY <2>3 DEF Refs
  <2> QED BY <2>2, <2>4 DEF Count, Zero
<1>7. CountsExact(m, Zero)
  BY <1>2, <1>6 DEF CountsExact, One
<1>8. FreeExact(m, Zero, {})
  <2>1. DOMAIN FirstFree = 1..Len(FirstFree)
    BY <1>3
  <2>2. NoRepeat(FirstFree) /\ \A p \in Pages : Listed(FirstFree, p)
    BY <2>1, PageTablesAssumption DEF NoRepeat, Listed, Pages
  <2> QED BY <1>2, <1>6, <2>2 DEF FreeExact, Frames
<1>9. Separate(m)
  BY <1>6 DEF Separate, Frames
<1>10. Zero \in [Frames -> Int]
  BY DEF Zero
<1>11. Good(m, Zero, {})
  BY <1>4, <1>5, <1>7, <1>8, <1>9, <1>10 DEF Good
<1> QED BY <1>1, <1>2, <1>11 DEF Frames
=============================================================================
