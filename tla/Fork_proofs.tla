----------------------------- MODULE Fork_proofs -----------------------------
(***************************************************************************)
(* Proofs about module Fork, for any layout of the program, any amount of  *)
(* memory it fits in and any number of pages that other environments take  *)
(* while it copies: fork_v0 and dumbfork lose no page, leave the parent's  *)
(* memory alone and, when they succeed, make a copy of it.                 *)
(***************************************************************************)
EXTENDS Fork, PageTables_proofs

-----------------------------------------------------------------------------
(* The inductive invariant.                                                 *)

\* A page that another environment took counts one reference, which parent
\* and child do not hold.
Held == [p \in Frames |-> IF p \in stolen THEN 1 ELSE 0]

MemGood == Good(mem, Held, {})

Types ==
    /\ data \in [Frames -> Contents]
    /\ how \in {"fork", "dumbfork"} /\ pc \in Pcs /\ va \in 0..UTOP
    /\ arg \in [page : Vas, perm : SUBSET Bits]
    /\ status \in {"ENV_FREE", "ENV_NOT_RUNNABLE", "ENV_RUNNABLE"}
    /\ stolen \subseteq Pages
    /\ mem.panic => pc = "scan"
    /\ status = "ENV_RUNNABLE" => pc \in {"parent", "child"}

\* The pages of a program, and the program that called fork: nobody else maps
\* its stack, not even the program itself at a second address.
Used == {VgaUser, DataVa, MoreVa, StackVa}
Called ==
    /\ before.pte \in [Vas -> Ptes]
    /\ \A v \in Vas \ Used : before.pte[v] = Absent
    /\ before.pte[VgaUser] = Entry(Vga, Bits)
    /\ before.pte[DataVa].perm = RW /\ before.pte[StackVa].perm = RW
    /\ \A v \in Vas : before.pte[v].page = before.pte[StackVa].page => v = StackVa
    /\ how = "dumbfork" => before.pte[MoreVa] # Absent

\* What the child gets at page v.
Shared(v) == v = VgaUser \/ (how = "fork" /\ Share(before.pte[v].perm))
CopyPerm(v) == IF how = "fork" \/ v = VgaUser THEN before.pte[v].perm ELSE RW

ParentKept ==
    \A v \in Vas \ {UTEMP} :
        /\ mem.pte[<<Parent, v>>] = before.pte[v]
        /\ before.pte[v] # Absent => data[before.pte[v].page].tag = before.tag[v]

\* The scratch page is the page being copied, and unmapped otherwise.
Lent == pc \in {"copy", "unmap"}
Scratch ==
    /\ Lent => mem.pte[<<Parent, UTEMP>>].page = mem.pte[<<Child, arg.page>>].page
    /\ ~Lent => mem.pte[<<Parent, UTEMP>>] = Absent

\* The loop, and the arguments of dup_or_share or duppage.
LoopStart == IF how = "fork" THEN 0 ELSE DataVa
InLoop == pc \notin {"exofork", "panic"} => LoopStart <= va /\ va <= LoopEnd
InCall == pc \in {"map", "alloc", "maptemp", "copy", "unmap"}
ArgOK ==
    InCall =>
        /\ arg.page = IF va = LoopEnd THEN StackVa ELSE va
        /\ arg.perm = CopyPerm(arg.page)
        /\ before.pte[arg.page] # Absent
        /\ Shared(arg.page) <=> pc = "map"

\* The pages the child has got.
Given == pc \in {"maptemp", "copy", "unmap"}
Ready == pc \in {"start", "parent"}
Done(v) ==
    /\ before.pte[v] # Absent
    /\ \/ v = VgaUser \/ (LoopStart <= v /\ v < va)
       \/ Given /\ v = arg.page
       \/ Ready

\* The frame of a page that is not shared is the child's alone, but for the
\* scratch page while it is filled.
Alone(v) ==
    \A e \in Envs, u \in Vas :
        mem.pte[<<e, u>>].page = mem.pte[<<Child, v>>].page =>
            \/ e = Child /\ u = v
            \/ e = Parent /\ u = UTEMP /\ Lent /\ v = arg.page

\* The pages that hold what the parent's hold: not the stack, until it has
\* been copied for the second time.
Same(v) ==
    \/ v # StackVa /\ ~(pc \in {"maptemp", "copy"} /\ v = arg.page)
    \/ pc = "unmap" /\ v = arg.page
    \/ Ready

Copied(v) ==
    /\ mem.pte[<<Child, v>>] # Absent
    /\ mem.pte[<<Child, v>>].perm = CopyPerm(v)
    /\ Shared(v) => mem.pte[<<Child, v>>].page = before.pte[v].page
    /\ ~Shared(v) => Alone(v)
    /\ ~Shared(v) /\ Same(v) =>
          data[mem.pte[<<Child, v>>].page] = data[before.pte[v].page]

Copying == pc \notin {"exofork", "panic", "child"} /\ ~mem.panic
ChildOK ==
    Copying => \A v \in Vas : IF Done(v) THEN Copied(v) ELSE mem.pte[<<Child, v>>] = Absent

NoChild ==
    pc = "exofork" => mem.dir[Child] = NULL /\ \A v \in Vas : mem.pte[<<Child, v>>] = Absent

ForkInv ==
    /\ Types /\ MemGood /\ Called /\ ParentKept /\ Scratch /\ InLoop /\ ArgOK
    /\ ChildOK /\ NoChild

-----------------------------------------------------------------------------
(* Memory.                                                                  *)

LEMMA HeldIs ==
    ASSUME Types
    PROVE  NoDebt(Held) /\ Held \in [Frames -> Int] /\ \A p \in Frames : Held[p] <= 1
BY DEF Held, NoDebt, Types

\* The pages that parent or child may have mapped.
Places == Used \cup {UTEMP}
OnlyPlaces(m) == \A x \in Envs \X Vas : m.pte[x] # Absent => x[2] \in Places

\* One element more.
AtMost(S, k) == IsFiniteSet(S) /\ Cardinality(S) \in Nat /\ Cardinality(S) <= k

LEMMA AddOne ==
    ASSUME NEW S, NEW k \in Nat, AtMost(S, k), NEW x PROVE AtMost(S \cup {x}, k + 1)
<1>1. IsFiniteSet(S) /\ Cardinality(S) \in Nat /\ Cardinality(S) <= k
  BY DEF AtMost
<1>2. PICK T : T = S \cup {x}
  OBVIOUS
<1>3. IsFiniteSet(T) /\ Cardinality(T) = IF x \in S THEN Cardinality(S) ELSE Cardinality(S) + 1
  BY <1>1, <1>2, FS_AddElement
<1>4. PICK n \in Nat : n = Cardinality(S) /\ n <= k
  BY <1>1
<1>5. Cardinality(T) = n \/ Cardinality(T) = n + 1
  BY <1>3, <1>4
<1>6. AtMost(T, k + 1)
  BY <1>3, <1>4, <1>5 DEF AtMost
<1> QED BY <1>2, <1>6

\* There are few of them.
LEMMA PlacesFew ==
    /\ IsFiniteSet(Envs \X Places) /\ Cardinality(Envs \X Places) \in Nat
    /\ Cardinality(Envs \X Places) <= 10
<1>1. PICK A, B, C, D : A = {VgaUser} /\ B = A \cup {DataVa} /\ C = B \cup {MoreVa}
                        /\ D = C \cup {StackVa}
  OBVIOUS
<1>2. Places = D \cup {UTEMP}
  BY <1>1 DEF Places, Used
<1>3. AtMost(A, 1)
  <2>1. IsFiniteSet({VgaUser}) /\ Cardinality({VgaUser}) = 1
    BY FS_Singleton
  <2>2. Cardinality(A) = 1 /\ IsFiniteSet(A)
    BY <1>1, <2>1
  <2> QED BY <2>2 DEF AtMost
<1>4. AtMost(B, 2)
  <2>1. AtMost(A \cup {DataVa}, 1 + 1)
    BY <1>3, AddOne
  <2> QED BY <1>1, <2>1
<1>5. AtMost(C, 3)
  <2>1. AtMost(B \cup {MoreVa}, 2 + 1)
    BY <1>4, AddOne
  <2> QED BY <1>1, <2>1
<1>6. AtMost(D, 4)
  <2>1. AtMost(C \cup {StackVa}, 3 + 1)
    BY <1>5, AddOne
  <2> QED BY <1>1, <2>1
<1>7. IsFiniteSet(Places) /\ Cardinality(Places) \in Nat /\ Cardinality(Places) <= 5
  <2>1. AtMost(D \cup {UTEMP}, 4 + 1)
    BY <1>6, AddOne
  <2> QED BY <1>2, <2>1 DEF AtMost
<1>8. IsFiniteSet(Envs) /\ Cardinality(Envs) = 2
  <2>1. PICK P : P = {Parent}
    OBVIOUS
  <2>2. Envs = P \cup {Child} /\ Child \notin P
    BY <2>1, ForkAssumption
  <2>3. IsFiniteSet(P) /\ Cardinality(P) = 1
    BY <2>1, FS_Singleton
  <2> QED BY <2>2, <2>3, FS_AddElement
<1>9. /\ IsFiniteSet(Envs \X Places)
      /\ Cardinality(Envs \X Places) = Cardinality(Envs) * Cardinality(Places)
  BY <1>7, <1>8, FS_Product
<1>10. PICK k \in Nat : k = Cardinality(Places) /\ k <= 5
  BY <1>7
<1>11. Cardinality(Envs \X Places) = 2 * k
  BY <1>8, <1>9, <1>10
<1> QED BY <1>9, <1>10, <1>11

\* So pp_ref of a frame that is mapped is far from its limit.
LEMMA FewRefs ==
    ASSUME NEW m, NEW held, Good(m, held, {}), NoDebt(held), \A p \in Frames : held[p] <= 1,
           OnlyPlaces(m), NEW p \in Frames, p = Vga \/ Mappings(m, p) # {}
    PROVE  m.ref[p] + 1 < RefMod
<1>1. Tables(m, p) = {} /\ Directories(m, p) = {}
  <2>1. CASE p = Vga
    <3>1. /\ m.dir \in [Envs -> Pages \cup {NULL}]
          /\ m.pde \in [Envs \X Pdxs -> Pages \cup {NULL}]
      BY DEF Good, OnlyPages
    <3>2. Vga \notin Pages \cup {NULL}
      BY PageTablesAssumption DEF Frames
    <3> QED BY <2>1, <3>1, <3>2 DEF Tables, Directories
  <2>2. CASE p # Vga
    BY <2>2 DEF Good, Separate, Frames
  <2> QED BY <2>1, <2>2
<1>2. Mappings(m, p) \subseteq Envs \X Places
  <2> SUFFICES ASSUME NEW x \in Envs \X Vas, m.pte[x].page = p PROVE x \in Envs \X Places
    BY DEF Mappings
  <2>1. m.pte[x] # Absent
    BY PageTablesAssumption DEF Absent
  <2> QED BY <2>1 DEF OnlyPlaces
<1>3. /\ Cardinality(Mappings(m, p)) \in Nat
      /\ Cardinality(Mappings(m, p)) <= Cardinality(Envs \X Places)
  BY <1>2, PlacesFew, PlacesFinite, FS_Subset
<1>4. Refs(m, p) \in Nat /\ Refs(m, p) <= 10
  <2>1. Cardinality(Tables(m, p)) = 0 /\ Cardinality(Directories(m, p)) = 0
    BY <1>1, PlacesFinite
  <2> QED BY <1>3, <2>1, PlacesFew DEF Refs
<1>5. held[p] \in Int /\ held[p] <= 1
  BY DEF Good
<1>6. m.ref[p] = Refs(m, p) + held[p] + One(p, Vga)
  BY DEF Good, CountsExact, Count
<1>7. One(p, Vga) \in 0..1
  BY DEF One
<1> QED BY <1>4, <1>5, <1>6, <1>7, ForkAssumption, PageTablesAssumption

\* The page that page_alloc gives is mapped nowhere.
LEMMA FreshPage ==
    ASSUME NEW m, NEW held, Good(m, held, {}), NoDebt(held), HasFree(m), NEW q, q = Top(m)
    PROVE  q \in Pages /\ \A x \in Envs \X Vas : m.pte[x].page # q
<1>1. PICK m1 : m1 = PageAlloc(m)
  OBVIOUS
<1>2. /\ Good(m1, held, With({}, q)) /\ q \in Pages \ {} /\ m1.pte = m.pte
  BY <1>1, GoodAlloc
<1>3. Mappings(m1, q) = {}
  <2>1. q \in With({}, q)
    BY DEF With
  <2> QED BY <1>2, <2>1, LooseMappable
<1> QED BY <1>2, <1>3 DEF Mappings

-----------------------------------------------------------------------------
(* Facts that hold in every state of the invariant.                         *)

\* The layout of the address space.
LEMMA Layout ==
    /\ Parent \in Envs /\ Child \in Envs /\ Parent # Child
    /\ UTEMP \in Vas /\ VgaUser \in Vas /\ DataVa \in Vas /\ MoreVa \in Vas /\ StackVa \in Vas
    /\ UTEMP < VgaUser /\ VgaUser < DataVa /\ MoreVa = DataVa + 1 /\ MoreVa < StackVa
    /\ UTEMP \notin Used /\ StackVa < UTOP
    /\ UTOP \in Nat /\ Vas = 0..UTOP-1
<1>1. UTOP \in Nat /\ Vas = 0..UTOP-1
  BY PageTablesAssumption DEF UTOP, Vas
<1> QED BY <1>1, ForkAssumption, PageTablesAssumption DEF Used

\* The entries of a memory.
LEMMA EntriesType ==
    ASSUME MemGood
    PROVE  /\ mem \in Shape /\ mem.pte \in [Envs \X Vas -> Ptes]
           /\ \A e \in Envs, v \in Vas : mem.pte[<<e, v>>] \in Ptes
BY DEF MemGood, Good, Shape, PteSets

\* Presence, in the terms of the entry's parts.
LEMMA Presence ==
    ASSUME NEW entry \in Ptes
    PROVE  /\ entry # Absent => entry.page \in Frames /\ entry.page # NULL /\ "P" \in entry.perm
           /\ entry = Absent => entry.page = NULL /\ entry.perm = {}
           /\ entry.perm \in SUBSET Bits
BY PageTablesAssumption DEF Ptes, Absent

\* A memory in which page_insert has written one entry.
Gets(n, e, v, p, perm) ==
    \A d \in Envs, u \in Vas :
        n.pte[<<d, u>>] = IF d = e /\ u = v THEN [page |-> p, perm |-> perm]
                          ELSE mem.pte[<<d, u>>]

LEMMA PutGets ==
    ASSUME MemGood, NEW n, NEW e \in Envs, NEW v \in Vas, NEW p, NEW perm, "P" \in perm,
           n.pte = Put(mem.pte, <<e, v>>, Entry(p, perm))
    PROVE  Gets(n, e, v, p, perm)
<1>1. PICK f \in [Envs \X Vas -> Ptes] : f = mem.pte
  BY EntriesType
<1>2. PICK entry : entry = Entry(p, perm)
  OBVIOUS
<1>3. PICK g : g = n.pte /\ g = Put(f, <<e, v>>, entry)
  BY <1>1, <1>2
<1>4. \A d \in Envs, u \in Vas : g[<<d, u>>] = IF d = e /\ u = v THEN entry ELSE f[<<d, u>>]
  BY <1>3 DEF Put
<1>5. entry = [page |-> p, perm |-> perm]
  <2>1. perm \cup {"P"} = perm
    OBVIOUS
  <2> QED BY <1>2, <2>1 DEF Entry
<1> QED BY <1>1, <1>3, <1>4, <1>5 DEF Gets

\* The program at the call.
LEMMA CalledFacts ==
    ASSUME Called
    PROVE  /\ \A v \in Vas : before.pte[v] \in Ptes
           /\ before.pte[UTEMP] = Absent
           /\ before.pte[VgaUser] # Absent /\ before.pte[DataVa] # Absent
           /\ before.pte[StackVa] # Absent /\ before.pte[StackVa].page \in Frames
           /\ \A v \in Vas : before.pte[v] # Absent => v \in Used
           /\ before.pte[VgaUser].page = Vga /\ before.pte[VgaUser].perm = Bits
           /\ Shared(VgaUser) /\ ~Shared(StackVa) /\ ~Shared(DataVa)
<1>1. \A v \in Vas : before.pte[v] \in Ptes
  BY DEF Called
<1>2. before.pte[UTEMP] = Absent
  BY Layout DEF Called
<1>3. RW # {} /\ Absent.perm = {}
  BY DEF RW, Absent
<1>4. before.pte[DataVa] # Absent /\ before.pte[StackVa] # Absent
  BY <1>3 DEF Called
<1>5. /\ before.pte[VgaUser] # Absent
      /\ before.pte[VgaUser].page = Vga /\ before.pte[VgaUser].perm = Bits
  <2>1. Entry(Vga, Bits).page = Vga /\ Entry(Vga, Bits).perm = Bits \cup {"P"}
    BY DEF Entry
  <2>2. Bits \cup {"P"} = Bits /\ Bits # {}
    BY DEF Bits
  <2> QED BY <1>3, <2>1, <2>2 DEF Called
<1>6. before.pte[StackVa].page \in Frames
  BY <1>1, <1>4, Layout, Presence
<1>7. Shared(VgaUser) /\ ~Shared(StackVa) /\ ~Shared(DataVa)
  <2>1. ~Share(RW)
    BY DEF Share, RW
  <2> QED BY <2>1, Layout DEF Shared, Called
<1> QED BY <1>1, <1>2, <1>4, <1>5, <1>6, <1>7 DEF Called

\* The program is the same in the next state.
LEMMA CalledStays ==
    ASSUME Called, before' = before, how' = how
    PROVE  /\ Called' /\ LoopEnd' = LoopEnd /\ LoopStart' = LoopStart
           /\ \A v \in Vas : Shared(v)' = Shared(v) /\ CopyPerm(v)' = CopyPerm(v)
BY DEF Called, LoopEnd, LoopStart, Shared, CopyPerm

\* The bounds of the loop.
LEMMA LoopBounds ==
    ASSUME Types
    PROVE  /\ LoopEnd \in 0..UTOP /\ LoopStart \in 0..UTOP /\ LoopStart <= LoopEnd
           /\ how = "fork" => LoopStart = 0 /\ LoopEnd = UTOP
           /\ how = "dumbfork" => LoopStart = DataVa /\ LoopEnd = DataVa + 2
BY Layout DEF LoopEnd, LoopStart, Types

\* The frames that are the child's alone are not the parent's.
LEMMA ChildFrame ==
    ASSUME ForkInv, Copying, NEW v \in Vas, Done(v), ~Shared(v)
    PROVE  /\ mem.pte[<<Child, v>>].page \in Frames
           /\ \A u \in Vas \ {UTEMP} : before.pte[u].page # mem.pte[<<Child, v>>].page
<1>1. Copied(v)
  BY DEF ForkInv, ChildOK
<1>2. mem.pte[<<Child, v>>] \in Ptes /\ mem.pte[<<Child, v>>] # Absent
  BY <1>1, EntriesType, Layout DEF ForkInv, Copied
<1>3. mem.pte[<<Child, v>>].page \in Frames
  BY <1>2, Presence
<1>4. ASSUME NEW u \in Vas \ {UTEMP}, before.pte[u].page = mem.pte[<<Child, v>>].page PROVE FALSE
  <2>1. mem.pte[<<Parent, u>>].page = mem.pte[<<Child, v>>].page
    BY <1>4 DEF ForkInv, ParentKept
  <2>2. Alone(v)
    BY <1>1 DEF Copied
  <2> QED BY <2>1, <2>2, Layout DEF Alone
<1> QED BY <1>3, <1>4

\* Nothing is mapped but the pages of the program and the scratch page.
LEMMA PlacesHold ==
    ASSUME ForkInv, pc = "exofork" \/ Copying
    PROVE  OnlyPlaces(mem)
<1> SUFFICES ASSUME NEW e \in Envs, NEW v \in Vas, v \notin Places
             PROVE  mem.pte[<<e, v>>] = Absent
  BY DEF OnlyPlaces
<1>1. v # UTEMP /\ before.pte[v] = Absent
  BY CalledFacts DEF ForkInv, Places
<1>2. CASE e = Parent
  BY <1>1, <1>2 DEF ForkInv, ParentKept
<1>3. CASE e = Child /\ pc = "exofork"
  BY <1>3 DEF ForkInv, NoChild
<1>4. CASE e = Child /\ Copying
  BY <1>1, <1>4 DEF ForkInv, ChildOK, Done
<1> QED BY <1>2, <1>3, <1>4, ForkAssumption

-----------------------------------------------------------------------------
(* The contents of the frames.                                              *)

LEMMA WriteLocal ==
    ASSUME NEW d \in [Frames -> Contents], NEW f \in Frames, NEW k \in 0..UTOP,
           NEW n, n = [d EXCEPT ![f].local = k]
    PROVE  /\ n \in [Frames -> Contents]
           /\ \A p \in Frames : n[p].tag = d[p].tag
           /\ \A p \in Frames : p # f => n[p] = d[p]
<1>1. PICK r : r = [d[f] EXCEPT !.local = k]
  OBVIOUS
<1>2. d[f] \in Contents
  OBVIOUS
<1>3. r \in Contents /\ r.tag = d[f].tag
  BY <1>1, <1>2 DEF Contents
<1>4. n = [d EXCEPT ![f] = r]
  BY <1>1
<1> QED BY <1>3, <1>4

LEMMA WriteTag ==
    ASSUME NEW d \in [Frames -> Contents], NEW f \in Frames,
           NEW n, n = [d EXCEPT ![f].tag = "child"]
    PROVE  /\ n \in [Frames -> Contents]
           /\ \A p \in Frames : p # f => n[p] = d[p]
<1>1. PICK r : r = [d[f] EXCEPT !.tag = "child"]
  OBVIOUS
<1>2. d[f] \in Contents
  OBVIOUS
<1>3. r \in Contents
  BY <1>1, <1>2 DEF Contents
<1>4. n = [d EXCEPT ![f] = r]
  BY <1>1
<1> QED BY <1>3, <1>4

\* The loop variable is in the stack's frame and nowhere else.
LEMMA SetVaIs ==
    ASSUME ForkInv, NEW k \in 0..UTOP, SetVa(k)
    PROVE  /\ va' = k /\ data' \in [Frames -> Contents]
           /\ \A p \in Frames : data'[p].tag = data[p].tag
           /\ \A p \in Frames : p # before.pte[StackVa].page => data'[p] = data[p]
<1>1. PICK f \in Frames : f = before.pte[StackVa].page
  BY CalledFacts DEF ForkInv
<1>2. FrameAt(mem, Parent, StackVa) = f
  BY <1>1, Layout DEF FrameAt, ForkInv, ParentKept
<1>3. va' = k /\ data' = [data EXCEPT ![f].local = k] /\ data \in [Frames -> Contents]
  BY <1>2 DEF SetVa, ForkInv, Types
<1> QED BY <1>1, <1>3, WriteLocal

\* It does not disturb the pages that have been copied, but for the stack.
LEMMA SetVaKeeps ==
    ASSUME ForkInv, Copying, NEW k \in 0..UTOP, SetVa(k),
           NEW v \in Vas, v # StackVa, Done(v), ~Shared(v)
    PROVE  /\ data'[mem.pte[<<Child, v>>].page] = data[mem.pte[<<Child, v>>].page]
           /\ data'[before.pte[v].page] = data[before.pte[v].page]
<1>1. /\ mem.pte[<<Child, v>>].page \in Frames
      /\ mem.pte[<<Child, v>>].page # before.pte[StackVa].page
  BY ChildFrame, Layout
<1>2. before.pte[v] \in Ptes /\ before.pte[v] # Absent
  BY CalledFacts DEF ForkInv, Done
<1>3. before.pte[v].page \in Frames /\ before.pte[v].page # before.pte[StackVa].page
  BY <1>2, Presence DEF ForkInv, Called
<1> QED BY <1>1, <1>3, SetVaIs

\* Nor what ParentKept says of the parent's pages.
LEMMA SetVaParent ==
    ASSUME ForkInv, NEW k \in 0..UTOP, SetVa(k), before' = before,
           \A v \in Vas \ {UTEMP} : mem'.pte[<<Parent, v>>] = mem.pte[<<Parent, v>>]
    PROVE  ParentKept'
<1> SUFFICES ASSUME NEW v \in Vas \ {UTEMP}, before.pte[v] # Absent
             PROVE  data'[before.pte[v].page].tag = before.tag[v]
  BY DEF ForkInv, ParentKept
<1>1. before.pte[v].page \in Frames
  BY CalledFacts, Presence DEF ForkInv
<1> QED BY <1>1, SetVaIs DEF ForkInv, ParentKept

-----------------------------------------------------------------------------
(* Every step keeps the invariant.                                          *)

\* The head of the loop.
LEMMA ScanStep ==
    ASSUME ForkInv, Scan PROVE ForkInv'
<1>1. /\ pc = "scan" /\ ~mem.panic /\ va < LoopEnd
      /\ mem' = mem /\ how' = how /\ status' = status /\ stolen' = stolen /\ before' = before
  BY DEF Scan, At
<1>2. MemGood' /\ NoChild'
  <2>1. Held' = Held
    BY <1>1 DEF Held
  <2>2. pc' # "exofork"
    BY <1>1 DEF Scan
  <2> QED BY <1>1, <2>1, <2>2 DEF ForkInv, MemGood, NoChild
<1>3. /\ Called' /\ LoopEnd' = LoopEnd /\ LoopStart' = LoopStart
      /\ \A v \in Vas : Shared(v)' = Shared(v) /\ CopyPerm(v)' = CopyPerm(v)
  BY <1>1, CalledStays DEF ForkInv
<1>4. va \in 0..UTOP /\ LoopStart <= va /\ va \in Vas /\ va + 1 \in 0..UTOP /\ va + 1 <= LoopEnd
  BY <1>1, LoopBounds, Layout DEF ForkInv, Types, InLoop
<1>5. Copying /\ \A v \in Vas : IF Done(v) THEN Copied(v) ELSE mem.pte[<<Child, v>>] = Absent
  BY <1>1 DEF ForkInv, ChildOK, Copying
<1>6. mem.pte[<<Parent, va>>] = before.pte[va]
  <2>1. mem.pte[<<Parent, UTEMP>>] = Absent /\ before.pte[UTEMP] = Absent
    BY <1>1, CalledFacts DEF ForkInv, Scratch, Lent
  <2> QED BY <1>4, <2>1 DEF ForkInv, ParentKept
<1>7. PICK perm : perm = IF how = "fork" THEN before.pte[va].perm ELSE RW
  OBVIOUS
<1>8. \/ /\ perm = {} /\ SetVa(va + 1) /\ pc' = pc /\ arg' = arg
      \/ /\ perm # {} /\ arg' = [page |-> va, perm |-> perm]
         /\ pc' = IF how = "fork" /\ Share(perm) THEN "map" ELSE "alloc"
         /\ va' = va /\ data' = data
  BY <1>6, <1>7 DEF Scan, Uvpt
<1>9. before.pte[va] \in Ptes /\ (before.pte[va].perm = {} <=> before.pte[va] = Absent)
  BY <1>4, CalledFacts, Presence DEF ForkInv
<1>10. CASE perm = {}
  <2>1. SetVa(va + 1) /\ pc' = "scan" /\ arg' = arg
    BY <1>1, <1>8, <1>10
  <2>2. before.pte[va] = Absent
    BY <1>7, <1>9, <1>10 DEF RW
  <2>3. /\ va' = va + 1 /\ data' \in [Frames -> Contents]
    BY <1>4, <2>1, SetVaIs
  <2>4. Types'
    BY <1>1, <1>4, <2>1, <2>3 DEF ForkInv, Types
  <2>5. ParentKept'
    BY <1>1, <1>4, <2>1, SetVaParent
  <2>6. Scratch' /\ InLoop' /\ ArgOK'
    <3>1. Scratch'
      BY <1>1, <2>1 DEF ForkInv, Scratch, Lent
    <3>2. InLoop'
      <4>1. LoopStart \in Int
        BY LoopBounds DEF ForkInv
      <4> QED BY <1>3, <1>4, <2>3, <4>1 DEF InLoop
    <3>3. ArgOK'
      BY <2>1 DEF ArgOK, InCall
    <3> QED BY <3>1, <3>2, <3>3
  <2>7. ChildOK'
    <3> SUFFICES ASSUME NEW v \in Vas
                 PROVE  (IF Done(v) THEN Copied(v) ELSE mem.pte[<<Child, v>>] = Absent)'
      BY DEF ChildOK
    <3>1. Done(v)' <=> Done(v)
      BY <1>1, <1>3, <1>4, <2>1, <2>2, <2>3, Layout DEF Done, Given, Ready
    <3>2. ASSUME Done(v) PROVE Copied(v)'
      <4>1. Copied(v)
        BY <1>5, <3>2
      <4>2. Alone(v) => Alone(v)'
        BY <1>1, <2>1 DEF Alone, Lent
      <4>3. ASSUME ~Shared(v), Same(v)'
            PROVE  data'[mem.pte[<<Child, v>>].page] = data'[before.pte[v].page]
        <5>1. v # StackVa /\ Same(v)
          BY <1>1, <2>1, <4>3 DEF Same, Ready
        <5>2. data[mem.pte[<<Child, v>>].page] = data[before.pte[v].page]
          BY <4>1, <4>3, <5>1 DEF Copied
        <5> QED BY <1>4, <1>5, <2>1, <3>2, <4>3, <5>1, <5>2, SetVaKeeps
      <4> QED BY <1>1, <1>3, <4>1, <4>2, <4>3 DEF Copied
    <3> QED BY <1>1, <1>5, <3>1, <3>2
  <2> QED BY <1>2, <1>3, <2>4, <2>5, <2>6, <2>7 DEF ForkInv
<1>11. CASE perm # {}
  <2>1. /\ arg' = [page |-> va, perm |-> perm]
        /\ pc' = IF how = "fork" /\ Share(perm) THEN "map" ELSE "alloc"
        /\ va' = va /\ data' = data
    BY <1>8, <1>11
  <2>2. pc' \in {"map", "alloc"} /\ arg'.page = va /\ arg'.perm = perm
    BY <2>1
  <2>3. before.pte[va] # Absent /\ perm = CopyPerm(va) /\ (how = "dumbfork" => va # VgaUser)
    <3>1. CASE how = "fork"
      BY <1>7, <1>9, <1>11, <3>1 DEF CopyPerm
    <3>2. CASE how # "fork"
      <4>1. how = "dumbfork" /\ DataVa <= va /\ va < DataVa + 2
        BY <1>1, <1>4, <3>2, LoopBounds DEF ForkInv, Types
      <4>2. va = DataVa \/ va = MoreVa
        BY <1>4, <4>1, Layout
      <4>3. before.pte[va] # Absent
        BY <4>1, <4>2, CalledFacts DEF ForkInv, Called
      <4>4. va # VgaUser
        BY <4>2, Layout
      <4> QED BY <1>7, <3>2, <4>3, <4>4 DEF CopyPerm
    <3> QED BY <3>1, <3>2
  <2>4. Shared(va) <=> pc' = "map"
    <3>1. CASE va = VgaUser
      <4>1. how = "fork" /\ perm = Bits /\ Share(Bits)
        BY <1>7, <2>3, <3>1, CalledFacts DEF ForkInv, Types, Share, Bits
      <4> QED BY <2>1, <3>1, <4>1 DEF Shared
    <3>2. CASE va # VgaUser
      BY <1>7, <2>1, <3>2 DEF Shared
    <3> QED BY <3>1, <3>2
  <2>5. Types'
    <3>1. perm \in SUBSET Bits
      BY <1>7, <1>9, Presence DEF RW, Bits
    <3> QED BY <1>1, <1>4, <2>1, <2>2, <3>1 DEF ForkInv, Types, Pcs
  <2>6. ParentKept' /\ Scratch' /\ InLoop'
    BY <1>1, <1>3, <1>4, <2>1, <2>2 DEF ForkInv, ParentKept, Scratch, Lent, InLoop
  <2>7. ArgOK'
    BY <1>1, <1>3, <1>4, <2>1, <2>2, <2>3, <2>4 DEF ArgOK
  <2>8. ChildOK'
    <3> SUFFICES ASSUME NEW v \in Vas
                 PROVE  (IF Done(v) THEN Copied(v) ELSE mem.pte[<<Child, v>>] = Absent)'
      BY DEF ChildOK
    <3>1. Done(v)' <=> Done(v)
      BY <1>1, <1>3, <2>1, <2>2 DEF Done, Given, Ready
    <3>2. Copied(v) => Copied(v)'
      BY <1>1, <1>3, <2>1, <2>2 DEF Copied, Alone, Lent, Same, Ready
    <3> QED BY <1>1, <1>5, <3>1, <3>2
  <2> QED BY <1>2, <1>3, <2>5, <2>6, <2>7, <2>8 DEF ForkInv
<1> QED BY <1>10, <1>11

\* After the loop, the stack once more.
LEMMA LastStackStep ==
    ASSUME ForkInv, LastStack PROVE ForkInv'
<1>1. /\ pc = "scan" /\ ~mem.panic /\ va = LoopEnd /\ arg' = [page |-> StackVa, perm |-> RW]
      /\ pc' = "alloc" /\ mem' = mem /\ data' = data /\ how' = how /\ va' = va
      /\ status' = status /\ stolen' = stolen /\ before' = before
  BY DEF LastStack, At
<1>2. arg'.page = StackVa /\ arg'.perm = RW
  BY <1>1
<1>3. MemGood' /\ NoChild'
  <2>1. Held' = Held
    BY <1>1 DEF Held
  <2> QED BY <1>1, <2>1 DEF ForkInv, MemGood, NoChild
<1>4. /\ Called' /\ LoopEnd' = LoopEnd /\ LoopStart' = LoopStart
      /\ \A v \in Vas : Shared(v)' = Shared(v) /\ CopyPerm(v)' = CopyPerm(v)
  BY <1>1, CalledStays DEF ForkInv
<1>5. Types'
  <2>1. RW \in SUBSET Bits
    BY DEF RW, Bits
  <2> QED BY <1>1, <2>1, Layout DEF ForkInv, Types, Pcs
<1>6. ParentKept' /\ Scratch' /\ InLoop'
  BY <1>1, <1>4 DEF ForkInv, ParentKept, Scratch, Lent, InLoop
<1>7. ArgOK'
  <2>1. RW = CopyPerm(StackVa) /\ before.pte[StackVa] # Absent /\ ~Shared(StackVa)
    BY CalledFacts DEF ForkInv, Called, CopyPerm
  <2> QED BY <1>1, <1>2, <1>4, <2>1, Layout DEF ArgOK
<1>8. ChildOK'
  <2> SUFFICES ASSUME NEW v \in Vas
               PROVE  (IF Done(v) THEN Copied(v) ELSE mem.pte[<<Child, v>>] = Absent)'
    BY DEF ChildOK
  <2>1. Done(v)' <=> Done(v)
    BY <1>1, <1>4 DEF Done, Given, Ready
  <2>2. Copied(v) => Copied(v)'
    BY <1>1, <1>4 DEF Copied, Alone, Lent, Same, Ready
  <2> QED BY <1>1, <2>1, <2>2 DEF ForkInv, ChildOK, Copying
<1> QED BY <1>3, <1>4, <1>5, <1>6, <1>7, <1>8 DEF ForkInv

\* A call that fails: the parent panics, and memory holds the same entries.
LEMMA FailStep ==
    ASSUME ForkInv, pc' = "panic", ~mem.panic, mem'.panic = mem.panic, ~Lent,
           mem'.pte = mem.pte, MemGood', UNCHANGED <<how, va, arg, status, stolen, before>>,
           data' \in [Frames -> Contents],
           \A e \in Envs, v \in Vas : mem.pte[<<e, v>>] # Absent =>
               data'[mem.pte[<<e, v>>].page] = data[mem.pte[<<e, v>>].page],
           pc \notin {"parent", "child"}
    PROVE  ForkInv'
<1>1. Called'
  BY CalledStays DEF ForkInv
<1>2. Types'
  BY DEF ForkInv, Types, Pcs
<1>3. ParentKept'
  <2> SUFFICES ASSUME NEW v \in Vas \ {UTEMP}, before.pte[v] # Absent
               PROVE  data'[before.pte[v].page].tag = before.tag[v]
    BY DEF ForkInv, ParentKept
  <2>1. mem.pte[<<Parent, v>>] = before.pte[v] /\ data[before.pte[v].page].tag = before.tag[v]
    BY DEF ForkInv, ParentKept
  <2> QED BY <2>1, Layout
<1>4. Scratch'
  BY DEF ForkInv, Scratch, Lent
<1>5. InLoop' /\ ArgOK' /\ ChildOK' /\ NoChild'
  BY DEF InLoop, ArgOK, InCall, ChildOK, Copying, NoChild
<1> QED BY <1>1, <1>2, <1>3, <1>4, <1>5 DEF ForkInv

\* The arguments of a call, in the terms of the parent's and the child's pages.
LEMMA CallFacts ==
    ASSUME ForkInv, InCall, ~mem.panic
    PROVE  /\ Copying /\ arg.page \in Vas /\ arg.page # UTEMP /\ va \in 0..UTOP
           /\ arg.perm \subseteq Bits /\ "P" \in arg.perm
           /\ mem.pte[<<Parent, arg.page>>] = before.pte[arg.page]
           /\ before.pte[arg.page] \in Ptes /\ before.pte[arg.page] # Absent
           /\ \A v \in Vas : IF Done(v) THEN Copied(v) ELSE mem.pte[<<Child, v>>] = Absent
           /\ LoopStart <= va /\ va <= LoopEnd
           /\ va # LoopEnd => arg.page = va /\ va + 1 \in 0..UTOP
           /\ va = LoopEnd => arg.page = StackVa
<1>1. Copying /\ arg.page \in Vas /\ va \in 0..UTOP /\ arg.perm \subseteq Bits
  BY DEF ForkInv, Types, InCall, Copying
<1>2. before.pte[arg.page] \in Ptes /\ before.pte[arg.page] # Absent /\ arg.page # UTEMP
  BY <1>1, CalledFacts DEF ForkInv, ArgOK
<1>3. "P" \in arg.perm
  BY <1>2, Presence DEF ForkInv, ArgOK, CopyPerm, RW
<1>4. LoopStart <= va /\ va <= LoopEnd /\ (va # LoopEnd => va + 1 \in 0..UTOP)
  <2>1. LoopStart <= va /\ va <= LoopEnd
    BY DEF ForkInv, InLoop, InCall
  <2>2. LoopEnd \in 0..UTOP
    BY LoopBounds DEF ForkInv
  <2> QED BY <1>1, <2>1, <2>2, Layout
<1> QED BY <1>1, <1>2, <1>3, <1>4 DEF ForkInv, ArgOK, ParentKept, ChildOK

\* sys_page_map, where there is memory for the page table.
LEMMA PageMapIs ==
    ASSUME ForkInv, InCall, ~mem.panic, NEW e \in Envs, NEW v \in Vas, NEW d \in Envs, NEW u \in Vas,
           mem.pte[<<e, v>>] # Absent, ~WalkFails(mem, d, u),
           NEW n, n = PageInsert(mem, d, FrameAt(mem, e, v), u, arg.perm)
    PROVE  /\ Good(n, Held, {}) /\ n.panic = mem.panic
           /\ Gets(n, d, u, mem.pte[<<e, v>>].page, arg.perm)
<1>1. /\ Good(mem, Held, {}) /\ NoDebt(Held) /\ \A p \in Frames : Held[p] <= 1
  BY HeldIs DEF ForkInv, MemGood
<1>2. arg.perm \subseteq Bits /\ "P" \in arg.perm /\ Copying
  BY CallFacts
<1>3. PICK p : p = mem.pte[<<e, v>>].page
  OBVIOUS
<1>4. p \in Frames /\ p # NULL
  BY <1>3, EntriesType, Presence DEF ForkInv
<1>5. PICK x \in Envs \X Vas : x = <<e, v>>
  OBVIOUS
<1>6. mem.ref[p] + 1 < RefMod
  <2>1. OnlyPlaces(mem)
    BY <1>2, PlacesHold
  <2>2. Mappings(mem, p) # {}
    BY <1>3, <1>5 DEF Mappings
  <2> QED BY <1>1, <1>4, <2>1, <2>2, FewRefs
<1>7. Mappable(mem, p)
  BY <1>1, <1>3, <1>4, <1>5, <1>6, MappedMappable
<1>8. n = PageInsert(mem, d, p, u, arg.perm)
  BY <1>3 DEF FrameAt
<1>9. PICK perm : perm = arg.perm /\ perm \subseteq Bits
  BY <1>2
<1>10. /\ Good(n, Held, Without({}, p))
       /\ n.pte = Put(mem.pte, <<d, u>>, Entry(p, perm))
       /\ n.dir = mem.dir /\ n.panic = mem.panic
  BY <1>1, <1>7, <1>8, <1>9, GoodInsert
<1>11. Gets(n, d, u, p, perm)
  BY <1>2, <1>9, <1>10, PutGets DEF ForkInv
<1> QED BY <1>3, <1>9, <1>10, <1>11, NoLoose

\* dup_or_share of a page to share.
LEMMA MapStep ==
    ASSUME ForkInv, Map PROVE ForkInv'
<1>1. pc = "map" /\ ~mem.panic /\ UNCHANGED <<how, arg, status, stolen, before>>
  BY DEF Map, At
<1>2. InCall /\ ~Lent /\ Held' = Held
  BY <1>1 DEF InCall, Lent, Held
<1>3. /\ Copying /\ arg.page \in Vas /\ arg.page # UTEMP /\ va \in 0..UTOP
      /\ mem.pte[<<Parent, arg.page>>] = before.pte[arg.page]
      /\ before.pte[arg.page] \in Ptes /\ before.pte[arg.page] # Absent
      /\ \A v \in Vas : IF Done(v) THEN Copied(v) ELSE mem.pte[<<Child, v>>] = Absent
      /\ LoopStart <= va /\ va <= LoopEnd
  BY <1>1, <1>2, CallFacts
<1>4. arg.page = va /\ va # LoopEnd /\ va + 1 \in 0..UTOP
  <2>1. ~Shared(StackVa) /\ Shared(arg.page)
    BY <1>1, <1>2, CalledFacts DEF ForkInv, ArgOK
  <2> QED BY <1>1, <1>2, <2>1, CallFacts
<1>5. CASE WalkFails(mem, Child, arg.page)
  <2>1. pc' = "panic" /\ mem' = mem
    BY <1>5 DEF Map, PageMap
  <2>2. va' = va /\ data' = data
    BY <2>1 DEF Map
  <2>3. MemGood' /\ data' \in [Frames -> Contents]
    BY <1>2, <2>1, <2>2 DEF ForkInv, MemGood, Types
  <2> QED BY <1>1, <1>2, <2>1, <2>2, <2>3, FailStep
<1>6. CASE ~WalkFails(mem, Child, arg.page)
  <2>1. PICK n : n = mem'
    OBVIOUS
  <2>2. pc' = "scan" /\ n = PageInsert(mem, Child, FrameAt(mem, Parent, arg.page), arg.page, arg.perm)
    BY <1>6, <2>1 DEF Map, PageMap
  <2>3. SetVa(va + 1)
    BY <2>2 DEF Map
  <2>4. /\ Good(n, Held, {}) /\ n.panic = mem.panic
        /\ Gets(n, Child, arg.page, before.pte[arg.page].page, arg.perm)
    BY <1>1, <1>2, <1>3, <1>6, <2>2, Layout, PageMapIs
  <2>5. va' = va + 1 /\ data' \in [Frames -> Contents]
    BY <1>4, <2>3, SetVaIs
  <2>6. /\ Called' /\ LoopEnd' = LoopEnd /\ LoopStart' = LoopStart
        /\ \A v \in Vas : Shared(v)' = Shared(v) /\ CopyPerm(v)' = CopyPerm(v)
    BY <1>1, CalledStays DEF ForkInv
  <2>7. Types' /\ MemGood'
    BY <1>1, <1>2, <1>4, <2>1, <2>2, <2>4, <2>5 DEF ForkInv, Types, MemGood, Pcs
  <2>8. ParentKept'
    <3>1. \A v \in Vas \ {UTEMP} : mem'.pte[<<Parent, v>>] = mem.pte[<<Parent, v>>]
      BY <2>1, <2>4, Layout DEF Gets
    <3> QED BY <1>1, <1>4, <2>3, <3>1, SetVaParent
  <2>9. Scratch' /\ InLoop' /\ ArgOK' /\ NoChild'
    <3>1. Scratch'
      BY <1>1, <1>2, <2>1, <2>2, <2>4, Layout DEF ForkInv, Scratch, Lent, Gets
    <3>2. InLoop'
      BY <1>3, <1>4, <2>5, <2>6, LoopBounds DEF ForkInv, InLoop
    <3>3. ArgOK' /\ NoChild'
      BY <2>2 DEF ArgOK, InCall, NoChild
    <3> QED BY <3>1, <3>2, <3>3
  <2>10. ChildOK'
    <3> SUFFICES ASSUME NEW v \in Vas
                 PROVE  (IF Done(v) THEN Copied(v) ELSE mem.pte[<<Child, v>>] = Absent)'
      BY DEF ChildOK
    <3>1. CASE v = arg.page
      <4>1. n.pte[<<Child, v>>] = [page |-> before.pte[v].page, perm |-> arg.perm]
        BY <1>3, <2>4, <3>1, Layout DEF Gets
      <4>2. Shared(v) /\ arg.perm = CopyPerm(v)
        BY <1>1, <1>2, <3>1 DEF ForkInv, ArgOK
      <4>3. before.pte[v].page # NULL
        BY <1>3, <3>1, Presence
      <4>4. Copied(v)'
        BY <1>1, <2>1, <2>6, <4>1, <4>2, <4>3 DEF Copied, Absent
      <4>5. Done(v)'
        BY <1>1, <1>3, <1>4, <2>5, <2>6, <3>1 DEF Done
      <4> QED BY <4>4, <4>5
    <3>2. CASE v # arg.page
      <4>1. n.pte[<<Child, v>>] = mem.pte[<<Child, v>>]
        BY <2>4, <3>2, Layout DEF Gets
      <4>2. Done(v)' <=> Done(v)
        BY <1>1, <1>3, <1>4, <2>2, <2>5, <2>6, <3>2, Layout DEF Done, Given, Ready
      <4>3. ASSUME Done(v) PROVE Copied(v)'
        <5>1. Copied(v)
          BY <1>3, <4>3
        <5>2. ASSUME ~Shared(v) PROVE Alone(v)'
          <6>1. before.pte[arg.page].page # mem.pte[<<Child, v>>].page
            BY <1>3, <4>3, <5>2, ChildFrame
          <6>2. Alone(v)
            BY <5>1, <5>2 DEF Copied
          <6> QED BY <1>2, <1>3, <2>1, <2>2, <2>4, <4>1, <6>1, <6>2 DEF Alone, Lent, Gets
        <5>3. ASSUME ~Shared(v), Same(v)'
              PROVE  data'[mem.pte[<<Child, v>>].page] = data'[before.pte[v].page]
          <6>1. v # StackVa /\ Same(v)
            BY <1>1, <2>2, <5>3 DEF Same, Ready
          <6>2. data[mem.pte[<<Child, v>>].page] = data[before.pte[v].page]
            BY <5>1, <5>3, <6>1 DEF Copied
          <6> QED BY <1>3, <1>4, <2>3, <4>3, <5>3, <6>1, <6>2, SetVaKeeps
        <5> QED BY <1>1, <2>1, <2>6, <4>1, <5>1, <5>2, <5>3 DEF Copied
      <4> QED BY <1>3, <2>1, <4>1, <4>2, <4>3
    <3> QED BY <3>1, <3>2
  <2> QED BY <2>6, <2>7, <2>8, <2>9, <2>10 DEF ForkInv
<1> QED BY <1>5, <1>6

\* A page taken from the free list and zeroed: nobody maps it.
LEMMA ZeroedIs ==
    ASSUME ForkInv, HasFree(mem), NEW q, q = Top(mem),
           data' = [data EXCEPT ![q] = Content("zero", 0)]
    PROVE  /\ q \in Pages /\ data' \in [Frames -> Contents]
           /\ \A e \in Envs, v \in Vas :
                 /\ mem.pte[<<e, v>>].page # q
                 /\ mem.pte[<<e, v>>] # Absent =>
                       data'[mem.pte[<<e, v>>].page] = data[mem.pte[<<e, v>>].page]
<1>1. q \in Pages /\ \A x \in Envs \X Vas : mem.pte[x].page # q
  BY HeldIs, FreshPage DEF ForkInv, MemGood
<1>2. data \in [Frames -> Contents] /\ q \in Frames
  BY <1>1 DEF ForkInv, Types, Frames
<1>3. PICK c : c = Content("zero", 0)
  OBVIOUS
<1>4. c \in Contents
  BY <1>3, Layout DEF Content, Contents
<1>5. data' = [data EXCEPT ![q] = c]
  BY <1>3
<1>6. data' \in [Frames -> Contents] /\ \A p \in Frames : p # q => data'[p] = data[p]
  BY <1>2, <1>4, <1>5
<1>7. ASSUME NEW e \in Envs, NEW v \in Vas, mem.pte[<<e, v>>] # Absent
      PROVE  data'[mem.pte[<<e, v>>].page] = data[mem.pte[<<e, v>>].page]
  <2>1. mem.pte[<<e, v>>].page \in Frames /\ mem.pte[<<e, v>>].page # q
    BY <1>1, <1>7, EntriesType, Presence DEF ForkInv
  <2> QED BY <1>6, <2>1
<1> QED BY <1>1, <1>6, <1>7

\* sys_page_alloc in the child.
LEMMA AllocStep ==
    ASSUME ForkInv, Alloc PROVE ForkInv'
<1>1. pc = "alloc" /\ ~mem.panic /\ UNCHANGED <<how, va, arg, status, stolen, before>>
  BY DEF Alloc, At
<1>2. InCall /\ ~Lent /\ Held' = Held
  BY <1>1 DEF InCall, Lent, Held
<1>3. /\ Copying /\ arg.page \in Vas /\ arg.page # UTEMP
      /\ arg.perm \subseteq Bits /\ "P" \in arg.perm
      /\ before.pte[arg.page] # Absent
      /\ \A v \in Vas : IF Done(v) THEN Copied(v) ELSE mem.pte[<<Child, v>>] = Absent
  BY <1>1, <1>2, CallFacts
<1>4. ~Shared(arg.page) /\ arg.perm = CopyPerm(arg.page)
  BY <1>1, <1>2 DEF ForkInv, ArgOK
<1>5. Good(mem, Held, {}) /\ NoDebt(Held)
  BY HeldIs DEF ForkInv, MemGood
<1>6. PICK q : q = Top(mem) /\ q = Head(mem.free)
  BY DEF Top
<1>7. PICK m1 : m1 = PageAlloc(mem)
  OBVIOUS
<1>8. PICK n : n = mem'
  OBVIOUS
<1>9. CASE mem.free = <<>>
  <2>1. pc' = "panic" /\ mem' = mem /\ data' = data
    BY <1>9 DEF Alloc
  <2>2. MemGood' /\ data' \in [Frames -> Contents]
    BY <1>2, <2>1 DEF ForkInv, MemGood, Types
  <2> QED BY <1>1, <1>2, <2>1, <2>2, FailStep
<1>10. CASE HasFree(mem) /\ WalkFails(m1, Child, arg.page)
  <2>1. pc' = "panic" /\ n = PageFree(m1, q) /\ data' = [data EXCEPT ![q] = Content("zero", 0)]
    BY <1>6, <1>7, <1>8, <1>10 DEF Alloc, HasFree
  <2>2. /\ Good(m1, Held, With({}, q)) /\ m1.pte = mem.pte /\ m1.panic = mem.panic
    BY <1>5, <1>6, <1>7, <1>10, GoodAlloc
  <2>3. q \in With({}, q)
    BY DEF With
  <2>4. Good(n, Held, Without(With({}, q), q)) /\ n.pte = m1.pte /\ n.panic = m1.panic
    BY <1>5, <2>1, <2>2, <2>3, GoodFree
  <2>5. MemGood'
    BY <1>2, <1>8, <2>4, NoLoose DEF MemGood
  <2>6. /\ data' \in [Frames -> Contents]
        /\ \A e \in Envs, v \in Vas : mem.pte[<<e, v>>] # Absent =>
               data'[mem.pte[<<e, v>>].page] = data[mem.pte[<<e, v>>].page]
    BY <1>6, <1>10, <2>1, ZeroedIs
  <2>7. mem'.pte = mem.pte /\ mem'.panic = mem.panic
    BY <1>8, <2>2, <2>4
  <2> QED BY <1>1, <1>2, <2>1, <2>5, <2>6, <2>7, FailStep
<1>11. CASE HasFree(mem) /\ ~WalkFails(m1, Child, arg.page)
  <2>1. /\ pc' = "maptemp" /\ n = PageInsert(m1, Child, q, arg.page, arg.perm)
        /\ data' = [data EXCEPT ![q] = Content("zero", 0)]
    BY <1>6, <1>7, <1>8, <1>11 DEF Alloc, HasFree
  <2>2. PICK perm : perm = arg.perm /\ perm \subseteq Bits
    BY <1>3
  <2>3. /\ Good(n, Held, {}) /\ n.pte = Put(mem.pte, <<Child, arg.page>>, Entry(q, perm))
        /\ n.panic = mem.panic
    <3>1. PICK u \in Vas : u = arg.page
      BY <1>3
    <3>2. n = PageInsert(m1, Child, q, u, perm) /\ ~WalkFails(m1, Child, u) /\ Child \in Envs
      BY <1>11, <2>1, <2>2, <3>1, Layout
    <3>3. q = Top(mem) /\ HasFree(mem)
      BY <1>6, <1>11
    <3>4. /\ Good(n, Held, {}) /\ n.pte = Put(mem.pte, <<Child, u>>, Entry(q, perm))
          /\ n.panic = mem.panic
      BY <1>5, <1>7, <2>2, <3>2, <3>3, GoodAllocInsert
    <3> QED BY <3>1, <3>4
  <2>4. Gets(n, Child, arg.page, q, arg.perm)
    BY <1>3, <2>2, <2>3, Layout, PutGets DEF ForkInv
  <2>5. /\ q \in Pages /\ data' \in [Frames -> Contents]
        /\ \A e \in Envs, v \in Vas :
              /\ mem.pte[<<e, v>>].page # q
              /\ mem.pte[<<e, v>>] # Absent =>
                    data'[mem.pte[<<e, v>>].page] = data[mem.pte[<<e, v>>].page]
    BY <1>6, <1>11, <2>1, ZeroedIs
  <2>6. /\ Called' /\ LoopEnd' = LoopEnd /\ LoopStart' = LoopStart
        /\ \A v \in Vas : Shared(v)' = Shared(v) /\ CopyPerm(v)' = CopyPerm(v)
    BY <1>1, CalledStays DEF ForkInv
  <2>7. Types' /\ MemGood'
    BY <1>1, <1>2, <1>8, <2>1, <2>3, <2>5 DEF ForkInv, Types, MemGood, Pcs
  <2>8. ParentKept'
    <3> SUFFICES ASSUME NEW v \in Vas \ {UTEMP}
                 PROVE  /\ n.pte[<<Parent, v>>] = before.pte[v]
                        /\ before.pte[v] # Absent => data'[before.pte[v].page].tag = before.tag[v]
      BY <1>1, <1>8 DEF ParentKept
    <3>1. /\ mem.pte[<<Parent, v>>] = before.pte[v]
          /\ before.pte[v] # Absent => data[before.pte[v].page].tag = before.tag[v]
      BY DEF ForkInv, ParentKept
    <3>2. n.pte[<<Parent, v>>] = mem.pte[<<Parent, v>>]
      BY <2>4, Layout DEF Gets
    <3> QED BY <2>5, <3>1, <3>2, Layout
  <2>9. Scratch' /\ InLoop' /\ ArgOK' /\ NoChild'
    <3>1. Scratch'
      BY <1>1, <1>2, <1>8, <2>1, <2>4, Layout DEF ForkInv, Scratch, Lent, Gets
    <3>2. InLoop'
      BY <1>1, <2>1, <2>6 DEF ForkInv, InLoop
    <3>3. ArgOK'
      BY <1>1, <1>2, <1>3, <2>1, <2>6 DEF ForkInv, ArgOK
    <3>4. NoChild'
      BY <2>1 DEF NoChild
    <3> QED BY <3>1, <3>2, <3>3, <3>4
  <2>10. ChildOK'
    <3> SUFFICES ASSUME NEW v \in Vas
                 PROVE  (IF Done(v) THEN Copied(v) ELSE mem.pte[<<Child, v>>] = Absent)'
      BY DEF ChildOK
    <3>1. CASE v = arg.page
      <4>1. n.pte[<<Child, v>>] = [page |-> q, perm |-> arg.perm]
        BY <1>3, <2>4, <3>1, Layout DEF Gets
      <4>2. q # NULL
        BY <2>5, PageTablesAssumption DEF Frames
      <4>3. Alone(v)'
        BY <1>8, <2>4, <2>5, <3>1, <4>1 DEF Alone, Gets
      <4>4. ~Same(v)'
        BY <1>1, <2>1, <3>1 DEF Same, Ready
      <4>5. Copied(v)'
        BY <1>4, <1>8, <2>6, <3>1, <4>1, <4>2, <4>3, <4>4 DEF Copied, Absent
      <4>6. Done(v)'
        BY <1>1, <1>3, <2>1, <3>1 DEF Done, Given
      <4> QED BY <4>5, <4>6
    <3>2. CASE v # arg.page
      <4>1. n.pte[<<Child, v>>] = mem.pte[<<Child, v>>]
        BY <2>4, <3>2, Layout DEF Gets
      <4>2. Done(v)' <=> Done(v)
        BY <1>1, <2>1, <2>6, <3>2 DEF Done, Given, Ready
      <4>3. ASSUME Done(v) PROVE Copied(v)'
        <5>1. Copied(v)
          BY <1>3, <4>3
        <5>2. ASSUME ~Shared(v) PROVE Alone(v)'
          <6>1. Alone(v) /\ mem.pte[<<Child, v>>].page # q
            BY <2>5, <5>1, <5>2, Layout DEF Copied
          <6> QED BY <1>2, <1>8, <2>4, <4>1, <6>1 DEF Alone, Gets
        <5>3. ASSUME ~Shared(v), Same(v)'
              PROVE  data'[mem.pte[<<Child, v>>].page] = data'[before.pte[v].page]
          <6>1. Same(v)
            BY <1>1, <2>1, <5>3 DEF Same, Ready
          <6>2. data[mem.pte[<<Child, v>>].page] = data[before.pte[v].page]
            BY <5>1, <5>3, <6>1 DEF Copied
          <6>3. mem.pte[<<Child, v>>] # Absent
            BY <5>1 DEF Copied
          <6>4. before.pte[v] # Absent /\ mem.pte[<<Parent, v>>] = before.pte[v]
            <7>1. before.pte[v] # Absent /\ v # UTEMP
              BY <4>3, CalledFacts DEF Done, ForkInv
            <7> QED BY <7>1 DEF ForkInv, ParentKept
          <6> QED BY <2>5, <6>2, <6>3, <6>4, Layout
        <5> QED BY <1>1, <1>8, <2>6, <4>1, <5>1, <5>2, <5>3 DEF Copied
      <4> QED BY <1>3, <1>8, <4>1, <4>2, <4>3
    <3> QED BY <3>1, <3>2
  <2> QED BY <2>6, <2>7, <2>8, <2>9, <2>10 DEF ForkInv
<1> QED BY <1>9, <1>10, <1>11 DEF HasFree

\* The child's page at the scratch address.
LEMMA MapTempStep ==
    ASSUME ForkInv, MapTemp PROVE ForkInv'
<1>1. pc = "maptemp" /\ ~mem.panic /\ UNCHANGED <<data, how, va, arg, status, stolen, before>>
  BY DEF MapTemp, At
<1>2. InCall /\ ~Lent /\ Held' = Held
  BY <1>1 DEF InCall, Lent, Held
<1>3. /\ Copying /\ arg.page \in Vas /\ arg.page # UTEMP
      /\ before.pte[arg.page] # Absent
      /\ \A v \in Vas : IF Done(v) THEN Copied(v) ELSE mem.pte[<<Child, v>>] = Absent
  BY <1>1, <1>2, CallFacts
<1>4. Done(arg.page) /\ mem.pte[<<Child, arg.page>>] # Absent
  <2>1. Done(arg.page)
    BY <1>1, <1>3 DEF Done, Given
  <2> QED BY <1>3, <2>1 DEF Copied
<1>5. CASE WalkFails(mem, Parent, UTEMP)
  <2>1. pc' = "panic" /\ mem' = mem
    BY <1>5 DEF MapTemp, PageMap
  <2>2. MemGood' /\ data' \in [Frames -> Contents]
    BY <1>1, <1>2, <2>1 DEF ForkInv, MemGood, Types
  <2> QED BY <1>1, <1>2, <2>1, <2>2, FailStep
<1>6. CASE ~WalkFails(mem, Parent, UTEMP)
  <2>1. PICK n : n = mem'
    OBVIOUS
  <2>2. pc' = "copy" /\ n = PageInsert(mem, Parent, FrameAt(mem, Child, arg.page), UTEMP, arg.perm)
    BY <1>6, <2>1 DEF MapTemp, PageMap
  <2>3. PICK f : f = mem.pte[<<Child, arg.page>>].page
    OBVIOUS
  <2>4. Good(n, Held, {}) /\ n.panic = mem.panic /\ Gets(n, Parent, UTEMP, f, arg.perm)
    <3>1. PICK u \in Vas : u = arg.page
      BY <1>3
    <3>2. /\ mem.pte[<<Child, u>>] # Absent
          /\ n = PageInsert(mem, Parent, FrameAt(mem, Child, u), UTEMP, arg.perm)
      BY <1>4, <2>2, <3>1
    <3>3. /\ Good(n, Held, {}) /\ n.panic = mem.panic
          /\ Gets(n, Parent, UTEMP, mem.pte[<<Child, u>>].page, arg.perm)
      BY <1>1, <1>2, <1>6, <3>2, Layout, PageMapIs
    <3> QED BY <2>3, <3>1, <3>3
  <2>5. \A v \in Vas : n.pte[<<Child, v>>] = mem.pte[<<Child, v>>]
    BY <2>4, Layout DEF Gets
  <2>6. /\ Called' /\ LoopEnd' = LoopEnd /\ LoopStart' = LoopStart
        /\ \A v \in Vas : Shared(v)' = Shared(v) /\ CopyPerm(v)' = CopyPerm(v)
    BY <1>1, CalledStays DEF ForkInv
  <2>7. Types' /\ MemGood'
    BY <1>1, <1>2, <2>1, <2>2, <2>4 DEF ForkInv, Types, MemGood, Pcs
  <2>8. ParentKept'
    <3>1. \A v \in Vas \ {UTEMP} : n.pte[<<Parent, v>>] = mem.pte[<<Parent, v>>]
      BY <2>4, Layout DEF Gets
    <3> QED BY <1>1, <2>1, <3>1 DEF ForkInv, ParentKept
  <2>9. Scratch' /\ InLoop' /\ ArgOK' /\ NoChild'
    <3>1. Scratch'
      <4>1. n.pte[<<Parent, UTEMP>>].page = f
        BY <2>4, Layout DEF Gets
      <4> QED BY <1>1, <1>3, <2>1, <2>2, <2>3, <2>5, <4>1 DEF Scratch, Lent
    <3>2. InLoop'
      BY <1>1, <2>2, <2>6 DEF ForkInv, InLoop
    <3>3. ArgOK'
      BY <1>1, <1>2, <1>3, <2>2, <2>6 DEF ForkInv, ArgOK
    <3>4. NoChild'
      BY <2>2 DEF NoChild
    <3> QED BY <3>1, <3>2, <3>3, <3>4
  <2>10. ChildOK'
    <3> SUFFICES ASSUME NEW v \in Vas
                 PROVE  (IF Done(v) THEN Copied(v) ELSE mem.pte[<<Child, v>>] = Absent)'
      BY DEF ChildOK
    <3>1. Done(v)' <=> Done(v)
      BY <1>1, <2>2, <2>6 DEF Done, Given, Ready
    <3>2. ASSUME Done(v) PROVE Copied(v)'
      <4>1. Copied(v)
        BY <1>3, <3>2
      <4>2. ASSUME ~Shared(v) PROVE Alone(v)'
        <5>1. Alone(v)
          BY <4>1, <4>2 DEF Copied
        <5>2. v # arg.page => mem.pte[<<Child, v>>].page # f
          BY <1>3, <2>3, <5>1, Layout DEF Alone
        <5> QED BY <1>1, <1>2, <2>1, <2>2, <2>4, <2>5, <5>1, <5>2 DEF Alone, Lent, Gets
      <4>3. Same(v)' => Same(v)
        BY <1>1, <2>2 DEF Same, Ready
      <4> QED BY <1>1, <2>1, <2>5, <2>6, <4>1, <4>2, <4>3 DEF Copied
    <3> QED BY <1>3, <2>1, <2>5, <3>1, <3>2
  <2> QED BY <2>6, <2>7, <2>8, <2>9, <2>10 DEF ForkInv
<1> QED BY <1>5, <1>6

\* memmove to the scratch page.
LEMMA CopyStep ==
    ASSUME ForkInv, Copy PROVE ForkInv'
<1>1. /\ pc = "copy" /\ ~mem.panic /\ pc' = "unmap"
      /\ UNCHANGED <<mem, how, va, arg, status, stolen, before>>
  BY DEF Copy, At
<1>2. InCall /\ Lent /\ Lent' /\ Held' = Held
  BY <1>1 DEF InCall, Lent, Held
<1>3. /\ Copying /\ arg.page \in Vas /\ arg.page # UTEMP
      /\ mem.pte[<<Parent, arg.page>>] = before.pte[arg.page]
      /\ before.pte[arg.page] \in Ptes /\ before.pte[arg.page] # Absent
      /\ \A v \in Vas : IF Done(v) THEN Copied(v) ELSE mem.pte[<<Child, v>>] = Absent
  BY <1>1, <1>2, CallFacts
<1>4. PICK f : f = mem.pte[<<Child, arg.page>>].page
  OBVIOUS
<1>5. PICK g : g = before.pte[arg.page].page
  OBVIOUS
<1>6. data' = [data EXCEPT ![f] = data[g]]
  <2>1. mem.pte[<<Parent, UTEMP>>].page = f
    BY <1>2, <1>4 DEF ForkInv, Scratch
  <2> QED BY <1>3, <1>5, <2>1 DEF Copy, FrameAt
<1>7. Done(arg.page) /\ ~Shared(arg.page)
  BY <1>1, <1>2, <1>3 DEF Done, Given, ForkInv, ArgOK
<1>8. /\ f \in Frames
      /\ \A u \in Vas \ {UTEMP} : before.pte[u].page # f
  BY <1>3, <1>4, <1>7, ChildFrame
<1>9. g \in Frames /\ g # f
  BY <1>3, <1>5, <1>8, Presence
<1>10. /\ data' \in [Frames -> Contents] /\ data'[f] = data[g]
       /\ \A p \in Frames : p # f => data'[p] = data[p]
  <2>1. data \in [Frames -> Contents] /\ data[g] \in Contents
    BY <1>9 DEF ForkInv, Types
  <2> QED BY <1>6, <1>8, <2>1
<1>11. \A u \in Vas \ {UTEMP} : before.pte[u] # Absent =>
           data'[before.pte[u].page] = data[before.pte[u].page]
  BY <1>8, <1>10, CalledFacts, Presence DEF ForkInv
<1>12. /\ Called' /\ LoopEnd' = LoopEnd /\ LoopStart' = LoopStart
       /\ \A v \in Vas : Shared(v)' = Shared(v) /\ CopyPerm(v)' = CopyPerm(v)
  BY <1>1, CalledStays DEF ForkInv
<1>13. Types' /\ MemGood'
  BY <1>1, <1>2, <1>10 DEF ForkInv, Types, MemGood, Pcs
<1>14. ParentKept'
  BY <1>1, <1>11 DEF ForkInv, ParentKept
<1>15. Scratch' /\ InLoop' /\ ArgOK' /\ NoChild'
  <2>1. Scratch'
    BY <1>1, <1>2 DEF ForkInv, Scratch
  <2>2. InLoop'
    BY <1>1, <1>12 DEF ForkInv, InLoop
  <2>3. ArgOK'
    BY <1>1, <1>2, <1>3, <1>12 DEF ForkInv, ArgOK
  <2>4. NoChild'
    BY <1>1 DEF NoChild
  <2> QED BY <2>1, <2>2, <2>3, <2>4
<1>16. ChildOK'
  <2> SUFFICES ASSUME NEW v \in Vas
               PROVE  (IF Done(v) THEN Copied(v) ELSE mem.pte[<<Child, v>>] = Absent)'
    BY DEF ChildOK
  <2>1. Done(v)' <=> Done(v)
    BY <1>1, <1>12 DEF Done, Given, Ready
  <2>2. ASSUME Done(v) PROVE Copied(v)'
    <3>1. Copied(v) /\ v # UTEMP /\ before.pte[v] # Absent
      BY <1>3, <2>2, CalledFacts DEF ForkInv, Done
    <3>2. Alone(v) => Alone(v)'
      BY <1>1, <1>2 DEF Alone
    <3>3. ASSUME ~Shared(v), Same(v)'
          PROVE  data'[mem.pte[<<Child, v>>].page] = data'[before.pte[v].page]
      <4>1. CASE v = arg.page
        BY <1>4, <1>5, <1>9, <1>10, <4>1
      <4>2. CASE v # arg.page
        <5>1. Same(v)
          BY <1>1, <3>3, <4>2 DEF Same, Ready
        <5>2. data[mem.pte[<<Child, v>>].page] = data[before.pte[v].page] /\ Alone(v)
          BY <3>1, <3>3, <5>1 DEF Copied
        <5>3. mem.pte[<<Child, v>>].page # f
          BY <1>3, <1>4, <4>2, <5>2, Layout DEF Alone
        <5>4. mem.pte[<<Child, v>>].page \in Frames
          BY <1>3, <2>2, <3>3, ChildFrame
        <5> QED BY <1>10, <1>11, <3>1, <5>2, <5>3, <5>4
      <4> QED BY <4>1, <4>2
    <3> QED BY <1>1, <1>12, <3>1, <3>2, <3>3 DEF Copied
  <2> QED BY <1>1, <1>3, <2>1, <2>2
<1> QED BY <1>12, <1>13, <1>14, <1>15, <1>16 DEF ForkInv

\* sys_page_unmap of the scratch page.
LEMMA UnmapStep ==
    ASSUME ForkInv, Unmap PROVE ForkInv'
<1>1. /\ pc = "unmap" /\ ~mem.panic /\ mem' = PageRemove(mem, Parent, UTEMP)
      /\ UNCHANGED <<how, arg, status, stolen, before>>
  BY DEF Unmap, At
<1>2. InCall /\ Lent /\ Held' = Held
  BY <1>1 DEF InCall, Lent, Held
<1>3. /\ Copying /\ arg.page \in Vas /\ arg.page # UTEMP /\ va \in 0..UTOP
      /\ before.pte[arg.page] # Absent
      /\ \A v \in Vas : IF Done(v) THEN Copied(v) ELSE mem.pte[<<Child, v>>] = Absent
      /\ LoopStart <= va /\ va <= LoopEnd
      /\ va # LoopEnd => arg.page = va /\ va + 1 \in 0..UTOP
      /\ va = LoopEnd => arg.page = StackVa
  BY <1>1, <1>2, CallFacts
<1>4. PICK n : n = mem'
  OBVIOUS
<1>5. /\ Good(n, Held, {}) /\ n.pte = Put(mem.pte, <<Parent, UTEMP>>, Absent)
      /\ n.panic = mem.panic
  BY <1>1, <1>4, HeldIs, Layout, GoodRemove DEF ForkInv, MemGood
<1>6. \A d \in Envs, u \in Vas :
          n.pte[<<d, u>>] = IF d = Parent /\ u = UTEMP THEN Absent ELSE mem.pte[<<d, u>>]
  <2>1. PICK f \in [Envs \X Vas -> Ptes] : f = mem.pte
    BY EntriesType DEF ForkInv
  <2>2. PICK g : g = n.pte /\ g = Put(f, <<Parent, UTEMP>>, Absent)
    BY <1>5, <2>1
  <2>3. \A d \in Envs, u \in Vas :
            g[<<d, u>>] = IF d = Parent /\ u = UTEMP THEN Absent ELSE f[<<d, u>>]
    BY <2>2, Layout DEF Put
  <2> QED BY <2>1, <2>2, <2>3
<1>7. /\ Called' /\ LoopEnd' = LoopEnd /\ LoopStart' = LoopStart
      /\ \A v \in Vas : Shared(v)' = Shared(v) /\ CopyPerm(v)' = CopyPerm(v)
  BY <1>1, CalledStays DEF ForkInv
<1>8. /\ \A v \in Vas : n.pte[<<Child, v>>] = mem.pte[<<Child, v>>]
      /\ \A v \in Vas \ {UTEMP} : n.pte[<<Parent, v>>] = mem.pte[<<Parent, v>>]
      /\ n.pte[<<Parent, UTEMP>>] = Absent
  BY <1>6, Layout
<1>9. ASSUME NEW v \in Vas, Done(v), ~Shared(v) PROVE Alone(v)'
  <2>1. Alone(v) /\ mem.pte[<<Child, v>>].page \in Frames
    BY <1>3, <1>9, ChildFrame DEF Copied
  <2>2. Absent.page \notin Frames
    BY PageTablesAssumption DEF Absent
  <2> QED BY <1>4, <1>6, <1>8, <2>1, <2>2 DEF Alone
<1>10. MemGood' /\ \/ va = LoopEnd /\ pc' = "start" /\ va' = va /\ data' = data
                   \/ va # LoopEnd /\ pc' = "scan" /\ SetVa(va + 1)
  BY <1>2, <1>4, <1>5 DEF Unmap, MemGood
<1>11. CASE va = LoopEnd
  <2>1. pc' = "start" /\ va' = va /\ data' = data
    BY <1>10, <1>11
  <2>2. Types'
    BY <1>1, <1>4, <1>5, <2>1 DEF ForkInv, Types, Pcs
  <2>3. ParentKept'
    BY <1>1, <1>4, <1>8, <2>1 DEF ForkInv, ParentKept
  <2>4. Scratch' /\ InLoop' /\ ArgOK' /\ NoChild'
    <3>1. Scratch' /\ ArgOK' /\ NoChild'
      BY <1>4, <1>8, <2>1 DEF Scratch, Lent, ArgOK, InCall, NoChild
    <3>2. InLoop'
      BY <1>3, <1>7, <2>1 DEF InLoop
    <3> QED BY <3>1, <3>2
  <2>5. ChildOK'
    <3> SUFFICES ASSUME NEW v \in Vas
                 PROVE  (IF Done(v) THEN Copied(v) ELSE mem.pte[<<Child, v>>] = Absent)'
      BY DEF ChildOK
    <3>1. Done(v)' <=> before.pte[v] # Absent
      BY <1>1, <2>1 DEF Done, Ready
    <3>2. ASSUME before.pte[v] # Absent PROVE Done(v)
      <4>1. v \in Used
        BY <3>2, CalledFacts DEF ForkInv
      <4>2. LoopEnd > MoreVa /\ LoopStart <= DataVa /\ LoopStart \in Int
        BY LoopBounds, Layout DEF ForkInv, Types
      <4>3. CASE v = VgaUser
        BY <3>2, <4>3 DEF Done
      <4>4. CASE v = DataVa \/ v = MoreVa
        <5>1. LoopStart <= v /\ v < va
          BY <1>11, <4>2, <4>4, LoopBounds, Layout DEF ForkInv
        <5> QED BY <3>2, <5>1 DEF Done
      <4>5. CASE v = StackVa
        BY <1>1, <1>3, <1>11, <3>2, <4>5 DEF Done, Given
      <4> QED BY <4>1, <4>3, <4>4, <4>5 DEF Used
    <3>3. ASSUME Done(v) PROVE Copied(v)'
      <4>1. Copied(v)
        BY <1>3, <3>3
      <4>2. Same(v)
        BY <1>1, <1>3, <1>11 DEF Same
      <4> QED BY <1>1, <1>4, <1>7, <1>8, <1>9, <2>1, <3>3, <4>1, <4>2 DEF Copied
    <3>4. ~Done(v) => mem'.pte[<<Child, v>>] = Absent
      BY <1>3, <1>4, <1>8
    <3>5. Done(v) => before.pte[v] # Absent
      BY DEF Done
    <3> QED BY <3>1, <3>2, <3>3, <3>4, <3>5
  <2> QED BY <1>7, <1>10, <2>2, <2>3, <2>4, <2>5 DEF ForkInv
<1>12. CASE va # LoopEnd
  <2>1. pc' = "scan" /\ SetVa(va + 1) /\ arg.page = va /\ va + 1 \in 0..UTOP
    BY <1>3, <1>10, <1>12
  <2>2. va' = va + 1 /\ data' \in [Frames -> Contents]
    BY <2>1, SetVaIs
  <2>3. Types'
    BY <1>1, <1>4, <1>5, <2>1, <2>2 DEF ForkInv, Types, Pcs
  <2>4. ParentKept'
    <3>1. \A v \in Vas \ {UTEMP} : mem'.pte[<<Parent, v>>] = mem.pte[<<Parent, v>>]
      BY <1>4, <1>8
    <3> QED BY <1>1, <2>1, <3>1, SetVaParent
  <2>5. Scratch' /\ InLoop' /\ ArgOK' /\ NoChild'
    <3>1. Scratch' /\ ArgOK' /\ NoChild'
      BY <1>4, <1>8, <2>1 DEF Scratch, Lent, ArgOK, InCall, NoChild
    <3>2. InLoop'
      BY <1>3, <1>7, <1>12, <2>2, LoopBounds DEF ForkInv, InLoop
    <3> QED BY <3>1, <3>2
  <2>6. ChildOK'
    <3> SUFFICES ASSUME NEW v \in Vas
                 PROVE  (IF Done(v) THEN Copied(v) ELSE mem.pte[<<Child, v>>] = Absent)'
      BY DEF ChildOK
    <3>1. Done(v)' <=> Done(v)
      BY <1>1, <1>3, <1>7, <2>1, <2>2, Layout DEF Done, Given, Ready
    <3>2. ASSUME Done(v) PROVE Copied(v)'
      <4>1. Copied(v)
        BY <1>3, <3>2
      <4>2. ASSUME ~Shared(v), Same(v)'
            PROVE  data'[mem.pte[<<Child, v>>].page] = data'[before.pte[v].page]
        <5>1. v # StackVa /\ Same(v)
          BY <1>1, <2>1, <4>2 DEF Same, Ready
        <5>2. data[mem.pte[<<Child, v>>].page] = data[before.pte[v].page]
          BY <4>1, <4>2, <5>1 DEF Copied
        <5> QED BY <1>3, <2>1, <3>2, <4>2, <5>1, <5>2, SetVaKeeps
      <4> QED BY <1>1, <1>4, <1>7, <1>8, <1>9, <3>2, <4>1, <4>2 DEF Copied
    <3> QED BY <1>3, <1>4, <1>8, <3>1, <3>2
  <2> QED BY <1>7, <1>10, <2>3, <2>4, <2>5, <2>6 DEF ForkInv
<1> QED BY <1>11, <1>12

\* sys_exofork.
LEMMA ExoforkStep ==
    ASSUME ForkInv, Exofork PROVE ForkInv'
<1>1. pc = "exofork" /\ ~mem.panic /\ UNCHANGED <<how, arg, stolen, before>>
  BY DEF Exofork, At
<1>2. ~Lent /\ Held' = Held
  BY <1>1 DEF Lent, Held
<1>3. CASE pc' = "panic" /\ UNCHANGED <<mem, data, va, status>>
  <2>1. MemGood' /\ data' \in [Frames -> Contents]
    BY <1>2, <1>3 DEF ForkInv, MemGood, Types
  <2> QED BY <1>1, <1>2, <1>3, <2>1, FailStep
<1>4. CASE /\ mem.free # <<>> /\ mem' = EnvSetupVm(mem, Child)
           /\ status' = "ENV_NOT_RUNNABLE"
           /\ SetVa(IF how = "fork" THEN 0 ELSE DataVa)
           /\ pc' = "scan"
  <2>1. PICK n : n = mem'
    OBVIOUS
  <2>2. /\ Good(mem, Held, {}) /\ NoDebt(Held) /\ \A p \in Frames : Held[p] <= 1
    BY HeldIs DEF ForkInv, MemGood
  <2>3. mem.ref[Vga] + 1 < RefMod
    <3>1. OnlyPlaces(mem) /\ Vga \in Frames
      BY <1>1, PlacesHold DEF Frames
    <3> QED BY <2>2, <3>1, FewRefs
  <2>4. HasFree(mem) /\ mem.dir[Child] = NULL /\ n = EnvSetupVm(mem, Child)
    BY <1>1, <1>4, <2>1 DEF HasFree, ForkInv, NoChild
  <2>5. /\ Good(n, Held, {})
        /\ \/ n.pte = mem.pte /\ n.panic
           \/ n.pte = Put(mem.pte, <<Child, VgaUser>>, Entry(Vga, Bits))
    BY <2>2, <2>3, <2>4, Layout, GoodSetupVm
  <2>6. \/ n.pte = mem.pte /\ n.panic
        \/ Gets(n, Child, VgaUser, Vga, Bits)
    <3>1. "P" \in Bits
      BY DEF Bits
    <3> QED BY <2>5, <3>1, Layout, PutGets DEF ForkInv
  <2>7. \A v \in Vas : n.pte[<<Parent, v>>] = mem.pte[<<Parent, v>>]
    BY <2>6, Layout DEF Gets
  <2>8. SetVa(LoopStart) /\ LoopStart \in 0..UTOP /\ LoopStart <= LoopEnd
    BY <1>4, LoopBounds DEF LoopStart, ForkInv
  <2>9. va' = LoopStart /\ data' \in [Frames -> Contents]
    BY <2>8, SetVaIs
  <2>10. /\ Called' /\ LoopEnd' = LoopEnd /\ LoopStart' = LoopStart
         /\ \A v \in Vas : Shared(v)' = Shared(v) /\ CopyPerm(v)' = CopyPerm(v)
    BY <1>1, CalledStays DEF ForkInv
  <2>11. Types' /\ MemGood'
    BY <1>1, <1>2, <1>4, <2>1, <2>5, <2>8, <2>9 DEF ForkInv, Types, MemGood, Pcs
  <2>12. ParentKept'
    BY <1>1, <2>1, <2>7, <2>8, SetVaParent
  <2>13. Scratch' /\ InLoop' /\ ArgOK' /\ NoChild'
    <3>1. Scratch'
      BY <1>2, <1>4, <2>1, <2>7, Layout DEF ForkInv, Scratch, Lent
    <3>2. InLoop'
      BY <2>8, <2>9, <2>10 DEF InLoop
    <3>3. ArgOK' /\ NoChild'
      BY <1>4 DEF ArgOK, InCall, NoChild
    <3> QED BY <3>1, <3>2, <3>3
  <2>14. ChildOK'
    <3> SUFFICES ASSUME ~n.panic, NEW v \in Vas
                 PROVE  (IF Done(v) THEN Copied(v) ELSE mem.pte[<<Child, v>>] = Absent)'
      BY <2>1 DEF ChildOK, Copying
    <3>1. Gets(n, Child, VgaUser, Vga, Bits)
      BY <2>6
    <3>2. mem.pte[<<Child, v>>] = Absent
      BY <1>1 DEF ForkInv, NoChild
    <3>3. /\ before.pte[VgaUser] # Absent
          /\ before.pte[VgaUser].page = Vga /\ before.pte[VgaUser].perm = Bits /\ Shared(VgaUser)
      BY CalledFacts DEF ForkInv
    <3>4. Done(v)' <=> v = VgaUser
      BY <1>1, <1>4, <2>8, <2>9, <2>10, <3>3, Layout DEF Done, Given, Ready
    <3>5. CASE v = VgaUser
      <4>1. n.pte[<<Child, v>>] = [page |-> Vga, perm |-> Bits]
        BY <3>1, <3>5, Layout DEF Gets
      <4>2. CopyPerm(v) = Bits /\ Vga # NULL
        BY <3>3, <3>5, PageTablesAssumption DEF CopyPerm, Frames
      <4>3. Copied(v)'
        BY <1>1, <2>1, <2>10, <3>3, <3>5, <4>1, <4>2 DEF Copied, Absent
      <4> QED BY <3>4, <3>5, <4>3
    <3>6. CASE v # VgaUser
      <4>1. n.pte[<<Child, v>>] = Absent
        BY <3>1, <3>2, <3>6, Layout DEF Gets
      <4> QED BY <2>1, <3>4, <3>6, <4>1
    <3> QED BY <3>5, <3>6
  <2> QED BY <2>10, <2>11, <2>12, <2>13, <2>14 DEF ForkInv
<1> QED BY <1>3, <1>4 DEF Exofork

\* sys_env_set_status: the child may run.
LEMMA StartStep ==
    ASSUME ForkInv, Start PROVE ForkInv'
<1>1. /\ pc = "start" /\ ~mem.panic /\ status' = "ENV_RUNNABLE" /\ pc' = "parent"
      /\ UNCHANGED <<mem, data, how, va, arg, stolen, before>>
  BY DEF Start, At
<1>2. Held' = Held
  BY <1>1 DEF Held
<1>3. /\ Called' /\ LoopEnd' = LoopEnd /\ LoopStart' = LoopStart
      /\ \A v \in Vas : Shared(v)' = Shared(v) /\ CopyPerm(v)' = CopyPerm(v)
  BY <1>1, CalledStays DEF ForkInv
<1>4. Types' /\ MemGood' /\ ParentKept'
  BY <1>1, <1>2 DEF ForkInv, Types, MemGood, ParentKept, Pcs
<1>5. Scratch' /\ InLoop' /\ ArgOK' /\ NoChild'
  BY <1>1, <1>3 DEF ForkInv, Scratch, Lent, InLoop, ArgOK, InCall, NoChild
<1>6. ChildOK'
  <2> SUFFICES ASSUME NEW v \in Vas
               PROVE  (IF Done(v) THEN Copied(v) ELSE mem.pte[<<Child, v>>] = Absent)'
    BY DEF ChildOK
  <2>1. Done(v)' <=> Done(v)
    BY <1>1, <1>3 DEF Done, Given, Ready
  <2>2. Copied(v) => Copied(v)'
    BY <1>1, <1>3 DEF Copied, Alone, Lent, Same, Ready
  <2> QED BY <1>1, <2>1, <2>2 DEF ForkInv, ChildOK, Copying
<1> QED BY <1>3, <1>4, <1>5, <1>6 DEF ForkInv

\* The child sets its `thisenv'.
LEMMA ChildReturnsStep ==
    ASSUME ForkInv, ChildReturns PROVE ForkInv'
<1>1. /\ pc = "parent" /\ ~mem.panic /\ pc' = "child"
      /\ data' = [data EXCEPT ![FrameAt(mem, Child, DataVa)].tag = "child"]
      /\ UNCHANGED <<mem, how, va, arg, status, stolen, before>>
  BY DEF ChildReturns, At
<1>2. Copying /\ Done(DataVa) /\ ~Shared(DataVa) /\ Held' = Held
  BY <1>1, CalledFacts DEF ForkInv, Copying, Done, Ready, Held
<1>3. PICK f \in Frames : f = mem.pte[<<Child, DataVa>>].page
  BY <1>2, ChildFrame, Layout
<1>4. \A u \in Vas \ {UTEMP} : before.pte[u].page # f
  BY <1>2, <1>3, ChildFrame, Layout
<1>5. /\ data' \in [Frames -> Contents] /\ \A p \in Frames : p # f => data'[p] = data[p]
  <2>1. data' = [data EXCEPT ![f].tag = "child"] /\ data \in [Frames -> Contents]
    BY <1>1, <1>3 DEF FrameAt, ForkInv, Types
  <2> QED BY <2>1, WriteTag
<1>6. Called' /\ LoopEnd' = LoopEnd /\ LoopStart' = LoopStart
  BY <1>1, CalledStays DEF ForkInv
<1>7. Types' /\ MemGood'
  BY <1>1, <1>2, <1>5 DEF ForkInv, Types, MemGood, Pcs
<1>8. ParentKept'
  <2> SUFFICES ASSUME NEW v \in Vas \ {UTEMP}, before.pte[v] # Absent
               PROVE  data'[before.pte[v].page].tag = before.tag[v]
    BY <1>1 DEF ForkInv, ParentKept
  <2>1. before.pte[v].page \in Frames /\ before.pte[v].page # f
    BY <1>4, CalledFacts, Presence DEF ForkInv
  <2> QED BY <1>5, <2>1 DEF ForkInv, ParentKept
<1>9. Scratch' /\ InLoop' /\ ArgOK' /\ ChildOK' /\ NoChild'
  BY <1>1, <1>6 DEF ForkInv, Scratch, Lent, InLoop, ArgOK, InCall, ChildOK, Copying, NoChild
<1> QED BY <1>6, <1>7, <1>8, <1>9 DEF ForkInv

\* Another environment takes a page.
LEMMA StealStep ==
    ASSUME ForkInv, Steal PROVE ForkInv'
<1>1. /\ ~mem.panic /\ HasFree(mem) /\ mem' = AddRef(PageAlloc(mem), Head(mem.free))
      /\ stolen' = stolen \cup {Head(mem.free)}
      /\ UNCHANGED <<data, how, pc, va, arg, status, before>>
  BY DEF Steal, HasFree
<1>2. PICK q : q = Top(mem) /\ q = Head(mem.free)
  BY DEF Top
<1>3. PICK m1 : m1 = PageAlloc(mem)
  OBVIOUS
<1>4. PICK n : n = mem' /\ n = AddRef(m1, q)
  BY <1>1, <1>2, <1>3
<1>5. Good(mem, Held, {}) /\ NoDebt(Held) /\ Held \in [Frames -> Int]
  BY HeldIs DEF ForkInv, MemGood
<1>6. /\ Good(m1, Held, With({}, q))
      /\ q \in Pages \ {} /\ Count(mem, Held, q) = 0
      /\ m1.ref = mem.ref /\ m1.dir = mem.dir /\ m1.pte = mem.pte /\ m1.panic = mem.panic
  <2>1. HasFree(mem) /\ q = Top(mem)
    BY <1>1, <1>2
  <2> QED BY <1>3, <1>5, <2>1, GoodAlloc
<1>7. Mappable(m1, q) /\ q \in Frames
  <2>1. q \in With({}, q)
    BY DEF With
  <2> QED BY <1>5, <1>6, <2>1, LooseMappable DEF Frames
<1>8. PICK h : h = Plus(Held, q)
  OBVIOUS
<1>9. /\ Good(n, h, Without(With({}, q), q))
      /\ n.dir = m1.dir /\ n.pte = m1.pte /\ n.panic = m1.panic
  BY <1>4, <1>6, <1>7, <1>8, GoodAddRef DEF Mappable
<1>10. Held' = h
  <2>1. Held[q] = 0
    <3>1. Held[q] \in Int /\ Held[q] >= 0 /\ Refs(mem, q) \in Nat /\ Refs(mem, q) + Held[q] = 0
      BY <1>5, <1>6, <1>7, PlacesFinite DEF Count, NoDebt
    <3> QED BY <3>1
  <2>2. Held' = [p \in Frames |-> IF p \in stolen \cup {q} THEN 1 ELSE 0]
    BY <1>1, <1>2 DEF Held
  <2>3. \A p \in Frames : h[p] = IF p = q THEN Held[p] + 1 ELSE Held[p]
    BY <1>5, <1>7, <1>8 DEF Plus
  <2>4. \A p \in Frames : Held'[p] = h[p]
    BY <2>1, <2>2, <2>3 DEF Held
  <2>5. h \in [Frames -> Int] /\ DOMAIN Held' = Frames
    BY <1>5, <1>7, <1>8, <2>2 DEF Plus
  <2>6. h = [p \in Frames |-> h[p]] /\ Held' = [p \in Frames |-> Held'[p]]
    BY <2>2, <2>5
  <2> QED BY <2>4, <2>6
<1>11. MemGood' /\ mem'.dir = mem.dir /\ mem'.pte = mem.pte /\ mem'.panic = mem.panic
  BY <1>4, <1>6, <1>9, <1>10, NoLoose DEF MemGood
<1>12. stolen' \subseteq Pages
  BY <1>1, <1>2, <1>6 DEF ForkInv, Types
<1>13. /\ Called' /\ LoopEnd' = LoopEnd /\ LoopStart' = LoopStart
       /\ \A v \in Vas : Shared(v)' = Shared(v) /\ CopyPerm(v)' = CopyPerm(v)
  BY <1>1, CalledStays DEF ForkInv
<1>14. Types' /\ ParentKept'
  BY <1>1, <1>11, <1>12 DEF ForkInv, Types, ParentKept
<1>15. Scratch' /\ InLoop' /\ ArgOK' /\ NoChild'
  <2>1. Scratch' /\ InLoop' /\ NoChild'
    BY <1>1, <1>11, <1>13 DEF ForkInv, Scratch, Lent, InLoop, NoChild
  <2>2. ArgOK'
    <3> SUFFICES ASSUME InCall PROVE ArgOK'
      BY <1>1 DEF ArgOK, InCall
    <3>1. arg.page \in Vas
      BY DEF ForkInv, Types
    <3> QED BY <1>1, <1>13, <3>1 DEF ForkInv, ArgOK
  <2> QED BY <2>1, <2>2
<1>16. ChildOK'
  <2> SUFFICES ASSUME Copying, NEW v \in Vas
               PROVE  (IF Done(v) THEN Copied(v) ELSE mem.pte[<<Child, v>>] = Absent)'
    BY <1>1, <1>11 DEF ChildOK, Copying
  <2>1. Done(v)' <=> Done(v)
    BY <1>1, <1>13 DEF Done, Given, Ready
  <2>2. Copied(v) => Copied(v)'
    BY <1>1, <1>11, <1>13 DEF Copied, Alone, Lent, Same, Ready
  <2> QED BY <1>11, <2>1, <2>2 DEF ForkInv, ChildOK
<1> QED BY <1>11, <1>13, <1>14, <1>15, <1>16 DEF ForkInv

\* Every step.
LEMMA ForkStep ==
    ASSUME ForkInv, [Next]_vars PROVE ForkInv'
<1>1. CASE Next
  BY <1>1, ExoforkStep, ScanStep, LastStackStep, MapStep, AllocStep, MapTempStep, CopyStep,
     UnmapStep, StartStep, ChildReturnsStep, StealStep DEF Next
<1>2. CASE UNCHANGED vars
  <2>1. /\ Types' /\ MemGood' /\ Called' /\ ParentKept' /\ Scratch' /\ InLoop' /\ ArgOK'
        /\ ChildOK' /\ NoChild'
    BY <1>2 DEF vars, ForkInv, Types, MemGood, Held, Called, ParentKept, Scratch, Lent, InLoop,
       LoopStart, LoopEnd, ArgOK, InCall, CopyPerm, Shared, ChildOK, Copying, Done, Given, Ready,
       Copied, Alone, Same, NoChild
  <2> QED BY <2>1 DEF ForkInv
<1> QED BY <1>1, <1>2

-----------------------------------------------------------------------------
(* The program that calls fork.                                             *)

\* Memory while the program is loaded, with k pages left.
Loaded(m, k) == Good(m, Zero, {}) /\ m.panic = FALSE /\ m.dir[Child] = NULL /\ Len(m.free) >= k

\* One page more: m becomes n.
Loads(m, n, p, v, perm) == p = Head(m.free) /\ n = PageInsert(PageAlloc(m), Parent, p, v, perm)
HasPage(m, n, p, v, perm) ==
    /\ p \in Pages
    /\ \A u \in Vas : m.pte[<<Parent, u>>].page # p
    /\ \A e \in Envs, u \in Vas :
          n.pte[<<e, u>>] = IF e = Parent /\ u = v THEN Entry(p, perm) ELSE m.pte[<<e, u>>]

LEMMA LoadPage ==
    ASSUME NEW m, NEW k \in Nat, k >= 2, Loaded(m, k), NEW v \in Vas,
           NEW perm \in SUBSET Bits, NEW p, NEW n, Loads(m, n, p, v, perm)
    PROVE  Loaded(n, k - 2) /\ HasPage(m, n, p, v, perm)
<1>0. /\ Good(m, Zero, {}) /\ Len(m.free) >= k /\ m.panic = FALSE /\ m.dir[Child] = NULL
      /\ p = Head(m.free) /\ n = PageInsert(PageAlloc(m), Parent, p, v, perm)
      /\ Parent \in Envs /\ perm \subseteq Bits
  BY Layout DEF Loaded, Loads
<1>1. PICK m1 : m1 = PageAlloc(m)
  OBVIOUS
<1>2. PICK fl \in Seq(Pages) : fl = m.free /\ Len(fl) >= k
  BY <1>0 DEF Good, OnlyPages
<1>3. fl # <<>>
  BY <1>2, EmptySeq
<1>4. HasFree(m) /\ p = Top(m) /\ m \in Shape
  BY <1>0, <1>2, <1>3 DEF HasFree, Top, Good
<1>5. m1 \in Shape /\ m1.free = Tail(fl)
  BY <1>1, <1>2, <1>4, PageAllocIs DEF HasFree
<1>6. PICK tl \in Seq(Pages) : tl = Tail(fl) /\ Len(tl) = Len(fl) - 1
  BY <1>3, HeadTailProperties
<1>7. tl # <<>> /\ Len(tl) >= k - 1
  <2>1. Len(tl) >= k - 1
    BY <1>2, <1>6
  <2>2. Len(tl) # 0
    BY <2>1
  <2>3. tl # <<>>
    BY <2>2
  <2> QED BY <2>1, <2>3
<1>8. ~WalkFails(m1, Parent, v)
  BY <1>5, <1>6, <1>7 DEF WalkFails
<1>9. n = PageInsert(m1, Parent, p, v, perm)
  BY <1>0, <1>1
<1>10. /\ Good(n, Zero, {}) /\ n.pte = Put(m.pte, <<Parent, v>>, Entry(p, perm))
       /\ n.dir = m.dir /\ n.panic = m.panic
       /\ p \in Pages /\ Mappings(m, p) = {}
  BY <1>0, <1>1, <1>4, <1>8, <1>9, ZeroHeld, GoodAllocInsert
<1>11. Len(n.free) >= Len(m1.free) - 1
  <2>1. p \in Frames
    BY <1>10 DEF Frames
  <2>2. m1 \in Shape
    BY <1>5
  <2>3. /\ n \in Shape /\ n.pte = Put(m1.pte, <<Parent, v>>, Entry(p, perm))
        /\ n.dir = m1.dir /\ Len(n.free) >= Len(m1.free) - 1
    BY <1>0, <1>8, <1>9, <2>1, <2>2, PageInsertIs
  <2> QED BY <2>3
<1>12. Len(n.free) >= k - 2
  <2>1. PICK j \in Nat : j = Len(n.free)
    BY <1>10 DEF Good, OnlyPages
  <2>2. PICK i \in Nat : i = Len(tl)
    OBVIOUS
  <2>3. j >= i - 1
    BY <1>5, <1>6, <1>11, <2>1, <2>2
  <2>4. j >= k - 2
    BY <1>7, <2>2, <2>3
  <2> QED BY <2>1, <2>4
<1>13. PICK entry : entry = Entry(p, perm)
  OBVIOUS
<1>14. m.pte \in [Envs \X Vas -> Ptes] /\ n.pte = Put(m.pte, <<Parent, v>>, entry)
  BY <1>0, <1>10, <1>13 DEF Good, Shape, PteSets
<1>15. \A e \in Envs, u \in Vas :
          n.pte[<<e, u>>] = IF e = Parent /\ u = v THEN entry ELSE m.pte[<<e, u>>]
  BY <1>14, Layout DEF Put
<1>16. \A u \in Vas : m.pte[<<Parent, u>>].page # p
  BY <1>0, <1>10 DEF Mappings
<1>17. Loaded(n, k - 2)
  BY <1>0, <1>10, <1>12 DEF Loaded
<1> QED BY <1>10, <1>13, <1>15, <1>16, <1>17 DEF HasPage

\* The page directory and the VGA page.
LEMMA SetupIs ==
    ASSUME NEW m, m = EnvSetupVm(FreshMem, Parent)
    PROVE  /\ Loaded(m, 6)
           /\ \A e \in Envs, v \in Vas :
                 m.pte[<<e, v>>] = IF e = Parent /\ v = VgaUser THEN Entry(Vga, Bits) ELSE Absent
<1>1. PICK m0 : m0 = FreshMem
  OBVIOUS
<1>2. /\ Good(m0, Zero, {}) /\ m0.free = FirstFree /\ m0.ref[Vga] = 1 /\ m0.panic = FALSE
      /\ m0.dir[Parent] = NULL /\ m0.dir[Child] = NULL
  BY <1>1, GoodFresh, Layout
<1>3. FirstFree \in Seq(Pages) /\ Len(FirstFree) \in Nat /\ Len(FirstFree) >= 8
  BY PageTablesAssumption, ForkAssumption
<1>4. HasFree(m0) /\ m = EnvSetupVm(m0, Parent)
  BY <1>1, <1>2, <1>3, EmptySeq DEF HasFree
<1>5. /\ Good(m, Zero, {})
      /\ \/ m.pte = m0.pte /\ m.panic
         \/ m.pte = Put(m0.pte, <<Parent, VgaUser>>, Entry(Vga, Bits))
      /\ Len(m0.free) > 1 => m.panic = m0.panic
  <2>1. m0.ref[Vga] + 1 < RefMod
    BY <1>2, PageTablesAssumption
  <2> QED BY <1>2, <1>4, <2>1, Layout, ZeroHeld, GoodSetupVm
<1>6. m.panic = FALSE /\ m.pte = Put(m0.pte, <<Parent, VgaUser>>, Entry(Vga, Bits))
  BY <1>2, <1>3, <1>5
<1>7. m0 \in Shape
  BY <1>2 DEF Good
<1>8. m.dir = Put(m0.dir, Parent, Top(m0)) /\ Len(m.free) >= Len(m0.free) - 2
  BY <1>4, <1>7, Layout, EnvSetupVmIs
<1>9. m.dir[Child] = NULL
  <2>1. m0.dir \in [Envs -> Frames \cup {NULL}]
    BY <1>7 DEF Shape, DirSets
  <2> QED BY <1>2, <1>8, <2>1, Layout DEF Put
<1>10. Len(m.free) >= 6
  <2>1. PICK j \in Nat : j = Len(m.free)
    BY <1>5 DEF Good, OnlyPages
  <2>2. PICK i \in Nat : i = Len(FirstFree) /\ i >= 8
    BY <1>3
  <2>3. j >= i - 2
    BY <1>2, <1>8, <2>1, <2>2
  <2> QED BY <2>1, <2>2, <2>3
<1>11. m0.pte = [x \in Envs \X Vas |-> Absent]
  BY <1>1 DEF FreshMem
<1>12. \A e \in Envs, v \in Vas :
           m.pte[<<e, v>>] = IF e = Parent /\ v = VgaUser THEN Entry(Vga, Bits) ELSE Absent
  <2>1. PICK entry : entry = Entry(Vga, Bits)
    OBVIOUS
  <2>2. m.pte = Put([x \in Envs \X Vas |-> Absent], <<Parent, VgaUser>>, entry)
    BY <1>6, <1>11, <2>1
  <2>3. \A e \in Envs, v \in Vas :
            m.pte[<<e, v>>] = IF e = Parent /\ v = VgaUser THEN entry ELSE Absent
    BY <2>2, Layout DEF Put
  <2> QED BY <2>1, <2>3
<1> QED BY <1>5, <1>6, <1>9, <1>10, <1>12 DEF Loaded

\* The entries of the program.
Program(m, more) ==
    /\ \A v \in Vas : m.pte[<<Child, v>>] = Absent
    /\ \A v \in Vas \ Used : m.pte[<<Parent, v>>] = Absent
    /\ m.pte[<<Parent, VgaUser>>] = Entry(Vga, Bits)
    /\ m.pte[<<Parent, DataVa>>].perm = RW /\ m.pte[<<Parent, StackVa>>].perm = RW
    /\ \A v \in Vas : m.pte[<<Parent, v>>].page = m.pte[<<Parent, StackVa>>].page => v = StackVa
    /\ m.pte[<<Parent, MoreVa>>] = Absent <=> more = {}

LEMMA ProgramIs ==
    ASSUME NEW more \in MorePerms \cup {{}}, NEW alias \in BOOLEAN,
           NEW m, m = ParentMem(more, alias)
    PROVE  Loaded(m, 0) /\ Program(m, more)
<1>1. PICK m1 : m1 = EnvSetupVm(FreshMem, Parent)
  OBVIOUS
<1>2. PICK p : p = Head(m1.free)
  OBVIOUS
<1>3. PICK perm \in SUBSET Bits : perm = {"U", "W"}
  BY DEF Bits
<1>4. PICK m2 : m2 = RegionAlloc(m1, Parent, DataVa)
               /\ Loads(m1, m2, p, DataVa, perm)
  BY <1>2, <1>3 DEF RegionAlloc, Loads
<1>5. PICK q : q = Head(m2.free)
  OBVIOUS
<1>6. PICK m3 : m3 = RegionAlloc(m2, Parent, StackVa)
               /\ Loads(m2, m3, q, StackVa, perm)
  BY <1>3, <1>5 DEF RegionAlloc, Loads
<1>7. PICK r : r = Head(m3.free)
  OBVIOUS
<1>8. m = IF more = {} THEN m3
          ELSE IF alias THEN PageInsert(m3, Parent, m3.pte[<<Parent, DataVa>>].page, MoreVa, more)
          ELSE PageInsert(PageAlloc(m3), Parent, r, MoreVa, more)
  BY <1>1, <1>4, <1>6, <1>7 DEF ParentMem
<1>9. /\ Loaded(m1, 6)
      /\ \A e \in Envs, v \in Vas :
            m1.pte[<<e, v>>] = IF e = Parent /\ v = VgaUser THEN Entry(Vga, Bits) ELSE Absent
  BY <1>1, SetupIs
<1>10. /\ Loaded(m2, 4)
       /\ p \in Pages
       /\ \A e \in Envs, u \in Vas :
             m2.pte[<<e, u>>] = IF e = Parent /\ u = DataVa THEN Entry(p, perm) ELSE m1.pte[<<e, u>>]
  <2>1. Loads(m1, m2, p, DataVa, perm) /\ Loaded(m1, 6) /\ 6 \in Nat /\ 6 >= 2 /\ DataVa \in Vas
    BY <1>4, <1>9, Layout
  <2>2. Loaded(m2, 6 - 2) /\ HasPage(m1, m2, p, DataVa, perm)
    BY <2>1, LoadPage
  <2>3. 6 - 2 = 4
    OBVIOUS
  <2> QED BY <2>2, <2>3 DEF HasPage
<1>11. /\ Loaded(m3, 2)
       /\ q \in Pages
       /\ \A u \in Vas : m2.pte[<<Parent, u>>].page # q
       /\ \A e \in Envs, u \in Vas :
             m3.pte[<<e, u>>] = IF e = Parent /\ u = StackVa THEN Entry(q, perm) ELSE m2.pte[<<e, u>>]
  <2>1. Loads(m2, m3, q, StackVa, perm) /\ Loaded(m2, 4) /\ 4 \in Nat /\ 4 >= 2 /\ StackVa \in Vas
    BY <1>6, <1>10, Layout
  <2>2. Loaded(m3, 4 - 2) /\ HasPage(m2, m3, q, StackVa, perm)
    BY <2>1, LoadPage
  <2>3. 4 - 2 = 2
    OBVIOUS
  <2> QED BY <2>2, <2>3 DEF HasPage
<1>12. /\ Entry(p, perm).page = p /\ Entry(p, perm).perm = RW
       /\ Entry(q, perm).page = q /\ Entry(q, perm).perm = RW
       /\ Absent.page = NULL /\ q # NULL /\ p # q
  <2>1. perm \cup {"P"} = RW
    BY <1>3 DEF RW
  <2>2. /\ Entry(p, perm).page = p /\ Entry(p, perm).perm = RW
        /\ Entry(q, perm).page = q /\ Entry(q, perm).perm = RW
    BY <2>1 DEF Entry
  <2>3. m2.pte[<<Parent, DataVa>>].page = p
    BY <1>10, <2>2, Layout
  <2> QED BY <1>11, <2>2, <2>3, Layout, PageTablesAssumption DEF Absent, Frames
<1>13. Program(m3, {}) /\ m3.pte[<<Parent, DataVa>>].page = p
       /\ m3.pte[<<Parent, StackVa>>].page = q
  <2>1. /\ \A v \in Vas : m3.pte[<<Child, v>>] = Absent
        /\ \A v \in Vas \ Used : m3.pte[<<Parent, v>>] = Absent
        /\ m3.pte[<<Parent, VgaUser>>] = Entry(Vga, Bits)
        /\ m3.pte[<<Parent, MoreVa>>] = Absent
    BY <1>9, <1>10, <1>11, Layout DEF Used
  <2>2. m3.pte[<<Parent, DataVa>>] = Entry(p, perm) /\ m3.pte[<<Parent, StackVa>>] = Entry(q, perm)
    BY <1>10, <1>11, Layout
  <2>3. \A v \in Vas : m3.pte[<<Parent, v>>].page = q => v = StackVa
    BY <1>11, Layout
  <2> QED BY <1>12, <2>1, <2>2, <2>3 DEF Program
<1>14. CASE more = {}
  <2>1. m = m3
    BY <1>8, <1>14
  <2>2. Loaded(m, 0)
    <3>1. Len(m3.free) \in Nat
      BY <1>11 DEF Loaded, Good, OnlyPages
    <3> QED BY <1>11, <2>1, <3>1 DEF Loaded
  <2> QED BY <1>13, <1>14, <2>1, <2>2
<1>15. ASSUME more # {}, NEW s, s \in Frames, s # q,
              \A e \in Envs, u \in Vas :
                  m.pte[<<e, u>>] = IF e = Parent /\ u = MoreVa THEN Entry(s, more) ELSE m3.pte[<<e, u>>]
       PROVE  Program(m, more)
  <2>1. Entry(s, more).page = s /\ Entry(s, more) # Absent
    BY <1>15, PageTablesAssumption DEF Entry, Absent
  <2>2. /\ \A v \in Vas : m.pte[<<Child, v>>] = m3.pte[<<Child, v>>]
        /\ \A v \in Vas : v # MoreVa => m.pte[<<Parent, v>>] = m3.pte[<<Parent, v>>]
        /\ m.pte[<<Parent, MoreVa>>] = Entry(s, more)
    BY <1>15, Layout
  <2>3. MoreVa # VgaUser /\ MoreVa # DataVa /\ MoreVa # StackVa /\ MoreVa \in Used
    BY Layout DEF Used
  <2> QED BY <1>13, <1>15, <2>1, <2>2, <2>3, Layout DEF Program
<1>16. more # {} => more \subseteq Bits
  BY ForkAssumption
<1>17. CASE more # {} /\ ~alias
  <2>1. Loads(m3, m, r, MoreVa, more)
    BY <1>7, <1>8, <1>17 DEF Loads
  <2>2. more \in SUBSET Bits /\ Loaded(m3, 2) /\ 2 \in Nat /\ 2 >= 2 /\ MoreVa \in Vas
    BY <1>11, <1>16, <1>17, Layout
  <2>3. Loaded(m, 2 - 2) /\ HasPage(m3, m, r, MoreVa, more)
    BY <2>1, <2>2, LoadPage
  <2>4. 2 - 2 = 0 /\ r \in Frames /\ r # q
    BY <1>13, <2>3, Layout DEF Frames, HasPage
  <2> QED BY <1>15, <1>17, <2>3, <2>4 DEF HasPage
<1>18. CASE more # {} /\ alias
  <2>1. m = PageInsert(m3, Parent, p, MoreVa, more)
    BY <1>8, <1>13, <1>18
  <2>2. Good(m3, Zero, {}) /\ m3.panic = FALSE /\ m3.dir[Child] = NULL /\ Len(m3.free) >= 2
    BY <1>11 DEF Loaded
  <2>3. p \in Frames /\ p # NULL
    BY <1>10, PageTablesAssumption DEF Frames
  <2>4. PICK x \in Envs \X Vas : x = <<Parent, DataVa>>
    BY Layout
  <2>5. m3.ref[p] + 1 < RefMod
    <3>1. OnlyPlaces(m3)
      <4> SUFFICES ASSUME NEW e \in Envs, NEW v \in Vas, v \notin Places
                   PROVE  m3.pte[<<e, v>>] = Absent
        BY DEF OnlyPlaces
      <4> QED BY <1>13, ForkAssumption DEF Program, Places
    <3>2. Mappings(m3, p) # {}
      BY <1>13, <2>4 DEF Mappings
    <3>3. \A f \in Frames : Zero[f] <= 1
      BY DEF Zero
    <3> QED BY <2>2, <2>3, <3>1, <3>2, <3>3, ZeroHeld, FewRefs
  <2>6. Mappable(m3, p)
    <3>1. p = m3.pte[x].page
      BY <1>13, <2>4
    <3> QED BY <2>2, <2>3, <2>4, <2>5, <3>1, ZeroHeld, MappedMappable
  <2>7. ~WalkFails(m3, Parent, MoreVa)
    <3>1. PICK fl \in Seq(Pages) : fl = m3.free /\ Len(fl) >= 2
      BY <2>2 DEF Good, OnlyPages
    <3>2. fl # <<>>
      BY <3>1, EmptySeq
    <3> QED BY <3>1, <3>2 DEF WalkFails
  <2>8. /\ Good(m, Zero, Without({}, p))
        /\ m.pte = Put(m3.pte, <<Parent, MoreVa>>, Entry(p, more))
        /\ m.dir = m3.dir /\ m.panic = m3.panic
    <3>1. more \subseteq Bits
      BY <1>16, <1>18
    <3> QED BY <2>1, <2>2, <2>6, <2>7, <3>1, Layout, ZeroHeld, GoodInsert
  <2>9. Loaded(m, 0)
    <3>1. Good(m, Zero, {})
      BY <2>8, NoLoose
    <3>2. Len(m.free) \in Nat
      BY <3>1 DEF Good, OnlyPages
    <3> QED BY <2>2, <2>8, <3>1, <3>2 DEF Loaded
  <2>10. \A e \in Envs, u \in Vas :
            m.pte[<<e, u>>] = IF e = Parent /\ u = MoreVa THEN Entry(p, more) ELSE m3.pte[<<e, u>>]
    <3>1. PICK entry : entry = Entry(p, more)
      OBVIOUS
    <3>2. m3.pte \in [Envs \X Vas -> Ptes] /\ m.pte = Put(m3.pte, <<Parent, MoreVa>>, entry)
      BY <2>2, <2>8, <3>1 DEF Good, Shape, PteSets
    <3>3. \A e \in Envs, u \in Vas :
            m.pte[<<e, u>>] = IF e = Parent /\ u = MoreVa THEN entry ELSE m3.pte[<<e, u>>]
      BY <3>2, Layout DEF Put
    <3> QED BY <3>1, <3>3
  <2> QED BY <1>12, <1>15, <1>18, <2>3, <2>9, <2>10
<1> QED BY <1>14, <1>17, <1>18
LEMMA InitInv ==
    ASSUME Init PROVE ForkInv
<1>1. PICK more \in MorePerms \cup {{}}, alias \in BOOLEAN :
          /\ mem = ParentMem(more, alias)
          /\ data = [p \in Frames |->
                CASE p = Vga -> Content("vga", 0)
                  [] p = FrameAt(mem, Parent, DataVa) -> Content("data", 0)
                  [] p = FrameAt(mem, Parent, StackVa) -> Content("stack", 0)
                  [] p = FrameAt(mem, Parent, MoreVa) -> Content("more", 0)
                  [] OTHER -> Content("zero", 0)]
          /\ how \in IF more = {} THEN {"fork"} ELSE {"fork", "dumbfork"}
  BY DEF Init
<1>2. /\ pc = "exofork" /\ va = 0 /\ arg = [page |-> 0, perm |-> {}] /\ status = "ENV_FREE"
      /\ stolen = {}
      /\ before = [pte |-> [v \in Vas |-> mem.pte[<<Parent, v>>]],
                   tag |-> [v \in Vas |-> IF mem.pte[<<Parent, v>>] = Absent THEN "zero"
                                          ELSE data[FrameAt(mem, Parent, v)].tag]]
  BY DEF Init
<1>3. Loaded(mem, 0) /\ Program(mem, more)
  BY <1>1, ProgramIs
<1>4. Good(mem, Zero, {}) /\ mem.panic = FALSE /\ mem.dir[Child] = NULL
  BY <1>3 DEF Loaded
<1>5. MemGood
  <2>1. Held = Zero
    BY <1>2 DEF Held, Zero
  <2> QED BY <1>4, <2>1 DEF MemGood
<1>6. Types
  <2>1. data \in [Frames -> Contents]
    <3>1. PICK a, b, c : /\ a = FrameAt(mem, Parent, DataVa)
                         /\ b = FrameAt(mem, Parent, StackVa)
                         /\ c = FrameAt(mem, Parent, MoreVa)
      OBVIOUS
    <3>2. PICK A, B, C, D, E :
              /\ A = Content("vga", 0) /\ B = Content("data", 0) /\ C = Content("stack", 0)
              /\ D = Content("more", 0) /\ E = Content("zero", 0)
              /\ A \in Contents /\ B \in Contents /\ C \in Contents
              /\ D \in Contents /\ E \in Contents
      <4>1. \A t \in {"vga", "data", "stack", "more", "zero"} : Content(t, 0) \in Contents
        BY Layout DEF Content, Contents
      <4> QED BY <4>1
    <3>3. data = [p \in Frames |-> CASE p = Vga -> A [] p = a -> B [] p = b -> C
                                     [] p = c -> D [] OTHER -> E]
      BY <1>1, <3>1, <3>2
    <3> QED BY <3>2, <3>3
  <2>2. arg \in [page : Vas, perm : SUBSET Bits] /\ va \in 0..UTOP
    <3>1. 0 \in Vas /\ 0 \in 0..UTOP
      BY Layout
    <3> QED BY <1>2, <3>1
  <2>3. how \in {"fork", "dumbfork"}
    BY <1>1
  <2> QED BY <1>2, <1>4, <2>1, <2>2, <2>3 DEF Types, Pcs
<1>7. /\ before.pte \in [Vas -> Ptes]
      /\ \A v \in Vas : before.pte[v] = mem.pte[<<Parent, v>>]
      /\ \A v \in Vas : before.pte[v] # Absent => data[before.pte[v].page].tag = before.tag[v]
  <2>1. before.pte = [v \in Vas |-> mem.pte[<<Parent, v>>]]
    BY <1>2
  <2>2. before.tag = [v \in Vas |-> IF mem.pte[<<Parent, v>>] = Absent THEN "zero"
                                    ELSE data[FrameAt(mem, Parent, v)].tag]
    BY <1>2
  <2>3. before.pte \in [Vas -> Ptes]
    BY <1>5, <2>1, EntriesType, Layout
  <2>4. \A v \in Vas : before.pte[v] = mem.pte[<<Parent, v>>]
    BY <2>1
  <2>5. \A v \in Vas : before.pte[v] # Absent => data[before.pte[v].page].tag = before.tag[v]
    BY <2>2, <2>4 DEF FrameAt
  <2> QED BY <2>3, <2>4, <2>5
<1>8. Called
  <2>1. how = "dumbfork" => before.pte[MoreVa] # Absent
    BY <1>1, <1>3, <1>7, Layout DEF Program
  <2>2. /\ \A v \in Vas \ Used : before.pte[v] = Absent
        /\ before.pte[VgaUser] = Entry(Vga, Bits)
        /\ before.pte[DataVa].perm = RW /\ before.pte[StackVa].perm = RW
        /\ \A v \in Vas : before.pte[v].page = before.pte[StackVa].page => v = StackVa
    <3>1. /\ \A v \in Vas \ Used : mem.pte[<<Parent, v>>] = Absent
          /\ mem.pte[<<Parent, VgaUser>>] = Entry(Vga, Bits)
          /\ mem.pte[<<Parent, DataVa>>].perm = RW /\ mem.pte[<<Parent, StackVa>>].perm = RW
          /\ \A v \in Vas :
                mem.pte[<<Parent, v>>].page = mem.pte[<<Parent, StackVa>>].page => v = StackVa
      BY <1>3 DEF Program
    <3>2. /\ before.pte[VgaUser] = mem.pte[<<Parent, VgaUser>>]
          /\ before.pte[DataVa] = mem.pte[<<Parent, DataVa>>]
          /\ before.pte[StackVa] = mem.pte[<<Parent, StackVa>>]
      BY <1>7, Layout
    <3>3. \A v \in Vas : before.pte[v].page = before.pte[StackVa].page => v = StackVa
      BY <1>7, <3>1, <3>2
    <3>4. \A v \in Vas \ Used : before.pte[v] = Absent
      BY <1>7, <3>1
    <3> QED BY <3>1, <3>2, <3>3, <3>4
  <2> QED BY <1>7, <2>1, <2>2 DEF Called
<1>9. ParentKept
  BY <1>7 DEF ParentKept
<1>10. Scratch
  BY <1>2, <1>3, Layout DEF Scratch, Lent, Program
<1>11. InLoop /\ ArgOK /\ ChildOK
  BY <1>2 DEF InLoop, ArgOK, InCall, ChildOK, Copying
<1>12. NoChild
  BY <1>3, <1>4 DEF NoChild, Program
<1> QED BY <1>5, <1>6, <1>8, <1>9, <1>10, <1>11, <1>12 DEF ForkInv

-----------------------------------------------------------------------------
(* The theorems.                                                            *)

\* The invariant holds whenever fork_v0 or dumbfork makes a call, whatever
\* other environments take in between.
THEOREM ForkInvariant == Spec => []ForkInv
<1>1. Init => ForkInv
  BY InitInv
<1>2. ForkInv /\ [Next]_vars => ForkInv'
  BY ForkStep
<1> QED BY <1>1, <1>2, PTL DEF Spec

\* What the invariant says of the memory.
LEMMA NothingLost ==
    ASSUME ForkInv PROVE MemoryAccounted
<1>1. /\ mem \in Shape /\ OnlyPages(mem) /\ FreeExact(mem, Held, {}) /\ Types
  BY DEF ForkInv, MemGood, Good
<1>2. TypeOK
  <2>1. mem \in MemType
    BY <1>1 DEF Shape, OnlyPages, MemType, RefCounts, PteSets
  <2> QED BY <1>1, <2>1 DEF TypeOK, Types
<1>3. NoPageLost
  <2> SUFFICES ASSUME NEW p \in Pages, ~Listed(mem.free, p), p \notin stolen
               PROVE  Mappings(mem, p) # {} \/ Tables(mem, p) # {} \/ Directories(mem, p) # {}
    BY DEF NoPageLost, Listed
  <2>1. Count(mem, Held, p) # 0
    BY <1>1 DEF FreeExact
  <2>2. Held[p] = 0
    BY DEF Held, Frames
  <2>3. Refs(mem, p) # 0
    BY <2>1, <2>2, PlacesFinite DEF Count, Refs
  <2> QED BY <2>3, PlacesFinite DEF Refs
<1> QED BY <1>2, <1>3 DEF MemoryAccounted

\* For any memory the program fits in, and with sys_exofork, sys_page_alloc,
\* sys_page_map and pgdir_walk failing wherever memory runs out: the types
\* hold and every page is on the free list, taken, mapped, or a page table or
\* directory.  The pages of a fork that panics half way are all accounted for.
THEOREM ForkLosesNoPage == Spec => []MemoryAccounted
<1>1. ForkInv => MemoryAccounted
  BY NothingLost
<1> QED BY <1>1, ForkInvariant, PTL

\* What the invariant says of the parent.
LEMMA ParentStays ==
    ASSUME ForkInv PROVE ParentIntact
<1>1. \A v \in Vas \ {UTEMP} :
          /\ mem.pte[<<Parent, v>>] = before.pte[v]
          /\ mem.pte[<<Parent, v>>] # Absent => data[mem.pte[<<Parent, v>>].page].tag = before.tag[v]
  BY DEF ForkInv, ParentKept
<1>2. pc \in {"parent", "child"} => mem.pte[<<Parent, UTEMP>>] = Absent
  BY DEF ForkInv, Scratch, Lent
<1> QED BY <1>1, <1>2 DEF ParentIntact, Mapped, FrameAt

\* The parent keeps its memory through dup_or_share and duppage: the scratch
\* page is the only address at which they change anything, and memmove and
\* the child's assignment to `thisenv' write only to frames it does not map.
THEOREM ForkKeepsParent == Spec => []ParentIntact
<1>1. ForkInv => ParentIntact
  BY ParentStays
<1> QED BY <1>1, ForkInvariant, PTL

\* What the invariant says of a child that may run.
LEMMA CopyComplete ==
    ASSUME ForkInv PROVE ChildIsCopy
<1> SUFFICES ASSUME status = "ENV_RUNNABLE", pc # "child", NEW v \in Vas
             PROVE  /\ Mapped(Child, v) <=> before.pte[v] # Absent
                    /\ Mapped(Child, v) =>
                        /\ data[FrameAt(mem, Child, v)] = data[FrameAt(mem, Parent, v)]
                        /\ mem.pte[<<Child, v>>].perm = CopyPerm(v)
                        /\ IF Shared(v) THEN FrameAt(mem, Child, v) = FrameAt(mem, Parent, v)
                                        ELSE Private(Child, v)
  BY DEF ChildIsCopy, CopyPerm, Shared
<1>1. pc = "parent" /\ Copying /\ Ready
  BY DEF ForkInv, Types, Copying, Ready
<1>2. Done(v) <=> before.pte[v] # Absent
  BY <1>1 DEF Done
<1>3. IF before.pte[v] # Absent THEN Copied(v) ELSE mem.pte[<<Child, v>>] = Absent
  BY <1>1, <1>2 DEF ForkInv, ChildOK
<1>4. CASE before.pte[v] = Absent
  BY <1>3, <1>4 DEF Mapped
<1>5. CASE before.pte[v] # Absent
  <2>1. Copied(v) /\ Same(v)
    BY <1>1, <1>3, <1>5 DEF Same
  <2>2. v # UTEMP
    BY <1>5, CalledFacts DEF ForkInv
  <2>3. FrameAt(mem, Parent, v) = before.pte[v].page
    BY <2>2 DEF ForkInv, ParentKept, FrameAt
  <2>4. ~Shared(v) => Private(Child, v)
    <3> SUFFICES ASSUME Alone(v) PROVE Private(Child, v)
      BY <2>1 DEF Copied
    <3>1. ~Lent
      BY <1>1 DEF Lent
    <3>2. PICK p : p = mem.pte[<<Child, v>>].page
      OBVIOUS
    <3>3. \A e \in Envs, u \in Vas : mem.pte[<<e, u>>].page = p => e = Child
      BY <3>1, <3>2 DEF Alone
    <3>4. \A x \in Mappings(mem, p) : x[1] = Child
      BY <3>3 DEF Mappings
    <3> QED BY <3>2, <3>4 DEF Private, FrameAt
  <2> QED BY <1>5, <2>1, <2>3, <2>4 DEF Copied, Mapped, FrameAt
<1> QED BY <1>4, <1>5

\* From sys_env_set_status(ENV_RUNNABLE) on, the child's address space is the
\* parent's: shared pages are the parent's frames, the others are frames that
\* nobody else maps and hold what the parent's hold at that moment, the loop
\* variable on the stack included.
THEOREM ForkMakesCopy == Spec => []ChildIsCopy
<1>1. ForkInv => ChildIsCopy
  BY CopyComplete
<1> QED BY <1>1, ForkInvariant, PTL
=============================================================================
