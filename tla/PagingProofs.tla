----------------------------- MODULE PagingProofs -----------------------------
(***************************************************************************)
(* Theorems about FrameList, for every set of frames and every boot order, *)
(* and about PageTable on top of it, for all frames, table sizes and       *)
(* sequences of operations, also those that end with a broken free list.   *)
(*                                                                         *)
(* FrameList's inductive invariant is FrameTypeOK /\ WellLinked.           *)
(* PageTable's are PagingTypeOK, then one for each question: OwnedInv (who *)
(* owns a frame), OrderInv (the heap's pages follow each other) and        *)
(* OnceInv (no page is handed out twice).                                  *)
(***************************************************************************)
EXTENDS PageTable, CommonLemmas

(* A sequence of distinct frames is no longer than there are frames, so    *)
(* the 32-bit count cannot wrap while the list is well linked.             *)
LEMMA DistinctBound ==
    ASSUME NEW s \in Seq(Frames),
           \A i, j \in 1..Len(s) : s[i] = s[j] => i = j
    PROVE  Len(s) <= Cardinality(Frames)
<1>1. s \in Injection(1..Len(s), Frames)
  BY DEF Injection, IsInjective
<1>2. Cardinality(1..Len(s)) <= Cardinality(Frames)
  BY <1>1, FS_Injection, FramesAssumption
<1>3. Cardinality(1..Len(s)) = Len(s)
  BY IntervalCount
<1>. QED BY <1>2, <1>3

-----------------------------------------------------------------------------
LEMMA ModRange ==
    ASSUME NEW n \in Int
    PROVE  n % CountMod \in 0..(CountMod - 1)
<1>1. CountMod \in Nat /\ CountMod > 0
  BY CountModAssumption, FramesAssumption, FS_CardinalityType
<1>. QED BY <1>1

LEMMA TypeInit == FrameInit => FrameTypeOK
<1> SUFFICES ASSUME FrameInit PROVE FrameTypeOK
  OBVIOUS
<1> USE BootOrderAssumption
<1>1. Len(BootOrder) \in Nat \ {0} /\ \A i \in 1..Len(BootOrder) : BootOrder[i] \in Frames
  BY EmptySeq, ElementOfSeq
<1>2. ASSUME NEW p \in Pages PROVE Linked(p) \in Words
  <2> DEFINE position == {i \in 1..(Len(BootOrder) - 1) : BootOrder[i] = p}
             k == CHOOSE i \in position : TRUE
  <2>1. CASE position = {}
    BY <2>1 DEF Linked, Words, Pages
  <2>2. CASE position # {}
    <3>1. k \in 1..(Len(BootOrder) - 1)
      BY <2>2
    <3>. HIDE DEF k
    <3>2. 1 + k \in 1..Len(BootOrder)
      BY <1>1, <3>1
    <3>. QED BY <1>1, <2>2, <3>2 DEF Linked, k, Words, Pages
  <2>. QED BY <2>1, <2>2
<1>3. Len(BootOrder) \in 0..(CountMod - 1)
  <2>1. Len(BootOrder) <= Cardinality(Frames)
    BY DistinctBound
  <2>2. Cardinality(Frames) \in Nat
    BY FramesAssumption, FS_CardinalityType
  <2>. QED BY <1>1, <2>1, <2>2, CountModAssumption
<1>4. BootOrder \in Seq(Words)
  BY SeqMonotonic DEF Words, Pages
<1>. QED
  BY <1>1, <1>2, <1>3, <1>4 DEF FrameInit, FrameTypeOK, Words, Pages

LEMMA LinkedInit == FrameInit => WellLinked
<1> SUFFICES ASSUME FrameInit PROVE WellLinked
  OBVIOUS
<1> USE BootOrderAssumption
<1>1. Len(BootOrder) \in Nat \ {0} /\ \A i \in 1..Len(BootOrder) : BootOrder[i] \in Frames
  BY EmptySeq, ElementOfSeq
<1>2. ASSUME NEW i \in 1..(Len(BootOrder) - 1)
      PROVE  Linked(BootOrder[i]) = BootOrder[i + 1]
  <2>0. ASSUME NEW j \in 1..(Len(BootOrder) - 1), BootOrder[j] = BootOrder[i]
        PROVE  j = i
    <3>1. i \in 1..Len(BootOrder) /\ j \in 1..Len(BootOrder)
      BY <1>1
    <3>. QED BY <2>0, <3>1
  <2> DEFINE position == {j \in 1..(Len(BootOrder) - 1) : BootOrder[j] = BootOrder[i]}
  <2>1. i \in position
    OBVIOUS
  <2>2. \A j \in position : j = i
    BY <2>0
  <2>3. Linked(BootOrder[i]) = BootOrder[1 + CHOOSE j \in position : TRUE]
    BY <2>1 DEF Linked
  <2>. HIDE DEF position
  <2>4. (CHOOSE j \in position : TRUE) = i
    BY <2>1, <2>2
  <2>5. 1 + i = i + 1
    BY <1>1
  <2>. QED BY <2>3, <2>4, <2>5
<1>3. Threaded
  BY <1>1, <1>2 DEF FrameInit, Threaded, Pages
<1>4. Partition
  BY <1>1 DEF FrameInit, Partition, OnList
<1>. QED BY <1>3, <1>4 DEF FrameInit, WellLinked, NoRepeats

FrameInv == FrameTypeOK /\ WellLinked

(* Taking the head off the list.                                           *)
LEMMA AllocKeeps == FrameInv /\ MEM_pf_alloc => FrameInv'
<1> SUFFICES ASSUME FrameInv, MEM_pf_alloc PROVE FrameInv'
  OBVIOUS
<1> USE DEF FrameInv
<1>1. FrameTypeOK'
  <2>1. page_head' \in Words
    BY DEF MEM_pf_alloc, Loaded, FrameTypeOK
  <2>2. count' \in 0..(CountMod - 1)
    BY ModRange DEF MEM_pf_alloc, FrameTypeOK
  <2>3. free' \in Seq(Words)
    BY DEF MEM_pf_alloc, FrameTypeOK, WellLinked, Threaded
  <2>. QED BY <2>1, <2>2, <2>3 DEF MEM_pf_alloc, FrameTypeOK
<1>2. ASSUME intact' PROVE Threaded' /\ NoRepeats' /\ Partition' /\ count' = Len(free')
  <2>1. Threaded /\ NoRepeats /\ Partition /\ count = Len(free) /\ intact /\ Len(free) > 1
    BY <1>2 DEF MEM_pf_alloc, WellLinked
  <2>2. /\ free' = Tail(free)
        /\ free \in Seq(Words)
        /\ Len(free') = Len(free) - 1
        /\ \A i \in 1..Len(free') : free'[i] = free[i + 1]
        /\ \A i \in 1..Len(free) : free[i] \in Frames
    BY <2>1 DEF MEM_pf_alloc, FrameTypeOK, Partition
  <2>3. page_head = free[1] /\ page_head \in Frames /\ page_head' = word[page_head]
    BY <2>1, <2>2 DEF MEM_pf_alloc, Loaded, Threaded, Pages
  <2>4. Threaded'
    BY <2>1, <2>2, <2>3 DEF MEM_pf_alloc, Threaded
  <2>5. NoRepeats'
    BY <2>1, <2>2 DEF NoRepeats
  <2>6. Partition'
    <3>1. held' = held \cup {page_head}
      BY <2>3 DEF MEM_pf_alloc
    <3>2. ASSUME NEW f \in Frames PROVE OnList(f)' <=> OnList(f) /\ f # page_head
      <4>1. ASSUME OnList(f), f # page_head PROVE OnList(f)'
        <5>1. PICK i \in 1..Len(free) : free[i] = f
          BY <4>1 DEF OnList
        <5>2. i # 1 /\ i - 1 \in 1..Len(free') /\ free'[i - 1] = f
          BY <2>2, <2>3, <4>1, <5>1
        <5>. QED BY <5>2 DEF OnList
      <4>2. ASSUME OnList(f)' PROVE OnList(f) /\ f # page_head
        <5>1. PICK i \in 1..Len(free') : free'[i] = f
          BY <4>2 DEF OnList
        <5>2. i + 1 \in 1..Len(free) /\ free[i + 1] = f /\ 1 \in 1..Len(free)
          BY <2>1, <2>2, <5>1
        <5>. QED BY <2>1, <2>3, <5>1, <5>2 DEF OnList, NoRepeats
      <4>. QED BY <4>1, <4>2
    <3>3. \A i \in 1..Len(free') : free'[i] \in Frames
      BY <2>2
    <3>. QED BY <2>1, <3>1, <3>2, <3>3 DEF Partition
  <2>7. count' = Len(free')
    <3>1. count \in 0..(CountMod - 1) /\ CountMod \in Nat
      BY CountModAssumption DEF FrameTypeOK
    <3>2. (count - 1) % CountMod = count - 1
      BY <2>1, <3>1
    <3>. QED BY <2>1, <2>2, <3>2 DEF MEM_pf_alloc
  <2>. QED BY <2>4, <2>5, <2>6, <2>7
<1>. QED BY <1>1, <1>2 DEF WellLinked

(* Appending behind the tail.                                              *)
LEMMA FreeKeeps ==
    ASSUME FrameInv, NEW pf \in held \cup {nullptr}, MEM_pf_free(pf)
    PROVE  FrameInv'
<1> USE DEF FrameInv
<1>1. FrameTypeOK'
  <2>1. pf \in Words
    BY DEF FrameTypeOK, Pages, Words
  <2>2. count' \in 0..(CountMod - 1)
    BY ModRange DEF MEM_pf_free, FrameTypeOK
  <2>3. free' \in Seq(Words)
    BY <2>1 DEF MEM_pf_free, FrameTypeOK
  <2>. QED BY <2>1, <2>2, <2>3 DEF MEM_pf_free, FrameTypeOK, Words
<1>2. ASSUME intact' PROVE Threaded' /\ NoRepeats' /\ Partition' /\ count' = Len(free')
  <2>1. /\ Threaded /\ NoRepeats /\ Partition /\ count = Len(free) /\ intact
        /\ pf \in held /\ pf \in Frames
    BY <1>2 DEF MEM_pf_free, WellLinked, FrameTypeOK
  <2>2. /\ free' = Append(free, pf)
        /\ Len(free) \in Nat
        /\ Len(free') = Len(free) + 1
        /\ \A i \in 1..Len(free) : free'[i] = free[i]
        /\ free'[Len(free')] = pf
        /\ \A i \in 1..Len(free) : free[i] \in Frames /\ free[i] # pf
        /\ free \in Seq(Frames)
        /\ free' \in Seq(Frames)
    BY <2>1 DEF MEM_pf_free, FrameTypeOK, Partition, OnList
  <2>3. /\ page_head' = page_head
        /\ page_tail' = pf
        /\ page_tail = free[Len(free)]
        /\ word' = [word EXCEPT ![page_tail] = pf]
        /\ page_tail \in DOMAIN word
    BY <2>1, <2>2 DEF MEM_pf_free, Threaded, FrameTypeOK, Pages
  <2>4. Threaded'
    <3>1. ASSUME NEW i \in 1..(Len(free') - 1) PROVE word'[free'[i]] = free'[i + 1]
      <4>1. CASE i = Len(free)
        BY <2>1, <2>2, <2>3, <4>1 DEF Threaded
      <4>2. CASE i # Len(free)
        <5>1. i \in 1..(Len(free) - 1) /\ i + 1 \in 1..Len(free) /\ Len(free) \in 1..Len(free)
          BY <2>2, <4>2
        <5>2. free[i] # page_tail
          BY <2>1, <2>3, <4>2, <5>1 DEF NoRepeats
        <5>. QED BY <2>1, <2>2, <2>3, <5>1, <5>2 DEF Threaded
      <4>. QED BY <4>1, <4>2
    <3>. QED BY <2>1, <2>2, <2>3, <3>1 DEF Threaded
  <2>5. NoRepeats'
    BY <2>1, <2>2 DEF NoRepeats
  <2>6. Partition'
    <3>1. held' = held \ {pf}
      BY DEF MEM_pf_free
    <3>2. ASSUME NEW f \in Frames PROVE OnList(f)' <=> OnList(f) \/ f = pf
      <4>1. ASSUME OnList(f) PROVE OnList(f)'
        <5>1. PICK i \in 1..Len(free) : free[i] = f
          BY <4>1 DEF OnList
        <5>2. i \in 1..Len(free') /\ free'[i] = f
          BY <2>2, <5>1
        <5>. QED BY <5>2 DEF OnList
      <4>2. ASSUME f = pf PROVE OnList(f)'
        BY <2>2, <4>2 DEF OnList
      <4>3. ASSUME OnList(f)', f # pf PROVE OnList(f)
        <5>1. PICK i \in 1..Len(free') : free'[i] = f
          BY <4>3 DEF OnList
        <5>2. i \in 1..Len(free) /\ free[i] = f
          BY <2>2, <4>3, <5>1
        <5>. QED BY <5>2 DEF OnList
      <4>. QED BY <4>1, <4>2, <4>3
    <3>3. \A i \in 1..Len(free') : free'[i] \in Frames
      BY <2>1, <2>2
    <3>. QED BY <2>1, <3>1, <3>2, <3>3 DEF Partition
  <2>7. count' = Len(free')
    <3>1. Len(free') <= Cardinality(Frames)
      BY <2>2, <2>5, DistinctBound DEF NoRepeats
    <3>2. Cardinality(Frames) \in Nat
      BY FramesAssumption, FS_CardinalityType
    <3>3. (count + 1) % CountMod = count + 1
      BY <2>1, <2>2, <3>1, <3>2, CountModAssumption
    <3>. QED BY <2>1, <2>2, <3>3 DEF MEM_pf_free
  <2>. QED BY <2>4, <2>5, <2>6, <2>7
<1>. QED BY <1>1, <1>2 DEF WellLinked

(* A client writing in a frame it holds cannot touch a link.               *)
LEMMA WriteKeeps ==
    ASSUME FrameInv, NEW f \in held, NEW w \in Words, ClientWrite(f, w)
    PROVE  FrameInv'
<1> USE DEF FrameInv
<1>1. FrameTypeOK'
  BY DEF ClientWrite, FrameTypeOK
<1>2. ASSUME intact' PROVE Threaded' /\ NoRepeats' /\ Partition' /\ count' = Len(free')
  <2>1. Threaded /\ NoRepeats /\ Partition /\ count = Len(free) /\ f \in Frames
    BY <1>2 DEF ClientWrite, WellLinked, FrameTypeOK
  <2>2. Len(free) \in Nat /\ \A i \in 1..Len(free) : free[i] # f
    BY <2>1 DEF Partition, OnList, FrameTypeOK
  <2>3. Threaded'
    BY <2>1, <2>2 DEF ClientWrite, Threaded, FrameTypeOK
  <2>. QED BY <2>1, <2>3 DEF ClientWrite, NoRepeats, Partition, OnList
<1>. QED BY <1>1, <1>2 DEF WellLinked

LEMMA StepKeeps == FrameInv /\ [FrameNext]_frameVars => FrameInv'
<1> SUFFICES ASSUME FrameInv, [FrameNext]_frameVars PROVE FrameInv'
  OBVIOUS
<1>1. CASE UNCHANGED frameVars
  BY <1>1 DEF FrameInv, FrameTypeOK, WellLinked, Threaded, NoRepeats, Partition, OnList, frameVars
<1>. QED
  BY <1>1, AllocKeeps, FreeKeeps, WriteKeeps DEF FrameNext

(* The strengthening that makes the following theorems inductive.          *)
LEMMA InvariantHolds == FrameSpec => []FrameInv
  BY TypeInit, LinkedInit, StepKeeps, PTL DEF FrameInv, FrameSpec

(* Every reachable state is well typed: no pointer, count or word leaves   *)
(* its range, whatever the clients write and free.                         *)
THEOREM FramesTyped == FrameSpec => []FrameTypeOK
  BY InvariantHolds, PTL DEF FrameInv

(* The central property of memory_manager.c: as long as no allocation has  *)
(* emptied the list, the links thread exactly the frames nobody holds,     *)
(* each once, from page_head to page_tail, and count is their number.      *)
THEOREM ListWellLinked == FrameSpec => []WellLinked
  BY InvariantHolds, PTL DEF FrameInv

(* free_pages.count, which PT_can_allocate tests before it takes a frame,  *)
(* is the number of frames nobody holds, and the frame at the head is one  *)
(* of them.                                                                *)
LEMMA CountFromLinks == FrameInv => CountExact
<1> SUFFICES ASSUME FrameInv, intact
             PROVE  count = Cardinality(Frames \ held) /\ page_head \in Frames \ held
  BY DEF CountExact
<1>1. Threaded /\ NoRepeats /\ Partition /\ count = Len(free) /\ free \in Seq(Words)
  BY DEF FrameInv, WellLinked, FrameTypeOK
<1>2. \A i \in 1..Len(free) : free[i] \in Frames \ held
  BY <1>1 DEF Partition, OnList
<1>3. free \in Seq(Frames \ held)
  BY <1>1, <1>2
<1>4. \A f \in Frames \ held : \E i \in 1..Len(free) : free[i] = f
  BY <1>1 DEF Partition, OnList
<1>5. Cardinality(Frames \ held) = Len(free)
  BY <1>1, <1>3, <1>4, DistinctCount DEF NoRepeats
<1>. QED BY <1>1, <1>2, <1>5 DEF Threaded

THEOREM CountIsExact == FrameSpec => []CountExact
  BY InvariantHolds, CountFromLinks, PTL

(* The stores MEM_pf_alloc and MEM_pf_free make never land in a frame that *)
(* a client goes on holding.                                               *)
THEOREM ClientDataIsKept == FrameSpec => ClientDataKept
<1>1. ASSUME FrameInv, [FrameNext]_frameVars
      PROVE  [intact /\ held' # held =>
                 \A f \in held \cap held' : word'[f] = word[f]]_frameVars
  <2>. SUFFICES ASSUME FrameNext, intact, held' # held, NEW f \in held \cap held'
                PROVE  word'[f] = word[f]
    BY <1>1
  <2>1. CASE MEM_pf_alloc
    BY <2>1 DEF MEM_pf_alloc
  <2>2. ASSUME NEW pf \in held \cup {nullptr}, MEM_pf_free(pf)
        PROVE  word'[f] = word[f]
    <3>1. page_tail # f
      BY <1>1, CountFromLinks DEF FrameInv, WellLinked, Threaded, Partition, OnList, FrameTypeOK
    <3>. QED BY <1>1, <2>2, <3>1 DEF MEM_pf_free, FrameInv, FrameTypeOK, Pages
  <2>3. ASSUME NEW g \in held, NEW w \in Words, ClientWrite(g, w)
        PROVE  word'[f] = word[f]
    BY <2>3 DEF ClientWrite
  <2>. QED BY <2>1, <2>2, <2>3 DEF FrameNext
<1>. QED BY <1>1, InvariantHolds, PTL DEF FrameSpec, ClientDataKept

(* Until a client takes the last frame or frees page 0, the list           *)
(* implements the first-in first-out pool.                                 *)
THEOREM ListImplementsPool == FrameSpec => ImplementsPool
<1>1. FrameInit => Pool!PoolInit
  BY DEF FrameInit, Pool!PoolInit
<1>2. ASSUME FrameInv, [FrameNext]_frameVars
      PROVE  [intact' => [Pool!PoolNext]_(Pool!poolVars)]_frameVars
  <2>0. SUFFICES ASSUME intact' PROVE [Pool!PoolNext]_(Pool!poolVars)
    OBVIOUS
  <2>1. CASE UNCHANGED frameVars
    BY <2>1 DEF frameVars, Pool!poolVars
  <2>2. CASE MEM_pf_alloc
    <3>1. Threaded /\ Partition /\ intact /\ free \in Seq(Words) /\ Len(free) > 0
      BY <1>2, <2>0, <2>2 DEF MEM_pf_alloc, FrameInv, WellLinked, FrameTypeOK, Threaded
    <3>2. free # <<>> /\ Head(free) = page_head /\ page_head \in Frames \ held
      BY <3>1 DEF Threaded, Partition, OnList
    <3>3. held' = held \cup {Head(free)} /\ free' = Tail(free)
      BY <2>2, <3>1, <3>2 DEF MEM_pf_alloc
    <3>. QED BY <3>2, <3>3 DEF Pool!PoolNext, Pool!Allocate
  <2>3. ASSUME NEW pf \in held \cup {nullptr}, MEM_pf_free(pf)
        PROVE  Pool!PoolNext
    <3>1. pf \in held /\ pf \in Frames /\ intact
      BY <1>2, <2>0, <2>3 DEF MEM_pf_free, FrameInv, FrameTypeOK
    <3>. QED BY <2>3, <3>1 DEF MEM_pf_free, Pool!PoolNext, Pool!Release
  <2>4. ASSUME NEW f \in held, NEW w \in Words, ClientWrite(f, w)
        PROVE  UNCHANGED Pool!poolVars
    BY <2>4 DEF ClientWrite, Pool!poolVars
  <2>. QED BY <1>2, <2>1, <2>2, <2>3, <2>4 DEF FrameNext
<1>. QED BY <1>1, <1>2, InvariantHolds, PTL DEF FrameSpec, ImplementsPool

-----------------------------------------------------------------------------
(* PageTable.                                                              *)
EntriesKept == pte = [v \in VPages |-> pte[v]]

Usable == EntriesKept /\ InUseUsable

LEMMA UsableInit == PagingInit => Usable
  BY DEF PagingInit, Usable, EntriesKept, InUseUsable, Cleared

(* Granting any set of pages keeps entries and use in step.                *)
LEMMA UsableGrant ==
    ASSUME Usable, NEW pages, Grant(pages)
    PROVE  Usable'
  BY DEF Grant, Usable, EntriesKept, InUseUsable, Allocatable, Cleared

LEMMA UsableSame ==
    ASSUME Usable, UNCHANGED <<pte, inUse>>
    PROVE  Usable'
  BY DEF Usable, EntriesKept, InUseUsable

LEMMA UsableStep == Usable /\ [PagingNext]_vars => Usable'
<1> SUFFICES ASSUME Usable, [PagingNext]_vars PROVE Usable'
  OBVIOUS
<1>1. CASE PT_init
  BY <1>1, UsableSame DEF PT_init, histories
<1>2. ASSUME NEW n, AllocHeap(n) PROVE Usable'
  BY <1>2, UsableGrant DEF AllocHeap
<1>3. CASE MMU_alloc_stack_page
  <2>1. CASE UNCHANGED <<pte, histories>>
    BY <2>1, UsableSame DEF histories
  <2>2. CASE Grant({PageOf(Lowered(stackIndex))})
    BY <2>2, UsableGrant
  <2> QED
    BY <1>3, <2>1, <2>2 DEF MMU_alloc_stack_page
<1>4. ASSUME NEW v \in inUse, MMU_free_page(v) PROVE Usable'
  BY <1>4 DEF MMU_free_page, Usable, EntriesKept, InUseUsable, Cleared
<1>5. ASSUME NEW v, BeginStore(v) PROVE Usable'
  BY <1>5, UsableSame DEF BeginStore, histories
<1>6. CASE Kmain
  BY <1>2, <1>3, <1>4, <1>5, <1>6 DEF Kmain, MMU_alloc_page, MMU_alloc_pages
<1>7. CASE PT_can_allocate
  <2>1. CASE UNCHANGED pte
    BY <1>7, <2>1, UsableSame DEF PT_can_allocate, histories
  <2>2. CASE pte' = [pte EXCEPT ![storing] = Mapped(page_head)]
    <3>1. ~pte[storing].present /\ pte[storing].allocatable /\ UNCHANGED inUse
      BY <1>7 DEF PT_can_allocate, histories
    <3> QED
      BY <2>2, <3>1 DEF Usable, EntriesKept, InUseUsable, Mapped
  <2> QED
    BY <1>7, <2>1, <2>2 DEF PT_can_allocate, frameVars
<1>8. ASSUME NEW w \in ClientWords, Store(w) PROVE Usable'
  BY <1>8, UsableSame DEF Store, histories
<1>9. CASE Evict
  BY <1>9, UsableSame DEF Evict, histories
<1>10. CASE UNCHANGED vars
  BY <1>10, UsableSame DEF vars, pagingVars, histories
<1> QED
  BY <1>1, <1>6, <1>7, <1>8, <1>9, <1>10 DEF PagingNext

(* A page that is handed out has an entry through which a store succeeds   *)
(* at once or after one page fault; any other page has none.               *)
THEOREM PagesUsable == PagingSpec => []InUseUsable
<1>1. Usable => InUseUsable
  BY DEF Usable
<1> QED
  BY <1>1, UsableInit, UsableStep, PTL DEF PagingSpec
-----------------------------------------------------------------------------
(* The indices of the virtual page allocators.                             *)
Index == [pml1 : Nat, pml2 : Nat, pml3 : Int]

LEMMA RaisedType ==
    ASSUME NEW i \in Index
    PROVE  Raised(i) \in Index
BY PagingAssumption DEF Raised, Index

(* The indices the loop of MMU_alloc_pages goes through.                   *)
LEMMA RaisedByRecursion ==
    ASSUME heapIndex \in Index
    PROVE  /\ RaisedBy \in [Nat -> Index]
           /\ RaisedBy[0] = heapIndex
           /\ \A n \in Nat : RaisedBy[n + 1] = Raised(RaisedBy[n])
<1> DEFINE next == [i \in Index |-> Raised(i)]
<1>1. next \in [Index -> Index]
  BY RaisedType
<1>2. \A i \in Index : next[i] = Raised(i)
  OBVIOUS
<1> HIDE DEF next
<1>3. PICK f \in [Nat -> Index] : f[0] = heapIndex /\ \A n \in Nat : f[n + 1] = next[f[n]]
  BY <1>1, RecursionExists
<1>4. f = [n \in Nat |-> IF n = 0 THEN heapIndex ELSE Raised(f[n - 1])]
  <2>1. ASSUME NEW n \in Nat PROVE f[n] = IF n = 0 THEN heapIndex ELSE Raised(f[n - 1])
    <3>1. CASE n = 0
      BY <1>3, <3>1
    <3>2. CASE n # 0
      <4>1. n - 1 \in Nat /\ (n - 1) + 1 = n
        BY <3>2
      <4>2. f[(n - 1) + 1] = next[f[n - 1]] /\ f[n - 1] \in Index
        BY <1>3, <4>1
      <4> QED BY <1>2, <3>2, <4>1, <4>2
    <3> QED BY <3>1, <3>2
  <2> QED BY <1>3, <2>1
<1>5. RaisedBy = [n \in Nat |-> IF n = 0 THEN heapIndex ELSE Raised(RaisedBy[n - 1])]
  BY <1>4 DEF RaisedBy
<1>6. RaisedBy[0] = heapIndex
  BY <1>5
<1>7. ASSUME NEW n \in Nat PROVE RaisedBy[n + 1] = Raised(RaisedBy[n])
  <2>1. n + 1 \in Nat /\ n + 1 # 0 /\ (n + 1) - 1 = n
    OBVIOUS
  <2> QED BY <1>5, <2>1
<1> DEFINE typed == {n \in Nat : RaisedBy[n] \in Index}
<1>8. typed \in SUBSET Nat /\ 0 \in typed
  BY <1>6
<1>9. \A n \in typed : n + 1 \in typed
  BY <1>7, RaisedType
<1> HIDE DEF typed
<1>10. typed = Nat
  BY <1>8, <1>9, NaturalInduction
<1> QED
  BY <1>5, <1>6, <1>7, <1>10 DEF typed

LEMMA LoweredType ==
    ASSUME NEW i \in Index
    PROVE  Lowered(i) \in Index
BY PagingAssumption DEF Lowered, Index

(* An index of two tables names a page of the window.                      *)
LEMMA CellInRange ==
    ASSUME NEW a \in 0..(Pml2Size - 1), NEW b \in 0..(Pml1Size - 1)
    PROVE  a * Pml1Size + b \in 0..(Pml2Size * Pml1Size - 1)
<1>1. Pml1Size \in Nat /\ Pml2Size \in Nat /\ a \in Nat /\ b \in Nat
  BY PagingAssumption
<1>2. a * Pml1Size <= (Pml2Size - 1) * Pml1Size
  BY <1>1
<1>3. (Pml2Size - 1) * Pml1Size = Pml2Size * Pml1Size - Pml1Size
  BY <1>1
<1>4. a * Pml1Size \in Nat
  BY <1>1
<1>5. Pml2Size * Pml1Size \in Nat
  BY <1>1
<1> QED BY <1>1, <1>2, <1>3, <1>4, <1>5

LEMMA PageInRange ==
    ASSUME NEW i \in Index
    PROVE  PageOf(i) \in VPages
<1>1. i.pml2 % Pml2Size \in 0..(Pml2Size - 1) /\ i.pml1 % Pml1Size \in 0..(Pml1Size - 1)
  BY PagingAssumption DEF Index
<1> QED BY <1>1, CellInRange DEF PageOf, VPages
-----------------------------------------------------------------------------
(* What holds of the frame list whatever its clients do to it.             *)
FramesTypeOK == FrameTypeOK /\ (intact => Len(free) > 0)

LEMMA AllocTyped == FramesTypeOK /\ MEM_pf_alloc => FramesTypeOK'
<1> SUFFICES ASSUME FramesTypeOK, MEM_pf_alloc PROVE FramesTypeOK'
  OBVIOUS
<1> USE DEF FramesTypeOK
<1>1. page_head' \in Words
  BY DEF MEM_pf_alloc, Loaded, FrameTypeOK
<1>2. count' \in 0..(CountMod - 1)
  BY ModRange DEF MEM_pf_alloc, FrameTypeOK
<1>3. free' \in Seq(Words) /\ (intact' => Len(free') > 0)
  <2>1. CASE intact
    <3>1. free' = Tail(free) /\ free \in Seq(Words) /\ Len(free) > 0
      BY <2>1 DEF MEM_pf_alloc, FrameTypeOK
    <3>2. Tail(free) \in Seq(Words) /\ Len(Tail(free)) = Len(free) - 1
      BY <3>1
    <3>3. intact' => Len(free) > 1
      <4>1. intact' = (intact /\ Len(free) > 1)
        BY DEF MEM_pf_alloc
      <4> QED BY <4>1
    <3>4. Len(free) \in Nat
      BY <3>1
    <3> QED
      BY <3>1, <3>2, <3>3, <3>4
  <2>2. CASE ~intact
    BY <2>2 DEF MEM_pf_alloc, FrameTypeOK
  <2> QED BY <2>1, <2>2
<1> QED
  BY <1>1, <1>2, <1>3 DEF MEM_pf_alloc, FrameTypeOK

LEMMA FreeTyped ==
    ASSUME FramesTypeOK, NEW pf \in Words, MEM_pf_free(pf)
    PROVE  FramesTypeOK'
<1> USE DEF FramesTypeOK
<1>1. count' \in 0..(CountMod - 1)
  BY ModRange DEF MEM_pf_free, FrameTypeOK
<1>2. free' \in Seq(Words) /\ (intact' => Len(free') > 0)
  BY DEF MEM_pf_free, FrameTypeOK
<1> QED
  BY <1>1, <1>2 DEF MEM_pf_free, FrameTypeOK

LEMMA FramesUnchanged ==
    ASSUME FramesTypeOK, UNCHANGED frameVars
    PROVE  FramesTypeOK'
BY DEF FramesTypeOK, FrameTypeOK, frameVars

(* The type invariant.                                                     *)
Entry == [present : BOOLEAN, allocatable : BOOLEAN, frame : Words]

EntriesTypeOK == pte \in [VPages -> Entry]

PagesTypeOK ==
    /\ heapPages \subseteq VPages
    /\ stackPages \subseteq VPages
    /\ inUse \subseteq Granted
    /\ exclusive \in BOOLEAN

PagingTypeOK ==
    /\ FramesTypeOK
    /\ EntriesTypeOK
    /\ tables \in Seq(Words)
    /\ heapIndex \in Index /\ stackIndex \in Index
    /\ halted \in BOOLEAN
    /\ tlb \subseteq VPages \X Words
    /\ storing \in VPages \cup {None}
    /\ PagesTypeOK

LEMMA PagingTypeInit == PagingInit => PagingTypeOK
<1> SUFFICES ASSUME PagingInit PROVE PagingTypeOK
  OBVIOUS
<1>1. FramesTypeOK
  <2>1. Len(BootOrder) > 0
    BY BootOrderAssumption, EmptySeq
  <2> QED BY <2>1, TypeInit DEF PagingInit, FramesTypeOK, FrameInit
<1>2. EntriesTypeOK
  BY DEF PagingInit, EntriesTypeOK, Entry, Cleared, Words, Pages
<1>3. heapIndex \in Index /\ stackIndex \in Index
  BY PagingAssumption DEF PagingInit, Index
<1>4. PagesTypeOK
  BY DEF PagingInit, PagesTypeOK, Granted
<1>5. tables \in Seq(Words)
  BY DEF PagingInit
<1> QED
  BY <1>1, <1>2, <1>3, <1>4, <1>5 DEF PagingInit, PagingTypeOK

LEMMA GrantTyped ==
    ASSUME PagingTypeOK, NEW pages, pages \subseteq VPages, Grant(pages),
           \/ heapPages' = heapPages \cup pages /\ UNCHANGED stackPages
           \/ stackPages' = stackPages \cup pages /\ UNCHANGED heapPages
    PROVE  EntriesTypeOK' /\ PagesTypeOK'
<1>1. EntriesTypeOK'
  BY DEF PagingTypeOK, EntriesTypeOK, Grant, Entry, Allocatable, Cleared, Words, Pages
<1>2. PagesTypeOK'
  BY DEF PagingTypeOK, PagesTypeOK, Grant, Granted
<1> QED BY <1>1, <1>2

(* The pages the loop of MMU_alloc_pages hands out.                        *)
PagesOfLoop(n) == {PageOf(RaisedBy[i]) : i \in {j \in 1..n : RaisedBy[j].pml3 <= 1}}

LEMMA LoopInRange ==
    ASSUME heapIndex \in Index, NEW n \in Nat
    PROVE  PagesOfLoop(n) \subseteq VPages
<1>1. \A i \in 1..n : PageOf(RaisedBy[i]) \in VPages
  BY RaisedByRecursion, PageInRange
<1> QED BY <1>1 DEF PagesOfLoop

LEMMA AllocHeapTyped ==
    ASSUME PagingTypeOK, NEW n \in Nat, AllocHeap(n)
    PROVE  PagingTypeOK'
<1>1. /\ heapIndex' = RaisedBy[n]
      /\ Grant(PagesOfLoop(n))
      /\ heapPages' = heapPages \cup PagesOfLoop(n)
      /\ halted' = (RaisedBy[n].pml3 > 1)
      /\ UNCHANGED <<frameVars, tables, stackIndex, tlb, storing, stackPages>>
  BY DEF AllocHeap, PagesOfLoop
<1>2. heapIndex' \in Index
  BY <1>1, RaisedByRecursion DEF PagingTypeOK
<1>3. EntriesTypeOK' /\ PagesTypeOK'
  BY <1>1, GrantTyped, LoopInRange DEF PagingTypeOK
<1>4. halted' \in BOOLEAN
  BY <1>1
<1>5. FramesTypeOK'
  BY <1>1, FramesUnchanged DEF PagingTypeOK
<1> QED
  BY <1>1, <1>2, <1>3, <1>4, <1>5 DEF PagingTypeOK

LEMMA AllocStackTyped ==
    ASSUME PagingTypeOK, MMU_alloc_stack_page
    PROVE  PagingTypeOK'
<1> DEFINE page == PageOf(Lowered(stackIndex))
<1>1. stackIndex' \in Index
  BY LoweredType DEF MMU_alloc_stack_page, PagingTypeOK
<1>2. EntriesTypeOK' /\ PagesTypeOK' /\ halted' \in BOOLEAN
  <2>1. CASE UNCHANGED <<pte, histories>> /\ Halt
    BY <2>1 DEF histories, Halt, PagingTypeOK, EntriesTypeOK, PagesTypeOK, Granted
  <2>2. CASE /\ Grant({page}) /\ stackPages' = stackPages \cup {page}
             /\ UNCHANGED <<halted, heapPages>>
    <3>1. {page} \subseteq VPages
      BY PageInRange, LoweredType DEF PagingTypeOK
    <3> QED BY <2>2, <3>1, GrantTyped DEF PagingTypeOK
  <2> QED BY <2>1, <2>2 DEF MMU_alloc_stack_page
<1>3. UNCHANGED <<frameVars, tables, heapIndex, tlb, storing>>
  BY DEF MMU_alloc_stack_page
<1>4. FramesTypeOK'
  BY <1>3, FramesUnchanged DEF PagingTypeOK
<1> QED
  BY <1>1, <1>2, <1>3, <1>4 DEF PagingTypeOK

LEMMA FreePageTyped ==
    ASSUME PagingTypeOK, NEW v \in inUse, MMU_free_page(v)
    PROVE  PagingTypeOK'
<1>1. v \in VPages /\ pte[v].frame \in Words
  BY DEF PagingTypeOK, PagesTypeOK, Granted, EntriesTypeOK, Entry
<1>2. FramesTypeOK'
  BY <1>1, FreeTyped DEF MMU_free_page, PagingTypeOK
<1>3. EntriesTypeOK'
  BY <1>1 DEF MMU_free_page, PagingTypeOK, EntriesTypeOK, Entry, Cleared, Words, Pages
<1>4. PagesTypeOK'
  BY DEF MMU_free_page, PagingTypeOK, PagesTypeOK, Granted
<1>5. halted' \in BOOLEAN
  BY DEF MMU_free_page, AfterStore, Halt, PagingTypeOK
<1> QED
  BY <1>2, <1>3, <1>4, <1>5 DEF MMU_free_page, PagingTypeOK

LEMMA PagesSame ==
    ASSUME PagingTypeOK, UNCHANGED histories
    PROVE  PagesTypeOK'
BY DEF PagingTypeOK, PagesTypeOK, Granted, histories

LEMMA TakeTableTyped ==
    ASSUME PagingTypeOK, PT_init
    PROVE  PagingTypeOK'
<1>1. PagesTypeOK'
  BY PagesSame DEF PT_init
<1>2. FramesTypeOK' /\ tables' \in Seq(Words) /\ halted' \in BOOLEAN
  <2>1. CASE MEM_pf_alloc /\ tables' = Append(tables, page_head) /\ UNCHANGED halted
    BY <2>1, AllocTyped DEF PagingTypeOK, FramesTypeOK, FrameTypeOK
  <2>2. CASE Halt /\ UNCHANGED <<frameVars, tables>>
    BY <2>2, FramesUnchanged DEF PagingTypeOK, Halt
  <2> QED BY <2>1, <2>2 DEF PT_init
<1> QED
  BY <1>1, <1>2 DEF PT_init, PagingTypeOK, EntriesTypeOK

LEMMA FaultTyped ==
    ASSUME PagingTypeOK, PT_can_allocate
    PROVE  PagingTypeOK'
<1>1. PagesTypeOK'
  BY PagesSame DEF PT_can_allocate
<1>2. FramesTypeOK' /\ EntriesTypeOK' /\ halted' \in BOOLEAN
  <2>1. CASE /\ MEM_pf_alloc /\ pte' = [pte EXCEPT ![storing] = Mapped(page_head)]
             /\ UNCHANGED halted
    <3>1. FramesTypeOK'
      BY <2>1, AllocTyped DEF PagingTypeOK
    <3>2. Mapped(page_head) \in Entry
      BY DEF PagingTypeOK, FramesTypeOK, FrameTypeOK, Mapped, Entry
    <3> QED
      BY <2>1, <3>1, <3>2 DEF PagingTypeOK, EntriesTypeOK
  <2>2. CASE Halt /\ UNCHANGED <<frameVars, pte>>
    BY <2>2, FramesUnchanged DEF PagingTypeOK, EntriesTypeOK, Halt
  <2> QED BY <2>1, <2>2 DEF PT_can_allocate
<1> QED
  BY <1>1, <1>2 DEF PT_can_allocate, PagingTypeOK

LEMMA BeginTyped ==
    ASSUME PagingTypeOK, NEW v \in Granted, BeginStore(v)
    PROVE  PagingTypeOK'
<1>1. PagesTypeOK'
  BY PagesSame DEF BeginStore
<1>2. v \in VPages
  BY DEF PagingTypeOK, PagesTypeOK, Granted
<1>3. FramesTypeOK'
  BY FramesUnchanged DEF BeginStore, PagingTypeOK
<1> QED
  BY <1>1, <1>2, <1>3 DEF BeginStore, PagingTypeOK, EntriesTypeOK

LEMMA StoreTyped ==
    ASSUME PagingTypeOK, NEW w \in ClientWords, Store(w)
    PROVE  PagingTypeOK'
<1>1. PagesTypeOK'
  BY PagesSame DEF Store
<1>2. storing \in VPages
  BY DEF PagingTypeOK, Store
<1>3. w \in Words
  BY PagingAssumption
<1>4. PICK f \in Words : /\ tlb' = tlb \cup {<<storing, f>>}
                         /\ word' = [word EXCEPT ![f] = w]
  BY DEF Store
<1>5. FramesTypeOK'
  BY <1>3, <1>4 DEF Store, PagingTypeOK, FramesTypeOK, FrameTypeOK
<1>6. halted' \in BOOLEAN
  BY DEF Store, AfterStore, Halt, PagingTypeOK
<1> QED
  BY <1>1, <1>2, <1>4, <1>5, <1>6 DEF Store, PagingTypeOK, EntriesTypeOK

LEMMA PagingTypeStep == PagingTypeOK /\ [PagingNext]_vars => PagingTypeOK'
<1> SUFFICES ASSUME PagingTypeOK, [PagingNext]_vars PROVE PagingTypeOK'
  OBVIOUS
<1>1. CASE PT_init
  BY <1>1, TakeTableTyped
<1>2. CASE Kmain
  <2>1. CASE MMU_alloc_page
    BY <2>1, AllocHeapTyped DEF MMU_alloc_page
  <2>2. ASSUME NEW num \in 0..MaxPages, MMU_alloc_pages(num) PROVE PagingTypeOK'
    BY <2>2, AllocHeapTyped DEF MMU_alloc_pages
  <2>3. CASE MMU_alloc_stack_page
    BY <2>3, AllocStackTyped
  <2>4. ASSUME NEW v \in inUse, MMU_free_page(v) PROVE PagingTypeOK'
    BY <2>4, FreePageTyped
  <2>5. ASSUME NEW v \in inUse \cup Freed, BeginStore(v) PROVE PagingTypeOK'
    <3>1. v \in Granted
      BY DEF PagingTypeOK, PagesTypeOK, Freed
    <3> QED BY <2>5, <3>1, BeginTyped
  <2> QED
    BY <1>2, <2>1, <2>2, <2>3, <2>4, <2>5 DEF Kmain
<1>3. CASE PT_can_allocate
  BY <1>3, FaultTyped
<1>4. ASSUME NEW w \in ClientWords, Store(w) PROVE PagingTypeOK'
  BY <1>4, StoreTyped
<1>5. CASE Evict
  <2>1. tlb' \subseteq tlb /\ PagesTypeOK' /\ FramesTypeOK'
    BY <1>5, PagesSame, FramesUnchanged DEF Evict, PagingTypeOK
  <2> QED
    BY <1>5, <2>1 DEF Evict, PagingTypeOK, EntriesTypeOK
<1>6. CASE UNCHANGED vars
  <2>1. PagesTypeOK' /\ FramesTypeOK'
    BY <1>6, PagesSame, FramesUnchanged DEF vars, pagingVars, PagingTypeOK
  <2> QED
    BY <1>6, <2>1 DEF vars, pagingVars, PagingTypeOK, EntriesTypeOK
<1> QED
  BY <1>1, <1>2, <1>3, <1>4, <1>5, <1>6 DEF PagingNext

(* Every reachable state is well typed, also after the free list broke: no *)
(* index of the page allocators ever names a page outside the window, and  *)
(* no entry, translation or history leaves it.                             *)
THEOREM PagingTyped == PagingSpec => []PagingTypeOK
  BY PagingTypeInit, PagingTypeStep, PTL DEF PagingSpec
-----------------------------------------------------------------------------
(* The inductive invariant behind ListSurvives and FramesAccounted, for a  *)
(* kmain that stores only to pages it has not freed.                       *)
OwnStores == storing # None => storing \in inUse

AbsentFrameless == \A v \in VPages : ~pte[v].present => pte[v].frame = nullptr

TlbGranted == \A v, f : <<v, f>> \in tlb => v \in Granted

(* A translation of a page in use is the one in its entry.                 *)
TlbCurrent ==
    \A v, f : <<v, f>> \in tlb /\ v \in inUse => pte[v].present /\ pte[v].frame = f

Accounts ==
    /\ held = TableFrames \cup {pte[v].frame : v \in Present}
    /\ Present \subseteq inUse
    /\ \A v \in Present : pte[v].frame \notin TableFrames
    /\ \A v, u \in Present : pte[v].frame = pte[u].frame => v = u

OwnedInv ==
    /\ PagingTypeOK /\ Usable
    /\ OwnStores /\ AbsentFrameless /\ TlbGranted
    /\ exclusive => WellLinked /\ TlbCurrent /\ (intact => Accounts)

LEMMA OwnedInit == PagingInit => OwnedInv
<1> SUFFICES ASSUME PagingInit PROVE OwnedInv
  OBVIOUS
<1>1. PagingTypeOK /\ Usable /\ WellLinked
  BY PagingTypeInit, UsableInit, LinkedInit DEF PagingInit
<1>2. OwnStores /\ AbsentFrameless /\ TlbGranted /\ TlbCurrent
  BY DEF PagingInit, OwnStores, AbsentFrameless, TlbGranted, TlbCurrent, Cleared
<1>3. Accounts
  BY DEF PagingInit, FrameInit, Accounts, TableFrames, Present, Cleared
<1> QED
  BY <1>1, <1>2, <1>3 DEF OwnedInv

(* A page that was never handed out has no entry a store can use.          *)
LEMMA PresentInUse ==
    ASSUME PagingTypeOK, Usable
    PROVE  Present \subseteq inUse /\ inUse \subseteq Granted
BY DEF PagingTypeOK, PagesTypeOK, Usable, InUseUsable, Present

(* Granting pages nobody had keeps every part of the invariant that is not *)
(* about the frame list.                                                   *)
LEMMA GrantKeeps ==
    ASSUME OwnedInv, NEW pages, pages \subseteq VPages, Grant(pages), exclusive',
           UNCHANGED <<held, tables, tlb>>
    PROVE  TlbCurrent' /\ (Accounts => Accounts')
<1>1. exclusive /\ pages \cap Granted = {}
  BY DEF Grant
<1>2. Present \subseteq inUse /\ inUse \subseteq Granted
  BY PresentInUse DEF OwnedInv
<1>3. Present' = Present /\ \A v \in Present : pte'[v] = pte[v]
  BY <1>1, <1>2 DEF Grant, Present, Allocatable, Cleared
<1>4. TlbCurrent'
  <2> SUFFICES ASSUME NEW v, NEW f, <<v, f>> \in tlb, v \in inUse'
               PROVE  pte'[v].present /\ pte'[v].frame = f
    BY DEF TlbCurrent
  <2>1. v \in Granted
    BY DEF OwnedInv, TlbGranted
  <2>2. v \in inUse
    BY <1>1, <2>1 DEF Grant
  <2>3. pte[v].present /\ pte[v].frame = f /\ v \in VPages
    BY <1>1, <2>1, <2>2 DEF OwnedInv, TlbCurrent, PagingTypeOK, PagesTypeOK, Granted
  <2> QED
    BY <1>3, <2>3 DEF Present
<1>5. ASSUME Accounts PROVE Accounts'
  <2>1. TableFrames' = TableFrames /\ held' = held
    BY DEF TableFrames
  <2>2. {pte'[v].frame : v \in Present'} = {pte[v].frame : v \in Present}
    BY <1>3
  <2>3. inUse \subseteq inUse'
    BY DEF Grant
  <2> QED
    BY <1>3, <1>5, <2>1, <2>2, <2>3 DEF Accounts
<1> QED BY <1>4, <1>5

LEMMA GrantRest ==
    ASSUME OwnedInv, NEW pages, pages \subseteq VPages, Grant(pages),
           Granted \subseteq Granted', UNCHANGED <<tlb, storing>>
    PROVE  OwnStores' /\ AbsentFrameless' /\ TlbGranted'
BY DEF OwnedInv, OwnStores, AbsentFrameless, TlbGranted, Grant, Allocatable, Cleared

LEMMA LinksSame ==
    ASSUME UNCHANGED frameVars
    PROVE  WellLinked' = WellLinked
BY DEF frameVars, WellLinked, Threaded, NoRepeats, Partition, OnList

LEMMA AllocHeapOwned ==
    ASSUME OwnedInv, NEW n \in Nat, AllocHeap(n)
    PROVE  OwnedInv'
<1>1. /\ Grant(PagesOfLoop(n))
      /\ heapPages' = heapPages \cup PagesOfLoop(n)
      /\ UNCHANGED <<frameVars, tables, tlb, storing, stackPages>>
  BY DEF AllocHeap, PagesOfLoop
<1>2. PagesOfLoop(n) \subseteq VPages
  BY LoopInRange DEF OwnedInv, PagingTypeOK
<1>3. PagingTypeOK' /\ Usable'
  BY <1>1, AllocHeapTyped, UsableGrant DEF OwnedInv
<1>4. OwnStores' /\ AbsentFrameless' /\ TlbGranted'
  BY <1>1, <1>2, GrantRest DEF Granted
<1>5. ASSUME exclusive' PROVE WellLinked' /\ TlbCurrent' /\ (intact' => Accounts')
  <2>1. exclusive /\ UNCHANGED <<held, intact>>
    BY <1>1, <1>5 DEF Grant, frameVars
  <2> QED
    BY <1>1, <1>2, <1>5, <2>1, GrantKeeps, LinksSame DEF OwnedInv
<1> QED
  BY <1>3, <1>4, <1>5 DEF OwnedInv

LEMMA AllocStackOwned ==
    ASSUME OwnedInv, MMU_alloc_stack_page
    PROVE  OwnedInv'
<1> DEFINE page == PageOf(Lowered(stackIndex))
<1>1. UNCHANGED <<frameVars, tables, tlb, storing>>
  BY DEF MMU_alloc_stack_page
<1>2. PagingTypeOK'
  BY AllocStackTyped DEF OwnedInv
<1>3. CASE UNCHANGED <<pte, histories>>
  BY <1>1, <1>2, <1>3, LinksSame, UsableSame
     DEF OwnedInv, OwnStores, AbsentFrameless, TlbGranted, TlbCurrent, Granted, histories,
         Accounts, TableFrames, Present, frameVars
<1>4. CASE Grant({page}) /\ stackPages' = stackPages \cup {page} /\ UNCHANGED heapPages
  <2>1. {page} \subseteq VPages
    BY PageInRange, LoweredType DEF OwnedInv, PagingTypeOK
  <2>2. Usable'
    BY <1>4, UsableGrant DEF OwnedInv
  <2>3. OwnStores' /\ AbsentFrameless' /\ TlbGranted'
    BY <1>1, <1>4, <2>1, GrantRest DEF Granted
  <2>4. ASSUME exclusive' PROVE WellLinked' /\ TlbCurrent' /\ (intact' => Accounts')
    <3>1. exclusive /\ UNCHANGED <<held, intact>>
      BY <1>1, <1>4, <2>4 DEF Grant, frameVars
    <3> QED
      BY <1>1, <1>4, <2>1, <2>4, <3>1, GrantKeeps, LinksSame DEF OwnedInv
  <2> QED
    BY <1>2, <2>2, <2>3, <2>4 DEF OwnedInv
<1> QED
  BY <1>3, <1>4 DEF MMU_alloc_stack_page

(* The frame of a page in use is given back once, and it was nobody else's.*)
LEMMA FreePageOwned ==
    ASSUME OwnedInv, storing = None, NEW v \in inUse, MMU_free_page(v)
    PROVE  OwnedInv'
<1> DEFINE f == pte[v].frame
<1>1. v \in VPages /\ EntriesKept /\ None \notin VPages
  BY NoneAssumption DEF OwnedInv, Usable, PagingTypeOK, PagesTypeOK, Granted
<1>2. PagingTypeOK' /\ Usable'
  <2>1. Usable'
    BY DEF OwnedInv, MMU_free_page, Usable, EntriesKept, InUseUsable, Cleared
  <2> QED
    BY <2>1, FreePageTyped DEF OwnedInv
<1>3. OwnStores' /\ AbsentFrameless' /\ TlbGranted'
  BY <1>1 DEF OwnedInv, MMU_free_page, OwnStores, AbsentFrameless, TlbGranted, Granted,
              Cleared, EntriesKept
<1>4. ASSUME exclusive' PROVE TlbCurrent'
  BY <1>1, <1>4 DEF OwnedInv, MMU_free_page, TlbCurrent, EntriesKept
<1>5. ASSUME exclusive', intact' PROVE WellLinked' /\ Accounts'
  <2>1. exclusive /\ intact /\ Accounts /\ WellLinked /\ f # nullptr
    BY <1>5 DEF MMU_free_page, MEM_pf_free, OwnedInv
  <2>2. v \in Present /\ f \in held
    BY <1>1, <2>1 DEF OwnedInv, AbsentFrameless, Present, Accounts
  <2>3. WellLinked'
    BY <2>1, <2>2, FreeKeeps DEF OwnedInv, PagingTypeOK, FramesTypeOK, FrameInv, MMU_free_page
  <2>4. Present' = Present \ {v} /\ \A u \in Present' : pte'[u] = pte[u]
    BY <1>1 DEF MMU_free_page, Present, Cleared, EntriesKept
  <2>5. held' = held \ {f} /\ TableFrames' = TableFrames /\ inUse' = inUse \ {v}
    BY DEF MMU_free_page, MEM_pf_free, TableFrames
  <2>6. \A u \in Present' : pte'[u].frame \notin TableFrames'
    BY <2>1, <2>4, <2>5 DEF Accounts
  <2>7. \A u, x \in Present' : pte'[u].frame = pte'[x].frame => u = x
    BY <2>1, <2>4 DEF Accounts
  <2>8. held' = TableFrames' \cup {pte'[u].frame : u \in Present'}
    <3>1. {pte'[u].frame : u \in Present'} = {pte[u].frame : u \in Present} \ {f}
      BY <2>1, <2>2, <2>4 DEF Accounts
    <3>2. f \notin TableFrames
      BY <2>1, <2>2 DEF Accounts
    <3> QED BY <2>1, <2>5, <3>1, <3>2 DEF Accounts
  <2> QED
    BY <2>1, <2>3, <2>4, <2>5, <2>6, <2>7, <2>8 DEF Accounts
<1>6. ~intact' => WellLinked'
  BY DEF WellLinked
<1> QED
  BY <1>2, <1>3, <1>4, <1>5, <1>6 DEF OwnedInv

(* A frame taken off a well linked list was free and nobody's.             *)
LEMMA AllocTakesFree ==
    ASSUME FrameTypeOK, WellLinked, intact, MEM_pf_alloc
    PROVE  /\ page_head \in Frames \ held
           /\ held' = held \cup {page_head}
BY CountFromLinks DEF FrameInv, CountExact, MEM_pf_alloc

LEMMA TakeTableOwned ==
    ASSUME OwnedInv, PT_init
    PROVE  OwnedInv'
<1>1. PagingTypeOK' /\ Usable'
  BY TakeTableTyped, UsableSame DEF OwnedInv, PT_init, histories
<1>2. OwnStores' /\ AbsentFrameless' /\ TlbGranted' /\ (TlbCurrent => TlbCurrent')
  BY DEF OwnedInv, PT_init, histories, OwnStores, AbsentFrameless, TlbGranted, TlbCurrent,
         Granted
<1>3. ASSUME exclusive' PROVE WellLinked' /\ (intact' => Accounts')
  <2>0. exclusive /\ WellLinked
    BY <1>3 DEF PT_init, histories, OwnedInv
  <2>1. CASE Halt /\ UNCHANGED <<frameVars, tables>>
    BY <1>3, <2>0, <2>1, LinksSame
       DEF PT_init, histories, OwnedInv, Accounts, TableFrames, Present, frameVars
  <2>2. CASE MEM_pf_alloc /\ tables' = Append(tables, page_head)
    <3>1. WellLinked'
      BY <2>0, <2>2, AllocKeeps DEF OwnedInv, PagingTypeOK, FramesTypeOK, FrameInv
    <3>2. ASSUME intact' PROVE Accounts'
      <4>1. intact /\ Accounts
        BY <2>0, <2>2, <3>2 DEF MEM_pf_alloc, OwnedInv
      <4>2. page_head \in Frames \ held /\ held' = held \cup {page_head}
        BY <2>0, <2>2, <4>1, AllocTakesFree DEF OwnedInv, PagingTypeOK, FramesTypeOK
      <4>3. TableFrames' = TableFrames \cup {page_head}
        <5>1. tables \in Seq(Words) /\ page_head \in Words
          BY DEF OwnedInv, PagingTypeOK, FramesTypeOK, FrameTypeOK
        <5>2. /\ Len(tables') = Len(tables) + 1 /\ Len(tables) \in Nat
              /\ \A i \in 1..Len(tables) : tables'[i] = tables[i]
              /\ tables'[Len(tables) + 1] = page_head
          BY <2>2, <5>1
        <5> QED
          BY <5>2 DEF TableFrames
      <4>4. Present' = Present /\ UNCHANGED <<pte, inUse>>
        BY DEF PT_init, histories, Present
      <4> QED
        BY <4>1, <4>2, <4>3, <4>4 DEF Accounts
    <3> QED BY <3>1, <3>2
  <2> QED BY <2>1, <2>2 DEF PT_init
<1> QED
  BY <1>1, <1>2, <1>3 DEF OwnedInv, PT_init, histories

(* The frame a page fault maps was free: no page, table or translation     *)
(* refers to it.                                                           *)
LEMMA FaultOwned ==
    ASSUME OwnedInv, PT_can_allocate
    PROVE  OwnedInv'
<1>1. /\ storing # None /\ ~Translated(storing)
      /\ ~pte[storing].present /\ pte[storing].allocatable
      /\ UNCHANGED <<tables, tlb, storing, histories>>
  BY DEF PT_can_allocate
<1>2. storing \in VPages /\ storing \in inUse /\ EntriesKept
  BY <1>1 DEF OwnedInv, OwnStores, PagingTypeOK, Usable
<1>3. PagingTypeOK'
  BY FaultTyped DEF OwnedInv
<1>4. CASE Halt /\ UNCHANGED <<frameVars, pte>>
  BY <1>1, <1>3, <1>4, LinksSame, UsableSame
     DEF OwnedInv, OwnStores, AbsentFrameless, TlbGranted, TlbCurrent, Granted, histories,
         Accounts, TableFrames, Present, frameVars
<1>5. CASE MEM_pf_alloc /\ pte' = [pte EXCEPT ![storing] = Mapped(page_head)]
  <2>1. Usable'
    BY <1>1, <1>2, <1>5 DEF OwnedInv, Usable, EntriesKept, InUseUsable, Mapped, histories
  <2>2. OwnStores' /\ AbsentFrameless' /\ TlbGranted'
    BY <1>1, <1>2, <1>5 DEF OwnedInv, OwnStores, AbsentFrameless, TlbGranted, Granted,
                            histories, Mapped, EntriesKept
  <2>3. ASSUME exclusive' PROVE TlbCurrent'
    <3> SUFFICES ASSUME NEW v, NEW f, <<v, f>> \in tlb, v \in inUse
                 PROVE  pte'[v].present /\ pte'[v].frame = f
      BY <1>1 DEF TlbCurrent, histories
    <3>1. v \in VPages /\ f \in Words
      BY DEF OwnedInv, PagingTypeOK
    <3>2. v # storing
      BY <1>1, <3>1 DEF Translated
    <3>3. pte[v].present /\ pte[v].frame = f
      BY <1>1, <2>3 DEF OwnedInv, TlbCurrent, histories
    <3> QED
      BY <1>2, <1>5, <3>1, <3>2, <3>3 DEF EntriesKept
  <2>4. ASSUME exclusive' PROVE WellLinked'
    BY <1>1, <1>5, <2>4, AllocKeeps
       DEF OwnedInv, PagingTypeOK, FramesTypeOK, FrameInv, histories
  <2>5. ASSUME exclusive', intact' PROVE Accounts'
    <3>1. exclusive /\ intact /\ Accounts /\ WellLinked
      BY <1>1, <1>5, <2>5 DEF MEM_pf_alloc, OwnedInv, histories
    <3>2. page_head \in Frames \ held /\ held' = held \cup {page_head}
      BY <1>5, <3>1, AllocTakesFree DEF OwnedInv, PagingTypeOK, FramesTypeOK
    <3>3. /\ TableFrames' = TableFrames /\ inUse' = inUse
          /\ storing \notin Present /\ Present' = Present \cup {storing}
          /\ pte'[storing].frame = page_head
          /\ \A v \in Present : pte'[v] = pte[v]
      BY <1>1, <1>2, <1>5 DEF TableFrames, histories, Present, Mapped, EntriesKept
    <3>4. \A v \in Present : pte[v].frame \in held /\ pte[v].frame \notin TableFrames
      BY <3>1 DEF Accounts
    <3>5. TableFrames \subseteq held
      BY <3>1 DEF Accounts
    <3>6. {pte'[v].frame : v \in Present'} = {pte[v].frame : v \in Present} \cup {page_head}
      BY <3>3
    <3>7. \A v \in Present' : pte'[v].frame \notin TableFrames'
      BY <3>2, <3>3, <3>4, <3>5
    <3>8. \A v, u \in Present' : pte'[v].frame = pte'[u].frame => v = u
      BY <3>1, <3>2, <3>3, <3>4 DEF Accounts
    <3> QED
      BY <1>2, <3>1, <3>2, <3>3, <3>6, <3>7, <3>8 DEF Accounts
  <2> QED
    BY <1>3, <2>1, <2>2, <2>3, <2>4, <2>5 DEF OwnedInv
<1> QED
  BY <1>4, <1>5 DEF PT_can_allocate

(* A store of kmain lands in the frame of the page it stores to.           *)
LEMMA StoreOwned ==
    ASSUME OwnedInv, NEW w \in ClientWords, Store(w)
    PROVE  OwnedInv'
<1>1. PICK f \in Words :
        /\ IF Translated(storing) THEN <<storing, f>> \in tlb
           ELSE pte[storing].present /\ f = pte[storing].frame
        /\ tlb' = tlb \cup {<<storing, f>>}
        /\ word' = [word EXCEPT ![f] = w]
  BY DEF Store
<1>2. /\ storing' = None
      /\ UNCHANGED <<page_head, page_tail, count, held, free, intact, pte, tables,
                     heapIndex, stackIndex, histories>>
  BY DEF Store
<1>3. storing \in inUse /\ storing \in Granted /\ storing \in VPages
  BY PresentInUse DEF Store, OwnedInv, OwnStores, PagingTypeOK
<1>4. PagingTypeOK' /\ Usable'
  BY <1>2, StoreTyped, UsableSame DEF OwnedInv, histories
<1>5. OwnStores' /\ AbsentFrameless' /\ TlbGranted'
  BY <1>1, <1>2, <1>3 DEF OwnedInv, OwnStores, AbsentFrameless, TlbGranted, Granted, histories
<1>6. ASSUME exclusive' PROVE TlbCurrent' /\ WellLinked' /\ (intact' => Accounts')
  <2>1. exclusive /\ TlbCurrent /\ WellLinked
    BY <1>2, <1>6 DEF OwnedInv, histories
  <2>2. pte[storing].present /\ pte[storing].frame = f
    BY <1>1, <1>3, <2>1 DEF TlbCurrent
  <2>3. TlbCurrent'
    BY <1>1, <1>2, <2>1, <2>2 DEF TlbCurrent, histories
  <2>4. intact => Accounts /\ Accounts'
    BY <1>2, <2>1 DEF OwnedInv, Accounts, TableFrames, Present, histories
  <2>5. CASE intact
    <3>1. f \in held
      BY <1>3, <2>2, <2>4, <2>5 DEF Accounts, Present
    <3>2. ClientWrite(f, w) /\ w \in Words
      BY <1>1, <1>2, PagingAssumption DEF ClientWrite
    <3>3. WellLinked'
      BY <2>1, <3>1, <3>2, WriteKeeps DEF OwnedInv, PagingTypeOK, FramesTypeOK, FrameInv
    <3> QED BY <2>3, <2>4, <2>5, <3>3
  <2>6. CASE ~intact
    BY <1>2, <2>3, <2>6 DEF WellLinked
  <2> QED BY <2>5, <2>6
<1> QED
  BY <1>4, <1>5, <1>6 DEF OwnedInv

LEMMA OwnedStep ==
    ASSUME ~DanglingStores, OwnedInv, [PagingNext]_vars
    PROVE  OwnedInv'
<1>0. PagingTypeOK'
  BY PagingTypeStep DEF OwnedInv
<1>1. CASE PT_init
  BY <1>1, TakeTableOwned
<1>2. CASE Kmain
  <2>1. CASE MMU_alloc_page
    BY <2>1, AllocHeapOwned DEF MMU_alloc_page
  <2>2. ASSUME NEW num \in 0..MaxPages, MMU_alloc_pages(num) PROVE OwnedInv'
    BY <2>2, AllocHeapOwned DEF MMU_alloc_pages
  <2>3. CASE MMU_alloc_stack_page
    BY <2>3, AllocStackOwned
  <2>4. ASSUME NEW v \in inUse, MMU_free_page(v) PROVE OwnedInv'
    BY <1>2, <2>4, FreePageOwned DEF Kmain
  <2>5. ASSUME NEW v \in inUse, BeginStore(v) PROVE OwnedInv'
    BY <1>0, <2>5, LinksSame, UsableSame
       DEF BeginStore, OwnedInv, OwnStores, AbsentFrameless, TlbGranted, TlbCurrent,
           Granted, histories, Accounts, TableFrames, Present, frameVars
  <2> QED
    BY <1>2, <2>1, <2>2, <2>3, <2>4, <2>5 DEF Kmain
<1>3. CASE PT_can_allocate
  BY <1>3, FaultOwned
<1>4. ASSUME NEW w \in ClientWords, Store(w) PROVE OwnedInv'
  BY <1>4, StoreOwned
<1>5. CASE Evict
  <2>1. tlb' \subseteq tlb
    BY <1>5 DEF Evict
  <2> QED
    BY <1>0, <1>5, <2>1, LinksSame, UsableSame
       DEF Evict, OwnedInv, OwnStores, AbsentFrameless, TlbGranted, TlbCurrent,
           Granted, histories, Accounts, TableFrames, Present, frameVars
<1>6. CASE UNCHANGED vars
  BY <1>0, <1>6, LinksSame, UsableSame
     DEF vars, pagingVars, OwnedInv, OwnStores, AbsentFrameless, TlbGranted, TlbCurrent,
         Granted, histories, Accounts, TableFrames, Present, frameVars
<1> QED
  BY <1>1, <1>2, <1>3, <1>4, <1>5, <1>6 DEF PagingNext

(* As long as kmain stores only to pages it has not freed and no page was  *)
(* handed out twice, no store reaches a frame that is on the free list,    *)
(* through an entry or through a translation the processor still holds.    *)
THEOREM ListIsKept == ~DanglingStores => (PagingSpec => []ListSurvives)
<1> SUFFICES ASSUME ~DanglingStores PROVE PagingSpec => []ListSurvives
  OBVIOUS
<1>1. OwnedInv => ListSurvives
  BY DEF OwnedInv, ListSurvives
<1>2. OwnedInv /\ [PagingNext]_vars => OwnedInv'
  BY OwnedStep
<1> QED
  BY <1>1, <1>2, OwnedInit, PTL DEF PagingSpec

(* Under the same hypothesis, until an allocation takes the last free      *)
(* frame or page 0 is freed: every frame is in one place, free, a page     *)
(* table, or mapped by exactly one page that is in use.                    *)
THEOREM EveryFrameAccounted == ~DanglingStores => (PagingSpec => []FramesAccounted)
<1> SUFFICES ASSUME ~DanglingStores PROVE PagingSpec => []FramesAccounted
  OBVIOUS
<1>1. OwnedInv => FramesAccounted
  BY DEF OwnedInv, FramesAccounted, Accounts
<1>2. OwnedInv /\ [PagingNext]_vars => OwnedInv'
  BY OwnedStep
<1> QED
  BY <1>1, <1>2, OwnedInit, PTL DEF PagingSpec
-----------------------------------------------------------------------------
(* A store to a freed page goes through only by a translation that the     *)
(* processor held before: the entry of a freed page is never present.      *)
THEOREM FreedPagesFault == PagingSpec => FreedPageFaults
<1> DEFINE Step == (storing \in Freed /\ storing' = None) => \E t \in tlb : t[1] = storing
<1>1. ASSUME PagingTypeOK, Usable, [PagingNext]_vars PROVE [Step]_vars
  <2> SUFFICES ASSUME PagingNext, storing \in Freed, storing' = None
               PROVE  \E t \in tlb : t[1] = storing
    BY <1>1
  <2>1. storing \in VPages /\ storing \notin inUse /\ storing # None
    BY <1>1, NoneAssumption DEF PagingTypeOK, PagesTypeOK, Freed, Granted
  <2>2. ~pte[storing].present
    BY <1>1, <2>1 DEF Usable, InUseUsable
  <2>3. \E w \in ClientWords : Store(w)
    BY <2>1 DEF PagingNext, PT_init, Kmain, PT_can_allocate, Evict
  <2>4. Translated(storing)
    BY <2>2, <2>3 DEF Store
  <2>5. PICK f \in Words : <<storing, f>> \in tlb
    BY <2>4 DEF Translated
  <2> QED BY <2>5
<1>2. PagingTypeOK /\ Usable /\ [PagingNext]_vars => (PagingTypeOK /\ Usable)'
  BY PagingTypeStep, UsableStep
<1> QED
  BY <1>1, <1>2, PagingTypeInit, UsableInit, PTL DEF PagingSpec, FreedPageFaults
-----------------------------------------------------------------------------
(* The order in which pages are handed out.  The place of a pair of indices*)
(* in the window:                                                          *)
Place(i) == i.pml2 * Pml1Size + i.pml1

InTables(i) ==
    /\ i \in Index
    /\ i.pml1 \in 0..(Pml1Size - 1) /\ i.pml2 \in 0..(Pml2Size - 1)

WindowSize == Pml2Size * Pml1Size

LEMMA PlaceInRange ==
    ASSUME NEW i, InTables(i)
    PROVE  /\ Place(i) \in 0..(WindowSize - 1)
           /\ PageOf(i) = Place(i)
           /\ WindowSize \in Nat
<1>1. Pml1Size \in Nat \ {0} /\ Pml2Size \in Nat \ {0}
  BY PagingAssumption
<1>2. i.pml1 % Pml1Size = i.pml1 /\ i.pml2 % Pml2Size = i.pml2
  BY <1>1 DEF InTables
<1>3. Place(i) \in 0..(WindowSize - 1)
  BY CellInRange DEF InTables, Place, WindowSize
<1>4. WindowSize \in Nat
  BY <1>1 DEF WindowSize
<1> QED BY <1>2, <1>3, <1>4 DEF PageOf, Place

(* The carries of MMU_alloc_page: the next place, or out of the window.    *)
LEMMA RaisedPlace ==
    ASSUME NEW i, InTables(i)
    PROVE  /\ InTables(Raised(i))
           /\ Place(i) + 1 < WindowSize => /\ Place(Raised(i)) = Place(i) + 1
                                           /\ Raised(i).pml3 = i.pml3
           /\ Place(i) + 1 >= WindowSize => Raised(i).pml3 = i.pml3 + 1
<1> DEFINE P1 == Pml1Size
           P2 == Pml2Size
<1>1. P1 \in Nat \ {0} /\ P2 \in Nat \ {0}
  BY PagingAssumption
<1>2. i.pml1 \in 0..(P1 - 1) /\ i.pml2 \in 0..(P2 - 1) /\ i.pml3 \in Int
  BY DEF InTables, Index
<1>3. CASE i.pml1 + 1 < P1
  <2>1. Raised(i) = [pml1 |-> i.pml1 + 1, pml2 |-> i.pml2, pml3 |-> i.pml3]
    BY <1>1, <1>2, <1>3 DEF Raised
  <2>2. InTables(Raised(i))
    BY <1>1, <1>2, <1>3, <2>1 DEF InTables, Index
  <2>3. Place(Raised(i)) = Place(i) + 1
    <3>1. i.pml2 * P1 \in Nat
      BY <1>1, <1>2
    <3> QED BY <1>2, <2>1, <3>1 DEF Place
  <2>4. Place(Raised(i)) < WindowSize
    BY <2>2, PlaceInRange
  <2> QED BY <1>1, <1>2, <2>1, <2>2, <2>3, <2>4, PlaceInRange
<1>4. CASE i.pml1 + 1 >= P1 /\ i.pml2 + 1 < P2
  <2>1. Raised(i) = [pml1 |-> 0, pml2 |-> i.pml2 + 1, pml3 |-> i.pml3]
    BY <1>1, <1>2, <1>4 DEF Raised
  <2>2. InTables(Raised(i))
    BY <1>1, <1>2, <1>4, <2>1 DEF InTables, Index
  <2>3. Place(Raised(i)) = Place(i) + 1
    <3>1. (i.pml2 + 1) * P1 = i.pml2 * P1 + P1 /\ i.pml2 * P1 \in Nat
      BY <1>1, <1>2
    <3>2. i.pml1 = P1 - 1
      BY <1>1, <1>2, <1>4
    <3> QED BY <1>1, <2>1, <3>1, <3>2 DEF Place
  <2>4. Place(Raised(i)) < WindowSize
    BY <2>2, PlaceInRange
  <2> QED BY <1>1, <1>2, <2>1, <2>2, <2>3, <2>4, PlaceInRange
<1>5. CASE i.pml1 + 1 >= P1 /\ i.pml2 + 1 >= P2
  <2>1. Raised(i) = [pml1 |-> 0, pml2 |-> 0, pml3 |-> i.pml3 + 1]
    BY <1>1, <1>2, <1>5 DEF Raised
  <2>2. InTables(Raised(i))
    BY <1>1, <1>2, <1>5, <2>1 DEF InTables, Index
  <2>3. Place(i) + 1 = WindowSize
    <3>1. i.pml1 = P1 - 1 /\ i.pml2 = P2 - 1
      BY <1>1, <1>2, <1>5
    <3>2. (P2 - 1) * P1 = P2 * P1 - P1 /\ P2 * P1 \in Nat
      BY <1>1
    <3> QED BY <1>1, <3>1, <3>2 DEF Place, WindowSize
  <2> QED BY <2>1, <2>2, <2>3, PlaceInRange
<1> QED BY <1>1, <1>2, <1>3, <1>4, <1>5

(* The loop of MMU_alloc_pages goes through the places that follow, as far *)
(* as the window goes.                                                     *)
LEMMA LoopPlaces ==
    ASSUME InTables(heapIndex), heapIndex.pml3 = 1, NEW n \in Nat
    PROVE  LET end == Place(heapIndex) + n
           IN  /\ InTables(RaisedBy[n])
               /\ end < WindowSize => /\ Place(RaisedBy[n]) = end
                                      /\ RaisedBy[n].pml3 = 1
               /\ end >= WindowSize => RaisedBy[n].pml3 > 1
<1> DEFINE start == Place(heapIndex)
           right(m) == /\ InTables(RaisedBy[m])
                       /\ start + m < WindowSize => /\ Place(RaisedBy[m]) = start + m
                                                    /\ RaisedBy[m].pml3 = 1
                       /\ start + m >= WindowSize => RaisedBy[m].pml3 > 1
           places == {m \in Nat : right(m)}
<1>1. /\ RaisedBy[0] = heapIndex
      /\ \A m \in Nat : RaisedBy[m + 1] = Raised(RaisedBy[m])
  BY RaisedByRecursion DEF InTables
<1>2. start \in 0..(WindowSize - 1) /\ WindowSize \in Nat
  BY PlaceInRange
<1>3. 0 \in places
  BY <1>1, <1>2
<1>4. ASSUME NEW m \in places PROVE m + 1 \in places
  <2> DEFINE i == RaisedBy[m]
  <2>1. /\ m \in Nat /\ right(m) /\ RaisedBy[m + 1] = Raised(i)
        /\ InTables(i) /\ i.pml3 \in Int
    BY <1>1 DEF InTables, Index
  <2>2. InTables(Raised(i))
    BY <2>1, RaisedPlace
  <2>3. CASE start + m < WindowSize
    <3>1. Place(i) = start + m /\ i.pml3 = 1
      BY <2>1, <2>3
    <3> HIDE DEF i, start
    <3>2. /\ start + (m + 1) < WindowSize => /\ Place(Raised(i)) = start + (m + 1)
                                             /\ Raised(i).pml3 = 1
          /\ start + (m + 1) >= WindowSize => Raised(i).pml3 > 1
      <4>1. /\ Place(i) + 1 < WindowSize => /\ Place(Raised(i)) = Place(i) + 1
                                            /\ Raised(i).pml3 = i.pml3
            /\ Place(i) + 1 >= WindowSize => Raised(i).pml3 = i.pml3 + 1
        BY <2>1, RaisedPlace
      <4>2. Place(i) + 1 = start + (m + 1)
        BY <1>2, <2>1, <3>1
      <4> QED BY <3>1, <4>1, <4>2
    <3> QED BY <2>1, <2>2, <3>2
  <2>4. CASE start + m >= WindowSize
    <3>1. i.pml3 > 1
      BY <2>1, <2>4
    <3>2. Raised(i).pml3 > 1
      BY <2>1, <3>1 DEF Raised
    <3>3. start + (m + 1) >= WindowSize
      BY <1>2, <2>1, <2>4
    <3> HIDE DEF start
    <3> QED BY <1>2, <2>1, <2>2, <3>2, <3>3
  <2> QED BY <1>2, <2>1, <2>3, <2>4
<1>5. places \in SUBSET Nat
  OBVIOUS
<1> HIDE DEF places
<1>6. places = Nat
  BY <1>3, <1>4, <1>5, NaturalInduction
<1> QED BY <1>6 DEF places

LEMMA LoopPages ==
    ASSUME InTables(heapIndex), heapIndex.pml3 = 1, NEW n \in Nat
    PROVE  LET start == Place(heapIndex)
               last  == IF start + n < WindowSize THEN start + n ELSE WindowSize - 1
           IN  PagesOfLoop(n) = (start + 1)..last
<1> DEFINE start == Place(heapIndex)
           last  == IF start + n < WindowSize THEN start + n ELSE WindowSize - 1
<1>1. start \in 0..(WindowSize - 1) /\ WindowSize \in Nat
  BY PlaceInRange
<1>2. ASSUME NEW j \in 1..n
      PROVE  /\ RaisedBy[j].pml3 <= 1 <=> start + j < WindowSize
             /\ start + j < WindowSize => PageOf(RaisedBy[j]) = start + j
  <2>1. /\ InTables(RaisedBy[j])
        /\ start + j < WindowSize => Place(RaisedBy[j]) = start + j /\ RaisedBy[j].pml3 = 1
        /\ start + j >= WindowSize => RaisedBy[j].pml3 > 1
    BY LoopPlaces
  <2>2. PageOf(RaisedBy[j]) = Place(RaisedBy[j]) /\ RaisedBy[j].pml3 \in Int
    BY <2>1, PlaceInRange DEF InTables, Index
  <2> HIDE DEF start
  <2> QED BY <1>1, <2>1, <2>2
<1> HIDE DEF start
<1>3. ASSUME NEW p \in PagesOfLoop(n) PROVE p \in (start + 1)..last
  <2>1. PICK j \in 1..n : RaisedBy[j].pml3 <= 1 /\ p = PageOf(RaisedBy[j])
    BY DEF PagesOfLoop
  <2>2. start + j < WindowSize /\ p = start + j
    BY <1>2, <2>1
  <2> QED BY <1>1, <2>2
<1>4. ASSUME NEW p \in (start + 1)..last PROVE p \in PagesOfLoop(n)
  <2>1. p - start \in 1..n /\ start + (p - start) = p /\ p < WindowSize
    BY <1>1
  <2>2. RaisedBy[p - start].pml3 <= 1 /\ PageOf(RaisedBy[p - start]) = p
    BY <1>2, <2>1
  <2> QED BY <2>1, <2>2 DEF PagesOfLoop
<1>5. PagesOfLoop(n) = (start + 1)..last
  BY <1>3, <1>4
<1> QED BY <1>5 DEF start

(* The heap's pages are the places up to the current indices.              *)
HeapOrder ==
    /\ InTables(heapIndex)
    /\ ~halted => heapIndex.pml3 = 1
    /\ heapIndex.pml3 = 1 => heapPages = 1..Place(heapIndex)

(* The stack's pages go down from the end of the first pml1 table, until   *)
(* they have filled it.                                                    *)
StackOrder ==
    /\ stackIndex.pml3 = 1 /\ stackIndex.pml2 = Pml2Size
    /\ \/ /\ stackIndex.pml1 \in 1..Pml1Size
          /\ stackPages = stackIndex.pml1..(Pml1Size - 1)
       \/ Cardinality(stackPages) >= Pml1Size

OrderInv == PagingTypeOK /\ HeapOrder

LEMMA OrderInit == PagingInit => OrderInv
<1> SUFFICES ASSUME PagingInit PROVE OrderInv
  OBVIOUS
<1>1. InTables(heapIndex) /\ Place(heapIndex) = 0
  <2>1. heapIndex = [pml1 |-> 0, pml2 |-> 0, pml3 |-> 1]
    BY DEF PagingInit
  <2>2. InTables(heapIndex)
    BY <2>1, PagingAssumption DEF InTables, Index
  <2>3. 0 * Pml1Size = 0
    BY PagingAssumption
  <2> QED BY <2>1, <2>2, <2>3 DEF Place
<1> QED
  BY <1>1, PagingTypeInit DEF OrderInv, HeapOrder, PagingInit

LEMMA HeapOrderSame ==
    ASSUME HeapOrder, UNCHANGED <<heapIndex, heapPages>>, halted => halted'
    PROVE  HeapOrder'
BY DEF HeapOrder

(* One call of MMU_alloc_pages.                                            *)
LEMMA AllocHeapOrder ==
    ASSUME OrderInv, ~halted, NEW n \in Nat \ {0}, AllocHeap(n)
    PROVE  /\ HeapOrder'
           /\ \E last \in Nat :
                 /\ last < WindowSize
                 /\ heapPages = 1..Place(heapIndex)
                 /\ PagesOfLoop(n) = (Place(heapIndex) + 1)..last
                 /\ heapPages' = heapPages \cup PagesOfLoop(n)
                 /\ last >= Place(heapIndex)
                 /\ ~halted' => last = Place(heapIndex) + n
<1> DEFINE start == Place(heapIndex)
           end == start + n
           last == IF end < WindowSize THEN end ELSE WindowSize - 1
<1>1. InTables(heapIndex) /\ heapIndex.pml3 = 1 /\ heapPages = 1..start
  BY DEF OrderInv, HeapOrder
<1>2. start \in 0..(WindowSize - 1) /\ WindowSize \in Nat
  BY <1>1, PlaceInRange
<1>3. PagesOfLoop(n) = (start + 1)..last
  BY <1>1, LoopPages
<1>4. /\ heapIndex' = RaisedBy[n] /\ heapPages' = heapPages \cup PagesOfLoop(n)
      /\ halted' = (RaisedBy[n].pml3 > 1)
  BY DEF AllocHeap, PagesOfLoop
<1>5. /\ InTables(RaisedBy[n])
      /\ end < WindowSize => Place(RaisedBy[n]) = end /\ RaisedBy[n].pml3 = 1
      /\ end >= WindowSize => RaisedBy[n].pml3 > 1
  BY <1>1, LoopPlaces
<1>6. RaisedBy[n].pml3 \in Int
  BY <1>5 DEF InTables, Index
<1> HIDE DEF start
<1>7. ~halted' => end < WindowSize /\ last = end
  <2>1. halted' <=> RaisedBy[n].pml3 > 1
    BY <1>4
  <2> QED BY <1>2, <1>5, <2>1
<1>8. HeapOrder'
  <2>1. InTables(heapIndex')
    BY <1>4, <1>5
  <2>2. heapIndex'.pml3 = 1 => heapPages' = 1..Place(heapIndex')
    <3> SUFFICES ASSUME heapIndex'.pml3 = 1 PROVE heapPages' = 1..Place(heapIndex')
      OBVIOUS
    <3>1. end < WindowSize /\ Place(heapIndex') = end
      BY <1>2, <1>4, <1>5
    <3> QED BY <1>1, <1>2, <1>3, <1>4, <3>1
  <2>3. ~halted' => heapIndex'.pml3 = 1
    BY <1>4, <1>5, <1>7
  <2> QED BY <2>1, <2>2, <2>3 DEF HeapOrder, InTables, Place
<1>9. last \in Nat /\ last < WindowSize /\ last >= start
  BY <1>2
<1> QED BY <1>1, <1>3, <1>4, <1>7, <1>8, <1>9 DEF start

(* What a step does to the heap's indices.                                 *)
LEMMA HeapSteps ==
    ASSUME PagingNext
    PROVE  \/ \E n \in Nat \ {0} : AllocHeap(n)
           \/ UNCHANGED <<heapIndex, heapPages>>
<1>1. CASE Kmain
  <2>1. CASE MMU_alloc_page
    BY <2>1 DEF MMU_alloc_page
  <2>2. ASSUME NEW num \in 0..MaxPages, MMU_alloc_pages(num)
        PROVE  \E n \in Nat \ {0} : AllocHeap(n)
    BY <2>2 DEF MMU_alloc_pages
  <2>3. CASE MMU_alloc_stack_page
    BY <2>3 DEF MMU_alloc_stack_page, histories
  <2> QED
    BY <1>1, <2>1, <2>2, <2>3 DEF Kmain, MMU_free_page, BeginStore, histories
<1> QED
  BY <1>1 DEF PagingNext, PT_init, PT_can_allocate, Store, Evict, histories

LEMMA OrderStep ==
    ASSUME OrderInv, [PagingNext]_vars
    PROVE  OrderInv'
<1>1. PagingTypeOK'
  BY PagingTypeStep DEF OrderInv
<1>2. CASE PagingNext
  <2>1. ~halted
    BY <1>2 DEF PagingNext
  <2>2. ASSUME NEW n \in Nat \ {0}, AllocHeap(n) PROVE HeapOrder'
    BY <2>1, <2>2, AllocHeapOrder
  <2>3. CASE UNCHANGED <<heapIndex, heapPages>>
    BY <1>1, <2>1, <2>3, HeapOrderSame DEF OrderInv
  <2> QED BY <1>1, <1>2, <2>2, <2>3, HeapSteps DEF OrderInv
<1>3. CASE UNCHANGED vars
  BY <1>1, <1>3, HeapOrderSame DEF vars, pagingVars, histories, OrderInv
<1> QED BY <1>2, <1>3

(* page_table.c:246: the pages of one call follow each other and every     *)
(* page the heap handed out before, however many are asked for and through *)
(* every carry of the indices.                                             *)
THEOREM PagesConsecutive == PagingSpec => ConsecutivePages
<1> DEFINE Step ==
      heapIndex' # heapIndex /\ ~halted' =>
        \E first, last \in VPages :
            /\ first <= last /\ heapPages' \ heapPages = first..last
            /\ \A v \in heapPages : v < first
<1>1. ASSUME OrderInv, [PagingNext]_vars PROVE [Step]_vars
  <2> SUFFICES ASSUME PagingNext, heapIndex' # heapIndex, ~halted' PROVE Step
    BY <1>1
  <2>1. PICK n \in Nat \ {0} : AllocHeap(n)
    BY HeapSteps
  <2> DEFINE start == Place(heapIndex)
  <2>2. ~halted
    BY DEF PagingNext
  <2>3. /\ start + n \in Nat /\ start + n < WindowSize
        /\ heapPages = 1..start
        /\ PagesOfLoop(n) = (start + 1)..(start + n)
        /\ heapPages' = heapPages \cup PagesOfLoop(n)
    BY <1>1, <2>1, <2>2, AllocHeapOrder
  <2>4. start \in Nat /\ WindowSize \in Nat
    BY <1>1, PlaceInRange DEF OrderInv, HeapOrder
  <2>5. VPages = 0..(WindowSize - 1)
    BY DEF VPages, WindowSize
  <2> HIDE DEF start
  <2>6. start + 1 \in VPages /\ start + n \in VPages /\ start + 1 <= start + n
    BY <2>3, <2>4, <2>5
  <2>7. heapPages' \ heapPages = (start + 1)..(start + n)
    BY <2>3, <2>4
  <2>8. \A v \in heapPages : v < start + 1
    BY <2>3, <2>4
  <2> QED BY <2>6, <2>7, <2>8
<1>2. OrderInv /\ [PagingNext]_vars => OrderInv'
  BY OrderStep
<1> QED
  BY <1>1, <1>2, OrderInit, PTL DEF PagingSpec, ConsecutivePages

LEMMA LoweredPlace ==
    ASSUME NEW i \in Index
    PROVE  /\ Lowered(i) = [i EXCEPT !.pml1 = (i.pml1 - 1) % Uint16]
           /\ (i.pml1 - 1) % Uint16 \in Nat
<1>1. (i.pml1 - 1) % Uint16 \in Nat
  BY PagingAssumption DEF Index
<1>2. ~((i.pml1 - 1) % Uint16 < 0)
  BY <1>1
<1> QED
  BY <1>1, <1>2 DEF Lowered, Index

LEMMA WindowFinite == IsFiniteSet(VPages)
<1>1. Pml2Size * Pml1Size - 1 \in Int
  BY PagingAssumption
<1> QED
  BY <1>1, FS_Interval DEF VPages

LEMMA PagesFinite ==
    ASSUME PagesTypeOK
    PROVE  /\ IsFiniteSet(heapPages) /\ Cardinality(heapPages) \in Nat
           /\ IsFiniteSet(stackPages) /\ Cardinality(stackPages) \in Nat
BY WindowFinite, FS_Subset, FS_CardinalityType DEF PagesTypeOK

(* Two sets of pages only grow, and so does the number of pages in them.   *)
LEMMA CountsGrow ==
    ASSUME PagesTypeOK', heapPages \subseteq heapPages', stackPages \subseteq stackPages'
    PROVE  /\ Cardinality(heapPages) <= Cardinality(heapPages')
           /\ Cardinality(stackPages) <= Cardinality(stackPages')
<1>1. IsFiniteSet(heapPages') /\ IsFiniteSet(stackPages')
  BY PagesFinite, WindowFinite, FS_Subset DEF PagesTypeOK
<1> QED BY <1>1, FS_Subset

LEMMA StackOrderInit == PagingInit => StackOrder
  BY PagingAssumption DEF PagingInit, StackOrder

LEMMA StackOrderSame ==
    ASSUME StackOrder, UNCHANGED <<stackIndex, stackPages>>
    PROVE  StackOrder'
BY DEF StackOrder

(* The page MMU_alloc_stack_page hands out, as long as it has not used up  *)
(* the table.                                                              *)
LEMMA AllocStackOrder ==
    ASSUME PagingTypeOK, StackOrder, MMU_alloc_stack_page, PagesTypeOK'
    PROVE  LET page == PageOf(Lowered(stackIndex))
           IN  /\ StackOrder'
               /\ Grant({page}) /\ stackPages' = stackPages \cup {page}
               /\ UNCHANGED heapPages
               /\ stackIndex.pml1 \in 1..Pml1Size => page = stackIndex.pml1 - 1
<1> DEFINE index == Lowered(stackIndex)
           page  == PageOf(index)
           place == stackIndex.pml1
<1>1. /\ stackIndex \in Index /\ stackIndex.pml3 = 1 /\ stackIndex.pml2 = Pml2Size
      /\ Pml1Size \in Nat \ {0} /\ Pml2Size \in Nat \ {0}
      /\ Uint16 \in Nat \ {0} /\ Uint16 > Pml1Size
  BY PagingAssumption DEF PagingTypeOK, StackOrder
<1>2. /\ stackIndex' = index
      /\ index = [stackIndex EXCEPT !.pml1 = (place - 1) % Uint16]
  BY <1>1, LoweredPlace DEF MMU_alloc_stack_page
<1>3. index.pml3 = 1 /\ index.pml2 = Pml2Size /\ index.pml1 = (place - 1) % Uint16
  BY <1>1, <1>2 DEF Index
<1>4. Grant({page}) /\ stackPages' = stackPages \cup {page} /\ UNCHANGED heapPages
  BY <1>3 DEF MMU_alloc_stack_page
<1>5. ASSUME place \in 1..Pml1Size
      PROVE  page = place - 1 /\ index.pml1 = place - 1
  <2>1. (place - 1) % Uint16 = place - 1 /\ (place - 1) % Pml1Size = place - 1
    BY <1>1, <1>5
  <2>2. Pml2Size % Pml2Size = 0
    BY <1>1
  <2>3. 0 * Pml1Size = 0
    BY <1>1
  <2> QED BY <1>1, <1>3, <1>5, <2>1, <2>2, <2>3 DEF PageOf
<1>6. StackOrder'
  <2>1. CASE place \in 1..Pml1Size /\ stackPages = place..(Pml1Size - 1)
    <3>1. stackPages' = (place - 1)..(Pml1Size - 1)
      BY <1>1, <1>4, <1>5, <2>1
    <3>2. CASE place = 1
      <4>1. Cardinality(stackPages') = Pml1Size
        BY <1>1, <3>1, <3>2, FS_Interval
      <4> QED BY <1>1, <1>2, <1>3, <4>1 DEF StackOrder
    <3>3. CASE place # 1
      <4>1. stackIndex'.pml1 = place - 1 /\ place - 1 \in 1..Pml1Size
        BY <1>1, <1>2, <1>5, <2>1, <3>3
      <4> QED BY <1>2, <1>3, <3>1, <4>1 DEF StackOrder
    <3> QED BY <3>2, <3>3
  <2>2. CASE Cardinality(stackPages) >= Pml1Size
    <3>1. Cardinality(stackPages') >= Pml1Size
      <4>1. Cardinality(stackPages) <= Cardinality(stackPages')
        BY <1>4, CountsGrow
      <4>2. Cardinality(stackPages) \in Nat /\ Cardinality(stackPages') \in Nat
        BY PagesFinite, WindowFinite, FS_Subset, FS_CardinalityType DEF PagingTypeOK, PagesTypeOK
      <4> QED BY <1>1, <2>2, <4>1, <4>2
    <3> QED BY <1>2, <1>3, <3>1 DEF StackOrder
  <2> QED BY <2>1, <2>2 DEF StackOrder
<1> QED BY <1>4, <1>5, <1>6

(* The two kinds of pages meet only after one pml1 table is used up.       *)
OnceInv == OrderInv /\ StackOrder /\ HandedOutOnce

LEMMA EnoughPages ==
    ASSUME NEW a \in Nat, NEW b \in 0..(Pml1Size - 1), a >= b
    PROVE  Cardinality(1..a) + Cardinality(b..(Pml1Size - 1)) >= Pml1Size
<1>1. Pml1Size \in Nat \ {0}
  BY PagingAssumption
<1>2. Cardinality(1..a) = a
  BY IntervalCount
<1>3. Cardinality(b..(Pml1Size - 1)) = Pml1Size - b
  <2>1. b \in Int /\ Pml1Size - 1 \in Int
    BY <1>1
  <2>2. Cardinality(b..(Pml1Size - 1)) =
            IF b > Pml1Size - 1 THEN 0 ELSE Pml1Size - 1 - b + 1
    BY <2>1, FS_Interval
  <2> QED BY <1>1, <2>2
<1> QED BY <1>1, <1>2, <1>3

LEMMA OnceGrows ==
    ASSUME PagesTypeOK, PagesTypeOK', heapPages \subseteq heapPages',
           stackPages \subseteq stackPages',
           Cardinality(heapPages) + Cardinality(stackPages) >= Pml1Size
    PROVE  HandedOutOnce'
<1>1. /\ Cardinality(heapPages) <= Cardinality(heapPages')
      /\ Cardinality(stackPages) <= Cardinality(stackPages')
  BY CountsGrow
<1>2. /\ Cardinality(heapPages) \in Nat /\ Cardinality(stackPages) \in Nat
      /\ Cardinality(heapPages') \in Nat /\ Cardinality(stackPages') \in Nat
  BY WindowFinite, FS_Subset, FS_CardinalityType DEF PagesTypeOK
<1>3. Pml1Size \in Nat
  BY PagingAssumption
<1> QED BY <1>1, <1>2, <1>3 DEF HandedOutOnce

LEMMA AllocHeapOnce ==
    ASSUME OnceInv, ~halted, NEW n \in Nat \ {0}, AllocHeap(n)
    PROVE  HandedOutOnce'
<1> DEFINE start == Place(heapIndex)
           place == stackIndex.pml1
<1>1. PagesTypeOK /\ PagesTypeOK'
  BY AllocHeapTyped DEF OnceInv, OrderInv, PagingTypeOK
<1>2. PICK last \in Nat :
        /\ heapPages = 1..start /\ PagesOfLoop(n) = (start + 1)..last
        /\ heapPages' = heapPages \cup PagesOfLoop(n) /\ last >= start
  BY AllocHeapOrder DEF OnceInv
<1>3. start \in Nat /\ Pml1Size \in Nat \ {0}
  BY PlaceInRange, PagingAssumption DEF OnceInv, OrderInv, HeapOrder
<1> HIDE DEF start
<1>4. Grant(PagesOfLoop(n)) /\ UNCHANGED <<stackPages, stackIndex>>
  BY DEF AllocHeap, PagesOfLoop
<1>5. heapPages' = 1..last
  BY <1>2, <1>3
<1>6. CASE Cardinality(heapPages) + Cardinality(stackPages) >= Pml1Size
  BY <1>1, <1>2, <1>4, <1>6, OnceGrows
<1>7. CASE exclusive'
  BY <1>7 DEF HandedOutOnce
<1>8. CASE exclusive /\ ~exclusive' /\ place \in 1..Pml1Size
           /\ stackPages = place..(Pml1Size - 1)
  <2>1. PICK p \in PagesOfLoop(n) : p \in Granted
    BY <1>4, <1>8 DEF Grant
  <2>2. p \in stackPages /\ p \in 1..last
    BY <1>2, <1>3, <2>1 DEF Granted
  <2>3. place \in 0..(Pml1Size - 1) /\ last >= place
    BY <1>3, <1>8, <2>2
  <2> QED
    BY <1>4, <1>5, <1>8, <2>3, EnoughPages DEF HandedOutOnce
<1>9. CASE Cardinality(stackPages) >= Pml1Size
  <2>1. Cardinality(heapPages) \in Nat /\ Cardinality(stackPages) \in Nat
    BY <1>1, PagesFinite
  <2>2. Cardinality(heapPages) + Cardinality(stackPages) >= Pml1Size
    BY <1>3, <1>9, <2>1
  <2> QED BY <1>6, <2>2
<1>10. exclusive' \in BOOLEAN
  BY <1>1 DEF PagesTypeOK
<1> QED
  BY <1>6, <1>7, <1>8, <1>9, <1>10 DEF OnceInv, HandedOutOnce, StackOrder

LEMMA AllocStackOnce ==
    ASSUME OnceInv, ~halted, MMU_alloc_stack_page
    PROVE  HandedOutOnce'
<1> DEFINE start == Place(heapIndex)
           place == stackIndex.pml1
           page  == PageOf(Lowered(stackIndex))
<1>1. PagesTypeOK /\ PagesTypeOK'
  BY AllocStackTyped DEF OnceInv, OrderInv, PagingTypeOK
<1>2. /\ Grant({page}) /\ stackPages' = stackPages \cup {page} /\ UNCHANGED heapPages
      /\ place \in 1..Pml1Size => page = place - 1
  BY <1>1, AllocStackOrder DEF OnceInv, OrderInv
<1>3. heapPages = 1..start /\ start \in Nat /\ Pml1Size \in Nat \ {0}
  BY PlaceInRange, PagingAssumption DEF OnceInv, OrderInv, HeapOrder
<1> HIDE DEF start, page
<1>4. CASE Cardinality(heapPages) + Cardinality(stackPages) >= Pml1Size
  BY <1>1, <1>2, <1>4, OnceGrows
<1>5. CASE exclusive'
  BY <1>5 DEF HandedOutOnce
<1>6. CASE exclusive /\ ~exclusive' /\ place \in 1..Pml1Size
           /\ stackPages = place..(Pml1Size - 1)
  <2>1. page \in Granted /\ page = place - 1
    BY <1>2, <1>6 DEF Grant
  <2>2. page \in heapPages
    BY <1>3, <1>6, <2>1 DEF Granted
  <2>3. stackPages' = (place - 1)..(Pml1Size - 1)
    BY <1>2, <1>3, <1>6, <2>1
  <2>4. place - 1 \in 0..(Pml1Size - 1) /\ start >= place - 1
    BY <1>3, <1>6, <2>1, <2>2
  <2> QED
    BY <1>2, <1>3, <2>3, <2>4, EnoughPages DEF HandedOutOnce
<1>7. CASE Cardinality(stackPages) >= Pml1Size
  <2>1. Cardinality(heapPages) \in Nat /\ Cardinality(stackPages) \in Nat
    BY <1>1, PagesFinite
  <2>2. Cardinality(heapPages) + Cardinality(stackPages) >= Pml1Size
    BY <1>3, <1>7, <2>1
  <2> QED BY <1>4, <2>2
<1>8. exclusive' \in BOOLEAN
  BY <1>1 DEF PagesTypeOK
<1> QED
  BY <1>4, <1>5, <1>6, <1>7, <1>8 DEF OnceInv, HandedOutOnce, StackOrder

LEMMA OnceStep ==
    ASSUME OnceInv, [PagingNext]_vars
    PROVE  OnceInv'
<1>1. OrderInv' /\ PagesTypeOK'
  BY OrderStep DEF OnceInv, OrderInv, PagingTypeOK
<1>2. ASSUME UNCHANGED <<stackIndex, histories>> PROVE StackOrder' /\ HandedOutOnce'
  BY <1>2, StackOrderSame DEF OnceInv, histories, HandedOutOnce
<1>3. CASE PagingNext
  <2>0. ~halted
    BY <1>3 DEF PagingNext
  <2>1. ASSUME NEW n \in Nat \ {0}, AllocHeap(n) PROVE StackOrder' /\ HandedOutOnce'
    BY <2>0, <2>1, AllocHeapOnce, StackOrderSame DEF OnceInv, AllocHeap
  <2>2. ASSUME MMU_alloc_stack_page PROVE StackOrder' /\ HandedOutOnce'
    BY <1>1, <2>0, <2>2, AllocStackOnce, AllocStackOrder DEF OnceInv, OrderInv
  <2>3. ASSUME NEW v \in inUse, MMU_free_page(v) PROVE StackOrder' /\ HandedOutOnce'
    BY <2>3, StackOrderSame DEF MMU_free_page, OnceInv, HandedOutOnce
  <2>4. ASSUME Kmain PROVE StackOrder' /\ HandedOutOnce'
    <3>1. CASE MMU_alloc_page
      BY <2>1, <3>1 DEF MMU_alloc_page
    <3>2. ASSUME NEW num \in 0..MaxPages, MMU_alloc_pages(num)
          PROVE  StackOrder' /\ HandedOutOnce'
      BY <2>1, <3>2 DEF MMU_alloc_pages
    <3>3. ASSUME NEW v, BeginStore(v) PROVE StackOrder' /\ HandedOutOnce'
      BY <1>2, <3>3 DEF BeginStore
    <3> QED BY <2>2, <2>3, <2>4, <3>1, <3>2, <3>3 DEF Kmain
  <2> QED
    BY <1>1, <1>2, <1>3, <2>4 DEF OnceInv, PagingNext, PT_init, PT_can_allocate, Store, Evict
<1>4. CASE UNCHANGED vars
  BY <1>1, <1>2, <1>4 DEF OnceInv, vars, pagingVars
<1> QED BY <1>3, <1>4

(* main.c:49: heap and stack pages are different, and no page is handed    *)
(* out twice, until the two kinds have used up a whole pml1 table between  *)
(* them.                                                                   *)
THEOREM PagesHandedOutOnce == PagingSpec => []HandedOutOnce
<1>1. PagingInit => OnceInv
  BY OrderInit, StackOrderInit DEF OnceInv, HandedOutOnce, PagingInit
<1>2. OnceInv /\ [PagingNext]_vars => OnceInv'
  BY OnceStep
<1>3. OnceInv => HandedOutOnce
  BY DEF OnceInv
<1> QED
  BY <1>1, <1>2, <1>3, PTL DEF PagingSpec
=============================================================================
