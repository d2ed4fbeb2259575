------------------------------ MODULE BootProofs ------------------------------
(***************************************************************************)
(* Theorems about BootMemory, for every page size, every table of sections *)
(* and every memory map that end before the last page.  The inductive      *)
(* invariant is BootInv; what the map's entries must not do for ListReady, *)
(* overlap, is a hypothesis of that theorem alone.                         *)
(***************************************************************************)
EXTENDS BootMemory, CommonLemmas

Limit == LastPage * PAGE_SIZE
Room == (LastPage - 1) * PAGE_SIZE

-----------------------------------------------------------------------------
(* Addresses and pages.                                                    *)
LEMMA Sizes ==
    /\ PAGE_SIZE \in Nat \ {0} /\ AVOID_REGION_COUNT \in Nat \ {0} /\ LastPage \in Nat \ {0}
    /\ Word64 \in Nat /\ None \notin Nat
    /\ Limit \in Nat /\ Room \in Nat /\ Limit = Room + PAGE_SIZE
    /\ Limit % PAGE_SIZE = 0
    /\ Limit + PAGE_SIZE < Word64
<1>1. PAGE_SIZE \in Nat \ {0} /\ AVOID_REGION_COUNT \in Nat \ {0} /\ LastPage \in Nat \ {0}
      /\ Word64 \in Nat /\ 2 * (LastPage + 1) * PAGE_SIZE < Word64 /\ None \notin Nat
  BY BootAssumption
<1>2. Limit = PAGE_SIZE * LastPage /\ Room = PAGE_SIZE * (LastPage - 1)
  BY <1>1 DEF Limit, Room
<1>3. PAGE_SIZE * ((LastPage - 1) + 1) = PAGE_SIZE * (LastPage - 1) + PAGE_SIZE
  BY <1>1, Times
<1>4. Limit \in Nat /\ Room \in Nat /\ Limit = Room + PAGE_SIZE
  <2>1. (LastPage - 1) + 1 = LastPage /\ LastPage - 1 \in Nat
    BY <1>1
  <2> QED BY <1>1, <1>2, <1>3, <2>1
<1>5. Limit % PAGE_SIZE = 0
  BY <1>1, <1>2, Multiple
<1>6. 2 * (LastPage + 1) * PAGE_SIZE = 2 * (Limit + PAGE_SIZE)
  BY <1>1, <1>2
<1> QED BY <1>1, <1>4, <1>5, <1>6

LEMMA PagesAre ==
    \A p : p \in Pages <=> p \in Nat /\ PAGE_SIZE <= p /\ p <= Limit /\ p % PAGE_SIZE = 0
<1>1. ASSUME NEW p \in Pages
      PROVE  p \in Nat /\ PAGE_SIZE <= p /\ p <= Limit /\ p % PAGE_SIZE = 0
  <2>1. PICK n \in 1..LastPage : p = n * PAGE_SIZE
    BY DEF Pages
  <2>2. n \in Nat /\ p = PAGE_SIZE * n /\ Limit = PAGE_SIZE * LastPage
    BY <2>1, Sizes DEF Limit
  <2>3. PAGE_SIZE * 1 <= PAGE_SIZE * n /\ PAGE_SIZE * n <= PAGE_SIZE * LastPage
    BY <2>1, Sizes, Times
  <2>4. p % PAGE_SIZE = 0 /\ p \in Nat
    BY <2>2, Sizes, Multiple
  <2> QED BY <2>2, <2>3, <2>4, Sizes
<1>2. ASSUME NEW p \in Nat, PAGE_SIZE <= p, p <= Limit, p % PAGE_SIZE = 0
      PROVE  p \in Pages
  <2> DEFINE n == p \div PAGE_SIZE
  <2>1. n \in Nat /\ p = PAGE_SIZE * n
    BY <1>2, Sizes, Quotient
  <2> HIDE DEF n
  <2>2. n >= 1
    BY <1>2, <2>1, Sizes
  <2>3. PAGE_SIZE * n < PAGE_SIZE * (LastPage + 1)
    <3>1. PAGE_SIZE * (LastPage + 1) = PAGE_SIZE * LastPage + PAGE_SIZE
      BY Sizes, Times
    <3>2. Limit = PAGE_SIZE * LastPage
      BY Sizes DEF Limit
    <3> QED BY <1>2, <2>1, <3>1, <3>2, Sizes
  <2>4. n + 1 <= LastPage + 1
    BY <2>1, <2>3, Sizes, Cancel
  <2>5. n \in 1..LastPage /\ p = n * PAGE_SIZE
    BY <2>1, <2>2, <2>4, Sizes
  <2> QED BY <2>5 DEF Pages
<1> QED BY <1>1, <1>2

LEMMA Aligned ==
    ASSUME NEW v \in Nat
    PROVE  /\ align_page_size(v) \in Nat /\ align_page_size(v) % PAGE_SIZE = 0
           /\ v <= align_page_size(v) /\ align_page_size(v) < v + PAGE_SIZE
<1> DEFINE q == v \div PAGE_SIZE
           r == v % PAGE_SIZE
<1>1. q \in Nat /\ r \in 0..(PAGE_SIZE - 1) /\ v = PAGE_SIZE * q + r
  BY Sizes
<1>2. align_page_size(v) = IF r = 0 THEN v ELSE v + (PAGE_SIZE - r)
  BY DEF align_page_size
<1> HIDE DEF q, r
<1>3. PAGE_SIZE * (q + 1) = PAGE_SIZE * q + PAGE_SIZE
  BY <1>1, Sizes, Times
<1>4. CASE r = 0
  <2>1. align_page_size(v) = PAGE_SIZE * q /\ v = PAGE_SIZE * q
    BY <1>1, <1>2, <1>4, Sizes
  <2>2. (PAGE_SIZE * q) % PAGE_SIZE = 0
    BY <1>1, Sizes, Multiple
  <2> QED BY <2>1, <2>2, Sizes
<1>5. CASE r # 0
  <2>1. align_page_size(v) = PAGE_SIZE * (q + 1)
    BY <1>1, <1>2, <1>3, <1>5, Sizes
  <2>2. (PAGE_SIZE * (q + 1)) % PAGE_SIZE = 0
    BY <1>1, Sizes, Multiple
  <2>3. v <= align_page_size(v) /\ align_page_size(v) < v + PAGE_SIZE
        /\ align_page_size(v) \in Nat
    BY <1>1, <1>2, <1>5, Sizes
  <2> QED BY <2>1, <2>2, <2>3
<1> QED BY <1>4, <1>5

(* Alignment finds the least multiple that is not below.                   *)
LEMMA AlignedLeast ==
    ASSUME NEW v \in Nat, NEW m \in Nat, m % PAGE_SIZE = 0
    PROVE  /\ v <= m => align_page_size(v) <= m
           /\ m < align_page_size(v) => m < v
<1>1. /\ align_page_size(v) \in Nat /\ align_page_size(v) % PAGE_SIZE = 0
      /\ align_page_size(v) < v + PAGE_SIZE
  BY Aligned
<1>2. ASSUME m < align_page_size(v) PROVE m < v
  <2>1. m + PAGE_SIZE <= align_page_size(v)
    BY <1>1, <1>2, Sizes, MultiplesApart
  <2> QED BY <1>1, <2>1, Sizes
<1> QED BY <1>1, <1>2

(* Where a search for a free page begins.                                  *)
LEMMA StartFacts ==
    ASSUME NEW a \in 0..Limit
    PROVE  /\ Start(a) \in Pages /\ a <= Start(a)
           /\ \A p \in Pages : p < Start(a) => p < a
<1> DEFINE v == IF a = 0 THEN 1 ELSE a
           s == Start(a)
<1>1. v \in Nat \ {0} /\ a \in Nat /\ a <= v /\ v <= Limit
  <2>1. Limit >= 1
    BY Sizes
  <2> QED BY <2>1, Sizes
<1>2. s = align_page_size(v)
  BY DEF Start
<1>3. \A p \in Pages : p < v => p < a
  BY <1>1, PagesAre, Sizes
<1> HIDE DEF v, s
<1>4. s \in Nat /\ s % PAGE_SIZE = 0 /\ v <= s
  BY <1>1, <1>2, Aligned
<1>5. s <= Limit
  BY <1>1, <1>2, AlignedLeast, Sizes
<1>6. PAGE_SIZE <= s
  <2>1. 0 % PAGE_SIZE = 0
    BY Sizes
  <2>2. 0 + PAGE_SIZE <= s
    BY <1>1, <1>4, <2>1, Sizes, MultiplesApart
  <2> QED BY <2>2, Sizes
<1>7. s \in Pages
  BY <1>4, <1>5, <1>6, PagesAre
<1>8. ASSUME NEW p \in Pages, p < s PROVE p < a
  <2>1. p \in Nat /\ p % PAGE_SIZE = 0
    BY PagesAre
  <2>2. p < v
    BY <1>1, <1>2, <1>8, <2>1, AlignedLeast
  <2> QED BY <1>3, <2>2
<1> QED BY <1>1, <1>4, <1>7, <1>8 DEF s

-----------------------------------------------------------------------------
(* The inductive invariant.                                                *)
Words == {nullptr} \cup Pages

BootTypeOK ==
    /\ sections \in SectionTables /\ entries \in MemoryMaps
    /\ section \in 1..(Len(sections) + 1) /\ entry \in 1..(Len(entries) + 1)
    /\ spans \in Seq([address : Nat, size : Nat \ {0}])
    /\ \A j \in 1..Len(spans) : SpanEnd(j) <= Room
    /\ page_head \in Words /\ page_tail \in Words /\ count \in Nat
    /\ word \in [Pages -> Words]
    /\ curr_address \in Pages \cup {None}
    /\ search \in 0..Limit \cup {None}
    /\ linked \in Seq(Pages)
    /\ dropped \in BOOLEAN /\ outside \in BOOLEAN

(* The sections are all parsed before the first entry of the map, and a    *)
(* search goes forward from the beginning of a usable entry.               *)
PhasesOK ==
    /\ section <= Len(sections) => entry = 1 /\ search = None /\ linked = <<>>
    /\ curr_address # None => search # None /\ curr_address + PAGE_SIZE <= search
    /\ search # None => /\ section > Len(sections) /\ entry <= Len(entries)
                        /\ entries[entry].type = 1 /\ entries[entry].address <= search

(* A span holds each section parsed so far.                                *)
InSpan(i) ==
    \E j \in 1..Len(spans) : /\ spans[j].address <= sections[i].address
                             /\ sections[i].address + sections[i].size <= SpanEnd(j)

SectionsInSpans ==
    ~dropped => \A i \in 1..Len(sections) :
                    i < section /\ sections[i].size > 0 => InSpan(i)

LinkedClear == \A p \in Linked : Meets(p) = {}

(* The search passes no page by that it should link.                       *)
FreeOf(e, p) ==
    /\ entries[e].type = 1 /\ entries[e].address <= p
    /\ p + PAGE_SIZE <= entries[e].address + entries[e].size
    /\ Meets(p) = {}

SearchedLinked ==
    /\ \A e \in 1..Len(entries) : \A p \in Pages : e < entry /\ FreeOf(e, p) => p \in Linked
    /\ search # None => \A p \in Pages : p < search /\ FreeOf(entry, p) => p \in Linked

(* As long as no page was linked outside its entry, those linked are a     *)
(* list whose last link is the one being written.                          *)
FromEntry(e, p) ==
    /\ entries[e].type = 1 /\ entries[e].address <= p
    /\ p + PAGE_SIZE <= entries[e].address + entries[e].size
    /\ e <= entry /\ (e = entry => curr_address # None /\ p <= curr_address)

FromEntries ==
    \A k \in 1..Len(linked) : \E e \in 1..Len(entries) : FromEntry(e, linked[k])

LinksOK ==
    /\ \A j, k \in 1..Len(linked) : linked[j] = linked[k] => j = k
    /\ count = Len(linked)
    /\ page_head = IF linked = <<>> THEN nullptr ELSE linked[1]
    /\ \A k \in 1..Len(linked) : k < Len(linked) => word[linked[k]] = linked[k + 1]

TailOK ==
    IF curr_address = None
    THEN linked # <<>> => page_tail = linked[Len(linked)] /\ word[page_tail] = nullptr
    ELSE linked # <<>> /\ curr_address = linked[Len(linked)]

Chained == ~outside => FromEntries /\ LinksOK /\ TailOK

BootInv == BootTypeOK /\ PhasesOK /\ SectionsInSpans /\ LinkedClear /\ SearchedLinked

LEMMA TableFacts ==
    ASSUME BootTypeOK
    PROVE  /\ Len(sections) \in Nat /\ Len(entries) \in Nat /\ Len(spans) \in Nat
           /\ \A i \in 1..Len(sections) :
                /\ sections[i].address \in Nat /\ sections[i].size \in Nat
                /\ sections[i].address + sections[i].size <= Room
           /\ \A e \in 1..Len(entries) :
                /\ entries[e].address \in Nat /\ entries[e].size \in Nat /\ entries[e].type \in Nat
                /\ entries[e].address + entries[e].size <= Limit
           /\ \A j \in 1..Len(spans) :
                /\ spans[j].address \in Nat /\ spans[j].size \in Nat \ {0}
                /\ SpanEnd(j) \in Nat \ {0} /\ SpanEnd(j) <= Room
<1>1. sections \in Seq(Span) /\ entries \in Seq([address : Nat, size : Nat, type : Nat])
  BY BootAssumption DEF BootTypeOK
<1>2. ASSUME NEW i \in 1..Len(sections)
      PROVE  /\ sections[i].address \in Nat /\ sections[i].size \in Nat
             /\ sections[i].address + sections[i].size <= Room
  <2>1. sections[i] \in Span
    BY <1>1, ElementOfSeq
  <2> QED BY <2>1, Sizes, RoomAssumption DEF Span, BootTypeOK, Room
<1>3. ASSUME NEW e \in 1..Len(entries)
      PROVE  /\ entries[e].address \in Nat /\ entries[e].size \in Nat /\ entries[e].type \in Nat
             /\ entries[e].address + entries[e].size <= Limit
  <2>1. entries[e] \in [address : Nat, size : Nat, type : Nat]
    BY <1>1, ElementOfSeq
  <2> QED BY <2>1, RoomAssumption DEF BootTypeOK, Limit
<1>4. ASSUME NEW j \in 1..Len(spans)
      PROVE  /\ spans[j].address \in Nat /\ spans[j].size \in Nat \ {0}
             /\ SpanEnd(j) \in Nat \ {0} /\ SpanEnd(j) <= Room
  <2>1. spans[j] \in [address : Nat, size : Nat \ {0}]
    BY ElementOfSeq DEF BootTypeOK
  <2> QED BY <2>1 DEF SpanEnd, BootTypeOK
<1>5. Len(sections) \in Nat /\ Len(entries) \in Nat /\ Len(spans) \in Nat
  BY <1>1 DEF BootTypeOK
<1> QED BY <1>2, <1>3, <1>4, <1>5

(* A page that is not free is passed to the search with an end of a span   *)
(* it meets.                                                               *)
LEMMA MeetsFacts ==
    ASSUME BootTypeOK, NEW a \in Nat
    PROVE  /\ ok_address(a) = 0 <=> Meets(a) = {}
           /\ Meets(a) # {} =>
                \E j \in 1..Len(spans) : /\ ok_address(a) = SpanEnd(j)
                                         /\ a <= SpanEnd(j) /\ spans[j].address <= a + PAGE_SIZE
<1>1. ASSUME Meets(a) # {}
      PROVE  \E j \in 1..Len(spans) : /\ ok_address(a) = SpanEnd(j)
                                      /\ a <= SpanEnd(j) /\ spans[j].address <= a + PAGE_SIZE
  <2>1. Meets(a) \in SUBSET Nat
    BY TableFacts DEF Meets
  <2>2. \E j \in Meets(a) : \A k \in Meets(a) : j <= k
    BY <1>1, <2>1, LeastElement
  <2>3. Min(Meets(a)) \in Meets(a)
    BY <2>2 DEF Min
  <2>4. ok_address(a) = SpanEnd(Min(Meets(a)))
    BY <1>1 DEF ok_address
  <2> QED BY <2>3, <2>4 DEF Meets
<1>2. Meets(a) = {} => ok_address(a) = 0
  BY DEF ok_address
<1>3. Meets(a) # {} => ok_address(a) # 0
  BY <1>1, TableFacts
<1> QED BY <1>1, <1>2, <1>3

LEMMA InvInit == BootInit => BootInv /\ Chained
<1> SUFFICES ASSUME BootInit PROVE BootInv /\ Chained
  OBVIOUS
<1> USE DEF BootInit
<1>1. BootTypeOK
  <2>1. sections \in Seq(Span) /\ entries \in Seq([address : Nat, size : Nat, type : Nat])
    BY BootAssumption
  <2>2. Len(sections) \in Nat /\ Len(entries) \in Nat
    BY <2>1
  <2>3. 1 \in 1..(Len(sections) + 1) /\ 1 \in 1..(Len(entries) + 1)
    BY <2>2
  <2>4. word \in [Pages -> Words] /\ page_head \in Words /\ page_tail \in Words
    BY DEF Words
  <2>5. /\ spans \in Seq([address : Nat, size : Nat \ {0}]) /\ linked \in Seq(Pages)
        /\ \A j \in 1..Len(spans) : SpanEnd(j) <= Room
    OBVIOUS
  <2> QED BY <2>3, <2>4, <2>5 DEF BootTypeOK
<1>2. PhasesOK /\ SectionsInSpans
  <2>1. Len(sections) \in Nat
    BY <1>1, TableFacts
  <2> QED BY <2>1 DEF PhasesOK, SectionsInSpans
<1>3. Linked = {}
  BY DEF Linked
<1>4. LinkedClear /\ SearchedLinked
  <2>1. Len(entries) \in Nat
    BY <1>1, TableFacts
  <2> QED BY <1>3, <2>1 DEF LinkedClear, SearchedLinked
<1>5. Chained
  BY DEF Chained, FromEntries, LinksOK, TailOK
<1> QED BY <1>1, <1>2, <1>4, <1>5 DEF BootInv

-----------------------------------------------------------------------------
(* The sections.                                                           *)
LEMMA Wrapped ==
    ASSUME NEW x \in Int, NEW w \in Nat \ {0}, -w < x, x < w
    PROVE  x % w = IF x >= 0 THEN x ELSE x + w
<1>1. CASE x >= 0
  BY <1>1
<1>2. CASE x < 0
  <2>1. x = w * (-1) + (x + w) /\ x + w \in 0..(w - 1)
    BY <1>2
  <2> QED BY <1>2, <2>1
<1> QED BY <1>1, <1>2

LEMMA SpanRecords ==
    ASSUME BootTypeOK, NEW j \in 1..Len(spans)
    PROVE  spans[j] \in [address : Nat, size : Nat \ {0}]
  BY ElementOfSeq DEF BootTypeOK

(* A section is joined to the last span only from behind, so that span     *)
(* then holds what it held and the section.                                *)
JoinsTo(s, t, n) ==
    /\ n \in 1..n /\ t \in Seq([address : Nat, size : Nat \ {0}]) /\ Len(t) = n
    /\ \A j \in 1..n : j # n => t[j] = spans[j]
    /\ t[n].address = spans[n].address /\ t[n].address <= s.address
    /\ t[n].address + t[n].size = s.address + s.size
    /\ SpanEnd(n) <= t[n].address + t[n].size

LEMMA JoinFacts ==
    ASSUME BootTypeOK, NEW s \in [address : Nat, size : Nat \ {0}],
           s.address + s.size <= Room, Follows(s)
    PROVE  JoinsTo(s, Joined(s), Len(spans))
<1>n. PICK n : n = Len(spans)
  OBVIOUS
<1>t. PICK t : t = Joined(s)
  OBVIOUS
<1>1. n \in Nat \ {0} /\ n \in 1..n
  <2>1. spans # <<>>
    BY DEF Follows
  <2> QED BY <1>n, <2>1, EmptySeq DEF BootTypeOK
<1>a. PICK a : a = s.address
  OBVIOUS
<1>b. PICK c : c = s.size
  OBVIOUS
<1>c. PICK e : e = SpanEnd(n)
  OBVIOUS
<1>d. PICK b : b = spans[n].address
  OBVIOUS
<1>e. PICK z : z = spans[n].size
  OBVIOUS
<1>2. /\ b \in Nat /\ z \in Nat \ {0} /\ e \in Nat /\ e <= Room /\ e = b + z
      /\ spans \in Seq([address : Nat, size : Nat \ {0}])
      /\ a \in Nat /\ c \in Nat \ {0} /\ a + c <= Room
  <2>1. spans \in Seq([address : Nat, size : Nat \ {0}]) /\ n \in 1..Len(spans)
    BY <1>1, <1>n DEF BootTypeOK
  <2>2. b \in Nat /\ z \in Nat \ {0} /\ e \in Nat /\ e <= Room
    BY <1>c, <1>d, <1>e, <2>1, TableFacts
  <2>3. e = b + z
    BY <1>c, <1>d, <1>e DEF SpanEnd
  <2> QED BY <1>a, <1>b, <2>1, <2>2, <2>3
<1>3. a - e \in Int /\ -Word64 < a - e /\ a - e < Word64 /\ Word64 \in Nat \ {0}
      /\ (a - e) + Word64 > PAGE_SIZE
  BY <1>2, Sizes
<1>f. PICK gap : gap = Gap(s)
  OBVIOUS
<1>4. gap = (a - e) % Word64 /\ gap <= PAGE_SIZE
  BY <1>a, <1>c, <1>f, <1>n DEF Gap, Follows
<1>5. (a - e) % Word64 = IF a - e >= 0 THEN a - e ELSE (a - e) + Word64
  <2>1. \A x \in Int : -Word64 < x /\ x < Word64 =>
            x % Word64 = IF x >= 0 THEN x ELSE x + Word64
    BY <1>3, Wrapped
  <2> QED BY <1>3, <2>1
<1>6. gap = a - e /\ a - e >= 0
  <2>1. CASE a - e >= 0
    BY <1>4, <1>5, <2>1
  <2>2. CASE ~(a - e >= 0)
    <3>1. gap = (a - e) + Word64
      BY <1>4, <1>5, <2>2
    <3> QED BY <1>2, <1>3, <1>4, <3>1, Sizes
  <2> QED BY <2>1, <2>2
<1>7. e <= a /\ gap \in Nat /\ z + c + gap \in Nat \ {0} /\ b + (z + c + gap) = a + c
      /\ e <= a + c /\ b <= a
  BY <1>2, <1>6
<1>g. PICK last : last = [address |-> b, size |-> z + c + gap]
  OBVIOUS
<1>8. last \in [address : Nat, size : Nat \ {0}] /\ last.address = b
      /\ last.size = z + c + gap
  BY <1>2, <1>7, <1>g
<1>9. t = [spans EXCEPT ![n] = last]
  <2>1. spans[n] \in [address : Nat, size : Nat \ {0}]
    <3>1. n \in 1..Len(spans)
      BY <1>1, <1>n
    <3> QED BY <3>1, SpanRecords
  <2>2. [spans[n] EXCEPT !.size = @ + s.size + Gap(s)] = last
    BY <1>b, <1>d, <1>e, <1>f, <1>g, <2>1
  <2>3. t = [spans EXCEPT ![n] = [spans[n] EXCEPT !.size = @ + s.size + Gap(s)]]
    BY <1>n, <1>t DEF Joined
  <2> QED BY <2>2, <2>3
<1>10. t \in Seq([address : Nat, size : Nat \ {0}]) /\ Len(t) = n
       /\ \A j \in 1..n : t[j] = IF j = n THEN last ELSE spans[j]
  <2>1. PICK R : R = [address : Nat, size : Nat \ {0}]
    OBVIOUS
  <2>2. spans \in Seq(R) /\ last \in R /\ n \in 1..Len(spans)
    BY <1>1, <1>2, <1>8, <1>n, <2>1
  <2>3. t \in Seq(R) /\ Len(t) = Len(spans)
        /\ \A j \in 1..Len(spans) : t[j] = IF j = n THEN last ELSE spans[j]
    BY <1>9, <2>2, ExceptSeq
  <2> QED BY <1>n, <2>1, <2>3
<1>11. t[n] = last
  BY <1>1, <1>10
<1>12. \A j \in 1..n : j # n => t[j] = spans[j]
  BY <1>10
<1>13. /\ t[n].address = spans[n].address /\ t[n].address <= s.address
       /\ t[n].address + t[n].size = s.address + s.size
       /\ SpanEnd(n) <= t[n].address + t[n].size
  BY <1>7, <1>8, <1>11, <1>a, <1>b, <1>c, <1>d
<1> QED BY <1>1, <1>10, <1>12, <1>13, <1>n, <1>t DEF JoinsTo

LEMMA ElfStep == BootInv /\ parse_elf => BootInv'
<1> SUFFICES ASSUME BootInv, parse_elf PROVE BootInv'
  OBVIOUS
<1>0. BootTypeOK /\ PhasesOK /\ SectionsInSpans
  BY DEF BootInv
<1>1. PICK s : s = sections[section]
  OBVIOUS
<1>2. /\ section <= Len(sections) /\ section \in 1..Len(sections) /\ section \in Nat
      /\ section' = section + 1
      /\ PRE_add_allocated_span(s)
      /\ sections' = sections /\ entries' = entries /\ entry' = entry
      /\ page_head' = page_head /\ page_tail' = page_tail /\ count' = count
      /\ word' = word /\ linked' = linked /\ outside' = outside
      /\ curr_address' = curr_address /\ search' = search
  <2>1. section \in Nat /\ section >= 1 /\ Len(sections) \in Nat
    BY <1>0, TableFacts DEF BootTypeOK
  <2> QED BY <1>1, <2>1 DEF parse_elf, freePages
<1>3. s.address \in Nat /\ s.size \in Nat /\ s.address + s.size <= Room
  BY <1>0, <1>1, <1>2, TableFacts
<1>12. s \in [address : Nat, size : Nat]
  <2>1. sections \in Seq(Span)
    BY <1>0, BootAssumption DEF BootTypeOK
  <2>2. s \in Span
    BY <1>1, <1>2, <2>1, ElementOfSeq
  <2> QED BY <1>3, <2>2 DEF Span
<1>4. linked = <<>> /\ search = None /\ curr_address = None /\ entry = 1
  BY <1>0, <1>2 DEF PhasesOK
(* What the spans hold after the step.                                     *)
<1> DEFINE Kept ==
        /\ spans' \in Seq([address : Nat, size : Nat \ {0}])
        /\ \A j \in 1..Len(spans') : spans'[j].address + spans'[j].size <= Room
        /\ Len(spans) <= Len(spans')
        /\ \A j \in 1..Len(spans) : /\ spans'[j].address = spans[j].address
                                    /\ SpanEnd(j) <= spans'[j].address + spans'[j].size
           Held == \E j \in 1..Len(spans') :
                        /\ spans'[j].address <= s.address
                        /\ s.address + s.size <= spans'[j].address + spans'[j].size
<1>5. /\ spans \in Seq([address : Nat, size : Nat \ {0}]) /\ Len(spans) \in Nat
      /\ \A j \in 1..Len(spans) : /\ SpanEnd(j) = spans[j].address + spans[j].size
                                  /\ SpanEnd(j) <= Room /\ SpanEnd(j) \in Nat
                                  /\ spans[j].address \in Nat
  BY <1>0, TableFacts DEF BootTypeOK, SpanEnd
<1>6. Kept /\ dropped' \in BOOLEAN /\ (~dropped' => ~dropped /\ (s.size > 0 => Held))
  <2>0. dropped \in BOOLEAN
    BY <1>0 DEF BootTypeOK
  <2>1. CASE s.size = 0
    <3>1. spans' = spans /\ dropped' = dropped
      BY <1>2, <2>1 DEF PRE_add_allocated_span
    <3> QED BY <1>3, <1>5, <2>0, <2>1, <3>1
  <2>2. CASE s.size > 0 /\ Follows(s)
    <3>1. spans' = Joined(s) /\ dropped' = dropped
      BY <1>2, <2>2 DEF PRE_add_allocated_span
    <3>a. PICK n : n = Len(spans)
      OBVIOUS
    <3>b. PICK t : t = Joined(s)
      OBVIOUS
    <3>2. JoinsTo(s, t, n)
      <4>1. s \in [address : Nat, size : Nat \ {0}] /\ s.address + s.size <= Room
        BY <1>3, <1>12, <2>2
      <4> QED BY <1>0, <2>2, <3>a, <3>b, <4>1, JoinFacts
    <3>3. spans' = t /\ Len(spans') = n /\ Len(spans) = n
      BY <3>1, <3>2, <3>a, <3>b DEF JoinsTo
    <3>4. ASSUME NEW j \in 1..n
          PROVE  /\ t[j].address + t[j].size <= Room
                 /\ t[j].address = spans[j].address
                 /\ SpanEnd(j) <= t[j].address + t[j].size
      <4>1. CASE j = n
        BY <1>3, <3>2, <4>1 DEF JoinsTo
      <4>2. CASE j # n
        <5>1. t[j] = spans[j] /\ j \in 1..Len(spans)
          BY <3>2, <3>3, <4>2 DEF JoinsTo
        <5>2. SpanEnd(j) = spans[j].address + spans[j].size /\ SpanEnd(j) <= Room /\ SpanEnd(j) \in Nat
          BY <1>5, <5>1
        <5> QED BY <5>1, <5>2
      <4> QED BY <4>1, <4>2
    <3>5. Kept
      BY <1>5, <3>2, <3>3, <3>4 DEF JoinsTo
    <3>6. Held
      <4>1. n \in 1..Len(spans') /\ spans'[n].address <= s.address
            /\ s.address + s.size <= spans'[n].address + spans'[n].size
        BY <1>3, <3>2, <3>3 DEF JoinsTo
      <4> QED BY <4>1
    <3> QED BY <2>0, <3>1, <3>5, <3>6
  <2>3. CASE s.size > 0 /\ ~Follows(s)
    <3>1. IF Len(spans) < AVOID_REGION_COUNT
          THEN spans' = Append(spans, s) /\ dropped' = dropped
          ELSE dropped' = TRUE /\ spans' = spans
      BY <1>2, <2>3 DEF PRE_add_allocated_span
    <3>2. CASE spans' = spans /\ dropped'
      <4>1. Kept
        BY <1>5, <3>2
      <4> QED BY <3>1, <3>2, <4>1
    <3>3. CASE spans' = Append(spans, s) /\ dropped' = dropped
      <4>1. s \in [address : Nat, size : Nat \ {0}]
        BY <1>3, <1>12, <2>3
      <4>2. /\ spans' \in Seq([address : Nat, size : Nat \ {0}])
            /\ Len(spans') = Len(spans) + 1
            /\ \A j \in 1..Len(spans) : spans'[j] = spans[j]
            /\ spans'[Len(spans) + 1] = s
        BY <1>5, <3>3, <4>1, AppendProperties
      <4>3. ASSUME NEW j \in 1..Len(spans') PROVE spans'[j].address + spans'[j].size <= Room
        <5>1. CASE j \in 1..Len(spans)
          BY <1>5, <4>2, <5>1
        <5>2. CASE j = Len(spans) + 1
          BY <1>3, <4>2, <5>2
        <5> QED BY <1>5, <4>2, <5>1, <5>2
      <4>4. ASSUME NEW j \in 1..Len(spans)
            PROVE  /\ spans'[j].address = spans[j].address
                   /\ SpanEnd(j) <= spans'[j].address + spans'[j].size
        <5>1. SpanEnd(j) = spans[j].address + spans[j].size /\ SpanEnd(j) \in Nat
          BY <1>5
        <5> QED BY <4>2, <5>1
      <4>5. Kept
        <5>1. Len(spans) <= Len(spans')
          BY <1>5, <4>2
        <5> QED BY <4>2, <4>3, <4>4, <5>1
      <4>6. Held
        <5>1. Len(spans) + 1 \in 1..Len(spans')
          BY <1>5, <4>2
        <5>2. spans'[Len(spans) + 1].address <= s.address
              /\ s.address + s.size <= spans'[Len(spans) + 1].address + spans'[Len(spans) + 1].size
          BY <1>3, <4>2
        <5> QED BY <5>1, <5>2
      <4> QED BY <2>0, <3>3, <4>5, <4>6
    <3> QED BY <3>1, <3>2, <3>3
  <2> QED BY <1>3, <2>1, <2>2, <2>3
<1>7. BootTypeOK'
  <2>1. section' \in 1..(Len(sections) + 1)
    BY <1>0, <1>2, TableFacts DEF BootTypeOK
  <2>2. \A j \in 1..Len(spans') : SpanEnd(j)' <= Room
    BY <1>6 DEF SpanEnd
  <2> QED BY <1>0, <1>2, <1>6, <2>1, <2>2 DEF BootTypeOK
<1>8. PhasesOK'
  BY <1>2, <1>4 DEF PhasesOK
<1>9. SectionsInSpans'
  <2> SUFFICES ASSUME ~dropped', NEW i \in 1..Len(sections), i < section + 1,
                      sections[i].size > 0
               PROVE  InSpan(i)'
    BY <1>2 DEF SectionsInSpans
  <2>1. CASE i < section
    <3>1. InSpan(i)
      BY <1>0, <1>6, <2>1 DEF SectionsInSpans
    <3>2. PICK j \in 1..Len(spans) :
                /\ spans[j].address <= sections[i].address
                /\ sections[i].address + sections[i].size <= SpanEnd(j)
      BY <3>1 DEF InSpan
    <3>3. j \in 1..Len(spans')
      <4>1. Len(spans') \in Nat
        BY <1>6
      <4> QED BY <1>5, <1>6, <4>1
    <3>4. SpanEnd(j)' = spans'[j].address + spans'[j].size
      BY DEF SpanEnd
    <3>5. spans'[j].address \in Nat /\ spans'[j].size \in Nat
      <4>1. spans'[j] \in [address : Nat, size : Nat \ {0}]
        BY <1>6, <3>3, ElementOfSeq
      <4> QED BY <4>1
    <3>6. sections[i].address + sections[i].size <= SpanEnd(j)'
          /\ spans'[j].address <= sections[i].address
      <4>1. sections[i].address \in Nat /\ sections[i].size \in Nat /\ SpanEnd(j) \in Nat
        BY <1>0, TableFacts
      <4>2. spans'[j].address = spans[j].address
            /\ SpanEnd(j) <= spans'[j].address + spans'[j].size
        BY <1>6
      <4> QED BY <3>2, <3>4, <3>5, <4>1, <4>2
    <3> QED BY <1>2, <3>3, <3>6 DEF InSpan
  <2>2. CASE ~(i < section)
    <3>1. i = section
      BY <1>2, <2>2
    <3>2. sections[i] = s /\ Held
      BY <1>1, <1>6, <3>1
    <3> QED BY <1>2, <3>2 DEF InSpan, SpanEnd
  <2> QED BY <2>1, <2>2
<1>10. Linked' = {}
  BY <1>2, <1>4 DEF Linked
<1>11. LinkedClear' /\ SearchedLinked'
  <2>1. \A e \in 1..Len(entries) : ~(e < 1)
    BY <1>0, TableFacts
  <2> QED BY <1>2, <1>4, <1>10, <2>1 DEF LinkedClear, SearchedLinked
<1> QED BY <1>7, <1>8, <1>9, <1>11 DEF BootInv

-----------------------------------------------------------------------------
(* The memory map.                                                         *)
LEMMA MapStep == BootInv /\ parse_mem_map => BootInv'
<1> SUFFICES ASSUME BootInv, parse_mem_map PROVE BootInv'
  OBVIOUS
<1>0. BootTypeOK /\ PhasesOK /\ SectionsInSpans /\ LinkedClear /\ SearchedLinked
  BY DEF BootInv
<1>1. /\ section > Len(sections) /\ entry <= Len(entries) /\ search = None
      /\ sections' = sections /\ entries' = entries /\ section' = section
      /\ spans' = spans /\ dropped' = dropped
      /\ page_head' = page_head /\ page_tail' = page_tail /\ count' = count
      /\ word' = word /\ linked' = linked /\ outside' = outside
      /\ curr_address' = curr_address
  BY DEF parse_mem_map, freePages
<1>2. entry \in 1..Len(entries) /\ entry \in Nat /\ Len(entries) \in Nat
      /\ section \in Nat /\ Len(sections) \in Nat
  BY <1>0, <1>1, TableFacts DEF BootTypeOK
<1>3. curr_address = None /\ None \notin Nat
  BY <1>0, <1>1, Sizes DEF PhasesOK
<1>4. /\ SectionsInSpans' /\ LinkedClear' /\ Linked' = Linked
      /\ \A e, p : FreeOf(e, p)' <=> FreeOf(e, p)
  BY <1>0, <1>1 DEF SectionsInSpans, LinkedClear, Linked, FreeOf, InSpan, Meets, SpanEnd
<1>5. CASE entries[entry].type = 1
  <2>1. search' = align_page_size(entries[entry].address) /\ entry' = entry
    BY <1>5 DEF parse_mem_map
  <2>a. PICK a : a = entries[entry].address
    OBVIOUS
  <2>2. a \in Nat /\ a <= Limit
    <3>1. /\ a \in Nat /\ entries[entry].size \in Nat /\ a + entries[entry].size <= Limit
      BY <1>0, <1>2, <2>a, TableFacts
    <3> QED BY <3>1, Sizes
  <2>3. align_page_size(a) \in Nat /\ a <= align_page_size(a) /\ align_page_size(a) <= Limit
    BY <2>2, Aligned, AlignedLeast, Sizes
  <2>4. search' \in 0..Limit /\ search' # None /\ a <= search'
    BY <1>3, <2>1, <2>3, <2>a, Sizes
  <2>5. BootTypeOK'
    BY <1>0, <1>1, <2>1, <2>4 DEF BootTypeOK, SpanEnd
  <2>6. PhasesOK'
    BY <1>1, <1>2, <1>3, <1>5, <2>1, <2>4, <2>a DEF PhasesOK
  <2>7. ASSUME NEW p \in Pages, p < search', FreeOf(entry, p) PROVE FALSE
    <3>1. p \in Nat /\ p % PAGE_SIZE = 0 /\ p < align_page_size(a)
      BY <2>1, <2>7, <2>a, PagesAre
    <3>2. p < a
      BY <2>2, <3>1, AlignedLeast
    <3>3. a <= p
      BY <2>7, <2>a DEF FreeOf
    <3> QED BY <2>2, <3>1, <3>2, <3>3
  <2>8. SearchedLinked'
    BY <1>0, <1>1, <1>4, <2>1, <2>7 DEF SearchedLinked
  <2> QED BY <1>4, <2>5, <2>6, <2>8 DEF BootInv
<1>6. CASE entries[entry].type # 1
  <2>1. search' = None /\ entry' = entry + 1
    BY <1>1, <1>6 DEF parse_mem_map
  <2>2. entry' \in 1..(Len(entries) + 1)
    BY <1>2, <2>1
  <2>3. BootTypeOK'
    BY <1>0, <1>1, <2>1, <2>2 DEF BootTypeOK, SpanEnd
  <2>4. PhasesOK'
    BY <1>1, <1>2, <1>3, <2>1 DEF PhasesOK
  <2>5. ASSUME NEW e \in 1..Len(entries), NEW p \in Pages, e < entry + 1, FreeOf(e, p)
        PROVE  p \in Linked
    <3>1. e < entry \/ e = entry
      BY <1>2, <2>5
    <3>2. e # entry
      BY <1>6, <2>5 DEF FreeOf
    <3> QED BY <1>0, <2>5, <3>1, <3>2 DEF SearchedLinked
  <2>6. SearchedLinked'
    BY <1>1, <1>4, <2>1, <2>5 DEF SearchedLinked
  <2> QED BY <1>4, <2>3, <2>4, <2>6 DEF BootInv
<1> QED BY <1>5, <1>6

-----------------------------------------------------------------------------
(* The search for pages.  A page that meets a span is passed by with all   *)
(* the others that meet it.                                                *)
LEMMA JumpStep ==
    ASSUME BootInv, search # None, ok_address(Start(search)) # 0,
           search' = align_page_size(ok_address(Start(search))),
           UNCHANGED <<sections, entries, section, entry, spans, dropped, freePages, curr_address>>
    PROVE  BootInv'
<1>0. BootTypeOK /\ PhasesOK /\ SectionsInSpans /\ LinkedClear /\ SearchedLinked
  BY DEF BootInv
<1>1. /\ sections' = sections /\ entries' = entries /\ section' = section /\ entry' = entry
      /\ spans' = spans /\ dropped' = dropped
      /\ page_head' = page_head /\ page_tail' = page_tail /\ count' = count
      /\ word' = word /\ linked' = linked /\ outside' = outside
      /\ curr_address' = curr_address
  BY DEF freePages
<1>a. PICK a : a = Start(search)
  OBVIOUS
<1>2. search \in 0..Limit /\ search \in Nat
  BY <1>0, Sizes DEF BootTypeOK
<1>3. a \in Pages /\ search <= a /\ (\A p \in Pages : p < a => p < search)
      /\ a \in Nat /\ a % PAGE_SIZE = 0
  BY <1>2, <1>a, StartFacts, PagesAre
<1>4. Meets(a) # {}
  BY <1>0, <1>3, <1>a, MeetsFacts
<1>5. PICK j \in 1..Len(spans) : /\ ok_address(a) = SpanEnd(j)
                                 /\ a <= SpanEnd(j) /\ spans[j].address <= a + PAGE_SIZE
  BY <1>0, <1>3, <1>4, MeetsFacts
<1>b. PICK b : b = SpanEnd(j)
  OBVIOUS
<1>6. b \in Nat /\ b <= Limit /\ a <= b /\ spans[j].address \in Nat
  <2>1. b \in Nat /\ b <= Room /\ spans[j].address \in Nat
    BY <1>0, <1>b, TableFacts
  <2> QED BY <1>5, <1>b, <2>1, Sizes
<1>7. search' = align_page_size(b) /\ search' \in Nat /\ b <= search' /\ search' <= Limit
  BY <1>5, <1>6, <1>a, <1>b, Aligned, AlignedLeast, Sizes
<1>8. search <= search' /\ search' \in 0..Limit /\ search' # None
  BY <1>2, <1>3, <1>6, <1>7, Sizes
<1>9. BootTypeOK'
  BY <1>0, <1>1, <1>8 DEF BootTypeOK, SpanEnd
<1>10. PhasesOK'
  <2>1. /\ entry \in 1..Len(entries)
        /\ section > Len(sections) /\ entry <= Len(entries)
        /\ entries[entry].type = 1 /\ entries[entry].address <= search
    BY <1>0, TableFacts DEF PhasesOK, BootTypeOK
  <2>2. entries[entry].address \in Nat
    BY <1>0, <2>1, TableFacts
  <2>3. entries[entry].address <= search'
    BY <1>2, <1>7, <1>8, <2>1, <2>2
  <2>4. section \in Nat /\ Len(sections) \in Nat
    BY <1>0, TableFacts DEF BootTypeOK
  <2>5. curr_address # None => curr_address + PAGE_SIZE <= search'
    <3>1. ASSUME curr_address # None PROVE curr_address + PAGE_SIZE <= search'
      <4>1. curr_address \in Nat /\ curr_address + PAGE_SIZE <= search
        BY <1>0, <3>1, PagesAre DEF BootTypeOK, PhasesOK
      <4> QED BY <1>2, <1>7, <1>8, <4>1, Sizes
    <3> QED BY <3>1
  <2> QED BY <1>1, <1>8, <2>1, <2>3, <2>4, <2>5 DEF PhasesOK
<1>11. /\ SectionsInSpans' /\ LinkedClear' /\ Linked' = Linked
       /\ \A e, p : FreeOf(e, p)' <=> FreeOf(e, p)
  BY <1>0, <1>1 DEF SectionsInSpans, LinkedClear, Linked, FreeOf, InSpan, Meets, SpanEnd
<1>12. ASSUME NEW p \in Pages, p < search', FreeOf(entry, p) PROVE p \in Linked
  <2>1. p \in Nat /\ p % PAGE_SIZE = 0
    BY PagesAre
  <2>2. CASE p < a
    BY <1>0, <1>3, <1>12, <2>2 DEF SearchedLinked
  <2>3. CASE ~(p < a)
    <3>1. a <= p
      BY <1>3, <2>1, <2>3
    <3>2. p < b
      BY <1>6, <1>7, <1>12, <2>1, AlignedLeast
    <3>3. p <= SpanEnd(j) /\ spans[j].address <= p + PAGE_SIZE
      BY <1>3, <1>5, <1>6, <1>b, <2>1, <3>1, <3>2, Sizes
    <3>4. j \in Meets(p)
      BY <3>3 DEF Meets
    <3> QED BY <1>12, <3>4 DEF FreeOf
  <2> QED BY <2>2, <2>3
<1>13. SearchedLinked'
  BY <1>0, <1>1, <1>11, <1>12 DEF SearchedLinked
<1> QED BY <1>9, <1>10, <1>11, <1>13 DEF BootInv

(* The pages of the entry up to the one the search stopped at.             *)
LEMMA PassedBy ==
    ASSUME BootInv, search # None, NEW p, p = Start(search),
           NEW q \in Pages, FreeOf(entry, q)
    PROVE  /\ q < p => q \in Linked
           /\ q < p + PAGE_SIZE => q \in Linked \/ q = p
<1>1. search \in 0..Limit
  BY DEF BootInv, BootTypeOK
<1>2. p \in Pages /\ \A r \in Pages : r < p => r < search
  BY <1>1, StartFacts
<1>3. p \in Nat /\ q \in Nat /\ p % PAGE_SIZE = 0 /\ q % PAGE_SIZE = 0
  BY <1>2, PagesAre
<1>4. q < p => q \in Linked
  BY <1>2 DEF BootInv, SearchedLinked
<1>5. q > p => q >= p + PAGE_SIZE
  BY <1>3, MultiplesApart, Sizes
<1> QED BY <1>3, <1>4, <1>5, Sizes

(* A page that was found is linked, or is too far and ends the entry.      *)
LEMMA FoundStep ==
    ASSUME BootInv, search # None, NEW p, p = Start(search), Meets(p) = {},
           NEW end, end = EndOfEntry,
           UNCHANGED <<sections, entries, section, spans, dropped>>,
           page_head' \in Words, page_tail' \in Words, count' \in Nat,
           word' \in [Pages -> Words], outside' \in BOOLEAN,
           \/ /\ p + PAGE_SIZE <= end /\ linked' = Append(linked, p)
              /\ curr_address' = p /\ search' = p + PAGE_SIZE /\ entry' = entry
           \/ /\ ~(p + PAGE_SIZE <= end) /\ linked' \in {linked, Append(linked, p)}
              /\ curr_address' = None /\ search' = None /\ entry' = entry + 1
    PROVE  BootInv'
<1>0. BootTypeOK /\ PhasesOK /\ SectionsInSpans /\ LinkedClear /\ SearchedLinked
  BY DEF BootInv
<1>1. /\ sections' = sections /\ entries' = entries /\ section' = section
      /\ spans' = spans /\ dropped' = dropped
  OBVIOUS
<1>2. search \in 0..Limit /\ search \in Nat /\ p \in Pages /\ search <= p /\ p \in Nat
      /\ p % PAGE_SIZE = 0
  <2>1. search \in 0..Limit
    BY <1>0 DEF BootTypeOK
  <2> QED BY <2>1, StartFacts, PagesAre, Sizes
<1>3. /\ entry \in 1..Len(entries) /\ entry \in Nat /\ Len(entries) \in Nat
      /\ section \in Nat /\ Len(sections) \in Nat /\ section > Len(sections)
      /\ entries[entry].type = 1 /\ entries[entry].address <= search
      /\ entries[entry].address \in Nat /\ entries[entry].size \in Nat
      /\ end = entries[entry].address + entries[entry].size /\ end <= Limit /\ end \in Nat
  <2>1. /\ entry \in 1..Len(entries) /\ entry \in Nat /\ Len(entries) \in Nat
        /\ section \in Nat /\ Len(sections) \in Nat /\ section > Len(sections)
        /\ entries[entry].type = 1 /\ entries[entry].address <= search
    BY <1>0, TableFacts DEF BootTypeOK, PhasesOK
  <2>2. /\ entries[entry].address \in Nat /\ entries[entry].size \in Nat
        /\ entries[entry].address + entries[entry].size <= Limit
    BY <1>0, <2>1, TableFacts
  <2> QED BY <2>1, <2>2 DEF EndOfEntry
<1>4. linked \in Seq(Pages) /\ linked' \in Seq(Pages)
      /\ Linked' \in {Linked, Linked \cup {p}}
      /\ (linked' = Append(linked, p) => Linked' = Linked \cup {p})
  <2>1. linked \in Seq(Pages)
    BY <1>0 DEF BootTypeOK
  <2>2. CASE linked' = linked /\ linked' # Append(linked, p)
    BY <2>1, <2>2 DEF Linked
  <2>3. CASE linked' = Append(linked, p)
    <3>1. /\ linked' \in Seq(Pages) /\ Len(linked') = Len(linked) + 1 /\ Len(linked) \in Nat
          /\ \A k \in 1..Len(linked) : linked'[k] = linked[k]
          /\ linked'[Len(linked) + 1] = p
      BY <1>2, <2>1, <2>3, AppendProperties
    <3>2. Linked' = Linked \cup {p}
      BY <3>1 DEF Linked
    <3> QED BY <2>1, <3>1, <3>2
  <2> QED BY <2>2, <2>3
<1>5. /\ SectionsInSpans' /\ (\A e, q : FreeOf(e, q)' <=> FreeOf(e, q))
      /\ \A q : Meets(q)' = Meets(q)
  BY <1>0, <1>1 DEF SectionsInSpans, FreeOf, InSpan, Meets, SpanEnd
<1>6. LinkedClear'
  BY <1>0, <1>4, <1>5 DEF LinkedClear
<1>7. CASE /\ p + PAGE_SIZE <= end /\ linked' = Append(linked, p)
           /\ curr_address' = p /\ search' = p + PAGE_SIZE /\ entry' = entry
  <2>a. PICK next : next = p + PAGE_SIZE
    OBVIOUS
  <2>b. PICK from : from = search
    OBVIOUS
  <2>c. PICK a : a = entries[entry].address
    OBVIOUS
  <2>0. /\ next \in Nat /\ next <= Limit /\ from \in Nat /\ from <= next
        /\ a \in Nat /\ a <= next
    <3>1. p \in Nat /\ from \in Nat /\ from <= p /\ a \in Nat /\ a <= from
      BY <1>2, <1>3, <2>b, <2>c
    <3>2. p + PAGE_SIZE <= end /\ end <= Limit /\ end \in Nat
      BY <1>3, <1>7
    <3>3. PAGE_SIZE \in Nat /\ Limit \in Nat
      BY Sizes
    <3> QED BY <2>a, <3>1, <3>2, <3>3
  <2>1. search' = next /\ search' \in 0..Limit /\ search' # None /\ search <= search'
    BY <1>7, <2>0, <2>a, <2>b, Sizes
  <2>2. BootTypeOK'
    BY <1>0, <1>1, <1>2, <1>4, <1>7, <2>1 DEF BootTypeOK, SpanEnd
  <2>3. PhasesOK'
    <3>1. entries[entry].address <= search'
      BY <2>0, <2>1, <2>c
    <3>2. curr_address' + PAGE_SIZE <= search'
      BY <1>2, <1>7, Sizes
    <3> QED BY <1>1, <1>3, <1>7, <2>1, <3>1, <3>2 DEF PhasesOK
  <2>4. SearchedLinked'
    <3>1. ASSUME NEW q \in Pages, q < search', FreeOf(entry, q) PROVE q \in Linked'
      BY <1>4, <1>7, <3>1, PassedBy
    <3> QED BY <1>0, <1>1, <1>4, <1>5, <1>7, <3>1 DEF SearchedLinked
  <2> QED BY <1>5, <1>6, <2>2, <2>3, <2>4 DEF BootInv
<1>8. CASE /\ ~(p + PAGE_SIZE <= end) /\ linked' \in {linked, Append(linked, p)}
           /\ curr_address' = None /\ search' = None /\ entry' = entry + 1
  <2>1. BootTypeOK'
    <3>1. entry' \in 1..(Len(entries) + 1)
      BY <1>3, <1>8
    <3> QED BY <1>0, <1>1, <1>4, <1>8, <3>1 DEF BootTypeOK, SpanEnd
  <2>2. PhasesOK'
    BY <1>1, <1>3, <1>8 DEF PhasesOK
  <2>3. SearchedLinked'
    <3>1. ASSUME NEW e \in 1..Len(entries), NEW q \in Pages, e < entry + 1, FreeOf(e, q)
          PROVE  q \in Linked
      <4>1. CASE e < entry
        BY <1>0, <3>1, <4>1 DEF SearchedLinked
      <4>2. CASE e = entry
        <5>1. q + PAGE_SIZE <= end /\ q \in Nat
          BY <1>3, <3>1, <4>2, PagesAre DEF FreeOf
        <5>2. q < p
          BY <1>2, <1>3, <1>8, <5>1, Sizes
        <5> QED BY <3>1, <4>2, <5>2, PassedBy
      <4> QED BY <1>3, <3>1, <4>1, <4>2
    <3> QED BY <1>1, <1>4, <1>5, <1>8, <3>1 DEF SearchedLinked
  <2> QED BY <1>5, <1>6, <2>1, <2>2, <2>3 DEF BootInv
<1> QED BY <1>7, <1>8

LEMMA FindStep == BootInv /\ find_free_page => BootInv'
<1> SUFFICES ASSUME BootInv, find_free_page PROVE BootInv'
  OBVIOUS
<1>0. BootTypeOK
  BY DEF BootInv
<1>1. search # None /\ UNCHANGED <<sections, entries, section, spans, dropped>>
  BY DEF find_free_page
<1>2. CASE /\ ok_address(Start(search)) # 0
           /\ search' = align_page_size(ok_address(Start(search)))
           /\ UNCHANGED <<entry, freePages, curr_address>>
  BY <1>1, <1>2, JumpStep
<1>3. CASE /\ ok_address(Start(search)) = 0
           /\ IF curr_address = None THEN LinkFirst(Start(search)) ELSE LinkNext(Start(search))
  <2>p. PICK p : p = Start(search)
    OBVIOUS
  <2>e. PICK end : end = EndOfEntry
    OBVIOUS
  <2>1. p \in Pages /\ p \in Nat
    BY <1>0, <1>1, <2>p, StartFacts, PagesAre DEF BootTypeOK
  <2>2. Meets(p) = {}
    BY <1>0, <1>3, <2>1, <2>p, MeetsFacts
  <2>3. /\ page_head \in Words /\ page_tail \in Words /\ count \in Nat
        /\ word \in [Pages -> Words] /\ outside \in BOOLEAN
        /\ curr_address \in Pages \cup {None}
        /\ p \in Words /\ nullptr \in Words
    BY <1>0, <2>1 DEF BootTypeOK, Words
  <2>4. CASE curr_address = None /\ LinkFirst(p)
    <3>1. word' \in [Pages -> Words] /\ page_head' \in Words
      BY <2>3, <2>4 DEF LinkFirst
    <3>2. page_tail' \in Words /\ count' \in Nat /\ linked' = Append(linked, p)
      BY <2>3, <2>4 DEF LinkFirst
    <3>3. outside' \in BOOLEAN
      BY <2>4 DEF LinkFirst, FoundOutside
    <3>4. \/ /\ p + PAGE_SIZE <= end
             /\ curr_address' = p /\ search' = p + PAGE_SIZE /\ entry' = entry
          \/ /\ ~(p + PAGE_SIZE <= end)
             /\ curr_address' = None /\ search' = None /\ entry' = entry + 1
      BY <2>4, <2>e DEF LinkFirst, SearchOrEnd, EndEntry
    <3> QED BY <1>1, <2>2, <2>e, <2>p, <3>1, <3>2, <3>3, <3>4, FoundStep
  <2>5. CASE curr_address # None /\ LinkNext(p)
    <3>1. CASE /\ p + PAGE_SIZE <= end
               /\ word' = [word EXCEPT ![curr_address] = p]
               /\ count' = count + 1 /\ linked' = Append(linked, p)
               /\ UNCHANGED <<page_head, page_tail, outside>>
               /\ SearchOrEnd(p)
      <4>1. word' \in [Pages -> Words]
        BY <2>3, <3>1
      <4>2. page_head' \in Words /\ page_tail' \in Words /\ count' \in Nat /\ outside' \in BOOLEAN
        BY <2>3, <3>1
      <4>3. curr_address' = p /\ search' = p + PAGE_SIZE /\ entry' = entry
        BY <2>e, <3>1 DEF SearchOrEnd
      <4> QED BY <1>1, <2>2, <2>e, <2>p, <3>1, <4>1, <4>2, <4>3, FoundStep
    <3>2. CASE /\ p + PAGE_SIZE > end
               /\ word' = [word EXCEPT ![curr_address] = nullptr]
               /\ page_tail' = curr_address
               /\ UNCHANGED <<page_head, count, linked, outside>>
               /\ EndEntry
      <4>1. word' \in [Pages -> Words]
        BY <2>3, <3>2
      <4>2. page_head' \in Words /\ page_tail' \in Words /\ count' \in Nat /\ outside' \in BOOLEAN
        BY <2>3, <2>5, <3>2 DEF Words
      <4>3. curr_address' = None /\ search' = None /\ entry' = entry + 1
        BY <3>2 DEF EndEntry
      <4>4. ~(p + PAGE_SIZE <= end)
        <5>1. end \in Nat
          <6>1. entry \in 1..Len(entries)
            BY <1>0, <1>1, TableFacts DEF BootInv, BootTypeOK, PhasesOK
          <6>2. entries[entry].address \in Nat /\ entries[entry].size \in Nat
            BY <1>0, <6>1, TableFacts
          <6> QED BY <2>e, <6>2 DEF EndOfEntry
        <5>2. PAGE_SIZE \in Nat
          BY Sizes
        <5> QED BY <2>1, <3>2, <5>1, <5>2
      <4>5. linked' \in {linked, Append(linked, p)}
        BY <3>2
      <4> QED BY <1>1, <2>2, <2>e, <2>p, <4>1, <4>2, <4>3, <4>4, <4>5, FoundStep
    <3> QED BY <2>5, <2>e, <3>1, <3>2 DEF LinkNext
  <2> QED BY <1>3, <2>4, <2>5, <2>p
<1> QED BY <1>2, <1>3 DEF find_free_page

LEMMA InvStep == BootInv /\ [BootNext]_bootVars => BootInv'
<1> SUFFICES ASSUME BootInv, [BootNext]_bootVars PROVE BootInv'
  OBVIOUS
<1>1. CASE UNCHANGED bootVars
  <2> USE <1>1 DEF bootVars, tags, freePages
  <2>1. BootTypeOK' /\ PhasesOK'
    BY DEF BootInv, BootTypeOK, PhasesOK, SpanEnd
  <2>2. SectionsInSpans' /\ LinkedClear'
    BY DEF BootInv, SectionsInSpans, LinkedClear, InSpan, Meets, SpanEnd, Linked
  <2>3. SearchedLinked'
    BY DEF BootInv, SearchedLinked, FreeOf, Meets, SpanEnd, Linked
  <2> QED BY <2>1, <2>2, <2>3 DEF BootInv
<1> QED BY <1>1, ElfStep, MapStep, FindStep DEF BootNext

(* The tables stay in their bounds, the sections in the spans, the linked  *)
(* pages clear of them, and the search passes no free page by.             *)
THEOREM BootIsKept == BootSpec => []BootInv
BY InvInit, InvStep, PTL DEF BootSpec

-----------------------------------------------------------------------------
(* As long as no span was dropped, no byte of an ELF section is in a page  *)
(* on the list: PRE_add_allocated_span joins spans without losing any, and *)
(* find_free_page links no page that meets one.                            *)
THEOREM SectionsStay == BootSpec => []SectionsKept
<1>1. BootInv => SectionsKept
  <2> SUFFICES ASSUME BootInv, ~dropped, NEW p \in Linked, NEW i \in 1..Len(sections),
                      sections[i].size > 0
               PROVE  \/ p + PAGE_SIZE <= sections[i].address
                      \/ sections[i].address + sections[i].size <= p
    BY DEF SectionsKept
  <2>0. BootTypeOK
    BY DEF BootInv
  <2>1. Linked \subseteq Pages
    BY <2>0, ElementOfSeq DEF BootTypeOK, Linked
  <2>2. i < section
    <3>1. linked # <<>>
      BY DEF Linked
    <3>2. section > Len(sections)
      BY <2>0, <3>1, TableFacts DEF BootInv, BootTypeOK, PhasesOK
    <3> QED BY <2>0, <3>2, TableFacts DEF BootTypeOK
  <2>3. PICK j \in 1..Len(spans) :
            /\ spans[j].address <= sections[i].address
            /\ sections[i].address + sections[i].size <= SpanEnd(j)
    BY <2>2 DEF BootInv, SectionsInSpans, InSpan
  <2>4. ~(p <= SpanEnd(j) /\ spans[j].address <= p + PAGE_SIZE)
    BY DEF BootInv, LinkedClear, Meets
  <2>5. /\ p \in Nat /\ PAGE_SIZE \in Nat
        /\ sections[i].address \in Nat /\ sections[i].size \in Nat
        /\ SpanEnd(j) \in Nat /\ spans[j].address \in Nat
    BY <2>0, <2>1, PagesAre, Sizes, TableFacts
  <2> QED BY <2>3, <2>4, <2>5
<1> QED BY <1>1, BootIsKept, PTL

(* Each page that lies in a usable entry, is not page 0 and meets no span  *)
(* is on the list when the tags are parsed, across every jump of           *)
(* find_free_page and every end of an entry.                               *)
THEOREM NoFreePageForgotten == BootSpec => []AllFreeLinked
<1>1. BootInv => AllFreeLinked
  <2> SUFFICES ASSUME BootInv, Parsed, NEW p \in Pages, NEW i \in 1..Len(entries),
                      entries[i].type = 1, entries[i].address <= p,
                      p + PAGE_SIZE <= entries[i].address + entries[i].size,
                      ok_address(p) = 0
               PROVE  p \in Linked
    BY DEF AllFreeLinked
  <2>0. BootTypeOK
    BY DEF BootInv
  <2>1. Meets(p) = {}
    BY <2>0, PagesAre, MeetsFacts
  <2>2. i < entry
    BY <2>0, TableFacts DEF Parsed, BootTypeOK
  <2>3. FreeOf(i, p)
    BY <2>1 DEF FreeOf
  <2> QED BY <2>2, <2>3 DEF BootInv, SearchedLinked
<1> QED BY <1>1, BootIsKept, PTL

-----------------------------------------------------------------------------
(* Where the usable entries of a map overlap, a page can be found for two  *)
(* of them; the list the run-time allocator starts from needs that they do *)
(* not.                                                                    *)
OrderlyMaps ==
    \A map \in MemoryMaps : \A i, j \in 1..Len(map) :
        i # j /\ map[i].type = 1 /\ map[j].type = 1 =>
            \/ map[i].address + map[i].size <= map[j].address
            \/ map[j].address + map[j].size <= map[i].address

(* Of the entry and the page at which a search ends.                       *)
LEMMA FoundFacts ==
    ASSUME BootInv, search # None, NEW p, p = Start(search)
    PROVE  /\ p \in Pages /\ p \in Nat /\ search \in Nat /\ search <= p
           /\ entry \in 1..Len(entries) /\ entry \in Nat
           /\ entries[entry].type = 1 /\ entries[entry].address <= p
           /\ entries[entry].address \in Nat /\ EndOfEntry \in Nat
           /\ EndOfEntry = entries[entry].address + entries[entry].size
<1>1. BootTypeOK /\ PhasesOK /\ search \in Nat /\ search \in 0..Limit
  BY Sizes DEF BootInv, BootTypeOK
<1>2. p \in Pages /\ p \in Nat /\ search <= p
  BY <1>1, StartFacts, PagesAre
<1>3. /\ entry \in 1..Len(entries) /\ entry \in Nat
      /\ entries[entry].type = 1 /\ entries[entry].address <= search
  BY <1>1, TableFacts DEF BootTypeOK, PhasesOK
<1>4. entries[entry].address \in Nat /\ entries[entry].size \in Nat
  BY <1>1, <1>3, TableFacts
<1>5. entries[entry].address <= p
  BY <1>1, <1>2, <1>3, <1>4
<1> QED BY <1>1, <1>2, <1>3, <1>4, <1>5 DEF EndOfEntry

(* A page found in the entry is not on the list yet: those of the entry    *)
(* end before the search goes on, those of the others lie elsewhere.       *)
LEMMA NewPage ==
    ASSUME OrderlyMaps, BootInv, FromEntries, search # None,
           NEW p, p = Start(search), p + PAGE_SIZE <= EndOfEntry
    PROVE  \A k \in 1..Len(linked) : linked[k] # p
<1> SUFFICES ASSUME NEW k \in 1..Len(linked), linked[k] = p PROVE FALSE
  OBVIOUS
<1>1. PICK e \in 1..Len(entries) : FromEntry(e, p)
  BY DEF FromEntries
<1>2. PAGE_SIZE \in Nat \ {0} /\ e \in Nat
  BY Sizes
<1>3. CASE e = entry
  <2>1. curr_address # None /\ p <= curr_address
    BY <1>1, <1>3 DEF FromEntry
  <2>2. curr_address \in Nat /\ curr_address + PAGE_SIZE <= search
    BY <2>1, PagesAre DEF BootInv, BootTypeOK, PhasesOK
  <2>3. search \in Nat /\ p \in Nat /\ search <= p
    BY FoundFacts
  <2> QED BY <1>2, <2>1, <2>2, <2>3
<1>4. CASE e # entry
  <2>1. entries \in MemoryMaps /\ entry \in 1..Len(entries) /\ entries[entry].type = 1
    BY FoundFacts DEF BootInv, BootTypeOK
  <2>2. \/ entries[e].address + entries[e].size <= entries[entry].address
        \/ entries[entry].address + entries[entry].size <= entries[e].address
    BY <1>1, <1>4, <2>1 DEF OrderlyMaps, FromEntry
  <2>3. entries[e].address <= p /\ p + PAGE_SIZE <= entries[e].address + entries[e].size
    BY <1>1 DEF FromEntry
  <2>4. /\ entries[e].address \in Nat /\ entries[e].size \in Nat
    BY TableFacts DEF BootInv
  <2>5. /\ p \in Nat /\ entries[entry].address <= p /\ entries[entry].address \in Nat
        /\ EndOfEntry = entries[entry].address + entries[entry].size /\ EndOfEntry \in Nat
    BY FoundFacts
  <2> QED BY <1>2, <2>2, <2>3, <2>4, <2>5
<1> QED BY <1>3, <1>4

(* What it takes to link a page at the end of the list.                    *)
LEMMA LinkedOn ==
    ASSUME BootTypeOK, LinksOK, NEW p \in Pages,
           \A k \in 1..Len(linked) : linked[k] # p,
           linked' = Append(linked, p), count' = count + 1,
           page_head' = IF linked = <<>> THEN p ELSE page_head,
           \A k \in 1..Len(linked) : word'[linked[k]] =
                IF k = Len(linked) THEN p ELSE word[linked[k]]
    PROVE  /\ LinksOK' /\ linked' # <<>> /\ linked'[Len(linked')] = p
           /\ Len(linked') = Len(linked) + 1
           /\ \A k \in 1..Len(linked) : linked'[k] = linked[k]
<1>n. PICK n : n = Len(linked)
  OBVIOUS
<1>1. linked \in Seq(Pages) /\ n \in Nat
  BY <1>n DEF BootTypeOK
<1>2. /\ linked' \in Seq(Pages) /\ Len(linked') = n + 1
      /\ \A k \in 1..n : linked'[k] = linked[k]
      /\ linked'[n + 1] = p
  BY <1>1, <1>n, AppendProperties
<1>3. linked' # <<>>
  BY <1>1, <1>2
<1>4. \A j, k \in 1..(n + 1) : linked'[j] = linked'[k] => j = k
  <2> SUFFICES ASSUME NEW j \in 1..(n + 1), NEW k \in 1..(n + 1), linked'[j] = linked'[k]
               PROVE  j = k
    OBVIOUS
  <2>1. CASE j \in 1..n /\ k \in 1..n
    BY <1>2, <1>n, <2>1 DEF LinksOK
  <2>2. CASE ~(j \in 1..n /\ k \in 1..n)
    <3>1. j = n + 1 \/ k = n + 1
      BY <1>1, <2>2
    <3>2. j \in 1..n => linked'[j] # p
      BY <1>2, <1>n
    <3>3. k \in 1..n => linked'[k] # p
      BY <1>2, <1>n
    <3> QED BY <1>1, <1>2, <3>1, <3>2, <3>3
  <2> QED BY <2>1, <2>2
<1>5. count' = n + 1
  BY <1>n DEF LinksOK
<1>6. page_head' = linked'[1]
  <2>1. CASE linked = <<>>
    <3>1. n = 0
      BY <1>n, <2>1
    <3> QED BY <1>2, <2>1, <3>1
  <2>2. CASE linked # <<>>
    <3>1. 1 \in 1..n
      BY <1>1, <1>n, <2>2, EmptySeq
    <3> QED BY <1>2, <2>2, <3>1 DEF LinksOK
  <2> QED BY <2>1, <2>2
<1>7. ASSUME NEW k \in 1..(n + 1), k < n + 1
      PROVE  word'[linked'[k]] = linked'[k + 1]
  <2>1. k \in 1..n /\ linked'[k] = linked[k]
    BY <1>1, <1>2, <1>7
  <2>2. CASE k = n
    BY <1>2, <1>n, <2>1, <2>2
  <2>3. CASE k # n
    <3>1. k < n /\ k + 1 \in 1..n
      BY <1>1, <2>1, <2>3
    <3>2. word'[linked'[k]] = word[linked[k]]
      BY <1>n, <2>1, <2>3
    <3>3. word[linked[k]] = linked[k + 1]
      BY <1>n, <2>1, <3>1 DEF LinksOK
    <3> QED BY <1>2, <3>1, <3>2, <3>3
  <2> QED BY <2>2, <2>3
<1> QED BY <1>2, <1>3, <1>4, <1>5, <1>6, <1>7, <1>n DEF LinksOK

LEMMA ChainedStep == OrderlyMaps /\ BootInv /\ Chained /\ [BootNext]_bootVars => Chained'
<1> SUFFICES ASSUME OrderlyMaps, BootInv, Chained, [BootNext]_bootVars, ~outside'
             PROVE  FromEntries' /\ LinksOK' /\ TailOK'
  BY DEF Chained
<1>0. BootTypeOK /\ PhasesOK /\ PAGE_SIZE \in Nat \ {0} /\ None \notin Nat
  BY Sizes DEF BootInv
(* The steps that leave the list alone.                                    *)
<1>1. ASSUME UNCHANGED <<freePages, entries, curr_address>>, curr_address = None \/ entry' = entry,
             entry' >= entry, entry' \in Nat
      PROVE  FromEntries' /\ LinksOK' /\ TailOK'
  <2>1. FromEntries /\ LinksOK /\ TailOK
    BY <1>1 DEF Chained, freePages
  <2>2. LinksOK' /\ TailOK'
    BY <1>1, <2>1 DEF LinksOK, TailOK, freePages
  <2>3. ASSUME NEW k \in 1..Len(linked) PROVE \E e \in 1..Len(entries) : FromEntry(e, linked[k])'
    <3>1. PICK e \in 1..Len(entries) : FromEntry(e, linked[k])
      BY <2>1 DEF FromEntries
    <3>2. e \in Nat /\ entry \in Nat
      BY <1>0, TableFacts DEF BootTypeOK
    <3>3. FromEntry(e, linked[k])'
      BY <1>1, <3>1, <3>2 DEF FromEntry, freePages
    <3> QED BY <3>3
  <2>4. FromEntries'
    BY <1>1, <2>3 DEF FromEntries, freePages
  <2> QED BY <2>2, <2>4
<1>e. entry \in Nat
  BY <1>0, TableFacts DEF BootTypeOK
<1>2. CASE UNCHANGED bootVars
  <2>1. UNCHANGED <<freePages, entries, curr_address, entry>>
    BY <1>2 DEF bootVars, tags
  <2> QED BY <1>1, <1>e, <2>1
<1>3. CASE parse_elf
  <2>1. UNCHANGED <<freePages, entries, curr_address, entry>>
    BY <1>3 DEF parse_elf
  <2> QED BY <1>1, <1>e, <2>1
<1>4. CASE parse_mem_map
  <2>1. UNCHANGED <<freePages, entries, curr_address>> /\ entry' \in {entry, entry + 1}
    BY <1>4 DEF parse_mem_map
  <2>2. curr_address = None
    BY <1>0, <1>4 DEF parse_mem_map, PhasesOK
  <2> QED BY <1>1, <1>e, <2>1, <2>2
<1>5. CASE find_free_page
  <2>0. search # None /\ entries' = entries
    BY <1>5 DEF find_free_page
  <2>1. CASE UNCHANGED <<entry, freePages, curr_address>>
    BY <1>1, <1>e, <2>0, <2>1
  <2>p. PICK p : p = Start(search)
    OBVIOUS
  <2>2. /\ p \in Pages /\ p \in Nat /\ search \in Nat /\ search <= p
        /\ entry \in 1..Len(entries)
        /\ entries[entry].type = 1 /\ entries[entry].address <= p
        /\ EndOfEntry = entries[entry].address + entries[entry].size /\ EndOfEntry \in Nat
    BY <2>0, <2>p, FoundFacts
  <2>l. linked \in Seq(Pages) /\ Len(linked) \in Nat /\ nullptr \notin Pages
        /\ \A k \in 1..Len(linked) : linked[k] \in Pages
        /\ word \in [Pages -> Words]
    <3>1. linked \in Seq(Pages) /\ word \in [Pages -> Words]
      BY <1>0 DEF BootTypeOK
    <3>2. nullptr \notin Pages
      BY <1>0, PagesAre DEF nullptr
    <3> QED BY <3>1, <3>2, ElementOfSeq
  (* The page that ends the list so far.                                   *)
  <2>t. linked # <<>> => Len(linked) \in 1..Len(linked)
    BY <2>l, EmptySeq
  <2>3. CASE curr_address = None /\ LinkFirst(p)
    <3>1. ~outside /\ ~(p + PAGE_SIZE > EndOfEntry)
      BY <2>3 DEF LinkFirst, FoundOutside
    <3>2. FromEntries /\ LinksOK /\ TailOK /\ p + PAGE_SIZE <= EndOfEntry
      BY <1>0, <2>2, <3>1 DEF Chained
    <3>3. /\ linked' = Append(linked, p) /\ count' = count + 1
          /\ curr_address' = p /\ entry' = entry
      BY <2>3, <3>2 DEF LinkFirst, SearchOrEnd
    <3>4. \A k \in 1..Len(linked) : linked[k] # p
      BY <2>0, <2>p, <3>2, NewPage
    <3>5. page_head # nullptr <=> linked # <<>>
      <4>1. linked # <<>> => page_head = linked[1] /\ 1 \in 1..Len(linked)
        BY <2>l, <3>2, EmptySeq DEF LinksOK
      <4>2. linked = <<>> => page_head = nullptr
        BY <3>2 DEF LinksOK
      <4> QED BY <2>l, <4>1, <4>2
    <3>6. page_head' = IF linked = <<>> THEN p ELSE page_head
      BY <2>3, <3>5 DEF LinkFirst
    <3>7. ASSUME NEW k \in 1..Len(linked)
          PROVE  word'[linked[k]] = IF k = Len(linked) THEN p ELSE word[linked[k]]
      <4>1. linked # <<>> /\ Len(linked) \in 1..Len(linked)
        BY <2>l, <3>7, EmptySeq
      <4>2. word' = [word EXCEPT ![page_tail] = p, ![p] = nullptr]
        BY <2>3, <3>5, <4>1 DEF LinkFirst
      <4>3. page_tail = linked[Len(linked)]
        BY <2>3, <3>2, <4>1 DEF TailOK
      <4>4. linked[k] \in Pages /\ linked[k] # p
        BY <2>l, <3>4
      <4>5. linked[k] = page_tail <=> k = Len(linked)
        BY <3>2, <4>1, <4>3 DEF LinksOK
      <4> QED BY <2>l, <4>2, <4>4, <4>5
    <3>8. /\ LinksOK' /\ linked' # <<>> /\ linked'[Len(linked')] = p
          /\ Len(linked') = Len(linked) + 1
          /\ \A k \in 1..Len(linked) : linked'[k] = linked[k]
      BY <1>0, <2>2, <3>2, <3>3, <3>4, <3>6, <3>7, LinkedOn
    <3>9. TailOK'
      BY <1>0, <2>2, <3>3, <3>8 DEF TailOK
    <3>10. ASSUME NEW k \in 1..Len(linked')
           PROVE  \E e \in 1..Len(entries) : FromEntry(e, linked[k])'
      <4>1. CASE k \in 1..Len(linked)
        <5>1. PICK e \in 1..Len(entries) : FromEntry(e, linked[k])
          BY <3>2, <4>1 DEF FromEntries
        <5>2. FromEntry(e, linked[k])'
          BY <2>0, <2>3, <3>3, <3>8, <4>1, <5>1 DEF FromEntry
        <5> QED BY <5>2
      <4>2. CASE k = Len(linked) + 1
        <5>1. linked'[k] = p
          BY <3>8, <4>2
        <5>i. /\ entries[entry].type = 1 /\ entries[entry].address <= p
              /\ p + PAGE_SIZE <= entries[entry].address + entries[entry].size
              /\ entry <= entry /\ p # None /\ p <= p
          BY <1>0, <1>e, <2>2, <3>2
        <5>n. PICK n : n = entry
          OBVIOUS
        <5>2. FromEntry(n, linked[k])'
          BY <2>0, <3>3, <5>1, <5>i, <5>n DEF FromEntry
        <5> QED BY <2>2, <5>2, <5>n
      <4> QED BY <2>l, <3>8, <4>1, <4>2
    <3> QED BY <2>0, <3>8, <3>9, <3>10 DEF FromEntries
  <2>4. CASE curr_address # None /\ LinkNext(p)
    <3>1. outside' = outside
      BY <2>4 DEF LinkNext
    <3>2. FromEntries /\ LinksOK /\ TailOK
      BY <3>1 DEF Chained
    <3>3. linked # <<>> /\ curr_address = linked[Len(linked)] /\ Len(linked) \in 1..Len(linked)
      BY <2>4, <2>t, <3>2 DEF TailOK
    <3>4. curr_address \in Nat /\ curr_address + PAGE_SIZE <= search /\ curr_address < p
      <4>1. curr_address \in Nat /\ curr_address + PAGE_SIZE <= search
        BY <1>0, <2>4, PagesAre DEF BootTypeOK, PhasesOK
      <4> QED BY <1>0, <2>2, <4>1
    <3>5. \A k \in 1..Len(linked) : linked[k] = curr_address <=> k = Len(linked)
      BY <3>2, <3>3 DEF LinksOK
    <3>6. CASE /\ p + PAGE_SIZE <= EndOfEntry
               /\ word' = [word EXCEPT ![curr_address] = p]
               /\ count' = count + 1 /\ linked' = Append(linked, p)
               /\ UNCHANGED <<page_head, page_tail, outside>>
               /\ SearchOrEnd(p)
      <4>1. curr_address' = p /\ entry' = entry
        BY <3>6 DEF SearchOrEnd
      <4>2. \A k \in 1..Len(linked) : linked[k] # p
        BY <2>0, <2>p, <3>2, <3>6, NewPage
      <4>3. page_head' = IF linked = <<>> THEN p ELSE page_head
        BY <3>3, <3>6
      <4>4. \A k \in 1..Len(linked) :
                word'[linked[k]] = IF k = Len(linked) THEN p ELSE word[linked[k]]
        BY <2>l, <3>5, <3>6
      <4>5. /\ LinksOK' /\ linked' # <<>> /\ linked'[Len(linked')] = p
            /\ Len(linked') = Len(linked) + 1
            /\ \A k \in 1..Len(linked) : linked'[k] = linked[k]
        BY <1>0, <2>2, <3>2, <3>6, <4>2, <4>3, <4>4, LinkedOn
      <4>6. TailOK'
        BY <1>0, <2>2, <4>1, <4>5 DEF TailOK
      <4>7. ASSUME NEW k \in 1..Len(linked')
            PROVE  \E e \in 1..Len(entries) : FromEntry(e, linked[k])'
        <5>1. CASE k \in 1..Len(linked)
          <6>1. PICK e \in 1..Len(entries) : FromEntry(e, linked[k])
            BY <3>2, <5>1 DEF FromEntries
          <6>2. linked[k] \in Nat /\ linked'[k] = linked[k]
            BY <2>l, <4>5, <5>1, PagesAre
          <6>3. FromEntry(e, linked[k])'
            BY <1>0, <2>0, <2>2, <3>4, <4>1, <6>1, <6>2 DEF FromEntry
          <6> QED BY <6>3
        <5>2. CASE k = Len(linked) + 1
          <6>1. linked'[k] = p
            BY <4>5, <5>2
          <6>i. /\ entries[entry].type = 1 /\ entries[entry].address <= p
                /\ p + PAGE_SIZE <= entries[entry].address + entries[entry].size
                /\ entry <= entry /\ p # None /\ p <= p
            BY <1>0, <1>e, <2>2, <3>6
          <6>n. PICK n : n = entry
            OBVIOUS
          <6>2. FromEntry(n, linked[k])'
            BY <2>0, <4>1, <6>1, <6>i, <6>n DEF FromEntry
          <6> QED BY <2>2, <6>2, <6>n
        <5> QED BY <2>l, <4>5, <5>1, <5>2
      <4> QED BY <2>0, <4>5, <4>6, <4>7 DEF FromEntries
    <3>7. CASE /\ p + PAGE_SIZE > EndOfEntry
               /\ word' = [word EXCEPT ![curr_address] = nullptr]
               /\ page_tail' = curr_address
               /\ UNCHANGED <<page_head, count, linked, outside>>
               /\ EndEntry
      <4>1. curr_address' = None /\ entry' = entry + 1
        BY <3>7 DEF EndEntry
      <4>2. \A k \in 1..Len(linked) :
                word'[linked[k]] = IF k = Len(linked) THEN nullptr ELSE word[linked[k]]
        BY <2>l, <3>5, <3>7
      <4>3. ASSUME NEW k \in 1..Len(linked), k < Len(linked)
            PROVE  word'[linked[k]] = linked[k + 1]
        <5>1. k # Len(linked)
          BY <2>l, <4>3
        <5> QED BY <3>2, <4>2, <4>3, <5>1 DEF LinksOK
      <4>4. LinksOK'
        BY <3>2, <3>7, <4>3 DEF LinksOK
      <4>5. word'[curr_address] = nullptr
        BY <3>3, <4>2
      <4>6. TailOK'
        BY <3>3, <3>7, <4>1, <4>5 DEF TailOK
      <4>7. ASSUME NEW k \in 1..Len(linked)
            PROVE  \E e \in 1..Len(entries) : FromEntry(e, linked[k])'
        <5>1. PICK e \in 1..Len(entries) : FromEntry(e, linked[k])
          BY <3>2 DEF FromEntries
        <5>2. e \in Nat
          OBVIOUS
        <5>3. FromEntry(e, linked[k])'
          BY <1>e, <2>0, <3>7, <4>1, <5>1, <5>2 DEF FromEntry
        <5> QED BY <5>3
      <4>8. FromEntries'
        BY <2>0, <3>7, <4>7 DEF FromEntries
      <4> QED BY <4>4, <4>6, <4>8
    <3> QED BY <2>4, <3>6, <3>7 DEF LinkNext
  <2> QED BY <1>5, <2>1, <2>3, <2>4, <2>p DEF find_free_page
<1> QED BY <1>2, <1>3, <1>4, <1>5 DEF BootNext

(* Between two entries, unless a page was linked outside its entry, the    *)
(* pages linked are one list with head, tail, count and a last link of 0,  *)
(* each page on it once: what the run-time allocator takes over.           *)
THEOREM ListIsReady == OrderlyMaps => (BootSpec => []ListReady)
<1> SUFFICES ASSUME OrderlyMaps PROVE BootSpec => []ListReady
  OBVIOUS
<1>1. BootInv /\ Chained => ListReady
  <2> SUFFICES ASSUME BootInv, search = None, ~outside, LinksOK, TailOK
               PROVE  /\ count = Len(linked) /\ Cardinality(Linked) = Len(linked)
                      /\ IF linked = <<>> THEN page_head = nullptr
                         ELSE /\ page_head = linked[1]
                              /\ page_tail = linked[Len(linked)]
                              /\ word[page_tail] = nullptr
                              /\ \A i \in 1..(Len(linked) - 1) : word[linked[i]] = linked[i + 1]
    BY DEF ListReady, Chained
  <2>1. linked \in Seq(Pages) /\ Len(linked) \in Nat /\ curr_address = None
    BY DEF BootInv, BootTypeOK, PhasesOK
  <2>2. Cardinality(Linked) = Len(linked)
    <3>1. linked \in Seq(Linked)
      <4>1. \A k \in 1..Len(linked) : linked[k] \in Linked
        BY DEF Linked
      <4> QED BY <2>1, <4>1, SeqDef
    <3>2. \A x \in Linked : \E k \in 1..Len(linked) : linked[k] = x
      BY DEF Linked
    <3> QED BY <3>1, <3>2, DistinctCount DEF LinksOK
  <2>3. ASSUME NEW i \in 1..(Len(linked) - 1) PROVE word[linked[i]] = linked[i + 1]
    <3>1. i \in 1..Len(linked) /\ i < Len(linked)
      BY <2>1
    <3> QED BY <3>1 DEF LinksOK
  <2>4. linked # <<>> => page_tail = linked[Len(linked)] /\ word[page_tail] = nullptr
    BY <2>1 DEF TailOK
  <2> QED BY <2>2, <2>3, <2>4 DEF LinksOK
<1>2. BootInit => BootInv /\ Chained
  BY InvInit
<1>3. BootInv /\ Chained /\ [BootNext]_bootVars => (BootInv /\ Chained)'
  BY InvStep, ChainedStep
<1> QED BY <1>1, <1>2, <1>3, PTL DEF BootSpec
=============================================================================
