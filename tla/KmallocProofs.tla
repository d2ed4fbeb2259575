---------------------------- MODULE KmallocProofs ----------------------------
(***************************************************************************)
(* Theorems about Kmalloc, for any block sizes, any number of pages and    *)
(* any number of allocations.                                              *)
(*                                                                         *)
(* One thing of the code is a hypothesis: a size is an int after the       *)
(* header is added to it, so what is asked for must fit (IntSizes).  What  *)
(* the frames of new pages hold is not restricted.  The last block of a    *)
(* page keeps that word as its link (allocator.c:53), and the properties   *)
(* are about the states before such a word other than 0 has entered a list *)
(* (clean): the inductive invariant is clean => HeapInv.                   *)
(***************************************************************************)
EXTENDS Kmalloc, CommonLemmas

IntSizes == \A size \in Sizes : size + KMALLOC_HEADER_SIZE < Uint32 \div 2

-----------------------------------------------------------------------------
(* Pages and blocks.                                                       *)
LEMMA Constants ==
    /\ PAGE_SIZE \in Nat \ {0} /\ KMALLOC_HEADER_SIZE \in Nat \ {0} /\ Uint32 \in Nat \ {0}
    /\ MaxPages \in Nat \ {0}
    /\ 1 \in Pools /\ Pools \subseteq Nat \ {0}
    /\ \A i \in Pools : /\ PoolSize[i] \in Nat \ {0}
                        /\ PAGE_SIZE % PoolSize[i] = 0 /\ PoolSize[i] < PAGE_SIZE
                        /\ PoolSize[i] % PoolSize[1] = 0
    /\ KMALLOC_HEADER_SIZE < PAGE_SIZE
    /\ Sizes \subseteq Nat
<1>1. /\ PAGE_SIZE \in Nat \ {0} /\ KMALLOC_HEADER_SIZE \in Nat \ {0} /\ Uint32 \in Nat \ {0}
      /\ MaxPages \in Nat \ {0}
      /\ PoolSize \in Seq(Nat \ {0}) /\ PoolSize # <<>>
      /\ \A i \in Pools : /\ PAGE_SIZE % PoolSize[i] = 0 /\ PoolSize[i] < PAGE_SIZE
                          /\ PoolSize[i] % PoolSize[1] = 0
      /\ KMALLOC_HEADER_SIZE < PoolSize[1]
      /\ Sizes \subseteq 0..(Uint32 - 1)
  BY KmallocAssumption
<1>2. 1 \in Pools /\ Pools \subseteq Nat \ {0}
  BY <1>1 DEF Pools
<1>3. \A i \in Pools : PoolSize[i] \in Nat \ {0}
  BY <1>1 DEF Pools
<1>4. Sizes \subseteq Nat
  BY <1>1
<1>5. KMALLOC_HEADER_SIZE < PAGE_SIZE
  BY <1>1, <1>2, <1>3
<1> QED BY <1>1, <1>2, <1>3, <1>4, <1>5

LEMMA PageFacts ==
    ASSUME NEW a \in Nat
    PROVE  /\ PageOf(a) \in Nat
           /\ PAGE_SIZE * PageOf(a) <= a /\ a < PAGE_SIZE * PageOf(a) + PAGE_SIZE
  BY Constants, Quotient DEF PageOf

LEMMA PageIs ==
    ASSUME NEW a \in Nat, NEW p \in Nat, PAGE_SIZE * p <= a, a < PAGE_SIZE * p + PAGE_SIZE
    PROVE  PageOf(a) = p
  BY Constants, QuotientIs DEF PageOf

LEMMA PageStart ==
    ASSUME NEW p \in Nat
    PROVE  /\ p * PAGE_SIZE = PAGE_SIZE * p /\ p * PAGE_SIZE \in Nat
           /\ PageOf(p * PAGE_SIZE) = p
           /\ (p * PAGE_SIZE) % PAGE_SIZE = 0
           /\ \A i \in Pools : (p * PAGE_SIZE) % PoolSize[i] = 0
<1>1. p * PAGE_SIZE = PAGE_SIZE * p /\ p * PAGE_SIZE \in Nat
  BY Constants
<1>2. PageOf(p * PAGE_SIZE) = p
  BY <1>1, Constants, PageIs
<1>3. (p * PAGE_SIZE) % PAGE_SIZE = 0
  BY <1>1, Constants, Multiple
<1>4. ASSUME NEW i \in Pools PROVE (p * PAGE_SIZE) % PoolSize[i] = 0
  <2> DEFINE a == p * PAGE_SIZE
             c == PoolSize[i]
  <2>1. a \in Nat /\ a % PAGE_SIZE = 0
    BY <1>1, <1>3
  <2>2. PAGE_SIZE \in Nat \ {0} /\ c \in Nat \ {0} /\ PAGE_SIZE % c = 0
    BY Constants
  <2> HIDE DEF a, c
  <2>3. a % c = 0
    BY <2>1, <2>2, DividesOn
  <2> QED BY <2>3 DEF a, c
<1> QED BY <1>1, <1>2, <1>3, <1>4

(* A block ends in the page it starts in.                                  *)
LEMMA BlockInPage ==
    ASSUME NEW a \in Nat, NEW i \in Pools, a % PoolSize[i] = 0
    PROVE  a + PoolSize[i] <= PAGE_SIZE * PageOf(a) + PAGE_SIZE
<1> DEFINE end == (PageOf(a) + 1) * PAGE_SIZE
<1>1. PageOf(a) \in Nat /\ a < PAGE_SIZE * PageOf(a) + PAGE_SIZE
  BY PageFacts
<1>2. end = PAGE_SIZE * PageOf(a) + PAGE_SIZE /\ end \in Nat
  BY <1>1, Constants, Times
<1>3. end % PoolSize[i] = 0
  BY <1>1, PageStart
<1> HIDE DEF end
<1>4. PoolSize[i] \in Nat \ {0}
  BY Constants
<1> QED BY <1>1, <1>2, <1>3, <1>4, MultiplesApart

(* All bytes of a block lie in the page of the first.                      *)
LEMMA ByteInPage ==
    ASSUME NEW a \in Nat, NEW i \in Pools, a % PoolSize[i] = 0,
           NEW b \in a..(a + PoolSize[i] - 1)
    PROVE  b \in Nat /\ PageOf(b) = PageOf(a)
<1>1. PoolSize[i] \in Nat \ {0} /\ PAGE_SIZE \in Nat
  BY Constants
<1>2. b \in Nat /\ b < a + PoolSize[i] /\ a <= b
  BY <1>1
<1>3. PageOf(a) \in Nat /\ PAGE_SIZE * PageOf(a) <= a
      /\ a + PoolSize[i] <= PAGE_SIZE * PageOf(a) + PAGE_SIZE
  BY PageFacts, BlockInPage
<1>4. PAGE_SIZE * PageOf(a) \in Nat
  BY <1>1, <1>3
<1>5. PAGE_SIZE * PageOf(a) <= b /\ b < PAGE_SIZE * PageOf(a) + PAGE_SIZE
  BY <1>1, <1>2, <1>3, <1>4
<1> QED BY <1>2, <1>3, <1>5, PageIs

(* Blocks of a pool that are not the same have no byte in common.          *)
LEMMA BlocksOfPoolApart ==
    ASSUME NEW i \in Pools, NEW a \in Nat, NEW b \in Nat,
           a % PoolSize[i] = 0, b % PoolSize[i] = 0, a # b
    PROVE  BlockBytes(i, a) \cap BlockBytes(i, b) = {}
<1>1. PoolSize[i] \in Nat \ {0}
  BY Constants
<1>2. a < b \/ b < a
  OBVIOUS
<1>3. a + PoolSize[i] <= b \/ b + PoolSize[i] <= a
  BY <1>1, <1>2, MultiplesApart
<1> QED BY <1>1, <1>3 DEF BlockBytes

LEMMA AddressFacts ==
    /\ Addresses \subseteq Nat /\ nullptr \in Addresses
    /\ \A a \in Addresses : a # nullptr <=> PageOf(a) >= 1
<1>1. Addresses \subseteq Nat /\ nullptr \in Addresses
  BY Constants DEF Addresses, nullptr
<1>2. PageOf(nullptr) = 0
  BY Constants, PageIs DEF nullptr
<1>3. ASSUME NEW a \in Addresses, a # nullptr PROVE PageOf(a) >= 1
  <2>1. a \in Nat /\ PAGE_SIZE <= a
    BY <1>3, Constants DEF Addresses
  <2>2. PageOf(a) \in Nat /\ a < PAGE_SIZE * PageOf(a) + PAGE_SIZE
    BY <2>1, PageFacts
  <2>3. PageOf(a) # 0
    BY <2>1, <2>2, Constants
  <2> QED BY <2>2, <2>3
<1> QED BY <1>1, <1>2, <1>3

LEMMA PageAddress ==
    ASSUME NEW p \in 1..MaxPages
    PROVE  p * PAGE_SIZE \in Addresses \ {nullptr}
<1> DEFINE a == p * PAGE_SIZE
<1>1. a \in Nat /\ a = PAGE_SIZE * p /\ a % PoolSize[1] = 0
  <2>1. p \in Nat /\ 1 \in Pools
    BY Constants
  <2> QED BY <2>1, PageStart
<1>2. PAGE_SIZE * 1 <= PAGE_SIZE * p /\ PAGE_SIZE * p <= PAGE_SIZE * MaxPages
  BY Constants, Times
<1>3. (MaxPages + 1) * PAGE_SIZE = PAGE_SIZE * MaxPages + PAGE_SIZE
  BY Constants, Times
<1>4. PAGE_SIZE * MaxPages \in Nat
  BY Constants
<1> HIDE DEF a
<1>5. a \in PAGE_SIZE..((MaxPages + 1) * PAGE_SIZE - 1)
  BY <1>1, <1>2, <1>3, <1>4, Constants
<1>6. a \in Addresses /\ a # 0
  BY <1>1, <1>5, Constants DEF Addresses
<1> QED BY <1>6 DEF a, nullptr

(* The block behind one that is not the last of its page.                  *)
LEMMA NextBlock ==
    ASSUME NEW i \in Pools, NEW a \in Addresses, a % PoolSize[i] = 0,
           NEW p \in 1..MaxPages, PageOf(a + PoolSize[i]) = p
    PROVE  a + PoolSize[i] \in Addresses /\ (a + PoolSize[i]) % PoolSize[i] = 0
<1> DEFINE b == a + PoolSize[i]
<1>1. a \in Nat /\ PoolSize[i] \in Nat \ {0} /\ PoolSize[1] \in Nat \ {0}
  BY AddressFacts, Constants
<1>2. b \in Nat /\ b % PoolSize[i] = 0
  BY <1>1, SumOfMultiples
<1>3. b % PoolSize[1] = 0
  BY <1>1, <1>2, Constants, DividesOn
<1> HIDE DEF b
<1>4. PAGE_SIZE * p <= b /\ b < PAGE_SIZE * p + PAGE_SIZE
  BY <1>2, PageFacts DEF b
<1>5. PAGE_SIZE * 1 <= PAGE_SIZE * p /\ PAGE_SIZE * p <= PAGE_SIZE * MaxPages
      /\ (MaxPages + 1) * PAGE_SIZE = PAGE_SIZE * MaxPages + PAGE_SIZE
      /\ PAGE_SIZE * p \in Nat /\ PAGE_SIZE * MaxPages \in Nat
  BY Constants, Times
<1>6. b \in PAGE_SIZE..((MaxPages + 1) * PAGE_SIZE - 1)
  BY <1>2, <1>4, <1>5, Constants
<1> QED BY <1>2, <1>3, <1>6 DEF Addresses, b

-----------------------------------------------------------------------------
(* Sizes.                                                                  *)
LEMMA RoundsFacts ==
    ASSUME NEW n \in Nat
    PROVE  /\ Rounds(n, PAGE_SIZE) \in Nat
           /\ n <= PAGE_SIZE * Rounds(n, PAGE_SIZE)
           /\ \A m \in 0..n : Rounds(m, PAGE_SIZE) <= Rounds(n, PAGE_SIZE)
<1>0. PAGE_SIZE \in Nat \ {0}
  BY Constants
<1>1. ASSUME NEW k \in Nat, k > 0
      PROVE  /\ Rounds(k, PAGE_SIZE) \in Nat
             /\ PAGE_SIZE * Rounds(k, PAGE_SIZE) <= k + PAGE_SIZE - 1
             /\ k <= PAGE_SIZE * Rounds(k, PAGE_SIZE)
  <2> DEFINE q == (k + PAGE_SIZE - 1) \div PAGE_SIZE
  <2>1. k + PAGE_SIZE - 1 \in Nat
    BY <1>0
  <2>2. q \in Nat /\ PAGE_SIZE * q <= k + PAGE_SIZE - 1 /\ k + PAGE_SIZE - 1 < PAGE_SIZE * q + PAGE_SIZE
    BY <1>0, <2>1, Quotient
  <2>3. Rounds(k, PAGE_SIZE) = q
    BY <1>1 DEF Rounds
  <2> HIDE DEF q
  <2>4. PAGE_SIZE * q \in Nat
    BY <1>0, <2>2
  <2> QED BY <1>0, <2>2, <2>3, <2>4
<1>2. Rounds(0, PAGE_SIZE) = 0
  BY DEF Rounds
<1>3. Rounds(n, PAGE_SIZE) \in Nat /\ n <= PAGE_SIZE * Rounds(n, PAGE_SIZE)
  <2>1. CASE n > 0
    BY <1>1, <2>1
  <2>2. CASE n = 0
    BY <1>0, <1>2, <2>2
  <2> QED BY <2>1, <2>2
<1>4. ASSUME NEW m \in 0..n PROVE Rounds(m, PAGE_SIZE) <= Rounds(n, PAGE_SIZE)
  <2>1. CASE m = 0
    BY <1>2, <1>3, <2>1
  <2>2. CASE m > 0
    <3> DEFINE x == Rounds(m, PAGE_SIZE)
               y == Rounds(n, PAGE_SIZE)
    <3>1. m \in Nat /\ n > 0
      BY <2>2
    <3>2. /\ x \in Nat /\ y \in Nat
          /\ PAGE_SIZE * x <= m + PAGE_SIZE - 1 /\ n <= PAGE_SIZE * y
      BY <1>1, <1>3, <2>2, <3>1
    <3> HIDE DEF x, y
    <3>3. PAGE_SIZE * (y + 1) = PAGE_SIZE * y + PAGE_SIZE
          /\ PAGE_SIZE * x \in Nat /\ PAGE_SIZE * y \in Nat
      BY <1>0, <3>2, Times
    <3>4. PAGE_SIZE * x < PAGE_SIZE * (y + 1)
      BY <1>0, <3>2, <3>3
    <3>5. x + 1 <= y + 1
      BY <1>0, <3>2, <3>4, Cancel
    <3>6. x <= y
      BY <3>2, <3>5
    <3> QED BY <3>6 DEF x, y
  <2> QED BY <2>1, <2>2
<1> QED BY <1>3, <1>4

LEMMA SizeFacts ==
    ASSUME IntSizes, NEW size \in Sizes
    PROVE  /\ size \in Nat
           /\ Required(size) = size + KMALLOC_HEADER_SIZE
           /\ AsInt(Required(size)) = size + KMALLOC_HEADER_SIZE
           /\ AsInt(size) = size
<1>1. size \in Nat /\ KMALLOC_HEADER_SIZE \in Nat /\ Uint32 \in Nat \ {0}
      /\ size + KMALLOC_HEADER_SIZE < Uint32 \div 2
  BY Constants DEF IntSizes
<1>2. Uint32 \div 2 \in Nat /\ Uint32 \div 2 <= Uint32
  BY <1>1
<1>3. \A x \in Nat : x < Uint32 => x % Uint32 = x
  BY <1>1
<1>4. Required(size) = size + KMALLOC_HEADER_SIZE
  BY <1>1, <1>2, <1>3 DEF Required
<1>5. AsInt(size + KMALLOC_HEADER_SIZE) = size + KMALLOC_HEADER_SIZE /\ AsInt(size) = size
  BY <1>1, <1>2 DEF AsInt
<1> QED BY <1>1, <1>4, <1>5

(* An allocation from a pool fits in a block with its header.              *)
LEMMA PoolChosen ==
    ASSUME IntSizes, NEW size \in Sizes, PoolFor(size) # {}
    PROVE  /\ SmallestPool(size) \in Pools
           /\ size + KMALLOC_HEADER_SIZE <= PoolSize[SmallestPool(size)]
<1>1. PoolFor(size) \in SUBSET Nat
  BY Constants DEF PoolFor
<1>2. \E i \in PoolFor(size) : \A j \in PoolFor(size) : i <= j
  BY <1>1, LeastElement
<1>3. SmallestPool(size) \in PoolFor(size)
  BY <1>2 DEF SmallestPool
<1> QED BY <1>3, SizeFacts DEF PoolFor

(* An allocation of its own pages fits in them with its header; the pages  *)
(* freed with it are among them.                                           *)
LEMMA BigPages ==
    ASSUME IntSizes, NEW size \in Sizes
    PROVE  /\ PagesOfBig(size) \in Nat \ {0}
           /\ size + KMALLOC_HEADER_SIZE <= PAGE_SIZE * (PagesOfBig(size) - 1)
           /\ FreedPages(size) \in Nat /\ FreedPages(size) < PagesOfBig(size)
<1> DEFINE n == size + KMALLOC_HEADER_SIZE
           r == Rounds(n, PAGE_SIZE)
<1>1. n \in Nat /\ size \in 0..n /\ size \in Nat
  BY Constants, SizeFacts
<1>2. PagesOfBig(size) = 1 + r /\ FreedPages(size) = Rounds(size, PAGE_SIZE)
  BY SizeFacts DEF PagesOfBig, FreedPages
<1> HIDE DEF n
<1>3. r \in Nat /\ n <= PAGE_SIZE * r /\ Rounds(size, PAGE_SIZE) <= r
      /\ Rounds(size, PAGE_SIZE) \in Nat
  BY <1>1, RoundsFacts
<1> HIDE DEF r
<1>4. PagesOfBig(size) \in Nat \ {0} /\ PagesOfBig(size) - 1 = r
  BY <1>2, <1>3
<1> QED BY <1>2, <1>3, <1>4 DEF n

-----------------------------------------------------------------------------
(* The walk along the links, as a function of the words of memory.         *)
Bound == Cardinality(Addresses)

Onwards(w, b) == IF w[b] \in Addresses \ {nullptr} THEN w[b] ELSE b

Walks(f, w, a) ==
    /\ f \in [0..Bound -> Addresses]
    /\ f[0] = a
    /\ \A n \in 1..Bound : f[n] = Onwards(w, f[n - 1])

LEMMA AddressesFinite == IsFiniteSet(Addresses) /\ Bound \in Nat
<1>1. \A a \in Addresses : a \in 0..((MaxPages + 1) * PAGE_SIZE)
  BY AddressFacts, Constants DEF Addresses, nullptr
<1>2. 0 \in Int /\ (MaxPages + 1) * PAGE_SIZE \in Int
  BY Constants
<1>3. IsFiniteSet(0..((MaxPages + 1) * PAGE_SIZE))
  BY <1>2, FS_Interval
<1>4. IsFiniteSet(Addresses)
  BY <1>1, <1>3, FS_Subset
<1> QED BY <1>4, FS_CardinalityType DEF Bound

WalkOf(w, a) ==
    LET onwards == [b \in Addresses |-> IF w[b] \in Addresses \ {nullptr}
                                        THEN w[b] ELSE b]
        node[n \in 0..Cardinality(Addresses)] ==
            IF n = 0 THEN a ELSE onwards[node[n - 1]]
    IN  node

LEMMA WalkExists ==
    ASSUME NEW w, NEW a \in Addresses
    PROVE  Walks(WalkOf(w, a), w, a)
<1> DEFINE onwards == [b \in Addresses |-> IF w[b] \in Addresses \ {nullptr}
                                        THEN w[b] ELSE b]
           Solves(f) == f = [n \in 0..Cardinality(Addresses) |->
                                IF n = 0 THEN a ELSE onwards[f[n - 1]]]
<1>1. onwards \in [Addresses -> Addresses] /\ \A b \in Addresses : onwards[b] = Onwards(w, b)
  BY DEF Onwards
<1>2. Bound \in Nat
  BY AddressesFinite
<1>3. WalkOf(w, a) = CHOOSE f : Solves(f)
  BY DEF WalkOf
<1> HIDE DEF onwards
<1>4. PICK h \in [0..Bound -> Addresses] : Iterates(h, Bound, a, onwards)
  BY <1>1, <1>2, IterationExists
<1>5. ASSUME NEW n \in 0..Bound PROVE h[n] = IF n = 0 THEN a ELSE onwards[h[n - 1]]
  <2>1. CASE n = 0
    BY <1>4, <2>1 DEF Iterates
  <2>2. CASE n # 0
    <3>1. n - 1 \in 0..(Bound - 1) /\ (n - 1) + 1 = n
      BY <1>2, <2>2
    <3>2. h[(n - 1) + 1] = onwards[h[n - 1]]
      BY <1>4, <3>1 DEF Iterates
    <3> QED BY <2>2, <3>1, <3>2
  <2> QED BY <2>1, <2>2
<1>6. Solves(h)
  BY <1>5 DEF Bound
<1> DEFINE f == WalkOf(w, a)
<1>7. Solves(f)
  BY <1>3, <1>6
<1>8. f = [n \in 0..Bound |-> IF n = 0 THEN a ELSE onwards[f[n - 1]]]
  BY <1>7 DEF Bound
<1> HIDE DEF f
<1>9. f[0] = a
  BY <1>2, <1>8
<1>10. ASSUME NEW n \in 1..Bound PROVE f[n] = onwards[f[n - 1]]
  <2>1. n \in 0..Bound /\ n # 0
    BY <1>2
  <2> QED BY <1>8, <2>1
<1> DEFINE typed == {n \in Nat : n <= Bound => f[n] \in Addresses}
<1>11. 0 \in typed
  BY <1>9
<1>12. ASSUME NEW n \in typed PROVE n + 1 \in typed
  <2> SUFFICES ASSUME n + 1 <= Bound PROVE f[n + 1] \in Addresses
    OBVIOUS
  <2>1. n + 1 \in 1..Bound /\ (n + 1) - 1 = n /\ f[n] \in Addresses
    BY <1>2
  <2>2. f[n + 1] = onwards[f[(n + 1) - 1]]
    BY <1>10, <2>1
  <2> QED BY <1>1, <2>1, <2>2
<1>13. typed = Nat
  <2>1. typed \in SUBSET Nat
    OBVIOUS
  <2> HIDE DEF typed
  <2> QED BY <1>11, <1>12, <2>1, NaturalInduction
<1>14. ASSUME NEW n \in 0..Bound PROVE f[n] \in Addresses
  BY <1>2, <1>13
<1>15. f \in [0..Bound -> Addresses]
  BY <1>8, <1>14
<1>16. ASSUME NEW n \in 1..Bound PROVE f[n] = Onwards(w, f[n - 1])
  <2>1. n - 1 \in 0..Bound
    BY <1>2
  <2> QED BY <1>1, <1>10, <1>14, <2>1
<1> QED BY <1>9, <1>15, <1>16 DEF Walks, f

(* A walk never leaves a set that the links do not leave.                  *)
LEMMA WalkStays ==
    ASSUME NEW w, NEW a, NEW f, Walks(f, w, a), NEW S, a \in S,
           \A b \in S : w[b] \in Addresses \ {nullptr} => w[b] \in S
    PROVE  \A n \in 0..Bound : f[n] \in S
<1> DEFINE inside == {n \in Nat : n <= Bound => f[n] \in S}
<1>0. Bound \in Nat
  BY AddressesFinite
<1>1. 0 \in inside
  BY DEF Walks
<1>2. ASSUME NEW n \in inside PROVE n + 1 \in inside
  <2> SUFFICES ASSUME n + 1 <= Bound PROVE f[n + 1] \in S
    OBVIOUS
  <2>1. n + 1 \in 1..Bound /\ (n + 1) - 1 = n /\ f[n] \in S
    BY <1>0
  <2>2. f[n + 1] = Onwards(w, f[n])
    BY <2>1 DEF Walks
  <2> QED BY <2>1, <2>2 DEF Onwards
<1>3. inside \in SUBSET Nat
  OBVIOUS
<1> HIDE DEF inside
<1>4. inside = Nat
  BY <1>1, <1>2, <1>3, NaturalInduction
<1> QED BY <1>0, <1>4 DEF inside

-----------------------------------------------------------------------------
(* The layout of the heap.  Each page that was handed out is cut into      *)
(* blocks of one pool or belongs to a large allocation: kind says which.   *)
(* F[i] holds the blocks on the list of pool i and L those that were freed *)
(* while that list was empty: they hang from the word at address 0.        *)
Big(r) == PoolFor(r.size) = {}
PagesOf(r) == PageOf(Start(r))..(PageOf(Start(r)) + PagesOfBig(r.size) - 1)

Block(kind, i, a) ==
    /\ a \in Addresses /\ a % PoolSize[i] = 0
    /\ PageOf(a) \in 1..(next_page - 1)
    /\ kind[PageOf(a)] = i

(* No link leaves the list of a pool, and no two links are the same: the   *)
(* head is not linked to.                                                  *)
FreeIn(kind, F, i) ==
    /\ \A a \in F[i] : Block(kind, i, a)
    /\ head[i] \in F[i] \cup {nullptr}
    /\ \A a \in F[i] : /\ word[a] \in F[i] \cup {nullptr}
                       /\ word[a] = head[i] => word[a] = nullptr
    /\ \A a, b \in F[i] : word[a] = word[b] => a = b \/ word[a] = nullptr

FreeOK(kind, F) == \A i \in Pools : FreeIn(kind, F, i)

LostOK(kind, F, L) ==
    /\ \A a \in L : a \in Addresses /\ PageOf(a) \in 1..(next_page - 1) /\ kind[PageOf(a)] # 0
    /\ \A i \in Pools : L \cap F[i] = {}
    /\ \A a \in L \cup {nullptr} : word[a] \in L \cup {nullptr}
    /\ \A a, b \in L \cup {nullptr} : word[a] = word[b] => a = b \/ word[a] = nullptr

BigOK(kind, r) ==
    /\ word[Start(r)] = nullptr
    /\ Start(r) % PAGE_SIZE = 0
    /\ PagesOf(r) \subseteq 1..(next_page - 1)
    /\ \A p \in PagesOf(r) : kind[p] = 0 /\ p \notin freed

PooledOK(kind, r) ==
    /\ Block(kind, SmallestPool(r.size), Start(r))
    /\ word[Start(r)] = PoolPointer(SmallestPool(r.size))

Held(kind, F, L, r) ==
    /\ Start(r) \in Addresses /\ PageOf(Start(r)) \in 1..(next_page - 1)
    /\ size_at[Start(r)] = r.size
    /\ Start(r) \notin L /\ \A i \in Pools : Start(r) \notin F[i]
    /\ IF Big(r) THEN BigOK(kind, r) ELSE PooledOK(kind, r)

LiveOK(kind, F, L) == \A r \in live : Held(kind, F, L, r)

DistinctOK ==
    \A r, s \in live :
        r # s => /\ Start(r) # Start(s)
                 /\ Big(r) /\ Big(s) => PagesOf(r) \cap PagesOf(s) = {}

FreedOK(kind) == \A p \in freed : p \in 1..(next_page - 1) /\ kind[p] = 0

HeapTypeOK ==
    /\ head \in [Pools -> Int]
    /\ word \in [Addresses -> Int]
    /\ size_at \in [Addresses -> Nat]
    /\ next_page \in 1..(MaxPages + 1)
    /\ live \subseteq [add : Nat, size : Sizes]

Layout(kind, F, L) ==
    /\ kind \in [1..MaxPages -> {0} \cup Pools]
    /\ F \in [Pools -> SUBSET Addresses] /\ L \in SUBSET Addresses
    /\ FreeOK(kind, F) /\ LostOK(kind, F, L) /\ LiveOK(kind, F, L)
    /\ DistinctOK /\ FreedOK(kind)

HeapInv == HeapTypeOK /\ \E kind, F, L : Layout(kind, F, L)

LEMMA InvInit == KmallocInit => HeapInv
<1> SUFFICES ASSUME KmallocInit PROVE HeapInv
  OBVIOUS
<1>1. HeapTypeOK
  <2>1. 1 \in 1..(MaxPages + 1) /\ nullptr \in Int
    BY Constants DEF nullptr
  <2> QED BY <2>1 DEF KmallocInit, HeapTypeOK
<1> DEFINE kind == [p \in 1..MaxPages |-> 0]
           F == [i \in Pools |-> {}]
<1>2. kind \in [1..MaxPages -> {0} \cup Pools] /\ F \in [Pools -> SUBSET Addresses]
      /\ {} \in SUBSET Addresses
  OBVIOUS
<1>3. FreeOK(kind, F)
  <2>1. \A i \in Pools : F[i] = {} /\ head[i] = nullptr
    BY DEF KmallocInit
  <2> QED BY <2>1 DEF FreeOK, FreeIn
<1>4. LostOK(kind, F, {})
  BY AddressFacts DEF LostOK, KmallocInit
<1>5. LiveOK(kind, F, {}) /\ DistinctOK /\ FreedOK(kind)
  BY DEF LiveOK, DistinctOK, FreedOK, KmallocInit
<1> HIDE DEF kind, F
<1>6. Layout(kind, F, {})
  BY <1>2, <1>3, <1>4, <1>5 DEF Layout
<1> QED BY <1>1, <1>6 DEF HeapInv

-----------------------------------------------------------------------------
(* What the layout says of the heap.                                       *)
LEMMA LiveFacts ==
    ASSUME IntSizes, HeapTypeOK, NEW kind, NEW F, NEW L, Layout(kind, F, L), NEW r \in live
    PROVE  /\ r.size \in Sizes /\ r.size \in Nat /\ r.add \in Nat
           /\ Start(r) \in Addresses \ {nullptr} /\ Start(r) \in Nat
           /\ r.add = Start(r) + KMALLOC_HEADER_SIZE
           /\ PageOf(Start(r)) \in 1..(next_page - 1)
<1>1. r.add \in Nat /\ r.size \in Sizes
  BY DEF HeapTypeOK
<1>2. Start(r) \in Addresses /\ PageOf(Start(r)) \in 1..(next_page - 1)
  BY DEF Layout, LiveOK, Held
<1>3. Start(r) # nullptr /\ Start(r) \in Nat
  <2>1. \A p : p \in 1..(next_page - 1) => p >= 1
    BY DEF HeapTypeOK
  <2> QED BY <1>2, <2>1, AddressFacts
<1>4. r.add = Start(r) + KMALLOC_HEADER_SIZE
  BY <1>1, Constants DEF Start
<1> QED BY <1>1, <1>2, <1>3, <1>4, Constants

(* The bytes of an allocation, its header included.                        *)
Bytes(r) == Start(r)..(r.add + r.size - 1)

(* Those of one from a pool lie in its block, those of a large one in its  *)
(* pages.                                                                  *)
LEMMA PooledBytes ==
    ASSUME IntSizes, HeapTypeOK, NEW kind, NEW F, NEW L, Layout(kind, F, L), NEW r \in live,
           ~Big(r)
    PROVE  /\ SmallestPool(r.size) \in Pools
           /\ Block(kind, SmallestPool(r.size), Start(r))
           /\ Bytes(r) \subseteq BlockBytes(SmallestPool(r.size), Start(r))
           /\ \A b \in Bytes(r) : b \in Nat /\ PageOf(b) = PageOf(Start(r))
<1> DEFINE i == SmallestPool(r.size)
<1>1. /\ r.size \in Sizes /\ r.size \in Nat /\ Start(r) \in Nat
      /\ r.add = Start(r) + KMALLOC_HEADER_SIZE
  BY LiveFacts
<1>2. i \in Pools /\ r.size + KMALLOC_HEADER_SIZE <= PoolSize[i]
  BY <1>1, PoolChosen DEF Big
<1>3. Block(kind, i, Start(r))
  BY DEF Layout, LiveOK, Held, PooledOK
<1> HIDE DEF i
<1>4. PoolSize[i] \in Nat \ {0} /\ KMALLOC_HEADER_SIZE \in Nat
  BY <1>2, Constants
<1>5. Bytes(r) \subseteq BlockBytes(i, Start(r))
  BY <1>1, <1>2, <1>4 DEF Bytes, BlockBytes
<1>6. ASSUME NEW b \in Bytes(r) PROVE b \in Nat /\ PageOf(b) = PageOf(Start(r))
  <2>1. b \in Start(r)..(Start(r) + PoolSize[i] - 1)
    BY <1>5 DEF BlockBytes
  <2>2. Start(r) % PoolSize[i] = 0
    BY <1>3 DEF Block
  <2> QED BY <1>1, <1>2, <2>1, <2>2, ByteInPage
<1> QED BY <1>2, <1>3, <1>5, <1>6 DEF i

LEMMA BigBytes ==
    ASSUME IntSizes, HeapTypeOK, NEW kind, NEW F, NEW L, Layout(kind, F, L), NEW r \in live,
           Big(r)
    PROVE  /\ BigOK(kind, r)
           /\ \A b \in Bytes(r) : b \in Nat /\ PageOf(b) \in PagesOf(r)
           /\ \A p \in PageOf(r.add)..(PageOf(r.add) + FreedPages(r.size) - 1) : p \in PagesOf(r)
<1> DEFINE s == Start(r)
           p == PageOf(s)
           n == PagesOfBig(r.size)
<1>1. /\ r.size \in Sizes /\ r.size \in Nat /\ s \in Nat /\ r.add \in Nat
      /\ r.add = s + KMALLOC_HEADER_SIZE
  BY LiveFacts
<1>2. BigOK(kind, r)
  BY DEF Layout, LiveOK, Held
<1>3. PAGE_SIZE \in Nat \ {0} /\ KMALLOC_HEADER_SIZE \in Nat /\ KMALLOC_HEADER_SIZE < PAGE_SIZE
  BY Constants
<1>4. p \in Nat /\ s = PAGE_SIZE * p
  <2>1. s % PAGE_SIZE = 0
    BY <1>2 DEF BigOK
  <2> QED BY <1>1, <1>3, <2>1, Quotient DEF PageOf
<1>5. /\ n \in Nat \ {0}
      /\ r.size + KMALLOC_HEADER_SIZE <= PAGE_SIZE * (n - 1)
      /\ FreedPages(r.size) \in Nat /\ FreedPages(r.size) < n
  BY <1>1, BigPages
<1> HIDE DEF s, p, n
<1>6. PagesOf(r) = p..(p + n - 1)
  BY DEF PagesOf, s, p, n
<1>7. ASSUME NEW b \in Bytes(r) PROVE b \in Nat /\ PageOf(b) \in PagesOf(r)
  <2>1. b \in Int /\ s <= b /\ b < s + PAGE_SIZE * (n - 1)
    <3>1. b \in s..(s + KMALLOC_HEADER_SIZE + r.size - 1)
      BY <1>1, <1>7 DEF Bytes, s
    <3>2. PAGE_SIZE * (n - 1) \in Int
      BY <1>3, <1>5
    <3> QED BY <1>1, <1>3, <1>5, <3>1, <3>2
  <2>2. b \in Nat
    BY <1>1, <2>1
  <2> DEFINE q == PageOf(b)
  <2>3. q \in Nat /\ PAGE_SIZE * q <= b /\ b < PAGE_SIZE * q + PAGE_SIZE
    BY <2>2, PageFacts
  <2> HIDE DEF q
  <2>4. PAGE_SIZE * (q + 1) = PAGE_SIZE * q + PAGE_SIZE
    BY <1>3, <2>3, Times
  <2>5. PAGE_SIZE * p < PAGE_SIZE * (q + 1)
    BY <1>3, <1>4, <2>1, <2>3, <2>4
  <2>6. p + 1 <= q + 1
    BY <1>3, <1>4, <2>3, <2>5, Cancel
  <2>7. PAGE_SIZE * (p + (n - 1)) = PAGE_SIZE * p + PAGE_SIZE * (n - 1)
    BY <1>3, <1>4, <1>5
  <2>8. PAGE_SIZE * q < PAGE_SIZE * (p + (n - 1))
    BY <1>3, <1>4, <1>5, <2>1, <2>3, <2>7
  <2>9. q + 1 <= p + (n - 1)
    BY <1>3, <1>4, <1>5, <2>3, <2>8, Cancel
  <2>10. q \in p..(p + n - 1)
    BY <1>4, <1>5, <2>3, <2>6, <2>9
  <2> QED BY <1>6, <2>2, <2>10 DEF q
<1>8. PageOf(r.add) = p
  <2>1. PAGE_SIZE * p \in Nat
    BY <1>3, <1>4
  <2> QED BY <1>1, <1>3, <1>4, <2>1, PageIs
<1>9. \A k \in p..(p + FreedPages(r.size) - 1) : k \in p..(p + n - 1)
  BY <1>4, <1>5
<1> QED BY <1>2, <1>6, <1>7, <1>8, <1>9

(* So any two allocations have no byte in common, headers included.        *)
LEMMA LiveApart ==
    ASSUME IntSizes, HeapInv, NEW r \in live, NEW s \in live, r # s
    PROVE  Bytes(r) \cap Bytes(s) = {}
<1>1. PICK kind, F, L : Layout(kind, F, L)
  BY DEF HeapInv
<1>0. HeapTypeOK
  BY DEF HeapInv
<1>2. ASSUME NEW b \in Bytes(r), b \in Bytes(s) PROVE FALSE
  <2>1. CASE Big(r) /\ Big(s)
    <3>1. PagesOf(r) \cap PagesOf(s) = {}
      BY <1>1, <2>1 DEF Layout, DistinctOK
    <3>2. PageOf(b) \in PagesOf(r) /\ PageOf(b) \in PagesOf(s)
      BY <1>0, <1>1, <1>2, <2>1, BigBytes
    <3> QED BY <3>1, <3>2
  <2>2. ASSUME NEW x \in live, NEW y \in live, Big(x), ~Big(y),
               b \in Bytes(x), b \in Bytes(y)
        PROVE  FALSE
    <3>1. PageOf(b) \in PagesOf(x) /\ BigOK(kind, x)
      BY <1>0, <1>1, <2>2, BigBytes
    <3>2. kind[PageOf(b)] = 0
      BY <3>1 DEF BigOK
    <3>3. PageOf(b) = PageOf(Start(y)) /\ kind[PageOf(Start(y))] \in Pools
      BY <1>0, <1>1, <2>2, PooledBytes DEF Block
    <3> QED BY <3>2, <3>3, Constants
  <2>3. CASE ~Big(r) /\ ~Big(s)
    <3> DEFINE i == SmallestPool(r.size)
               j == SmallestPool(s.size)
    <3>1. /\ i \in Pools /\ Block(kind, i, Start(r)) /\ b \in BlockBytes(i, Start(r))
          /\ PageOf(b) = PageOf(Start(r))
      BY <1>0, <1>1, <1>2, <2>3, PooledBytes
    <3>2. /\ j \in Pools /\ Block(kind, j, Start(s)) /\ b \in BlockBytes(j, Start(s))
          /\ PageOf(b) = PageOf(Start(s))
      BY <1>0, <1>1, <1>2, <2>3, PooledBytes
    <3> HIDE DEF i, j
    <3>3. i = j
      BY <3>1, <3>2 DEF Block
    <3>4. Start(r) # Start(s)
      BY <1>1 DEF Layout, DistinctOK
    <3>5. /\ Start(r) \in Nat /\ Start(s) \in Nat
          /\ Start(r) % PoolSize[i] = 0 /\ Start(s) % PoolSize[i] = 0
      BY <3>1, <3>2, <3>3, AddressFacts DEF Block
    <3>6. BlockBytes(i, Start(r)) \cap BlockBytes(i, Start(s)) = {}
      BY <3>1, <3>4, <3>5, BlocksOfPoolApart
    <3> QED BY <3>1, <3>2, <3>3, <3>6
  <2> QED BY <1>2, <2>1, <2>2, <2>3
<1> QED BY <1>2

(* The blocks the list of a pool goes through.                             *)
LEMMA FreeBlocksInside ==
    ASSUME HeapTypeOK, NEW kind, NEW F, NEW L, Layout(kind, F, L), NEW i \in Pools
    PROVE  FreeBlocks(i) \subseteq F[i]
<1>1. CASE head[i] = nullptr
  BY <1>1 DEF FreeBlocks
<1>2. CASE head[i] # nullptr
  <2>1. head[i] \in F[i] /\ head[i] \in Addresses
    BY <1>2 DEF Layout, FreeOK, FreeIn, Block
  <2> DEFINE f == WalkFrom(head[i])
  <2>2. f = WalkOf(word, head[i])
    BY DEF WalkFrom, WalkOf
  <2> HIDE DEF f
  <2>3. Walks(f, word, head[i])
    BY <2>1, <2>2, WalkExists
  <2>4. \A b \in F[i] : word[b] \in Addresses \ {nullptr} => word[b] \in F[i]
    <3>0. FreeIn(kind, F, i)
      BY DEF Layout, FreeOK
    <3>1. ASSUME NEW b \in F[i] PROVE word[b] \in F[i] \cup {nullptr}
      BY <3>0 DEF FreeIn
    <3> QED BY <3>1
  <2>5. \A n \in 0..Bound : f[n] \in F[i]
    BY <2>1, <2>3, <2>4, WalkStays
  <2>6. DOMAIN f = 0..Bound
    BY <2>3 DEF Walks
  <2> QED BY <1>2, <2>5, <2>6 DEF FreeBlocks, f
<1> QED BY <1>1, <1>2

LEMMA ListsApart == IntSizes /\ HeapInv => FreeListsApart
<1> SUFFICES ASSUME IntSizes, HeapInv PROVE FreeListsApart
  OBVIOUS
<1>0. HeapTypeOK
  BY DEF HeapInv
<1>1. PICK kind, F, L : Layout(kind, F, L)
  BY DEF HeapInv
<1>2. ASSUME NEW i \in Pools, NEW a \in FreeBlocks(i)
      PROVE  a \in F[i] /\ Block(kind, i, a) /\ a \in Nat /\ a % PoolSize[i] = 0
  <2>1. a \in F[i]
    BY <1>0, <1>1, FreeBlocksInside
  <2>2. Block(kind, i, a)
    BY <1>1, <2>1 DEF Layout, FreeOK, FreeIn
  <2> QED BY <2>1, <2>2, AddressFacts DEF Block
<1>3. ASSUME NEW i \in Pools, NEW a \in FreeBlocks(i), NEW r \in live,
             NEW b \in BlockBytes(i, a), b \in Bytes(r)
      PROVE  FALSE
  <2>0. Block(kind, i, a) /\ a \in Nat /\ a % PoolSize[i] = 0 /\ a \in F[i]
    BY <1>2
  <2>1. PageOf(b) = PageOf(a)
    BY <1>3, <2>0, ByteInPage DEF BlockBytes
  <2>2. kind[PageOf(b)] = i
    BY <2>0, <2>1 DEF Block
  <2>3. CASE Big(r)
    <3>1. PageOf(b) \in PagesOf(r) /\ BigOK(kind, r)
      BY <1>0, <1>1, <1>3, <2>3, BigBytes
    <3> QED BY <2>2, <3>1, Constants DEF BigOK
  <2>4. CASE ~Big(r)
    <3> DEFINE j == SmallestPool(r.size)
    <3>1. /\ j \in Pools /\ Block(kind, j, Start(r)) /\ b \in BlockBytes(j, Start(r))
          /\ PageOf(b) = PageOf(Start(r))
      BY <1>0, <1>1, <1>3, <2>4, PooledBytes
    <3> HIDE DEF j
    <3>2. j = i
      BY <2>2, <3>1 DEF Block
    <3>3. Start(r) # a
      BY <1>1, <2>0 DEF Layout, LiveOK, Held
    <3>4. Start(r) \in Nat /\ Start(r) % PoolSize[i] = 0
      BY <3>1, <3>2, AddressFacts DEF Block
    <3>5. BlockBytes(i, a) \cap BlockBytes(i, Start(r)) = {}
      BY <2>0, <3>3, <3>4, BlocksOfPoolApart
    <3> QED BY <1>3, <3>1, <3>2, <3>5
  <2> QED BY <2>3, <2>4
<1>4. ASSUME NEW i \in Pools, NEW a \in FreeBlocks(i), NEW j \in Pools \ {i},
             NEW c \in FreeBlocks(j), NEW b \in BlockBytes(i, a), b \in BlockBytes(j, c)
      PROVE  FALSE
  <2>1. PageOf(b) = PageOf(a) /\ PageOf(b) = PageOf(c)
    BY <1>2, <1>4, ByteInPage DEF BlockBytes
  <2>2. kind[PageOf(a)] = i /\ kind[PageOf(c)] = j
    BY <1>2 DEF Block
  <2> QED BY <2>1, <2>2
<1> QED BY <1>2, <1>3, <1>4 DEF FreeListsApart, Bytes

LEMMA HeadersSay == IntSizes /\ HeapInv => HeadersKept
<1> SUFFICES ASSUME HeapInv, NEW r \in live
             PROVE  /\ size_at[Start(r)] = r.size
                    /\ word[Start(r)] = IF PoolFor(r.size) = {} THEN nullptr
                                        ELSE PoolPointer(SmallestPool(r.size))
  BY DEF HeadersKept
<1> QED BY DEF HeapInv, Layout, LiveOK, Held, Big, BigOK, PooledOK

LEMMA PagesHeld == IntSizes /\ HeapInv => LivePagesKept
<1> SUFFICES ASSUME IntSizes, HeapInv, NEW r \in live, NEW b \in Bytes(r)
             PROVE  PageOf(b) \in 1..(next_page - 1) \ freed
  BY DEF LivePagesKept, Bytes
<1>0. HeapTypeOK
  BY DEF HeapInv
<1>1. PICK kind, F, L : Layout(kind, F, L)
  BY DEF HeapInv
<1>2. CASE Big(r)
  <2>1. PageOf(b) \in PagesOf(r) /\ BigOK(kind, r)
    BY <1>0, <1>1, <1>2, BigBytes
  <2> QED BY <2>1 DEF BigOK
<1>3. CASE ~Big(r)
  <2>1. PageOf(b) = PageOf(Start(r)) /\ SmallestPool(r.size) \in Pools
        /\ Block(kind, SmallestPool(r.size), Start(r))
    BY <1>0, <1>1, <1>3, PooledBytes
  <2>2. kind[PageOf(b)] # 0
    BY <2>1, Constants DEF Block
  <2>3. PageOf(b) \notin freed
    BY <1>1, <2>2 DEF Layout, FreedOK
  <2> QED BY <2>1, <2>3 DEF Block
<1> QED BY <1>2, <1>3

-----------------------------------------------------------------------------
LEMMA EarlierPages ==
    ASSUME HeapTypeOK, next_page' \in Int, next_page <= next_page'
    PROVE  \A p : p \in 1..(next_page - 1) => p \in 1..(next_page' - 1)
<1>1. next_page \in Int
  BY Constants DEF HeapTypeOK
<1>2. \A m, n \in Int : m <= n => \A p : p \in 1..(m - 1) => p \in 1..(n - 1)
  OBVIOUS
<1> QED BY <1>1, <1>2

(* The steps.  An allocation stays where it is when a step leaves its      *)
(* header and its pages alone.                                             *)
LEMMA HeldStays ==
    ASSUME HeapTypeOK, NEW kind, NEW F, NEW L, NEW r, Held(kind, F, L, r),
           NEW kind2, NEW F2, NEW L2,
           next_page' \in Int, next_page <= next_page',
           word'[Start(r)] = word[Start(r)], size_at'[Start(r)] = size_at[Start(r)],
           \A p \in 1..(next_page - 1) : kind2[p] = kind[p],
           Start(r) \notin L2, \A i \in Pools : Start(r) \notin F2[i],
           \A p \in PagesOf(r) : Big(r) /\ p \notin freed => p \notin freed'
    PROVE  Held(kind2, F2, L2, r)'
<1>1. \A p : p \in 1..(next_page - 1) => p \in 1..(next_page' - 1)
  BY EarlierPages
<1>2. ASSUME BigOK(kind, r), Big(r) PROVE BigOK(kind2, r)'
  BY <1>1, <1>2 DEF BigOK
<1>3. ASSUME PooledOK(kind, r) PROVE PooledOK(kind2, r)'
  BY <1>1, <1>3 DEF PooledOK, Block
<1> QED BY <1>1, <1>2, <1>3 DEF Held

(* The same for the lists of the other pools.                              *)
LEMMA BlockStays ==
    ASSUME HeapTypeOK, NEW kind, NEW kind2, NEW i, NEW a, Block(kind, i, a),
           next_page' \in Int, next_page <= next_page',
           \A p \in 1..(next_page - 1) : kind2[p] = kind[p]
    PROVE  Block(kind2, i, a)'
<1>1. \A p : p \in 1..(next_page - 1) => p \in 1..(next_page' - 1)
  BY EarlierPages
<1> QED BY <1>1 DEF Block

LEMMA ListStays ==
    ASSUME HeapTypeOK, NEW kind, NEW F, NEW i, FreeIn(kind, F, i),
           NEW kind2, NEW F2, F2[i] = F[i], head'[i] = head[i],
           next_page' \in Int, next_page <= next_page',
           \A p \in 1..(next_page - 1) : kind2[p] = kind[p],
           \A a \in F[i] : word'[a] = word[a]
    PROVE  FreeIn(kind2, F2, i)'
<1>1. \A a \in F[i] : Block(kind2, i, a)'
  BY BlockStays DEF FreeIn
<1> QED BY <1>1 DEF FreeIn

LEMMA LostStays ==
    ASSUME HeapTypeOK, NEW kind, NEW F, NEW L, LostOK(kind, F, L), NEW kind2, NEW F2,
           \A i \in Pools : L \cap F2[i] = {},
           next_page' \in Int, next_page <= next_page',
           \A p \in 1..(next_page - 1) : kind2[p] = kind[p],
           \A a \in L \cup {nullptr} : word'[a] = word[a]
    PROVE  LostOK(kind2, F2, L)'
<1>1. \A p : p \in 1..(next_page - 1) => p \in 1..(next_page' - 1)
  BY EarlierPages
<1> QED BY <1>1 DEF LostOK

(* The header written for a new allocation.                                *)
LEMMA NewRecord ==
    ASSUME IntSizes, NEW start \in Addresses, NEW size \in Sizes
    PROVE  LET r == [add |-> start + KMALLOC_HEADER_SIZE, size |-> size]
           IN  r \in [add : Nat, size : Sizes] /\ Start(r) = start /\ r.size = size
<1>1. start \in Nat /\ KMALLOC_HEADER_SIZE \in Nat
  BY AddressFacts, Constants
<1> QED BY <1>1 DEF Start

(* A block is popped off the list of its pool.                             *)
LEMMA PopStep ==
    ASSUME IntSizes, HeapInv, NEW size \in Sizes, PoolFor(size) # {}, NEW i,
           i = SmallestPool(size), FromPool(i, size), head[i] # nullptr
    PROVE  HeapInv'
<1>0. HeapTypeOK
  BY DEF HeapInv
<1>1. PICK kind, F, L : Layout(kind, F, L)
  BY DEF HeapInv
<1>2. /\ kind \in [1..MaxPages -> {0} \cup Pools]
      /\ F \in [Pools -> SUBSET Addresses] /\ L \in SUBSET Addresses
      /\ \A j \in Pools : FreeIn(kind, F, j)
      /\ LostOK(kind, F, L) /\ LiveOK(kind, F, L) /\ DistinctOK /\ FreedOK(kind)
  BY <1>1 DEF Layout, FreeOK
<1>3. i \in Pools
  BY PoolChosen
<1>a. PICK block : block = head[i]
  OBVIOUS
<1>b. PICK new : new = [add |-> block + KMALLOC_HEADER_SIZE, size |-> size]
  OBVIOUS
<1>c. PICK F2 : F2 = [F EXCEPT ![i] = F[i] \ {block}]
  OBVIOUS
<1>4. block \in F[i] /\ Block(kind, i, block) /\ block \in Addresses \ {nullptr}
      /\ PageOf(block) \in 1..(next_page - 1)
  <2>1. block \in F[i] /\ Block(kind, i, block)
    BY <1>2, <1>3, <1>a DEF FreeIn
  <2> QED BY <1>a, <2>1 DEF Block
<1>5. /\ next_page' = next_page
      /\ head' = [head EXCEPT ![i] = word[block]]
      /\ word' = [word EXCEPT ![block] = PoolPointer(i)]
      /\ size_at' = [size_at EXCEPT ![block] = size]
      /\ live' = live \cup {new}
      /\ freed' = freed
  BY <1>a, <1>b DEF FromPool, Return
<1>6. new \in [add : Nat, size : Sizes] /\ Start(new) = block /\ new.size = size
  BY <1>4, <1>b, NewRecord
<1>7. next_page \in Int /\ next_page' \in Int /\ next_page <= next_page'
  BY <1>0, <1>5, Constants DEF HeapTypeOK
<1>8. /\ \A j \in Pools : j # i => F2[j] = F[j] /\ head'[j] = head[j]
      /\ F2[i] = F[i] \ {block} /\ head'[i] = word[block]
      /\ F2 \in [Pools -> SUBSET Addresses]
      /\ \A j \in Pools : F2[j] \subseteq F[j]
  BY <1>0, <1>2, <1>3, <1>5, <1>c DEF HeapTypeOK
<1>9. /\ \A a \in Addresses : a # block => word'[a] = word[a] /\ size_at'[a] = size_at[a]
      /\ word'[block] = PoolPointer(i) /\ size_at'[block] = size
  BY <1>0, <1>4, <1>5 DEF HeapTypeOK
<1>10. HeapTypeOK'
  <2>1. word[block] \in Int /\ PoolPointer(i) \in Int /\ size \in Nat
    BY <1>0, <1>3, <1>4, Constants DEF HeapTypeOK, PoolPointer
  <2>2. head' \in [Pools -> Int] /\ word' \in [Addresses -> Int] /\ size_at' \in [Addresses -> Nat]
    BY <1>0, <1>5, <2>1 DEF HeapTypeOK
  <2> QED BY <1>0, <1>5, <1>6, <2>2 DEF HeapTypeOK
<1>11. ASSUME NEW j \in Pools PROVE FreeIn(kind, F2, j)'
  <2>1. CASE j # i
    <3>1. block \notin F[j]
      BY <1>2, <1>4, <2>1 DEF FreeIn, Block
    <3>2. \A a \in F[j] : word'[a] = word[a]
      BY <1>2, <1>9, <3>1
    <3> QED BY <1>0, <1>2, <1>7, <1>8, <2>1, <3>2, ListStays
  <2>2. CASE j = i
    <3>1. FreeIn(kind, F, i)
      BY <1>2, <1>3
    <3>2. \A a \in F2[i] : a \in F[i] /\ a # block /\ word'[a] = word[a]
      BY <1>2, <1>3, <1>8, <1>9
    <3>3. ASSUME NEW a \in F2[i] PROVE Block(kind, i, a)'
      <4>1. Block(kind, i, a)
        BY <3>1, <3>2 DEF FreeIn
      <4> QED BY <1>5, <4>1 DEF Block
    <3>4. /\ word[block] \in F[i] \cup {nullptr}
          /\ word[block] = block => word[block] = nullptr
      BY <1>4, <1>a, <3>1 DEF FreeIn
    <3>5. head'[i] \in F2[i] \cup {nullptr}
      BY <1>4, <1>8, <3>4
    <3>6. ASSUME NEW a \in F2[i]
          PROVE  /\ word'[a] \in F2[i] \cup {nullptr}
                 /\ word'[a] = head'[i] => word'[a] = nullptr
      <4>1. /\ word[a] \in F[i] \cup {nullptr}
            /\ word[a] = block => word[a] = nullptr
            /\ word[a] = word[block] => a = block \/ word[a] = nullptr
        BY <1>4, <1>a, <3>1, <3>2 DEF FreeIn
      <4> QED BY <1>8, <3>2, <4>1
    <3>7. \A a, b \in F2[i] : word'[a] = word'[b] => a = b \/ word'[a] = nullptr
      BY <3>1, <3>2 DEF FreeIn
    <3> QED BY <2>2, <3>3, <3>5, <3>6, <3>7 DEF FreeIn
  <2> QED BY <2>1, <2>2
<1>12. LostOK(kind, F2, L)'
  <2>1. block \notin L /\ \A j \in Pools : L \cap F2[j] = {}
    BY <1>2, <1>3, <1>4, <1>8 DEF LostOK
  <2>2. \A a \in L \cup {nullptr} : word'[a] = word[a]
    BY <1>2, <1>4, <1>9, <2>1, AddressFacts
  <2> QED BY <1>0, <1>2, <1>7, <2>1, <2>2, LostStays
<1>13. ASSUME NEW r \in live PROVE Held(kind, F2, L, r)' /\ Start(r) # block
  <2>1. Held(kind, F, L, r)
    BY <1>2 DEF LiveOK
  <2>2. Start(r) \in Addresses /\ Start(r) # block /\ Start(r) \notin L
        /\ \A j \in Pools : Start(r) \notin F2[j]
    BY <1>3, <1>4, <1>8, <2>1 DEF Held
  <2>3. word'[Start(r)] = word[Start(r)] /\ size_at'[Start(r)] = size_at[Start(r)]
    BY <1>9, <2>2
  <2>4. \A p \in PagesOf(r) : Big(r) /\ p \notin freed => p \notin freed'
    BY <1>5
  <2> QED BY <1>0, <1>7, <2>1, <2>2, <2>3, <2>4, HeldStays
<1>14. ~Big(new) /\ SmallestPool(new.size) = i
  BY <1>6 DEF Big
<1>15. Held(kind, F2, L, new)'
  <2>1. block \notin L /\ \A j \in Pools : block \notin F2[j]
    <3>1. block \notin L
      BY <1>2, <1>3, <1>4 DEF LostOK
    <3>2. ASSUME NEW j \in Pools, block \in F2[j] PROVE FALSE
      <4>1. j # i /\ block \in F[j]
        BY <1>8, <3>2
      <4>2. Block(kind, j, block)
        BY <1>2, <4>1 DEF FreeIn
      <4> QED BY <1>4, <4>1, <4>2 DEF Block
    <3> QED BY <3>1, <3>2
  <2>2. Block(kind, i, block)'
    BY <1>4, <1>5 DEF Block
  <2>3. PooledOK(kind, new)'
    BY <1>6, <1>9, <1>14, <2>2 DEF PooledOK
  <2> QED BY <1>4, <1>5, <1>6, <1>9, <1>14, <2>1, <2>3 DEF Held
<1>16. LiveOK(kind, F2, L)'
  BY <1>5, <1>13, <1>15 DEF LiveOK
<1>17. DistinctOK'
  <2> SUFFICES ASSUME NEW r \in live', NEW s \in live', r # s
               PROVE  /\ Start(r) # Start(s)
                      /\ Big(r) /\ Big(s) => PagesOf(r) \cap PagesOf(s) = {}
    BY DEF DistinctOK
  <2>1. CASE r \in live /\ s \in live
    BY <1>2, <2>1 DEF DistinctOK
  <2>2. CASE r = new \/ s = new
    BY <1>5, <1>6, <1>13, <1>14, <2>2
  <2> QED BY <1>5, <2>1, <2>2
<1>18. FreedOK(kind)'
  BY <1>2, <1>5 DEF FreedOK
<1>19. Layout(kind, F2, L)'
  BY <1>2, <1>8, <1>11, <1>12, <1>16, <1>17, <1>18 DEF Layout, FreeOK
<1> QED BY <1>10, <1>19 DEF HeapInv

(* The links of a page cut into blocks.                                    *)
LEMMA CarvedLinks ==
    ASSUME HeapTypeOK, next_page <= MaxPages, NEW i \in Pools,
           NEW New, New = {a \in Addresses : PageOf(a) = next_page /\ a % PoolSize[i] = 0},
           NEW first, first = next_page * PAGE_SIZE,
           NEW w, w = Carved(i, word, nullptr)
    PROVE  /\ first \in New
           /\ w \in [Addresses -> Int]
           /\ \A a \in Addresses : PageOf(a) # next_page => w[a] = word[a]
           /\ \A a \in New : w[a] \in (New \ {first}) \cup {nullptr}
           /\ \A a, b \in New : w[a] = w[b] => a = b \/ w[a] = nullptr
<1>0. next_page \in 1..MaxPages /\ next_page \in Nat
  BY Constants DEF HeapTypeOK
<1>1. PoolSize[i] \in Nat \ {0} /\ PAGE_SIZE \in Nat \ {0}
  BY Constants
<1>2. first \in Addresses /\ PageOf(first) = next_page /\ first % PoolSize[i] = 0
      /\ first = PAGE_SIZE * next_page /\ first \in Nat
  BY <1>0, PageAddress, PageStart
<1>3. first \in New
  BY <1>2
<1>4. \A a \in Addresses :
        w[a] = IF PageOf(a) # next_page \/ a % PoolSize[i] # 0 THEN word[a]
               ELSE IF PageOf(a + PoolSize[i]) = next_page THEN a + PoolSize[i]
               ELSE nullptr
  BY DEF Carved
<1>5. \A a \in Addresses : PageOf(a) # next_page => w[a] = word[a]
  BY <1>4
<1>6. ASSUME NEW a \in New
      PROVE  /\ w[a] \in (New \ {first}) \cup {nullptr}
             /\ w[a] = nullptr \/ w[a] = a + PoolSize[i]
  <2>1. a \in Addresses /\ PageOf(a) = next_page /\ a % PoolSize[i] = 0 /\ a \in Nat
    BY AddressFacts
  <2>2. CASE PageOf(a + PoolSize[i]) = next_page
    <3>1. w[a] = a + PoolSize[i]
      BY <1>4, <2>1, <2>2
    <3>2. a + PoolSize[i] \in Addresses /\ (a + PoolSize[i]) % PoolSize[i] = 0
      BY <1>0, <2>1, <2>2, NextBlock
    <3>3. a >= first
      BY <1>2, <2>1, PageFacts
    <3>4. a + PoolSize[i] # first
      BY <1>1, <1>2, <2>1, <3>3
    <3> QED BY <2>2, <3>1, <3>2, <3>4
  <2>3. CASE PageOf(a + PoolSize[i]) # next_page
    BY <1>4, <2>1, <2>3
  <2> QED BY <2>2, <2>3
<1>7. ASSUME NEW a \in New, NEW b \in New, w[a] = w[b], w[a] # nullptr PROVE a = b
  <2>1. a \in Nat /\ b \in Nat /\ a + PoolSize[i] = b + PoolSize[i]
    BY <1>6, <1>7, AddressFacts
  <2> QED BY <1>1, <2>1
<1>8. w \in [Addresses -> Int]
  <2>1. DOMAIN w = Addresses /\ w = [a \in Addresses |-> w[a]]
    BY DEF Carved
  <2>2. ASSUME NEW a \in Addresses PROVE w[a] \in Int
    <3>1. CASE a \in New
      <4>1. a \in Nat
        BY AddressFacts
      <4> QED BY <1>1, <1>6, <3>1, <4>1 DEF nullptr
    <3>2. CASE a \notin New
      <4>1. w[a] = word[a]
        BY <1>4, <3>2
      <4> QED BY <4>1 DEF HeapTypeOK
    <3> QED BY <3>1, <3>2
  <2> QED BY <2>1, <2>2
<1> QED BY <1>3, <1>5, <1>6, <1>7, <1>8

(* A page is cut into blocks for a pool whose list is empty.               *)
LEMMA RefillStep ==
    ASSUME IntSizes, HeapInv, NEW size \in Sizes, PoolFor(size) # {}, NEW i,
           i = SmallestPool(size), FromPool(i, size), head[i] = nullptr, clean'
    PROVE  HeapInv'
<1>0. HeapTypeOK
  BY DEF HeapInv
<1>1. PICK kind, F, L : Layout(kind, F, L)
  BY DEF HeapInv
<1>2. /\ kind \in [1..MaxPages -> {0} \cup Pools]
      /\ F \in [Pools -> SUBSET Addresses] /\ L \in SUBSET Addresses
      /\ \A j \in Pools : FreeIn(kind, F, j)
      /\ LostOK(kind, F, L) /\ LiveOK(kind, F, L) /\ DistinctOK /\ FreedOK(kind)
  BY <1>1 DEF Layout, FreeOK
<1>3. i \in Pools
  BY PoolChosen
<1>a. PICK page : page = next_page
  OBVIOUS
<1>b. PICK block : block = page * PAGE_SIZE
  OBVIOUS
<1>c. PICK New : New = {a \in Addresses : PageOf(a) = page /\ a % PoolSize[i] = 0}
  OBVIOUS
<1>d. PICK w : w = Carved(i, word, nullptr)
  OBVIOUS
<1>e. PICK new : new = [add |-> block + KMALLOC_HEADER_SIZE, size |-> size]
  OBVIOUS
<1>f. PICK F2 : F2 = [F EXCEPT ![i] = New \ {block}]
  OBVIOUS
<1>g. PICK kind2 : kind2 = [kind EXCEPT ![page] = i]
  OBVIOUS
<1>4. /\ next_page <= MaxPages /\ page \in 1..MaxPages /\ page \in Nat
      /\ next_page' = page + 1
      /\ head' = [head EXCEPT ![i] = w[block]]
      /\ word' = [w EXCEPT ![block] = PoolPointer(i)]
      /\ size_at' = [size_at EXCEPT ![block] = size]
      /\ live' = live \cup {new}
      /\ freed' = freed
  <2>1. PICK fresh \in FreshWords :
          /\ next_page <= MaxPages
          /\ next_page' = next_page + 1
          /\ head' = [head EXCEPT ![i] = Carved(i, word, fresh)[next_page * PAGE_SIZE]]
          /\ word' = [Carved(i, word, fresh) EXCEPT ![next_page * PAGE_SIZE] = PoolPointer(i)]
          /\ size_at' = [size_at EXCEPT ![next_page * PAGE_SIZE] = size]
          /\ Return(next_page * PAGE_SIZE, size)
          /\ clean' = (clean /\ fresh = nullptr)
          /\ UNCHANGED freed
    BY DEF FromPool
  <2>2. fresh = nullptr
    BY <2>1
  <2>3. page \in 1..MaxPages /\ page \in Nat
    BY <1>0, <1>a, <2>1, Constants DEF HeapTypeOK
  <2> QED BY <1>a, <1>b, <1>d, <1>e, <2>1, <2>2, <2>3 DEF Return
<1>5. /\ block \in New
      /\ w \in [Addresses -> Int]
      /\ \A a \in Addresses : PageOf(a) # page => w[a] = word[a]
      /\ \A a \in New : w[a] \in (New \ {block}) \cup {nullptr}
      /\ \A a, b \in New : w[a] = w[b] => a = b \/ w[a] = nullptr
  BY <1>0, <1>3, <1>4, <1>a, <1>b, <1>c, <1>d, CarvedLinks
<1>6. block \in Addresses \ {nullptr} /\ PageOf(block) = page
      /\ New \subseteq Addresses /\ \A a \in New : PageOf(a) = page
  BY <1>4, <1>5, <1>b, <1>c, PageAddress
<1>7. new \in [add : Nat, size : Sizes] /\ Start(new) = block /\ new.size = size
  BY <1>6, <1>e, NewRecord
<1>8. next_page \in Int /\ next_page' \in Int /\ next_page <= next_page'
      /\ page \in 1..(next_page' - 1)
      /\ \A p : p \in 1..(next_page - 1) => p # page
  BY <1>4, <1>a
<1>9. /\ \A j \in Pools : j # i => F2[j] = F[j] /\ head'[j] = head[j]
      /\ F2[i] = New \ {block} /\ head'[i] = w[block]
      /\ F2 \in [Pools -> SUBSET Addresses]
  <2>1. New \ {block} \in SUBSET Addresses
    BY <1>6
  <2> QED BY <1>0, <1>2, <1>3, <1>4, <1>f, <2>1 DEF HeapTypeOK
<1>10. /\ kind2 \in [1..MaxPages -> {0} \cup Pools] /\ kind2[page] = i
       /\ \A p \in 1..(next_page - 1) : kind2[p] = kind[p]
  BY <1>2, <1>3, <1>4, <1>8, <1>g
<1>11. /\ \A a \in Addresses : PageOf(a) # page => word'[a] = word[a] /\ size_at'[a] = size_at[a]
       /\ \A a \in New \ {block} : word'[a] = w[a]
       /\ word'[block] = PoolPointer(i) /\ size_at'[block] = size
  BY <1>0, <1>4, <1>5, <1>6 DEF HeapTypeOK
<1>12. HeapTypeOK'
  <2>1. w[block] \in Int /\ PoolPointer(i) \in Int /\ size \in Nat
    BY <1>3, <1>5, <1>6, Constants DEF PoolPointer
  <2>2. head' \in [Pools -> Int] /\ word' \in [Addresses -> Int] /\ size_at' \in [Addresses -> Nat]
    BY <1>0, <1>4, <1>5, <2>1 DEF HeapTypeOK
  <2>3. next_page' \in 1..(MaxPages + 1)
    BY <1>4, Constants
  <2> QED BY <1>0, <1>4, <1>7, <2>2, <2>3 DEF HeapTypeOK
<1>13. ASSUME NEW a \in Addresses, PageOf(a) \in 1..(next_page - 1)
       PROVE  a \notin New /\ a # block /\ word'[a] = word[a] /\ size_at'[a] = size_at[a]
  BY <1>6, <1>8, <1>11, <1>13
<1>14. ASSUME NEW j \in Pools PROVE FreeIn(kind2, F2, j)'
  <2>1. CASE j # i
    <3>1. \A a \in F[j] : word'[a] = word[a]
      BY <1>2, <1>13 DEF FreeIn, Block
    <3> QED BY <1>0, <1>2, <1>8, <1>9, <1>10, <2>1, <3>1, ListStays
  <2>2. CASE j = i
    <3>1. ASSUME NEW a \in F2[i] PROVE Block(kind2, i, a)'
      <4>1. a \in Addresses /\ PageOf(a) = page /\ a % PoolSize[i] = 0
        BY <1>9, <1>c
      <4> QED BY <1>8, <1>10, <4>1 DEF Block
    <3>2. head'[i] \in F2[i] \cup {nullptr}
      BY <1>5, <1>9
    <3>3. ASSUME NEW a \in F2[i]
          PROVE  /\ word'[a] \in F2[i] \cup {nullptr}
                 /\ word'[a] = head'[i] => word'[a] = nullptr
      <4>1. a \in New /\ a # block /\ word'[a] = w[a]
        BY <1>9, <1>11
      <4>2. w[a] = w[block] => a = block \/ w[a] = nullptr
        BY <1>5, <4>1
      <4> QED BY <1>5, <1>9, <4>1, <4>2
    <3>4. \A a, b \in F2[i] : word'[a] = word'[b] => a = b \/ word'[a] = nullptr
      BY <1>5, <1>9, <1>11
    <3> QED BY <2>2, <3>1, <3>2, <3>3, <3>4 DEF FreeIn
  <2> QED BY <2>1, <2>2
<1>15. LostOK(kind2, F2, L)'
  <2>1. \A j \in Pools : L \cap F2[j] = {}
    <3>1. ASSUME NEW a \in L PROVE a \notin New
      BY <1>2, <1>13, <3>1 DEF LostOK
    <3> QED BY <1>2, <1>9, <3>1 DEF LostOK
  <2>2. PageOf(nullptr) # page
    BY <1>4, AddressFacts
  <2>3. ASSUME NEW a \in L \cup {nullptr} PROVE word'[a] = word[a]
    <3>1. CASE a = nullptr
      BY <1>11, <2>2, <3>1, AddressFacts
    <3>2. CASE a \in L
      BY <1>2, <1>13, <3>2 DEF LostOK
    <3> QED BY <3>1, <3>2
  <2> QED BY <1>0, <1>2, <1>8, <1>10, <2>1, <2>3, LostStays
<1>16. ASSUME NEW r \in live PROVE Held(kind2, F2, L, r)' /\ Start(r) # block
  <2>1. Held(kind, F, L, r)
    BY <1>2 DEF LiveOK
  <2>2. Start(r) \in Addresses /\ Start(r) # block /\ Start(r) \notin L
        /\ word'[Start(r)] = word[Start(r)] /\ size_at'[Start(r)] = size_at[Start(r)]
        /\ Start(r) \notin New
    BY <1>13, <2>1 DEF Held
  <2>3. \A j \in Pools : Start(r) \notin F2[j]
    BY <1>9, <2>1, <2>2 DEF Held
  <2>4. \A p \in PagesOf(r) : Big(r) /\ p \notin freed => p \notin freed'
    BY <1>4
  <2>5. Held(kind2, F2, L, r)'
    BY <1>0, <1>8, <1>10, <2>1, <2>2, <2>3, <2>4, HeldStays
  <2> QED BY <2>2, <2>5
<1>17. ~Big(new) /\ SmallestPool(new.size) = i
  BY <1>7 DEF Big
<1>18. Held(kind2, F2, L, new)'
  <2>1. block \notin L /\ \A j \in Pools : block \notin F2[j]
    <3>1. ASSUME NEW j \in Pools, block \in F[j] PROVE FALSE
      BY <1>2, <1>6, <1>8, <3>1 DEF FreeIn, Block
    <3>2. block \notin L
      BY <1>2, <1>6, <1>8 DEF LostOK
    <3> QED BY <1>9, <3>1, <3>2
  <2>2. Block(kind2, i, block)'
    BY <1>5, <1>6, <1>8, <1>10, <1>c DEF Block
  <2>3. PooledOK(kind2, new)'
    BY <1>7, <1>11, <1>17, <2>2 DEF PooledOK
  <2> QED BY <1>6, <1>7, <1>8, <1>11, <1>17, <2>1, <2>3 DEF Held
<1>19. LiveOK(kind2, F2, L)'
  BY <1>4, <1>16, <1>18 DEF LiveOK
<1>20. DistinctOK'
  <2> SUFFICES ASSUME NEW r \in live', NEW s \in live', r # s
               PROVE  /\ Start(r) # Start(s)
                      /\ Big(r) /\ Big(s) => PagesOf(r) \cap PagesOf(s) = {}
    BY DEF DistinctOK
  <2>1. CASE r \in live /\ s \in live
    BY <1>2, <2>1 DEF DistinctOK
  <2>2. CASE r = new \/ s = new
    BY <1>4, <1>7, <1>16, <1>17, <2>2
  <2> QED BY <1>4, <2>1, <2>2
<1>21. FreedOK(kind2)'
  <2>1. ASSUME NEW p \in freed PROVE p \in 1..(next_page' - 1) /\ kind2[p] = 0
    BY <1>0, <1>2, <1>8, <1>10, <2>1, EarlierPages DEF FreedOK
  <2> QED BY <1>4, <2>1 DEF FreedOK
<1>22. Layout(kind2, F2, L)'
  BY <1>2, <1>9, <1>10, <1>14, <1>15, <1>19, <1>20, <1>21 DEF Layout, FreeOK
<1> QED BY <1>12, <1>22 DEF HeapInv

(* A large allocation gets the next pages of the heap.                     *)
LEMMA BigStep ==
    ASSUME IntSizes, HeapInv, NEW size \in Sizes, PoolFor(size) = {}, kmalloc_big(size)
    PROVE  HeapInv'
<1>0. HeapTypeOK
  BY DEF HeapInv
<1>1. PICK kind, F, L : Layout(kind, F, L)
  BY DEF HeapInv
<1>2. /\ kind \in [1..MaxPages -> {0} \cup Pools]
      /\ F \in [Pools -> SUBSET Addresses] /\ L \in SUBSET Addresses
      /\ \A j \in Pools : FreeIn(kind, F, j)
      /\ LostOK(kind, F, L) /\ LiveOK(kind, F, L) /\ DistinctOK /\ FreedOK(kind)
  BY <1>1 DEF Layout, FreeOK
<1>a. PICK page : page = next_page
  OBVIOUS
<1>b. PICK start : start = page * PAGE_SIZE
  OBVIOUS
<1>c. PICK n : n = PagesOfBig(size)
  OBVIOUS
<1>e. PICK new : new = [add |-> start + KMALLOC_HEADER_SIZE, size |-> size]
  OBVIOUS
<1>g. PICK kind2 : kind2 = [p \in 1..MaxPages |-> IF p < page THEN kind[p] ELSE 0]
  OBVIOUS
<1>3. n \in Nat \ {0} /\ page \in Nat \ {0} /\ MaxPages \in Nat
  BY <1>0, <1>a, <1>c, BigPages, Constants DEF HeapTypeOK
<1>4. /\ page + n - 1 <= MaxPages
      /\ next_page' = page + n
      /\ word' = [word EXCEPT ![start] = nullptr]
      /\ size_at' = [size_at EXCEPT ![start] = size]
      /\ live' = live \cup {new}
      /\ head' = head /\ freed' = freed
  BY <1>a, <1>b, <1>c, <1>e DEF kmalloc_big, Return
<1>5. page \in 1..MaxPages
  BY <1>3, <1>4
<1>6. start \in Addresses \ {nullptr} /\ PageOf(start) = page /\ start % PAGE_SIZE = 0
  BY <1>3, <1>5, <1>b, PageAddress, PageStart
<1>7. new \in [add : Nat, size : Sizes] /\ Start(new) = start /\ new.size = size
  BY <1>6, <1>e, NewRecord
<1>8. next_page \in Int /\ next_page' \in Int /\ next_page <= next_page'
      /\ page \in 1..(next_page' - 1) /\ next_page' \in 1..(MaxPages + 1)
  BY <1>3, <1>4, <1>a
<1>10. /\ kind2 \in [1..MaxPages -> {0} \cup Pools]
       /\ \A p \in 1..(next_page - 1) : kind2[p] = kind[p]
       /\ \A p \in page..(page + n - 1) : kind2[p] = 0 /\ p \in 1..(next_page' - 1)
                                          /\ p \notin 1..(next_page - 1)
  <2>1. \A p \in 1..(next_page - 1) : p \in 1..MaxPages /\ p < page
    BY <1>3, <1>4, <1>a
  <2>2. \A p \in page..(page + n - 1) : /\ p \in 1..MaxPages /\ ~(p < page)
                                        /\ p \in 1..(next_page' - 1)
                                        /\ p \notin 1..(next_page - 1)
    BY <1>3, <1>4, <1>a
  <2>3. kind2 \in [1..MaxPages -> {0} \cup Pools]
    BY <1>2, <1>g
  <2> QED BY <1>g, <2>1, <2>2, <2>3
<1>11. /\ \A a \in Addresses : PageOf(a) # page => word'[a] = word[a] /\ size_at'[a] = size_at[a]
       /\ word'[start] = nullptr /\ size_at'[start] = size
  BY <1>0, <1>4, <1>6 DEF HeapTypeOK
<1>12. HeapTypeOK'
  <2>1. size \in Nat /\ nullptr \in Int
    BY Constants DEF nullptr
  <2>2. head' \in [Pools -> Int] /\ word' \in [Addresses -> Int] /\ size_at' \in [Addresses -> Nat]
    BY <1>0, <1>4, <2>1 DEF HeapTypeOK
  <2> QED BY <1>0, <1>4, <1>7, <1>8, <2>2 DEF HeapTypeOK
<1>13. ASSUME NEW a \in Addresses, PageOf(a) \in 1..(next_page - 1)
       PROVE  a # start /\ word'[a] = word[a] /\ size_at'[a] = size_at[a]
  <2>1. PageOf(a) # page
    BY <1>3, <1>a, <1>13
  <2> QED BY <1>6, <1>11, <2>1
<1>14. ASSUME NEW j \in Pools PROVE FreeIn(kind2, F, j)'
  <2>1. \A a \in F[j] : word'[a] = word[a]
    BY <1>2, <1>13 DEF FreeIn, Block
  <2> QED BY <1>0, <1>2, <1>4, <1>8, <1>10, <2>1, ListStays
<1>15. LostOK(kind2, F, L)'
  <2>1. PageOf(nullptr) # page
    BY <1>3, AddressFacts
  <2>2. ASSUME NEW a \in L \cup {nullptr} PROVE word'[a] = word[a]
    <3>1. CASE a = nullptr
      BY <1>11, <2>1, <3>1, AddressFacts
    <3>2. CASE a \in L
      BY <1>2, <1>13, <3>2 DEF LostOK
    <3> QED BY <3>1, <3>2
  <2>3. \A j \in Pools : L \cap F[j] = {}
    BY <1>2 DEF LostOK
  <2> QED BY <1>0, <1>2, <1>8, <1>10, <2>2, <2>3, LostStays
<1>16. ASSUME NEW r \in live PROVE Held(kind2, F, L, r)' /\ Start(r) # start
  <2>1. Held(kind, F, L, r)
    BY <1>2 DEF LiveOK
  <2>2. Start(r) \in Addresses /\ Start(r) # start /\ Start(r) \notin L
        /\ word'[Start(r)] = word[Start(r)] /\ size_at'[Start(r)] = size_at[Start(r)]
        /\ \A j \in Pools : Start(r) \notin F[j]
    BY <1>13, <2>1 DEF Held
  <2>3. \A p \in PagesOf(r) : Big(r) /\ p \notin freed => p \notin freed'
    BY <1>4
  <2>4. Held(kind2, F, L, r)'
    BY <1>0, <1>8, <1>10, <2>1, <2>2, <2>3, HeldStays
  <2> QED BY <2>2, <2>4
<1>17. Big(new) /\ PagesOf(new) = page..(page + n - 1)
  BY <1>6, <1>7, <1>c DEF Big, PagesOf
<1>18. Held(kind2, F, L, new)'
  <2>1. start \notin L /\ \A j \in Pools : start \notin F[j]
    <3>1. ASSUME NEW j \in Pools, start \in F[j] PROVE FALSE
      BY <1>2, <1>13, <3>1 DEF FreeIn, Block
    <3>2. start \notin L
      BY <1>2, <1>13 DEF LostOK
    <3> QED BY <3>1, <3>2
  <2>2. ASSUME NEW p \in PagesOf(new)
        PROVE  p \in 1..(next_page' - 1) /\ kind2[p] = 0 /\ p \notin freed'
    BY <1>2, <1>4, <1>10, <1>17 DEF FreedOK
  <2>3. BigOK(kind2, new)'
    BY <1>6, <1>7, <1>11, <2>2 DEF BigOK
  <2> QED BY <1>6, <1>7, <1>8, <1>11, <1>17, <2>1, <2>3 DEF Held
<1>19. LiveOK(kind2, F, L)'
  BY <1>4, <1>16, <1>18 DEF LiveOK
<1>20. DistinctOK'
  <2> SUFFICES ASSUME NEW r \in live', NEW s \in live', r # s
               PROVE  /\ Start(r) # Start(s)
                      /\ Big(r) /\ Big(s) => PagesOf(r) \cap PagesOf(s) = {}
    BY DEF DistinctOK
  <2>1. CASE r \in live /\ s \in live
    BY <1>2, <2>1 DEF DistinctOK
  <2>2. ASSUME NEW x \in live, Big(x) PROVE PagesOf(x) \cap PagesOf(new) = {}
    <3>1. PagesOf(x) \subseteq 1..(next_page - 1)
      BY <1>2, <2>2 DEF LiveOK, Held, BigOK
    <3> QED BY <1>10, <1>17, <3>1
  <2>3. CASE r = new /\ s \in live
    BY <1>7, <1>16, <2>2, <2>3
  <2>4. CASE s = new /\ r \in live
    BY <1>7, <1>16, <2>2, <2>4
  <2> QED BY <1>4, <2>1, <2>3, <2>4
<1>21. FreedOK(kind2)'
  <2>1. ASSUME NEW p \in freed PROVE p \in 1..(next_page' - 1) /\ kind2[p] = 0
    BY <1>0, <1>2, <1>8, <1>10, <2>1, EarlierPages DEF FreedOK
  <2> QED BY <1>4, <2>1 DEF FreedOK
<1>22. Layout(kind2, F, L)'
  BY <1>2, <1>10, <1>14, <1>15, <1>19, <1>20, <1>21 DEF Layout, FreeOK
<1> QED BY <1>12, <1>22 DEF HeapInv

(* The pages of a large allocation are freed.                              *)
LEMMA FreeBigStep ==
    ASSUME IntSizes, HeapInv, NEW r \in live, kfree(r.add), Big(r)
    PROVE  HeapInv'
<1>0. HeapTypeOK
  BY DEF HeapInv
<1>1. PICK kind, F, L : Layout(kind, F, L)
  BY DEF HeapInv
<1>2. /\ kind \in [1..MaxPages -> {0} \cup Pools]
      /\ F \in [Pools -> SUBSET Addresses] /\ L \in SUBSET Addresses
      /\ \A j \in Pools : FreeIn(kind, F, j)
      /\ LostOK(kind, F, L) /\ LiveOK(kind, F, L) /\ DistinctOK /\ FreedOK(kind)
  BY <1>1 DEF Layout, FreeOK
<1>a. PICK gone : gone = PageOf(r.add)..(PageOf(r.add) + FreedPages(r.size) - 1)
  OBVIOUS
<1>3. /\ word[Start(r)] = nullptr /\ size_at[Start(r)] = r.size
      /\ \A p \in gone : p \in PagesOf(r)
      /\ \A p \in PagesOf(r) : p \in 1..(next_page - 1) /\ kind[p] = 0
  <2>1. BigOK(kind, r) /\ size_at[Start(r)] = r.size
    BY <1>2 DEF LiveOK, Held
  <2>2. \A p \in gone : p \in PagesOf(r)
    BY <1>0, <1>1, <1>a, BigBytes
  <2> QED BY <2>1, <2>2 DEF BigOK
<1>4. /\ freed' = freed \cup gone
      /\ word' = word /\ head' = head /\ size_at' = size_at /\ next_page' = next_page
      /\ live' \subseteq live /\ r \notin live'
  BY <1>3, <1>a DEF kfree, Start
<1>5. next_page' \in Int /\ next_page <= next_page'
  BY <1>0, <1>4, Constants DEF HeapTypeOK
<1>6. HeapTypeOK'
  BY <1>0, <1>4 DEF HeapTypeOK
<1>7. ASSUME NEW j \in Pools PROVE FreeIn(kind, F, j)'
  BY <1>2, <1>4 DEF FreeIn, Block
<1>8. LostOK(kind, F, L)'
  BY <1>2, <1>4 DEF LostOK
<1>9. ASSUME NEW s \in live' PROVE Held(kind, F, L, s)'
  <2>1. s \in live /\ s # r
    BY <1>4
  <2>2. Held(kind, F, L, s)
    BY <1>2, <2>1 DEF LiveOK
  <2>3. Start(s) \notin L /\ \A j \in Pools : Start(s) \notin F[j]
    BY <2>2 DEF Held
  <2>4. ASSUME NEW p \in PagesOf(s), Big(s), p \notin freed PROVE p \notin freed'
    <3>1. PagesOf(s) \cap PagesOf(r) = {}
      BY <1>2, <2>1, <2>4 DEF DistinctOK
    <3> QED BY <1>3, <1>4, <2>4, <3>1
  <2>5. word'[Start(s)] = word[Start(s)] /\ size_at'[Start(s)] = size_at[Start(s)]
    BY <1>4
  <2> QED BY <1>0, <1>5, <2>2, <2>3, <2>4, <2>5, HeldStays
<1>10. LiveOK(kind, F, L)' /\ DistinctOK'
  BY <1>2, <1>4, <1>9 DEF LiveOK, DistinctOK
<1>11. FreedOK(kind)'
  BY <1>2, <1>3, <1>4 DEF FreedOK
<1>12. Layout(kind, F, L)'
  BY <1>2, <1>7, <1>8, <1>10, <1>11 DEF Layout, FreeOK
<1> QED BY <1>6, <1>12 DEF HeapInv

(* Where the walk of kfree for a block of pool i ends.                     *)
LEMMA TailFound ==
    ASSUME HeapTypeOK, NEW kind, NEW F, NEW L, Layout(kind, F, L), NEW i \in Pools
    PROVE  /\ head[i] # nullptr => traverse(i) \in F[i]
           /\ head[i] = nullptr => traverse(i) \in L \cup {nullptr}
<1>1. FreeIn(kind, F, i) /\ LostOK(kind, F, L)
  BY DEF Layout, FreeOK
<1>2. head[i] \in Addresses
  BY <1>1, AddressFacts DEF FreeIn, Block
<1> DEFINE f == WalkFrom(head[i])
<1>3. f = WalkOf(word, head[i])
  BY DEF WalkFrom, WalkOf
<1>4. traverse(i) = f[Bound]
  BY DEF traverse, Bound
<1> HIDE DEF f
<1>5. Walks(f, word, head[i])
  BY <1>2, <1>3, WalkExists
<1>6. Bound \in 0..Bound
  BY AddressesFinite
<1>7. CASE head[i] # nullptr
  <2>1. \A b \in F[i] : word[b] \in Addresses \ {nullptr} => word[b] \in F[i]
    <3>1. ASSUME NEW b \in F[i] PROVE word[b] \in F[i] \cup {nullptr}
      BY <1>1 DEF FreeIn
    <3> QED BY <3>1
  <2>2. head[i] \in F[i]
    BY <1>1, <1>7 DEF FreeIn
  <2>3. f[Bound] \in F[i]
    BY <1>5, <1>6, <2>1, <2>2, WalkStays
  <2> QED BY <1>4, <1>7, <2>3
<1>8. CASE head[i] = nullptr
  <2> DEFINE S == L \cup {nullptr}
  <2>1. \A b \in S : word[b] \in Addresses \ {nullptr} => word[b] \in S
    BY <1>1 DEF LostOK
  <2>2. head[i] \in S
    BY <1>8
  <2> HIDE DEF S
  <2>3. f[Bound] \in S
    BY <1>5, <1>6, <2>1, <2>2, WalkStays
  <2> QED BY <1>4, <1>8, <2>3 DEF S
<1> QED BY <1>7, <1>8

(* A block is put behind the last one of its pool's list, or of the blocks *)
(* that are lost when the list is empty; one of size 0 is left where it is.*)
LEMMA FreePooledStep ==
    ASSUME IntSizes, HeapInv, NEW r \in live, kfree(r.add), ~Big(r)
    PROVE  HeapInv'
<1>0. HeapTypeOK
  BY DEF HeapInv
<1>1. PICK kind, F, L : Layout(kind, F, L)
  BY DEF HeapInv
<1>2. /\ kind \in [1..MaxPages -> {0} \cup Pools]
      /\ F \in [Pools -> SUBSET Addresses] /\ L \in SUBSET Addresses
      /\ \A j \in Pools : FreeIn(kind, F, j)
      /\ LostOK(kind, F, L) /\ LiveOK(kind, F, L) /\ DistinctOK /\ FreedOK(kind)
  BY <1>1 DEF Layout, FreeOK
<1>a. PICK start : start = Start(r)
  OBVIOUS
<1>b. PICK i : i = SmallestPool(r.size)
  OBVIOUS
<1>c. PICK t : t = traverse(i)
  OBVIOUS
<1>d. PICK F2 : F2 = IF head[i] # nullptr THEN [F EXCEPT ![i] = F[i] \cup {start}] ELSE F
  OBVIOUS
<1>e. PICK L2 : L2 = IF head[i] # nullptr THEN L ELSE L \cup {start}
  OBVIOUS
<1>3. /\ i \in Pools /\ Block(kind, i, start) /\ word[start] = PoolPointer(i)
      /\ size_at[start] = r.size
      /\ start \in Addresses \ {nullptr}
      /\ PageOf(start) \in 1..(next_page - 1)
      /\ start \notin L /\ \A j \in Pools : start \notin F[j]
  <2>1. Held(kind, F, L, r)
    BY <1>2 DEF LiveOK
  <2>2. r.size \in Sizes /\ start \in Addresses \ {nullptr}
    BY <1>0, <1>1, <1>a, LiveFacts
  <2>3. i \in Pools
    BY <1>b, <2>2, PoolChosen DEF Big
  <2> QED BY <1>a, <1>b, <2>1, <2>2, <2>3 DEF Held, PooledOK
<1>4. i = -word[start] /\ word[start] # nullptr /\ i \in Int
  BY <1>3, Constants DEF PoolPointer, nullptr
<1>5. /\ word' = [word EXCEPT ![t] = start, ![start] = nullptr] \/ word' = word
      /\ freed' = freed
      /\ head' = head /\ size_at' = size_at /\ next_page' = next_page
      /\ live' \subseteq live /\ r \notin live'
  BY <1>4, <1>a, <1>c DEF kfree, Start, ReturnBlock
<1>6. next_page' \in Int /\ next_page <= next_page'
  BY <1>0, <1>5, Constants DEF HeapTypeOK
<1>7. \A j \in Pools : nullptr \notin F[j] /\ F[j] \subseteq Addresses
  <2>1. ASSUME NEW j \in Pools, nullptr \in F[j] PROVE FALSE
    <3>1. PageOf(nullptr) \in 1..(next_page - 1)
      BY <1>2, <2>1 DEF FreeIn, Block
    <3>2. \A p \in 1..(next_page - 1) : p >= 1
      BY <1>0 DEF HeapTypeOK
    <3> QED BY <3>1, <3>2, AddressFacts
  <2> QED BY <1>2, <2>1
<1>8. CASE word' = word
  <2>1. HeapTypeOK'
    BY <1>0, <1>5, <1>8 DEF HeapTypeOK
  <2>2. ASSUME NEW s \in live' PROVE Held(kind, F, L, s)'
    <3>1. Held(kind, F, L, s)
      BY <1>2, <1>5 DEF LiveOK
    <3> QED BY <1>5, <1>8, <3>1 DEF Held, BigOK, PooledOK, Block
  <2>3. LiveOK(kind, F, L)' /\ DistinctOK'
    BY <1>2, <1>5, <2>2 DEF LiveOK, DistinctOK
  <2>4. ASSUME NEW j \in Pools PROVE FreeIn(kind, F, j)'
    BY <1>2, <1>5, <1>8 DEF FreeIn, Block
  <2>5. LostOK(kind, F, L)' /\ FreedOK(kind)'
    BY <1>2, <1>5, <1>8 DEF LostOK, FreedOK
  <2>6. Layout(kind, F, L)'
    BY <1>2, <2>3, <2>4, <2>5 DEF Layout, FreeOK
  <2> QED BY <2>1, <2>6 DEF HeapInv
<1>9. CASE word' = [word EXCEPT ![t] = start, ![start] = nullptr]
  <2>1. /\ head[i] # nullptr => t \in F[i]
        /\ head[i] = nullptr => t \in L \cup {nullptr}
    BY <1>0, <1>1, <1>3, <1>c, TailFound
  <2>2. t \in Addresses /\ t # start
    BY <1>2, <1>3, <2>1, AddressFacts
  <2>3. /\ word'[t] = start /\ word'[start] = nullptr
        /\ \A a \in Addresses \ {t, start} : word'[a] = word[a]
        /\ word' \in [Addresses -> Int]
    <3>1. start \in Int /\ nullptr \in Int
      BY <1>3, AddressFacts DEF nullptr
    <3> QED BY <1>0, <1>3, <1>9, <2>2, <3>1 DEF HeapTypeOK
  <2>4. HeapTypeOK'
    BY <1>0, <1>5, <2>3 DEF HeapTypeOK
  <2>5. /\ \A j \in Pools : j # i \/ head[i] = nullptr => F2[j] = F[j]
        /\ head[i] # nullptr => F2[i] = F[i] \cup {start}
        /\ F2 \in [Pools -> SUBSET Addresses] /\ L2 \in SUBSET Addresses
    BY <1>2, <1>3, <1>d, <1>e
  <2>6. ASSUME NEW j \in Pools, j # i \/ head[i] = nullptr, NEW a \in F[j]
        PROVE  word'[a] = word[a]
    <3>1. a # start /\ a # nullptr /\ a \notin L /\ a \in Addresses
      BY <1>2, <1>3, <1>7 DEF LostOK
    <3>2. a # t
      <4>1. CASE head[i] = nullptr
        BY <2>1, <3>1, <4>1
      <4>2. CASE head[i] # nullptr
        <5>1. j # i /\ t \in F[i]
          BY <2>1, <2>6, <4>2
        <5>2. Block(kind, j, a) /\ Block(kind, i, t)
          BY <1>2, <1>3, <5>1 DEF FreeIn
        <5> QED BY <5>1, <5>2 DEF Block
      <4> QED BY <4>1, <4>2
    <3> QED BY <2>3, <3>1, <3>2
  <2>7. ASSUME NEW j \in Pools PROVE FreeIn(kind, F2, j)'
    <3>1. CASE j # i \/ head[i] = nullptr
      <4>1. F2[j] = F[j] /\ head'[j] = head[j] /\ \A a \in F[j] : word'[a] = word[a]
        BY <1>5, <2>5, <2>6, <3>1
      <4> QED BY <1>0, <1>2, <1>6, <4>1, ListStays
    <3>2. CASE j = i /\ head[i] # nullptr
      <4>0. FreeIn(kind, F, i) /\ F2[i] = F[i] \cup {start} /\ t \in F[i] /\ start \notin F[i]
        BY <1>2, <1>3, <2>1, <2>5, <3>2
      <4>1. ASSUME NEW a \in F2[i] PROVE Block(kind, i, a)'
        <5>1. Block(kind, i, a)
          BY <1>3, <4>0 DEF FreeIn
        <5> QED BY <1>5, <5>1 DEF Block
      <4>2. head'[i] \in F2[i] \cup {nullptr} /\ head'[i] # start
        BY <1>3, <1>5, <3>2, <4>0 DEF FreeIn
      <4>3. ASSUME NEW a \in F2[i]
            PROVE  \/ a = start /\ word'[a] = nullptr
                   \/ a = t /\ word'[a] = start
                   \/ /\ a \in F[i] /\ a # t /\ word'[a] = word[a] /\ word'[a] # start
                      /\ word[a] \in F[i] \cup {nullptr}
                      /\ word[a] = head[i] => word[a] = nullptr
        <5>1. CASE a = start \/ a = t
          BY <2>3, <5>1
        <5>2. CASE a # start /\ a # t
          <6>1. a \in F[i] /\ a \in Addresses
            BY <1>3, <1>7, <4>0, <5>2
          <6>2. word'[a] = word[a]
            BY <2>3, <5>2, <6>1
          <6>3. word[a] \in F[i] \cup {nullptr} /\ (word[a] = head[i] => word[a] = nullptr)
            BY <4>0, <6>1 DEF FreeIn
          <6> QED BY <1>3, <4>0, <5>2, <6>1, <6>2, <6>3
        <5> QED BY <5>1, <5>2
      <4>4. \A a \in F2[i] : /\ word'[a] \in F2[i] \cup {nullptr}
                             /\ word'[a] = head'[i] => word'[a] = nullptr
        BY <1>5, <4>0, <4>2, <4>3
      <4>5. ASSUME NEW a \in F2[i], NEW b \in F2[i], word'[a] = word'[b], word'[a] # nullptr
            PROVE  a = b
        <5>1. CASE word'[a] = start
          BY <1>3, <4>3, <4>5, <5>1
        <5>2. CASE word'[a] # start
          <6>1. a \in F[i] /\ b \in F[i] /\ word[a] = word[b] /\ word[a] # nullptr
            BY <4>3, <4>5, <5>2
          <6> QED BY <4>0, <6>1 DEF FreeIn
        <5> QED BY <5>1, <5>2
      <4> QED BY <3>2, <4>1, <4>2, <4>4, <4>5 DEF FreeIn
    <3> QED BY <3>1, <3>2
  <2>8. LostOK(kind, F2, L2)'
    <3>1. CASE head[i] # nullptr
      <4>1. L2 = L /\ \A j \in Pools : L \cap F2[j] = {}
        BY <1>2, <1>3, <1>e, <2>5, <3>1 DEF LostOK
      <4>2. ASSUME NEW a \in L \cup {nullptr} PROVE word'[a] = word[a]
        <5>1. a # start /\ a # t /\ a \in Addresses
          BY <1>2, <1>3, <1>7, <2>1, <3>1, AddressFacts DEF LostOK
        <5> QED BY <2>3, <5>1
      <4> QED BY <1>0, <1>2, <1>6, <4>1, <4>2, LostStays
    <3>2. CASE head[i] = nullptr
      <4>1. L2 = L \cup {start} /\ \A j \in Pools : F2[j] = F[j]
        BY <1>e, <2>5, <3>2
      <4>2. \A a \in L2 : /\ a \in Addresses /\ PageOf(a) \in 1..(next_page' - 1)
                           /\ kind[PageOf(a)] # 0
        BY <1>2, <1>3, <1>5, <4>1, Constants DEF LostOK, Block
      <4>3. \A j \in Pools : L2 \cap F2[j] = {}
        BY <1>2, <1>3, <4>1 DEF LostOK
      <4>4. ASSUME NEW a \in L2 \cup {nullptr} PROVE word'[a] \in L2 \cup {nullptr}
        <5>1. CASE a = start \/ a = t
          BY <2>3, <4>1, <5>1
        <5>2. CASE a # start /\ a # t
          <6>1. a \in L \cup {nullptr} /\ a \in Addresses
            BY <1>2, <4>1, <5>2, AddressFacts
          <6>2. word'[a] = word[a]
            BY <2>3, <5>2, <6>1
          <6> QED BY <1>2, <4>1, <6>1, <6>2 DEF LostOK
        <5> QED BY <5>1, <5>2
      <4>5. ASSUME NEW a \in L2 \cup {nullptr}
            PROVE  \/ a = start /\ word'[a] = nullptr
                   \/ a = t /\ word'[a] = start
                   \/ /\ a \in L \cup {nullptr} /\ word'[a] = word[a] /\ word'[a] # start
        <5>1. CASE a = start \/ a = t
          BY <2>3, <5>1
        <5>2. CASE a # start /\ a # t
          <6>1. a \in L \cup {nullptr} /\ a \in Addresses
            BY <1>2, <4>1, <5>2, AddressFacts
          <6>2. word'[a] = word[a] /\ word[a] \in L \cup {nullptr}
            BY <1>2, <2>3, <5>2, <6>1 DEF LostOK
          <6> QED BY <1>3, <6>1, <6>2
        <5> QED BY <5>1, <5>2
      <4>6. ASSUME NEW a \in L2 \cup {nullptr}, NEW b \in L2 \cup {nullptr},
                   word'[a] = word'[b], word'[a] # nullptr
            PROVE  a = b
        <5>1. CASE word'[a] = start
          <6>1. ASSUME NEW c \in L2 \cup {nullptr}, word'[c] = start PROVE c = t
            BY <1>3, <4>5, <6>1
          <6>2. a = t
            BY <5>1, <6>1
          <6>3. b = t
            BY <4>6, <5>1, <6>1
          <6> QED BY <6>2, <6>3
        <5>2. CASE word'[a] # start
          <6>1. a \in L \cup {nullptr} /\ b \in L \cup {nullptr}
                /\ word[a] = word[b] /\ word[a] # nullptr
            BY <4>5, <4>6, <5>2
          <6> QED BY <1>2, <6>1 DEF LostOK
        <5> QED BY <5>1, <5>2
      <4> QED BY <4>2, <4>3, <4>4, <4>6 DEF LostOK
    <3> QED BY <3>1, <3>2
  <2>9. ASSUME NEW s \in live' PROVE Held(kind, F2, L2, s)'
    <3>1. s \in live /\ s # r /\ Start(s) # start
      BY <1>2, <1>5, <1>a DEF DistinctOK
    <3>2. Held(kind, F, L, s) /\ Start(s) \in Addresses \ {nullptr}
      BY <1>0, <1>1, <1>2, <3>1, LiveFacts DEF LiveOK
    <3>3. Start(s) \notin L /\ \A j \in Pools : Start(s) \notin F[j]
      BY <3>2 DEF Held
    <3>4. Start(s) # t
      BY <1>3, <2>1, <3>2, <3>3
    <3>5. Start(s) \notin L2 /\ \A j \in Pools : Start(s) \notin F2[j]
      BY <1>3, <1>d, <1>e, <2>5, <3>1, <3>3
    <3>6. word'[Start(s)] = word[Start(s)] /\ size_at'[Start(s)] = size_at[Start(s)]
      BY <1>5, <2>3, <3>1, <3>2, <3>4
    <3>7. \A p \in PagesOf(s) : Big(s) /\ p \notin freed => p \notin freed'
      BY <1>5
    <3> QED BY <1>0, <1>6, <3>2, <3>5, <3>6, <3>7, HeldStays
  <2>10. LiveOK(kind, F2, L2)' /\ DistinctOK'
    BY <1>2, <1>5, <2>9 DEF LiveOK, DistinctOK
  <2>11. FreedOK(kind)'
    BY <1>2, <1>5 DEF FreedOK
  <2>12. Layout(kind, F2, L2)'
    BY <1>2, <2>5, <2>7, <2>8, <2>10, <2>11 DEF Layout, FreeOK
  <2> QED BY <2>4, <2>12 DEF HeapInv
<1> QED BY <1>5, <1>8, <1>9

LEMMA InvStep == IntSizes /\ HeapInv /\ clean' /\ [KmallocNext]_vars => HeapInv'
<1> SUFFICES ASSUME IntSizes, HeapInv, clean', [KmallocNext]_vars PROVE HeapInv'
  OBVIOUS
<1>1. CASE UNCHANGED vars
  <2>0. /\ head' = head /\ word' = word /\ size_at' = size_at
        /\ next_page' = next_page /\ freed' = freed /\ live' = live
    BY <1>1 DEF vars
  <2>1. PICK kind, F, L : Layout(kind, F, L)
    BY DEF HeapInv
  <2>2. HeapTypeOK'
    BY <2>0 DEF HeapInv, HeapTypeOK
  <2>3. FreeOK(kind, F)' /\ LostOK(kind, F, L)'
    BY <2>0, <2>1 DEF Layout, FreeOK, FreeIn, LostOK, Block
  <2>4. LiveOK(kind, F, L)'
    BY <2>0, <2>1 DEF Layout, LiveOK, Held, BigOK, PooledOK, Block
  <2>5. DistinctOK' /\ FreedOK(kind)'
    BY <2>0, <2>1 DEF Layout, DistinctOK, FreedOK
  <2>6. Layout(kind, F, L)'
    BY <2>1, <2>3, <2>4, <2>5 DEF Layout
  <2> QED BY <2>2, <2>6 DEF HeapInv
<1>2. ASSUME NEW size \in Sizes, kmalloc(size) PROVE HeapInv'
  <2>1. CASE PoolFor(size) = {}
    BY <1>2, <2>1, BigStep DEF kmalloc
  <2>2. CASE PoolFor(size) # {}
    <3>1. FromPool(SmallestPool(size), size)
      BY <1>2, <2>2 DEF kmalloc
    <3> QED BY <2>2, <3>1, PopStep, RefillStep
  <2> QED BY <2>1, <2>2
<1>3. ASSUME NEW r \in live, kfree(r.add) PROVE HeapInv'
  BY <1>3, FreeBigStep, FreePooledStep
<1> QED BY <1>1, <1>2, <1>3 DEF KmallocNext

LEMMA CleanBefore == [KmallocNext]_vars /\ clean' => clean
<1> SUFFICES ASSUME [KmallocNext]_vars, clean' PROVE clean
  OBVIOUS
<1>1. ASSUME NEW size, kmalloc(size) PROVE clean
  BY <1>1 DEF kmalloc, kmalloc_big, FromPool
<1>2. ASSUME NEW r, kfree(r.add) PROVE clean
  BY <1>2 DEF kfree
<1> QED BY <1>1, <1>2 DEF KmallocNext, vars

LEMMA HeapIsKept == IntSizes => (KmallocSpec => [](clean => HeapInv))
<1> SUFFICES ASSUME IntSizes PROVE KmallocSpec => [](clean => HeapInv)
  OBVIOUS
<1>1. KmallocInit => HeapInv
  BY InvInit
<1>2. (clean => HeapInv) /\ [KmallocNext]_vars => (clean => HeapInv)'
  BY InvStep, CleanBefore
<1> QED BY <1>1, <1>2, PTL DEF KmallocSpec

(* While the pages cut into blocks came with 0 in the word of their last   *)
(* block (allocator.c:53), a free list holds no byte of a live allocation  *)
(* and no block of another pool, whatever is allocated and freed           *)
(* (allocator.c:101-180).                                                  *)
THEOREM ListsStayApart == IntSizes => (KmallocSpec => []FreeListsApart)
<1> SUFFICES ASSUME IntSizes PROVE KmallocSpec => []FreeListsApart
  OBVIOUS
<1>1. (clean => HeapInv) => FreeListsApart
  BY ListsApart DEF FreeListsApart
<1> QED BY <1>1, HeapIsKept, PTL

(* While clean, the header of a live allocation keeps the size and the     *)
(* pool that kfree will read there (allocator.c:156-170).                  *)
THEOREM HeadersStay == IntSizes => (KmallocSpec => []HeadersKept)
<1> SUFFICES ASSUME IntSizes PROVE KmallocSpec => []HeadersKept
  OBVIOUS
<1>1. (clean => HeapInv) => HeadersKept
  BY HeadersSay DEF HeadersKept
<1> QED BY <1>1, HeapIsKept, PTL

(* While clean, kfree never frees a page of an allocation that is live     *)
(* (allocator.c:139-154).                                                  *)
THEOREM LivePagesStay == IntSizes => (KmallocSpec => []LivePagesKept)
<1> SUFFICES ASSUME IntSizes PROVE KmallocSpec => []LivePagesKept
  OBVIOUS
<1>1. (clean => HeapInv) => LivePagesKept
  BY PagesHeld DEF LivePagesKept
<1> QED BY <1>1, HeapIsKept, PTL

-----------------------------------------------------------------------------
(* The refinement: kmalloc and kfree do what Heap promises.                *)
AllApart ==
    \A r, s \in live : r # s => r.add # s.add /\ Bytes(r) \cap Bytes(s) = {}

LEMMA AllocationsApart == IntSizes /\ HeapInv => AllApart
<1> SUFFICES ASSUME IntSizes, HeapInv, NEW r \in live, NEW s \in live, r # s
             PROVE  r.add # s.add /\ Bytes(r) \cap Bytes(s) = {}
  BY DEF AllApart
<1>1. PICK kind, F, L : Layout(kind, F, L)
  BY DEF HeapInv
<1>2. r.add = Start(r) + KMALLOC_HEADER_SIZE /\ s.add = Start(s) + KMALLOC_HEADER_SIZE
      /\ Start(r) \in Nat /\ Start(s) \in Nat
  BY <1>1, LiveFacts DEF HeapInv
<1>3. Start(r) # Start(s)
  BY <1>1 DEF Layout, DistinctOK
<1> QED BY <1>2, <1>3, LiveApart, Constants

LEMMA HeapStep ==
    ASSUME IntSizes, HeapInv, AllApart, AllApart', HeapTypeOK', [KmallocNext]_vars
    PROVE  [TheHeap!HeapNext]_live
<1>1. CASE UNCHANGED vars
  BY <1>1 DEF vars
<1>2. ASSUME NEW size \in Sizes, kmalloc(size) PROVE [TheHeap!HeapNext]_live
  <2>1. PICK start \in Addresses : Return(start, size)
    <3>1. CASE PoolFor(size) = {}
      <4>1. /\ next_page + PagesOfBig(size) - 1 <= MaxPages
            /\ Return(next_page * PAGE_SIZE, size)
        BY <1>2, <3>1 DEF kmalloc, kmalloc_big
      <4>2. next_page \in 1..MaxPages
        BY <4>1, BigPages, Constants DEF HeapInv, HeapTypeOK
      <4> QED BY <4>1, <4>2, PageAddress
    <3>2. CASE PoolFor(size) # {}
      BY <1>2, <3>2 DEF kmalloc, FromPool
    <3> QED BY <3>1, <3>2
  <2> DEFINE r == [add |-> start + KMALLOC_HEADER_SIZE, size |-> size]
  <2>2. live' = live \cup {r}
    BY <2>1 DEF Return
  <2>3. r.add > 0 /\ r.size \in Sizes
    BY AddressFacts, Constants
  <2> HIDE DEF r
  <2>4. CASE r \in live
    BY <2>2, <2>4
  <2>5. CASE r \notin live
    <3>1. ASSUME NEW s \in live PROVE TheHeap!Disjoint(r, s)
      <4>1. r \in live' /\ s \in live' /\ r # s
        BY <2>2, <2>5
      <4>2. r.add # s.add /\ Bytes(r) \cap Bytes(s) = {}
        BY <4>1 DEF AllApart
      <4>3. r.add \in Nat /\ s.add \in Nat /\ r.size \in Nat /\ s.size \in Nat
        BY <4>1, Constants DEF HeapTypeOK
      <4>4. TheHeap!Extent(r) \subseteq Bytes(r) /\ TheHeap!Extent(s) \subseteq Bytes(s)
        BY <4>3, Constants DEF TheHeap!Extent, Bytes, Start
      <4> QED BY <4>2, <4>4 DEF TheHeap!Disjoint
    <3>2. r \in live' \ live
      BY <2>2, <2>5
    <3>3. TheHeap!Malloc
      BY <2>2, <2>3, <3>1, <3>2 DEF TheHeap!Malloc
    <3> QED BY <3>3 DEF TheHeap!HeapNext
  <2> QED BY <2>4, <2>5
<1>3. ASSUME NEW r \in live, kfree(r.add) PROVE [TheHeap!HeapNext]_live
  <2>1. live' = {s \in live : s.add # r.add}
    BY <1>3 DEF kfree
  <2>2. live' = live \ {r}
    BY <2>1 DEF AllApart
  <2> QED BY <2>2 DEF TheHeap!HeapNext, TheHeap!Free
<1> QED BY <1>1, <1>2, <1>3 DEF KmallocNext

(* While clean, the allocator implements Heap: memory is handed out in     *)
(* pieces that do not overlap, each of them until it is given back.        *)
THEOREM KmallocIsHeap == IntSizes => (KmallocSpec => ImplementsHeap)
<1> SUFFICES ASSUME IntSizes PROVE KmallocSpec => ImplementsHeap
  OBVIOUS
<1>1. KmallocInit => TheHeap!HeapInit
  BY DEF KmallocInit, TheHeap!HeapInit
<1>2. ASSUME clean => HeapInv, (clean => HeapInv)', [KmallocNext]_vars
      PROVE  [clean' => [TheHeap!HeapNext]_live]_vars
  <2> SUFFICES ASSUME clean' PROVE [TheHeap!HeapNext]_live
    OBVIOUS
  <2>1. HeapInv /\ HeapInv'
    BY <1>2, CleanBefore
  <2>2. AllApart
    BY <2>1, AllocationsApart
  <2>3. AllApart'
    <3>1. HeapInv => AllApart
      BY AllocationsApart
    <3>2. (HeapInv => AllApart)'
      BY AllocationsApart, PTL
    <3> QED BY <2>1, <3>2
  <2>4. HeapTypeOK'
    BY <2>1 DEF HeapInv
  <2> QED BY <1>2, <2>1, <2>2, <2>3, <2>4, HeapStep
<1> QED BY <1>1, <1>2, HeapIsKept, PTL DEF KmallocSpec, ImplementsHeap

-----------------------------------------------------------------------------
(* The walk along a list whose links never lead back: it goes through      *)
(* different blocks until it meets one with no link, and stays there.      *)
Chain(S, w, a) ==
    /\ S \subseteq Addresses \ {nullptr} /\ a \in S
    /\ \A b \in S : w[b] \in S \cup {nullptr} /\ w[b] # a
    /\ \A b, c \in S : w[b] = w[c] => b = c \/ w[b] = nullptr

LEMMA ChainLinks ==
    ASSUME NEW S, NEW w, NEW a, NEW f, Chain(S, w, a), Walks(f, w, a)
    PROVE  /\ \A n \in 0..Bound : f[n] \in S
           /\ \A n \in 0..Bound : n + 1 <= Bound =>
                 f[n + 1] = IF w[f[n]] = nullptr THEN f[n] ELSE w[f[n]]
<1>1. \A b \in S : w[b] \in Addresses \ {nullptr} => w[b] \in S
  <2>1. ASSUME NEW b \in S PROVE w[b] \in S \cup {nullptr}
    BY DEF Chain
  <2> QED BY <2>1
<1>2. \A n \in 0..Bound : f[n] \in S
  BY <1>1, WalkStays DEF Chain
<1>3. ASSUME NEW n \in 0..Bound, n + 1 <= Bound
      PROVE  f[n + 1] = IF w[f[n]] = nullptr THEN f[n] ELSE w[f[n]]
  <2>1. n + 1 \in 1..Bound /\ (n + 1) - 1 = n
    BY <1>3, AddressesFinite
  <2>2. f[n + 1] = Onwards(w, f[n])
    BY <2>1 DEF Walks
  <2>3. w[f[n]] \in S \cup {nullptr} /\ S \subseteq Addresses \ {nullptr}
    BY <1>2 DEF Chain
  <2> QED BY <2>2, <2>3 DEF Onwards
<1> QED BY <1>2, <1>3

LEMMA ChainApart ==
    ASSUME NEW S, NEW w, NEW a, NEW f, Chain(S, w, a), Walks(f, w, a),
           NEW k \in 0..Bound, \A j \in 0..(k - 1) : w[f[j]] # nullptr
    PROVE  \A p, q \in 0..k : f[p] = f[q] => p = q
<1>0. Bound \in Nat /\ k \in Nat
  BY AddressesFinite
<1> DEFINE apart == {n \in Nat : n <= k => \A p, q \in 0..n : f[p] = f[q] => p = q}
<1>1. 0 \in apart
  OBVIOUS
<1>2. ASSUME NEW n \in apart PROVE n + 1 \in apart
  <2> SUFFICES ASSUME n + 1 <= k PROVE \A p, q \in 0..(n + 1) : f[p] = f[q] => p = q
    OBVIOUS
  <2>1. n \in Nat /\ \A p, q \in 0..n : f[p] = f[q] => p = q
    OBVIOUS
  <2>2. ASSUME NEW m \in 0..n
        PROVE  f[m + 1] = w[f[m]] /\ w[f[m]] # nullptr /\ f[m] \in S
    <3>1. m \in 0..Bound /\ m + 1 <= Bound /\ m \in 0..(k - 1)
      BY <1>0, <2>1
    <3>2. w[f[m]] # nullptr
      BY <3>1
    <3> QED BY <3>1, <3>2, ChainLinks
  <2>3. ASSUME NEW p \in 0..n, f[p] = f[n + 1] PROVE FALSE
    <3>1. n \in 0..n /\ f[n + 1] = w[f[n]] /\ w[f[n]] # nullptr /\ f[n] \in S
      BY <2>1, <2>2
    <3>2. CASE p = 0
      <4>1. f[0] = a /\ w[f[n]] # a
        BY <3>1 DEF Walks, Chain
      <4> QED BY <2>3, <3>1, <3>2, <4>1
    <3>3. CASE p # 0
      <4>1. p - 1 \in 0..n /\ (p - 1) + 1 = p /\ p - 1 # n
        BY <2>1, <3>3
      <4>2. f[p] = w[f[p - 1]] /\ f[p - 1] \in S
        BY <2>2, <4>1
      <4>3. f[p - 1] = f[n]
        BY <2>3, <3>1, <4>2 DEF Chain
      <4> QED BY <2>1, <3>1, <4>1, <4>3
    <3> QED BY <3>2, <3>3
  <2>4. \A p \in 0..(n + 1) : p \in 0..n \/ p = n + 1
    BY <2>1
  <2> QED BY <2>1, <2>3, <2>4
<1>3. apart \in SUBSET Nat
  OBVIOUS
<1> HIDE DEF apart
<1>4. k \in apart
  BY <1>0, <1>1, <1>2, <1>3, NaturalInduction
<1> QED BY <1>0, <1>4 DEF apart

LEMMA ChainEnds ==
    ASSUME NEW S, NEW w, NEW a, NEW f, Chain(S, w, a), Walks(f, w, a)
    PROVE  \E k \in 0..(Bound - 1) :
              /\ w[f[k]] = nullptr
              /\ \A j \in 0..(k - 1) : w[f[j]] # nullptr
              /\ \A n \in 0..Bound : k <= n => f[n] = f[k]
<1>0. Bound \in Nat
  BY AddressesFinite
<1> DEFINE Ends == {n \in Nat : n <= Bound - 1 /\ w[f[n]] = nullptr}
<1>1. Ends # {}
  <2> SUFFICES ASSUME Ends = {} PROVE FALSE
    OBVIOUS
  <2>1. \A j \in 0..(Bound - 1) : w[f[j]] # nullptr
    BY <1>0
  <2>2. \A p, q \in 0..Bound : f[p] = f[q] => p = q
    BY <1>0, <2>1, ChainApart
  <2>3. f \in [0..Bound -> Addresses]
    BY DEF Walks
  <2>4. IsFiniteSet(0..Bound) /\ Cardinality(0..Bound) = Bound + 1
    BY <1>0, FS_Interval
  <2>5. Cardinality(Addresses) < Cardinality(0..Bound)
    BY <1>0, <2>4 DEF Bound
  <2>6. \E p, q \in 0..Bound : p # q /\ f[p] = f[q]
    BY <2>3, <2>4, <2>5, AddressesFinite, FS_PigeonHole
  <2> QED BY <2>2, <2>6
<1>2. Ends \in SUBSET Nat
  OBVIOUS
<1>3. PICK k \in Ends : \A n \in Ends : k <= n
  BY <1>1, <1>2, LeastElement
<1>4. k \in 0..(Bound - 1) /\ w[f[k]] = nullptr /\ k \in Nat
  BY <1>0
<1>5. ASSUME NEW j \in 0..(k - 1) PROVE w[f[j]] # nullptr
  <2>1. j \in Nat /\ j <= Bound - 1 /\ ~(k <= j)
    BY <1>0, <1>4
  <2> QED BY <1>3, <2>1
<1> DEFINE stays == {n \in Nat : k <= n /\ n <= Bound => f[n] = f[k]}
<1>6. 0 \in stays
  BY <1>4
<1>7. ASSUME NEW n \in stays PROVE n + 1 \in stays
  <2> SUFFICES ASSUME k <= n + 1, n + 1 <= Bound PROVE f[n + 1] = f[k]
    OBVIOUS
  <2>1. CASE k = n + 1
    BY <2>1
  <2>2. CASE k # n + 1
    <3>1. k <= n /\ n \in 0..Bound /\ n \in Nat
      BY <1>0, <1>4, <2>2
    <3>2. f[n] = f[k]
      BY <1>0, <3>1
    <3> QED BY <1>4, <3>1, <3>2, ChainLinks
  <2> QED BY <2>1, <2>2
<1>8. stays \in SUBSET Nat
  OBVIOUS
<1> HIDE DEF stays
<1>9. stays = Nat
  BY <1>6, <1>7, <1>8, NaturalInduction
<1>10. \A n \in 0..Bound : k <= n => f[n] = f[k]
  BY <1>0, <1>9 DEF stays
<1> QED BY <1>4, <1>5, <1>10

(* A block x linked behind the last one is the last one of the walk.       *)
LEMMA ChainGrows ==
    ASSUME NEW S, NEW w, NEW a, NEW f, Chain(S, w, a), Walks(f, w, a),
           NEW x \in Addresses \ {nullptr}, x \notin S,
           NEW w2, w2[f[Bound]] = x, w2[x] = nullptr,
           \A b \in S : b # f[Bound] => w2[b] = w[b],
           NEW g, Walks(g, w2, a)
    PROVE  {g[n] : n \in 0..Bound} = {f[n] : n \in 0..Bound} \cup {x}
<1>0. Bound \in Nat
  BY AddressesFinite
<1>1. PICK k \in 0..(Bound - 1) :
              /\ w[f[k]] = nullptr
              /\ \A j \in 0..(k - 1) : w[f[j]] # nullptr
              /\ \A n \in 0..Bound : k <= n => f[n] = f[k]
  BY ChainEnds
<1>2. k \in Nat /\ k + 1 <= Bound /\ k \in 0..Bound /\ f[Bound] = f[k]
  BY <1>0, <1>1
<1>3. \A p, q \in 0..k : f[p] = f[q] => p = q
  BY <1>1, <1>2, ChainApart
<1>4. \A n \in 0..Bound : f[n] \in S
  BY ChainLinks
<1>5. ASSUME NEW n \in 0..Bound, n + 1 <= Bound PROVE g[n + 1] = Onwards(w2, g[n])
  <2>1. n + 1 \in 1..Bound /\ (n + 1) - 1 = n
    BY <1>0, <1>5
  <2> QED BY <2>1 DEF Walks
<1> DEFINE same == {n \in Nat : n <= Bound => g[n] = IF n <= k THEN f[n] ELSE x}
<1>6. 0 \in same
  BY <1>2 DEF Walks
<1>7. ASSUME NEW n \in same PROVE n + 1 \in same
  <2> SUFFICES ASSUME n + 1 <= Bound PROVE g[n + 1] = IF n + 1 <= k THEN f[n + 1] ELSE x
    OBVIOUS
  <2>1. n \in Nat /\ n \in 0..Bound /\ g[n] = IF n <= k THEN f[n] ELSE x
    BY <1>0
  <2>2. g[n + 1] = Onwards(w2, g[n])
    BY <1>5, <2>1
  <2>3. CASE n < k
    <3>1. n \in 0..k /\ k \in 0..k /\ n # k /\ n <= k /\ n \in 0..(k - 1) /\ n + 1 <= k
      BY <1>2, <2>1, <2>3
    <3>2. f[n] # f[k] /\ f[n] \in S /\ g[n] = f[n]
      BY <1>3, <1>4, <2>1, <3>1
    <3>3. w2[g[n]] = w[f[n]] /\ w[f[n]] # nullptr
      BY <1>1, <1>2, <3>1, <3>2
    <3>4. f[n + 1] = w[f[n]] /\ w[f[n]] \in Addresses \ {nullptr}
      BY <2>1, <3>2, <3>3, ChainLinks DEF Chain
    <3> QED BY <2>2, <3>1, <3>3, <3>4 DEF Onwards
  <2>4. CASE n = k
    <3>1. g[n] = f[k] /\ ~(n + 1 <= k)
      BY <1>2, <2>1, <2>4
    <3>2. w2[g[n]] = x
      BY <1>2, <3>1
    <3> QED BY <2>2, <3>1, <3>2 DEF Onwards
  <2>5. CASE n > k
    <3>1. g[n] = x /\ ~(n + 1 <= k)
      BY <1>2, <2>1, <2>5
    <3> QED BY <2>2, <3>1 DEF Onwards
  <2> QED BY <1>2, <2>1, <2>3, <2>4, <2>5
<1>8. same \in SUBSET Nat
  OBVIOUS
<1> HIDE DEF same
<1>9. same = Nat
  BY <1>6, <1>7, <1>8, NaturalInduction
<1>10. ASSUME NEW n \in 0..Bound PROVE g[n] = IF n <= k THEN f[n] ELSE x
  BY <1>0, <1>9 DEF same
<1>11. ASSUME NEW n \in 0..Bound
       PROVE  \E m \in 0..Bound : g[m] = f[n]
  <2>1. CASE n <= k
    BY <1>10, <2>1
  <2>2. CASE ~(n <= k)
    <3>1. f[n] = f[k] /\ g[k] = f[k]
      BY <1>1, <1>2, <1>10, <2>2
    <3> QED BY <1>2, <3>1
  <2> QED BY <2>1, <2>2
<1>12. k + 1 \in 0..Bound /\ g[k + 1] = x
  BY <1>0, <1>2, <1>10
<1> QED BY <1>10, <1>11, <1>12

LEMMA ListIsChain ==
    ASSUME HeapTypeOK, NEW kind, NEW F, NEW L, Layout(kind, F, L), NEW i \in Pools,
           head[i] # nullptr
    PROVE  Chain(F[i], word, head[i])
<1>1. FreeIn(kind, F, i)
  BY DEF Layout, FreeOK
<1>2. ASSUME NEW a \in F[i] PROVE a \in Addresses \ {nullptr}
  <2>1. a \in Addresses /\ PageOf(a) \in 1..(next_page - 1)
    BY <1>1 DEF FreeIn, Block
  <2>2. \A p \in 1..(next_page - 1) : p >= 1
    BY DEF HeapTypeOK
  <2> QED BY <2>1, <2>2, AddressFacts
<1> QED BY <1>1, <1>2 DEF Chain, FreeIn

(* The walk of a pool with a list stays on it and ends.                    *)
LEMMA ListEnds ==
    ASSUME HeapTypeOK, NEW kind, NEW F, NEW L, Layout(kind, F, L), NEW i \in Pools,
           head[i] # nullptr
    PROVE  /\ head[i] \in Addresses /\ word[traverse(i)] = nullptr
           /\ \A n \in 0..Bound : WalkFrom(head[i])[n] \in F[i]
<1>0. Chain(F[i], word, head[i]) /\ head[i] \in Addresses
  BY ListIsChain DEF Chain
<1> DEFINE f == WalkOf(word, head[i])
<1>1. f = WalkFrom(head[i]) /\ traverse(i) = f[Bound]
  BY DEF WalkFrom, WalkOf, traverse, Bound
<1>2. Walks(f, word, head[i])
  BY <1>0, WalkExists
<1> HIDE DEF f
<1>3. PICK k \in 0..(Bound - 1) :
              /\ word[f[k]] = nullptr
              /\ \A j \in 0..(k - 1) : word[f[j]] # nullptr
              /\ \A n \in 0..Bound : k <= n => f[n] = f[k]
  BY <1>0, <1>2, ChainEnds
<1>4. Bound \in 0..Bound /\ k <= Bound
  BY AddressesFinite
<1>5. \A n \in 0..Bound : f[n] \in F[i]
  BY <1>0, <1>2, ChainLinks
<1> QED BY <1>0, <1>1, <1>3, <1>4, <1>5

(* So does the walk from nullptr, along the blocks lost before.            *)
LEMMA LostEnds ==
    ASSUME HeapTypeOK, NEW kind, NEW F, NEW L, Layout(kind, F, L), NEW i \in Pools,
           head[i] = nullptr
    PROVE  /\ word[traverse(i)] = nullptr
           /\ \A n \in 0..Bound : WalkFrom(head[i])[n] \in L \cup {nullptr}
<1>0. LostOK(kind, F, L) /\ Bound \in Nat /\ nullptr \in Addresses
  BY AddressesFinite, AddressFacts DEF Layout
<1> DEFINE f == WalkOf(word, nullptr)
<1>1. f = WalkFrom(head[i]) /\ traverse(i) = f[Bound]
  BY DEF WalkFrom, WalkOf, traverse, Bound
<1>2. Walks(f, word, nullptr)
  BY <1>0, WalkExists
<1> HIDE DEF f
<1>3. \A n \in 0..Bound : f[n] \in L \cup {nullptr}
  <2> DEFINE S == L \cup {nullptr}
  <2>1. \A b \in S : word[b] \in Addresses \ {nullptr} => word[b] \in S
    BY <1>0 DEF LostOK
  <2>2. nullptr \in S
    OBVIOUS
  <2> HIDE DEF S
  <2>3. \A n \in 0..Bound : f[n] \in S
    BY <1>2, <2>1, <2>2, WalkStays
  <2> QED BY <2>3 DEF S
<1>4. word[f[Bound]] = nullptr
  <2>1. CASE word[nullptr] = nullptr
    <3>1. \A b \in {nullptr} : word[b] \in Addresses \ {nullptr} => word[b] \in {nullptr}
      BY <2>1
    <3>2. \A n \in 0..Bound : f[n] \in {nullptr}
      BY <1>2, <3>1, WalkStays
    <3> QED BY <1>0, <2>1, <3>2
  <2>2. CASE word[nullptr] # nullptr
    <3>a. PICK x : x = word[nullptr]
      OBVIOUS
    <3>b. PICK g : g = WalkOf(word, x)
      OBVIOUS
    <3>1. x \in L /\ L \subseteq Addresses \ {nullptr}
      <4>1. \A p \in 1..(next_page - 1) : p >= 1
        BY DEF HeapTypeOK
      <4>2. ASSUME NEW a \in L PROVE a \in Addresses \ {nullptr}
        BY <1>0, <4>1, AddressFacts DEF LostOK
      <4> QED BY <1>0, <2>2, <3>a, <4>2 DEF LostOK
    <3>2. Chain(L, word, x)
      <4>1. ASSUME NEW b \in L PROVE word[b] \in L \cup {nullptr} /\ word[b] # x
        BY <1>0, <2>2, <3>1, <3>a DEF LostOK
      <4> QED BY <1>0, <3>1, <4>1 DEF Chain, LostOK
    <3>3. Walks(g, word, x)
      BY <3>1, <3>b, WalkExists
    <3>4. PICK k \in 0..(Bound - 1) :
              /\ word[g[k]] = nullptr
              /\ \A j \in 0..(k - 1) : word[g[j]] # nullptr
              /\ \A n \in 0..Bound : k <= n => g[n] = g[k]
      BY <3>2, <3>3, ChainEnds
    <3> DEFINE shifted == {n \in Nat : n + 1 <= Bound => f[n + 1] = g[n]}
    <3>5. 0 \in shifted
      <4> SUFFICES ASSUME 1 <= Bound PROVE f[1] = g[0]
        OBVIOUS
      <4>1. 1 \in 1..Bound /\ 1 - 1 = 0
        BY <1>0
      <4>2. f[1] = Onwards(word, f[0]) /\ f[0] = nullptr /\ g[0] = x
        BY <1>2, <3>3, <4>1 DEF Walks
      <4> QED BY <3>1, <3>a, <4>2 DEF Onwards
    <3>6. ASSUME NEW n \in shifted PROVE n + 1 \in shifted
      <4> SUFFICES ASSUME (n + 1) + 1 <= Bound PROVE f[(n + 1) + 1] = g[n + 1]
        OBVIOUS
      <4>1. /\ n \in Nat /\ f[n + 1] = g[n]
            /\ n + 1 \in 1..Bound /\ (n + 1) - 1 = n
            /\ (n + 1) + 1 \in 1..Bound /\ ((n + 1) + 1) - 1 = n + 1
        BY <1>0
      <4>2. f[(n + 1) + 1] = Onwards(word, f[n + 1]) /\ g[n + 1] = Onwards(word, g[n])
        BY <1>2, <3>3, <4>1 DEF Walks
      <4> QED BY <4>1, <4>2
    <3>7. shifted \in SUBSET Nat
      OBVIOUS
    <3> HIDE DEF shifted
    <3>8. shifted = Nat
      BY <3>5, <3>6, <3>7, NaturalInduction
    <3>9. Bound - 1 \in Nat /\ (Bound - 1) + 1 = Bound /\ k <= Bound - 1
          /\ Bound - 1 \in 0..Bound
      BY <1>0, <3>4
    <3>10. f[Bound] = g[Bound - 1]
      BY <3>8, <3>9 DEF shifted
    <3> QED BY <3>4, <3>9, <3>10
  <2> QED BY <2>1, <2>2
<1> QED BY <1>1, <1>3, <1>4

LEMMA EveryWalkEnds == HeapInv => \A i \in Pools : WalkEnds(i)
<1> SUFFICES ASSUME HeapInv, NEW i \in Pools PROVE WalkEnds(i)
  OBVIOUS
<1>0. HeapTypeOK
  BY DEF HeapInv
<1>1. PICK kind, F, L : Layout(kind, F, L)
  BY DEF HeapInv
<1>2. FreeIn(kind, F, i) /\ LostOK(kind, F, L) /\ FreedOK(kind)
  BY <1>1 DEF Layout, FreeOK
<1>3. ASSUME NEW a \in F[i] PROVE Readable(a)
  <2>1. PageOf(a) \in 1..(next_page - 1) /\ kind[PageOf(a)] # 0
    BY <1>2, Constants DEF FreeIn, Block
  <2> QED BY <1>2, <2>1 DEF FreedOK, Readable
<1>4. ASSUME NEW a \in L \cup {nullptr} PROVE Readable(a)
  BY <1>2 DEF LostOK, FreedOK, Readable
<1>5. CASE head[i] # nullptr
  BY <1>0, <1>1, <1>3, <1>5, ListEnds DEF WalkEnds, Bound
<1>6. CASE head[i] = nullptr
  BY <1>0, <1>1, <1>4, <1>6, LostEnds, AddressFacts DEF WalkEnds, Bound
<1> QED BY <1>5, <1>6

(* While clean, the walk kfree makes along the list of a pool, or along    *)
(* the lost blocks when the list is empty, stays in mapped pages and comes *)
(* to a block that points to nullptr (allocator.c:60-67).                  *)
THEOREM CleanWalksComeBack == IntSizes => (KmallocSpec => []WalksEnd)
<1> SUFFICES ASSUME IntSizes PROVE KmallocSpec => []WalksEnd
  OBVIOUS
<1>1. (clean => HeapInv) => WalksEnd
  BY EveryWalkEnds DEF WalksEnd
<1> QED BY <1>1, HeapIsKept, PTL

LEMMA FreeBlocksAre ==
    ASSUME NEW i \in Pools, head[i] # nullptr, head[i] \in Addresses
    PROVE  FreeBlocks(i) = {WalkOf(word, head[i])[n] : n \in 0..Bound}
<1>1. WalkFrom(head[i]) = WalkOf(word, head[i])
  BY DEF WalkFrom, WalkOf
<1>2. DOMAIN WalkOf(word, head[i]) = 0..Bound
  BY WalkExists DEF Walks
<1>3. FreeBlocks(i) = {WalkFrom(head[i])[n] : n \in DOMAIN WalkFrom(head[i])}
  BY DEF FreeBlocks
<1> QED BY <1>1, <1>2, <1>3

LEMMA FreeBlocksAfter ==
    ASSUME NEW i \in Pools, head'[i] # nullptr, head'[i] \in Addresses
    PROVE  FreeBlocks(i)' = {WalkOf(word', head'[i])[n] : n \in 0..Bound}
<1>1. WalkFrom(head[i])' = WalkOf(word', head'[i])
  BY DEF WalkFrom, WalkOf
<1>2. DOMAIN WalkOf(word', head'[i]) = 0..Bound
  BY WalkExists DEF Walks
<1>3. FreeBlocks(i)' = {WalkFrom(head[i])'[n] : n \in DOMAIN WalkFrom(head[i])'}
  BY DEF FreeBlocks
<1> QED BY <1>1, <1>2, <1>3

LEMMA ReturnStep ==
    ASSUME IntSizes, HeapInv, NEW r \in live, kfree(r.add), ~Big(r), r.size > 0,
           NEW i, i = SmallestPool(r.size), head[i] # nullptr
    PROVE  FreeBlocks(i)' = FreeBlocks(i) \cup {Start(r)}
<1>0. HeapTypeOK
  BY DEF HeapInv
<1>1. PICK kind, F, L : Layout(kind, F, L)
  BY DEF HeapInv
<1>a. PICK start : start = Start(r)
  OBVIOUS
<1>b. PICK a : a = head[i]
  OBVIOUS
<1>2. r.size \in Sizes /\ start \in Addresses \ {nullptr} /\ start \in Nat
  BY <1>0, <1>1, <1>a, LiveFacts
<1>3. i \in Pools
  BY <1>2, PoolChosen DEF Big
<1>4. start \notin F[i] /\ word[start] = PoolPointer(i) /\ size_at[start] = r.size
  BY <1>1, <1>3, <1>a DEF Layout, LiveOK, Held, PooledOK
<1>5. i = -word[start] /\ word[start] # nullptr
  <2>1. i \in Nat \ {0}
    BY <1>3, Constants
  <2>2. word[start] = -i
    BY <1>4 DEF PoolPointer
  <2> QED BY <2>1, <2>2 DEF nullptr
<1>6. AsInt(r.size) > 0
  BY <1>2, SizeFacts
<1>7. word' = [word EXCEPT ![traverse(i)] = start, ![start] = nullptr] /\ head' = head
  BY <1>4, <1>5, <1>6, <1>a DEF kfree, Start, ReturnBlock
<1>8. Chain(F[i], word, a)
  BY <1>0, <1>1, <1>3, <1>b, ListIsChain
<1>9. a \in Addresses \ {nullptr}
  BY <1>8 DEF Chain
<1>c. PICK f : f = WalkOf(word, a)
  OBVIOUS
<1>d. PICK g : g = WalkOf(word', a)
  OBVIOUS
<1>10. Walks(f, word, a) /\ Walks(g, word', a)
  BY <1>9, <1>c, <1>d, WalkExists
<1>11. traverse(i) = f[Bound]
  BY <1>b, <1>c DEF traverse, WalkFrom, WalkOf, Bound
<1>12. f[Bound] \in F[i] /\ F[i] \subseteq Addresses
  <2>1. Bound \in 0..Bound
    BY AddressesFinite
  <2> QED BY <1>8, <1>10, <2>1, ChainLinks DEF Chain
<1>13. /\ word'[f[Bound]] = start /\ word'[start] = nullptr
       /\ \A b \in F[i] : b # f[Bound] => word'[b] = word[b]
  BY <1>0, <1>2, <1>4, <1>7, <1>11, <1>12 DEF HeapTypeOK
<1>14. {g[n] : n \in 0..Bound} = {f[n] : n \in 0..Bound} \cup {start}
  BY <1>2, <1>4, <1>8, <1>10, <1>13, ChainGrows
<1>15. FreeBlocks(i) = {f[n] : n \in 0..Bound}
  BY <1>3, <1>9, <1>b, <1>c, FreeBlocksAre
<1>16. FreeBlocks(i)' = {g[n] : n \in 0..Bound}
  BY <1>3, <1>7, <1>9, <1>b, <1>d, FreeBlocksAfter
<1> QED BY <1>14, <1>15, <1>16, <1>a

(* While clean, a freed block joins the free list of its pool, which keeps *)
(* its others, unless that list was empty or the size was 0                *)
(* (allocator.c:20-22, 156-180): the walk of kfree does end at the last    *)
(* block of the list.                                                      *)
THEOREM FreedBlocksReturn == IntSizes => (KmallocSpec => BlockReturned)
<1> SUFFICES ASSUME IntSizes PROVE KmallocSpec => BlockReturned
  OBVIOUS
<1> DEFINE Returned ==
        clean => \A r \in live \ live' :
            PoolFor(r.size) # {} /\ r.size > 0 =>
                LET i == SmallestPool(r.size)
                IN  head[i] # nullptr =>
                        FreeBlocks(i)' = FreeBlocks(i) \cup {Start(r)}
<1>1. (clean => HeapInv) /\ [KmallocNext]_vars => [Returned]_vars
  <2> SUFFICES ASSUME HeapInv, KmallocNext, NEW r \in live \ live',
                      PoolFor(r.size) # {}, r.size > 0,
                      NEW i, i = SmallestPool(r.size), head[i] # nullptr
               PROVE  FreeBlocks(i)' = FreeBlocks(i) \cup {Start(r)}
    OBVIOUS
  <2>1. ASSUME NEW size \in Sizes, kmalloc(size) PROVE FALSE
    <3>1. live \subseteq live'
      BY <2>1 DEF kmalloc, kmalloc_big, FromPool, Return
    <3> QED BY <3>1
  <2>2. ASSUME NEW s \in live, kfree(s.add) PROVE FreeBlocks(i)' = FreeBlocks(i) \cup {Start(r)}
    <3>1. r.add = s.add
      BY <2>2 DEF kfree
    <3>2. AllApart
      BY AllocationsApart
    <3>3. r = s
      BY <3>1, <3>2 DEF AllApart
    <3> QED BY <2>2, <3>3, ReturnStep DEF Big
  <2> QED BY <2>1, <2>2 DEF KmallocNext
<1> QED BY <1>1, HeapIsKept, PTL DEF KmallocSpec, BlockReturned
=============================================================================
