---------------------------- MODULE KheapProofs -----------------------------
(***************************************************************************)
(* Partition, FreeListOK, the refinement HeapSpec, and that every call     *)
(* searches the whole list and comes to its end (SearchComplete,           *)
(* CallProgress), for every page size, amount of memory and set of         *)
(* requests.                                                               *)
(*                                                                         *)
(* The free list and the blocks are two functions, next and units, and     *)
(* most of the argument is about functions: a cycle in address order stays *)
(* one when a block is linked in or out, and the extents of the blocks     *)
(* stay a partition when one is cut in two or two are joined.              *)
(***************************************************************************)
EXTENDS Kheap, TLAPS

Blocks == DOMAIN units

\* The block in the hands of kfree_internal.
InHand == {a \in {block} : call.at = "place"}

\* Who has which block.
Shape ==
  /\ frame_bitmap \subseteq Frames /\ Used \subseteq frame_bitmap
  /\ core \subseteq frame_bitmap \ Used
  /\ next \in [Free_list -> Nat] /\ units \in [Blocks -> Nat]
  /\ Blocks \subseteq Nat /\ BASE \in Free_list
  /\ Blocks = Free_list \union DOMAIN held \union InHand
  /\ Free_list \intersect DOMAIN held = {}
  /\ \A a \in InHand : a \notin Free_list /\ a \notin DOMAIN held
  /\ units[BASE] = 0
  /\ \A a \in Blocks \ {BASE} : units[a] > 0

Call == [at : {"idle", "scan", "place"}, prev : Nat, curr : Nat, block : Nat,
         asked : Nat, want : Nat]

\* The local variables of the call in progress.
CallInv ==
  /\ call \in Call /\ freep \in Nat
  /\ call.at = "idle" => call = Idle
  /\ call.at # "idle" => freep # NULL /\ curr \in Free_list
  /\ call.at = "scan" => prev \in Free_list /\ curr = next[prev] /\ want > 0
  /\ want > 0 => call.asked \in Requests /\ want = UnitsFor(call.asked)
  /\ freep = NULL => Free_list = {BASE}

\* Clients hold what they asked for.
RoomInv ==
  \A a \in DOMAIN held :
    held[a] \in Requests /\ ((units[a] - 1) * HEADER >= held[a] \/ held[a] \in Wrapping)

\* Blocks follow each other without overlap; the list head is none of them.
Apart(un) ==
  \A a, b \in DOMAIN un \ {BASE} : a < b => a + un[a] <= b

\* The units in a block.
Covered(un) == {x \in Nat : \E a \in DOMAIN un : a <= x /\ x < a + un[a]}

\* No step moves or resizes a block a client holds.
HeldStay == \A a \in DOMAIN held : units'[a] = units[a]

HeapInv ==
  /\ Shape /\ CallInv /\ RoomInv
  /\ Apart(units) /\ UnitsOf(core) = Covered(units)
  /\ Ordered /\ Coalesced

-----------------------------------------------------------------------------
(* Cycles in address order                                                 *)

\* What Ordered says of the links.
Cycle(nx) ==
  \A a \in DOMAIN nx :
    /\ nx[a] \in DOMAIN nx
    /\ \A b \in DOMAIN nx :
         IF nx[a] > a THEN b <= a \/ nx[a] <= b
         ELSE nx[a] <= b /\ b <= a

\* Two blocks are not linked to the same one.
LEMMA OnePredecessor ==
  ASSUME NEW nx, DOMAIN nx \subseteq Nat, Cycle(nx),
         NEW a \in DOMAIN nx, NEW b \in DOMAIN nx, nx[a] = nx[b]
  PROVE  a = b
<1>1. a \in Nat /\ b \in Nat /\ nx[a] \in Nat /\ nx[a] \in DOMAIN nx
  BY DEF Cycle
<1>2. /\ IF nx[a] > a THEN b <= a \/ nx[a] <= b ELSE nx[a] <= b /\ b <= a
      /\ IF nx[b] > b THEN a <= b \/ nx[b] <= a ELSE nx[b] <= a /\ a <= b
  BY DEF Cycle
<1> QED BY <1>1, <1>2

\* The link of a block leads back to it only when it is alone.
LEMMA AloneInCycle ==
  ASSUME NEW nx, DOMAIN nx \subseteq Nat, Cycle(nx),
         NEW a \in DOMAIN nx, nx[a] = a, NEW b \in DOMAIN nx
  PROVE  b = a
<1>1. a \in Nat /\ b \in Nat
  OBVIOUS
<1>2. IF nx[a] > a THEN b <= a \/ nx[a] <= b ELSE nx[a] <= b /\ b <= a
  BY DEF Cycle
<1> QED BY <1>1, <1>2

\* A block is linked out.
LEMMA UnlinkCycle ==
  ASSUME NEW nx, DOMAIN nx \subseteq Nat, Cycle(nx),
         NEW p \in DOMAIN nx, NEW x, x = nx[p], x # p,
         NEW N, N = [a \in DOMAIN nx \ {x} |-> IF a = p THEN nx[x] ELSE nx[a]]
  PROVE  Cycle(N)
<1>1. x \in DOMAIN nx /\ x \in Nat /\ p \in Nat
  BY DEF Cycle
<1>2. DOMAIN N = DOMAIN nx \ {x}
  OBVIOUS
<1>3. nx[x] # x
  BY <1>1, AloneInCycle
<1>4. N[p] = nx[x] /\ \A a \in DOMAIN N \ {p} : N[a] = nx[a]
  BY <1>2
<1>5. ASSUME NEW a \in DOMAIN N PROVE N[a] \in DOMAIN N
  <2>1. CASE a = p
    BY <1>1, <1>2, <1>3, <1>4, <2>1 DEF Cycle
  <2>2. CASE a # p
    <3>1. nx[a] # x
      BY <1>2, <2>2, OnePredecessor
    <3> QED BY <1>2, <1>4, <2>2, <3>1 DEF Cycle
  <2> QED BY <2>1, <2>2
<1>6. ASSUME NEW a \in DOMAIN N, NEW b \in DOMAIN N
      PROVE  IF N[a] > a THEN b <= a \/ N[a] <= b ELSE N[a] <= b /\ b <= a
  <2>1. a \in Nat /\ b \in Nat /\ nx[x] \in Nat /\ nx[x] \in DOMAIN nx
    BY <1>1, <1>2 DEF Cycle
  <2>2. CASE a # p
    BY <1>2, <1>4, <2>2 DEF Cycle
  <2>3. CASE a = p
    <3>1. N[a] = nx[x]
      BY <1>4, <2>3
    <3>2. /\ IF x > p THEN b <= p \/ x <= b ELSE x <= b /\ b <= p
          /\ IF nx[x] > x THEN b <= x \/ nx[x] <= b ELSE nx[x] <= b /\ b <= x
          /\ IF nx[x] > x THEN p <= x \/ nx[x] <= p ELSE nx[x] <= p /\ p <= x
      BY <1>1, <1>2 DEF Cycle
    <3>3. b # x
      BY <1>2
    <3> QED BY <1>1, <2>1, <2>3, <3>1, <3>2, <3>3
  <2> QED BY <2>2, <2>3
<1> QED BY <1>5, <1>6 DEF Cycle

\* A block is linked in, where kfree_internal's loop stops.
LEMMA InsertCycle ==
  ASSUME NEW nx, DOMAIN nx \subseteq Nat, Cycle(nx),
         NEW c \in DOMAIN nx, NEW b \in Nat, b \notin DOMAIN nx,
         \/ b > c /\ b < nx[c]
         \/ c >= nx[c] /\ (b > c \/ b < nx[c]),
         NEW N, N = [a \in DOMAIN nx \union {b} |->
                       CASE a = c -> b [] a = b -> nx[c] [] OTHER -> nx[a]]
  PROVE  Cycle(N)
<1>1. nx[c] \in DOMAIN nx /\ nx[c] \in Nat /\ c \in Nat /\ b # c
  BY DEF Cycle
<1>2. DOMAIN N = DOMAIN nx \union {b}
  OBVIOUS
<1>3. N[c] = b /\ N[b] = nx[c] /\ \A a \in DOMAIN nx \ {c} : N[a] = nx[a]
  BY <1>1
<1>4. \A d \in DOMAIN nx : IF nx[c] > c THEN d <= c \/ nx[c] <= d
                           ELSE nx[c] <= d /\ d <= c
  BY DEF Cycle
<1>5. ASSUME NEW a \in DOMAIN N PROVE N[a] \in DOMAIN N
  BY <1>1, <1>2, <1>3 DEF Cycle
<1>6. ASSUME NEW a \in DOMAIN N, NEW d \in DOMAIN N
      PROVE  IF N[a] > a THEN d <= a \/ N[a] <= d ELSE N[a] <= d /\ d <= a
  <2>1. a \in Nat /\ d \in Nat
    BY <1>2
  <2>2. CASE a = c
    <3>1. d = b \/ d \in DOMAIN nx
      BY <1>2
    <3> QED BY <1>1, <1>3, <1>4, <2>1, <2>2, <3>1
  <2>3. CASE a = b
    <3>1. d = b \/ d \in DOMAIN nx
      BY <1>2
    <3> QED BY <1>1, <1>3, <1>4, <2>1, <2>3, <3>1
  <2>4. CASE a \in DOMAIN nx \ {c}
    <3>1. N[a] = nx[a] /\ nx[a] \in Nat
      BY <1>3, <2>4 DEF Cycle
    <3>2. CASE d \in DOMAIN nx
      BY <2>4, <3>1, <3>2 DEF Cycle
    <3>3. CASE d = b
      <4>1. /\ IF nx[a] > a THEN c <= a \/ nx[a] <= c ELSE nx[a] <= c /\ c <= a
            /\ IF nx[a] > a THEN nx[c] <= a \/ nx[a] <= nx[c]
               ELSE nx[a] <= nx[c] /\ nx[c] <= a
            /\ IF nx[c] > c THEN a <= c \/ nx[c] <= a ELSE nx[c] <= a /\ a <= c
        BY <1>1, <1>4, <2>4 DEF Cycle
      <4>2. IF nx[c] > c THEN nx[a] <= c \/ nx[c] <= nx[a]
            ELSE nx[c] <= nx[a] /\ nx[a] <= c
        BY <1>4, <2>4 DEF Cycle
      <4>3. nx[a] # nx[c]
        BY <2>4, OnePredecessor
      <4> QED BY <1>1, <2>1, <2>4, <3>1, <3>3, <4>1, <4>2, <4>3
    <3> QED BY <1>2, <3>2, <3>3
  <2> QED BY <1>2, <2>2, <2>3, <2>4
<1> QED BY <1>5, <1>6 DEF Cycle

-----------------------------------------------------------------------------
(* Units and pages                                                         *)

LEMMA Sizes ==
  /\ UNITS \in Nat /\ UNITS > 1 /\ HEADER \in Nat /\ HEADER > 0
  /\ PAGE_SIZE \in Nat /\ PAGE_SIZE > 0 /\ PAGE_SIZE = UNITS * HEADER
  /\ MAX_FRAMES \in Nat /\ MAX_FRAMES > 0
  /\ ADDRESSES \in Nat /\ ADDRESSES > 0
<1>1. /\ HEADER \in Nat /\ HEADER > 0 /\ UNITS > 1 /\ PAGE_SIZE = UNITS * HEADER
      /\ PAGE_SIZE \in Nat /\ PAGE_SIZE > 0 /\ MAX_FRAMES \in Nat /\ MAX_FRAMES > 0
  BY KheapAssumption, PfaAssumption
<1>2. UNITS \in Nat
  BY <1>1 DEF UNITS
<1>3. ADDRESSES \in Nat /\ ADDRESSES > 0
  BY <1>1 DEF ADDRESSES
<1> QED BY <1>1, <1>2, <1>3

\* The unit x lies in the page f.
In(x, f) == f * UNITS <= x /\ x <= f * UNITS + UNITS - 1

LEMMA UnitsOfIs ==
  ASSUME NEW S, S \subseteq Nat, NEW x
  PROVE  x \in UnitsOf(S) <=> x \in Nat /\ \E f \in S : In(x, f)
<1>1. x \in UnitsOf(S) <=> \E f \in S : x \in f * UNITS .. f * UNITS + UNITS - 1
  BY DEF UnitsOf
<1>2. \A f \in S : f * UNITS \in Nat /\ f * UNITS + UNITS - 1 \in Nat
  <2> SUFFICES ASSUME NEW f \in S PROVE f * UNITS \in Nat /\ f * UNITS + UNITS - 1 \in Nat
    OBVIOUS
  <2>1. f \in Nat /\ UNITS \in Nat /\ UNITS > 1
    BY Sizes
  <2>2. f * UNITS \in Nat
    BY <2>1
  <2> QED BY <2>1, <2>2
<1>3. \A f \in S : x \in f * UNITS .. f * UNITS + UNITS - 1 <=> x \in Nat /\ In(x, f)
  BY <1>2 DEF In
<1> QED BY <1>1, <1>3

\* A unit lies in one page.
LEMMA OnePage ==
  ASSUME NEW x \in Nat, NEW f \in Nat, NEW g \in Nat, In(x, f), In(x, g)
  PROVE  f = g
<1>1. UNITS \in Nat /\ UNITS > 1
  BY Sizes
<1>2. ASSUME NEW a \in Nat, NEW b \in Nat, In(x, a), In(x, b), a < b PROVE FALSE
  <2>1. a + 1 <= b
    BY <1>2
  <2>2. (a + 1) * UNITS <= b * UNITS
    BY <1>1, <2>1
  <2>3. (a + 1) * UNITS = a * UNITS + UNITS /\ a * UNITS \in Nat /\ b * UNITS \in Nat
    BY <1>1
  <2> QED BY <1>1, <1>2, <2>2, <2>3 DEF In
<1> QED BY <1>2

LEMMA PageOfUnit ==
  ASSUME NEW x \in Nat
  PROVE  \E d \in Nat, m \in 0 .. UNITS - 1 :
           /\ d = x \div UNITS /\ m = x % UNITS
           /\ x = UNITS * d + m /\ In(x, d)
<1>1. UNITS \in Nat /\ UNITS > 1
  BY Sizes
<1> DEFINE d == x \div UNITS
           m == x % UNITS
<1>2. d \in Nat /\ m \in 0 .. UNITS - 1 /\ x = UNITS * d + m
  BY <1>1
<1> HIDE DEF d, m
<1>3. In(x, d)
  <2>1. UNITS * d = d * UNITS /\ d * UNITS \in Nat
    BY <1>1, <1>2
  <2> QED BY <1>1, <1>2, <2>1 DEF In
<1>4. d = x \div UNITS /\ m = x % UNITS
  BY DEF d, m
<1> QED BY <1>2, <1>3, <1>4

\* The list head, and the unit below it, lie in a page the heap cannot take.
LEMMA BaseApart ==
  ASSUME NEW S, S \subseteq Nat, S \intersect Used = {}
  PROVE  BASE \notin UnitsOf(S) /\ BASE - 1 \notin UnitsOf(S)
<1>1. PICK d \in Nat, m \in 0 .. UNITS - 1 :
        d = BASE \div UNITS /\ m = BASE % UNITS /\ BASE = UNITS * d + m /\ In(BASE, d)
  BY KheapAssumption, PageOfUnit
<1>2. BASE \in Nat /\ d \in Used /\ m # 0 /\ BASE = UNITS * d + m /\ In(BASE, d)
  BY <1>1, KheapAssumption
<1>3. UNITS \in Nat /\ UNITS > 1 /\ UNITS * d = d * UNITS /\ d * UNITS \in Nat
  BY <1>2, Sizes
<1>4. BASE - 1 \in Nat /\ In(BASE - 1, d)
  BY <1>2, <1>3 DEF In
<1>5. ASSUME NEW x \in Nat, In(x, d), x \in UnitsOf(S) PROVE FALSE
  <2>1. PICK f \in S : In(x, f)
    BY <1>5, UnitsOfIs
  <2>2. f = d
    BY <1>2, <1>5, <2>1, OnePage
  <2> QED BY <1>2, <2>1, <2>2
<1> QED BY <1>2, <1>4, <1>5

\* Pages in a row are units in a row.
LEMMA RunUnits ==
  ASSUME NEW f \in Nat, NEW n \in Nat
  PROVE  /\ f * UNITS \in Nat /\ n * UNITS \in Nat
         /\ UnitsOf(Run(f, n)) = f * UNITS .. f * UNITS + n * UNITS - 1
<1>1. UNITS \in Nat /\ UNITS > 1 /\ Run(f, n) \subseteq Nat
  BY Sizes DEF Run
<1>2. f * UNITS \in Nat /\ n * UNITS \in Nat /\ (f + n) * UNITS = f * UNITS + n * UNITS
  BY <1>1
<1>3. ASSUME NEW x \in UnitsOf(Run(f, n))
      PROVE  x \in f * UNITS .. f * UNITS + n * UNITS - 1
  <2>1. x \in Nat /\ \E g \in Run(f, n) : In(x, g)
    BY <1>1, UnitsOfIs
  <2>2. PICK g \in Run(f, n) : In(x, g)
    BY <2>1
  <2>3. g \in Nat /\ f <= g /\ g + 1 <= f + n
    BY <2>2 DEF Run
  <2>4. f * UNITS <= g * UNITS /\ (g + 1) * UNITS <= (f + n) * UNITS
    BY <1>1, <2>3
  <2>5. (g + 1) * UNITS = g * UNITS + UNITS /\ g * UNITS \in Nat
    BY <1>1, <2>3
  <2> QED BY <1>1, <1>2, <2>1, <2>2, <2>4, <2>5 DEF In
<1>4. ASSUME NEW x \in f * UNITS .. f * UNITS + n * UNITS - 1
      PROVE  x \in UnitsOf(Run(f, n))
  <2>1. x \in Nat /\ f * UNITS <= x /\ x < (f + n) * UNITS
    BY <1>2
  <2>2. PICK d \in Nat : In(x, d)
    BY <2>1, PageOfUnit
  <2>3. d \in Nat /\ In(x, d)
    BY <2>2
  <2>4. d * UNITS \in Nat
    BY <1>1, <2>3
  <2>5. ~(d < f)
    <3> SUFFICES ASSUME d + 1 <= f PROVE FALSE
      BY <2>3
    <3>1. (d + 1) * UNITS <= f * UNITS /\ (d + 1) * UNITS = d * UNITS + UNITS
      BY <1>1, <2>3
    <3> QED BY <1>1, <1>2, <2>1, <2>3, <2>4, <3>1 DEF In
  <2>6. ~(d >= f + n)
    <3> SUFFICES ASSUME f + n <= d PROVE FALSE
      BY <2>3
    <3>1. (f + n) * UNITS <= d * UNITS
      BY <1>1, <2>3
    <3> QED BY <1>1, <1>2, <2>1, <2>3, <2>4, <3>1 DEF In
  <2>7. d \in Run(f, n)
    BY <2>3, <2>5, <2>6 DEF Run
  <2> QED BY <1>1, <2>1, <2>3, <2>7, UnitsOfIs
<1> QED BY <1>2, <1>3, <1>4

LEMMA UnitsUnion ==
  ASSUME NEW S, NEW T
  PROVE  UnitsOf(S \union T) = UnitsOf(S) \union UnitsOf(T)
BY DEF UnitsOf

\* The rounding of kmalloc.
LEMMA UnitsForRoom ==
  ASSUME NEW bytes \in Requests
  PROVE  /\ UnitsFor(bytes) \in Nat /\ UnitsFor(bytes) > 0
         /\ (UnitsFor(bytes) - 1) * HEADER >= bytes \/ bytes \in Wrapping
<1>1. bytes \in Nat /\ HEADER \in Nat /\ HEADER > 0 /\ ADDRESSES \in Nat /\ ADDRESSES > 0
  BY Sizes, KheapAssumption
<1> DEFINE w == (bytes + HEADER - 1) % ADDRESSES
           q == w \div HEADER
           m == w % HEADER
<1>2. w \in Nat /\ (bytes + HEADER - 1 < ADDRESSES => w = bytes + HEADER - 1)
  BY <1>1
<1>3. UnitsFor(bytes) = q + 1
  BY DEF UnitsFor
<1> HIDE DEF w
<1>4. q \in Nat /\ m \in 0 .. HEADER - 1 /\ w = HEADER * q + m
  BY <1>1, <1>2
<1> HIDE DEF q, m
<1>5. bytes + HEADER - 1 >= ADDRESSES => bytes \in Wrapping
  BY DEF Wrapping
<1>6. bytes + HEADER - 1 < ADDRESSES => q * HEADER >= bytes
  <2>1. q * HEADER = HEADER * q /\ q * HEADER \in Nat
    BY <1>1, <1>4
  <2> QED BY <1>1, <1>2, <1>4, <2>1
<1>7. (q + 1) - 1 = q
  BY <1>4
<1> QED BY <1>1, <1>3, <1>4, <1>5, <1>6, <1>7

LEMMA PagesType ==
  ASSUME NEW n \in Nat PROVE Pages(n) \in Nat
<1> DEFINE v == (n * HEADER) % ADDRESSES
           w == (v + PAGE_SIZE - 1) % ADDRESSES
<1>1. v \in Nat
  BY Sizes
<1> HIDE DEF v
<1>2. w \in Nat
  BY <1>1, Sizes
<1> HIDE DEF w
<1>3. w \div PAGE_SIZE \in Nat
  BY <1>2, Sizes
<1> QED BY <1>3 DEF Pages, w, v

-----------------------------------------------------------------------------
(* Cutting and joining blocks                                              *)

\* A block is cut in two.
LEMMA SplitUnits ==
  ASSUME NEW un, DOMAIN un \subseteq Nat, Apart(un), un \in [DOMAIN un -> Nat],
         NEW c \in DOMAIN un \ {BASE}, NEW r \in Nat, NEW w \in Nat,
         r > 0, w > 0, un[c] = r + w, BASE \notin Covered(un),
         \A a \in DOMAIN un \ {BASE} : un[a] > 0,
         NEW N, DOMAIN N = DOMAIN un \union {c + r}, N[c] = r, N[c + r] = w,
         \A a \in DOMAIN un \ {c} : a # c + r => N[a] = un[a]
  PROVE  /\ c + r \notin DOMAIN un
         /\ Apart(N) /\ Covered(N) = Covered(un)
<1>1. c \in Nat /\ c + r \in Nat /\ c + r # c
  OBVIOUS
<1>2. c + r # BASE
  BY <1>1 DEF Covered
<1>3. c + r \notin DOMAIN un
  <2> SUFFICES ASSUME c + r \in DOMAIN un \ {BASE} PROVE FALSE
    BY <1>2
  <2>1. c < c + r => c + un[c] <= c + r
    BY DEF Apart
  <2> QED BY <1>1, <2>1
<1>4. \A a \in DOMAIN un \ {c} : a \in Nat /\ N[a] = un[a] /\ un[a] \in Nat
  BY <1>3
<1>5. Apart(N)
  <2> SUFFICES ASSUME NEW a \in DOMAIN N \ {BASE}, NEW b \in DOMAIN N \ {BASE}, a < b
               PROVE  a + N[a] <= b
    BY DEF Apart
  <2>1. CASE a \in DOMAIN un \ {c} /\ b \in DOMAIN un
    BY <1>4, <2>1 DEF Apart
  <2>2. CASE a \in DOMAIN un \ {c} /\ b = c + r
    <3>1. a < c => a + un[a] <= c
      BY <2>2 DEF Apart
    <3>2. c < a => c + un[c] <= a
      BY <2>2 DEF Apart
    <3> QED BY <1>1, <1>4, <2>2, <3>1, <3>2
  <2>3. CASE a = c /\ b \in DOMAIN un
    <3>1. c + un[c] <= b
      BY <2>3 DEF Apart
    <3>2. b \in Nat
      BY <2>3
    <3> QED BY <1>1, <2>3, <3>1, <3>2
  <2>4. CASE a = c /\ b = c + r
    BY <1>1, <2>4
  <2>5. CASE a = c + r /\ b \in DOMAIN un
    <3>1. b \in Nat /\ c < b
      BY <1>1, <2>5
    <3>2. c + un[c] <= b
      BY <3>1, <2>5 DEF Apart
    <3> QED BY <1>1, <2>5, <3>1, <3>2
  <2>6. ~(a = c + r /\ b = c + r)
    BY <1>1
  <2> QED BY <2>1, <2>2, <2>3, <2>4, <2>5, <2>6
<1>6. ASSUME NEW x \in Nat
      PROVE  (\E a \in DOMAIN N : a <= x /\ x < a + N[a]) <=>
             (\E a \in DOMAIN un : a <= x /\ x < a + un[a])
  <2>1. ASSUME NEW a \in DOMAIN N, a <= x, x < a + N[a]
        PROVE  \E b \in DOMAIN un : b <= x /\ x < b + un[b]
    <3>1. CASE a \in DOMAIN un \ {c}
      BY <1>4, <2>1, <3>1
    <3>2. CASE a = c \/ a = c + r
      <4>1. c <= x /\ x < c + un[c]
        BY <1>1, <2>1, <3>2
      <4> QED BY <4>1
    <3> QED BY <3>1, <3>2
  <2>2. ASSUME NEW a \in DOMAIN un, a <= x, x < a + un[a]
        PROVE  \E b \in DOMAIN N : b <= x /\ x < b + N[b]
    <3>1. CASE a # c
      BY <1>4, <2>2, <3>1
    <3>2. CASE a = c /\ x < c + r
      <4>1. c \in DOMAIN N /\ c <= x /\ x < c + N[c]
        BY <2>2, <3>2
      <4> QED BY <4>1
    <3>3. CASE a = c /\ ~(x < c + r)
      <4>1. c + r \in DOMAIN N /\ c + r <= x /\ x < (c + r) + N[c + r]
        BY <1>1, <2>2, <3>3
      <4> QED BY <4>1
    <3> QED BY <3>1, <3>2, <3>3
  <2> QED BY <2>1, <2>2
<1>7. Covered(N) = Covered(un)
  BY <1>6 DEF Covered
<1> QED BY <1>3, <1>5, <1>7

\* Two blocks that touch become one.
Joined(un, a, b) ==
  [x \in DOMAIN un \ {b} |-> IF x = a THEN un[a] + un[b] ELSE un[x]]

LEMMA JoinUnits ==
  ASSUME NEW un, DOMAIN un \subseteq Nat, Apart(un), un \in [DOMAIN un -> Nat],
         NEW a \in DOMAIN un \ {BASE}, NEW b \in DOMAIN un \ {BASE}, a + un[a] = b,
         \A x \in DOMAIN un \ {BASE} : un[x] > 0,
         NEW N, N = Joined(un, a, b)
  PROVE  /\ N \in [DOMAIN un \ {b} -> Nat] /\ N[a] = un[a] + un[b] /\ a # b
         /\ \A x \in DOMAIN un \ {a, b} : N[x] = un[x]
         /\ Apart(N) /\ Covered(N) = Covered(un)
<1>1. a \in Nat /\ b \in Nat /\ un[a] \in Nat /\ un[b] \in Nat /\ un[a] > 0 /\ a < b
  OBVIOUS
<1>2. /\ DOMAIN N = DOMAIN un \ {b} /\ N[a] = un[a] + un[b]
      /\ \A x \in DOMAIN un \ {a, b} : N[x] = un[x] /\ x \in Nat /\ un[x] \in Nat
  BY <1>1 DEF Joined
<1>3. N \in [DOMAIN un \ {b} -> Nat]
  BY <1>1, <1>2 DEF Joined
<1>4. Apart(N)
  <2> SUFFICES ASSUME NEW x \in DOMAIN N \ {BASE}, NEW y \in DOMAIN N \ {BASE}, x < y
               PROVE  x + N[x] <= y
    BY DEF Apart
  <2>1. /\ x \in DOMAIN un \ {BASE} /\ y \in DOMAIN un \ {BASE} /\ x # b /\ y # b
        /\ x \in Nat /\ y \in Nat
    BY <1>2
  <2>2. CASE x # a
    BY <1>2, <2>1, <2>2 DEF Apart
  <2>3. CASE x = a
    <3>1. a + un[a] <= y
      BY <2>1, <2>3 DEF Apart
    <3>2. b < y
      BY <1>1, <2>1, <3>1
    <3>3. b + un[b] <= y
      BY <2>1, <3>2 DEF Apart
    <3> QED BY <1>1, <1>2, <2>1, <2>3, <3>3
  <2> QED BY <2>2, <2>3
<1>5. ASSUME NEW x \in Nat
      PROVE  (\E y \in DOMAIN N : y <= x /\ x < y + N[y]) <=>
             (\E y \in DOMAIN un : y <= x /\ x < y + un[y])
  <2>1. ASSUME NEW y \in DOMAIN N, y <= x, x < y + N[y]
        PROVE  \E z \in DOMAIN un : z <= x /\ x < z + un[z]
    <3>1. CASE y # a
      BY <1>2, <2>1, <3>1
    <3>2. CASE y = a /\ x < b
      BY <1>1, <2>1, <3>2
    <3>3. CASE y = a /\ b <= x
      <4>1. x < b + un[b]
        BY <1>1, <1>2, <2>1, <3>3
      <4> QED BY <3>3, <4>1
    <3> QED BY <1>1, <3>1, <3>2, <3>3
  <2>2. ASSUME NEW y \in DOMAIN un, y <= x, x < y + un[y]
        PROVE  \E z \in DOMAIN N : z <= x /\ x < z + N[z]
    <3>1. CASE y # a /\ y # b
      BY <1>2, <2>2, <3>1
    <3>2. CASE y = a \/ y = b
      <4>1. a \in DOMAIN N /\ a <= x /\ x < a + N[a]
        BY <1>1, <1>2, <2>2, <3>2
      <4> QED BY <4>1
    <3> QED BY <3>1, <3>2
  <2> QED BY <2>1, <2>2
<1>6. Covered(N) = Covered(un)
  BY <1>5 DEF Covered
<1> QED BY <1>1, <1>2, <1>3, <1>4, <1>6

-----------------------------------------------------------------------------
(* Consequences of the invariant                                           *)

LEMMA BlockFacts ==
  ASSUME HeapInv
  PROVE  /\ Blocks \subseteq Nat /\ DOMAIN next \subseteq Nat /\ Free_list \subseteq Blocks
         /\ BASE \in Nat /\ BASE \in Free_list /\ 0 \notin Blocks
         /\ BASE \notin Covered(units)
         /\ \A a \in Blocks : units[a] \in Nat
         /\ \A a \in Blocks \ {BASE} : units[a] > 0 /\ a + units[a] # BASE
         /\ \A a \in DOMAIN held \union InHand : a \in Blocks \ {BASE}
<1>1. /\ Blocks \subseteq Nat /\ Free_list \subseteq Blocks /\ BASE \in Free_list
      /\ units \in [Blocks -> Nat] /\ \A a \in Blocks \ {BASE} : units[a] > 0
      /\ \A a \in DOMAIN held \union InHand : a \in Blocks /\ a \notin Free_list
  BY DEF HeapInv, Shape
<1>2. core \subseteq Nat /\ core \intersect Used = {} /\ 0 \in Used /\ BASE \in Nat \ {0}
  BY KheapAssumption DEF HeapInv, Shape, Frames
<1>3. BASE \notin Covered(units) /\ BASE - 1 \notin Covered(units)
  BY <1>2, BaseApart DEF HeapInv
<1>4. 0 \notin Covered(units)
  <2> SUFFICES ASSUME 0 \in UnitsOf(core) PROVE FALSE
    BY DEF HeapInv
  <2>1. PICK f \in core : In(0, f)
    BY <1>2, UnitsOfIs
  <2>2. In(0, 0)
    BY Sizes DEF In
  <2>3. f = 0
    BY <1>2, <2>1, <2>2, OnePage
  <2> QED BY <1>2, <2>3
<1>5. ASSUME NEW a \in Blocks \ {BASE} PROVE a \in Covered(units) /\ a + units[a] # BASE
  <2>1. a \in Nat /\ units[a] \in Nat /\ units[a] > 0
    BY <1>1
  <2>2. a <= a + units[a] - 1 /\ a + units[a] - 1 \in Nat
          /\ a + units[a] - 1 < a + units[a] /\ a < a + units[a]
    BY <2>1
  <2>3. a \in Covered(units) /\ a + units[a] - 1 \in Covered(units)
    BY <2>1, <2>2 DEF Covered, Blocks
  <2> QED BY <1>2, <1>3, <2>1, <2>3
<1>6. 0 \notin Blocks
  BY <1>2, <1>4, <1>5
<1>7. DOMAIN next \subseteq Nat
  BY <1>1 DEF Free_list
<1> QED BY <1>1, <1>2, <1>3, <1>5, <1>6, <1>7

\* The list a call starts with.
LEMMA StartFacts ==
  ASSUME HeapInv
  PROVE  /\ DOMAIN ListAtStart = Free_list /\ ListAtStart \in [Free_list -> Nat]
         /\ StartOfList \in Free_list /\ StartOfList \in Nat /\ StartOfList # NULL
         /\ Cycle(ListAtStart)
<1>1. CASE freep = NULL
  <2>1. Free_list = {BASE} /\ BASE \in Nat \ {0}
    BY <1>1, KheapAssumption DEF HeapInv, CallInv
  <2>2. ListAtStart = [a \in {BASE} |-> BASE] /\ StartOfList = BASE
    BY <1>1 DEF ListAtStart, StartOfList, Only
  <2>3. Cycle(ListAtStart)
    BY <2>1, <2>2 DEF Cycle
  <2> QED BY <2>1, <2>2, <2>3 DEF NULL
<1>2. CASE freep # NULL
  <2>1. ListAtStart = next /\ StartOfList = freep
    BY <1>2 DEF ListAtStart, StartOfList
  <2>2. freep \in Free_list /\ Cycle(next)
    BY <1>2 DEF HeapInv, Ordered, Cycle, Free_list
  <2>3. next \in [Free_list -> Nat] /\ freep \in Nat
    BY DEF HeapInv, Shape, CallInv
  <2> QED BY <1>2, <2>1, <2>2, <2>3
<1> QED BY <1>1, <1>2

\* The links form a cycle once the heap is in use.
LEMMA InUse ==
  ASSUME HeapInv, freep # NULL
  PROVE  /\ freep \in Free_list /\ Cycle(next)
         /\ \A a \in Free_list : next[a] \in Free_list
BY DEF HeapInv, Ordered, Cycle, Free_list

LEMMA CycleOrders ==
  ASSUME Cycle(next), freep \in Free_list PROVE Ordered
BY DEF Ordered, Cycle, Free_list

\* Coalesced and the division into blocks do not depend on the links.
LEMMA SameBlocks ==
  ASSUME HeapInv, UNCHANGED <<units, core>>, Free_list' = Free_list
  PROVE  Apart(units)' /\ (UnitsOf(core) = Covered(units))' /\ Coalesced'
<1>1. Apart(units)'
  BY DEF HeapInv, Apart
<1>2. (UnitsOf(core) = Covered(units))'
  BY DEF HeapInv, Covered, UnitsOf
<1>3. Coalesced'
  BY DEF HeapInv, Coalesced
<1> QED BY <1>1, <1>2, <1>3

LEMMA HeapInit == ASSUME Init PROVE HeapInv
<1>1. /\ frame_bitmap = Used /\ next = [a \in {BASE} |-> NULL]
      /\ units = [a \in {BASE} |-> 0] /\ freep = NULL /\ call = Idle
      /\ DOMAIN held = {} /\ core = {}
  BY DEF Init, Only
<1>2. BASE \in Nat /\ Used \subseteq Frames
  BY KheapAssumption
<1>3. Free_list = {BASE} /\ Blocks = {BASE} /\ InHand = {}
  BY <1>1 DEF Free_list, Blocks, InHand, Idle
<1>4. Shape
  BY <1>1, <1>2, <1>3 DEF Shape, NULL
<1>5. CallInv
  BY <1>1, <1>3 DEF CallInv, Idle, Call, NULL, want
<1>6. RoomInv
  BY <1>1 DEF RoomInv
<1>7. Apart(units)
  BY <1>1 DEF Apart
<1>8. UnitsOf(core) = Covered(units)
  BY <1>1, <1>2 DEF UnitsOf, Covered
<1>9. Ordered /\ Coalesced
  BY <1>1, <1>3 DEF Ordered, Coalesced
<1> QED BY <1>4, <1>5, <1>6, <1>7, <1>8, <1>9 DEF HeapInv

-----------------------------------------------------------------------------
(* Steps that leave the blocks alone                                       *)

LEMMA QuietStep ==
  ASSUME HeapInv, UNCHANGED <<units, core>>, Free_list' = Free_list,
         next' \in [Free_list -> Nat],
         frame_bitmap' \subseteq Frames, Used \union core \subseteq frame_bitmap',
         DOMAIN held' \union InHand' = DOMAIN held \union InHand,
         \A a \in InHand' : a \notin DOMAIN held',
         \A a \in DOMAIN held' : a \in DOMAIN held /\ held'[a] = held[a],
         CallInv', Ordered'
  PROVE  HeapInv'
<1>1. Apart(units)' /\ (UnitsOf(core) = Covered(units))' /\ Coalesced'
  BY SameBlocks
<1>2. Shape'
  BY DEF HeapInv, Shape, Blocks
<1>3. RoomInv'
  BY DEF HeapInv, RoomInv
<1> QED BY <1>1, <1>2, <1>3 DEF HeapInv

LEMMA KheapInitInv == ASSUME HeapInv, kheap_init PROVE HeapInv'
<1>1. /\ call = Idle /\ freep = NULL /\ next' = Only(BASE, BASE) /\ freep' = BASE
      /\ UNCHANGED <<frame_bitmap, units, call, held, core>>
  BY DEF kheap_init, pfaVars
<1>2. ListAtStart = next' /\ StartOfList = freep'
  BY <1>1 DEF ListAtStart, StartOfList
<1>3. /\ Free_list' = Free_list /\ next' \in [Free_list -> Nat] /\ Cycle(next')
      /\ freep' \in Free_list /\ freep' # NULL /\ freep' \in Nat
  BY <1>2, StartFacts DEF Free_list
<1>4. Ordered'
  BY <1>3 DEF Ordered, Cycle, Free_list
<1>5. CallInv'
  BY <1>1, <1>3 DEF HeapInv, CallInv, Idle, want
<1>6. InHand' = InHand /\ InHand = {}
  BY <1>1 DEF InHand, Idle
<1> QED BY <1>1, <1>3, <1>4, <1>5, <1>6, QuietStep DEF HeapInv, Shape

LEMMA KmallocInv ==
  ASSUME HeapInv, NEW bytes \in Requests, kmalloc(bytes) PROVE HeapInv'
<1>1. /\ call = Idle /\ bytes > 0 /\ next' = ListAtStart /\ freep' = StartOfList
      /\ call' = [Idle EXCEPT !.at = "scan", !.asked = bytes,
                    !.want = UnitsFor(bytes),
                    !.prev = StartOfList, !.curr = ListAtStart[StartOfList]]
      /\ UNCHANGED <<frame_bitmap, units, held, core>>
  BY DEF kmalloc, pfaVars
<1>2. /\ Free_list' = Free_list /\ next' \in [Free_list -> Nat] /\ Cycle(next')
      /\ freep' \in Free_list /\ freep' # NULL /\ freep' \in Nat
      /\ next'[freep'] \in Free_list /\ next'[freep'] \in Nat
  BY <1>1, StartFacts DEF Free_list, Cycle
<1>3. Ordered'
  BY <1>2 DEF Ordered, Cycle, Free_list
<1>4. bytes \in Nat /\ UnitsFor(bytes) \in Nat /\ UnitsFor(bytes) > 0
  BY <1>1, UnitsForRoom, KheapAssumption
<1>5. call' = [at |-> "scan", prev |-> freep', curr |-> next'[freep'], block |-> NULL,
               asked |-> bytes, want |-> UnitsFor(bytes)]
  BY <1>1 DEF Idle
<1>6. CallInv'
  BY <1>2, <1>4, <1>5 DEF CallInv, Call, NULL, want, curr, prev
<1>7. InHand' = {} /\ InHand = {}
  BY <1>1, <1>5 DEF InHand, Idle
<1> QED BY <1>1, <1>2, <1>3, <1>6, <1>7, QuietStep DEF HeapInv, Shape

LEMMA KfreeInv ==
  ASSUME HeapInv, NEW a \in DOMAIN held, kfree(a) PROVE HeapInv'
<1>1. /\ call = Idle /\ held' = [b \in DOMAIN held \ {a} |-> held[b]]
      /\ next' = ListAtStart /\ freep' = StartOfList
      /\ call' = [Idle EXCEPT !.at = "place", !.block = a, !.curr = StartOfList]
      /\ UNCHANGED <<frame_bitmap, units, core>>
  BY DEF kfree, pfaVars
<1>2. /\ Free_list' = Free_list /\ next' \in [Free_list -> Nat] /\ Cycle(next')
      /\ freep' \in Free_list /\ freep' # NULL /\ freep' \in Nat
  BY <1>1, StartFacts DEF Free_list
<1>3. Ordered'
  BY <1>2 DEF Ordered, Cycle, Free_list
<1>4. a \in Nat
  BY BlockFacts
<1>5. call' = [at |-> "place", prev |-> NULL, curr |-> freep', block |-> a,
               asked |-> 0, want |-> 0]
  BY <1>1 DEF Idle
<1>6. CallInv'
  BY <1>2, <1>4, <1>5 DEF CallInv, Call, NULL, want, curr
<1>7. InHand' = {a} /\ InHand = {}
  BY <1>1, <1>5 DEF InHand, Idle, block
<1>8. DOMAIN held' = DOMAIN held \ {a} /\ \A b \in DOMAIN held' : held'[b] = held[b]
  BY <1>1
<1> QED BY <1>1, <1>2, <1>3, <1>6, <1>7, <1>8, QuietStep DEF HeapInv, Shape

\* The two loops.
LEMMA AdvanceInv == ASSUME HeapInv, Advance PROVE HeapInv'
<1>1. /\ call.at = "scan" /\ call' = [call EXCEPT !.prev = curr, !.curr = next[curr]]
      /\ UNCHANGED <<frame_bitmap, next, units, freep, held, core>>
  BY DEF Advance, TooSmall, pfaVars
<1>2. freep # NULL /\ curr \in Free_list /\ want > 0 /\ call \in Call
  BY <1>1 DEF HeapInv, CallInv
<1>3. next[curr] \in Free_list /\ next[curr] \in Nat
  BY <1>2, InUse, BlockFacts
<1>4. /\ call' \in Call /\ call'.at = "scan" /\ call'.prev = curr
      /\ call'.curr = next[curr] /\ call'.want = want /\ call'.asked = call.asked
  BY <1>1, <1>2, <1>3 DEF Call, curr, want
<1>5. Free_list' = Free_list /\ Ordered'
  BY <1>1 DEF Free_list, HeapInv, Ordered
<1>6. CallInv'
  BY <1>1, <1>2, <1>3, <1>4, <1>5 DEF HeapInv, CallInv, want, curr, prev
<1>7. InHand' = {} /\ InHand = {}
  BY <1>1, <1>4 DEF InHand
<1> QED BY <1>1, <1>5, <1>6, <1>7, QuietStep DEF HeapInv, Shape

LEMMA WalkInv == ASSUME HeapInv, Walk PROVE HeapInv'
<1>1. /\ call.at = "place" /\ call' = [call EXCEPT !.curr = next[curr]]
      /\ UNCHANGED <<frame_bitmap, next, units, freep, held, core>>
  BY DEF Walk, pfaVars
<1>2. freep # NULL /\ curr \in Free_list /\ call \in Call
  BY <1>1 DEF HeapInv, CallInv
<1>3. next[curr] \in Free_list /\ next[curr] \in Nat
  BY <1>2, InUse, BlockFacts
<1>4. /\ call' \in Call /\ call'.at = "place" /\ call'.block = block
      /\ call'.curr = next[curr] /\ call'.want = want /\ call'.asked = call.asked
  BY <1>1, <1>2, <1>3 DEF Call, block, want
<1>5. Free_list' = Free_list /\ Ordered'
  BY <1>1 DEF Free_list, HeapInv, Ordered
<1>6. CallInv'
  BY <1>1, <1>2, <1>3, <1>4, <1>5 DEF HeapInv, CallInv, want, curr
<1>7. InHand' = InHand
  BY <1>1, <1>4 DEF InHand, block
<1> QED BY <1>1, <1>5, <1>6, <1>7, QuietStep DEF HeapInv, Shape

\* Other clients of the frame allocator, and stuttering.
LEMMA OtherClientInv ==
  ASSUME HeapInv, OtherClient \/ UNCHANGED vars PROVE HeapInv'
<1>1. UNCHANGED <<next, units, freep, call, held, core>>
  BY DEF OtherClient, vars
<1>2. frame_bitmap' \subseteq Frames /\ Used \union core \subseteq frame_bitmap'
  <2>1. /\ frame_bitmap \subseteq Frames /\ Used \union core \subseteq frame_bitmap
    BY DEF HeapInv, Shape
  <2>2. ASSUME NEW f \in Frames, pfa_alloc(f)
        PROVE  frame_bitmap' = frame_bitmap \union {f}
    BY <2>2 DEF pfa_alloc, MarkUsed
  <2>3. ASSUME NEW f \in frame_bitmap \ (Used \union core), pfa_free(f)
        PROVE  frame_bitmap' = frame_bitmap \ {f}
    BY <2>1, <2>3 DEF pfa_free, MarkFree
  <2>4. CASE UNCHANGED vars
    BY <2>1, <2>4 DEF vars, pfaVars
  <2>5. CASE OtherClient
    <3>1. PICK f \in Frames :
            pfa_alloc(f) \/ (f \in frame_bitmap \ (Used \union core) /\ pfa_free(f))
      BY <2>5 DEF OtherClient
    <3> QED BY <2>1, <2>2, <2>3, <3>1
  <2> QED BY <2>4, <2>5
<1>3. Free_list' = Free_list /\ Ordered' /\ InHand' = InHand
  BY <1>1 DEF Free_list, HeapInv, Ordered, InHand, block
<1>4. CallInv'
  BY <1>1, <1>3 DEF HeapInv, CallInv, want, curr, prev
<1> QED BY <1>1, <1>2, <1>3, <1>4, QuietStep DEF HeapInv, Shape

-----------------------------------------------------------------------------
(* kmalloc takes a block                                                   *)

\* What a scan knows.
LEMMA Scanning ==
  ASSUME HeapInv, call.at = "scan"
  PROVE  /\ freep # NULL /\ curr \in Free_list /\ prev \in Free_list /\ curr = next[prev]
         /\ prev \in Nat /\ prev # NULL /\ InHand = {}
         /\ want \in Nat /\ want > 0 /\ call.asked \in Requests
         /\ (want - 1) * HEADER >= call.asked \/ call.asked \in Wrapping
         /\ Cycle(next) /\ Blocks = Free_list \union DOMAIN held
<1>1. /\ freep # NULL /\ curr \in Free_list /\ prev \in Free_list /\ curr = next[prev]
      /\ want > 0 /\ call.asked \in Requests /\ want = UnitsFor(call.asked)
  BY DEF HeapInv, CallInv
<1>2. Cycle(next) /\ prev \in Nat /\ prev # NULL
  BY <1>1, InUse, BlockFacts DEF NULL
<1>3. InHand = {} /\ Blocks = Free_list \union DOMAIN held
  BY DEF InHand, HeapInv, Shape
<1>4. PICK bytes \in Requests : bytes = call.asked
  BY <1>1
<1>5. /\ UnitsFor(bytes) \in Nat
      /\ (UnitsFor(bytes) - 1) * HEADER >= bytes \/ bytes \in Wrapping
  BY UnitsForRoom
<1> QED BY <1>1, <1>2, <1>3, <1>4, <1>5

LEMMA TakeExactInv == ASSUME HeapInv, TakeExact PROVE HeapInv'
<1>1. /\ call.at = "scan" /\ units[curr] = want
      /\ next' = [a \in Free_list \ {curr} |-> IF a = prev THEN next[curr] ELSE next[a]]
      /\ freep' = prev /\ held' = With(held, curr, call.asked) /\ call' = Idle
      /\ UNCHANGED <<frame_bitmap, units, core>>
  BY DEF TakeExact, Unlink, pfaVars
<1>2. PICK c, p : c = curr /\ p = prev
  OBVIOUS
<1>3. /\ c \in Free_list /\ p \in Free_list /\ c = next[p] /\ p \in Nat /\ p # NULL
      /\ want > 0 /\ Cycle(next) /\ InHand = {} /\ call.asked \in Requests
      /\ (want - 1) * HEADER >= call.asked \/ call.asked \in Wrapping
      /\ Blocks = Free_list \union DOMAIN held
  BY <1>1, <1>2, Scanning
<1>4. c # BASE /\ DOMAIN next \subseteq Nat /\ BASE \in Free_list
  BY <1>1, <1>2, <1>3, BlockFacts DEF HeapInv, Shape
<1>5. c # p
  BY <1>3, <1>4, AloneInCycle DEF Free_list
<1>6. next' = [a \in DOMAIN next \ {c} |-> IF a = p THEN next[c] ELSE next[a]]
  BY <1>1, <1>2 DEF Free_list
<1>7. Cycle(next')
  BY <1>3, <1>4, <1>5, <1>6, UnlinkCycle DEF Free_list
<1>8. Free_list' = Free_list \ {c} /\ p \in Free_list'
  BY <1>3, <1>5, <1>6 DEF Free_list
<1>9. next' \in [Free_list' -> Nat]
  <2>1. \A a \in Free_list : next[a] \in Nat
    BY DEF HeapInv, Shape
  <2> QED BY <1>3, <1>6, <1>8, <2>1 DEF Free_list
<1>10. /\ DOMAIN held' = DOMAIN held \union {c} /\ held'[c] = call.asked
       /\ \A a \in DOMAIN held \ {c} : held'[a] = held[a]
  BY <1>1, <1>2 DEF With
<1>11. InHand' = {}
  BY <1>1 DEF InHand, Idle
<1>12. Shape'
  <2>1. Blocks' = Blocks /\ units' \in [Blocks' -> Nat]
    BY <1>1 DEF Blocks, HeapInv, Shape
  <2>2. Blocks' = Free_list' \union DOMAIN held' \union InHand'
    BY <1>3, <1>8, <1>10, <1>11, <2>1
  <2>3. Free_list' \intersect DOMAIN held' = {}
    BY <1>8, <1>10 DEF HeapInv, Shape
  <2> QED BY <1>1, <1>4, <1>8, <1>9, <1>11, <2>1, <2>2, <2>3 DEF HeapInv, Shape
<1>13. CallInv'
  BY <1>1, <1>2, <1>3 DEF CallInv, Call, Idle, NULL, want
<1>14. RoomInv'
  <2>1. ASSUME NEW a \in DOMAIN held'
        PROVE  held'[a] \in Requests
                 /\ ((units'[a] - 1) * HEADER >= held'[a] \/ held'[a] \in Wrapping)
    <3>1. CASE a = c
      BY <1>1, <1>2, <1>3, <1>10, <3>1
    <3>2. CASE a # c
      BY <1>1, <1>10, <3>2 DEF HeapInv, RoomInv
    <3> QED BY <3>1, <3>2
  <2> QED BY <2>1 DEF RoomInv
<1>15. Apart(units)' /\ (UnitsOf(core) = Covered(units))'
  BY <1>1 DEF HeapInv, Apart, Covered, UnitsOf
<1>16. Coalesced'
  BY <1>1, <1>8 DEF HeapInv, Coalesced
<1>17. Ordered'
  BY <1>1, <1>2, <1>7, <1>8 DEF Ordered, Cycle, Free_list
<1> QED BY <1>12, <1>13, <1>14, <1>15, <1>16, <1>17 DEF HeapInv

LEMMA TakeTailInv ==
  ASSUME HeapInv, TakeTail
  PROVE  /\ HeapInv' /\ HeldStay
         /\ \E s : /\ s \notin DOMAIN held /\ DOMAIN held' = DOMAIN held \union {s}
                  /\ \A a \in DOMAIN held : held'[a] = held[a]
<1>1. PICK c, p, r : c = curr /\ p = prev /\ r = units[curr] - want
  OBVIOUS
<1>2. /\ call.at = "scan" /\ r > 0 /\ units' = Split(r) /\ freep' = p
      /\ held' = With(held, c + r, call.asked) /\ call' = Idle
      /\ UNCHANGED <<frame_bitmap, next, core>>
  BY <1>1 DEF TakeTail, pfaVars
<1>3. /\ c \in Free_list /\ p \in Free_list /\ p \in Nat /\ p # NULL
      /\ want \in Nat /\ want > 0 /\ Cycle(next) /\ InHand = {}
      /\ call.asked \in Requests
      /\ (want - 1) * HEADER >= call.asked \/ call.asked \in Wrapping
      /\ Blocks = Free_list \union DOMAIN held
  BY <1>1, <1>2, Scanning
<1>4. /\ Blocks \subseteq Nat /\ c \in Blocks /\ c \in Nat /\ units[c] \in Nat
      /\ BASE \notin Covered(units) /\ BASE \in Free_list
      /\ \A a \in Blocks \ {BASE} : units[a] > 0
  BY <1>3, BlockFacts
<1>5. r \in Nat /\ units[c] = r + want
  BY <1>1, <1>2, <1>3, <1>4
<1>6. c # BASE
  BY <1>2, <1>3, <1>5 DEF HeapInv, Shape
<1>7. units \in [DOMAIN units -> Nat]
  BY DEF HeapInv, Shape, Blocks
<1>8. /\ DOMAIN units' = Blocks \union {c + r} /\ units'[c + r] = want /\ units'[c] = r
      /\ \A a \in Blocks \ {c} : a # c + r => units'[a] = units[a]
  <2>1. units' = With([units EXCEPT ![c] = r], c + r, want)
    BY <1>1, <1>2 DEF Split
  <2>2. c + r # c
    BY <1>2, <1>4, <1>5
  <2> QED BY <1>4, <1>7, <2>1, <2>2 DEF With, Blocks
<1>9. c + r \notin Blocks /\ Apart(units') /\ Covered(units') = Covered(units)
  <2>1. Apart(units)
    BY DEF HeapInv
  <2>2. PICK w : w = want
    OBVIOUS
  <2>3. w \in Nat /\ w > 0 /\ units[c] = r + w
    BY <1>3, <1>5, <2>2
  <2>4. PICK N : N = units'
    OBVIOUS
  <2>5. /\ DOMAIN N = DOMAIN units \union {c + r} /\ N[c] = r /\ N[c + r] = w
        /\ \A a \in DOMAIN units \ {c} : a # c + r => N[a] = units[a]
    BY <1>8, <2>2, <2>4 DEF Blocks
  <2>6. c \in DOMAIN units \ {BASE} /\ DOMAIN units \subseteq Nat
        /\ \A a \in DOMAIN units \ {BASE} : units[a] > 0
    BY <1>4, <1>6 DEF Blocks
  <2>7. c + r \notin DOMAIN units /\ Apart(N) /\ Covered(N) = Covered(units)
    BY <1>2, <1>4, <1>5, <1>7, <2>1, <2>3, <2>5, <2>6, SplitUnits
  <2> QED BY <2>4, <2>7 DEF Blocks
<1>10. Free_list' = Free_list /\ InHand' = {} /\ c + r # BASE /\ c + r \in Nat
  BY <1>2, <1>3, <1>4, <1>5, <1>9 DEF Free_list, InHand, Idle
<1>11. /\ DOMAIN held' = DOMAIN held \union {c + r} /\ held'[c + r] = call.asked
       /\ \A a \in DOMAIN held \ {c + r} : held'[a] = held[a]
  BY <1>2 DEF With
<1>12. Shape'
  <2>1. Blocks' = Blocks \union {c + r}
    BY <1>8 DEF Blocks
  <2>2. Blocks' = Free_list' \union DOMAIN held' \union InHand'
    BY <1>3, <1>10, <1>11, <2>1
  <2>3. Free_list' \intersect DOMAIN held' = {}
    BY <1>3, <1>9, <1>10, <1>11 DEF HeapInv, Shape
  <2>4. \A a \in Blocks' : units'[a] \in Nat
    BY <1>3, <1>5, <1>7, <1>8, <2>1 DEF Blocks
  <2>5. \A a \in Blocks' \ {BASE} : units'[a] > 0
    BY <1>2, <1>3, <1>4, <1>8, <2>1
  <2>6. units'[BASE] = 0
    BY <1>3, <1>4, <1>6, <1>8, <1>10 DEF HeapInv, Shape
  <2>7. units' \in [Blocks' -> Nat]
    <3>1. units' = [a \in Blocks' |-> units'[a]]
      BY <1>2, <2>1, <1>8 DEF Split, With, Blocks
    <3> QED BY <2>4, <3>1
  <2>8. next' \in [Free_list' -> Nat] /\ Blocks' \subseteq Nat
    BY <1>2, <1>4, <1>10, <2>1 DEF HeapInv, Shape
  <2>9. /\ frame_bitmap' \subseteq Frames /\ Used \subseteq frame_bitmap'
        /\ core' \subseteq frame_bitmap' \ Used /\ BASE \in Free_list'
    BY <1>2, <1>4, <1>10 DEF HeapInv, Shape
  <2> QED BY <1>10, <2>2, <2>3, <2>5, <2>6, <2>7, <2>8, <2>9 DEF Shape
<1>13. CallInv'
  BY <1>2, <1>3 DEF CallInv, Call, Idle, NULL, want
<1>14. HeldStay
  <2>1. ASSUME NEW a \in DOMAIN held PROVE a \in Blocks /\ a # c /\ a # c + r
    BY <1>3, <1>9 DEF HeapInv, Shape
  <2> QED BY <1>8, <2>1 DEF HeldStay
<1>15. RoomInv'
  <2>1. ASSUME NEW a \in DOMAIN held'
        PROVE  held'[a] \in Requests
                 /\ ((units'[a] - 1) * HEADER >= held'[a] \/ held'[a] \in Wrapping)
    <3>1. CASE a = c + r
      BY <1>3, <1>8, <1>11, <3>1
    <3>2. CASE a # c + r
      <4>1. a \in DOMAIN held /\ a # c /\ a \in Blocks
        BY <1>3, <1>11, <3>2 DEF HeapInv, Shape
      <4> QED BY <1>8, <1>11, <3>2, <4>1 DEF HeapInv, RoomInv
    <3> QED BY <3>1, <3>2
  <2> QED BY <2>1 DEF RoomInv
<1>16. Apart(units)' /\ (UnitsOf(core) = Covered(units))'
  <2>1. UnitsOf(core)' = UnitsOf(core) /\ UnitsOf(core) = Covered(units)
    BY <1>2 DEF HeapInv, UnitsOf
  <2>2. Apart(units)' <=> Apart(units')
    BY DEF Apart
  <2>3. Covered(units)' = Covered(units')
    BY DEF Covered
  <2> QED BY <1>9, <2>1, <2>2, <2>3
<1>17. Coalesced'
  <2>1. ASSUME NEW a \in Free_list \ {BASE}, NEW b \in Free_list \ {BASE}
        PROVE  a + units'[a] # b
    <3>1. CASE a = c
      BY <1>3, <1>8, <1>9, <3>1
    <3>2. CASE a # c
      <4>1. units'[a] = units[a]
        BY <1>3, <1>8, <1>9, <3>2
      <4> QED BY <4>1 DEF HeapInv, Coalesced
    <3> QED BY <3>1, <3>2
  <2> QED BY <1>10, <2>1 DEF Coalesced
<1>18. Ordered'
  BY <1>2, <1>3, <1>10 DEF Ordered, Cycle, Free_list
<1>19. /\ c + r \notin DOMAIN held
       /\ \A a \in DOMAIN held : held'[a] = held[a]
  BY <1>3, <1>9, <1>11
<1>20. HeapInv'
  BY <1>12, <1>13, <1>15, <1>16, <1>17, <1>18 DEF HeapInv
<1> QED BY <1>11, <1>14, <1>19, <1>20

-----------------------------------------------------------------------------
(* morecore                                                                *)

LEMMA UnitsApart ==
  ASSUME NEW S, NEW T, S \subseteq Nat, T \subseteq Nat, S \intersect T = {}
  PROVE  UnitsOf(S) \intersect UnitsOf(T) = {}
<1> SUFFICES ASSUME NEW x \in UnitsOf(S), x \in UnitsOf(T) PROVE FALSE
  OBVIOUS
<1>1. x \in Nat /\ \E f \in S : In(x, f)
  BY UnitsOfIs
<1>2. \E g \in T : In(x, g)
  BY UnitsOfIs
<1>3. PICK f \in S, g \in T : In(x, f) /\ In(x, g)
  BY <1>1, <1>2
<1>4. f = g
  BY <1>1, <1>3, OnePage
<1> QED BY <1>3, <1>4

\* A block in memory that was in no block.
LEMMA AddUnits ==
  ASSUME NEW un, DOMAIN un \subseteq Nat, un \in [DOMAIN un -> Nat], Apart(un),
         \A a \in DOMAIN un \ {BASE} : un[a] > 0,
         NEW b \in Nat, NEW m \in Nat, m > 0, b # BASE, BASE \in DOMAIN un,
         (b .. b + m - 1) \intersect Covered(un) = {},
         NEW N, N = With(un, b, m)
  PROVE  /\ b \notin DOMAIN un /\ Apart(N)
         /\ \A x : x \in Covered(N) <=> x \in Covered(un) \/ x \in b .. b + m - 1
<1>1. \A a \in DOMAIN un \ {BASE} : a \in Nat /\ un[a] \in Nat /\ a \in Covered(un)
  BY DEF Covered
<1>2. b \in b .. b + m - 1
  OBVIOUS
<1>3. b \notin DOMAIN un
  BY <1>1, <1>2
<1>4. DOMAIN N = DOMAIN un \union {b} /\ N[b] = m /\ \A a \in DOMAIN un : N[a] = un[a]
  BY <1>3 DEF With
<1>5. Apart(N)
  <2> SUFFICES ASSUME NEW x \in DOMAIN N \ {BASE}, NEW y \in DOMAIN N \ {BASE}, x < y
               PROVE  x + N[x] <= y
    BY DEF Apart
  <2>1. CASE x \in DOMAIN un /\ y \in DOMAIN un
    BY <1>4, <2>1 DEF Apart
  <2>2. CASE x \in DOMAIN un /\ y = b
    <3>1. x \in Nat /\ un[x] \in Nat /\ N[x] = un[x]
      BY <1>4, <2>2
    <3>2. ~(b < x + un[x])
      <4> SUFFICES ASSUME b < x + un[x] PROVE FALSE
        OBVIOUS
      <4>1. x <= b
        BY <2>2, <3>1
      <4>2. b \in Covered(un)
        BY <2>2, <4>1 DEF Covered
      <4> QED BY <1>2, <4>2
    <3> QED BY <2>2, <3>1, <3>2
  <2>3. CASE x = b /\ y \in DOMAIN un
    <3>1. y \in Covered(un) /\ y \in Nat
      BY <1>1, <2>3
    <3>2. y \notin b .. b + m - 1
      BY <3>1
    <3> QED BY <1>4, <2>3, <3>1, <3>2
  <2>4. ~(x = b /\ y = b)
    OBVIOUS
  <2> QED BY <1>4, <2>1, <2>2, <2>3, <2>4
<1>6. ASSUME NEW x \in Nat
      PROVE  (\E a \in DOMAIN N : a <= x /\ x < a + N[a]) <=>
             (\E a \in DOMAIN un : a <= x /\ x < a + un[a]) \/ x \in b .. b + m - 1
  <2>1. x \in b .. b + m - 1 <=> b <= x /\ x < b + N[b]
    BY <1>4
  <2> QED BY <1>4, <2>1
<1>7. ASSUME NEW x
      PROVE  x \in Covered(N) <=> x \in Covered(un) \/ x \in b .. b + m - 1
  <2>1. CASE x \in Nat
    BY <1>6, <2>1 DEF Covered
  <2>2. CASE x \notin Nat
    BY <2>2 DEF Covered
  <2> QED BY <2>1, <2>2
<1> QED BY <1>3, <1>5, <1>7

LEMMA MorecoreInv == ASSUME HeapInv, morecore PROVE HeapInv' /\ HeldStay
<1>1. call.at = "scan" /\ UNCHANGED <<next, freep, held>>
  BY DEF morecore, TooSmall
<1>2. /\ freep # NULL /\ want \in Nat /\ want > 0 /\ call.asked \in Requests
      /\ InHand = {} /\ Blocks = Free_list \union DOMAIN held
  BY <1>1, Scanning
<1>3. freep \in Free_list /\ freep \in Nat /\ Pages(want) \in Nat
  BY <1>2, InUse, BlockFacts, PagesType
<1>4. Free_list' = Free_list /\ Ordered'
  BY <1>1 DEF Free_list, HeapInv, Ordered
<1>5. CASE NoRunFree(Pages(want)) /\ call' = Idle /\ UNCHANGED <<units, core>>
  <2>1. UNCHANGED frame_bitmap /\ InHand' = {}
    BY <1>5 DEF NoRunFree, pfaVars, InHand, Idle
  <2>2. CallInv'
    BY <1>1, <1>2, <1>3, <1>5 DEF CallInv, Call, Idle, NULL, want
  <2>3. HeldStay
    BY <1>5 DEF HeldStay
  <2> QED BY <1>1, <1>2, <1>4, <1>5, <2>1, <2>2, <2>3, QuietStep DEF HeapInv, Shape
<1>6. ASSUME NEW f \in Frames,
             pfa_alloc_contiguous(f, Pages(want)),
             core' = core \union Run(f, Pages(want)),
             units' = With(units, f * UNITS, Pages(want) * UNITS),
             call' = [call EXCEPT !.at = "place", !.block = f * UNITS, !.curr = freep]
      PROVE  HeapInv' /\ HeldStay
  <2>1. PICK n, b, m : n = Pages(want) /\ b = f * UNITS /\ m = n * UNITS
    OBVIOUS
  <2>2. /\ n \in Nat /\ n > 0 /\ Run(f, n) \subseteq Free
        /\ frame_bitmap' = frame_bitmap \union Run(f, n) /\ f \in Nat
    BY <1>3, <1>6, <2>1 DEF pfa_alloc_contiguous, FirstRun, MarkUsed, Frames
  <2>3. b \in Nat /\ m \in Nat /\ UnitsOf(Run(f, n)) = b .. b + m - 1
    BY <2>1, <2>2, RunUnits
  <2>4. m > 0
    BY <2>1, <2>2, Sizes
  <2>5. /\ core \subseteq frame_bitmap \ Used /\ Used \subseteq frame_bitmap
        /\ core \subseteq Nat /\ Run(f, n) \subseteq Nat /\ Run(f, n) \subseteq Frames
        /\ core \intersect Run(f, n) = {} /\ Used \intersect Run(f, n) = {}
    BY <2>2 DEF HeapInv, Shape, Free, Frames
  <2>6. UnitsOf(core) = Covered(units)
    BY DEF HeapInv
  <2>7. (b .. b + m - 1) \intersect Covered(units) = {}
    BY <2>3, <2>5, <2>6, UnitsApart
  <2>8. b # BASE
    <3>1. BASE \notin UnitsOf(Run(f, n))
      BY <2>5, BaseApart
    <3> QED BY <2>3, <2>4, <3>1
  <2>9. /\ Blocks \subseteq Nat /\ BASE \in Blocks /\ units \in [Blocks -> Nat]
        /\ \A a \in Blocks \ {BASE} : units[a] > 0
        /\ Apart(units)
    BY <1>2, BlockFacts DEF HeapInv, Shape
  <2>10. PICK N : N = units'
    OBVIOUS
  <2>11. N = With(units, b, m)
    BY <1>6, <2>1, <2>10
  <2>12. /\ b \notin Blocks /\ DOMAIN N = Blocks \union {b} /\ N[b] = m
         /\ \A a \in Blocks : N[a] = units[a]
         /\ N \in [Blocks \union {b} -> Nat]
         /\ Apart(N) /\ Covered(N) = Covered(units) \union (b .. b + m - 1)
    <3>1. PICK un : un = units
      OBVIOUS
    <3>2. /\ DOMAIN un \subseteq Nat /\ BASE \in DOMAIN un
          /\ un \in [DOMAIN un -> Nat]
          /\ \A a \in DOMAIN un \ {BASE} : un[a] > 0
          /\ Apart(un) /\ N = With(un, b, m)
          /\ (b .. b + m - 1) \intersect Covered(un) = {}
      BY <2>7, <2>9, <2>11, <3>1 DEF Blocks
    <3>3. /\ b \notin DOMAIN un /\ DOMAIN N = DOMAIN un \union {b} /\ N[b] = m
          /\ \A a \in DOMAIN un : N[a] = un[a]
          /\ N \in [DOMAIN un \union {b} -> Nat]
          /\ Apart(N) /\ Covered(N) = Covered(un) \union (b .. b + m - 1)
      <4>1. /\ DOMAIN un \subseteq Nat /\ un \in [DOMAIN un -> Nat] /\ Apart(un)
            /\ \A a \in DOMAIN un \ {BASE} : un[a] > 0
            /\ b \in Nat /\ m \in Nat /\ m > 0 /\ b # BASE /\ BASE \in DOMAIN un
            /\ (b .. b + m - 1) \intersect Covered(un) = {}
            /\ N = With(un, b, m)
        BY <2>3, <2>4, <2>8, <3>2
      <4>2. b \notin DOMAIN un /\ Apart(N)
        BY <4>1, AddUnits
      <4>3. DOMAIN N = DOMAIN un \union {b} /\ N[b] = m /\ \A a \in DOMAIN un : N[a] = un[a]
        BY <4>1, <4>2 DEF With
      <4>4. N \in [DOMAIN un \union {b} -> Nat]
        BY <4>1, <4>2 DEF With
      <4>5. \A x : x \in Covered(N) <=> x \in Covered(un) \/ x \in b .. b + m - 1
        BY <4>1, AddUnits
      <4> QED BY <4>2, <4>3, <4>4, <4>5
    <3> QED BY <3>1, <3>3 DEF Blocks
  <2>13. /\ call' \in Call /\ call'.at = "place" /\ call'.block = b
         /\ call'.curr = freep /\ call'.want = want /\ call'.asked = call.asked
    BY <1>3, <1>6, <2>1, <2>3 DEF HeapInv, CallInv, Call, want
  <2>14. InHand' = {b}
    BY <2>13 DEF InHand, block
  <2>15. Blocks' = Blocks \union {b}
    BY <2>10, <2>12 DEF Blocks
  <2>16. Shape'
    <3>1. frame_bitmap' \subseteq Frames /\ Used \subseteq frame_bitmap'
          /\ core' \subseteq frame_bitmap' \ Used
      BY <1>6, <2>1, <2>2, <2>5 DEF HeapInv, Shape
    <3>2. units' \in [Blocks' -> Nat] /\ Blocks' \subseteq Nat
      BY <2>3, <2>9, <2>10, <2>12, <2>15
    <3>3. Blocks' = Free_list' \union DOMAIN held' \union InHand'
      BY <1>1, <1>2, <1>4, <2>14, <2>15
    <3>4. b \notin Free_list' /\ b \notin DOMAIN held'
      BY <1>1, <1>2, <1>4, <2>12
    <3>5. units'[BASE] = 0 /\ \A a \in Blocks' \ {BASE} : units'[a] > 0
      <4>1. units'[BASE] = 0
        BY <2>9, <2>10, <2>12 DEF HeapInv, Shape
      <4>2. \A a \in Blocks \ {BASE} : units'[a] > 0
        BY <2>9, <2>10, <2>12
      <4> QED BY <2>4, <2>10, <2>12, <2>15, <4>1, <4>2
    <3> QED BY <1>1, <1>4, <2>14, <3>1, <3>2, <3>3, <3>4, <3>5 DEF HeapInv, Shape
  <2>17. CallInv'
    BY <1>1, <1>2, <1>3, <1>4, <2>13 DEF HeapInv, CallInv, want, curr, NULL
  <2>18. HeldStay /\ RoomInv'
    <3>1. HeldStay
      BY <1>2, <2>10, <2>12 DEF HeldStay
    <3> QED BY <1>1, <3>1 DEF HeapInv, RoomInv, HeldStay
  <2>19. Apart(units)' /\ (UnitsOf(core) = Covered(units))'
    <3>1. UnitsOf(core') = UnitsOf(core) \union UnitsOf(Run(f, n))
      BY <1>6, <2>1, UnitsUnion
    <3>2. UnitsOf(core') = Covered(units')
      BY <2>3, <2>6, <2>10, <2>12, <3>1
    <3>3. (Apart(units)' <=> Apart(units')) /\ Covered(units)' = Covered(units')
      BY DEF Apart, Covered
    <3>4. UnitsOf(core)' = UnitsOf(core')
      BY DEF UnitsOf
    <3> QED BY <2>10, <2>12, <3>2, <3>3, <3>4
  <2>20. Coalesced'
    <3>1. \A a \in Free_list : units'[a] = units[a]
      BY <1>2, <2>10, <2>12
    <3> QED BY <1>4, <3>1 DEF HeapInv, Coalesced
  <2> QED BY <1>4, <2>16, <2>17, <2>18, <2>19, <2>20 DEF HeapInv
<1> QED BY <1>5, <1>6 DEF morecore

-----------------------------------------------------------------------------
(* kfree_internal puts a block into the list                               *)

\* What the proof of Place keeps of a list and the blocks.
WellFormed(nx, un) ==
  /\ nx \in [DOMAIN nx -> Nat] /\ un \in [DOMAIN un -> Nat]
  /\ DOMAIN un \subseteq Nat /\ DOMAIN nx \subseteq DOMAIN un /\ BASE \in DOMAIN nx
  /\ un[BASE] = 0 /\ \A a \in DOMAIN un \ {BASE} : un[a] > 0
  /\ Apart(un) /\ Cycle(nx)

\* Two blocks of the list touch.
Touch(nx, un, a, d) ==
  a \in DOMAIN nx \ {BASE} /\ d \in DOMAIN nx \ {BASE} /\ a + un[a] = d

LinkIn(nx, c, b) ==
  [a \in DOMAIN nx \union {b} |->
     CASE a = c -> b [] a = b -> nx[c] [] OTHER -> nx[a]]

LinkOut(nx, p, x) ==
  [a \in DOMAIN nx \ {x} |-> IF a = p THEN nx[x] ELSE nx[a]]

\* A block of the list is joined to the one its link leads to.
LEMMA JoinStep ==
  ASSUME NEW nx, NEW un, WellFormed(nx, un),
         NEW p \in DOMAIN nx \ {BASE}, NEW x, x = nx[p], x # BASE, p + un[p] = x,
         NEW N, N = LinkOut(nx, p, x), NEW U, U = Joined(un, p, x)
  PROVE  /\ WellFormed(N, U) /\ Covered(U) = Covered(un)
         /\ \A a, d : Touch(N, U, a, d) =>
              (Touch(nx, un, a, d) /\ a # p) \/ (Touch(nx, un, x, d) /\ a = p)
<1>1. /\ nx \in [DOMAIN nx -> Nat] /\ un \in [DOMAIN un -> Nat]
      /\ DOMAIN un \subseteq Nat /\ DOMAIN nx \subseteq DOMAIN un /\ BASE \in DOMAIN nx
      /\ un[BASE] = 0 /\ \A a \in DOMAIN un \ {BASE} : un[a] > 0
      /\ Apart(un) /\ Cycle(nx) /\ DOMAIN nx \subseteq Nat
  BY DEF WellFormed
<1>2. x \in DOMAIN nx \ {BASE} /\ x \in DOMAIN un \ {BASE} /\ p \in DOMAIN un \ {BASE}
  BY <1>1 DEF Cycle
<1>3. /\ U \in [DOMAIN un \ {x} -> Nat] /\ U[p] = un[p] + un[x] /\ p # x
      /\ \A a \in DOMAIN un \ {p, x} : U[a] = un[a]
      /\ Apart(U) /\ Covered(U) = Covered(un)
  BY <1>1, <1>2, JoinUnits
<1>4. Cycle(N)
  BY <1>1, <1>3, UnlinkCycle DEF LinkOut
<1>5. DOMAIN N = DOMAIN nx \ {x} /\ DOMAIN U = DOMAIN un \ {x}
  BY <1>3 DEF LinkOut
<1>6. N \in [DOMAIN N -> Nat]
  <2>1. \A a \in DOMAIN nx : nx[a] \in Nat
    BY <1>1
  <2> QED BY <1>2, <1>5, <2>1 DEF LinkOut
<1>7. U[BASE] = 0 /\ \A a \in DOMAIN U \ {BASE} : U[a] > 0
  <2>1. BASE \in DOMAIN un \ {p, x}
    BY <1>1, <1>2
  <2>2. un[p] \in Nat /\ un[x] \in Nat /\ un[p] > 0
    BY <1>1, <1>2
  <2> QED BY <1>1, <1>3, <1>5, <2>1, <2>2
<1>8. WellFormed(N, U)
  BY <1>1, <1>2, <1>3, <1>4, <1>5, <1>6, <1>7 DEF WellFormed
<1>9. ASSUME NEW a, NEW d, Touch(N, U, a, d)
      PROVE  (Touch(nx, un, a, d) /\ a # p) \/ (Touch(nx, un, x, d) /\ a = p)
  <2>1. a \in DOMAIN nx \ {BASE, x} /\ d \in DOMAIN nx \ {BASE} /\ a + U[a] = d
    BY <1>5, <1>9 DEF Touch
  <2>2. CASE a # p
    <3>1. U[a] = un[a]
      BY <1>1, <1>3, <2>1, <2>2
    <3> QED BY <2>1, <2>2, <3>1 DEF Touch
  <2>3. CASE a = p
    <3>1. p \in Nat /\ un[p] \in Nat /\ un[x] \in Nat
      BY <1>1, <1>2
    <3>2. x + un[x] = d
      BY <1>3, <2>1, <2>3, <3>1
    <3> QED BY <1>2, <2>1, <2>3, <3>2 DEF Touch
  <2> QED BY <2>2, <2>3
<1> QED BY <1>3, <1>8, <1>9

\* Where the loop of kfree_internal stops, the blocks beside it are the only
\* free ones the new block can touch.
LEMMA Neighbours ==
  ASSUME NEW nx, NEW un, WellFormed(nx, un), BASE \notin Covered(un),
         NEW c \in DOMAIN nx, NEW b \in DOMAIN un, b \notin DOMAIN nx,
         \/ b > c /\ b < nx[c]
         \/ c >= nx[c] /\ (b > c \/ b < nx[c]),
         NEW a \in DOMAIN nx \ {BASE}
  PROVE  (a + un[a] = b => a = c) /\ (b + un[b] = a => a = nx[c])
<1>1. /\ \A x \in DOMAIN un : x \in Nat /\ un[x] \in Nat
      /\ \A x \in DOMAIN un \ {BASE} : un[x] > 0
      /\ DOMAIN nx \subseteq DOMAIN un /\ BASE \in DOMAIN nx /\ nx[c] \in DOMAIN nx
  BY DEF WellFormed, Cycle
<1>2. ASSUME NEW y \in DOMAIN un \ {BASE}, NEW x \in DOMAIN un, y < x
      PROVE  y + un[y] <= x
  <2>1. CASE x # BASE
    BY <1>2, <2>1 DEF WellFormed, Apart
  <2>2. CASE x = BASE
    BY <1>1, <1>2, <2>2 DEF Covered
  <2> QED BY <2>1, <2>2
<1>3. IF nx[c] > c THEN a <= c \/ nx[c] <= a ELSE nx[c] <= a /\ a <= c
  BY DEF WellFormed, Cycle
<1>4. a \in Nat /\ b \in Nat /\ c \in Nat /\ nx[c] \in Nat
      /\ un[a] \in Nat /\ un[b] \in Nat /\ un[a] > 0 /\ un[b] > 0
  BY <1>1
<1>5. (a < c => a + un[a] <= c) /\ (b < nx[c] => b + un[b] <= nx[c])
  BY <1>1, <1>2
<1> QED BY <1>3, <1>4, <1>5

\* The list and the blocks after Place: the block is linked in, joined to the
\* block above it and then to the one below.
LEMMA PlaceSteps ==
  ASSUME NEW nx, NEW un, WellFormed(nx, un), BASE \notin Covered(un),
         \A a \in DOMAIN un \ {BASE} : a + un[a] # BASE,
         \A a, d : ~Touch(nx, un, a, d),
         NEW c \in DOMAIN nx, NEW b \in DOMAIN un, b \notin DOMAIN nx,
         \/ b > c /\ b < nx[c]
         \/ c >= nx[c] /\ (b > c \/ b < nx[c]),
         NEW above \in BOOLEAN, above <=> b + un[b] = nx[c],
         NEW below \in BOOLEAN, below <=> c + un[c] = b,
         NEW N0, N0 = LinkIn(nx, c, b),
         NEW N1, N1 = IF above THEN LinkOut(N0, b, nx[c]) ELSE N0,
         NEW U1, U1 = IF above THEN Joined(un, b, nx[c]) ELSE un,
         NEW N2, N2 = IF below THEN LinkOut(N1, c, b) ELSE N1,
         NEW U2, U2 = IF below THEN Joined(U1, c, b) ELSE U1
  PROVE  /\ WellFormed(N2, U2) /\ Covered(U2) = Covered(un)
         /\ \A a, d : ~Touch(N2, U2, a, d)
         /\ above => nx[c] # c /\ nx[c] # BASE
         /\ below => c # BASE
<1>1. /\ nx \in [DOMAIN nx -> Nat] /\ un \in [DOMAIN un -> Nat]
      /\ DOMAIN un \subseteq Nat /\ DOMAIN nx \subseteq DOMAIN un /\ BASE \in DOMAIN nx
      /\ un[BASE] = 0 /\ \A a \in DOMAIN un \ {BASE} : un[a] > 0
      /\ Apart(un) /\ Cycle(nx) /\ DOMAIN nx \subseteq Nat
  BY DEF WellFormed
<1>2. PICK n : n = nx[c]
  OBVIOUS
<1>3. /\ n \in DOMAIN nx /\ n \in Nat /\ b \in Nat /\ b # BASE /\ b # n /\ b # c
      /\ c \in Nat
  BY <1>1, <1>2 DEF Cycle
<1>4. above => n # BASE
  BY <1>2, <1>3
<1>5. above => n # c
  BY <1>1, <1>2, <1>4, AloneInCycle
<1>6. below => c # BASE
  BY <1>1, <1>3
<1>7. /\ DOMAIN N0 = DOMAIN nx \union {b} /\ N0[c] = b /\ N0[b] = n
      /\ \A a \in DOMAIN nx \ {c} : N0[a] = nx[a]
  BY <1>2, <1>3 DEF LinkIn
<1>8. Cycle(N0)
  BY <1>1, <1>3, InsertCycle DEF LinkIn
<1>9. WellFormed(N0, un)
  <2>1. N0 \in [DOMAIN N0 -> Nat]
    <3>1. \A a \in DOMAIN nx : nx[a] \in Nat
      BY <1>1
    <3> QED BY <1>3, <1>7, <3>1 DEF LinkIn
  <2> QED BY <1>1, <1>7, <1>8, <2>1 DEF WellFormed
<1>10. ASSUME NEW a, NEW d, Touch(N0, un, a, d)
       PROVE  (below /\ a = c /\ d = b) \/ (above /\ a = b /\ d = n)
  <2>1. /\ a \in (DOMAIN nx \union {b}) \ {BASE} /\ d \in (DOMAIN nx \union {b}) \ {BASE}
        /\ a + un[a] = d
    BY <1>7, <1>10 DEF Touch
  <2>2. ~(a \in DOMAIN nx /\ d \in DOMAIN nx)
    BY <2>1 DEF Touch
  <2>3. CASE a \in DOMAIN nx /\ d = b
    <3>1. a = c
      BY <2>1, <2>3, Neighbours
    <3> QED BY <2>1, <2>3, <3>1
  <2>4. CASE a = b /\ d \in DOMAIN nx
    <3>1. d = nx[c]
      BY <2>1, <2>4, Neighbours
    <3> QED BY <1>2, <2>1, <2>4, <3>1
  <2>5. ~(a = b /\ d = b)
    BY <1>1, <1>3, <2>1
  <2> QED BY <2>1, <2>2, <2>3, <2>4, <2>5
\* The block above.
<1>11. /\ WellFormed(N1, U1) /\ Covered(U1) = Covered(un)
       /\ c \in DOMAIN N1 /\ N1[c] = b /\ U1[c] = un[c]
       /\ \A a, d : Touch(N1, U1, a, d) => below /\ a = c /\ d = b
  <2>1. CASE ~above
    <3>1. N1 = N0 /\ U1 = un
      BY <2>1
    <3> QED BY <1>7, <1>9, <1>10, <2>1, <3>1
  <2>2. CASE above
    <3>1. N1 = LinkOut(N0, b, n) /\ U1 = Joined(un, b, n)
      BY <1>2, <2>2
    <3>2. b \in DOMAIN N0 \ {BASE} /\ n = N0[b] /\ n # BASE /\ b + un[b] = n
      BY <1>2, <1>3, <1>4, <1>7, <2>2
    <3>3. /\ WellFormed(N1, U1) /\ Covered(U1) = Covered(un)
          /\ \A a, d : Touch(N1, U1, a, d) =>
               (Touch(N0, un, a, d) /\ a # b) \/ (Touch(N0, un, n, d) /\ a = b)
      BY <1>9, <3>1, <3>2, JoinStep
    <3>4. c \in DOMAIN N1 /\ N1[c] = b /\ U1[c] = un[c]
      BY <1>1, <1>3, <1>5, <1>7, <2>2, <3>1 DEF LinkOut, Joined
    <3>5. ASSUME NEW a, NEW d, Touch(N1, U1, a, d) PROVE below /\ a = c /\ d = b
      BY <1>3, <1>5, <1>10, <2>2, <3>3, <3>5
    <3> QED BY <3>3, <3>4, <3>5
  <2> QED BY <2>1, <2>2
\* The block below.
<1>12. /\ WellFormed(N2, U2) /\ Covered(U2) = Covered(un)
       /\ \A a, d : ~Touch(N2, U2, a, d)
  <2>1. CASE ~below
    BY <1>11, <2>1
  <2>2. CASE below
    <3>1. N2 = LinkOut(N1, c, b) /\ U2 = Joined(U1, c, b)
      BY <2>2
    <3>2. c \in DOMAIN N1 \ {BASE} /\ b = N1[c] /\ b # BASE /\ c + U1[c] = b
      BY <1>3, <1>6, <1>11, <2>2
    <3>3. /\ WellFormed(N2, U2) /\ Covered(U2) = Covered(U1)
          /\ \A a, d : Touch(N2, U2, a, d) =>
               (Touch(N1, U1, a, d) /\ a # c) \/ (Touch(N1, U1, b, d) /\ a = c)
      BY <1>11, <3>1, <3>2, JoinStep
    <3> QED BY <1>3, <1>11, <3>3
  <2> QED BY <2>1, <2>2
<1> QED BY <1>2, <1>4, <1>5, <1>6, <1>12

LEMMA PlaceInv == ASSUME HeapInv, Place PROVE HeapInv' /\ HeldStay
<1>1. /\ call.at = "place" /\ Belongs(block, curr)
      /\ next' = Placed /\ units' = PlacedUnits /\ freep' = curr
      /\ call' = IF want = 0 THEN Idle
                 ELSE [call EXCEPT !.at = "scan", !.block = NULL,
                         !.prev = curr, !.curr = Placed[curr]]
      /\ UNCHANGED <<frame_bitmap, held, core>>
  BY DEF Place, pfaVars
<1>2. PICK nx, un, c, b, n :
        nx = next /\ un = units /\ c = curr /\ b = block /\ n = next[curr]
  OBVIOUS
<1>3. PICK above, below \in BOOLEAN : (above <=> JoinsAbove) /\ (below <=> JoinsBelow)
  <2>1. JoinsAbove \in BOOLEAN /\ JoinsBelow \in BOOLEAN
    BY DEF JoinsAbove, JoinsBelow
  <2> QED BY <2>1, Zenon
<1>4. /\ nx = next /\ un = units /\ c = curr /\ b = block /\ n = next[curr]
      /\ above <=> JoinsAbove
      /\ below <=> JoinsBelow
  BY <1>2, <1>3
<1>5. /\ freep # NULL /\ c \in Free_list /\ InHand = {b} /\ b \in Blocks
      /\ b \notin Free_list /\ b \notin DOMAIN held
  BY <1>1, <1>4 DEF HeapInv, Shape, CallInv, InHand
<1>6. /\ DOMAIN nx = Free_list /\ DOMAIN un = Blocks /\ c \in DOMAIN nx
      /\ b \in DOMAIN un /\ b \notin DOMAIN nx /\ n = nx[c]
  BY <1>4, <1>5 DEF Free_list, Blocks
<1>7. WellFormed(nx, un)
  <2>1. Cycle(next)
    BY <1>5, InUse
  <2> QED BY <1>4, <1>6, <2>1 DEF WellFormed, HeapInv, Shape, Blocks
<1>8. /\ BASE \notin Covered(un) /\ BASE \in Free_list
      /\ \A a \in DOMAIN un \ {BASE} : a + un[a] # BASE
  BY <1>4, <1>6, BlockFacts
<1>9. \A a, d : ~Touch(nx, un, a, d)
  BY <1>4, <1>6 DEF HeapInv, Coalesced, Touch
<1>10. /\ \/ b > c /\ b < nx[c]
          \/ c >= nx[c] /\ (b > c \/ b < nx[c])
       /\ above <=> b + un[b] = nx[c]
       /\ below <=> c + un[c] = b
  BY <1>1, <1>4 DEF Belongs, JoinsAbove, JoinsBelow
<1>11. PICK N0 : N0 = LinkIn(nx, c, b)
  OBVIOUS
<1>12. PICK N1, U1 : /\ N1 = IF above THEN LinkOut(N0, b, nx[c]) ELSE N0
                     /\ U1 = IF above THEN Joined(un, b, nx[c]) ELSE un
  OBVIOUS
<1>13. PICK N, U : /\ N = IF below THEN LinkOut(N1, c, b) ELSE N1
                   /\ U = IF below THEN Joined(U1, c, b) ELSE U1
  OBVIOUS
<1>14. /\ WellFormed(N, U) /\ Covered(U) = Covered(un)
       /\ \A a, d : ~Touch(N, U, a, d)
       /\ above => n # c /\ n # BASE
       /\ below => c # BASE
  BY <1>6, <1>7, <1>8, <1>9, <1>10, <1>11, <1>12, <1>13, PlaceSteps
<1>15. n \in Free_list /\ b # n /\ b # c /\ b # BASE
  BY <1>5, <1>6, <1>7, <1>8 DEF WellFormed, Cycle
<1>16. PICK gone : gone = {a \in {n} : above} \union {a \in {b} : below}
  OBVIOUS
<1>17. N = [a \in (Free_list \union {b}) \ gone |->
              CASE a = c -> IF below THEN IF above THEN nx[n] ELSE n ELSE b
                [] a = b -> IF above THEN nx[n] ELSE n
                [] OTHER -> nx[a]]
  <2>1. /\ DOMAIN N0 = Free_list \union {b} /\ N0[c] = b /\ N0[b] = n
        /\ \A a \in Free_list \ {c} : N0[a] = nx[a]
    BY <1>6, <1>11, <1>15 DEF LinkIn
  <2>2. /\ N1 = [a \in DOMAIN N1 |-> N1[a]]
        /\ DOMAIN N1 = (Free_list \union {b}) \ {a \in {n} : above}
        /\ N1[c] = b /\ N1[b] = IF above THEN nx[n] ELSE n
        /\ \A a \in DOMAIN N1 \ {b, c} : N1[a] = nx[a]
    <3>1. CASE above
      <4>1. N1 = LinkOut(N0, b, n)
        BY <1>6, <1>12, <3>1
      <4> QED BY <1>5, <1>14, <1>15, <2>1, <3>1, <4>1 DEF LinkOut
    <3>2. CASE ~above
      <4>1. N1 = N0
        BY <1>12, <3>2
      <4> QED BY <1>11, <2>1, <3>2, <4>1 DEF LinkIn
    <3> QED BY <3>1, <3>2
  <2>3. CASE below
    <3>1. N = LinkOut(N1, c, b)
      BY <1>13, <2>3
    <3> QED BY <1>15, <1>16, <2>2, <2>3, <3>1 DEF LinkOut
  <2>4. CASE ~below
    <3>1. N = N1
      BY <1>13, <2>4
    <3> QED BY <1>15, <1>16, <2>2, <2>4, <3>1
  <2> QED BY <2>3, <2>4
<1>18. U = [a \in Blocks \ gone |->
              CASE a = c -> IF below THEN un[c] + (un[b] + IF above THEN un[n] ELSE 0)
                            ELSE un[a]
                [] a = b -> un[b] + IF above THEN un[n] ELSE 0
                [] OTHER -> un[a]]
  <2>1. n \in Blocks /\ c \in Blocks /\ un \in [Blocks -> Nat]
    BY <1>5, <1>6, <1>7, <1>15 DEF WellFormed
  <2>2. /\ U1 = [a \in DOMAIN U1 |-> U1[a]]
        /\ DOMAIN U1 = Blocks \ {a \in {n} : above}
        /\ U1[b] = un[b] + IF above THEN un[n] ELSE 0
        /\ \A a \in DOMAIN U1 \ {b} : U1[a] = un[a]
    <3>1. CASE above
      <4>1. U1 = Joined(un, b, n)
        BY <1>6, <1>12, <3>1
      <4> QED BY <1>5, <1>6, <1>15, <3>1, <4>1 DEF Joined
    <3>2. CASE ~above
      <4>1. U1 = un /\ un[b] \in Nat
        BY <1>5, <1>12, <2>1, <3>2
      <4> QED BY <1>6, <2>1, <3>2, <4>1
    <3> QED BY <3>1, <3>2
  <2>3. c \in DOMAIN U1
    BY <1>14, <2>1, <2>2
  <2>4. CASE below
    <3>1. U = Joined(U1, c, b)
      BY <1>13, <2>4
    <3> QED BY <1>15, <1>16, <2>2, <2>3, <2>4, <3>1 DEF Joined
  <2>5. CASE ~below
    <3>1. U = U1
      BY <1>13, <2>5
    <3> QED BY <1>15, <1>16, <2>2, <2>3, <2>5, <3>1
  <2> QED BY <2>4, <2>5
<1>19. Placed = N
  <2>1. Swallowed = gone
    BY <1>4, <1>16 DEF Swallowed
  <2>2. NextAfter = IF above THEN nx[n] ELSE n
    BY <1>4 DEF NextAfter
  <2> QED BY <1>4, <1>17, <2>1, <2>2 DEF Placed
<1>20. PlacedUnits = U
  <2>1. Swallowed = gone
    BY <1>4, <1>16 DEF Swallowed
  <2>2. SizeAfter = un[b] + IF above THEN un[n] ELSE 0
    BY <1>4 DEF SizeAfter
  <2> QED BY <1>4, <1>18, <2>1, <2>2 DEF PlacedUnits, Blocks
<1>21. /\ Free_list' = DOMAIN N /\ Blocks' = DOMAIN U /\ next' = N /\ units' = U
       /\ DOMAIN N = (Free_list \union {b}) \ gone /\ DOMAIN U = Blocks \ gone
  BY <1>1, <1>17, <1>18, <1>19, <1>20 DEF Free_list, Blocks
<1>22. c \in DOMAIN N /\ BASE \in DOMAIN N /\ gone \subseteq {n, b}
  BY <1>5, <1>8, <1>14, <1>15, <1>16, <1>21
<1>23. /\ N \in [DOMAIN N -> Nat] /\ U \in [DOMAIN U -> Nat] /\ DOMAIN U \subseteq Nat
       /\ U[BASE] = 0 /\ \A a \in DOMAIN U \ {BASE} : U[a] > 0
       /\ Apart(U) /\ Cycle(N) /\ DOMAIN N \subseteq Nat
  BY <1>14 DEF WellFormed
<1>24. call'.at # "place" /\ InHand' = {}
  <2>1. call \in Call
    BY DEF HeapInv, CallInv
  <2> QED BY <1>1, <2>1 DEF InHand, Idle, Call
<1>25. Shape'
  <2>1. Blocks = Free_list \union DOMAIN held \union {b}
    BY <1>5 DEF HeapInv, Shape
  <2>2. Free_list \intersect DOMAIN held = {} /\ gone \intersect DOMAIN held = {}
    BY <1>5, <1>15, <1>22 DEF HeapInv, Shape
  <2>3. Blocks' = Free_list' \union DOMAIN held' \union InHand'
    BY <1>1, <1>21, <1>24, <2>1, <2>2
  <2>4. Free_list' \intersect DOMAIN held' = {}
    BY <1>1, <1>5, <1>21, <2>2
  <2>5. /\ frame_bitmap' \subseteq Frames /\ Used \subseteq frame_bitmap'
        /\ core' \subseteq frame_bitmap' \ Used
    BY <1>1 DEF HeapInv, Shape
  <2> QED BY <1>21, <1>22, <1>23, <1>24, <2>3, <2>4, <2>5 DEF Shape
<1>26. CallInv'
  <2>1. freep' = c /\ c \in Nat /\ c # NULL /\ call \in Call
    BY <1>1, <1>4, <1>5, BlockFacts DEF NULL, HeapInv, CallInv
  <2>2. CASE want = 0
    BY <1>1, <2>1, <2>2 DEF CallInv, Call, Idle, NULL, want
  <2>3. CASE want # 0
    <3>1. /\ want > 0 /\ call.asked \in Requests /\ want = UnitsFor(call.asked)
      BY <2>1, <2>3 DEF HeapInv, CallInv, Call, want
    <3>2. N[c] \in DOMAIN N /\ N[c] \in Nat
      BY <1>22, <1>23 DEF Cycle
    <3>3. call' = [call EXCEPT !.at = "scan", !.block = NULL, !.prev = c, !.curr = N[c]]
      BY <1>1, <1>4, <1>19, <2>3
    <3>4. /\ call' \in Call /\ call'.at = "scan" /\ call'.prev = c
          /\ call'.curr = N[c] /\ call'.want = want /\ call'.asked = call.asked
      BY <2>1, <3>2, <3>3 DEF Call, NULL, want
    <3> QED BY <1>21, <1>22, <2>1, <3>1, <3>2, <3>4 DEF CallInv, want, curr, prev
  <2> QED BY <2>2, <2>3
<1>27. HeldStay
  <2>1. ASSUME NEW a \in DOMAIN held PROVE units'[a] = units[a]
    <3>1. a \in Blocks /\ a # b /\ a # c /\ a # n
      BY <1>5, <1>15 DEF HeapInv, Shape
    <3>2. a \in Blocks \ gone
      BY <1>22, <3>1
    <3> QED BY <1>4, <1>18, <1>21, <3>1, <3>2
  <2> QED BY <2>1 DEF HeldStay
<1>28. RoomInv'
  BY <1>1, <1>27 DEF HeapInv, RoomInv, HeldStay
<1>29. Apart(units)' /\ (UnitsOf(core) = Covered(units))'
  <2>1. UnitsOf(core)' = UnitsOf(core) /\ UnitsOf(core) = Covered(units)
    BY <1>1 DEF HeapInv, UnitsOf
  <2>2. (Apart(units)' <=> Apart(units')) /\ Covered(units)' = Covered(units')
    BY DEF Apart, Covered
  <2> QED BY <1>4, <1>14, <1>21, <1>23, <2>1, <2>2
<1>30. Coalesced'
  BY <1>14, <1>21 DEF Coalesced, Touch
<1>31. Ordered'
  BY <1>1, <1>4, <1>21, <1>22, <1>23 DEF Ordered, Cycle, Free_list
<1> QED BY <1>25, <1>26, <1>27, <1>28, <1>29, <1>30, <1>31 DEF HeapInv

-----------------------------------------------------------------------------
(* The theorems                                                            *)

LEMMA HeapStep == ASSUME HeapInv, [Next]_vars PROVE HeapInv'
<1>1. CASE Step
  BY <1>1, TakeExactInv, TakeTailInv, AdvanceInv, MorecoreInv, WalkInv, PlaceInv DEF Step
<1>2. ASSUME NEW bytes \in Requests, kmalloc(bytes) PROVE HeapInv'
  BY <1>2, KmallocInv
<1>3. ASSUME NEW a \in DOMAIN held, kfree(a) PROVE HeapInv'
  BY <1>3, KfreeInv
<1> QED BY <1>1, <1>2, <1>3, KheapInitInv, OtherClientInv DEF Next

\* The heap's invariant, for every page size, number of frames, set of frames
\* in use at the start and set of requests: kmalloc, kfree and kfree_internal
\* keep it in every iteration of their loops.
THEOREM HeapInvariance == Spec => []HeapInv
<1>1. Init => HeapInv
  BY HeapInit
<1>2. HeapInv /\ [Next]_vars => HeapInv'
  BY HeapStep
<1> QED BY <1>1, <1>2, PTL DEF Spec

LEMMA ExtentIs ==
  ASSUME HeapInv, NEW a \in Blocks, NEW x
  PROVE  x \in Extent(a) <=> x \in Nat /\ a <= x /\ x < a + units[a]
<1>1. a \in Nat /\ units[a] \in Nat
  BY BlockFacts
<1> QED BY <1>1 DEF Extent

LEMMA ExtentsApart ==
  ASSUME HeapInv, NEW a \in Blocks \ {BASE}, NEW b \in Blocks \ {BASE}, a # b
  PROVE  Extent(a) \intersect Extent(b) = {}
<1>1. ASSUME NEW x \in Extent(a), x \in Extent(b) PROVE FALSE
  <2>1. x \in Nat /\ a <= x /\ x < a + units[a] /\ b <= x /\ x < b + units[b]
    BY <1>1, ExtentIs
  <2>2. (a < b => a + units[a] <= b) /\ (b < a => b + units[b] <= a)
    BY DEF HeapInv, Apart, Blocks
  <2>3. a \in Nat /\ b \in Nat /\ units[a] \in Nat /\ units[b] \in Nat
    BY BlockFacts
  <2> QED BY <2>1, <2>2, <2>3
<1> QED BY <1>1

\* The units the heap took are those of its blocks.
LEMMA ExtentsCover ==
  ASSUME HeapInv, NEW x
  PROVE  x \in UnitsOf(core) <=> \E a \in Blocks : x \in Extent(a)
<1>1. x \in Covered(units) <=>
        x \in Nat /\ \E a \in Blocks : a <= x /\ x < a + units[a]
  BY DEF Covered, Blocks
<1>2. UnitsOf(core) = Covered(units)
  BY DEF HeapInv
<1> QED BY <1>1, <1>2, ExtentIs

LEMMA InvPartition == ASSUME HeapInv PROVE Partition
<1>1. \A a, b \in DOMAIN units \ {BASE} :
        a # b => Extent(a) \intersect Extent(b) = {}
  BY ExtentsApart DEF Blocks
<1>2. \A a \in DOMAIN units : Extent(a) \subseteq UnitsOf(core)
  BY ExtentsCover DEF Blocks
<1>3. core \subseteq frame_bitmap
  BY DEF HeapInv, Shape
<1>4. NoUnitLost
  <2>1. Blocks = Free_list \union DOMAIN held \union InHand
    BY DEF HeapInv, Shape
  <2>2. ASSUME NEW x
        PROVE  x \in UnitsOf(core) <=>
                 \/ \E a \in Free_list \union DOMAIN held : x \in Extent(a)
                 \/ call.at = "place" /\ x \in Extent(block)
    BY <2>1, ExtentsCover DEF InHand
  <2>3. ASSUME NEW x
        PROVE  x \in UNION {Extent(a) : a \in Free_list \union DOMAIN held} <=>
                 \E a \in Free_list \union DOMAIN held : x \in Extent(a)
    OBVIOUS
  <2>4. CASE call.at = "place"
    BY <2>2, <2>3, <2>4 DEF NoUnitLost
  <2>5. CASE call.at # "place"
    BY <2>2, <2>3, <2>5 DEF NoUnitLost
  <2> QED BY <2>4, <2>5
<1> QED BY <1>1, <1>2, <1>3, <1>4 DEF Partition, NoOverlap

\* Partition: in the middle of every call the units of the pages the heap took
\* are divided among its blocks without overlap and without loss.
THEOREM PartitionHolds == Spec => []Partition
BY HeapInvariance, InvPartition, PTL

\* FreeListOK: the free list is one cycle in address order, and two free
\* blocks never touch.
THEOREM FreeListOKHolds == Spec => []FreeListOK
<1>1. HeapInv => FreeListOK
  BY DEF HeapInv, FreeListOK
<1> QED BY <1>1, HeapInvariance, PTL

-----------------------------------------------------------------------------
(* The refinement of Heap                                                  *)

\* The record HeapBlocks has of a block.
Record(a) == [start |-> a, units |-> units[a], bytes |-> held[a]]

\* The heap hands out memory it may use.
LEMMA WithinMemory ==
  ASSUME HeapInv, NEW a \in Blocks PROVE Extent(a) \subseteq UnitsOf(Frames \ Used)
<1>1. core \subseteq Frames \ Used
  BY DEF HeapInv, Shape
<1>2. UnitsOf(core) \subseteq UnitsOf(Frames \ Used)
  BY <1>1 DEF UnitsOf
<1> QED BY <1>2, ExtentsCover

\* What Heap promises of the blocks clients hold.
HeldOK ==
  \A a \in DOMAIN held :
    /\ Extent(a) \subseteq UnitsOf(Frames \ Used)
    /\ (units[a] - 1) * HEADER >= held[a] \/ held[a] \in Wrapping
    /\ \A c \in DOMAIN held \ {a} : Extent(a) \intersect Extent(c) = {}

LEMMA InvHeldOK == ASSUME HeapInv PROVE HeldOK
<1> SUFFICES ASSUME NEW a \in DOMAIN held
             PROVE  /\ Extent(a) \subseteq UnitsOf(Frames \ Used)
                    /\ (units[a] - 1) * HEADER >= held[a] \/ held[a] \in Wrapping
                    /\ \A c \in DOMAIN held \ {a} : Extent(a) \intersect Extent(c) = {}
  BY DEF HeldOK
<1>1. \A c \in DOMAIN held : c \in Blocks \ {BASE}
  BY BlockFacts
<1>2. Extent(a) \subseteq UnitsOf(Frames \ Used)
  BY <1>1, WithinMemory
<1>3. (units[a] - 1) * HEADER >= held[a] \/ held[a] \in Wrapping
  BY DEF HeapInv, RoomInv
<1>4. \A c \in DOMAIN held \ {a} : Extent(a) \intersect Extent(c) = {}
  BY <1>1, ExtentsApart
<1> QED BY <1>2, <1>3, <1>4

LEMMA NextHeldOK == HeapInv' => HeldOK'
<1>1. HeapInv => HeldOK
  BY InvHeldOK
<1> QED BY <1>1, PTL

\* A block is handed out.
LEMMA NewBlock ==
  ASSUME HeapInv', HeldStay, NEW s, s \notin DOMAIN held,
         DOMAIN held' = DOMAIN held \union {s},
         \A a \in DOMAIN held : held'[a] = held[a]
  PROVE  Promise!Next
<1>1. PICK b, u, h : /\ u = units'[s] /\ h = held'[s]
                     /\ b = [start |-> s, units |-> u, bytes |-> h]
  OBVIOUS
<1>2. HeapBlocks' = HeapBlocks \union {b} /\ b \notin HeapBlocks
  <2>1. HeapBlocks = {Record(a) : a \in DOMAIN held}
    BY DEF HeapBlocks, Record
  <2>2. HeapBlocks' = {[start |-> a, units |-> units'[a], bytes |-> held'[a]] :
                        a \in DOMAIN held'}
    BY DEF HeapBlocks
  <2>3. \A a \in DOMAIN held :
          [start |-> a, units |-> units'[a], bytes |-> held'[a]] = Record(a)
    BY DEF Record, HeldStay
  <2>4. \A a \in DOMAIN held : Record(a) # b
    BY <1>1 DEF Record
  <2> QED BY <1>1, <2>1, <2>2, <2>3, <2>4
<1>3. /\ s .. s + u - 1 \subseteq UnitsOf(Frames \ Used)
      /\ (u - 1) * HEADER >= h \/ h \in Wrapping
      /\ \A c \in DOMAIN held : (s .. s + u - 1) \intersect (c .. c + units[c] - 1) = {}
  <2>1. \A c \in DOMAIN held : Extent(c)' = c .. c + units[c] - 1
    BY DEF Extent, HeldStay
  <2>2. Extent(s)' = s .. s + u - 1
    BY <1>1 DEF Extent
  <2>3. /\ Extent(s)' \subseteq UnitsOf(Frames \ Used)
        /\ (units'[s] - 1) * HEADER >= held'[s] \/ held'[s] \in Wrapping
        /\ \A c \in DOMAIN held' \ {s} : Extent(s)' \intersect Extent(c)' = {}
    BY NextHeldOK DEF HeldOK
  <2> QED BY <1>1, <2>1, <2>2, <2>3
<1>4. Promise!Extent(b) = s .. s + u - 1 /\ Promise!HasRoom(b)
  BY <1>1, <1>3 DEF Promise!Extent, Promise!HasRoom
<1>5. \A c \in HeapBlocks : Promise!Disjoint(b, c)
  <2> SUFFICES ASSUME NEW c \in DOMAIN held
               PROVE  Promise!Extent(b) \intersect Promise!Extent(Record(c)) = {}
    BY DEF HeapBlocks, Record, Promise!Disjoint
  <2>1. Promise!Extent(Record(c)) = c .. c + units[c] - 1
    BY DEF Promise!Extent, Record
  <2> QED BY <1>3, <1>4, <2>1
<1>6. Promise!Malloc(b)
  BY <1>2, <1>3, <1>4, <1>5 DEF Promise!Malloc
<1> QED BY <1>2, <1>6 DEF Promise!Next

\* A block is given back.
LEMMA OldBlock ==
  ASSUME NEW a \in DOMAIN held, UNCHANGED units,
         held' = [b \in DOMAIN held \ {a} |-> held[b]]
  PROVE  Promise!Next
<1>1. HeapBlocks = {Record(b) : b \in DOMAIN held}
  BY DEF HeapBlocks, Record
<1>2. HeapBlocks' = {Record(b) : b \in DOMAIN held \ {a}}
  BY DEF HeapBlocks, Record
<1>3. \A b \in DOMAIN held \ {a} : Record(b) # Record(a)
  BY DEF Record
<1>4. HeapBlocks' = HeapBlocks \ {Record(a)} /\ Record(a) \in HeapBlocks
  BY <1>1, <1>2, <1>3
<1> QED BY <1>4 DEF Promise!Next, Promise!Free

\* Nothing changes for the clients.
LEMMA SameHeld ==
  ASSUME UNCHANGED held, HeldStay PROVE UNCHANGED HeapBlocks
BY DEF HeapBlocks, HeldStay

LEMMA PromiseStep ==
  ASSUME HeapInv, HeapInv', [Next]_vars PROVE [Promise!Next]_HeapBlocks
<1>1. CASE TakeExact
  <2>1. PICK c, h : c = curr /\ h = call.asked
    OBVIOUS
  <2>2. call.at = "scan" /\ held' = With(held, c, h) /\ UNCHANGED units
    BY <1>1, <2>1 DEF TakeExact
  <2>3. c \notin DOMAIN held
    BY <2>1, <2>2, Scanning DEF HeapInv, Shape
  <2>4. DOMAIN held' = DOMAIN held \union {c} /\ \A a \in DOMAIN held : held'[a] = held[a]
    BY <2>2, <2>3 DEF With
  <2>5. HeldStay
    BY <2>2 DEF HeldStay
  <2> QED BY <2>3, <2>4, <2>5, NewBlock
<1>2. CASE TakeTail
  <2>1. HeldStay /\ \E s : /\ s \notin DOMAIN held /\ DOMAIN held' = DOMAIN held \union {s}
                           /\ \A a \in DOMAIN held : held'[a] = held[a]
    BY <1>2, TakeTailInv
  <2> QED BY <2>1, NewBlock
<1>3. CASE Advance \/ Walk \/ kheap_init \/ OtherClient \/ UNCHANGED vars
  <2>1. UNCHANGED <<held, units>>
    BY <1>3 DEF Advance, Walk, kheap_init, OtherClient, vars
  <2>2. HeldStay
    BY <2>1 DEF HeldStay
  <2> QED BY <2>1, <2>2, SameHeld
<1>4. CASE morecore
  <2>1. HeldStay /\ UNCHANGED held
    BY <1>4, MorecoreInv DEF morecore
  <2> QED BY <2>1, SameHeld
<1>5. CASE Place
  <2>1. HeldStay /\ UNCHANGED held
    BY <1>5, PlaceInv DEF Place
  <2> QED BY <2>1, SameHeld
<1>6. ASSUME NEW bytes \in Requests, kmalloc(bytes) PROVE UNCHANGED HeapBlocks
  <2>1. UNCHANGED <<held, units>>
    BY <1>6 DEF kmalloc
  <2>2. HeldStay
    BY <2>1 DEF HeldStay
  <2> QED BY <2>1, <2>2, SameHeld
<1>7. ASSUME NEW a \in DOMAIN held, kfree(a) PROVE Promise!Next
  <2>1. UNCHANGED units /\ held' = [b \in DOMAIN held \ {a} |-> held[b]]
    BY <1>7 DEF kfree
  <2> QED BY <2>1, OldBlock
<1> QED BY <1>1, <1>2, <1>3, <1>4, <1>5, <1>6, <1>7 DEF Next, Step

\* The heap of src/kheap.c implements Heap: a block handed out lies in memory
\* the heap may use, overlaps no other block, has room for the request (unless
\* the request's rounding wraps), and stays until it is freed.
THEOREM HeapSpecHolds == Spec => HeapSpec
<1>1. Init => Promise!Init
  BY DEF Init, Promise!Init, HeapBlocks
<1>2. HeapInv /\ HeapInv' /\ [Next]_vars => [Promise!Next]_HeapBlocks
  BY PromiseStep
<1> QED BY <1>1, <1>2, HeapInvariance, PTL DEF Spec, HeapSpec, Promise!Spec

-----------------------------------------------------------------------------
(* The turn round the free list                                            *)

\* No block begins behind the last page.
LEMMA BelowTop ==
  ASSUME HeapInv
  PROVE  /\ TOP \in Nat
         /\ \A a \in Blocks : a \in Nat /\ a < TOP
<1>1. UNITS \in Nat /\ UNITS > 1 /\ MAX_FRAMES \in Nat
  BY Sizes
<1>2. TOP = MAX_FRAMES * UNITS /\ TOP \in Nat
  BY <1>1 DEF TOP
<1>3. ASSUME NEW x \in Nat, NEW f \in Frames, In(x, f) PROVE x < TOP
  <2>1. f \in Nat /\ f + 1 <= MAX_FRAMES
    BY <1>1 DEF Frames
  <2>2. (f + 1) * UNITS <= MAX_FRAMES * UNITS
    BY <1>1, <2>1
  <2>3. (f + 1) * UNITS = f * UNITS + UNITS /\ f * UNITS \in Nat
    BY <1>1, <2>1
  <2> QED BY <1>1, <1>2, <1>3, <2>2, <2>3 DEF In
<1>4. BASE \in Nat /\ BASE < TOP
  <2>1. PICK d \in Nat, m \in 0 .. UNITS - 1 : d = BASE \div UNITS /\ In(BASE, d)
    BY KheapAssumption, PageOfUnit
  <2> QED BY <1>3, <2>1, KheapAssumption
<1>5. ASSUME NEW a \in Blocks \ {BASE} PROVE a \in Nat /\ a < TOP
  <2>1. a \in Nat /\ units[a] \in Nat /\ units[a] > 0
    BY BlockFacts
  <2>2. a \in Covered(units)
    BY <2>1 DEF Covered, Blocks
  <2>3. core \subseteq Frames /\ core \subseteq Nat /\ a \in UnitsOf(core)
    BY <2>2 DEF HeapInv, Shape, Frames
  <2>4. PICK f \in core : In(a, f)
    BY <2>3, UnitsOfIs
  <2> QED BY <1>3, <2>1, <2>3, <2>4
<1> QED BY <1>2, <1>4, <1>5

\* A search that is not back at its start comes nearer to it, and passes no
\* block but the one it leaves.
LEMMA SearchNext ==
  ASSUME NEW nx, Cycle(nx), TOP \in Nat,
         \A x \in DOMAIN nx : x \in Nat /\ x < TOP,
         NEW p \in DOMAIN nx, NEW c \in DOMAIN nx, c # p
  PROVE  /\ Searched(p, c) < Searched(p, nx[c]) /\ Searched(p, nx[c]) <= TOP
         /\ \A a \in DOMAIN nx :
              Searched(p, a) < Searched(p, nx[c]) => a = c \/ Searched(p, a) < Searched(p, c)
<1>1. /\ nx[c] \in DOMAIN nx /\ p \in Nat /\ p < TOP /\ c \in Nat /\ c < TOP
      /\ IF nx[c] > c THEN p <= c \/ nx[c] <= p ELSE nx[c] <= p /\ p <= c
  BY DEF Cycle
<1>2. nx[c] \in Nat /\ nx[c] < TOP
  BY <1>1
<1>3. Searched(p, c) < Searched(p, nx[c]) /\ Searched(p, nx[c]) <= TOP
  BY <1>1, <1>2 DEF Searched
<1>4. ASSUME NEW a \in DOMAIN nx, Searched(p, a) < Searched(p, nx[c])
      PROVE  a = c \/ Searched(p, a) < Searched(p, c)
  <2>1. /\ a \in Nat /\ a < TOP
        /\ IF nx[c] > c THEN a <= c \/ nx[c] <= a ELSE nx[c] <= a /\ a <= c
    BY DEF Cycle
  <2> QED BY <1>1, <1>2, <1>4, <2>1 DEF Searched
<1> QED BY <1>3, <1>4

\* A search begins behind its start: nothing is in between.
LEMMA SearchFirst ==
  ASSUME NEW nx, Cycle(nx), TOP \in Nat,
         \A x \in DOMAIN nx : x \in Nat /\ x < TOP,
         NEW p \in DOMAIN nx
  PROVE  /\ Searched(p, nx[p]) <= TOP
         /\ \A a \in DOMAIN nx : ~(Searched(p, a) < Searched(p, nx[p]))
<1>1. nx[p] \in DOMAIN nx /\ p \in Nat /\ p < TOP
  BY DEF Cycle
<1>2. nx[p] \in Nat /\ nx[p] < TOP
  BY <1>1
<1>3. ASSUME NEW a \in DOMAIN nx PROVE ~(Searched(p, a) < Searched(p, nx[p]))
  <2>1. /\ a \in Nat /\ a < TOP
        /\ IF nx[p] > p THEN a <= p \/ nx[p] <= a ELSE nx[p] <= a /\ a <= p
    BY DEF Cycle
  <2> QED BY <1>1, <1>2, <2>1 DEF Searched
<1> QED BY <1>1, <1>2, <1>3 DEF Searched

\* A walk that has not reached the block's place goes on without passing it.
LEMMA WalkNext ==
  ASSUME NEW nx, Cycle(nx), TOP \in Nat,
         \A x \in DOMAIN nx : x \in Nat /\ x < TOP,
         NEW p \in DOMAIN nx, NEW c \in DOMAIN nx,
         NEW b \in Nat, b < TOP, b \notin DOMAIN nx,
         Walked(p, c) < Walked(p, b),
         ~(b > c /\ b < nx[c]),
         ~(c >= nx[c] /\ (b > c \/ b < nx[c]))
  PROVE  Walked(p, c) < Walked(p, nx[c]) /\ Walked(p, nx[c]) < Walked(p, b)
<1>1. /\ nx[c] \in DOMAIN nx /\ p \in Nat /\ p < TOP /\ c \in Nat /\ c < TOP
      /\ IF nx[c] > c THEN p <= c \/ nx[c] <= p ELSE nx[c] <= p /\ p <= c
  BY DEF Cycle
<1>2. nx[c] \in Nat /\ nx[c] < TOP /\ b # nx[c] /\ b # c
  BY <1>1
<1> QED BY <1>1, <1>2 DEF Walked

\* morecore asks for pages that hold the block, unless the sum wraps: then
\* it asks for none.
LEMMA PagesEnough ==
  ASSUME NEW bytes \in Requests, NEW n, n = UnitsFor(bytes), Pages(n) > 0
  PROVE  Pages(n) * UNITS >= n
<1>1. /\ bytes \in Nat /\ HEADER \in Nat /\ HEADER > 0
      /\ ADDRESSES \in Nat /\ ADDRESSES > 0 /\ MAX_FRAMES \in Nat /\ MAX_FRAMES > 0
      /\ PAGE_SIZE \in Nat /\ PAGE_SIZE > 0 /\ PAGE_SIZE = UNITS * HEADER
      /\ UNITS \in Nat
  BY Sizes, KheapAssumption
<1> DEFINE K == UNITS * MAX_FRAMES
<1>2. K \in Nat /\ ADDRESSES = HEADER * K
  <2>1. ADDRESSES = (UNITS * HEADER) * MAX_FRAMES
    BY <1>1 DEF ADDRESSES
  <2> QED BY <1>1, <2>1
<1> HIDE DEF K
<1> DEFINE w == (bytes + HEADER - 1) % ADDRESSES
           q == w \div HEADER
           m == w % HEADER
<1>3. w \in Nat /\ w < ADDRESSES
  BY <1>1
<1>4. n = q + 1
  BY DEF UnitsFor
<1> HIDE DEF w
<1>5. q \in Nat /\ m \in Nat /\ w = HEADER * q + m
  BY <1>1, <1>3
<1> HIDE DEF q, m
<1>6. n \in Nat /\ n <= K
  <2>1. SUFFICES ASSUME q >= K PROVE FALSE
    BY <1>2, <1>4, <1>5
  <2>2. HEADER * q >= HEADER * K
    BY <1>1, <1>2, <1>5, <2>1
  <2>3. HEADER * q \in Nat /\ HEADER * K \in Nat
    BY <1>1, <1>2, <1>5
  <2> QED BY <1>2, <1>3, <1>5, <2>2, <2>3
<1> DEFINE x == n * HEADER
<1>7. x \in Nat /\ x <= ADDRESSES
  <2>1. HEADER * n <= HEADER * K
    BY <1>1, <1>2, <1>6
  <2>2. n * HEADER = HEADER * n /\ n * HEADER \in Nat
    BY <1>1, <1>6
  <2> QED BY <1>2, <2>1, <2>2
<1> DEFINE v == x % ADDRESSES
           y == (v + PAGE_SIZE - 1) % ADDRESSES
           d == y \div PAGE_SIZE
           r == y % PAGE_SIZE
<1>8. Pages(n) = d
  BY DEF Pages
<1> HIDE DEF x
<1>9. v = IF x = ADDRESSES THEN 0 ELSE x
  BY <1>1, <1>7
<1>10. PAGE_SIZE <= ADDRESSES
  <2>1. PAGE_SIZE * 1 <= PAGE_SIZE * MAX_FRAMES
    BY <1>1
  <2> QED BY <1>1, <2>1 DEF ADDRESSES
<1>11. v \in Nat /\ v < ADDRESSES
  BY <1>1, <1>7, <1>9
<1> HIDE DEF v
<1>12. y = IF v + PAGE_SIZE - 1 >= ADDRESSES THEN v + PAGE_SIZE - 1 - ADDRESSES
           ELSE v + PAGE_SIZE - 1
  BY <1>1, <1>10, <1>11
<1>13. y \in Nat
  BY <1>1, <1>11, <1>12
<1> HIDE DEF y
<1>14. d \in Nat /\ r \in 0 .. PAGE_SIZE - 1 /\ y = PAGE_SIZE * d + r
  BY <1>1, <1>13
<1> HIDE DEF d, r
<1>15. y >= PAGE_SIZE
  <2>1. d >= 1
    BY <1>8, <1>14
  <2>2. PAGE_SIZE * d >= PAGE_SIZE * 1
    BY <1>1, <1>14, <2>1
  <2>3. PAGE_SIZE * d \in Nat
    BY <1>1, <1>14
  <2> QED BY <1>1, <1>14, <2>2, <2>3
<1>16. v = x /\ y = x + PAGE_SIZE - 1
  BY <1>1, <1>7, <1>9, <1>11, <1>12, <1>15
<1>17. PAGE_SIZE * d >= x
  <2>1. PAGE_SIZE * d \in Nat
    BY <1>1, <1>14
  <2> QED BY <1>1, <1>7, <1>14, <1>16, <2>1
<1>18. (d * UNITS) * HEADER >= n * HEADER
  <2>1. PAGE_SIZE * d = (d * UNITS) * HEADER
    BY <1>1, <1>14
  <2> QED BY <1>17, <2>1 DEF x
<1>19. d * UNITS \in Nat
  BY <1>1, <1>14
<1>20. d * UNITS >= n
  <2>1. SUFFICES ASSUME NEW u \in Nat, u * HEADER >= n * HEADER, u < n PROVE FALSE
    BY <1>6, <1>18, <1>19
  <2>2. (u + 1) * HEADER <= n * HEADER
    BY <1>1, <1>6, <2>1
  <2>3. (u + 1) * HEADER = u * HEADER + HEADER /\ u * HEADER \in Nat /\ n * HEADER \in Nat
    BY <1>1, <1>6
  <2> QED BY <1>1, <2>1, <2>2, <2>3
<1> QED BY <1>8, <1>20

-----------------------------------------------------------------------------
(* Every call ends                                                         *)

\* The blocks that a search has left behind are too small; a walk has not
\* yet come to its block's place, and new pages are large enough.
TurnInv ==
  /\ call.at = "scan" =>
       \A a \in Free_list :
         Searched(freep, a) < Searched(freep, curr) => units[a] < want
  /\ call.at = "place" =>
       Walked(freep, curr) < Walked(freep, block) /\ units[block] >= want

\* What a call in progress has to do with.
LEMMA Running ==
  ASSUME HeapInv, call.at # "idle"
  PROVE  /\ Cycle(next) /\ freep \in DOMAIN next /\ curr \in DOMAIN next
         /\ next[curr] \in DOMAIN next
         /\ TOP \in Nat /\ \A a \in DOMAIN next : a \in Nat /\ a < TOP
         /\ \A a \in DOMAIN next : units[a] \in Nat
         /\ want \in Nat
<1>1. freep # NULL /\ curr \in Free_list /\ want \in Nat
  BY DEF HeapInv, CallInv, Call, want
<1>2. freep \in Free_list /\ Cycle(next)
  BY <1>1, InUse
<1> QED BY <1>1, <1>2, BelowTop, BlockFacts DEF Free_list, Cycle

\* The block in hand.
LEMMA Placing ==
  ASSUME HeapInv, call.at = "place"
  PROVE  /\ block \in Nat /\ block < TOP /\ block \notin DOMAIN next
         /\ block \in Blocks /\ units[block] \in Nat
<1>1. block \in Blocks /\ block \notin Free_list
  BY DEF HeapInv, Shape, InHand
<1> QED BY <1>1, BelowTop, BlockFacts DEF Free_list

\* A walk begins at freep.
LEMMA WalkFirst ==
  ASSUME HeapInv, call.at = "place", curr = freep
  PROVE  Walked(freep, curr) < Walked(freep, block)
<1>1. /\ freep \in Nat /\ freep < TOP /\ block \in Nat /\ block < TOP /\ TOP \in Nat
      /\ block # freep
  BY Running, Placing
<1> QED BY <1>1 DEF Walked

\* A search begins behind it.
LEMMA SearchBegins ==
  ASSUME HeapInv, call.at = "scan", curr = next[freep] PROVE TurnInv
<1>1. \A a \in DOMAIN next : ~(Searched(freep, a) < Searched(freep, next[freep]))
  BY Running, SearchFirst
<1> QED BY <1>1 DEF TurnInv, Free_list

LEMMA TurnInit == ASSUME Init PROVE TurnInv
BY DEF Init, Idle, TurnInv

\* The same of the state that a step leads to.
LEMMA NextBegins ==
  /\ (HeapInv /\ call.at = "scan" /\ curr = next[freep] => TurnInv)'
  /\ (HeapInv /\ call.at = "place" /\ curr = freep =>
        /\ Walked(freep, curr) < Walked(freep, block)
        /\ block \in Blocks /\ units[block] \in Nat)'
  /\ (HeapInv /\ call.at = "scan" =>
        Searched(freep, curr) \in Nat /\ 0 < Searched(freep, curr) /\ Searched(freep, curr) <= TOP)'
<1>1. HeapInv /\ call.at = "scan" /\ curr = next[freep] => TurnInv
  BY SearchBegins
<1>2. HeapInv /\ call.at = "place" /\ curr = freep =>
        /\ Walked(freep, curr) < Walked(freep, block)
        /\ block \in Blocks /\ units[block] \in Nat
  BY WalkFirst, Placing
<1>3. HeapInv /\ call.at = "scan" =>
        Searched(freep, curr) \in Nat /\ 0 < Searched(freep, curr) /\ Searched(freep, curr) <= TOP
  <2> SUFFICES ASSUME HeapInv, call.at = "scan"
               PROVE  /\ Searched(freep, curr) \in Nat /\ 0 < Searched(freep, curr)
                      /\ Searched(freep, curr) <= TOP
    OBVIOUS
  <2>1. freep \in Nat /\ freep < TOP /\ curr \in Nat /\ curr < TOP /\ TOP \in Nat
    BY Running
  <2> QED BY <2>1 DEF Searched
<1> QED BY <1>1, <1>2, <1>3, PTL

LEMMA KmallocTurn ==
  ASSUME HeapInv', NEW bytes \in Requests, kmalloc(bytes) PROVE TurnInv'
<1>1. call'.at = "scan" /\ curr' = next'[freep']
  BY DEF kmalloc, Idle, curr
<1> QED BY <1>1, NextBegins

LEMMA KfreeTurn ==
  ASSUME HeapInv', NEW a \in DOMAIN held, kfree(a) PROVE TurnInv'
<1>1. call'.at = "place" /\ curr' = freep' /\ want' = 0
  BY DEF kfree, Idle, curr, want
<1>2. /\ Walked(freep', curr') < Walked(freep', block')
      /\ units'[block'] \in Nat
  BY <1>1, NextBegins
<1> QED BY <1>1, <1>2 DEF TurnInv

\* The iterations that do not end a call.
Nearer == 0 <= Left' /\ Left' < Left

LEMMA AdvanceTurn == ASSUME HeapInv, TurnInv, Advance PROVE TurnInv' /\ Nearer
<1>1. /\ call.at = "scan" /\ units[curr] < want /\ curr # freep
      /\ call' = [call EXCEPT !.prev = curr, !.curr = next[curr]]
      /\ UNCHANGED <<next, units, freep>>
  BY DEF Advance, TooSmall, SearchedAll
<1>2. call'.at = "scan" /\ curr' = next[curr] /\ want' = want
  <2>1. call \in Call
    BY DEF HeapInv, CallInv
  <2> QED BY <1>1, <2>1 DEF Call, curr, want
<1>3. PICK c, p, n : c = curr /\ p = freep /\ n = next[curr]
  OBVIOUS
<1>4. /\ TOP \in Nat /\ c \in Nat /\ c < TOP /\ p \in Nat /\ p < TOP /\ n \in Nat /\ n < TOP
  BY <1>1, <1>3, Running
<1>5. /\ Searched(p, c) < Searched(p, n) /\ Searched(p, n) <= TOP
      /\ \A a \in DOMAIN next :
           Searched(p, a) < Searched(p, n) => a = c \/ Searched(p, a) < Searched(p, c)
  BY <1>1, <1>3, Running, SearchNext
<1>6. TurnInv'
  BY <1>1, <1>2, <1>3, <1>5 DEF TurnInv, Free_list
<1>7. Fitting' = Fitting
  BY <1>1, <1>2 DEF Fitting, Free_list
<1>8. PICK h \in {0, 2} : h = IF Fitting = {} THEN 2 ELSE 0
  OBVIOUS
<1>9. Phase = h /\ Phase' = h
  BY <1>1, <1>2, <1>7, <1>8 DEF Phase
<1>10. /\ Left = h * (TOP + 1) + TOP - Searched(p, c)
       /\ Left' = h * (TOP + 1) + TOP - Searched(p, n)
  BY <1>1, <1>2, <1>3, <1>9 DEF Left
<1>11. Searched(p, c) \in Nat /\ Searched(p, n) \in Nat
  BY <1>4 DEF Searched
<1>12. Nearer
  BY <1>4, <1>5, <1>8, <1>10, <1>11 DEF Nearer
<1> QED BY <1>6, <1>12

LEMMA WalkTurn == ASSUME HeapInv, TurnInv, Walk PROVE TurnInv' /\ Nearer
<1>1. /\ call.at = "place" /\ ~Belongs(block, curr)
      /\ call' = [call EXCEPT !.curr = next[curr]]
      /\ UNCHANGED <<next, units, freep>>
  BY DEF Walk
<1>2. call'.at = "place" /\ curr' = next[curr] /\ want' = want /\ block' = block
  <2>1. call \in Call
    BY DEF HeapInv, CallInv
  <2> QED BY <1>1, <2>1 DEF Call, curr, want, block
<1>3. PICK c, p, n, b : c = curr /\ p = freep /\ n = next[curr] /\ b = block
  OBVIOUS
<1>4. /\ TOP \in Nat /\ c \in Nat /\ c < TOP /\ p \in Nat /\ p < TOP
      /\ n \in Nat /\ n < TOP /\ b \in Nat /\ b < TOP /\ b \notin DOMAIN next
  BY <1>1, <1>3, Running, Placing
<1>5. Walked(p, c) < Walked(p, b)
  BY <1>1, <1>3 DEF TurnInv
<1>6. Walked(p, c) < Walked(p, n) /\ Walked(p, n) < Walked(p, b)
  <2>1. ~(b > c /\ b < next[c]) /\ ~(c >= next[c] /\ (b > c \/ b < next[c]))
    BY <1>1, <1>3 DEF Belongs
  <2>2. /\ Cycle(next) /\ c \in DOMAIN next /\ p \in DOMAIN next /\ n = next[c]
        /\ \A a \in DOMAIN next : a \in Nat /\ a < TOP
    BY <1>1, <1>3, Running
  <2> QED BY <1>4, <1>5, <2>1, <2>2, WalkNext
<1>7. TurnInv'
  BY <1>1, <1>2, <1>3, <1>6 DEF TurnInv
<1>8. Left = 1 * (TOP + 1) + TOP - Walked(p, c) /\ Left' = 1 * (TOP + 1) + TOP - Walked(p, n)
  BY <1>1, <1>2, <1>3 DEF Left, Phase
<1>9. Walked(p, c) \in Nat /\ Walked(p, n) \in Nat /\ Walked(p, n) < TOP
  BY <1>4 DEF Walked
<1>10. Nearer
  BY <1>4, <1>6, <1>8, <1>9 DEF Nearer
<1> QED BY <1>7, <1>10

\* A search that comes back to its start has seen every block.
LEMMA NoneFits ==
  ASSUME HeapInv, TurnInv, TooSmall, SearchedAll PROVE Fitting = {}
<1>1. call.at = "scan" /\ units[freep] < want /\ curr = freep
  BY DEF TooSmall, SearchedAll
<1>2. ASSUME NEW a \in Free_list PROVE ~(units[a] >= want)
  <2>1. /\ a \in Nat /\ a < TOP /\ freep \in Nat /\ freep < TOP /\ TOP \in Nat
        /\ units[a] \in Nat /\ want \in Nat /\ freep \in DOMAIN next
        /\ units[freep] \in Nat
    BY <1>1, Running DEF Free_list
  <2>2. CASE a = freep
    BY <1>1, <2>1, <2>2
  <2>3. CASE a # freep
    <3>1. Searched(freep, a) < Searched(freep, freep)
      BY <2>1, <2>3 DEF Searched
    <3>2. units[a] < want
      BY <1>1, <3>1 DEF TurnInv
    <3> QED BY <2>1, <3>2
  <2> QED BY <2>2, <2>3
<1> QED BY <1>2 DEF Fitting

LEMMA MorecoreTurn ==
  ASSUME HeapInv, HeapInv', TurnInv, morecore
  PROVE  TurnInv' /\ (call' # Idle => Nearer)
<1>1. call.at = "scan" /\ curr = freep /\ UNCHANGED <<next, freep>>
  BY DEF morecore, TooSmall, SearchedAll
<1>2. Fitting = {}
  BY NoneFits DEF morecore
<1>3. CASE call' = Idle
  BY <1>3 DEF TurnInv, Idle
<1>4. ASSUME NEW f \in Frames,
             Pages(want) > 0,
             units' = With(units, f * UNITS, Pages(want) * UNITS),
             call' = [call EXCEPT !.at = "place", !.block = f * UNITS, !.curr = freep]
      PROVE  TurnInv' /\ Nearer
  <2>1. call'.at = "place" /\ curr' = freep /\ want' = want /\ block' = f * UNITS
    <3>1. call \in Call
      BY DEF HeapInv, CallInv
    <3> QED BY <1>4, <3>1 DEF Call, curr, want, block
  <2>2. Walked(freep', curr') < Walked(freep', block')
    BY <1>1, <2>1, NextBegins
  <2>3. units'[block'] = Pages(want) * UNITS
    BY <1>4, <2>1 DEF With
  <2>4. Pages(want) * UNITS >= want
    <3>1. call.asked \in Requests /\ want = UnitsFor(call.asked)
      BY <1>1 DEF HeapInv, CallInv
    <3> QED BY <1>4, <3>1, PagesEnough
  <2>5. TurnInv'
    BY <2>1, <2>2, <2>3, <2>4 DEF TurnInv
  <2>6. freep \in Nat /\ TOP \in Nat
    BY <1>1, Running
  <2>7. Searched(freep, freep) = TOP /\ Walked(freep, freep) = 0
    BY <2>6 DEF Searched, Walked
  <2>8. Left = 2 * (TOP + 1) + TOP - TOP /\ Left' = 1 * (TOP + 1) + TOP - 0
    BY <1>1, <1>2, <2>1, <2>7 DEF Left, Phase
  <2> QED BY <2>5, <2>6, <2>8 DEF Nearer
<1> QED BY <1>3, <1>4 DEF morecore, pfa_alloc_contiguous

\* The new pages are in the block that kfree_internal has put into the list,
\* alone or joined to a neighbour.
LEMMA PlacedFits ==
  ASSUME HeapInv, TurnInv, Place, want # 0, want' = want PROVE Fitting' # {}
<1>1. call.at = "place" /\ next' = Placed /\ units' = PlacedUnits /\ Belongs(block, curr)
  BY DEF Place
<1>2. PICK c, b, n : c = curr /\ b = block /\ n = next[curr]
  OBVIOUS
<1>3. /\ c \in Free_list /\ n \in Free_list /\ b \notin Free_list /\ b \in Blocks
      /\ Free_list \subseteq Blocks
      /\ units[c] \in Nat /\ units[n] \in Nat /\ units[b] \in Nat /\ want \in Nat
      /\ units[b] >= want
  BY <1>1, <1>2, Running, Placing, BlockFacts DEF TurnInv, Free_list
<1>4. c # b /\ n # b
  BY <1>3
<1>5. PICK above \in BOOLEAN : above <=> JoinsAbove
  <2>1. JoinsAbove \in BOOLEAN
    BY DEF JoinsAbove
  <2> QED BY <2>1, Zenon
<1>6. SizeAfter \in Nat /\ SizeAfter >= want
  BY <1>2, <1>3, <1>5 DEF SizeAfter
<1>7. CASE ~JoinsBelow
  <2>1. b \notin Swallowed
    BY <1>2, <1>4, <1>7 DEF Swallowed
  <2>2. b \in Free_list' /\ units'[b] = SizeAfter
    BY <1>1, <1>2, <1>3, <1>4, <2>1 DEF Placed, PlacedUnits, Free_list, Blocks
  <2>3. b \in Fitting'
    BY <1>6, <2>2 DEF Fitting
  <2> QED BY <2>3
<1>8. CASE JoinsBelow
  <2>1. c \notin Swallowed
    <3>1. ~(JoinsAbove /\ n = c)
      <4>1. SUFFICES ASSUME b + units[b] = c, c + units[c] = b PROVE FALSE
        BY <1>2, <1>8 DEF JoinsAbove, JoinsBelow
      <4>2. c \in Nat /\ b \in Nat /\ units[b] > 0
        BY <1>1, <1>2, <1>3, Running, Placing DEF Free_list
      <4> QED BY <1>3, <4>1, <4>2
    <3> QED BY <1>2, <1>4, <3>1 DEF Swallowed
  <2>2. c \in Free_list' /\ units'[c] = units[c] + SizeAfter
    BY <1>1, <1>2, <1>3, <1>8, <2>1 DEF Placed, PlacedUnits, Free_list, Blocks
  <2>3. c \in Fitting'
    BY <1>3, <1>6, <2>2 DEF Fitting
  <2> QED BY <2>3
<1> QED BY <1>7, <1>8

LEMMA PlaceTurn ==
  ASSUME HeapInv, HeapInv', TurnInv, Place
  PROVE  TurnInv' /\ (call' # Idle => Nearer)
<1>1. /\ call.at = "place" /\ next' = Placed /\ freep' = curr
      /\ call' = IF want = 0 THEN Idle
                 ELSE [call EXCEPT !.at = "scan", !.block = NULL,
                         !.prev = curr, !.curr = Placed[curr]]
  BY DEF Place
<1>2. CASE want = 0
  <2>1. call' = Idle
    BY <1>1, <1>2
  <2> QED BY <2>1 DEF TurnInv, Idle
<1>3. CASE want # 0
  <2>1. call'.at = "scan" /\ curr' = Placed[curr] /\ want' = want
    <3>1. call \in Call
      BY DEF HeapInv, CallInv
    <3> QED BY <1>1, <1>3, <3>1 DEF Call, curr, want
  <2>2. TurnInv'
    BY <1>1, <2>1, NextBegins
  <2>3. Fitting' # {}
    BY <1>3, <2>1, PlacedFits
  <2>4. PICK w, z : w = Walked(freep, curr) /\ z = Searched(freep', curr')
    OBVIOUS
  <2>5. z \in Nat /\ 0 < z /\ z <= TOP
    BY <2>1, <2>4, NextBegins
  <2>6. TOP \in Nat /\ w \in Nat /\ w < TOP
    <3>1. freep \in Nat /\ freep < TOP /\ curr \in Nat /\ curr < TOP /\ TOP \in Nat
      BY <1>1, Running
    <3> QED BY <2>4, <3>1 DEF Walked
  <2>7. Left = 1 * (TOP + 1) + TOP - w /\ Left' = 0 * (TOP + 1) + TOP - z
    BY <1>1, <2>1, <2>3, <2>4 DEF Left, Phase
  <2>8. Nearer
    BY <2>5, <2>6, <2>7 DEF Nearer
  <2> QED BY <2>2, <2>8
<1> QED BY <1>2, <1>3

LEMMA TurnStep ==
  ASSUME HeapInv, HeapInv', TurnInv, [Next]_vars PROVE TurnInv'
<1>1. ASSUME TakeExact \/ TakeTail PROVE TurnInv'
  <2>1. call' = Idle
    BY <1>1 DEF TakeExact, TakeTail
  <2> QED BY <2>1 DEF TurnInv, Idle
<1>2. CASE Step
  BY <1>1, <1>2, AdvanceTurn, MorecoreTurn, WalkTurn, PlaceTurn DEF Step
<1>3. ASSUME NEW bytes \in Requests, kmalloc(bytes) PROVE TurnInv'
  BY <1>3, KmallocTurn
<1>4. ASSUME NEW a \in DOMAIN held, kfree(a) PROVE TurnInv'
  BY <1>4, KfreeTurn
<1>5. ASSUME kheap_init \/ OtherClient PROVE TurnInv'
  <2>1. call' = Idle
    BY <1>5 DEF kheap_init, OtherClient
  <2> QED BY <2>1 DEF TurnInv, Idle
<1>6. CASE UNCHANGED vars
  BY <1>6 DEF vars, TurnInv, Free_list, curr, block, want
<1> QED BY <1>2, <1>3, <1>4, <1>5, <1>6 DEF Next

\* The search has seen what it left behind, and the walk has its place still
\* before it, in every iteration: kmalloc and kfree_internal go round the free
\* list at most once from wherever freep is.
THEOREM TurnInvariance == Spec => [](HeapInv /\ TurnInv)
<1>1. Init => HeapInv /\ TurnInv
  BY HeapInit, TurnInit
<1>2. HeapInv /\ TurnInv /\ [Next]_vars => (HeapInv /\ TurnInv)'
  BY HeapStep, TurnStep
<1> QED BY <1>1, <1>2, PTL DEF Spec

\* A block is handed out.
LEMMA NewlyHeld ==
  ASSUME HeapInv, TakeExact \/ TakeTail PROVE held' # held /\ core' = core
<1>1. call.at = "scan" /\ core' = core
  BY DEF TakeExact, TakeTail
<1>2. /\ curr \in Nat /\ curr \in Free_list /\ want \in Nat /\ want > 0
      /\ units[curr] \in Nat /\ Blocks = Free_list \union DOMAIN held
      /\ curr # BASE => units[curr] > 0
  BY <1>1, Scanning, Running DEF HeapInv, Shape, Free_list
<1>3. CASE TakeExact
  <2>1. curr \in DOMAIN held'
    BY <1>3 DEF TakeExact, With
  <2>2. curr \notin DOMAIN held
    BY <1>2 DEF HeapInv, Shape
  <2> QED BY <1>1, <2>1, <2>2
<1>4. CASE TakeTail
  <2>1. PICK c, r : c = curr /\ r = units[curr] - want
    OBVIOUS
  <2>2. r > 0 /\ c + r \in DOMAIN held'
    BY <1>4, <2>1 DEF TakeTail, With
  <2>3. c \in Nat /\ r \in Nat /\ c < c + r /\ c + r < c + units[c] /\ c \in Blocks
    BY <1>2, <2>1, <2>2
  <2>4. c + r \notin Blocks \ {BASE}
    <3>1. c # BASE
      BY <1>2, <2>1, <2>3 DEF HeapInv, Shape
    <3>2. Apart(units) /\ Blocks \subseteq Nat
      BY DEF HeapInv, Shape
    <3> QED BY <2>3, <3>1, <3>2, <1>2, <2>1 DEF Apart, Blocks
  <2>5. BASE \notin DOMAIN held
    BY DEF HeapInv, Shape
  <2> QED BY <1>1, <1>2, <2>2, <2>4, <2>5
<1> QED BY <1>3, <1>4

\* SearchComplete: kmalloc grows the heap or gives up only when no block of
\* the free list is large enough.
THEOREM SearchCompleteHolds == Spec => SearchComplete
<1> DEFINE Seen == call.at = "scan" /\ (core' # core \/ (call' = Idle /\ held' = held)) =>
                     Fitting = {}
<1>1. ASSUME HeapInv, TurnInv, [Next]_vars PROVE [Seen]_vars
  <2> SUFFICES ASSUME Next, call.at = "scan",
                      core' # core \/ (call' = Idle /\ held' = held)
               PROVE  Fitting = {}
    BY <1>1
  <2>1. call # Idle
    BY DEF Idle
  <2>2. Step
    BY <2>1 DEF Next, kheap_init, kmalloc, kfree, OtherClient
  <2>3. ~(TakeExact \/ TakeTail)
    BY <1>1, NewlyHeld
  <2>4. ~Advance
    <3> SUFFICES ASSUME Advance PROVE FALSE
      OBVIOUS
    <3>1. core' = core /\ call' = [call EXCEPT !.prev = curr, !.curr = next[curr]]
      BY DEF Advance
    <3>2. call'.at = "scan"
      BY <1>1, <3>1 DEF HeapInv, CallInv, Call
    <3> QED BY <3>1, <3>2 DEF Idle
  <2>5. ~Walk /\ ~Place
    BY DEF Walk, Place
  <2>6. morecore
    BY <2>2, <2>3, <2>4, <2>5 DEF Step
  <2> QED BY <1>1, <2>6, NoneFits DEF morecore
<1> QED BY <1>1, TurnInvariance, PTL DEF Spec, SearchComplete

\* CallProgress: every iteration of kmalloc and of kfree_internal that does
\* not end the call brings its end nearer, so no call runs for ever.
THEOREM CallProgressHolds == Spec => CallProgress
<1> DEFINE Progress == call # Idle /\ call' # Idle => 0 <= Left' /\ Left' < Left
<1>1. ASSUME HeapInv, HeapInv', TurnInv, [Next]_vars PROVE [Progress]_vars
  <2> SUFFICES ASSUME Next, call # Idle, call' # Idle PROVE Nearer
    BY <1>1 DEF Nearer
  <2>1. Step
    BY DEF Next, kheap_init, kmalloc, kfree, OtherClient
  <2>2. ~TakeExact /\ ~TakeTail
    BY DEF TakeExact, TakeTail
  <2> QED BY <1>1, <2>1, <2>2, AdvanceTurn, MorecoreTurn, WalkTurn, PlaceTurn DEF Step
<1> QED BY <1>1, TurnInvariance, PTL DEF Spec, CallProgress
=============================================================================
