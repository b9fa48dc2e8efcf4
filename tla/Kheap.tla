------------------------------- MODULE Kheap --------------------------------
(***************************************************************************)
(* The kernel heap of src/kheap.c over the page frame allocator.  An       *)
(* address counts units of sizeof(Header); a block is its header's unit    *)
(* and the payload behind it.  The two fields of the headers are the       *)
(* partial functions next and units: next is defined on the free list,     *)
(* units on the free list and on the blocks clients hold.  Everything else *)
(* is payload, which clients overwrite, so a read outside of the two       *)
(* domains is a read of garbage.  One iteration of a loop is one step; no  *)
(* two calls run at a time, because no interrupt handler uses the heap.    *)
(***************************************************************************)
EXTENDS Pfa

CONSTANTS HEADER,    \* sizeof(Header) in bytes
          BASE,      \* the address of the list head in the kernel image
          Used,      \* the frames in use when the heap starts
          Requests,  \* the byte counts clients ask for
          MaxHeld    \* bound: the blocks clients hold at a time

NULL  == 0
UNITS == PAGE_SIZE \div HEADER        \* units of a page

\* The list head lies inside the kernel's frames, and not at their start.
ASSUME KheapAssumption ==
  /\ HEADER \in Nat \ {0} /\ UNITS > 1 /\ PAGE_SIZE = UNITS * HEADER
  /\ Used \subseteq Frames /\ 0 \in Used
  /\ BASE \in Nat \ {0} /\ BASE \div UNITS \in Used /\ BASE % UNITS # 0
  /\ Requests \subseteq 0 .. ADDRESSES - 1
  /\ MaxHeld \in Nat

VARIABLES next, units,  \* the fields of the headers
          freep,
          call,         \* the call in progress and its local variables
          held,         \* the blocks clients hold: bytes asked for
          core          \* the frames the heap took

vars == <<pfaVars, next, units, freep, call, held, core>>

(***************************************************************************)
(* call.at is "scan" in the loop of kmalloc and "place" in the loop of     *)
(* kfree_internal; asked is the argument of kmalloc and want its units, 0  *)
(* in a call of kfree.                                                     *)
(***************************************************************************)
Idle == [at |-> "idle", prev |-> NULL, curr |-> NULL, block |-> NULL,
         asked |-> 0, want |-> 0]

prev  == call.prev
curr  == call.curr
block == call.block
want  == call.want

Free_list == DOMAIN next

Extent(a) == a .. a + units[a] - 1

\* A header is written: the function gets one argument, or one more.
Only(a, v) == [x \in {a} |-> v]
With(f, a, v) == [x \in DOMAIN f \union {a} |-> IF x = a THEN v ELSE f[x]]

UnitsOf(S) == UNION {f * UNITS .. f * UNITS + UNITS - 1 : f \in S}

Init ==
  /\ frame_bitmap = Used
  /\ used_frame_count = Cardinality(Used)
  /\ next = Only(BASE, NULL)
  /\ units = Only(BASE, 0)
  /\ freep = NULL
  /\ call = Idle
  /\ held = << >>
  /\ core = {}

-----------------------------------------------------------------------------
(* kmalloc                                                                 *)

\* The list is the list head alone.  kmain calls this before anyone uses the
\* heap.
kheap_init ==
  /\ call = Idle
  /\ freep = NULL
  /\ next' = Only(BASE, BASE)
  /\ freep' = BASE
  /\ UNCHANGED <<pfaVars, units, call, held, core>>

\* The list a call starts with: without kmain's call, the first one runs
\* kheap_init itself.
StartOfList == IF freep = NULL THEN BASE ELSE freep
ListAtStart == IF freep = NULL THEN Only(BASE, BASE) ELSE next

\* Faulty variant: the last partial unit is forgotten.
UnitsForFaulty(bytes) == bytes \div HEADER + 1

\* The sum wraps for the requests of the last units of the address space.
UnitsFor(bytes) == ((bytes + HEADER - 1) % ADDRESSES) \div HEADER + 1

\* kmalloc(0) returns NULL at once.
kmalloc(bytes) ==
  /\ call = Idle
  /\ Cardinality(DOMAIN held) < MaxHeld
  /\ bytes > 0
  /\ next' = ListAtStart
  /\ freep' = StartOfList
  /\ call' = [Idle EXCEPT !.at = "scan", !.asked = bytes,
                !.want = UnitsFor(bytes),
                !.prev = StartOfList, !.curr = ListAtStart[StartOfList]]
  /\ UNCHANGED <<pfaVars, units, held, core>>

\* The block that fits exactly leaves the list.
Unlink ==
  /\ next' = [a \in Free_list \ {curr} |->
                IF a = prev THEN next[curr] ELSE next[a]]
  /\ freep' = prev

TakeExact ==
  /\ call.at = "scan"
  /\ units[curr] = want
  /\ Unlink
  /\ held' = With(held, curr, call.asked)
  /\ call' = Idle
  /\ UNCHANGED <<pfaVars, units, core>>

\* A larger block is cut in two.
Split(rest) == With([units EXCEPT ![curr] = rest], curr + rest, want)

\* The larger block keeps its header and its place; its tail is handed out.
TakeTail ==
  LET rest == units[curr] - want IN
  /\ call.at = "scan"
  /\ rest > 0
  /\ units' = Split(rest)
  /\ freep' = prev
  /\ held' = With(held, curr + rest, call.asked)
  /\ call' = Idle
  /\ UNCHANGED <<pfaVars, next, core>>

TooSmall == call.at = "scan" /\ units[curr] < want

\* Faulty variant: the search ends at the list head, wherever it began.
SearchedAllFaulty == curr = BASE

SearchedAll == curr = freep

Advance ==
  /\ TooSmall /\ ~SearchedAll
  /\ call' = [call EXCEPT !.prev = curr, !.curr = next[curr]]
  /\ UNCHANGED <<pfaVars, next, units, freep, held, core>>

\* Both the bytes and the rounding up wrap; no pages are asked for then.
Pages(n) ==
  ((((n * HEADER) % ADDRESSES) + PAGE_SIZE - 1) % ADDRESSES) \div PAGE_SIZE

\* New pages become a block, which kfree_internal puts into the list; when
\* there are none, kmalloc returns NULL.
morecore ==
  /\ TooSmall /\ SearchedAll
  /\ \/ \E f \in Frames :
          /\ pfa_alloc_contiguous(f, Pages(want))
          /\ core' = core \union Run(f, Pages(want))
          /\ units' = With(units, f * UNITS, Pages(want) * UNITS)
          /\ call' = [call EXCEPT !.at = "place", !.block = f * UNITS,
                        !.curr = freep]
     \/ NoRunFree(Pages(want)) /\ call' = Idle /\ UNCHANGED <<units, core>>
  /\ UNCHANGED <<next, freep, held>>

-----------------------------------------------------------------------------
(* kfree                                                                   *)

\* kfree(NULL) returns at once; a client frees only what it holds, once.
kfree(a) ==
  /\ call = Idle
  /\ held' = [b \in DOMAIN held \ {a} |-> held[b]]
  /\ next' = ListAtStart
  /\ freep' = StartOfList
  /\ call' = [Idle EXCEPT !.at = "place", !.block = a, !.curr = StartOfList]
  /\ UNCHANGED <<pfaVars, units, core>>

\* Faulty variant: the test for the lowest block is missing.
BelongsNoLowest(b, c) == b > c /\ (b < next[c] \/ c >= next[c])

\* b belongs behind c: between c and its successor, or at one of the ends of
\* memory when c is the last block of the list.
Belongs(b, c) ==
  \/ b > c /\ b < next[c]
  \/ c >= next[c] /\ (b > c \/ b < next[c])

Walk ==
  /\ call.at = "place"
  /\ ~Belongs(block, curr)
  /\ call' = [call EXCEPT !.curr = next[curr]]
  /\ UNCHANGED <<pfaVars, next, units, freep, held, core>>

\* Faulty variant: a block is never joined to the one below.
JoinsBelowFaulty == FALSE

JoinsAbove == block + units[block] = next[curr]
JoinsBelow == curr + units[curr] = block

\* Faulty variant: the header above is unlinked, its units are forgotten.
SizeAfterFaulty == units[block]

\* The block's fields after it is joined to the block above.
SizeAfter == units[block] + (IF JoinsAbove THEN units[next[curr]] ELSE 0)
NextAfter == IF JoinsAbove THEN next[next[curr]] ELSE next[curr]

\* The headers that end up inside a larger block.
Swallowed == {a \in {next[curr]} : JoinsAbove} \union {a \in {block} : JoinsBelow}

Placed ==
  [a \in (Free_list \union {block}) \ Swallowed |->
     CASE a = curr  -> IF JoinsBelow THEN NextAfter ELSE block
       [] a = block -> NextAfter
       [] OTHER     -> next[a]]

PlacedUnits ==
  [a \in DOMAIN units \ Swallowed |->
     CASE a = curr  -> IF JoinsBelow THEN units[a] + SizeAfter ELSE units[a]
       [] a = block -> SizeAfter
       [] OTHER     -> units[a]]

\* The block enters the list behind curr, where the next search will start;
\* inside of kmalloc that search goes on.
Place ==
  /\ call.at = "place"
  /\ Belongs(block, curr)
  /\ next' = Placed
  /\ units' = PlacedUnits
  /\ freep' = curr
  /\ call' = IF want = 0 THEN Idle
             ELSE [call EXCEPT !.at = "scan", !.block = NULL,
                     !.prev = curr, !.curr = Placed[curr]]
  /\ UNCHANGED <<pfaVars, held, core>>

-----------------------------------------------------------------------------
\* Between the calls another client takes a page, or gives one back.
OtherClient ==
  /\ call = Idle
  /\ \E f \in Frames :
       \/ pfa_alloc(f)
       \/ f \in frame_bitmap \ (Used \union core) /\ pfa_free(f)
  /\ UNCHANGED <<next, units, freep, call, held, core>>

Step == TakeExact \/ TakeTail \/ Advance \/ morecore \/ Walk \/ Place

Next ==
  \/ kheap_init
  \/ \E bytes \in Requests : kmalloc(bytes)
  \/ \E a \in DOMAIN held : kfree(a)
  \/ Step
  \/ OtherClient

Spec == Init /\ [][Next]_vars

\* A call that has begun runs to its end: nothing blocks in it.
FairSpec == Spec /\ WF_vars(Step)

-----------------------------------------------------------------------------
\* No unit belongs to two blocks, whatever was split, joined or handed out,
\* and every block lies in pages the heap took.
NoOverlap ==
  /\ \A a, b \in DOMAIN units \ {BASE} :
       a # b => Extent(a) \intersect Extent(b) = {}
  /\ \A a \in DOMAIN units : Extent(a) \subseteq UnitsOf(core)
  /\ core \subseteq frame_bitmap

\* Every unit of every page the heap took is in a block of the free list, in
\* one a client holds, or in the one being placed.
NoUnitLost ==
  UnitsOf(core) =
    (UNION {Extent(a) : a \in Free_list \union DOMAIN held})
      \union (IF call.at = "place" THEN Extent(block) ELSE {})

\* The pages the heap took are divided among its blocks without overlap and
\* without loss, in the middle of every call of kmalloc and kfree_internal.
Partition == NoOverlap /\ NoUnitLost

\* The free list is one cycle in address order through the list head: from
\* every block the link leads to the nearest block above it, and from the
\* highest to the lowest.
Ordered ==
  freep # NULL =>
    /\ freep \in Free_list
    /\ \A a \in Free_list :
         /\ next[a] \in Free_list
         /\ \A b \in Free_list :
              IF next[a] > a THEN b <= a \/ next[a] <= b
              ELSE next[a] <= b /\ b <= a

\* Two free blocks never touch: a request fails for want of memory and not
\* because free memory is in pieces.
Coalesced ==
  \A a, b \in Free_list \ {BASE} : a + units[a] # b

\* The free list stays one ordered cycle of blocks with gaps between them,
\* whatever the order of the frees: kfree_internal's walk and kmalloc's
\* search rest on it, and both start wherever the last call left freep.
FreeListOK == Ordered /\ Coalesced

\* The sum of kmalloc's rounding wraps for these requests.
Wrapping == {n \in Requests : n + HEADER - 1 >= ADDRESSES}

\* Every call of kmalloc and of kfree returns.
CallReturns == call # Idle ~> call = Idle

Fitting == {a \in Free_list : units[a] >= want}

\* kmalloc takes new pages, or gives up, only when no block of the free list
\* is large enough: its search misses none, wherever it begins.
SearchComplete ==
  [][call.at = "scan" /\ (core' # core \/ (call' = Idle /\ held' = held)) =>
       Fitting = {}]_vars

\* How far behind freep an address is, going up and round: the walk of
\* kfree_internal begins at freep, and the search of kmalloc ends there.
TOP == MAX_FRAMES * UNITS
Walked(p, a)   == IF a >= p THEN a - p ELSE TOP + a - p
Searched(p, a) == IF a > p THEN a - p ELSE TOP + a - p

\* What is left of a call: a search that will fail, a walk for the new
\* pages, a search that will succeed; and the rest of the turn.
Phase == CASE call.at = "place" -> 1
           [] call.at = "scan"  -> IF Fitting = {} THEN 2 ELSE 0
           [] OTHER             -> 0

Left == Phase * (TOP + 1) + TOP -
          (IF call.at = "scan" THEN Searched(freep, curr) ELSE Walked(freep, curr))

\* Every iteration of a call's loops brings its end nearer: no search and no
\* walk goes round the free list twice, and kmalloc calls morecore once,
\* since the search behind it finds the new pages.
CallProgress ==
  [][call # Idle /\ call' # Idle => 0 <= Left' /\ Left' < Left]_vars

HeapBlocks ==
  {[start |-> a, units |-> units[a], bytes |-> held[a]] : a \in DOMAIN held}

Promise == INSTANCE Heap WITH
  Memory <- UnitsOf(Frames \ Used), blocks <- HeapBlocks, Exempt <- Wrapping

\* The heap keeps the promises of Heap, but for the requests whose rounding
\* wraps: those get a block of one unit, which has no room at all.
HeapSpec == Promise!Spec
=============================================================================
