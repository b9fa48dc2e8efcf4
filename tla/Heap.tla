-------------------------------- MODULE Heap --------------------------------
(***************************************************************************)
(* What a heap promises its clients, whatever its free list looks like:    *)
(* a block handed out has room for what was asked, lies in memory the heap *)
(* may use, overlaps no block a client holds, and stays where it is until  *)
(* its holder frees it.  A call may fail.                                  *)
(***************************************************************************)
EXTENDS Integers

CONSTANTS Memory,    \* the addresses a block may cover, in units
          HEADER,    \* bytes of a unit; a block spends one unit on its header
          Requests,  \* the byte counts clients ask for
          Exempt     \* the requests for which the block may be too small

VARIABLE blocks      \* the blocks clients hold

Extent(b) == b.start .. b.start + b.units - 1

Disjoint(b, c) == Extent(b) \intersect Extent(c) = {}

HasRoom(b) == (b.units - 1) * HEADER >= b.bytes \/ b.bytes \in Exempt

Init == blocks = {}

Malloc(b) ==
  /\ Extent(b) \subseteq Memory
  /\ HasRoom(b)
  /\ \A c \in blocks : Disjoint(b, c)
  /\ blocks' = blocks \union {b}

Free(b) == blocks' = blocks \ {b}

Next ==
  \/ \E b \in blocks : Free(b)
  \/ \E b \in blocks' \ blocks : Malloc(b)

Spec == Init /\ [][Next]_blocks
=============================================================================
