------------------------------- MODULE MCPfa --------------------------------
(* Constants of the bounded instance of PfaSystem: sixteen frames of four    *)
(* bytes, and boot reports whose ranges begin and end inside frames.         *)
EXTENDS PfaSystem

Range(a, b) == [start |-> a, end |-> b]

Region(a, n, t) == [addr |-> a, len |-> n, type |-> t]

Report(mmap_valid, mmap, mem_valid, mem_upper, kernel, module) ==
  [mmap_valid |-> mmap_valid, mmap |-> mmap, mem_valid |-> mem_valid,
   mem_upper |-> mem_upper, kernel |-> kernel, info |-> Range(6, 7),
   table |-> Range(53, 55), module |-> module]

\* One region of every start and length that matters: empty, inside one
\* frame, across frames, up to the last address, past it, above it.
OneRegion ==
  {Report(TRUE, {Region(a, n, 1)}, TRUE, 8, Range(8, 11), Range(22, 27)) :
     a \in {0, 3, 12, 60, 64}, n \in {0, 1, 7, 23, 52, 60, 80}}

\* Several regions, a reserved one among them; a module in a free run or
\* empty inside a frame; and reports without a map, and without anything.
Others ==
  {Report(TRUE, {Region(1, 11, 1), Region(12, 3, 2), Region(15, 45, 1)},
          TRUE, 8, k, m) :
     k \in {Range(8, 12), Range(9, 13)}, m \in {Range(17, 18), Range(20, 28), Range(25, 25)}}
  \union
  {Report(FALSE, {}, v, 49, Range(8, 11), Range(22, 27)) : v \in BOOLEAN}

MCBootInfos == OneRegion \union Others
=============================================================================
