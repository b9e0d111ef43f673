------------------------------ MODULE HeapSafe ------------------------------
(***************************************************************************)
(* Heap where no 32-bit sum wraps, and the invariant that makes it correct *)
(* there.  The assumption is about the program compiled: its memory plus   *)
(* its largest type or frame stays below 4 GB.  The default, 64 KB, does;  *)
(* {$MEMORY} accepts up to 65536 pages, with which a program can break it. *)
(***************************************************************************)
EXTENDS Heap

ASSUME NoWrap == \A n \in Sizes \cup FrameSizes : MemoryTop + n + 15 < Word
ASSUME MemoryFits == MemoryTop < Word

(* The order of the addresses: data, heap, stack, and the entry $sp of each *)
(* active call above that of the calls it made.                             *)
AddressOrder ==
  /\ DataEnd <= heapEnd /\ heapEnd <= sp /\ sp <= MemoryTop
  /\ \A i \in 1 .. Len(frames) :
       /\ sp <= frames[i] /\ frames[i] <= MemoryTop
       /\ \A j \in i .. Len(frames) : frames[j] <= frames[i]

(* A block in use is a carved block that holds what was asked for. *)
LiveBlocksFit ==
  \A a \in DOMAIN live : /\ BlockOf(a) \in Blocks
                         /\ live[a] + 8 <= hdr[BlockOf(a)].size

(* Every block has room for its header. *)
BlocksNotEmpty == \A b \in Blocks : 8 < hdr[b].size

(* The walk stands at some element i of the free list, or past its end,     *)
(* with prev one behind, and everything before i is too small.              *)
WalkPosition ==
  pc = "walk" =>
    /\ target \in Ptrs /\ size \in Sizes
    /\ \E i \in 1 .. Len(free) + 1 :
         /\ cur = IF i = Len(free) + 1 THEN 0 ELSE free[i]
         /\ prev = IF i = 1 THEN 0 ELSE free[i - 1]
         /\ \A j \in 1 .. i - 1 : hdr[free[j]].size < total

(* What links and block headers look like, and which block is whose. *)
HeapStructure ==
  /\ BlocksTileHeap
  /\ BlocksNotEmpty
  /\ BlocksAccounted
  /\ LiveBlocksFit
  /\ FreeListIntact

IInv == TypeOK /\ AddressOrder /\ HeapStructure /\ WalkPosition
=============================================================================
