------------------------------ MODULE MemPools ------------------------------
(***************************************************************************)
(* Memory of c-icap (mem.c): ci_buffer blocks, which come from ten pools   *)
(* by size class or from malloc, and the serial and pack allocators, which *)
(* cut pieces from the front (and rear) of chunks.  Sizes are the real     *)
(* ones.  A pool's list is changed under its mutex, so every call is one   *)
(* step.  The statistics of the pools are left out.                        *)
(***************************************************************************)
EXTENDS Integers, Sequences, FiniteSets

CONSTANTS
  BufSizes,       \* sizes that buffers are asked for
  MaxBlocks,      \* bound on the blocks that exist
  SerialSizes,    \* sizes that serial allocators are created with
  PieceSizes,     \* sizes of the pieces asked for
  PackSize,       \* size of the memory of a pack allocator
  MaxPieces,      \* bound on the pieces of an allocator
  SerialHeader,   \* sizeof(serial_allocator_t)
  AllocatorSize   \* sizeof(ci_mem_allocator_t)

ASSUME MemPoolsAssumption ==
  /\ BufSizes \subseteq Nat \ {0} /\ PieceSizes \subseteq Nat \ {0} /\ SerialSizes \subseteq Nat
  /\ MaxBlocks \in Nat /\ PackSize \in Nat /\ MaxPieces \in Nat
  /\ SerialHeader \in 1..63 /\ AllocatorSize \in Nat   \* smaller than the smallest buffer

VARIABLES
  block,          \* the blocks: physical size, from malloc or pool, ID, where
  freeList,       \* the free blocks of each pool, the last freed one first
  shrunk,         \* realloc has left a block of malloc with a pool's ID
  trampled,       \* a pool's header was written in front of a block of malloc
  serial,         \* a serial allocator: its chunks
  pieces,         \* the pieces it has given out since its last reset
  asked,          \* the request it is working on, 0 for none
  pack,           \* a pack allocator: [curpos, endpos, end]
  packed          \* the pieces it has given out since its last reset

bufVars == <<block, freeList, shrunk, trampled>>
mpVars == <<bufVars, serial, pieces, asked, pack, packed>>

(***************************************************************************)
(* Buffers                                                                 *)
(***************************************************************************)
short_buffer_sizes ==
  [i \in 0..15 |-> CASE i = 0 -> 64 [] i = 1 -> 128 [] i \in 2..3 -> 256 [] i \in 4..7 -> 512 [] OTHER -> 1024]
long_buffer_sizes == [i \in 0..15 |-> 32 * short_buffer_sizes[i]]
Classes == {short_buffer_sizes[i] : i \in 0..15} \union {long_buffer_sizes[i] : i \in 0..15}

(* The pool for a size, or 0 for malloc.                                   *)
BufType(n) == (n - 1) \div 64

(* Mutant: the long sizes are found with a shift by one too many.          *)
PoolOf_Shift(n) ==
  IF BufType(n) < 16 THEN short_buffer_sizes[BufType(n)]
  ELSE IF BufType(n) < 512 THEN long_buffer_sizes[BufType(n) \div 64]
  ELSE 0

PoolOf(n) ==
  IF BufType(n) < 16 THEN short_buffer_sizes[BufType(n)]
  ELSE IF BufType(n) < 512 THEN long_buffer_sizes[BufType(n) \div 32]
  ELSE 0

ci_buffer_real_size(n) == IF PoolOf(n) = 0 THEN n ELSE PoolOf(n)

Blocks == 1..MaxBlocks
NoBlock == [at |-> "none"]
Existing == {b \in Blocks : block[b].at # "none"}
NewBlock == {b \in Blocks : block[b].at = "none" /\ \A c \in 1..(b - 1) : block[c].at # "none"}

(* ci_buffer_alloc2 gives b a block for n bytes, from the front of the     *)
(* pool's list, or newly allocated; its ID is the size asked for or, when  *)
(* the caller wants to know the real size, that.                           *)
Gives(b, n, want, bl, fl) ==
  LET c == PoolOf(n)
      id == IF want THEN ci_buffer_real_size(n) ELSE n
  IN  IF c # 0 /\ fl[c] # <<>>
      THEN /\ b = Head(fl[c])
           /\ block' = [bl EXCEPT ![b].at = "user", ![b].ID = id]
           /\ freeList' = [fl EXCEPT ![c] = Tail(@)]
      ELSE /\ b \in NewBlock
           /\ block' = [bl EXCEPT ![b] = [at |-> "user", phys |-> ci_buffer_real_size(n), heap |-> c = 0, ID |-> id]]
           /\ freeList' = fl

ci_buffer_alloc2(b, n, want) ==
  /\ Gives(b, n, want, block, freeList)
  /\ UNCHANGED <<shrunk, trampled, serial, pieces, asked, pack, packed>>

(* ci_buffer_free gives a block to the pool that its ID says.  The header  *)
(* that pool_allocator_free writes in front of it is there in a block that *)
(* a pool has allocated; in front of a block of malloc it is somebody      *)
(* else's memory.                                                          *)
Freed(b) == IF PoolOf(block[b].ID) = 0 THEN [block EXCEPT ![b] = NoBlock] ELSE [block EXCEPT ![b].at = "pool"]
FreedTo(b) ==
  IF PoolOf(block[b].ID) = 0 THEN freeList
  ELSE [freeList EXCEPT ![PoolOf(block[b].ID)] = <<b>> \o @]
Tramples(b) == block[b].heap /\ PoolOf(block[b].ID) # 0

ci_buffer_free(b) ==
  /\ block[b].at = "user"
  /\ block' = Freed(b)
  /\ freeList' = FreedTo(b)
  /\ trampled' = (trampled \/ Tramples(b))
  /\ UNCHANGED <<shrunk, serial, pieces, asked, pack, packed>>

(* ci_buffer_realloc2: a block that is large enough only gets another ID;  *)
(* otherwise a new one is allocated and the old one freed (to another      *)
(* pool, so that the order does not show).                                 *)
Resized(b, n, want) == [block EXCEPT ![b].ID = IF want THEN ci_buffer_real_size(@) ELSE n]

ReallocInPlace(b, n, want) ==
  /\ block[b].at = "user"
  /\ n <= ci_buffer_real_size(block[b].ID)
  /\ block' = Resized(b, n, want)
  /\ shrunk' = (shrunk \/ (block[b].heap /\ PoolOf(Resized(b, n, want)[b].ID) # 0))
  /\ UNCHANGED <<freeList, trampled, serial, pieces, asked, pack, packed>>

ReallocMoves(b, d, n, want) ==
  /\ block[b].at = "user" /\ b # d
  /\ n > ci_buffer_real_size(block[b].ID)
  /\ Gives(d, n, want, Freed(b), FreedTo(b))
  /\ trampled' = (trampled \/ Tramples(b))
  /\ UNCHANGED <<shrunk, serial, pieces, asked, pack, packed>>

(* pool_allocator_reset of all pools.                                      *)
ci_buffers_destroy ==
  /\ block' = [b \in Blocks |-> IF block[b].at = "pool" THEN NoBlock ELSE block[b]]
  /\ freeList' = [c \in Classes |-> <<>>]
  /\ UNCHANGED <<shrunk, trampled, serial, pieces, asked, pack, packed>>

(***************************************************************************)
(* The serial allocator                                                    *)
(***************************************************************************)
Aligned(n) == ((n + 7) \div 8) * 8

(* serial_allocator_build: the chunk has the real size of its buffer, and  *)
(* is not built if it cannot hold the allocator's structures.              *)
Builds(size) == Aligned(size) >= SerialHeader + AllocatorSize
Chunk(size) == [cap |-> ci_buffer_real_size(Aligned(size)) - SerialHeader, pos |-> 0]

(* ci_create_serial_allocator: its own structure is the first piece.       *)
FirstChunk(size) == [Chunk(size) EXCEPT !.pos = Aligned(AllocatorSize)]

CreateSerial(size) ==
  /\ serial = <<>> /\ Builds(size)
  /\ Aligned(AllocatorSize) <= Chunk(size).cap
  /\ serial' = <<FirstChunk(size)>>
  /\ UNCHANGED <<bufVars, pieces, asked, pack, packed>>

(* serial_allocation: the first chunk, from the first one on, with room    *)
(* for the piece; if there is none, a new one in a buffer as large as the  *)
(* first chunk (not as its buffer: a block of malloc comes out smaller).   *)
AskSerial(n) ==
  /\ serial # <<>> /\ asked = 0 /\ Cardinality(pieces) < MaxPieces
  /\ Aligned(n) <= serial[1].cap
  /\ asked' = Aligned(n)
  /\ UNCHANGED <<bufVars, serial, pieces, pack, packed>>

Fits(i) == asked <= serial[i].cap - serial[i].pos

SerialGives ==
  /\ asked # 0
  /\ \E i \in DOMAIN serial :
       /\ Fits(i) /\ \A j \in 1..(i - 1) : ~Fits(j)
       /\ pieces' = pieces \union {[chunk |-> i, from |-> serial[i].pos, to |-> serial[i].pos + asked]}
       /\ serial' = [serial EXCEPT ![i].pos = @ + asked]
  /\ asked' = 0
  /\ UNCHANGED <<bufVars, pack, packed>>

SerialGrows ==
  /\ asked # 0 /\ Len(serial) <= MaxPieces + 1
  /\ \A i \in DOMAIN serial : ~Fits(i)
  /\ IF Builds(serial[1].cap)
     THEN serial' = Append(serial, Chunk(serial[1].cap)) /\ UNCHANGED asked
     ELSE asked' = 0 /\ UNCHANGED serial    \* the request fails
  /\ UNCHANGED <<bufVars, pieces, pack, packed>>

serial_allocator_reset ==
  /\ serial # <<>> /\ asked = 0
  /\ serial' = <<[serial[1] EXCEPT !.pos = Aligned(AllocatorSize)]>>
  /\ pieces' = {}
  /\ UNCHANGED <<bufVars, asked, pack, packed>>

serial_allocator_destroy ==
  /\ serial # <<>> /\ asked = 0
  /\ serial' = <<>> /\ pieces' = {}
  /\ UNCHANGED <<bufVars, asked, pack, packed>>

(***************************************************************************)
(* The pack allocator, whose end is aligned when it is created.            *)
(***************************************************************************)
NewPack == LET end == (PackSize \div 8) * 8 IN [curpos |-> 0, endpos |-> end, end |-> end]

PackRoom == pack.endpos - pack.curpos
PackLen(n, align) == IF align THEN Aligned(n) ELSE n

ci_pack_allocator_alloc(n, align) ==
  LET len == PackLen(n, align)
  IN  /\ Cardinality(packed) < MaxPieces /\ len <= PackRoom
      /\ pack' = [pack EXCEPT !.curpos = @ + len]
      /\ packed' = packed \union {[from |-> pack.curpos, to |-> pack.curpos + len]}
      /\ UNCHANGED <<bufVars, serial, pieces, asked>>

ci_pack_allocator_alloc_from_rear(n, align) ==
  LET len == PackLen(n, align)
  IN  /\ Cardinality(packed) < MaxPieces /\ len <= PackRoom
      /\ pack' = [pack EXCEPT !.endpos = @ - len]
      /\ packed' = packed \union {[from |-> pack.endpos - len, to |-> pack.endpos]}
      /\ UNCHANGED <<bufVars, serial, pieces, asked>>

ci_pack_allocator_reset ==
  /\ pack' = NewPack /\ packed' = {}
  /\ UNCHANGED <<bufVars, serial, pieces, asked>>

(* ci_pack_allocator_set_start_pos and ci_pack_allocator_set_end_pos give  *)
(* the last piece at the front or at the rear back.                        *)
ci_pack_allocator_set_pos(x) ==
  /\ x \in packed /\ (x.to = pack.curpos \/ x.from = pack.endpos)
  /\ pack' = IF x.to = pack.curpos /\ x.from < x.to
             THEN [pack EXCEPT !.curpos = x.from] ELSE [pack EXCEPT !.endpos = x.to]
  /\ packed' = packed \ {x}
  /\ UNCHANGED <<bufVars, serial, pieces, asked>>

MemPoolsInit ==
  /\ block = [b \in Blocks |-> NoBlock]
  /\ freeList = [c \in Classes |-> <<>>]
  /\ shrunk = FALSE /\ trampled = FALSE
  /\ serial = <<>> /\ pieces = {} /\ asked = 0
  /\ pack = NewPack /\ packed = {}

BuffersNext ==
  \/ \E b \in Blocks, n \in BufSizes, want \in BOOLEAN :
       \/ ci_buffer_alloc2(b, n, want) \/ ReallocInPlace(b, n, want)
       \/ \E d \in Blocks : ReallocMoves(b, d, n, want)
  \/ \E b \in Blocks : ci_buffer_free(b)
  \/ ci_buffers_destroy

SerialNext ==
  \/ \E n \in SerialSizes : CreateSerial(n)
  \/ \E n \in PieceSizes : AskSerial(n)
  \/ SerialGives \/ SerialGrows \/ serial_allocator_reset \/ serial_allocator_destroy

PackNext ==
  \/ \E n \in PieceSizes, align \in BOOLEAN :
       ci_pack_allocator_alloc(n, align) \/ ci_pack_allocator_alloc_from_rear(n, align)
  \/ \E x \in packed : ci_pack_allocator_set_pos(x)
  \/ ci_pack_allocator_reset

MemPoolsSpec == MemPoolsInit /\ [][BuffersNext \/ SerialNext \/ PackNext]_mpVars

(***************************************************************************)
(* Properties                                                              *)
(***************************************************************************)
(* Every buffer in use is as large as it was asked to be and as realloc    *)
(* takes it to be; every block in the list of a pool has a pool's header,  *)
(* is large enough for any request to that pool and in that list only      *)
(* once, although shrinking a buffer changes the pool it will be given     *)
(* back to; and a block with such a header is never handed to free()       *)
(* (ci_buffer_alloc2, ci_buffer_realloc2, ci_buffer_free).  Exception:     *)
(* realloc also changes the ID of a block of malloc (mem.c:329) and free   *)
(* then takes it for a pool's (mem.c:355, :968); the memory in front of it *)
(* is overwritten and nothing is said from there on.  That is the only way *)
(* to get there.                                                           *)
BlocksFit ==
  /\ trampled => shrunk
  /\ \/ trampled
     \/ /\ \A b \in Existing : block[b].at = "user" =>
             /\ block[b].phys >= ci_buffer_real_size(block[b].ID) /\ block[b].phys >= block[b].ID
             /\ ~block[b].heap => PoolOf(block[b].ID) # 0
        /\ \A c \in Classes : \A i \in DOMAIN freeList[c] :
             /\ block[freeList[c][i]].at = "pool" /\ block[freeList[c][i]].phys >= c
             /\ ~block[freeList[c][i]].heap
             /\ \A d \in Classes : \A j \in DOMAIN freeList[d] :
                  freeList[c][i] = freeList[d][j] => c = d /\ i = j

(* The loop of serial_allocation has no end: the request fits into the     *)
(* first chunk only when that is empty, and no further one is as large.    *)
AsksForEver == asked > serial[1].cap - serial[1].pos /\ asked > Chunk(serial[1].cap).cap

(* No two pieces of a serial or a pack allocator overlap, every piece lies *)
(* in its chunk and none on the allocator's own structure, and a serial    *)
(* allocator adds at most one chunk for each request, so that the loop of  *)
(* serial_allocation ends (serial_allocation,                              *)
(* ci_pack_allocator_alloc_unaligned, ci_pack_allocator_alloc_from_rear2). *)
(* Exception: the loop that adds chunks for ever, which only allocators    *)
(* whose first chunk is a block of malloc, of more than 32 KB, can enter   *)
(* (as the one of cfg_lib.c:41 is).                                        *)
PiecesDisjoint ==
  /\ \A x \in pieces : /\ x.to <= serial[x.chunk].cap
                       /\ x.chunk = 1 => x.from >= Aligned(AllocatorSize)
  /\ \A x, y \in pieces : x = y \/ x.chunk # y.chunk \/ x.to <= y.from \/ y.to <= x.from
  /\ \/ Len(serial) <= 1 + Cardinality(pieces) + (IF asked # 0 THEN 1 ELSE 0)
     \/ AsksForEver /\ serial[1].cap + SerialHeader > 32768
  /\ \A x \in packed : 0 <= x.from /\ x.to <= pack.end
  /\ \A x, y \in packed : x = y \/ x.to <= y.from \/ y.to <= x.from

(* Whoever has been given memory has as much as was asked for and shares   *)
(* it with nobody, and who asks for memory gets an answer: BlocksFit for   *)
(* buffers, PiecesDisjoint for the pieces of allocators, with the one      *)
(* exception that each of them names.                                      *)
MemoryIsOwn == BlocksFit /\ PiecesDisjoint
=============================================================================
