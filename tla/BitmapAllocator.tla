--------------------------- MODULE BitmapAllocator ---------------------------
(***************************************************************************)
(* The block allocator of one extent server: Chunk and BitmapAllocator     *)
(* (extentserver/bitmap_allocator.{h,cpp}) behind SpaceAlloc               *)
(* (extentserver/space_alloc.{h,cpp}).                                     *)
(*                                                                         *)
(* A device of Capacity bytes is cut into blocks of BlockSize bytes and    *)
(* the blocks into chunks of at most MaxBlocksPerChunk.  A chunk keeps a   *)
(* bitmap, a counter of free blocks and last_free_bit, the place where the *)
(* next search starts.  Every operation on one chunk runs under the        *)
(* chunk's mutex and is one atomic operator here; a search that visits     *)
(* several chunks is not atomic and is stepped by the modules that use     *)
(* these operators.                                                        *)
(*                                                                         *)
(* The module has no variables: data_ is the set of the indexes of the set *)
(* bits; the uint64_t words that hold them are left out.                   *)
(***************************************************************************)
EXTENDS Integers, FiniteSets

CONSTANTS
  BlockSize,          \* bytes per block (kAllocateBlockSize)
  Capacity,           \* bytes of the device
  MaxBlocksPerChunk   \* kMaxBlocksPerChunk

(* What BitmapAllocator::Init demands of its arguments, alignment aside.   *)
ASSUME AllocatorAssumption ==
  /\ BlockSize \in Nat \ {0}
  /\ Capacity \in Nat
  /\ BlockSize <= Capacity
  /\ MaxBlocksPerChunk \in Nat \ {0}

NumBlocks == Capacity \div BlockSize

NumChunks == (NumBlocks + MaxBlocksPerChunk - 1) \div MaxBlocksPerChunk

ChunkIds == 0 .. (NumChunks - 1)

-----------------------------------------------------------------------------
(* One chunk.                                                              *)

(* The i-th chunk gets MaxBlocksPerChunk blocks, or the rest.              *)
BlocksOfChunk(i) ==
  LET rest == NumBlocks - i * MaxBlocksPerChunk
  IN  IF rest > MaxBlocksPerChunk THEN MaxBlocksPerChunk ELSE rest

NewChunk(i) ==
  [num_blocks      |-> BlocksOfChunk(i),
   num_free_blocks |-> BlocksOfChunk(i),
   last_free_bit   |-> 0,
   data            |-> {}]

Chunk == [num_blocks      : Nat,
          num_free_blocks : Int,
          last_free_bit   : Nat,
          data            : SUBSET Nat]

(* The bits begin .. end-1 of a chunk are set, whether or not they were.   *)
setBlock(c, begin, end) ==
  [c EXCEPT !.data            = @ \cup (begin .. (end - 1)),
            !.num_free_blocks = @ - (end - begin),
            !.last_free_bit   = end]

(* Mutant of unsetBlock: the search start is left alone.                   *)
unsetBlockKeepsStart(c, begin, end) ==
  [c EXCEPT !.data            = @ \ (begin .. (end - 1)),
            !.num_free_blocks = @ + (end - begin)]

unsetBlock(c, begin, end) ==
  [c EXCEPT !.data            = @ \ (begin .. (end - 1)),
            !.num_free_blocks = @ + (end - begin),
            !.last_free_bit   = IF begin < @ THEN begin ELSE @]

(* The places Chunk::Allocate would accept.  The search starts at          *)
(* last_free_bit and, when it meets a set bit, moves on by num_blocks, not *)
(* by one: only every num_blocks-th place is looked at.                    *)
Places(c, num_blocks) ==
  {begin \in c.last_free_bit .. (c.num_blocks - num_blocks) :
     /\ (begin - c.last_free_bit) % num_blocks = 0
     /\ (begin .. (begin + num_blocks - 1)) \cap c.data = {}}

(* Chunk::Allocate succeeds iff both of its checks do ...                  *)
CanAllocate(c, num_blocks) ==
  /\ c.num_free_blocks >= num_blocks
  /\ Places(c, num_blocks) # {}

(* ... and then takes the first place of the search.                       *)
Place(c, num_blocks) ==
  CHOOSE b \in Places(c, num_blocks) : \A d \in Places(c, num_blocks) : b <= d

-----------------------------------------------------------------------------
(* The allocator: chunks is a function from ChunkIds to chunks, and an     *)
(* AUnit the byte range it hands out.                                      *)

InitChunks == [i \in ChunkIds |-> NewChunk(i)]

calcBlocksBySize(size) == (size + BlockSize - 1) \div BlockSize

AUnitAt(i, begin, num_blocks) ==
  [offset |-> (i * MaxBlocksPerChunk + begin) * BlockSize,
   size   |-> num_blocks * BlockSize]

calcChunkIdxByOffset(offset) == (offset \div BlockSize) \div MaxBlocksPerChunk

(* First block of a unit within its chunk, and the block after its last.   *)
BeginOf(u) ==
  (u.offset \div BlockSize) - calcChunkIdxByOffset(u.offset) * MaxBlocksPerChunk

EndOf(u) == BeginOf(u) + (u.size \div BlockSize)

BlocksOf(u) == BeginOf(u) .. (EndOf(u) - 1)

(* The allocator after chunk i gave num_blocks blocks, and the unit given. *)
Allocate(chunks, i, num_blocks) ==
  LET b == Place(chunks[i], num_blocks)
  IN  [chunks EXCEPT ![i] = setBlock(@, b, b + num_blocks)]

Allocated(chunks, i, num_blocks) ==
  AUnitAt(i, Place(chunks[i], num_blocks), num_blocks)

Free(chunks, u) ==
  [chunks EXCEPT ![calcChunkIdxByOffset(u.offset)] =
                    unsetBlock(@, BeginOf(u), EndOf(u))]

(* Recovery: no mutex, and no test that the bits are clear.                *)
Mark(chunks, u) ==
  [chunks EXCEPT ![calcChunkIdxByOffset(u.offset)] =
                    setBlock(@, BeginOf(u), EndOf(u))]

-----------------------------------------------------------------------------
(* Vocabulary of the properties.                                           *)

(* Two byte ranges have no byte in common.                                 *)
Disjoint(u, v) == \/ u.offset + u.size <= v.offset
                  \/ v.offset + v.size <= u.offset

(* The unit's blocks are all set in its chunk.                             *)
IsSet(chunks, u) ==
  BlocksOf(u) \subseteq chunks[calcChunkIdxByOffset(u.offset)].data

(* A place of num_blocks clear bits at a multiple of num_blocks: what a    *)
(* chunk that only serves one size can still give.                         *)
FreeSlots(c, num_blocks) ==
  {b \in 0 .. (c.num_blocks - num_blocks) :
     /\ b % num_blocks = 0
     /\ (b .. (b + num_blocks - 1)) \cap c.data = {}}

=============================================================================
