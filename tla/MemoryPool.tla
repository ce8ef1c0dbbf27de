----------------------------- MODULE MemoryPool -----------------------------
(***************************************************************************)
(* examples/cvaccel/src/memory_pool.cpp: first-fit allocation of aligned   *)
(* blocks in one pool.  The operators take the allocated blocks as a set;  *)
(* the code keeps the same blocks in a vector ordered by offset.           *)
(***************************************************************************)
EXTENDS Integers

CONSTANTS
  PoolBytes,  \* kPoolBytes
  Align       \* kMemAlign

ASSUME PoolAssumption ==
  /\ PoolBytes \in Nat
  /\ Align \in Nat \ {0}

\* A MemBlock.  `reserved` is `bytes` rounded up to the alignment.
Blocks(Session) ==
  [handle : Nat \ {0}, owner : Session, offset : Nat, bytes : Nat \ {0}, reserved : Nat]

End(b) == b.offset + b.reserved

\* Mutant: the size is not rounded up.
AlignUp_Exact(bytes) == bytes
AlignUp(bytes) == ((bytes + Align - 1) \div Align) * Align

\* The room [at, at + size) lies in the pool and touches no block.
IsFree(blocks, at, size) ==
  /\ at + size <= PoolBytes
  /\ \A b \in blocks : at + size <= b.offset \/ End(b) <= at

\* The places the scan's cursor stops at.
Cursors(blocks) == {0} \cup {End(b) : b \in blocks}

\* The places a block may be put: the first of them in the pool (first fit).
FirstFit(blocks, size) ==
  {at \in Cursors(blocks) :
     /\ IsFree(blocks, at, size)
     /\ \A other \in Cursors(blocks) : IsFree(blocks, other, size) => at <= other}

\* allocate returns OK and not INVALID_ARG or NO_MEMORY.
Allocates(blocks, bytes) ==
  bytes > 0 /\ bytes <= PoolBytes /\ FirstFit(blocks, AlignUp(bytes)) # {}

NewBlock(owner, bytes, handle, at) ==
  [handle |-> handle, owner |-> owner, offset |-> at, bytes |-> bytes,
   reserved |-> AlignUp(bytes)]

Allocated(blocks, owner, bytes, handle) ==
  blocks \cup {NewBlock(owner, bytes, handle, at) : at \in FirstFit(blocks, AlignUp(bytes))}

\* release returns OK: the handle is known and the caller owns it.
Releases(blocks, handle, owner) ==
  \E b \in blocks : b.handle = handle /\ b.owner = owner

Released(blocks, handle) == {b \in blocks : b.handle # handle}

\* releaseAll, for each of the owners.
ReleasedAll(blocks, owners) == {b \in blocks : b.owner \notin owners}

\* find: the block of the handle, as a set with at most one element.
Find(blocks, handle) == {b \in blocks : b.handle = handle}

-----------------------------------------------------------------------------
Apart(a, b) == End(a) <= b.offset \/ End(b) <= a.offset

\* Every block lies in the pool, is aligned and holds what was asked for; no two
\* overlap, and a handle names one block.
WellFormed(blocks) ==
  /\ \A b \in blocks : /\ End(b) <= PoolBytes
                       /\ b.offset % Align = 0
                       /\ b.bytes <= b.reserved /\ b.reserved % Align = 0
  /\ \A a, b \in blocks : a # b => Apart(a, b) /\ a.handle # b.handle
=============================================================================
