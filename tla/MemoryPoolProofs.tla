-------------------------- MODULE MemoryPoolProofs --------------------------
(***************************************************************************)
(* What the allocator keeps, for every pool size and alignment.            *)
(***************************************************************************)
EXTENDS MemoryPool, TLAPS

\* Rounding up gives a multiple of the alignment that is no smaller (alignUp).
LEMMA AlignUpType ==
  ASSUME NEW n \in Nat
  PROVE  AlignUp(n) \in Nat /\ AlignUp(n) >= n /\ AlignUp(n) % Align = 0
<1>1. PICK k \in Nat : k = (n + Align - 1) \div Align
  BY PoolAssumption, Z3
<1>2. n <= k * Align
  BY <1>1, PoolAssumption, Z3
<1>3. (k * Align) % Align = 0
  BY PoolAssumption, Z3
<1> QED BY <1>1, <1>2, <1>3, PoolAssumption DEF AlignUp

\* The end of an aligned block is aligned.
LEMMA AlignedSum ==
  ASSUME NEW a \in Nat, NEW b \in Nat, a % Align = 0, b % Align = 0
  PROVE  (a + b) % Align = 0
<1> DEFINE i == a \div Align
           j == b \div Align
<1>1. i \in Int /\ j \in Int /\ a = Align * i /\ b = Align * j
  BY PoolAssumption, Z3
<1>2. a + b = (i + j) * Align /\ i + j \in Int
  <2> HIDE DEF i, j
  <2> QED BY <1>1, PoolAssumption, Z3
<1>3. \A k \in Int : (k * Align) % Align = 0
  BY PoolAssumption, Z3
<1> QED BY <1>2, <1>3

LEMMA BlockType ==
  ASSUME NEW S, NEW b \in Blocks(S)
  PROVE  /\ b.handle \in Nat \ {0} /\ b.owner \in S /\ b.offset \in Nat
         /\ b.bytes \in Nat \ {0} /\ b.reserved \in Nat
BY DEF Blocks

\* The block first fit adds has the type of a block.
LEMMA NewBlockType ==
  ASSUME NEW S, NEW owner \in S, NEW bytes \in Nat \ {0}, NEW handle \in Nat \ {0},
         NEW at \in Nat
  PROVE  /\ NewBlock(owner, bytes, handle, at) \in Blocks(S)
         /\ NewBlock(owner, bytes, handle, at).offset = at
         /\ NewBlock(owner, bytes, handle, at).bytes = bytes
         /\ NewBlock(owner, bytes, handle, at).handle = handle
         /\ NewBlock(owner, bytes, handle, at).owner = owner
         /\ NewBlock(owner, bytes, handle, at).reserved = AlignUp(bytes)
BY AlignUpType DEF NewBlock, Blocks

\* The cursor of the scan stops at aligned offsets.
LEMMA CursorAligned ==
  ASSUME NEW S, NEW B \in SUBSET Blocks(S), WellFormed(B), NEW at \in Cursors(B)
  PROVE  at \in Nat /\ at % Align = 0
<1>1. CASE at = 0
  BY <1>1, PoolAssumption
<1>2. ASSUME NEW b \in B, at = End(b)
      PROVE  at \in Nat /\ at % Align = 0
  <2>1. b.offset \in Nat /\ b.reserved \in Nat
    BY BlockType
  <2>2. b.offset % Align = 0 /\ b.reserved % Align = 0
    BY DEF WellFormed
  <2> QED BY <1>2, <2>1, <2>2, AlignedSum DEF End
<1> QED BY <1>1, <1>2 DEF Cursors

\* First fit has at most one place.
LEMMA FirstFitUnique ==
  ASSUME NEW S, NEW B \in SUBSET Blocks(S), WellFormed(B), NEW size \in Nat,
         NEW a \in FirstFit(B, size), NEW b \in FirstFit(B, size)
  PROVE  a = b
<1>1. a <= b /\ b <= a
  BY DEF FirstFit
<1>2. a \in Nat /\ b \in Nat
  BY CursorAligned DEF FirstFit
<1> QED BY <1>1, <1>2

\* allocate keeps the pool sound: the new block lies in the pool, is aligned, touches
\* no other and has a handle of its own (memory_pool.cpp:15-40).
THEOREM AllocateKeepsWellFormed ==
  ASSUME NEW S, NEW B \in SUBSET Blocks(S), WellFormed(B), NEW owner \in S,
         NEW bytes \in Nat \ {0}, NEW handle \in Nat \ {0},
         \A b \in B : b.handle # handle
  PROVE  /\ WellFormed(Allocated(B, owner, bytes, handle))
         /\ Allocated(B, owner, bytes, handle) \in SUBSET Blocks(S)
<1> DEFINE size == AlignUp(bytes)
           new(at) == NewBlock(owner, bytes, handle, at)
<1>1. size \in Nat /\ size >= bytes /\ size % Align = 0
  BY AlignUpType
<1>2. ASSUME NEW at \in FirstFit(B, size)
      PROVE  /\ at \in Nat /\ at % Align = 0 /\ at + size <= PoolBytes
             /\ \A b \in B : at + size <= b.offset \/ End(b) <= at
  BY CursorAligned DEF FirstFit, IsFree
<1>3. ASSUME NEW at \in FirstFit(B, size)
      PROVE  /\ new(at) \in Blocks(S) /\ new(at).offset = at /\ new(at).bytes = bytes
             /\ new(at).handle = handle /\ new(at).reserved = size
  <2>1. at \in Nat
    BY <1>2
  <2> QED BY <2>1, NewBlockType
<1> DEFINE All == Allocated(B, owner, bytes, handle)
<1>4. All = B \cup {new(at) : at \in FirstFit(B, size)}
  BY DEF Allocated
<1> HIDE DEF new, size, All
<1>5. All \in SUBSET Blocks(S)
  BY <1>3, <1>4
<1>6. ASSUME NEW b \in All
      PROVE  /\ End(b) <= PoolBytes /\ b.offset % Align = 0
             /\ b.bytes <= b.reserved /\ b.reserved % Align = 0
  <2>1. CASE b \in B
    BY <2>1 DEF WellFormed
  <2>2. ASSUME NEW at \in FirstFit(B, size), b = new(at)
        PROVE  /\ End(b) <= PoolBytes /\ b.offset % Align = 0
               /\ b.bytes <= b.reserved /\ b.reserved % Align = 0
    BY <1>1, <1>2, <1>3, <2>2 DEF End
  <2> QED BY <1>4, <2>1, <2>2
<1>7. ASSUME NEW a \in B, NEW at \in FirstFit(B, size)
      PROVE  Apart(a, new(at)) /\ Apart(new(at), a) /\ a.handle # new(at).handle
  <2>1. End(new(at)) = at + size /\ new(at).offset = at /\ new(at).handle = handle
    BY <1>3 DEF End
  <2>2. at + size <= a.offset \/ End(a) <= at
    BY <1>2
  <2> QED BY <2>1, <2>2 DEF Apart
<1>8. ASSUME NEW a \in All, NEW b \in All, a # b
      PROVE  Apart(a, b) /\ a.handle # b.handle
  <2>1. CASE a \in B /\ b \in B
    BY <1>8, <2>1 DEF WellFormed
  <2>2. CASE a \in B /\ b \notin B
    BY <1>4, <1>7, <2>2
  <2>3. CASE a \notin B /\ b \in B
    <3>1. PICK at \in FirstFit(B, size) : a = new(at)
      BY <1>4, <2>3
    <3>2. b.handle # new(at).handle /\ Apart(new(at), b)
      BY <1>7, <2>3
    <3> QED BY <3>1, <3>2
  <2>4. CASE a \notin B /\ b \notin B
    <3>1. PICK x \in FirstFit(B, size), y \in FirstFit(B, size) : a = new(x) /\ b = new(y)
      BY <1>4, <2>4
    <3>2. x = y
      BY <1>1, FirstFitUnique
    <3> QED BY <1>8, <3>1, <3>2
  <2> QED BY <2>1, <2>2, <2>3, <2>4
<1> QED
  <2>1. WellFormed(All)
    BY <1>6, <1>8 DEF WellFormed
  <2> QED BY <1>5, <2>1 DEF All

\* Taking blocks away keeps the pool sound (release, releaseAll).
LEMMA FewerStayWellFormed ==
  ASSUME NEW B, NEW C \in SUBSET B, WellFormed(B)
  PROVE  WellFormed(C)
BY DEF WellFormed
=============================================================================
