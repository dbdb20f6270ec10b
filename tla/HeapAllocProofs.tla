-------------------------- MODULE HeapAllocProofs ---------------------------
(***************************************************************************)
(* Memory::Alloc on each of its paths: the current chunk, the free list, a *)
(* new chunk, a collection first, and a large block.                       *)
(***************************************************************************)
EXTENDS HeapBlockProofs

\* SmallBlockFreeList::Alloc when the block is split
LEMMA TidySplit ==
  ASSUME NEW k, Tidy(k), NEW x \in DOMAIN k.at, x >= k.mark,
         NEW size \in MinSmall..ChunkSize, NEW o \in (Objs \ LargeObjs) \cup {NoObj},
         NEW rest, rest = k.at[x].size - size, rest >= MinSmall
  PROVE  /\ Tidy(Split(k, x, rest, Block(size, o))) /\ rest \in MinSmall..ChunkSize
         /\ x + rest \notin DOMAIN k.at /\ x + rest \in Nat /\ x + rest > x
<1> DEFINE at == Put(Put(k.at, x, Block(rest, NoObj)), x + rest, Block(size, o))
           D == DOMAIN k.at \cup {x + rest}
<1>1. Split(k, x, rest, Block(size, o)) = [mark |-> k.mark, top |-> k.top, at |-> at]
  BY Zenon DEF Split
<1>2. k.at[x].size \in MinSmall..ChunkSize /\ size \in Nat /\ size >= 1
  BY ChunkFields, SizesAssumption DEF BlockType
<1>3. rest \in MinSmall..ChunkSize /\ rest \in Nat /\ rest >= 1 /\ x \in Nat
  BY <1>2, ChunkFields, SizesAssumption
<1>4. x + rest > x /\ x + rest \in Nat /\ x + rest < x + k.at[x].size /\ x + rest \in 0..ChunkSize
  BY <1>2, <1>3, ChunkFields, SizesAssumption
<1>5. x + rest \notin DOMAIN k.at
  BY <1>3, <1>4, ChunkFields
<1>6. Block(rest, NoObj) \in BlockType /\ Block(size, o) \in BlockType
      /\ Block(rest, NoObj).size = rest /\ Block(size, o).size = size
  BY Zenon, <1>3, BlockTyped
<1>7. at \in [D -> BlockType]
  BY <1>6, ChunkFields DEF Put
<1>8. /\ at[x + rest].size = size /\ at[x].size = rest
      /\ \A y \in DOMAIN k.at : y # x => at[y] = k.at[y]
  BY Zenon, <1>4, <1>5, <1>6 DEF Put
<1>9. D \in SUBSET (0..ChunkSize)
  BY Zenon, <1>4, ChunkFields
<1> HIDE DEF at
<1>10. x + rest + size = x + k.at[x].size
  BY <1>2, <1>3
<1>11. \A y \in D : y + at[y].size <= k.top /\ (y < k.mark => y + at[y].size <= k.mark)
  BY <1>2, <1>3, <1>4, <1>8, <1>10, ChunkFields
<1>12. \A y, z \in D : y < z => y + at[y].size <= z
  <2> SUFFICES ASSUME NEW y \in D, NEW z \in D, y < z PROVE y + at[y].size <= z
    BY Zenon
  <2>1. CASE y = x + rest
    <3>1. z \in DOMAIN k.at /\ x < z
      BY <2>1, <1>3, <1>4, ChunkFields
    <3> QED BY Zenon, <3>1, <2>1, <1>8, <1>10, ChunkFields
  <2>2. CASE y = x
    <3>1. CASE z = x + rest
      BY <2>2, <3>1, <1>3, <1>4, <1>8
    <3>2. CASE z \in DOMAIN k.at
      BY <2>2, <3>2, <1>2, <1>3, <1>8, <1>10, ChunkFields
    <3> QED BY Zenon, <3>1, <3>2
  <2>3. CASE y \in DOMAIN k.at /\ y # x
    <3>1. at[y].size = k.at[y].size /\ y \in Nat /\ k.at[y].size \in Nat
      BY Zenon, <2>3, <1>8, ChunkFields
    <3>2. CASE z \in DOMAIN k.at
      BY Zenon, <2>3, <3>1, <3>2, ChunkFields
    <3>3. CASE z = x + rest
      <4>1. CASE y < x
        BY <4>1, <3>1, <3>3, <2>3, <1>3, ChunkFields
      <4>2. CASE x < y
        BY <4>2, <3>1, <3>3, <2>3, <1>2, <1>3, <1>4, ChunkFields
      <4> QED BY <4>1, <4>2, <2>3, <3>1, <1>3
    <3> QED BY Zenon, <3>2, <3>3
  <2> QED BY Zenon, <2>1, <2>2, <2>3
<1>13. Tidy([mark |-> k.mark, top |-> k.top, at |-> at])
  BY Zenon, <1>7, <1>9, <1>11, <1>12, ChunkIntro, ChunkFields
<1> QED BY Zenon, <1>1, <1>3, <1>4, <1>5, <1>13 DEF at

\* SmallBlockFreeList::Alloc when the block is not split
LEMMA TidyTake ==
  ASSUME NEW k, Tidy(k), NEW x \in DOMAIN k.at, NEW o \in (Objs \ LargeObjs) \cup {NoObj}
  PROVE  Tidy(Take(k, x, o)) /\ DOMAIN Take(k, x, o).at = DOMAIN k.at
<1> DEFINE at == Put(k.at, x, Block(k.at[x].size, o))
<1>1. /\ DOMAIN at = DOMAIN k.at /\ at = [y \in DOMAIN at |-> at[y]]
      /\ at[x] = Block(k.at[x].size, o)
      /\ \A y \in DOMAIN at : y # x => at[y] = k.at[y]
  BY Zenon DEF Put
<1> HIDE DEF at
<1>2. Tidy([mark |-> k.mark, top |-> k.top, at |-> at])
  BY Zenon, <1>1, TidyObj
<1> QED BY Zenon, <1>1, <1>2 DEF Take, at

\* A chunk from AllocateChunk is empty.
LEMMA TidyNew == Tidy(NewChunk) /\ Stays(NewChunk) = {}
<1> DEFINE at == [x \in {} |-> Block(0, NoObj)]
<1>1. at \in [{} -> BlockType] /\ DOMAIN at = {}
  BY Zenon
<1>2. 0 \in 0..ChunkSize /\ 0 <= 0 /\ {} \in SUBSET (0..ChunkSize)
  BY SizesAssumption
<1>3. Tidy([mark |-> 0, top |-> 0, at |-> at])
  <2> HIDE DEF at
  <2>1. /\ \A x \in {} : x + at[x].size <= 0 /\ (x < 0 => x + at[x].size <= 0)
        /\ \A x, y \in {} : x < y => x + at[x].size <= y
    BY Zenon
  <2> QED BY Zenon, <1>1, <1>2, <2>1, ChunkIntro
<1> QED BY Zenon, <1>1, <1>3 DEF NewChunk, Stays

\* What Append does to a sequence.
LEMMA AppendFacts ==
  ASSUME NEW T, NEW s \in Seq(T), NEW e \in T
  PROVE  /\ Append(s, e) \in Seq(T) /\ Len(Append(s, e)) = Len(s) + 1
         /\ DOMAIN Append(s, e) = 1..Len(s) + 1 /\ Append(s, e)[Len(s) + 1] = e
         /\ \A c \in 1..Len(s) : Append(s, e)[c] = s[c]
OBVIOUS

\* A new chunk at the end changes nothing in the others.
LEMMA AllocateChunkKeeps ==
  ASSUME NEW h, Shape(h)
  PROVE  LET g == AllocateChunk(h)
         IN  /\ Shape(g) /\ KeepsBlocks(h, g) /\ KeepsRest(h, g)
             /\ g.cur = h.cur /\ g.using = h.using /\ g.list = h.list
             /\ Len(g.chunk) = Len(h.chunk) + 1
             /\ \A c \in DOMAIN h.chunk : g.chunk[c] = h.chunk[c]
             /\ g.chunk[Len(h.chunk) + 1] = NewChunk
<1> DEFINE n == Len(h.chunk)
           f == Append(h.chunk, NewChunk)
           g == AllocateChunk(h)
<1>0. h.chunk \in Seq(ChunkType) /\ n \in Nat /\ DOMAIN h.chunk = 1..n /\ \A c \in 1..n : Tidy(h.chunk[c])
  BY Zenon, ShapeFields
<1>1. g = [h EXCEPT !.chunk = f]
  BY Zenon DEF AllocateChunk
<1>2. NewChunk \in ChunkType /\ Tidy(NewChunk) /\ Stays(NewChunk) = {} /\ NewChunk.mark = 0
  BY Zenon, TidyNew DEF Tidy, NewChunk
<1>3. f \in Seq(ChunkType) /\ Len(f) = n + 1 /\ DOMAIN f = 1..n + 1 /\ f[n + 1] = NewChunk
      /\ \A c \in 1..n : f[c] = h.chunk[c]
  <2>1. h.chunk \in Seq(ChunkType) /\ NewChunk \in ChunkType
    BY Zenon, <1>0, <1>2
  <2> QED BY ONLY <2>1, AppendFacts DEF f, n
<1> HIDE DEF f
<1>5. h \in HeapType
  BY Zenon DEF Shape
<1>6. g \in HeapType /\ g.chunk = f /\ g.cur = h.cur /\ g.using = h.using /\ g.list = h.list
      /\ g.pre = h.pre /\ g.post = h.post /\ KeepsRest(h, g)
  BY Zenon, <1>1, <1>3, <1>5 DEF HeapType, KeepsRest
<1> HIDE DEF g, n
<1>7. \A c \in 1..n + 1 : c \in 1..n \/ c = n + 1
  BY <1>0
<1>8. Shape(g)
  BY Zenon, <1>0, <1>2, <1>3, <1>6, <1>7 DEF Shape
<1>9. KeepsBlocks(h, g)
  BY <1>0, <1>2, <1>3, <1>6, <1>7, KeepsLiveRefl DEF KeepsBlocks, n
<1> QED BY Zenon, <1>0, <1>3, <1>6, <1>8, <1>9 DEF g, n

WithCur(h, c) == [h EXCEPT !.cur = c]
WithUsing(h, u) == [h EXCEPT !.using = u]

\* Another allocating chunk.
LEMMA SetCur ==
  ASSUME NEW h, Shape(h), NEW c \in Nat
  PROVE  /\ Only(h, WithCur(h, c)) /\ WithCur(h, c).cur = c
         /\ WithCur(h, c).list = h.list /\ WithCur(h, c).using = h.using
<1>1. h \in HeapType
  BY Zenon DEF Shape
<1> DEFINE g == WithCur(h, c)
<1>2. /\ g \in HeapType /\ g.chunk = h.chunk /\ g.pre = h.pre /\ g.post = h.post /\ KeepsRest(h, g)
      /\ g.cur = c /\ g.list = h.list /\ g.using = h.using
  BY Zenon, <1>1 DEF HeapType, WithCur, KeepsRest
<1> HIDE DEF g
<1>3. Shape(g)
  BY Zenon, <1>2 DEF Shape
<1> QED BY Zenon, <1>2, <1>3 DEF Only, g

\* Switching the free list on or off.
LEMMA SetUsing ==
  ASSUME NEW h, Shape(h), NEW u \in BOOLEAN
  PROVE  /\ Only(h, WithUsing(h, u)) /\ WithUsing(h, u).cur = h.cur
         /\ WithUsing(h, u).list = h.list /\ WithUsing(h, u).using = u
<1>1. h \in HeapType
  BY Zenon DEF Shape
<1> DEFINE g == WithUsing(h, u)
<1>2. /\ g \in HeapType /\ g.chunk = h.chunk /\ g.pre = h.pre /\ g.post = h.post /\ KeepsRest(h, g)
      /\ g.cur = h.cur /\ g.list = h.list /\ g.using = u
  BY Zenon, <1>1 DEF HeapType, WithUsing, KeepsRest
<1> HIDE DEF g
<1>3. Shape(g)
  BY Zenon, <1>2 DEF Shape
<1> QED BY Zenon, <1>2, <1>3 DEF Only, g

\* CheckGCThreshold keeps the heap good: both scans, then the free list.
LEMMA ReclaimGood ==
  ASSUME NEW h, NEW r, NEW m, Good(h, r, m), h.postMark \/ ~h.marked
  PROVE  LET g == Reclaim(h)
         IN  /\ Good(g, r, m) /\ Shrinks(h, g)
             /\ Len(g.chunk) = Len(h.chunk) /\ g.cur = h.cur
<1> DEFINE k == FreeUnusedSmallBlocks(h, TRUE, TRUE)
           l == FreeUnusedLargeBlocks(k)
           g == Reclaim(h)
<1>1. g = WithUsing(l, TRUE)
  BY Zenon DEF Reclaim, WithUsing
<1>2. /\ Good(k, r, m) /\ Shrinks(h, k) /\ Len(k.chunk) = Len(h.chunk) /\ k.cur = h.cur
      /\ ListOK(k)
  BY Zenon, SmallUnusedGood
<1> HIDE DEF k
<1>3. k.postMark \/ ~k.marked
  BY Zenon, <1>2 DEF Shrinks
<1>4. Good(l, r, m) /\ Shrinks(k, l) /\ Len(l.chunk) = Len(k.chunk) /\ l.cur = k.cur /\ ListOK(l)
  BY Zenon, <1>2, <1>3, LargeUnusedGood
<1> HIDE DEF l, g
<1>5. Sound(l, r, m) /\ Shape(l) /\ l.cur \in 1..Len(l.chunk)
  BY Zenon, <1>4 DEF Good, Sound, Layout
<1>6. Only(l, g) /\ g.cur = l.cur /\ g.list = l.list
  BY Zenon, <1>1, <1>5, SetUsing
<1>7. /\ Sound(g, r, m) /\ Shrinks(l, g) /\ FreeBlocks(g) = FreeBlocks(l)
      /\ \A s, S : Listed(l, s, S) => Listed(g, s, S)
  BY Zenon, <1>5, <1>6, OnlySound
<1>8. ListOK(g)
  BY Zenon, <1>4, <1>6, <1>7 DEF ListOK
<1>9. Good(g, r, m) /\ Len(g.chunk) = Len(h.chunk) /\ g.cur = h.cur
  BY Zenon, <1>2, <1>4, <1>6, <1>7, <1>8 DEF Good, FreeListOK, Only
<1>10. Shrinks(h, g)
  BY Zenon, <1>2, <1>4, <1>7, ShrinksTrans
<1> QED BY Zenon, <1>9, <1>10 DEF g

\* k2 is chunk k with object o in a new block at x
AddsAt(k, k2, x, o) ==
  /\ Tidy(k2) /\ k2.mark = k.mark
  /\ x \in DOMAIN k2.at /\ x >= k.mark /\ k2.at[x].obj = o
  /\ x \notin Stays(k) /\ Stays(k2) = Stays(k) \cup {x}
  /\ \A y \in Stays(k) : k2.at[y] = k.at[y]

\* A block that is added to a chunk lies above its mark.
LEMMA AddsAtBelow ==
  ASSUME NEW k, NEW k2, NEW x, NEW o, Tidy(k), AddsAt(k, k2, x, o)
  PROVE  k2.mark = k.mark /\ BelowMark(k2) = BelowMark(k)
<1>1. x \in Nat /\ k.mark \in Nat
  BY Zenon, ChunkFields DEF AddsAt
<1>2. ~(x < k.mark)
  BY <1>1 DEF AddsAt
<1>3. \A y : y \in DOMAIN k2.at /\ y < k2.mark <=> y \in DOMAIN k.at /\ y < k.mark
  BY Zenon, <1>2 DEF AddsAt, Stays
<1>4. \A y : y \in DOMAIN k.at /\ y < k.mark => k2.at[y] = k.at[y]
  BY Zenon DEF AddsAt, Stays
<1>5. {y \in DOMAIN k2.at : y < k2.mark} = {y \in DOMAIN k.at : y < k.mark}
  BY Zenon, <1>3
<1> QED BY Zenon, <1>4, <1>5 DEF BelowMark, AddsAt

\* Alloc returns a pointer that leads to the new object.
LEMMA PointerToSmall ==
  ASSUME NEW g, Shape(g), NEW c, NEW x, NEW o \in Objs \ LargeObjs, Sits(g, c, x, o)
  PROVE  PointerTo(g, o) \in Address /\ Target(g, PointerTo(g, o)) = o
<1> DEFINE p == CHOOSE q \in Blocks(g) : BlockAt(g, q).obj = o
<1>1. Small(c, x) \in Blocks(g) /\ BlockAt(g, Small(c, x)).obj = o
  BY SitsTyped, BlocksView DEF Sits
<1>2. p \in Blocks(g) /\ BlockAt(g, p).obj = o
  BY Zenon, <1>1
<1>3. o \notin Large(g) /\ o # NoObj
  BY Zenon, ShapeFields, SizesAssumption
<1>4. PointerTo(g, o) = p
  BY Zenon, <1>3 DEF PointerTo
<1> HIDE DEF p
<1>5. /\ p = Small(p.chunk, p.off) /\ Sits(g, p.chunk, p.off, o) /\ p \in Address
  BY Zenon, <1>2, BlocksView DEF Sits, BlockAt
<1>6. Target(g, p) = o
  BY Zenon, <1>3, <1>5, TargetView
<1> QED BY Zenon, <1>4, <1>5, <1>6

\* An allocation in one chunk disturbs no other object and no pointer.
LEMMA AddsSmall ==
  ASSUME NEW h, Layout(h), NEW g, Shape(g), NEW c \in DOMAIN h.chunk, NEW k2, NEW x,
         NEW o \in Objs \ LargeObjs, o \notin Allocated(h), AddsAt(h.chunk[c], k2, x, o),
         Len(g.chunk) = Len(h.chunk), g.chunk[c] = k2,
         \A d \in DOMAIN h.chunk : d # c => g.chunk[d] = h.chunk[d],
         g.pre = h.pre, g.post = h.post, KeepsRest(h, g), g.cur \in 1..Len(h.chunk)
  PROVE  Adds(h, g, o)
<1> DEFINE k == h.chunk[c]
<1>0. /\ Shape(h) /\ Unique(h) /\ Marks(h) /\ h.pre \cap h.post = {} /\ o # NoObj
      /\ DOMAIN h.chunk = 1..Len(h.chunk) /\ DOMAIN g.chunk = DOMAIN h.chunk
      /\ Len(h.chunk) \in Nat /\ Tidy(k) /\ Large(g) = Large(h) /\ h.atMark \in Nat
  BY Zenon, SizesAssumption, ShapeFields DEF Layout, Large
<1>1. \A d \in DOMAIN h.chunk : g.chunk[d].mark = h.chunk[d].mark
  BY Zenon DEF AddsAt
<1>2. ASSUME NEW d, NEW y, NEW q, q # NoObj
      PROVE  Sits(g, d, y, q) <=> Sits(h, d, y, q) \/ (q = o /\ d = c /\ y = x)
  <2>1. CASE d = c
    <3>1. Sits(h, c, y, q) <=> y \in Stays(k) /\ k.at[y].obj = q
      BY Zenon, <1>2 DEF Sits, Stays
    <3>2. Sits(g, c, y, q) <=> y \in Stays(k2) /\ k2.at[y].obj = q
      BY Zenon, <1>0, <1>2 DEF Sits, Stays
    <3>3. /\ Stays(k2) = Stays(k) \cup {x} /\ k2.at[x].obj = o /\ x \notin Stays(k)
          /\ \A z \in Stays(k) : k2.at[z] = k.at[z]
      BY Zenon DEF AddsAt
    <3> QED BY Zenon, <2>1, <3>1, <3>2, <3>3
  <2>2. CASE d # c
    BY Zenon, <1>0, <2>2 DEF Sits
  <2> QED BY Zenon, <2>1, <2>2
<1>3. Sits(g, c, x, o)
  BY Zenon, <1>0, <1>2
<1>4. \A d, y : ~Sits(h, d, y, o)
  BY Zenon, <1>0, ObjectsView
<1>5. Unique(g)
  <2> SUFFICES ASSUME NEW q \in Objs, NEW d, NEW y, NEW e, NEW z, Sits(g, d, y, q), Sits(g, e, z, q)
               PROVE  d = e /\ y = z
    BY Zenon DEF Unique
  <2>1. q # NoObj
    BY Zenon, SizesAssumption
  <2>2. CASE q = o
    BY <2>1, <2>2, <1>2, <1>4
  <2>3. CASE q # o
    BY <2>1, <2>3, <1>0, <1>2 DEF Unique
  <2> QED BY Zenon, <2>2, <2>3
<1>6. Marks(g)
  BY Zenon, <1>0, <1>1 DEF Marks, KeepsRest
<1>7. Layout(g)
  BY Zenon, <1>0, <1>5, <1>6 DEF Layout
<1>8. Allocated(g) = Allocated(h) \cup {o}
  <2>1. \A q : q # NoObj => (q \in Allocated(g) <=> q \in Allocated(h) \/ q = o)
    BY Zenon, <1>0, <1>2, <1>3, ObjectsView
  <2>2. NoObj \notin Allocated(g) /\ NoObj \notin Allocated(h)
    BY Zenon, <1>0, ObjectsTyped
  <2> QED BY Zenon, <2>1, <2>2, <1>0
<1>9. Old(g) = Old(h)
  <2>1. ~(x < h.chunk[c].mark)
    <3>1. x \in Nat /\ h.chunk[c].mark \in Nat
      BY Zenon, <1>0, ChunkFields DEF AddsAt
    <3> QED BY <3>1 DEF AddsAt
  <2>2. ASSUME NEW q, q # NoObj PROVE q \in Old(g) <=> q \in Old(h)
    <3>1. \A d, y : Sits(h, d, y, q) => g.chunk[d].mark = h.chunk[d].mark
      BY Zenon, <1>1 DEF Sits
    <3>2. \A d, y : Sits(g, d, y, q) /\ y < g.chunk[d].mark <=> Sits(h, d, y, q) /\ y < h.chunk[d].mark
      BY Zenon, <1>1, <1>2, <2>1, <2>2, <3>1
    <3> QED BY Zenon, <3>2, <2>2, <1>0, ObjectsView
  <2>3. NoObj \notin Old(g) /\ NoObj \notin Old(h)
    BY Zenon, <1>0, ObjectsTyped
  <2>4. \A q : q \in Old(g) <=> q \in Old(h)
    BY Zenon, <2>2, <2>3
  <2> HIDE DEF k
  <2> QED BY <2>4, Zenon
<1>10. ASSUME NEW p, NEW q, q # NoObj, Target(h, p) = q PROVE Target(g, p) = q
  <2>1. (p = q /\ q \in Large(h)) \/ \E d, y : p = Small(d, y) /\ Sits(h, d, y, q)
    BY Zenon, <1>0, <1>10, TargetView
  <2>2. (p = q /\ q \in Large(g)) \/ \E d, y : p = Small(d, y) /\ Sits(g, d, y, q)
    BY Zenon, <1>0, <1>2, <1>10, <2>1
  <2> QED BY Zenon, <1>10, <2>2, TargetView
<1>11. Kept(h, g)
  <2>1. \A d \in DOMAIN h.chunk :
          g.chunk[d].mark = h.chunk[d].mark /\ BelowMark(g.chunk[d]) = BelowMark(h.chunk[d])
    BY Zenon, <1>0, AddsAtBelow
  <2>2. \A d \in 1..h.atMark : d \in DOMAIN h.chunk
    BY <1>0 DEF Marks
  <2>3. g.atMark = h.atMark /\ h.atMark <= Len(h.chunk)
    BY Zenon, <1>0 DEF Marks, KeepsRest
  <2> QED BY Zenon, <1>0, <2>1, <2>2, <2>3 DEF Kept
<1>12. PointerTo(g, o) \in Pointer /\ Target(g, PointerTo(g, o)) = o
  BY Zenon, <1>3, PointerToSmall DEF Pointer
<1> QED BY Zenon, <1>7, <1>8, <1>9, <1>10, <1>11, <1>12 DEF Adds

\* Chunk::Alloc puts the block at top().
LEMMA ArenaAddsAt ==
  ASSUME NEW k, Tidy(k), NEW size \in MinSmall..ChunkSize, k.top + size <= ChunkSize,
         NEW o \in Objs \ LargeObjs
  PROVE  LET k2 == [mark |-> k.mark, top |-> k.top + size, at |-> Put(k.at, k.top, Block(size, o))]
         IN  /\ AddsAt(k, k2, k.top, o)
             /\ \A y \in DOMAIN k.at : y \in DOMAIN k2.at /\ k2.at[y] = k.at[y]
<1> DEFINE b == Block(size, o)
           at == Put(k.at, k.top, b)
           k2 == [mark |-> k.mark, top |-> k.top + size, at |-> at]
<1>1. b \in BlockType /\ b.size = size /\ b.obj = o /\ o # NoObj
  BY Zenon, BlockTyped, SizesAssumption
<1>2. Tidy(k2) /\ k.top \notin DOMAIN k.at
  <2> HIDE DEF b
  <2> QED BY Zenon, <1>1, TidyAlloc
<1> HIDE DEF b
<1>3. /\ DOMAIN at = DOMAIN k.at \cup {k.top} /\ at[k.top] = b
      /\ \A y \in DOMAIN k.at : at[y] = k.at[y]
  BY Zenon, <1>2 DEF Put
<1> HIDE DEF at
<1>4. k.top \in Nat /\ k.mark <= k.top /\ k.top >= k.mark
  BY Zenon, ChunkFields
<1>5. Stays(k2) = Stays(k) \cup {k.top} /\ k.top \notin Stays(k)
  BY Zenon, <1>1, <1>2, <1>3 DEF Stays
<1>6. AddsAt(k, k2, k.top, o)
  BY Zenon, <1>1, <1>2, <1>3, <1>4, <1>5 DEF AddsAt, Stays
<1> QED BY Zenon, <1>3, <1>6 DEF at, b

CutSpec(k, k2, x, rest, o) ==
  /\ AddsAt(k, k2, x + rest, o) /\ rest \in MinSmall..ChunkSize
  /\ x \in DOMAIN k2.at /\ k2.at[x].obj = NoObj /\ k2.at[x].size = rest
  /\ \A y \in DOMAIN k.at : y # x => y \in DOMAIN k2.at /\ k2.at[y] = k.at[y]

\* SmallBlockFreeList::Alloc cuts the new block from the end of a free one.
LEMMA SplitAddsAt ==
  ASSUME NEW k, Tidy(k), NEW x \in DOMAIN k.at, FreeAt(k, x),
         NEW size \in MinSmall..ChunkSize, NEW o \in Objs \ LargeObjs,
         NEW rest, rest = k.at[x].size - size, rest >= MinSmall
  PROVE  CutSpec(k, Split(k, x, rest, Block(size, o)), x, rest, o)
<1> DEFINE f == Block(rest, NoObj)
           b == Block(size, o)
           at == Put(Put(k.at, x, f), x + rest, b)
           k2 == Split(k, x, rest, b)
<1>0. x >= k.mark /\ k.at[x].obj = NoObj /\ o \in (Objs \ LargeObjs) \cup {NoObj} /\ o # NoObj
  BY Zenon, SizesAssumption DEF FreeAt
<1>1. /\ Tidy(k2) /\ rest \in MinSmall..ChunkSize
      /\ x + rest \notin DOMAIN k.at /\ x + rest \in Nat /\ x + rest > x
  BY Zenon, <1>0, TidySplit
<1>2. f.obj = NoObj /\ f.size = rest /\ b.obj = o
  BY Zenon DEF Block
<1>3. k2.mark = k.mark /\ k2.at = at
  BY Zenon DEF Split
<1> HIDE DEF f, b, k2
<1>4. x \in Nat /\ k.mark \in Nat
  BY Zenon, ChunkFields
<1>5. /\ DOMAIN at = DOMAIN k.at \cup {x + rest} /\ at[x + rest] = b /\ at[x] = f
      /\ \A y \in DOMAIN k.at : y # x => at[y] = k.at[y]
  BY Zenon, <1>1, <1>4 DEF Put
<1> HIDE DEF at
<1>6. x \notin Stays(k) /\ x \notin Stays(k2)
  BY <1>0, <1>2, <1>3, <1>4, <1>5 DEF Stays
<1>7. x + rest >= k.mark
  BY <1>0, <1>1, <1>4
<1>8. Stays(k2) = Stays(k) \cup {x + rest} /\ x + rest \notin Stays(k)
  BY Zenon, <1>0, <1>1, <1>2, <1>3, <1>5, <1>6 DEF Stays
<1>9. AddsAt(k, k2, x + rest, o)
  BY Zenon, <1>1, <1>2, <1>3, <1>5, <1>6, <1>7, <1>8 DEF AddsAt, Stays
<1>10. CutSpec(k, k2, x, rest, o)
  BY Zenon, <1>1, <1>2, <1>3, <1>5, <1>9 DEF CutSpec
<1> QED BY Zenon, <1>10 DEF k2, b

\* SmallBlockFreeList::Alloc hands out a free block as a whole.
LEMMA TakeAddsAt ==
  ASSUME NEW k, Tidy(k), NEW x \in DOMAIN k.at, FreeAt(k, x), NEW o \in Objs \ LargeObjs
  PROVE  LET k2 == Take(k, x, o)
         IN  /\ AddsAt(k, k2, x, o)
             /\ \A y \in DOMAIN k.at : y # x => y \in DOMAIN k2.at /\ k2.at[y] = k.at[y]
<1> DEFINE b == Block(k.at[x].size, o)
           k2 == Take(k, x, o)
<1>0. x >= k.mark /\ k.at[x].obj = NoObj /\ o \in (Objs \ LargeObjs) \cup {NoObj} /\ o # NoObj
  BY Zenon, SizesAssumption DEF FreeAt
<1>1. Tidy(k2) /\ DOMAIN k2.at = DOMAIN k.at
  BY Zenon, <1>0, TidyTake
<1>2. b.obj = o
  BY Zenon DEF Block
<1>3. k2.mark = k.mark /\ k2.at[x] = b /\ \A y \in DOMAIN k.at : y # x => k2.at[y] = k.at[y]
  BY Zenon DEF Take, Put
<1> HIDE DEF b, k2
<1>4. x \in Nat /\ k.mark \in Nat
  BY Zenon, ChunkFields
<1>5. x \notin Stays(k) /\ Stays(k2) = Stays(k) \cup {x}
  BY <1>0, <1>1, <1>2, <1>3, <1>4 DEF Stays
<1>6. AddsAt(k, k2, x, o)
  BY Zenon, <1>0, <1>1, <1>2, <1>3, <1>5 DEF AddsAt, Stays
<1> QED BY Zenon, <1>1, <1>3, <1>6 DEF k2

PutChunk(h, c, k) == [h EXCEPT !.chunk[c] = k]

\* Replacing one chunk by a tidy one.
LEMMA PutChunkShape ==
  ASSUME NEW h, Shape(h), NEW c \in DOMAIN h.chunk, NEW k, Tidy(k)
  PROVE  LET g == PutChunk(h, c, k)
         IN  /\ Shape(g) /\ Len(g.chunk) = Len(h.chunk) /\ g.chunk[c] = k
             /\ \A d \in DOMAIN h.chunk : d # c => g.chunk[d] = h.chunk[d]
             /\ g.pre = h.pre /\ g.post = h.post /\ KeepsRest(h, g)
             /\ g.cur = h.cur /\ g.list = h.list /\ g.using = h.using
<1> DEFINE f == [h.chunk EXCEPT ![c] = k]
           g == [h EXCEPT !.chunk = f]
<1>0. h \in HeapType /\ h.chunk \in Seq(ChunkType) /\ k \in ChunkType
  BY Zenon, ShapeFields DEF Shape, Tidy
<1>1. /\ f \in Seq(ChunkType) /\ Len(f) = Len(h.chunk) /\ DOMAIN f = DOMAIN h.chunk
      /\ f[c] = k /\ \A d \in DOMAIN h.chunk : d # c => f[d] = h.chunk[d]
  BY <1>0
<1> HIDE DEF f
<1>2. /\ g \in HeapType /\ g.chunk = f /\ g.pre = h.pre /\ g.post = h.post /\ KeepsRest(h, g)
      /\ g.cur = h.cur /\ g.list = h.list /\ g.using = h.using
  BY Zenon, <1>0, <1>1 DEF HeapType, KeepsRest
<1>3. PutChunk(h, c, k) = g
  BY Zenon DEF PutChunk, f
<1> HIDE DEF g
<1>4. \A d \in DOMAIN g.chunk : Tidy(g.chunk[d])
  <2>1. \A d \in DOMAIN h.chunk : Tidy(h.chunk[d])
    BY Zenon DEF Shape
  <2> QED BY Zenon, <1>1, <1>2, <2>1
<1>5. Shape(g)
  BY Zenon, <1>2, <1>4 DEF Shape
<1> QED BY Zenon, <1>1, <1>2, <1>3, <1>5

\* the free blocks of S, and their sizes, are the same in g
SameFree(h, g, S) ==
  \A p \in S : p \in FreeBlocks(h) => p \in FreeBlocks(g) /\ BlockAt(g, p) = BlockAt(h, p)

\* A free list stays right while the blocks it lists stay free.
LEMMA ListedMove ==
  ASSUME NEW h, NEW g, NEW l, NEW S, Listed(h, l, S), SameFree(h, g, S)
  PROVE  Listed(g, l, S)
BY Zenon DEF Listed, SameFree

\* The first entry of a bucket is a free block, and no other entry names it.
LEMMA PopListed ==
  ASSUME NEW h, NEW l, NEW S, Listed(h, l, S), NEW b \in 0..NumBuckets - 1, l[b] # <<>>
  PROVE  LET p == Head(l[b])
         IN  /\ p \in S /\ p \in FreeBlocks(h) /\ bits(BlockAt(h, p).size) = b
             /\ Listed(h, [l EXCEPT ![b] = Tail(@)], S \ {p})
<1> DEFINE B == 0..NumBuckets - 1
           q == l[b]
           p == Head(q)
           t == Tail(q)
           k == [l EXCEPT ![b] = t]
<1>1. /\ l \in [B -> Seq(Address)] /\ q \in Seq(Address) /\ q # <<>> /\ b \in B
  BY Zenon DEF Listed
<1>2. /\ Len(q) \in Nat /\ Len(q) >= 1 /\ DOMAIN q = 1..Len(q) /\ p = q[1] /\ 1 \in DOMAIN q
      /\ t \in Seq(Address) /\ DOMAIN t = 1..Len(q) - 1
      /\ \A i \in 1..Len(q) - 1 : t[i] = q[i + 1] /\ i + 1 \in DOMAIN q /\ i \in Nat
  BY <1>1
<1>3. k \in [B -> Seq(Address)] /\ k[b] = t /\ \A n \in B : n # b => k[n] = l[n]
  BY Zenon, <1>1, <1>2
<1> HIDE DEF k, t, p, q
<1>4. p \in S /\ p \in FreeBlocks(h) /\ bits(BlockAt(h, p).size) = b
  BY Zenon, <1>1, <1>2 DEF Listed, q
<1>5. /\ \A n \in B : \A i \in DOMAIN l[n] :
           /\ l[n][i] \in S /\ l[n][i] \in FreeBlocks(h)
           /\ bits(BlockAt(h, l[n][i]).size) = n
      /\ \A n, c \in B : \A i \in DOMAIN l[n], j \in DOMAIN l[c] :
           l[n][i] = l[c][j] => n = c /\ i = j
  BY Zenon DEF Listed
\* entry <<n, i>> of k is entry <<n, at(n, i)>> of l
<1> DEFINE at(n, i) == IF n = b THEN i + 1 ELSE i
<1>6. ASSUME NEW n \in B, NEW i \in DOMAIN k[n]
      PROVE  /\ at(n, i) \in DOMAIN l[n] /\ k[n][i] = l[n][at(n, i)]
             /\ n = b => i \in Nat /\ at(n, i) # 1
  <2>1. CASE n = b
    BY <1>2, <1>3, <2>1 DEF q
  <2>2. CASE n # b
    BY Zenon, <1>3, <2>2
  <2> QED BY Zenon, <2>1, <2>2
<1>7. ASSUME NEW n \in B, NEW i \in DOMAIN k[n]
      PROVE  /\ k[n][i] \in S \ {p} /\ k[n][i] \in FreeBlocks(h)
             /\ bits(BlockAt(h, k[n][i]).size) = n
  <2>1. k[n][i] # p
    <3> SUFFICES ASSUME k[n][i] = p PROVE FALSE
      BY Zenon
    <3>1. l[n][at(n, i)] = l[b][1] /\ at(n, i) \in DOMAIN l[n] /\ 1 \in DOMAIN l[b]
      BY <1>2, <1>6 DEF q
    <3>2. n = b /\ at(n, i) = 1
      <4> HIDE DEF at
      <4> QED BY Zenon, <1>1, <1>5, <3>1
    <3> QED BY Zenon, <1>6, <3>2
  <2>2. l[n][at(n, i)] \in S /\ l[n][at(n, i)] \in FreeBlocks(h) /\ bits(BlockAt(h, l[n][at(n, i)]).size) = n
    <3>1. at(n, i) \in DOMAIN l[n]
      BY Zenon, <1>6
    <3> HIDE DEF at
    <3> QED BY Zenon, <1>5, <3>1
  <2> QED BY Zenon, <1>6, <2>1, <2>2
<1>8. ASSUME NEW n \in B, NEW c \in B, NEW i \in DOMAIN k[n], NEW j \in DOMAIN k[c], k[n][i] = k[c][j]
      PROVE  n = c /\ i = j
  <2>1. n = c /\ at(n, i) = at(c, j)
    <3>1. /\ at(n, i) \in DOMAIN l[n] /\ at(c, j) \in DOMAIN l[c]
          /\ l[n][at(n, i)] = l[c][at(c, j)]
      BY Zenon, <1>6, <1>8
    <3> HIDE DEF at
    <3> QED BY Zenon, <1>5, <3>1
  <2>2. CASE n = b
    BY <1>6, <2>1, <2>2
  <2>3. CASE n # b
    BY Zenon, <2>1, <2>3
  <2> QED BY Zenon, <2>2, <2>3
<1>9. Listed(h, k, S \ {p})
  BY Zenon, <1>3, <1>7, <1>8 DEF Listed
<1>10. [l EXCEPT ![b] = Tail(@)] = k
  BY Zenon DEF k, t, q
<1> QED BY Zenon, <1>4, <1>9, <1>10 DEF p, q

\* Chunk::Alloc
LEMMA ArenaAdds ==
  ASSUME NEW h, Layout(h), FreeListOK(h), NEW size \in SmallSizes, NEW o \in Objs \ LargeObjs,
         o \notin Allocated(h), Arena(h, size) # {}
  PROVE  Makes(h, ArenaAlloc(h, size, o), o)
<1> DEFINE c == Min(Arena(h, size))
           k == h.chunk[c]
           k2 == [mark |-> k.mark, top |-> k.top + size, at |-> Put(k.at, k.top, Block(size, o))]
           e == WithCur(h, c)
           g == ArenaAlloc(h, size, o)
<1>0. /\ Shape(h) /\ h.cur \in Nat /\ h.cur \in 1..Len(h.chunk) /\ Len(h.chunk) \in Nat
      /\ DOMAIN h.chunk = 1..Len(h.chunk) /\ size \in MinSmall..ChunkSize /\ h \in HeapType
  BY Zenon, ShapeFields, SizesAssumption DEF Layout, Shape
<1>1. c \in Arena(h, size)
  <2>1. Arena(h, size) \in SUBSET Nat
    BY <1>0 DEF Arena
  <2> QED BY Zenon, <2>1, MinNat
<1>2. c \in 1..Len(h.chunk) /\ c \in DOMAIN h.chunk /\ c \in Nat /\ k.top + size <= ChunkSize
  BY <1>0, <1>1 DEF Arena, Fits
<1> HIDE DEF c
<1>3. Tidy(k)
  BY Zenon, <1>0, <1>2, ShapeFields
<1>4. AddsAt(k, k2, k.top, o) /\ \A y \in DOMAIN k.at : y \in DOMAIN k2.at /\ k2.at[y] = k.at[y]
  <2> HIDE DEF k
  <2> QED BY Zenon, <1>0, <1>2, <1>3, ArenaAddsAt
<1>5. g = PutChunk(e, c, k2)
  <2>1. g = [h EXCEPT !.cur = c, !.chunk[c] = k2]
    BY Zenon DEF ArenaAlloc, c
  <2> HIDE DEF k2, g
  <2> QED BY Zenon, <1>0, <2>1 DEF PutChunk, WithCur, HeapType
<1> HIDE DEF k2, k, g
<1>6. Only(h, e) /\ e.cur = c /\ e.list = h.list /\ e.using = h.using
  BY Zenon, <1>0, <1>2, SetCur
<1> HIDE DEF e
<1>7. Shape(e) /\ e.chunk = h.chunk /\ e.pre = h.pre /\ e.post = h.post /\ KeepsRest(h, e) /\ Tidy(k2)
  BY Zenon, <1>4, <1>6 DEF Only, AddsAt
<1>8. /\ Shape(g) /\ Len(g.chunk) = Len(h.chunk) /\ g.chunk[c] = k2
      /\ \A d \in DOMAIN h.chunk : d # c => g.chunk[d] = h.chunk[d]
      /\ g.pre = h.pre /\ g.post = h.post /\ KeepsRest(e, g)
      /\ g.cur = c /\ g.list = h.list /\ g.using = h.using
  BY <1>2, <1>5, <1>6, <1>7, PutChunkShape
<1>9. KeepsRest(h, g)
  BY Zenon, <1>7, <1>8 DEF KeepsRest
<1>10. Adds(h, g, o)
  BY Zenon, <1>2, <1>4, <1>8, <1>9, AddsSmall DEF k
<1>11. SameFree(h, g, FreeBlocks(h))
  <2> SUFFICES ASSUME NEW p \in FreeBlocks(h)
               PROVE  p \in FreeBlocks(g) /\ BlockAt(g, p) = BlockAt(h, p)
    BY Zenon DEF SameFree
  <2>1. /\ p = Small(p.chunk, p.off) /\ p.chunk \in DOMAIN h.chunk
        /\ p.off \in DOMAIN h.chunk[p.chunk].at /\ p.off >= h.chunk[p.chunk].mark
        /\ h.chunk[p.chunk].at[p.off].obj = NoObj
    BY Zenon, <1>0, FreeBlocksTyped
  <2>2. DOMAIN g.chunk = DOMAIN h.chunk
    BY Zenon, <1>0, <1>8, ShapeFields
  <2>3. /\ p.off \in DOMAIN g.chunk[p.chunk].at /\ g.chunk[p.chunk].at[p.off] = h.chunk[p.chunk].at[p.off]
        /\ g.chunk[p.chunk].mark = h.chunk[p.chunk].mark
    BY <1>4, <1>8, <2>1 DEF k, AddsAt
  <2>4. Small(p.chunk, p.off) \in FreeBlocks(g)
    BY Zenon, <1>8, <2>1, <2>2, <2>3, FreeBlocksTyped
  <2> QED BY Zenon, <2>1, <2>3, <2>4 DEF BlockAt
<1>12. FreeListOK(g)
  <2> SUFFICES ASSUME g.using PROVE ListOK(g)
    BY Zenon DEF FreeListOK
  <2>1. Listed(h, h.list, FreeBlocks(h))
    BY Zenon, <1>8 DEF FreeListOK, ListOK
  <2>2. Listed(g, g.list, FreeBlocks(h))
    BY Zenon, <2>1, <1>8, <1>11, ListedMove
  <2>3. Listed(g, g.list, FreeBlocks(g))
    BY Zenon, <2>2 DEF Listed
  <2> QED BY Zenon, <2>3 DEF ListOK
<1> QED BY Zenon, <1>10, <1>12 DEF Makes, g

\* A block from a bucket of more bits is large enough: Alloc's search starts one
\* bucket above that of the request.
LEMMA BitsBelow ==
  ASSUME NEW a \in Nat, NEW b \in Nat, bits(a) < bits(b)
  PROVE  a < b
<1> SUFFICES ASSUME b <= a PROVE FALSE
  OBVIOUS
<1>1. bits(b) \in Nat /\ bits(a) \in Nat /\ bits(b) <= bits(a)
  BY Zenon, BitsMonotone
<1> QED BY <1>1

\* the block that the free list hands out for size bytes
LEMMA FreeListEntry ==
  ASSUME NEW h, Shape(h), ListOK(h), NEW size \in SmallSizes, FreeListHas(h, size)
  PROVE  LET b == Min(Larger(h, size))
             p == Head(h.list[b])
         IN  /\ p \in FreeBlocks(h) /\ BlockAt(h, p).size > size
             /\ Listed(h, [h.list EXCEPT ![b] = Tail(@)], FreeBlocks(h) \ {p})
<1> DEFINE b == Min(Larger(h, size))
           p == Head(h.list[b])
<1>0. size \in 0..ChunkSize /\ size \in Nat
  BY SizesAssumption
<1>1. bits(size) \in Nat /\ NumBuckets \in Nat
  BY Zenon, <1>0, BitsRange
<1>2. b \in Larger(h, size)
  <2>1. Larger(h, size) \in SUBSET Nat
    BY <1>1 DEF Larger
  <2> QED BY Zenon, <2>1, MinNat DEF FreeListHas
<1>3. b \in 0..NumBuckets - 1 /\ bits(size) < b /\ h.list[b] # <<>>
  BY <1>1, <1>2 DEF Larger
<1> HIDE DEF b
<1>4. /\ p \in FreeBlocks(h) /\ bits(BlockAt(h, p).size) = b
      /\ Listed(h, [h.list EXCEPT ![b] = Tail(@)], FreeBlocks(h) \ {p})
  BY Zenon, <1>3, PopListed DEF ListOK
<1> HIDE DEF p
<1>5. BlockAt(h, p).size \in Nat
  BY <1>4, FreeBlocksTyped, SizesAssumption
<1>6. size < BlockAt(h, p).size
  BY Zenon, <1>0, <1>3, <1>4, <1>5, BitsBelow
<1> QED BY Zenon, <1>0, <1>4, <1>5, <1>6 DEF b, p

\* the free blocks other than the one handed out are the same
LEMMA SameFreeBut ==
  ASSUME NEW h, NEW g, Shape(h), Shape(g), NEW p \in FreeBlocks(h),
         Len(g.chunk) = Len(h.chunk), g.chunk[p.chunk].mark = h.chunk[p.chunk].mark,
         \A y \in DOMAIN h.chunk[p.chunk].at :
           y # p.off => y \in DOMAIN g.chunk[p.chunk].at
                        /\ g.chunk[p.chunk].at[y] = h.chunk[p.chunk].at[y],
         \A d \in DOMAIN h.chunk : d # p.chunk => g.chunk[d] = h.chunk[d]
  PROVE  SameFree(h, g, FreeBlocks(h) \ {p})
<1> SUFFICES ASSUME NEW q \in FreeBlocks(h), q # p
             PROVE  q \in FreeBlocks(g) /\ BlockAt(g, q) = BlockAt(h, q)
  BY Zenon DEF SameFree
<1>1. /\ q = Small(q.chunk, q.off) /\ q.chunk \in DOMAIN h.chunk
      /\ q.off \in DOMAIN h.chunk[q.chunk].at /\ q.off >= h.chunk[q.chunk].mark
      /\ h.chunk[q.chunk].at[q.off].obj = NoObj
      /\ p = Small(p.chunk, p.off)
  BY Zenon, FreeBlocksTyped
<1>2. DOMAIN g.chunk = DOMAIN h.chunk
  BY Zenon, ShapeFields
<1>3. /\ q.off \in DOMAIN g.chunk[q.chunk].at /\ g.chunk[q.chunk].at[q.off] = h.chunk[q.chunk].at[q.off]
      /\ g.chunk[q.chunk].mark = h.chunk[q.chunk].mark
  <2>1. CASE q.chunk = p.chunk
    <3>1. q.off # p.off
      BY Zenon, <1>1, <2>1
    <3> QED BY Zenon, <1>1, <2>1, <3>1
  <2>2. CASE q.chunk # p.chunk
    BY Zenon, <1>1, <2>2
  <2> QED BY Zenon, <2>1, <2>2
<1>4. Small(q.chunk, q.off) \in FreeBlocks(g)
  BY Zenon, <1>1, <1>2, <1>3, FreeBlocksTyped
<1> QED BY Zenon, <1>1, <1>3, <1>4 DEF BlockAt

\* SmallBlockFreeList::Alloc
LEMMA FreeListAdds ==
  ASSUME NEW h, Layout(h), ListOK(h), NEW size \in SmallSizes, NEW o \in Objs \ LargeObjs,
         o \notin Allocated(h), FreeListHas(h, size)
  PROVE  Makes(h, FreeListAlloc(h, size, o), o)
<1> DEFINE b == Min(Larger(h, size))
           p == Head(h.list[b])
           rest == BlockAt(h, p).size - size
           popped == [h.list EXCEPT ![b] = Tail(@)]
           k == h.chunk[p.chunk]
           cut == Split(k, p.off, rest, Block(size, o))
           whole == Take(k, p.off, o)
           l == AddFreeBlock(popped, p, rest)
           g == FreeListAlloc(h, size, o)
<1>0. /\ Shape(h) /\ h \in HeapType /\ h.cur \in 1..Len(h.chunk) /\ size \in MinSmall..ChunkSize
      /\ size \in Nat /\ MinSmall \in Nat /\ MinSmall >= 1
  BY SizesAssumption DEF Layout, Shape
<1>1. /\ p \in FreeBlocks(h) /\ BlockAt(h, p).size > size
      /\ Listed(h, popped, FreeBlocks(h) \ {p})
  BY Zenon, <1>0, FreeListEntry
<1>2. /\ rest >= MinSmall => g = WithList(PutChunk(h, p.chunk, cut), l)
      /\ ~(rest >= MinSmall) => g = WithList(PutChunk(h, p.chunk, whole), popped)
  <2>1. g = IF rest >= MinSmall THEN [h EXCEPT !.chunk[p.chunk] = cut, !.list = l]
            ELSE [h EXCEPT !.chunk[p.chunk] = whole, !.list = popped]
    BY Zenon DEF FreeListAlloc
  <2> HIDE DEF g, cut, whole, l, popped, p, rest
  <2> QED BY Zenon, <1>0, <2>1 DEF PutChunk, WithList, HeapType
<1> HIDE DEF g, b, popped
<1> HIDE DEF p
<1>3. /\ p = Small(p.chunk, p.off) /\ p.chunk \in DOMAIN h.chunk /\ p.off \in DOMAIN k.at
      /\ FreeAt(k, p.off) /\ Tidy(k) /\ BlockAt(h, p) = k.at[p.off]
      /\ BlockAt(h, p).size \in Nat
  BY <1>0, <1>1, FreeBlocksTyped, ShapeFields, SizesAssumption DEF FreeAt
<1>4. popped \in [0..NumBuckets - 1 -> Seq(Address)]
  BY Zenon, <1>1 DEF Listed
<1>5. rest = k.at[p.off].size - size
  BY Zenon, <1>3
<1> HIDE DEF rest
<1>6. CASE rest >= MinSmall
  <2> DEFINE e == PutChunk(h, p.chunk, cut)
  <2>1. /\ AddsAt(k, cut, p.off + rest, o) /\ rest \in MinSmall..ChunkSize
        /\ p.off \in DOMAIN cut.at /\ cut.at[p.off].obj = NoObj /\ cut.at[p.off].size = rest
        /\ \A y \in DOMAIN k.at : y # p.off => y \in DOMAIN cut.at /\ cut.at[y] = k.at[y]
    <3> DEFINE x == p.off
    <3>1. Tidy(k) /\ x \in DOMAIN k.at /\ FreeAt(k, x) /\ rest = k.at[x].size - size
      BY Zenon, <1>3, <1>5
    <3> HIDE DEF x, k
    <3>2. CutSpec(k, Split(k, x, rest, Block(size, o)), x, rest, o)
      BY Zenon, <1>0, <1>6, <3>1, SplitAddsAt
    <3>3. CutSpec(k, cut, x, rest, o)
      BY Zenon, <3>2 DEF x
    <3> HIDE DEF cut
    <3> QED BY Zenon, <3>3 DEF CutSpec, x
  <2> HIDE DEF cut
  <2>2. Tidy(cut) /\ cut.mark = k.mark
    BY Zenon, <2>1 DEF AddsAt
  <2>3. /\ Shape(e) /\ Len(e.chunk) = Len(h.chunk) /\ e.chunk[p.chunk] = cut
        /\ \A d \in DOMAIN h.chunk : d # p.chunk => e.chunk[d] = h.chunk[d]
        /\ e.pre = h.pre /\ e.post = h.post /\ KeepsRest(h, e)
        /\ e.cur = h.cur /\ e.list = h.list /\ e.using = h.using
    BY <1>0, <1>3, <2>2, PutChunkShape
  <2> HIDE DEF e
  <2>4. SameFree(h, e, FreeBlocks(h) \ {p})
    BY Zenon, <1>0, <1>1, <2>1, <2>2, <2>3, SameFreeBut
  <2>5. Listed(e, popped, FreeBlocks(h) \ {p})
    BY Zenon, <1>1, <2>4, ListedMove
  <2>6. p \in FreeBlocks(e) /\ BlockAt(e, p).size = rest
    <3>1. DOMAIN e.chunk = DOMAIN h.chunk
      BY Zenon, <1>0, <2>3, ShapeFields
    <3>2. Small(p.chunk, p.off) \in FreeBlocks(e)
      BY Zenon, <1>3, <2>1, <2>2, <2>3, <3>1, FreeBlocksTyped DEF FreeAt
    <3> QED BY Zenon, <1>3, <2>1, <2>3, <3>2 DEF BlockAt
  <2>7. Listed(e, l, (FreeBlocks(h) \ {p}) \cup {p})
    BY Zenon, <2>3, <2>5, <2>6, ListedAdd
  <2>8. l \in [0..NumBuckets - 1 -> Seq(Address)]
    BY Zenon, <2>7 DEF Listed
  <2> HIDE DEF l
  <2>9. /\ Only(e, g) /\ g.cur = e.cur /\ g.list = l /\ g.using = e.using
    BY <1>2, <1>6, <2>3, <2>8, SetList DEF e
  <2>10. /\ Shape(g) /\ g.chunk = e.chunk /\ g.pre = e.pre /\ g.post = e.post /\ KeepsRest(h, g)
    BY Zenon, <2>3, <2>9 DEF Only, KeepsRest
  <2>11. Adds(h, g, o)
    <3> DEFINE c == p.chunk
               x == p.off + rest
    <3>1. /\ c \in DOMAIN h.chunk /\ AddsAt(h.chunk[c], cut, x, o) /\ g.chunk[c] = cut
          /\ Len(g.chunk) = Len(h.chunk) /\ \A d \in DOMAIN h.chunk : d # c => g.chunk[d] = h.chunk[d]
          /\ g.pre = h.pre /\ g.post = h.post /\ g.cur \in 1..Len(h.chunk)
      BY Zenon, <1>0, <1>3, <2>1, <2>3, <2>9, <2>10
    <3> HIDE DEF c, x
    <3> QED BY Zenon, <2>10, <3>1, AddsSmall
  <2>12. FreeBlocks(g) = FreeBlocks(e) /\ \A q : BlockAt(g, q) = BlockAt(e, q)
    BY <2>10 DEF FreeBlocks, Blocks, BlockAt, AboveMark
  <2>13. Listed(g, l, FreeBlocks(g))
    BY Zenon, <2>7, <2>12 DEF Listed
  <2> QED BY Zenon, <2>9, <2>11, <2>13 DEF Makes, FreeListOK, ListOK, g
<1>7. CASE ~(rest >= MinSmall)
  <2> DEFINE e == PutChunk(h, p.chunk, whole)
  <2>1. /\ AddsAt(k, whole, p.off, o)
        /\ \A y \in DOMAIN k.at : y # p.off => y \in DOMAIN whole.at /\ whole.at[y] = k.at[y]
    <3> HIDE DEF k
    <3> QED BY Zenon, <1>3, TakeAddsAt
  <2> HIDE DEF whole
  <2>2. Tidy(whole) /\ whole.mark = k.mark
    BY Zenon, <2>1 DEF AddsAt
  <2>3. /\ Shape(e) /\ Len(e.chunk) = Len(h.chunk) /\ e.chunk[p.chunk] = whole
        /\ \A d \in DOMAIN h.chunk : d # p.chunk => e.chunk[d] = h.chunk[d]
        /\ e.pre = h.pre /\ e.post = h.post /\ KeepsRest(h, e)
        /\ e.cur = h.cur /\ e.list = h.list /\ e.using = h.using
    BY <1>0, <1>3, <2>2, PutChunkShape
  <2> HIDE DEF e
  <2>4. SameFree(h, e, FreeBlocks(h) \ {p})
    BY Zenon, <1>0, <1>1, <2>1, <2>2, <2>3, SameFreeBut
  <2>5. Listed(e, popped, FreeBlocks(h) \ {p})
    BY Zenon, <1>1, <2>4, ListedMove
  <2>9. /\ Only(e, g) /\ g.cur = e.cur /\ g.list = popped /\ g.using = e.using
    BY <1>2, <1>4, <1>7, <2>3, SetList DEF e
  <2>10. /\ Shape(g) /\ g.chunk = e.chunk /\ g.pre = e.pre /\ g.post = e.post /\ KeepsRest(h, g)
    BY Zenon, <2>3, <2>9 DEF Only, KeepsRest
  <2>11. Adds(h, g, o)
    <3> DEFINE c == p.chunk
               x == p.off
    <3>1. /\ c \in DOMAIN h.chunk /\ AddsAt(h.chunk[c], whole, x, o) /\ g.chunk[c] = whole
          /\ Len(g.chunk) = Len(h.chunk) /\ \A d \in DOMAIN h.chunk : d # c => g.chunk[d] = h.chunk[d]
          /\ g.pre = h.pre /\ g.post = h.post /\ g.cur \in 1..Len(h.chunk)
      BY Zenon, <1>0, <1>3, <2>1, <2>3, <2>9, <2>10
    <3> HIDE DEF c, x
    <3> QED BY Zenon, <2>10, <3>1, AddsSmall
  <2>12. FreeBlocks(g) = FreeBlocks(e) /\ \A q : BlockAt(g, q) = BlockAt(e, q)
    BY <2>10 DEF FreeBlocks, Blocks, BlockAt, AboveMark
  <2>13. Listed(g, popped, FreeBlocks(g))
    BY Zenon, <2>5, <2>12 DEF Listed
  <2> QED BY Zenon, <2>9, <2>11, <2>13 DEF Makes, FreeListOK, ListOK, g
<1> QED BY Zenon, <1>6, <1>7

\* g has object o besides what a scan of h has left
From(h, r, m, g, o) ==
  \E k : /\ Good(k, r, m) /\ Shrinks(h, k) /\ o \notin Allocated(k)
         /\ Makes(k, g, o)

\* The allocating chunk may be any chunk.
LEMMA GoodCur ==
  ASSUME NEW h, NEW r, NEW m, Good(h, r, m), NEW c \in 1..Len(h.chunk)
  PROVE  LET g == WithCur(h, c)
         IN  Good(g, r, m) /\ Shrinks(h, g) /\ g.using = h.using /\ g.list = h.list
<1> DEFINE g == WithCur(h, c)
<1>0. Sound(h, r, m) /\ Shape(h) /\ c \in Nat
  BY Zenon, ShapeFields DEF Good, Sound, Layout
<1>1. Only(h, g) /\ g.cur = c /\ g.list = h.list /\ g.using = h.using
  BY Zenon, <1>0, SetCur
<1> HIDE DEF g
<1>2. /\ Sound(g, r, m) /\ Shrinks(h, g) /\ FreeBlocks(g) = FreeBlocks(h)
      /\ \A l, S : Listed(h, l, S) => Listed(g, l, S)
  BY Zenon, <1>0, <1>1, OnlySound
<1>3. FreeListOK(g)
  BY Zenon, <1>1, <1>2 DEF Good, FreeListOK, ListOK
<1> QED BY Zenon, <1>1, <1>2, <1>3 DEF Good, g

\* A new chunk keeps the heap good.
LEMMA NewChunkGood ==
  ASSUME NEW h, NEW r, NEW m, Good(h, r, m)
  PROVE  LET g == AllocateChunk(h)
         IN  /\ Good(g, r, m) /\ Shrinks(h, g)
             /\ Len(g.chunk) = Len(h.chunk) + 1 /\ g.chunk[Len(g.chunk)] = NewChunk
<1> DEFINE g == AllocateChunk(h)
<1>0. Sound(h, r, m) /\ Layout(h) /\ Shape(h) /\ h.cur \in 1..Len(h.chunk) /\ Len(h.chunk) \in Nat
  BY Zenon, ShapeFields DEF Good, Sound, Layout
<1>1. /\ Shape(g) /\ KeepsBlocks(h, g) /\ KeepsRest(h, g)
      /\ g.cur = h.cur /\ g.using = h.using /\ g.list = h.list
      /\ Len(g.chunk) = Len(h.chunk) + 1
      /\ \A c \in DOMAIN h.chunk : g.chunk[c] = h.chunk[c]
      /\ g.chunk[Len(h.chunk) + 1] = NewChunk
  BY Zenon, <1>0, AllocateChunkKeeps
<1> HIDE DEF g
<1>2. g.cur \in 1..Len(g.chunk)
  BY <1>0, <1>1
<1>3. Sound(g, r, m)
  BY Zenon, <1>0, <1>1, <1>2, KeepsSound
<1>4. Allocated(g) = Allocated(h)
  BY Zenon, <1>0, <1>1, KeepsView
<1>5. Kept(h, g)
  BY Zenon, <1>0, <1>1, KeepsKept
<1>6. Shrinks(h, g)
  BY Zenon, <1>1, <1>4, <1>5 DEF Shrinks, KeepsRest
<1>7. SameFree(h, g, FreeBlocks(h))
  <2> SUFFICES ASSUME NEW p \in FreeBlocks(h)
               PROVE  p \in FreeBlocks(g) /\ BlockAt(g, p) = BlockAt(h, p)
    BY Zenon DEF SameFree
  <2>1. /\ p = Small(p.chunk, p.off) /\ p.chunk \in DOMAIN h.chunk
        /\ p.off \in DOMAIN h.chunk[p.chunk].at /\ p.off >= h.chunk[p.chunk].mark
        /\ h.chunk[p.chunk].at[p.off].obj = NoObj
    BY Zenon, <1>0, FreeBlocksTyped
  <2>2. DOMAIN h.chunk = 1..Len(h.chunk) /\ DOMAIN g.chunk = 1..Len(g.chunk)
    BY Zenon, <1>0, <1>1, ShapeFields
  <2>3. p.chunk \in DOMAIN g.chunk
    BY <1>0, <1>1, <2>1, <2>2
  <2>4. Small(p.chunk, p.off) \in FreeBlocks(g)
    BY Zenon, <1>1, <2>1, <2>3, FreeBlocksTyped
  <2> QED BY Zenon, <1>1, <2>1, <2>4 DEF BlockAt
<1>8. FreeListOK(g)
  <2> SUFFICES ASSUME g.using PROVE ListOK(g)
    BY Zenon DEF FreeListOK
  <2>1. Listed(h, h.list, FreeBlocks(h))
    BY Zenon, <1>1 DEF Good, FreeListOK, ListOK
  <2>2. Listed(g, g.list, FreeBlocks(h))
    BY Zenon, <2>1, <1>1, <1>7, ListedMove
  <2>3. Listed(g, g.list, FreeBlocks(g))
    BY Zenon, <2>2 DEF Listed
  <2> QED BY Zenon, <2>3 DEF ListOK
<1> QED BY Zenon, <1>0, <1>1, <1>3, <1>6, <1>8 DEF Good, g

\* An allocation after a scan.
LEMMA FromShrunk ==
  ASSUME NEW h, NEW r, NEW m, NEW k, NEW g, NEW o, Shrinks(h, k), From(k, r, m, g, o)
  PROVE  From(h, r, m, g, o)
<1>1. PICK l : /\ Good(l, r, m) /\ Shrinks(k, l) /\ o \notin Allocated(l)
               /\ Makes(l, g, o)
  BY Zenon DEF From
<1>2. Shrinks(h, l)
  BY Zenon, <1>1, ShrinksTrans
<1> QED BY Zenon, <1>1, <1>2 DEF From

\* No scan at all.
LEMMA GoodShrinks ==
  ASSUME NEW h, NEW r, NEW m, Good(h, r, m)
  PROVE  Shrinks(h, h) /\ Layout(h) /\ FreeListOK(h)
BY Zenon, KeptRefl DEF Shrinks, Good, Sound

\* Memory::Alloc in a chunk with room.
LEMMA FromArena ==
  ASSUME NEW h, NEW r, NEW m, Good(h, r, m), NEW size \in SmallSizes,
         NEW o \in Objs \ LargeObjs, o \notin Allocated(h), Arena(h, size) # {}
  PROVE  From(h, r, m, ArenaAlloc(h, size, o), o)
BY Zenon, GoodShrinks, ArenaAdds DEF From

\* Memory::Alloc from the free list.
LEMMA FromFreeList ==
  ASSUME NEW h, NEW r, NEW m, Good(h, r, m), NEW size \in SmallSizes,
         NEW o \in Objs \ LargeObjs, o \notin Allocated(h), h.using, FreeListHas(h, size)
  PROVE  From(h, r, m, FreeListAlloc(h, size, o), o)
<1>1. ListOK(h)
  BY Zenon, GoodShrinks DEF FreeListOK
<1> QED BY Zenon, <1>1, GoodShrinks, FreeListAdds DEF From

\* Memory::Alloc in a new chunk.
LEMMA FromNewChunk ==
  ASSUME NEW h, NEW r, NEW m, Good(h, r, m), NEW size \in SmallSizes,
         NEW o \in Objs \ LargeObjs, o \notin Allocated(h)
  PROVE  From(h, r, m, AllocateInNew(h, size, o), o)
<1> DEFINE k == AllocateChunk(h)
           n == Len(k.chunk)
           e == WithCur(k, n)
<1>1. Good(k, r, m) /\ Shrinks(h, k) /\ n = Len(h.chunk) + 1 /\ k.chunk[n] = NewChunk
  BY Zenon, NewChunkGood
<1>2. AllocateInNew(h, size, o) = ArenaAlloc(e, size, o)
  BY Zenon DEF AllocateInNew, WithCur
<1> HIDE DEF k
<1>3. n \in 1..n /\ n \in Nat
  <2>1. Len(h.chunk) \in Nat
    BY Zenon, ShapeFields DEF Good, Sound, Layout
  <2> QED BY <1>1, <2>1
<1>4. Good(e, r, m) /\ Shrinks(k, e)
  BY Zenon, <1>1, <1>3, GoodCur
<1>5. e.chunk = k.chunk /\ e.cur = n
  <2>1. Shape(k)
    BY Zenon, <1>1 DEF Good, Sound, Layout
  <2> QED BY Zenon, <1>3, <2>1, SetCur DEF Only
<1> HIDE DEF e, n
<1>6. e.chunk[n].top = 0 /\ Len(e.chunk) = n
  BY <1>1, <1>5 DEF NewChunk, n
<1>7. n \in Arena(e, size)
  <2>1. size \in Nat /\ 0 + size <= ChunkSize
    BY SizesAssumption
  <2> QED BY <1>3, <1>5, <1>6, <2>1 DEF Arena, Fits
<1>8. Shrinks(h, e) /\ o \notin Allocated(e)
  BY Zenon, <1>1, <1>4, ShrinksTrans DEF Shrinks
<1>9. From(e, r, m, ArenaAlloc(e, size, o), o)
  BY Zenon, <1>4, <1>7, <1>8, FromArena
<1> QED BY Zenon, <1>2, <1>8, <1>9, FromShrunk

\* Memory::Alloc of a small block
LEMMA FromSmall ==
  ASSUME NEW h, NEW r, NEW m, Good(h, r, m), h.postMark \/ ~h.marked, NEW size \in SmallSizes,
         NEW o \in Objs \ LargeObjs, o \notin Allocated(h), NEW g \in SmallAlloc(h, size, o)
  PROVE  From(h, r, m, g, o)
<1> DEFINE full == WithCur(h, Len(h.chunk))
           again(enough) == FreeUnusedSmallBlocks(FreeUnusedLargeBlocks(full), TRUE, enough)
           last(k) == IF k.using /\ FreeListHas(k, size) THEN FreeListAlloc(k, size, o)
                      ELSE AllocateInNew(k, size, o)
<1>0. h.cur \in 1..Len(h.chunk) /\ Len(h.chunk) \in Nat
  BY Zenon, ShapeFields DEF Good, Sound, Layout
<1>1. Good(full, r, m) /\ Shrinks(h, full)
  BY <1>0, GoodCur
<1>2. CASE Arena(h, size) # {}
  <2>1. g = ArenaAlloc(h, size, o)
    BY Zenon, <1>2 DEF SmallAlloc
  <2> QED BY Zenon, <1>2, <2>1, FromArena
<1>3. CASE Arena(h, size) = {}
  <2>1. \E k \in {full, Reclaim(full), again(FALSE), again(TRUE)} : g = last(k)
    BY Zenon, <1>3 DEF SmallAlloc, CheckGCThreshold, WithCur
  <2> HIDE DEF full
  <2>2. full.postMark \/ ~full.marked
    BY Zenon, <1>1 DEF Shrinks
  <2>3. Good(Reclaim(full), r, m) /\ Shrinks(full, Reclaim(full))
    BY Zenon, <1>1, <2>2, ReclaimGood
  <2>4. ASSUME NEW enough \in BOOLEAN
        PROVE  Good(again(enough), r, m) /\ Shrinks(full, again(enough))
    <3> DEFINE l == FreeUnusedLargeBlocks(full)
    <3>1. Good(l, r, m) /\ Shrinks(full, l)
      BY Zenon, <1>1, <2>2, LargeUnusedGood
    <3> HIDE DEF l
    <3>2. Good(FreeUnusedSmallBlocks(l, TRUE, enough), r, m) /\ Shrinks(l, FreeUnusedSmallBlocks(l, TRUE, enough))
      BY Zenon, <3>1, SmallUnusedGood
    <3>3. Shrinks(full, FreeUnusedSmallBlocks(l, TRUE, enough))
      BY Zenon, <3>1, <3>2, ShrinksTrans
    <3> QED BY Zenon, <3>2, <3>3 DEF l
  <2> HIDE DEF again, last
  <2>5. PICK k \in {full, Reclaim(full), again(FALSE), again(TRUE)} : g = last(k)
    BY Zenon, <2>1
  <2>6. Good(k, r, m) /\ Shrinks(full, k)
    <3>1. CASE k = full
      BY Zenon, <1>1, <3>1, GoodShrinks
    <3>2. CASE k = Reclaim(full)
      BY Zenon, <2>3, <3>2
    <3>3. CASE k = again(FALSE)
      BY Zenon, <2>4, <3>3
    <3>4. CASE k = again(TRUE)
      BY Zenon, <2>4, <3>4
    <3> QED BY Zenon, <2>5, <3>1, <3>2, <3>3, <3>4
  <2>7. Shrinks(h, k) /\ o \notin Allocated(k)
    BY Zenon, <1>1, <2>6, ShrinksTrans DEF Shrinks
  <2>8. From(k, r, m, g, o)
    <3>1. CASE k.using /\ FreeListHas(k, size)
      BY Zenon, <2>5, <2>6, <2>7, <3>1, FromFreeList DEF last
    <3>2. CASE ~(k.using /\ FreeListHas(k, size))
      BY Zenon, <2>5, <2>6, <2>7, <3>2, FromNewChunk DEF last
    <3> QED BY Zenon, <3>1, <3>2
  <2> QED BY Zenon, <2>7, <2>8, FromShrunk
<1> QED BY Zenon, <1>2, <1>3

WithLarge(h, pre, post) == [h EXCEPT !.pre = pre, !.post = post]

\* malloc of a large block
LEMMA LargeAdds ==
  ASSUME NEW h, Layout(h), FreeListOK(h), h.postMark \/ ~h.marked, NEW o \in LargeObjs,
         o \notin Allocated(h), NEW pre, NEW post,
         \/ h.postMark /\ pre = h.pre /\ post = h.post \cup {o}
         \/ ~h.postMark /\ pre = h.pre \cup {o} /\ post = h.post
  PROVE  Makes(h, WithLarge(h, pre, post), o)
<1> DEFINE g == WithLarge(h, pre, post)
<1>0. /\ Shape(h) /\ h \in HeapType /\ Unique(h) /\ Marks(h) /\ h.cur \in 1..Len(h.chunk)
      /\ h.pre \cap h.post = {} /\ h.pre \subseteq LargeObjs /\ h.post \subseteq LargeObjs
      /\ o \in Objs /\ o # NoObj /\ o \notin h.pre /\ o \notin h.post
      /\ h.postMark \in BOOLEAN /\ h.marked \in BOOLEAN
  BY Zenon, ShapeFields, SizesAssumption DEF Layout, Shape, Allocated, Large
<1>1. /\ pre \in SUBSET LargeObjs /\ post \in SUBSET LargeObjs /\ pre \cap post = {}
      /\ pre \cup post = (h.pre \cup h.post) \cup {o} /\ (h.marked => pre = h.pre)
      /\ (~h.marked => post = h.post)
  BY Zenon, <1>0 DEF Marks
<1>2. /\ g \in HeapType /\ g.chunk = h.chunk /\ g.cur = h.cur /\ g.list = h.list
      /\ g.using = h.using /\ g.pre = pre /\ g.post = post /\ KeepsRest(h, g)
  BY Zenon, <1>0, <1>1 DEF WithLarge, HeapType, KeepsRest
<1> HIDE DEF g
<1>3. Shape(g)
  BY Zenon, <1>0, <1>2 DEF Shape
<1>4. \A c, x, q : Sits(g, c, x, q) <=> Sits(h, c, x, q)
  BY Zenon, <1>2 DEF Sits
<1>5. Unique(g)
  BY <1>0, <1>4 DEF Unique
<1>6. Marks(g)
  BY Zenon, <1>0, <1>1, <1>2 DEF Marks, KeepsRest
<1>7. Layout(g)
  BY Zenon, <1>0, <1>1, <1>2, <1>3, <1>5, <1>6 DEF Layout
<1>8. Large(g) = Large(h) \cup {o}
  BY Zenon, <1>1, <1>2 DEF Large
<1>9. /\ Blocks(g) = Blocks(h) /\ \A p : BlockAt(g, p) = BlockAt(h, p)
      /\ \A p : AboveMark(g, p) = AboveMark(h, p)
  BY <1>2 DEF Blocks, BlockAt, AboveMark
<1>10. Allocated(g) = Allocated(h) \cup {o}
  BY Zenon, <1>8, <1>9 DEF Allocated
<1>11. h.marked => Old(g) = Old(h)
  BY Zenon, <1>1, <1>2, <1>9 DEF Old
<1>12. h.marked => Kept(h, g)
  <2>1. Kept(h, h)
    BY Zenon, KeptRefl
  <2> QED BY Zenon, <1>1, <1>2, <2>1 DEF Kept, KeepsRest
<1>13. ASSUME NEW p, NEW q, q # NoObj, Target(h, p) = q PROVE Target(g, p) = q
  <2>1. (p = q /\ q \in Large(h)) \/ \E d, y : p = Small(d, y) /\ Sits(h, d, y, q)
    BY Zenon, <1>0, <1>13, TargetView
  <2>2. (p = q /\ q \in Large(g)) \/ \E d, y : p = Small(d, y) /\ Sits(g, d, y, q)
    BY Zenon, <1>4, <1>8, <2>1
  <2> QED BY Zenon, <1>3, <1>13, <2>2, TargetView
<1>14. PointerTo(g, o) = o /\ Target(g, o) = o
  BY Zenon, <1>0, <1>3, <1>8, TargetView DEF PointerTo
<1>15. Adds(h, g, o)
  BY Zenon, <1>0, <1>2, <1>7, <1>10, <1>11, <1>12, <1>13, <1>14 DEF Adds, Pointer
<1>16. FreeBlocks(g) = FreeBlocks(h)
  BY <1>9 DEF FreeBlocks
<1>17. FreeListOK(g)
  BY <1>2, <1>9, <1>16 DEF FreeListOK, ListOK, Listed
<1> QED BY Zenon, <1>15, <1>17 DEF Makes, g

\* Memory::Alloc of a large block, on any of its paths.
LEMMA FromLarge ==
  ASSUME NEW h, NEW r, NEW m, Good(h, r, m), h.postMark \/ ~h.marked,
         NEW o \in LargeObjs, o \notin Allocated(h), NEW g \in LargeAlloc(h, o)
  PROVE  From(h, r, m, g, o)
<1> DEFINE small(enough) == FreeUnusedSmallBlocks(h, TRUE, enough)
           again(enough) == FreeUnusedLargeBlocks(small(enough))
           pre(k) == IF k.postMark THEN k.pre ELSE k.pre \cup {o}
           post(k) == IF k.postMark THEN k.post \cup {o} ELSE k.post
           add(k) == IF k.postMark THEN [k EXCEPT !.post = @ \cup {o}]
                     ELSE [k EXCEPT !.pre = @ \cup {o}]
<1>1. \E l \in {h, again(FALSE), again(TRUE)} : \E k \in {l, Reclaim(l)} : g = add(k)
  <2>1. g \in {add(k) : k \in UNION {CheckGCThreshold(l) : l \in {h, again(FALSE), again(TRUE)}}}
    BY Zenon DEF LargeAlloc
  <2> HIDE DEF add, again
  <2>2. PICK k \in UNION {CheckGCThreshold(l) : l \in {h, again(FALSE), again(TRUE)}} : g = add(k)
    BY Zenon, <2>1
  <2>3. PICK l \in {h, again(FALSE), again(TRUE)} : k \in CheckGCThreshold(l)
    BY Zenon, <2>2
  <2> QED BY Zenon, <2>2, <2>3 DEF CheckGCThreshold
<1>2. ASSUME NEW enough \in BOOLEAN
      PROVE  Good(again(enough), r, m) /\ Shrinks(h, again(enough))
  <2>1. Good(small(enough), r, m) /\ Shrinks(h, small(enough))
    BY Zenon, SmallUnusedGood
  <2> HIDE DEF small
  <2>2. small(enough).postMark \/ ~small(enough).marked
    BY Zenon, <2>1 DEF Shrinks
  <2>3. Good(again(enough), r, m) /\ Shrinks(small(enough), again(enough))
    BY Zenon, <2>1, <2>2, LargeUnusedGood
  <2> QED BY Zenon, <2>1, <2>3, ShrinksTrans
<1> HIDE DEF again, add
<1>3. PICK l \in {h, again(FALSE), again(TRUE)} : \E k \in {l, Reclaim(l)} : g = add(k)
  BY Zenon, <1>1
<1>4. Good(l, r, m) /\ Shrinks(h, l)
  <2>1. FALSE \in BOOLEAN /\ TRUE \in BOOLEAN
    BY Zenon
  <2>2. CASE l = h
    BY Zenon, <2>2, GoodShrinks
  <2>3. CASE l = again(FALSE)
    BY Zenon, <1>2, <2>1, <2>3
  <2>4. CASE l = again(TRUE)
    BY Zenon, <1>2, <2>1, <2>4
  <2> QED BY Zenon, <1>3, <2>2, <2>3, <2>4
<1>5. PICK k \in {l, Reclaim(l)} : g = add(k)
  BY Zenon, <1>3
<1>6. l.postMark \/ ~l.marked
  BY Zenon, <1>4 DEF Shrinks
<1>7. Good(k, r, m) /\ Shrinks(l, k)
  <2>1. CASE k = l
    BY Zenon, <1>4, <2>1, GoodShrinks
  <2>2. CASE k = Reclaim(l)
    BY Zenon, <1>4, <1>6, <2>2, ReclaimGood
  <2> QED BY Zenon, <1>5, <2>1, <2>2
<1>8. Shrinks(h, k)
  BY Zenon, <1>4, <1>7, ShrinksTrans
<1>9. o \notin Allocated(k) /\ (k.postMark \/ ~k.marked)
  BY Zenon, <1>8 DEF Shrinks
<1>10. Layout(k) /\ FreeListOK(k) /\ k \in HeapType
  BY Zenon, <1>7, GoodShrinks DEF Layout, Shape
<1>11. g = WithLarge(k, pre(k), post(k))
  <2>1. CASE k.postMark
    <3>1. g = [k EXCEPT !.post = k.post \cup {o}] /\ pre(k) = k.pre /\ post(k) = k.post \cup {o}
      BY Zenon, <1>5, <2>1 DEF add
    <3> QED BY Zenon, <1>10, <3>1 DEF WithLarge, HeapType
  <2>2. CASE ~k.postMark
    <3>1. g = [k EXCEPT !.pre = k.pre \cup {o}] /\ pre(k) = k.pre \cup {o} /\ post(k) = k.post
      BY Zenon, <1>5, <2>2 DEF add
    <3> QED BY Zenon, <1>10, <3>1 DEF WithLarge, HeapType
  <2> QED BY Zenon, <2>1, <2>2
<1>12. \/ k.postMark /\ pre(k) = k.pre /\ post(k) = k.post \cup {o}
       \/ ~k.postMark /\ pre(k) = k.pre \cup {o} /\ post(k) = k.post
  BY Zenon
<1>13. Makes(k, WithLarge(k, pre(k), post(k)), o)
  <2> HIDE DEF pre, post
  <2> QED BY Zenon, <1>9, <1>10, <1>12, LargeAdds
<1> QED BY Zenon, <1>7, <1>8, <1>9, <1>11, <1>13 DEF From
=============================================================================
