--------------------------- MODULE HeapMarkProofs ---------------------------
(***************************************************************************)
(* Compaction, Mark and Release: the blocks that move, the pointers that   *)
(* are adjusted, and what a Release frees.                                 *)
(***************************************************************************)
EXTENDS HeapBlockProofs

\* Chunk::ReleaseToMark
LEMMA TidyRelease ==
  ASSUME NEW k, Tidy(k)
  PROVE  LET g == ReleaseToMark(k)
         IN  /\ Tidy(g) /\ g.mark = k.mark /\ g.top = k.mark
             /\ DOMAIN g.at = {x \in DOMAIN k.at : x < k.mark}
             /\ \A x \in DOMAIN g.at : g.at[x] = k.at[x]
<1> DEFINE D == {x \in DOMAIN k.at : x < k.mark}
           at == [x \in D |-> k.at[x]]
           g == [mark |-> k.mark, top |-> k.mark, at |-> at]
<1>1. ReleaseToMark(k) = g
  BY Zenon DEF ReleaseToMark
<1>2. DOMAIN at = D /\ at = [x \in D |-> at[x]] /\ \A x \in D : at[x] = k.at[x]
  BY Zenon
<1>3. /\ D \in SUBSET (DOMAIN k.at) /\ k.mark \in Nat /\ k.mark <= k.mark /\ k.mark <= k.top
      /\ \A x \in D : x + k.at[x].size <= k.mark
  BY ChunkFields
<1> HIDE DEF at
<1>4. Tidy(g)
  <2> HIDE DEF D
  <2> QED BY Zenon, <1>2, <1>3, TidyFewer
<1> QED BY <1>1, <1>2, <1>4

\* Chunk::SetMark
LEMMA TidySetMark ==
  ASSUME NEW k, Tidy(k)
  PROVE  Tidy(SetMark(k))
<1>1. k.at \in [DOMAIN k.at -> BlockType]
  BY Zenon, ChunkFields, AtElim
<1>2. /\ k.top \in 0..ChunkSize /\ k.top <= k.top /\ DOMAIN k.at \in SUBSET (0..ChunkSize)
      /\ \A x \in DOMAIN k.at : /\ x + k.at[x].size <= k.top
                                /\ x < k.top => x + k.at[x].size <= k.top
      /\ \A x, y \in DOMAIN k.at : x < y => x + k.at[x].size <= y
  BY ChunkFields
<1>3. Tidy([mark |-> k.top, top |-> k.top, at |-> k.at])
  BY Zenon, <1>1, <1>2, ChunkIntro
<1> QED BY Zenon, <1>3 DEF SetMark

-----------------------------------------------------------------------------
(* Compaction.                                                             *)

Covered(k, y) == \E z \in DOMAIN k.at : k.at[z].obj # NoObj /\ y \in z..z + k.at[z].size - 1
LiveIn(k, x) == {y \in k.mark..x - 1 : Covered(k, y)}

\* what is live before x, and before the block that follows x
LEMMA LiveBytesNat ==
  ASSUME NEW k, Tidy(k), NEW x \in Nat, k.mark <= x
  PROVE  /\ IsFiniteSet(LiveIn(k, x)) /\ LiveBytes(k, x) = Cardinality(LiveIn(k, x))
         /\ LiveBytes(k, x) \in Nat /\ k.mark + LiveBytes(k, x) <= x
<1>1. k.mark \in Nat
  BY Zenon, ChunkFields
<1>2. IsFiniteSet(k.mark..x - 1) /\ Cardinality(k.mark..x - 1) <= x - k.mark
  <2>1. k.mark \in Int /\ x - 1 \in Int
    BY <1>1
  <2>2. /\ IsFiniteSet(k.mark..x - 1)
        /\ Cardinality(k.mark..x - 1) = IF k.mark > x - 1 THEN 0 ELSE (x - 1) - k.mark + 1
    BY Zenon, <2>1, FS_Interval
  <2> QED BY <2>2, <1>1
<1>3. LiveIn(k, x) \subseteq k.mark..x - 1
  BY Zenon DEF LiveIn
<1>4. /\ IsFiniteSet(LiveIn(k, x)) /\ Cardinality(LiveIn(k, x)) <= Cardinality(k.mark..x - 1)
  BY Zenon, <1>2, <1>3, FS_Subset
<1>5. Cardinality(LiveIn(k, x)) \in Nat /\ Cardinality(k.mark..x - 1) \in Nat
  BY Zenon, <1>2, <1>4, FS_CardinalityType
<1>6. LiveBytes(k, x) = Cardinality(LiveIn(k, x))
  BY Zenon DEF LiveBytes, LiveIn, Covered
<1> QED BY <1>1, <1>2, <1>4, <1>5, <1>6

\* A live block above the mark counts in full among the bytes before its end.
LEMMA LiveBytesGrow ==
  ASSUME NEW k, Tidy(k), NEW x \in DOMAIN k.at, k.mark <= x, k.at[x].obj # NoObj,
         NEW z \in Nat, x + k.at[x].size <= z
  PROVE  LiveBytes(k, x) + k.at[x].size <= LiveBytes(k, z)
<1> DEFINE n == k.at[x].size
           B == x..x + n - 1
           A == LiveIn(k, x)
<1>1. x \in Nat /\ n \in Nat /\ n >= 1 /\ k.mark \in Nat /\ k.mark <= z
  BY ChunkFields
<1>2. IsFiniteSet(B) /\ Cardinality(B) = n
  <2>1. x \in Int /\ x + n - 1 \in Int
    BY <1>1
  <2> HIDE DEF n
  <2>2. /\ IsFiniteSet(x..x + n - 1)
        /\ Cardinality(x..x + n - 1) = IF x > x + n - 1 THEN 0 ELSE (x + n - 1) - x + 1
    BY Zenon, <2>1, FS_Interval
  <2> QED BY <2>2, <1>1
<1>3. A \cap B = {}
  BY <1>1 DEF LiveIn
<1>4. A \cup B \subseteq LiveIn(k, z)
  <2>1. ASSUME NEW y \in A PROVE y \in LiveIn(k, z)
    BY <1>1 DEF LiveIn
  <2>2. ASSUME NEW y \in B PROVE y \in LiveIn(k, z)
    <3>1. Covered(k, y)
      BY Zenon DEF Covered
    <3>2. y \in k.mark..z - 1
      BY <1>1
    <3> QED BY Zenon, <3>1, <3>2 DEF LiveIn
  <2> QED BY Zenon, <2>1, <2>2
<1>5. /\ IsFiniteSet(A) /\ LiveBytes(k, x) = Cardinality(A) /\ LiveBytes(k, x) \in Nat
      /\ IsFiniteSet(LiveIn(k, z)) /\ LiveBytes(k, z) = Cardinality(LiveIn(k, z))
      /\ LiveBytes(k, z) \in Nat
  BY Zenon, <1>1, LiveBytesNat
<1> HIDE DEF A, B
<1>6. IsFiniteSet(A \cup B) /\ Cardinality(A \cup B) = Cardinality(A) + Cardinality(B)
  <2>1. Cardinality(A \cap B) = 0
    BY Zenon, <1>3, FS_EmptySet
  <2> QED BY <2>1, <1>2, <1>5, <1>1, FS_Union
<1>7. Cardinality(A \cup B) <= Cardinality(LiveIn(k, z))
  BY Zenon, <1>4, <1>5, FS_Subset
<1> QED BY Zenon, <1>1, <1>2, <1>5, <1>6, <1>7

\* the new offsets of the blocks that stay: in the old order, without overlap
LEMMA NewOffsets ==
  ASSUME NEW k, Tidy(k)
  PROVE  /\ \A x \in Stays(k) \cup {k.top} :
              /\ NewOffset(k, x) \in Nat /\ NewOffset(k, x) <= x
              /\ x >= k.mark => NewOffset(k, x) >= k.mark
              /\ x < k.mark => NewOffset(k, x) = x
         /\ \A x \in Stays(k) : NewOffset(k, x) + k.at[x].size <= NewOffset(k, k.top)
         /\ \A x, y \in Stays(k) : x < y => NewOffset(k, x) + k.at[x].size <= NewOffset(k, y)
<1>0. /\ Stays(k) \subseteq DOMAIN k.at /\ k.mark \in Nat /\ k.top \in Nat /\ k.mark <= k.top
      /\ \A x \in Stays(k) : x \in Nat /\ k.at[x].size \in Nat /\ (x >= k.mark => k.at[x].obj # NoObj)
  BY ChunkFields DEF Stays
<1>1. ASSUME NEW x \in Stays(k) \cup {k.top}
      PROVE  /\ NewOffset(k, x) \in Nat /\ NewOffset(k, x) <= x
             /\ x >= k.mark => NewOffset(k, x) >= k.mark
             /\ x < k.mark => NewOffset(k, x) = x
  <2>1. CASE x < k.mark
    BY <1>0, <2>1 DEF NewOffset
  <2>2. CASE ~(x < k.mark)
    <3>1. NewOffset(k, x) = k.mark + LiveBytes(k, x) /\ x \in Nat /\ k.mark <= x
      BY <2>2, <1>0 DEF NewOffset
    <3>2. LiveBytes(k, x) \in Nat /\ k.mark + LiveBytes(k, x) <= x
      BY Zenon, <3>1, LiveBytesNat
    <3> QED BY <3>1, <3>2, <1>0
  <2> QED BY Zenon, <2>1, <2>2
<1>2. ASSUME NEW x \in Stays(k), NEW z \in Stays(k) \cup {k.top}, x < z
      PROVE  NewOffset(k, x) + k.at[x].size <= NewOffset(k, z)
  <2>1. x + k.at[x].size <= z /\ x \in DOMAIN k.at /\ z \in Nat /\ x \in Nat /\ k.at[x].size \in Nat
    BY Zenon, <1>0, <1>2, ChunkFields
  <2>2. CASE z < k.mark
    BY <2>1, <2>2, <1>0, <1>2 DEF NewOffset
  <2>3. CASE ~(z < k.mark) /\ x < k.mark
    <3>1. NewOffset(k, x) = x /\ x + k.at[x].size <= k.mark
      BY Zenon, <2>1, <2>3, ChunkFields DEF NewOffset
    <3>2. NewOffset(k, z) \in Nat /\ NewOffset(k, z) >= k.mark
      BY <1>1, <2>1, <2>3, <1>0
    <3> QED BY <3>1, <3>2, <2>1, <1>0
  <2>4. CASE ~(z < k.mark) /\ ~(x < k.mark)
    <3>1. NewOffset(k, x) = k.mark + LiveBytes(k, x) /\ NewOffset(k, z) = k.mark + LiveBytes(k, z)
      BY Zenon, <2>4 DEF NewOffset
    <3>2. k.mark <= x /\ k.at[x].obj # NoObj /\ k.mark <= z
      BY <2>4, <2>1, <1>0
    <3>3. LiveBytes(k, x) + k.at[x].size <= LiveBytes(k, z)
      BY Zenon, <3>2, <2>1, LiveBytesGrow
    <3>4. LiveBytes(k, x) \in Nat /\ LiveBytes(k, z) \in Nat
      BY Zenon, <3>2, <2>1, LiveBytesNat
    <3> QED BY <3>1, <3>3, <3>4, <2>1, <1>0
  <2> QED BY Zenon, <2>2, <2>3, <2>4
<1>3. \A x \in Stays(k) : x < k.top
  BY Zenon, <1>0, ChunkFields
<1> QED BY Zenon, <1>1, <1>2, <1>3

\* CompactSmallBlocks
LEMMA TidySlide ==
  ASSUME NEW k, Tidy(k)
  PROVE  LET g == SlideIn(k)
         IN  /\ Tidy(g) /\ g.mark = k.mark
             /\ DOMAIN g.at = {NewOffset(k, x) : x \in Stays(k)}
             /\ \A x \in Stays(k) : g.at[NewOffset(k, x)] = k.at[x]
             /\ \A x, y \in Stays(k) : NewOffset(k, x) = NewOffset(k, y) => x = y
<1> DEFINE stay == Stays(k)
           D == {NewOffset(k, x) : x \in stay}
           at == [y \in D |-> k.at[CHOOSE x \in stay : NewOffset(k, x) = y]]
           top == NewOffset(k, k.top)
<1>1. SlideIn(k) = [mark |-> k.mark, top |-> top, at |-> at]
  BY Zenon DEF SlideIn, Stays
<1>2. /\ k.mark \in 0..ChunkSize /\ k.top \in 0..ChunkSize /\ k.mark <= k.top
      /\ \A x \in stay : x \in Nat /\ x < k.top /\ k.at[x] \in BlockType /\ k.at[x].size \in Nat
                         /\ k.at[x].size >= 1
                         /\ (x < k.mark => x + k.at[x].size <= k.mark)
  BY Zenon, ChunkFields DEF Stays
<1>3. /\ top \in 0..ChunkSize /\ k.mark <= top
      /\ \A x \in stay : NewOffset(k, x) \in Nat /\ NewOffset(k, x) <= x
                         /\ NewOffset(k, x) + k.at[x].size <= top
                         /\ (x >= k.mark => NewOffset(k, x) >= k.mark)
                         /\ (x < k.mark => NewOffset(k, x) = x)
      /\ \A x, y \in stay : x < y => NewOffset(k, x) + k.at[x].size <= NewOffset(k, y)
  <2>1. top \in Nat /\ top <= k.top /\ top >= k.mark
    BY Zenon, <1>2, NewOffsets
  <2> QED BY <2>1, <1>2, SizesAssumption, NewOffsets
<1>4. \A x, y \in stay : NewOffset(k, x) = NewOffset(k, y) => x = y
  <2> SUFFICES ASSUME NEW x \in stay, NEW y \in stay, NewOffset(k, x) = NewOffset(k, y), x < y
               PROVE  FALSE
    BY <1>2
  <2> QED BY <1>2, <1>3
<1>5. \A x \in stay : at[NewOffset(k, x)] = k.at[x]
  <2> SUFFICES ASSUME NEW x \in stay PROVE at[NewOffset(k, x)] = k.at[x]
    BY Zenon
  <2> DEFINE z == CHOOSE w \in stay : NewOffset(k, w) = NewOffset(k, x)
  <2>1. z \in stay /\ NewOffset(k, z) = NewOffset(k, x)
    BY Zenon
  <2>2. z = x
    BY Zenon, <2>1, <1>4
  <2>3. at[NewOffset(k, x)] = k.at[z]
    BY Zenon
  <2> QED BY Zenon, <2>2, <2>3
<1>6. DOMAIN at = D /\ at = [y \in D |-> at[y]]
  OBVIOUS
<1> HIDE DEF at, top, stay
<1>7. D \in SUBSET (0..ChunkSize)
  BY <1>2, <1>3, SizesAssumption
<1>8. at \in [D -> BlockType]
  <2>1. \A y \in D : at[y] \in BlockType
    BY Zenon, <1>2, <1>5
  <2> QED BY Zenon, <2>1, <1>6
<1>9. \A y \in D : y + at[y].size <= top /\ (y < k.mark => y + at[y].size <= k.mark)
  <2> SUFFICES ASSUME NEW x \in stay, NEW y, y = NewOffset(k, x)
               PROVE  y + at[y].size <= top /\ (y < k.mark => y + at[y].size <= k.mark)
    BY Zenon
  <2>1. at[y] = k.at[x] /\ y + k.at[x].size <= top
    BY Zenon, <1>3, <1>5
  <2>2. ASSUME y < k.mark PROVE y + k.at[x].size <= k.mark
    <3>1. x < k.mark /\ y = x
      BY <2>2, <1>2, <1>3
    <3> QED BY Zenon, <3>1, <1>2
  <2> QED BY Zenon, <2>1, <2>2
<1>10. \A y, w \in D : y < w => y + at[y].size <= w
  <2> SUFFICES ASSUME NEW x \in stay, NEW z \in stay, NewOffset(k, x) < NewOffset(k, z)
               PROVE  NewOffset(k, x) + at[NewOffset(k, x)].size <= NewOffset(k, z)
    BY Zenon
  <2>1. x < z
    <3>1. ~(z < x) /\ z # x
      BY <1>2, <1>3
    <3> QED BY <3>1, <1>2
  <2> QED BY Zenon, <2>1, <1>3, <1>5
<1>11. Tidy([mark |-> k.mark, top |-> top, at |-> at])
  <2> HIDE DEF D
  <2> QED BY Zenon, <1>2, <1>3, <1>7, <1>8, <1>9, <1>10, ChunkIntro
<1> QED BY <1>1, <1>4, <1>5, <1>6, <1>11 DEF stay

-----------------------------------------------------------------------------
(* Compaction.                                                             *)

SlidPtr(h) == [o \in Objs |-> IF o \in Adjusted(h) THEN AdjustPtr(h, h.ptr[o]) ELSE h.ptr[o]]
SlidChunks(h) == [c \in DOMAIN h.chunk |-> SlideIn(h.chunk[c])]

\* A compaction moves nothing across a mark.
LEMMA NewOffsetFacts ==
  ASSUME NEW k, Tidy(k), NEW x \in Nat
  PROVE  /\ NewOffset(k, x) \in Nat
         /\ x < k.mark => NewOffset(k, x) = x
         /\ x >= k.mark <=> NewOffset(k, x) >= k.mark
         /\ x < k.mark <=> NewOffset(k, x) < k.mark
<1>1. k.mark \in Nat
  BY Zenon, ChunkFields
<1>2. CASE x < k.mark
  BY Zenon, <1>1, <1>2 DEF NewOffset
<1>3. CASE ~(x < k.mark)
  <2>1. LiveBytes(k, x) \in Nat
    BY <1>1, <1>3, LiveBytesNat
  <2> QED BY <1>1, <1>3, <2>1 DEF NewOffset
<1> QED BY Zenon, <1>2, <1>3

\* every pointer of the heap is adjusted, or need not be
LEMMA AdjustAll ==
  ASSUME NEW h, NEW r, NEW m, Sound(h, r, m), NEW o \in Objs
  PROVE  SlidPtr(h)[o] = AdjustPtr(h, h.ptr[o])
<1>0. /\ Shape(h) /\ Layout(h) /\ Pointing(h, r, m) /\ Settled(h, m) /\ Marks(h)
  BY Zenon DEF Sound, Layout
<1>1. CASE o \in Adjusted(h)
  BY Zenon, <1>1 DEF SlidPtr
<1>2. CASE o \notin Adjusted(h)
  <2>1. SlidPtr(h)[o] = h.ptr[o]
    BY Zenon, <1>2 DEF SlidPtr
  <2> DEFINE e == h.holds[o]
             p == h.ptr[o]
  <2>2. Leads(h, p, e)
    BY Zenon, <1>0 DEF Pointing
  <2>3. CASE e = NoObj
    BY Zenon, <2>1, <2>2, <2>3 DEF AdjustPtr, Leads
  <2>4. CASE e # NoObj
    <3>1. o \in Allocated(h) /\ o \notin RawObjs
      BY Zenon, <1>0, <2>4 DEF Pointing
    <3>2. o \in Old(h) /\ o \notin h.pre /\ o # NoObj
      BY Zenon, <1>0, <1>2, <3>1, ObjectsTyped DEF Adjusted, Large
    <3>3. PICK c, x : Sits(h, c, x, o) /\ x < h.chunk[c].mark
      BY Zenon, <1>0, <3>2, ObjectsView
    <3>4. h.marked
      <4>1. x \in Nat /\ c \in DOMAIN h.chunk
        BY Zenon, <1>0, <3>3, SitsTyped DEF Sits
      <4>2. h.chunk[c].mark # 0
        BY <3>3, <4>1
      <4> QED BY Zenon, <1>0, <4>1, <4>2 DEF Marks
    <3>5. e \in Old(h)
      BY Zenon, <1>0, <2>4, <3>2, <3>4 DEF Settled
    <3> HIDE DEF e, p
    <3>6. \/ p = e /\ e \in Large(h)
          \/ \E d, y : p = Small(d, y) /\ Sits(h, d, y, e)
      BY Zenon, <1>0, <2>2, <2>4, TargetView DEF Leads
    <3>7. CASE p = e /\ e \in Large(h)
      BY Zenon, <1>0, <2>1, <3>7, ShapeFields DEF AdjustPtr, p
    <3>8. CASE \E d, y : p = Small(d, y) /\ Sits(h, d, y, e)
      <4>1. PICK d, y : p = Small(d, y) /\ Sits(h, d, y, e)
        BY Zenon, <3>8
      <4>2. e \notin h.pre
        BY <1>0, <2>4, <4>1, SitsTyped, ShapeFields
      <4>3. PICK a, z : Sits(h, a, z, e) /\ z < h.chunk[a].mark
        BY Zenon, <1>0, <2>4, <3>5, <4>2, ObjectsView
      <4>4. e \in Objs
        BY Zenon, <1>0, <3>5, ObjectsTyped
      <4>5. a = d /\ z = y
        BY Zenon, <1>0, <4>1, <4>3, <4>4 DEF Layout, Unique
      <4>6. Tidy(h.chunk[d]) /\ y \in Nat /\ p \in Address
        BY Zenon, <1>0, <4>1, SitsTyped, ShapeFields DEF Sits
      <4>7. NewOffset(h.chunk[d], y) = y
        BY Zenon, <4>3, <4>5, <4>6, NewOffsetFacts
      <4>8. p # Null /\ p \notin Objs
        BY Zenon, <4>6, ObjsAssumption DEF Address
      <4>9. AdjustPtr(h, p) = Small(d, y)
        BY Zenon, <4>1, <4>7, <4>8, SmallPointer DEF AdjustPtr
      <4> QED BY Zenon, <2>1, <4>1, <4>9 DEF p
    <3> QED BY Zenon, <3>6, <3>7, <3>8
  <2> QED BY Zenon, <2>3, <2>4
<1> QED BY Zenon, <1>1, <1>2

\* a pointer that leads to an object is adjusted to where the object will be
LEMMA AdjustTyped ==
  ASSUME NEW h, Shape(h), NEW p \in Pointer, NEW o, Leads(h, p, o)
  PROVE  /\ AdjustPtr(h, p) \in Pointer
         /\ o = NoObj => AdjustPtr(h, p) = Null
         /\ o # NoObj =>
              \/ AdjustPtr(h, p) = o /\ o \in Large(h)
              \/ \E c, x : Sits(h, c, x, o) /\ AdjustPtr(h, p) = Small(c, NewOffset(h.chunk[c], x))
<1>1. CASE o = NoObj
  BY Zenon, <1>1 DEF Leads, AdjustPtr
<1>2. CASE o # NoObj
  <2>1. \/ p = o /\ o \in Large(h)
        \/ \E d, y : p = Small(d, y) /\ Sits(h, d, y, o)
    BY Zenon, <1>2, TargetView DEF Leads
  <2>2. CASE p = o /\ o \in Large(h)
    BY Zenon, <1>2, <2>2, ShapeFields DEF AdjustPtr
  <2>3. CASE \E d, y : p = Small(d, y) /\ Sits(h, d, y, o)
    <3>1. PICK d, y : p = Small(d, y) /\ Sits(h, d, y, o)
      BY Zenon, <2>3
    <3>2. Tidy(h.chunk[d]) /\ y \in Nat /\ d \in Nat /\ p \in Address
      BY Zenon, <3>1, SitsTyped, ShapeFields DEF Sits
    <3>3. p # Null /\ p \notin Objs
      BY Zenon, <3>2, ObjsAssumption DEF Address
    <3>4. AdjustPtr(h, p) = Small(d, NewOffset(h.chunk[d], y))
      BY Zenon, <3>1, <3>3, SmallPointer DEF AdjustPtr
    <3>5. AdjustPtr(h, p) \in Pointer
      BY <3>2, <3>4, NewOffsetFacts, SmallPointer DEF Pointer
    <3> QED BY Zenon, <1>2, <3>1, <3>4, <3>5
  <2> QED BY Zenon, <2>1, <2>2, <2>3
<1> QED BY Zenon, <1>1, <1>2

\* what a compaction does with the blocks of h
Slid(h, g) ==
  /\ Shape(g) /\ g.cur = 1 /\ ~g.using /\ Len(g.chunk) = Len(h.chunk)
  /\ \A c \in DOMAIN h.chunk : g.chunk[c] = SlideIn(h.chunk[c])
  /\ g.pre = h.pre /\ g.post = h.post
  /\ g.postMark = h.postMark /\ g.marked = h.marked /\ g.atMark = h.atMark
  /\ g.ref = h.ref /\ g.holds = h.holds
  /\ \A o \in Objs : g.ptr[o] = AdjustPtr(h, h.ptr[o])

\* The heap after CompactSmallBlocks, with every pointer adjusted.
LEMMA SlideView ==
  ASSUME NEW h, NEW r, NEW m, Sound(h, r, m)
  PROVE  Slid(h, [Slide(h) EXCEPT !.using = FALSE])
<1> DEFINE ptr == SlidPtr(h)
           chunk == SlidChunks(h)
           g == [h EXCEPT !.ptr = ptr, !.chunk = chunk, !.cur = 1, !.using = FALSE]
<1>0. Shape(h) /\ Pointing(h, r, m) /\ h \in HeapType
  BY Zenon DEF Sound, Layout, Shape
<1>1. ptr \in [Objs -> Pointer] /\ \A o \in Objs : ptr[o] = AdjustPtr(h, h.ptr[o])
  <2>1. \A o \in Objs : ptr[o] = AdjustPtr(h, h.ptr[o])
    BY Zenon, AdjustAll
  <2>2. \A o \in Objs : h.ptr[o] \in Pointer /\ Leads(h, h.ptr[o], h.holds[o])
    BY Zenon, <1>0, ShapeFields DEF Pointing
  <2>3. \A o \in Objs : AdjustPtr(h, h.ptr[o]) \in Pointer
    BY Zenon, <1>0, <2>2, AdjustTyped
  <2>4. ptr = [o \in Objs |-> ptr[o]]
    BY Zenon DEF SlidPtr
  <2> HIDE DEF ptr
  <2> QED BY Zenon, <2>1, <2>3, <2>4
<1>2. /\ chunk \in Seq(ChunkType) /\ Len(chunk) = Len(h.chunk) /\ DOMAIN chunk = DOMAIN h.chunk
      /\ \A c \in DOMAIN h.chunk : chunk[c] = SlideIn(h.chunk[c]) /\ Tidy(chunk[c])
  <2>1. Len(h.chunk) \in Nat /\ DOMAIN h.chunk = 1..Len(h.chunk) /\ \A c \in DOMAIN h.chunk : Tidy(h.chunk[c])
    BY Zenon, <1>0, ShapeFields
  <2>2. \A c \in DOMAIN h.chunk : Tidy(SlideIn(h.chunk[c]))
    BY Zenon, <2>1, TidySlide
  <2>3. /\ chunk = [c \in 1..Len(h.chunk) |-> chunk[c]]
        /\ \A c \in 1..Len(h.chunk) : chunk[c] = SlideIn(h.chunk[c])
    BY Zenon, <2>1 DEF SlidChunks
  <2> HIDE DEF chunk
  <2>4. \A c \in 1..Len(h.chunk) : Tidy(chunk[c])
    BY Zenon, <2>1, <2>2, <2>3
  <2> QED BY Zenon, <2>1, <2>3, <2>4, TidySeq
<1>3. [Slide(h) EXCEPT !.using = FALSE] = g
  <2>1. Slide(h) = [h EXCEPT !.ptr = ptr, !.chunk = chunk, !.cur = 1]
    <3>1. h.ptr = [o \in Objs |-> h.ptr[o]]
      BY Zenon, <1>0, ShapeFields
    <3> QED BY Zenon, <1>0 DEF Slide, SlidPtr, SlidChunks, HeapType
  <2> HIDE DEF ptr, chunk
  <2> QED BY Zenon, <1>0, <2>1 DEF HeapType
<1> HIDE DEF ptr, chunk
<1>4. h = [chunk |-> h.chunk, cur |-> h.cur, postMark |-> h.postMark, marked |-> h.marked,
           atMark |-> h.atMark, pre |-> h.pre, post |-> h.post, list |-> h.list,
           using |-> h.using, ref |-> h.ref, ptr |-> h.ptr, holds |-> h.holds]
  BY Zenon, <1>0 DEF HeapType
<1>5. /\ g \in HeapType /\ g.chunk = chunk /\ g.cur = 1 /\ g.using = FALSE /\ g.ptr = ptr
      /\ g.pre = h.pre /\ g.post = h.post
      /\ g.postMark = h.postMark /\ g.marked = h.marked /\ g.atMark = h.atMark
      /\ g.ref = h.ref /\ g.holds = h.holds
  BY Zenon, <1>0, <1>1, <1>2 DEF HeapType
<1> HIDE DEF g
<1>6. Shape(g)
  BY Zenon, <1>2, <1>5 DEF Shape
<1>7. Slid(h, g)
  BY Zenon, <1>1, <1>2, <1>5, <1>6 DEF Slid
<1> QED BY Zenon, <1>3, <1>7

\* Each object above a mark sits at its new offset, and no free block is left.
LEMMA SlidSits ==
  ASSUME NEW h, NEW g, Shape(h), Slid(h, g)
  PROVE  /\ \A c \in DOMAIN h.chunk :
              g.chunk[c].mark = h.chunk[c].mark /\ BelowMark(g.chunk[c]) = BelowMark(h.chunk[c])
         /\ \A c, y, o : o # NoObj =>
              (Sits(g, c, y, o) <=> \E x : Sits(h, c, x, o) /\ y = NewOffset(h.chunk[c], x))
         /\ \A c, y : Sits(g, c, y, NoObj) => y < g.chunk[c].mark
<1>0. /\ Shape(g) /\ DOMAIN g.chunk = DOMAIN h.chunk
      /\ \A c \in DOMAIN h.chunk : g.chunk[c] = SlideIn(h.chunk[c]) /\ Tidy(h.chunk[c])
  BY Zenon, ShapeFields DEF Slid
<1>1. ASSUME NEW c \in DOMAIN h.chunk
      PROVE  /\ g.chunk[c].mark = h.chunk[c].mark
             /\ DOMAIN g.chunk[c].at = {NewOffset(h.chunk[c], x) : x \in Stays(h.chunk[c])}
             /\ \A x \in Stays(h.chunk[c]) : g.chunk[c].at[NewOffset(h.chunk[c], x)] = h.chunk[c].at[x]
  BY <1>0, TidySlide
<1>2. ASSUME NEW c \in DOMAIN h.chunk
      PROVE  BelowMark(g.chunk[c]) = BelowMark(h.chunk[c])
  <2> DEFINE k == h.chunk[c]
             j == g.chunk[c]
  <2>1. Tidy(k) /\ k.mark \in Nat /\ DOMAIN k.at \subseteq Nat
    BY Zenon, <1>0, ChunkFields
  <2>2. \A x \in Stays(k) : x \in Nat
    BY Zenon, <2>1 DEF Stays
  <2>3. \A x \in Stays(k) : /\ x < k.mark => NewOffset(k, x) = x
                            /\ x < k.mark <=> NewOffset(k, x) < k.mark
    BY Zenon, <2>1, <2>2, NewOffsetFacts
  <2>4. /\ j.mark = k.mark /\ DOMAIN j.at = {NewOffset(k, x) : x \in Stays(k)}
        /\ \A x \in Stays(k) : j.at[NewOffset(k, x)] = k.at[x]
    BY Zenon, <1>1
  <2> HIDE DEF k, j
  <2>5. \A y : y \in DOMAIN j.at /\ y < j.mark <=> y \in DOMAIN k.at /\ y < k.mark
    <3>1. ASSUME NEW y \in DOMAIN j.at, y < j.mark PROVE y \in DOMAIN k.at /\ y < k.mark
      <4>1. PICK x \in Stays(k) : y = NewOffset(k, x)
        BY Zenon, <2>4
      <4> QED BY Zenon, <2>3, <2>4, <3>1, <4>1 DEF Stays
    <3>2. ASSUME NEW y \in DOMAIN k.at, y < k.mark PROVE y \in DOMAIN j.at /\ y < j.mark
      <4>1. y \in Stays(k)
        BY Zenon, <3>2 DEF Stays
      <4> QED BY <2>3, <2>4, <3>2, <4>1
    <3> QED BY Zenon, <3>1, <3>2
  <2>6. \A y : y \in DOMAIN k.at /\ y < k.mark => j.at[y] = k.at[y]
    <3> SUFFICES ASSUME NEW y \in DOMAIN k.at, y < k.mark PROVE j.at[y] = k.at[y]
      BY Zenon
    <3>1. y \in Stays(k)
      BY Zenon DEF Stays
    <3> QED BY <2>3, <2>4, <3>1
  <2>7. {y \in DOMAIN j.at : y < j.mark} = {y \in DOMAIN k.at : y < k.mark}
    BY Zenon, <2>5
  <2>8. BelowMark(j) = BelowMark(k)
    BY Zenon, <2>6, <2>7 DEF BelowMark
  <2> QED BY Zenon, <2>8 DEF k, j
<1>3. ASSUME NEW c, NEW y, NEW o, o # NoObj
      PROVE  Sits(g, c, y, o) <=> \E x : Sits(h, c, x, o) /\ y = NewOffset(h.chunk[c], x)
  <2>1. ASSUME Sits(g, c, y, o) PROVE \E x : Sits(h, c, x, o) /\ y = NewOffset(h.chunk[c], x)
    <3>1. c \in DOMAIN h.chunk /\ y \in DOMAIN g.chunk[c].at /\ g.chunk[c].at[y].obj = o
      BY Zenon, <1>0, <2>1 DEF Sits
    <3>2. PICK x \in Stays(h.chunk[c]) : y = NewOffset(h.chunk[c], x)
      BY <1>1, <3>1
    <3>3. h.chunk[c].at[x].obj = o /\ x \in DOMAIN h.chunk[c].at
      BY Zenon, <1>1, <3>1, <3>2 DEF Stays
    <3> QED BY Zenon, <3>1, <3>2, <3>3 DEF Sits
  <2>2. ASSUME NEW x, Sits(h, c, x, o), y = NewOffset(h.chunk[c], x) PROVE Sits(g, c, y, o)
    <3>1. c \in DOMAIN h.chunk /\ x \in Stays(h.chunk[c]) /\ h.chunk[c].at[x].obj = o
      BY Zenon, <1>3, <2>2 DEF Sits, Stays
    <3>2. y \in DOMAIN g.chunk[c].at /\ g.chunk[c].at[y] = h.chunk[c].at[x]
      BY Zenon, <1>1, <2>2, <3>1
    <3> QED BY Zenon, <1>0, <3>1, <3>2 DEF Sits
  <2> QED BY Zenon, <2>1, <2>2
<1>4. ASSUME NEW c, NEW y, Sits(g, c, y, NoObj) PROVE y < g.chunk[c].mark
  <2>1. c \in DOMAIN h.chunk /\ y \in DOMAIN g.chunk[c].at /\ g.chunk[c].at[y].obj = NoObj
    BY Zenon, <1>0, <1>4 DEF Sits
  <2>2. PICK x \in Stays(h.chunk[c]) : y = NewOffset(h.chunk[c], x)
    BY <1>1, <2>1
  <2>3. h.chunk[c].at[x].obj = NoObj /\ x \in DOMAIN h.chunk[c].at
    BY Zenon, <1>1, <2>1, <2>2 DEF Stays
  <2>4. x < h.chunk[c].mark /\ x \in Nat
    <3>1. DOMAIN h.chunk[c].at \subseteq Nat
      BY Zenon, <1>0, <2>1, ChunkFields
    <3> QED BY Zenon, <2>2, <2>3, <3>1 DEF Stays
  <2>5. NewOffset(h.chunk[c], x) < h.chunk[c].mark
    BY Zenon, <1>0, <2>1, <2>4, NewOffsetFacts
  <2> QED BY Zenon, <1>1, <2>1, <2>2, <2>5
<1> QED BY Zenon, <1>1, <1>2, <1>3, <1>4

\* CompactSmallBlocks: every pointer still leads to its object
LEMMA SlideGood ==
  ASSUME NEW h, NEW r, NEW m, Sound(h, r, m), NEW g, Slid(h, g),
         NEW q, q = [s \in Slots |-> AdjustPtr(h, r[s])]
  PROVE  /\ Good(g, q, m) /\ Kept(h, g) /\ FreeBlocks(g) = {}
         /\ Old(g) = Old(h) /\ PostMarkObjs(g) = PostMarkObjs(h) /\ Allocated(g) = Allocated(h)
<1>0. /\ Shape(h) /\ Unique(h) /\ Marks(h) /\ h.cur \in 1..Len(h.chunk) /\ h.pre \cap h.post = {}
      /\ Pointing(h, r, m) /\ Counting(h, m) /\ Settled(h, m)
  BY Zenon DEF Sound, Layout
<1>1. /\ Shape(g) /\ g.cur = 1 /\ ~g.using /\ Len(g.chunk) = Len(h.chunk)
      /\ g.pre = h.pre /\ g.post = h.post
      /\ g.postMark = h.postMark /\ g.marked = h.marked /\ g.atMark = h.atMark
      /\ g.ref = h.ref /\ g.holds = h.holds
      /\ \A o \in Objs : g.ptr[o] = AdjustPtr(h, h.ptr[o])
  BY Zenon DEF Slid
<1>2. /\ \A c \in DOMAIN h.chunk :
           g.chunk[c].mark = h.chunk[c].mark /\ BelowMark(g.chunk[c]) = BelowMark(h.chunk[c])
      /\ \A c, y, o : o # NoObj =>
           (Sits(g, c, y, o) <=> \E x : Sits(h, c, x, o) /\ y = NewOffset(h.chunk[c], x))
      /\ \A c, y : Sits(g, c, y, NoObj) => y < g.chunk[c].mark
  BY Zenon, <1>0, SlidSits
<1>3. /\ DOMAIN h.chunk = 1..Len(h.chunk) /\ DOMAIN g.chunk = DOMAIN h.chunk
      /\ Len(h.chunk) \in Nat /\ h.atMark \in Nat
  BY Zenon, <1>0, <1>1, ShapeFields
<1>4. Unique(g)
  <2> SUFFICES ASSUME NEW o \in Objs, NEW c, NEW y, NEW d, NEW z, Sits(g, c, y, o), Sits(g, d, z, o)
               PROVE  c = d /\ y = z
    BY Zenon DEF Unique
  <2>1. o # NoObj
    BY Zenon, SizesAssumption
  <2>2. PICK x : Sits(h, c, x, o) /\ y = NewOffset(h.chunk[c], x)
    BY Zenon, <1>2, <2>1
  <2>3. PICK w : Sits(h, d, w, o) /\ z = NewOffset(h.chunk[d], w)
    BY Zenon, <1>2, <2>1
  <2>4. c = d /\ x = w
    BY Zenon, <1>0, <2>2, <2>3 DEF Unique
  <2> QED BY Zenon, <2>2, <2>3, <2>4
<1>5. Marks(g)
  BY Zenon, <1>0, <1>1, <1>2, <1>3 DEF Marks
<1>6. Layout(g)
  <2>1. g.cur \in 1..Len(g.chunk)
    BY <1>0, <1>1, <1>3
  <2> QED BY Zenon, <1>0, <1>1, <1>4, <1>5, <2>1 DEF Layout
<1>7. Large(g) = Large(h)
  BY Zenon, <1>1 DEF Large
<1>8. ASSUME NEW o, o # NoObj
      PROVE  /\ o \in Allocated(g) <=> o \in Allocated(h)
             /\ o \in Old(g) <=> o \in Old(h)
             /\ o \in PostMarkObjs(g) <=> o \in PostMarkObjs(h)
  <2>1. \A c, x : Sits(h, c, x, o) => Sits(g, c, NewOffset(h.chunk[c], x), o)
    BY Zenon, <1>2, <1>8
  <2>2. \A c, y : Sits(g, c, y, o) => \E x : Sits(h, c, x, o) /\ y = NewOffset(h.chunk[c], x)
    BY Zenon, <1>2, <1>8
  <2>3. ASSUME NEW c, NEW x, Sits(h, c, x, o)
        PROVE  /\ x < h.chunk[c].mark <=> NewOffset(h.chunk[c], x) < g.chunk[c].mark
               /\ x >= h.chunk[c].mark <=> NewOffset(h.chunk[c], x) >= g.chunk[c].mark
    <3>1. x \in Nat /\ c \in DOMAIN h.chunk /\ Tidy(h.chunk[c])
      BY Zenon, <1>0, <2>3, SitsTyped, ShapeFields DEF Sits
    <3> QED BY Zenon, <1>2, <3>1, NewOffsetFacts
  <2>4. o \in Allocated(g) <=> o \in Allocated(h)
    BY Zenon, <1>0, <1>1, <1>7, <1>8, <2>1, <2>2, ObjectsView
  <2>5. o \in Old(g) <=> o \in Old(h)
    BY <1>0, <1>1, <1>8, <2>1, <2>2, <2>3, ObjectsView
  <2>6. o \in PostMarkObjs(g) <=> o \in PostMarkObjs(h)
    BY <1>0, <1>1, <1>8, <2>1, <2>2, <2>3, ObjectsView
  <2> QED BY Zenon, <2>4, <2>5, <2>6
<1>9. Allocated(g) = Allocated(h) /\ Old(g) = Old(h) /\ PostMarkObjs(g) = PostMarkObjs(h)
  <2>1. /\ NoObj \notin Allocated(g) /\ NoObj \notin Allocated(h) /\ NoObj \notin Old(h)
        /\ NoObj \notin Old(g) /\ NoObj \notin PostMarkObjs(g) /\ NoObj \notin PostMarkObjs(h)
    BY Zenon, <1>0, <1>1, ObjectsTyped
  <2> QED BY <1>8, <2>1
<1>10. FreeBlocks(g) = {}
  <2> SUFFICES ASSUME NEW p \in FreeBlocks(g) PROVE FALSE
    BY Zenon
  <2>1. /\ p.chunk \in DOMAIN g.chunk /\ p.off \in DOMAIN g.chunk[p.chunk].at /\ p.off \in Nat
        /\ p.off >= g.chunk[p.chunk].mark /\ g.chunk[p.chunk].at[p.off].obj = NoObj
    BY Zenon, <1>1, FreeBlocksTyped
  <2>2. p.off < g.chunk[p.chunk].mark
    BY Zenon, <1>2, <2>1 DEF Sits
  <2>3. g.chunk[p.chunk].mark \in Nat
    BY Zenon, <1>1, <2>1, ShapeFields, ChunkFields
  <2> QED BY <2>1, <2>2, <2>3
<1>11. Kept(h, g)
  <2>1. \A c \in 1..h.atMark : c \in DOMAIN h.chunk
    BY <1>0, <1>3 DEF Marks
  <2>2. Len(g.chunk) >= h.atMark
    BY Zenon, <1>0, <1>1, <1>3 DEF Marks
  <2> QED BY Zenon, <1>1, <1>2, <2>1, <2>2 DEF Kept
<1>12. ASSUME NEW p \in Pointer, NEW o, Leads(h, p, o)
       PROVE  Leads(g, AdjustPtr(h, p), o) /\ AdjustPtr(h, p) \in Pointer
  <2>1. /\ AdjustPtr(h, p) \in Pointer
        /\ o = NoObj => AdjustPtr(h, p) = Null
        /\ o # NoObj =>
             \/ AdjustPtr(h, p) = o /\ o \in Large(h)
             \/ \E c, x : Sits(h, c, x, o) /\ AdjustPtr(h, p) = Small(c, NewOffset(h.chunk[c], x))
    BY Zenon, <1>0, <1>12, AdjustTyped
  <2>2. CASE o = NoObj
    BY Zenon, <1>1, <2>1, <2>2, ObjectsTyped DEF Leads
  <2>3. CASE o # NoObj
    <3>1. Target(g, AdjustPtr(h, p)) = o
      <4>1. \/ AdjustPtr(h, p) = o /\ o \in Large(g)
            \/ \E c, y : AdjustPtr(h, p) = Small(c, y) /\ Sits(g, c, y, o)
        BY <1>2, <1>7, <2>1, <2>3
      <4> QED BY Zenon, <1>1, <2>3, <4>1, TargetView
    <3>2. AdjustPtr(h, p) # Null
      BY Zenon, <1>1, <2>3, <3>1, ObjectsTyped
    <3> QED BY Zenon, <2>1, <2>3, <3>1, <3>2 DEF Leads
  <2> QED BY Zenon, <2>2, <2>3
<1>13. Pointing(g, q, m)
  <2>1. /\ \A s \in Slots : r[s] \in Pointer /\ Leads(h, r[s], m[s])
        /\ \A o \in Objs : h.ptr[o] \in Pointer /\ Leads(h, h.ptr[o], h.holds[o])
    BY Zenon, <1>0, ShapeFields DEF Pointing
  <2>2. \A s \in Slots : q[s] = AdjustPtr(h, r[s])
    BY Zenon
  <2>3. q = [s \in Slots |-> q[s]]
    BY Zenon
  <2>4. \A s \in Slots : q[s] \in Pointer /\ Leads(g, q[s], m[s])
    BY Zenon, <1>12, <2>1, <2>2
  <2>5. q \in [Slots -> Pointer]
    BY Zenon, <2>3, <2>4
  <2>6. \A o \in Objs : Leads(g, g.ptr[o], g.holds[o])
    BY Zenon, <1>1, <1>12, <2>1
  <2>7. /\ \A o \in Objs \ Allocated(g) : g.holds[o] = NoObj
        /\ \A o \in RawObjs : g.holds[o] = NoObj
        /\ \A o \in Objs : g.holds[o] \notin RawObjs
        /\ \A s, t \in Slots : m[s] = m[t] => m[s] \notin RawObjs \/ s = t
        /\ m \in [Slots -> Object]
    BY Zenon, <1>0, <1>1, <1>9 DEF Pointing
  <2> QED BY Zenon, <2>4, <2>5, <2>6, <2>7 DEF Pointing
<1>14. \A o : FromObjs(g, o) = FromObjs(h, o)
  BY Zenon, <1>1 DEF FromObjs
<1>15. Counting(g, m)
  BY Zenon, <1>0, <1>1, <1>9, <1>14 DEF Counting, Refs
<1>16. Settled(g, m)
  BY <1>0, <1>1, <1>9, <1>14 DEF Settled
<1>17. FreeListOK(g)
  BY Zenon, <1>1 DEF FreeListOK
<1> QED BY Zenon, <1>6, <1>9, <1>10, <1>11, <1>13, <1>15, <1>16, <1>17 DEF Good, Sound

\* The two scans of a garbage collection.
LEMMA UnusedGood ==
  ASSUME NEW h, NEW r, NEW m, Good(h, r, m), h.postMark \/ ~h.marked
  PROVE  LET g == Unused(h)
         IN  /\ Good(g, r, m) /\ Shrinks(h, g) /\ Len(g.chunk) = Len(h.chunk)
             /\ \A o \in PostMarkObjs(g) \ RawObjs : g.ref[o] > 0
<1> DEFINE k == FreeUnusedLargeBlocks(h)
           g == FreeUnusedSmallBlocks(k, FALSE, TRUE)
<1>1. Good(k, r, m) /\ Shrinks(h, k) /\ Len(k.chunk) = Len(h.chunk)
  BY Zenon, LargeUnusedGood
<1>2. Unused(h) = g
  BY Zenon DEF Unused
<1> HIDE DEF k
<1>3. /\ Good(g, r, m) /\ Shrinks(k, g) /\ Len(g.chunk) = Len(k.chunk)
      /\ \A o \in PostMarkObjs(g) \ RawObjs : g.ref[o] > 0
  BY Zenon, <1>1, SmallUnusedGood
<1> HIDE DEF g
<1>4. Shrinks(h, g)
  BY Zenon, <1>1, <1>3, ShrinksTrans
<1> QED BY Zenon, <1>1, <1>2, <1>3, <1>4

\* Memory::GarbageCollect
Collects(u, g, r, q) ==
  g = [Slide(u) EXCEPT !.using = FALSE] /\ q = [s \in Slots |-> AdjustPtr(u, r[s])]

\* Memory::GarbageCollect: the scans, the compaction and the adjusted roots.
LEMMA CollectGood ==
  ASSUME NEW h, NEW r, NEW m, Good(h, r, m), h.postMark \/ ~h.marked,
         NEW g, NEW q, Collects(Unused(h), g, r, q)
  PROVE  /\ Good(g, q, m) /\ FreeBlocks(g) = {} /\ ~g.using /\ Len(g.chunk) = Len(h.chunk)
         /\ g.marked = h.marked /\ g.postMark = h.postMark
         /\ h.marked => Kept(h, g)
         /\ \A o \in PostMarkObjs(g) \ RawObjs : g.ref[o] > 0
<1> DEFINE u == Unused(h)
<1> USE DEF Collects
<1>1. /\ Good(u, r, m) /\ Shrinks(h, u) /\ Len(u.chunk) = Len(h.chunk)
      /\ \A o \in PostMarkObjs(u) \ RawObjs : u.ref[o] > 0
  BY Zenon, UnusedGood
<1>2. Sound(u, r, m)
  BY Zenon, <1>1 DEF Good
<1>3. Slid(u, g)
  BY Zenon, <1>2, SlideView
<1>4. Good(g, q, m) /\ Kept(u, g) /\ FreeBlocks(g) = {} /\ PostMarkObjs(g) = PostMarkObjs(u)
  BY Zenon, <1>2, <1>3, SlideGood
<1>5. /\ ~g.using /\ Len(g.chunk) = Len(u.chunk) /\ g.marked = u.marked
      /\ g.postMark = u.postMark /\ g.ref = u.ref
  BY Zenon, <1>3 DEF Slid
<1>6. h.marked => Kept(h, g)
  BY Zenon, <1>1, <1>4, KeptTrans DEF Shrinks
<1> QED BY Zenon, <1>1, <1>4, <1>5, <1>6 DEF Shrinks

MarkedChunks(h) == [c \in DOMAIN h.chunk |-> SetMark(h.chunk[c])]
WithMarks(h, n) ==
  [h EXCEPT !.atMark = n, !.chunk = MarkedChunks(h), !.postMark = TRUE, !.marked = TRUE]

\* The heap after the marks are set.
LEMMA MarksView ==
  ASSUME NEW h, Shape(h), NEW n \in Nat
  PROVE  LET g == WithMarks(h, n)
         IN  /\ Shape(g) /\ Len(g.chunk) = Len(h.chunk)
             /\ \A c \in DOMAIN h.chunk : /\ g.chunk[c].at = h.chunk[c].at
                                          /\ g.chunk[c].mark = h.chunk[c].top
             /\ g.cur = h.cur /\ g.pre = h.pre /\ g.post = h.post /\ g.using = h.using
             /\ g.postMark = TRUE /\ g.marked = TRUE /\ g.atMark = n
             /\ g.ref = h.ref /\ g.ptr = h.ptr /\ g.holds = h.holds
<1> DEFINE f == MarkedChunks(h)
           g == WithMarks(h, n)
<1>0. /\ h \in HeapType /\ Len(h.chunk) \in Nat /\ DOMAIN h.chunk = 1..Len(h.chunk)
      /\ \A c \in DOMAIN h.chunk : Tidy(h.chunk[c])
  BY Zenon, ShapeFields DEF Shape
<1>1. /\ f = [c \in 1..Len(h.chunk) |-> f[c]]
      /\ \A c \in 1..Len(h.chunk) : f[c] = SetMark(h.chunk[c])
  BY Zenon, <1>0 DEF MarkedChunks
<1> HIDE DEF f
<1>2. \A c \in 1..Len(h.chunk) : Tidy(f[c])
  BY Zenon, <1>0, <1>1, TidySetMark
<1>3. f \in Seq(ChunkType) /\ Len(f) = Len(h.chunk) /\ DOMAIN f = 1..Len(h.chunk)
  BY Zenon, <1>0, <1>1, <1>2, TidySeq
<1>4. /\ g \in HeapType /\ g.chunk = f
      /\ g.cur = h.cur /\ g.pre = h.pre /\ g.post = h.post /\ g.using = h.using
      /\ g.postMark = TRUE /\ g.marked = TRUE /\ g.atMark = n
      /\ g.ref = h.ref /\ g.ptr = h.ptr /\ g.holds = h.holds
  BY Zenon, <1>0, <1>3 DEF HeapType, WithMarks, f
<1> HIDE DEF g
<1>5. Shape(g)
  BY Zenon, <1>2, <1>3, <1>4 DEF Shape
<1>6. \A c \in DOMAIN h.chunk : g.chunk[c].at = h.chunk[c].at /\ g.chunk[c].mark = h.chunk[c].top
  <2>1. \A c \in DOMAIN h.chunk : g.chunk[c] = SetMark(h.chunk[c])
    BY Zenon, <1>0, <1>1, <1>4
  <2>2. \A k : SetMark(k).at = k.at /\ SetMark(k).mark = k.top
    BY Zenon DEF SetMark
  <2> QED BY Zenon, <2>1, <2>2
<1> QED BY Zenon, <1>3, <1>4, <1>5, <1>6 DEF g

\* the first Mark: everything becomes old
LEMMA FirstMarkGood ==
  ASSUME NEW h, NEW r, NEW m, Good(h, r, m), ~h.marked, ~h.using,
         \A s \in Locals : r[s] = Null
  PROVE  Good(WithMarks(h, Len(h.chunk)), r, m)
<1> DEFINE g == WithMarks(h, Len(h.chunk))
<1>0. /\ Shape(h) /\ Unique(h) /\ Marks(h) /\ h.cur \in 1..Len(h.chunk) /\ h.pre \cap h.post = {}
      /\ Pointing(h, r, m) /\ Counting(h, m)
  BY Zenon DEF Good, Sound, Layout
<1>1. Len(h.chunk) \in Nat /\ DOMAIN h.chunk = 1..Len(h.chunk) /\ h.post = {} /\ Len(h.chunk) > 0
  BY <1>0, ShapeFields DEF Marks
<1>2. /\ Shape(g) /\ Len(g.chunk) = Len(h.chunk)
      /\ \A c \in DOMAIN h.chunk : g.chunk[c].at = h.chunk[c].at /\ g.chunk[c].mark = h.chunk[c].top
      /\ g.cur = h.cur /\ g.pre = h.pre /\ g.post = h.post /\ g.using = h.using
      /\ g.postMark = TRUE /\ g.marked = TRUE /\ g.atMark = Len(h.chunk)
      /\ g.ref = h.ref /\ g.ptr = h.ptr /\ g.holds = h.holds
  BY Zenon, <1>0, <1>1, MarksView
<1> HIDE DEF g
<1>3. DOMAIN g.chunk = DOMAIN h.chunk
  BY Zenon, <1>1, <1>2, ShapeFields
<1>4. \A c, x, o : Sits(g, c, x, o) <=> Sits(h, c, x, o)
  BY Zenon, <1>2, <1>3 DEF Sits
<1>5. Layout(g)
  <2>1. Unique(g)
    BY <1>0, <1>4 DEF Unique
  <2>2. Marks(g)
    BY <1>1, <1>2, <1>3 DEF Marks
  <2> QED BY Zenon, <1>0, <1>2, <2>1, <2>2 DEF Layout
<1>6. Large(g) = Large(h) /\ Large(h) = h.pre
  BY Zenon, <1>1, <1>2 DEF Large
<1>7. ASSUME NEW c, NEW x, NEW o, Sits(h, c, x, o) PROVE x < g.chunk[c].mark
  <2>1. c \in DOMAIN h.chunk /\ x \in DOMAIN h.chunk[c].at /\ Tidy(h.chunk[c])
    BY Zenon, <1>0, <1>7, ShapeFields DEF Sits
  <2>2. x < h.chunk[c].top
    BY Zenon, <2>1, ChunkFields
  <2> QED BY Zenon, <1>2, <2>1, <2>2
<1>8. ASSUME NEW o, o # NoObj
      PROVE  /\ o \in Allocated(g) <=> o \in Allocated(h)
             /\ o \in Old(g) <=> o \in Allocated(h)
  BY <1>0, <1>2, <1>4, <1>6, <1>7, <1>8, ObjectsView
<1>9. Allocated(g) = Allocated(h) /\ Old(g) = Allocated(h)
  <2>1. NoObj \notin Allocated(g) /\ NoObj \notin Allocated(h) /\ NoObj \notin Old(g)
    BY Zenon, <1>0, <1>2, ObjectsTyped
  <2> QED BY <1>8, <2>1
<1>10. ASSUME NEW p, NEW o, Leads(h, p, o) PROVE Leads(g, p, o)
  <2>1. CASE o = NoObj
    BY Zenon, <1>2, <1>10, <2>1, ObjectsTyped DEF Leads
  <2>2. CASE o # NoObj
    <3>1. (p = o /\ o \in Large(g)) \/ \E c, x : p = Small(c, x) /\ Sits(g, c, x, o)
      BY <1>0, <1>4, <1>6, <1>10, <2>2, TargetView DEF Leads
    <3>2. Shape(g)
      BY Zenon, <1>2
    <3>3. Target(g, p) = o
      BY Zenon, <2>2, <3>1, <3>2, TargetView
    <3> QED BY Zenon, <1>10, <3>3 DEF Leads
  <2> QED BY Zenon, <2>1, <2>2
<1>11. Pointing(g, r, m)
  BY Zenon, <1>0, <1>2, <1>9, <1>10 DEF Pointing
<1>12. \A o : FromObjs(g, o) = FromObjs(h, o)
  BY Zenon, <1>2 DEF FromObjs
<1>13. Counting(g, m)
  BY Zenon, <1>0, <1>2, <1>9, <1>12 DEF Counting, Refs
<1>14. Settled(g, m)
  <2>1. \A s \in Slots : m[s] \in Allocated(h) \cup {NoObj}
    BY <1>0, ObjectsTyped DEF Pointing, Leads
  <2>2. \A o \in Objs : h.holds[o] \in Allocated(h) \cup {NoObj}
    BY <1>0, ObjectsTyped DEF Pointing, Leads
  <2>3. ASSUME NEW o \in Allocated(h)
        PROVE  \/ FromSlots(m, o) = {} /\ FromObjs(g, o) = {}
               \/ \E s \in Statics : m[s] = o
               \/ \E p \in Allocated(h) : g.holds[p] = o
    <3>0. o # NoObj
      BY Zenon, <1>0, ObjectsTyped
    <3>1. CASE FromSlots(m, o) # {}
      <4>1. PICK s \in Slots : m[s] = o
        BY Zenon, <3>1 DEF FromSlots
      <4>2. s \notin Locals
        BY Zenon, <1>0, <3>0, <4>1, SlotsTyped DEF Pointing, Leads
      <4> QED BY Zenon, <4>1, <4>2, SlotsTyped
    <3>2. CASE FromObjs(g, o) # {}
      <4>1. PICK p \in Objs : g.holds[p] = o
        BY Zenon, <3>2 DEF FromObjs
      <4>2. p \in Allocated(h)
        BY Zenon, <1>0, <1>2, <3>0, <4>1 DEF Pointing
      <4> QED BY Zenon, <4>1, <4>2
    <3> QED BY Zenon, <3>1, <3>2
  <2>4. \A o \in Allocated(h) : o \in Objs
    BY Zenon, <1>0, ObjectsTyped
  <2> QED BY Zenon, <1>2, <1>9, <2>1, <2>2, <2>3, <2>4, SlotsTyped DEF Settled
<1>15. FreeListOK(g)
  BY Zenon, <1>2 DEF FreeListOK
<1> QED BY Zenon, <1>5, <1>11, <1>13, <1>14, <1>15 DEF Good, Sound, g

WithPostMark(h, b) == [h EXCEPT !.postMark = b]

\* a later Mark
LEMMA NextMarkGood ==
  ASSUME NEW h, NEW r, NEW m, Good(h, r, m), h.marked
  PROVE  Good(WithPostMark(h, TRUE), r, m) /\ Kept(h, WithPostMark(h, TRUE))
<1> DEFINE g == WithPostMark(h, TRUE)
<1>0. /\ Shape(h) /\ Unique(h) /\ Marks(h) /\ h.cur \in 1..Len(h.chunk) /\ h.pre \cap h.post = {}
      /\ Pointing(h, r, m) /\ Counting(h, m) /\ Settled(h, m) /\ FreeListOK(h) /\ Layout(h)
      /\ h \in HeapType
  BY Zenon DEF Good, Sound, Layout, Shape
<1>1. /\ g \in HeapType /\ g.chunk = h.chunk /\ g.pre = h.pre /\ g.post = h.post /\ g.cur = h.cur
      /\ g.list = h.list /\ g.using = h.using /\ g.marked = h.marked /\ g.atMark = h.atMark
      /\ g.ref = h.ref /\ g.ptr = h.ptr /\ g.holds = h.holds
  BY Zenon, <1>0 DEF HeapType, WithPostMark
<1> HIDE DEF g
<1>2. Shape(g)
  BY Zenon, <1>0, <1>1 DEF Shape
<1>3. /\ Blocks(g) = Blocks(h) /\ \A p : BlockAt(g, p) = BlockAt(h, p)
      /\ \A p : AboveMark(g, p) = AboveMark(h, p) /\ Large(g) = Large(h)
  BY <1>1 DEF Blocks, BlockAt, AboveMark, Large
<1>4. /\ FreeBlocks(g) = FreeBlocks(h) /\ Allocated(g) = Allocated(h) /\ Old(g) = Old(h)
      /\ \A p : Target(g, p) = Target(h, p)
  BY <1>1, <1>3 DEF FreeBlocks, Allocated, Old, Target
<1>5. FreeListOK(g)
  BY <1>0, <1>1, <1>3, <1>4 DEF FreeListOK, ListOK, Listed
<1>6. Unique(g) /\ Marks(g)
  BY <1>0, <1>1 DEF Unique, Marks, Sits
<1>7. Layout(g)
  BY Zenon, <1>0, <1>1, <1>2, <1>6 DEF Layout
<1>8. Pointing(g, r, m)
  BY <1>0, <1>1, <1>4 DEF Pointing, Leads
<1>9. \A o : FromObjs(g, o) = FromObjs(h, o)
  BY Zenon, <1>1 DEF FromObjs
<1>10. Counting(g, m)
  BY Zenon, <1>0, <1>1, <1>4, <1>9 DEF Counting, Refs
<1>11. Settled(g, m)
  BY <1>0, <1>1, <1>4, <1>9 DEF Settled
<1>12. Kept(h, g)
  <2>1. Kept(h, h)
    BY Zenon, <1>0, KeptRefl
  <2> QED BY Zenon, <1>1, <2>1 DEF Kept
<1> QED BY Zenon, <1>5, <1>7, <1>8, <1>10, <1>11, <1>12 DEF Good, Sound, g

\* Release keeps every chunk that was there at the first Mark.
LEMMA KeptChunksRange ==
  ASSUME NEW h, Shape(h), h.atMark <= Len(h.chunk)
  PROVE  /\ KeptChunks(h) \in Nat /\ KeptChunks(h) <= Len(h.chunk)
         /\ h.atMark <= KeptChunks(h)
<1> DEFINE n == Len(h.chunk)
           d == n - h.atMark
           t == ToFree
<1>1. n \in Nat /\ h.atMark \in Nat /\ d \in Nat /\ t \in 0..100
  BY ShapeFields, SizesAssumption
<1>2. KeptChunks(h) = n - (d * t) \div 100
  BY Zenon DEF KeptChunks
<1> HIDE DEF n, d, t
<1>3. d * t \in Nat /\ d * t <= d * 100
  BY <1>1
<1>4. (d * t) \div 100 \in 0..d
  <2> DEFINE e == d * t
  <2>1. e \in Nat /\ e <= d * 100 /\ d \in Nat
    BY Zenon, <1>1, <1>3
  <2> HIDE DEF e
  <2>2. e \div 100 \in 0..d
    BY <2>1
  <2> QED BY Zenon, <2>2 DEF e
<1>5. d = n - h.atMark
  BY Zenon DEF d, n
<1> HIDE DEF d
<1>6. n - (d * t) \div 100 \in Nat /\ n - (d * t) \div 100 <= n /\ h.atMark <= n - (d * t) \div 100
  <2> DEFINE e == (d * t) \div 100
  <2>1. e \in 0..d
    BY Zenon, <1>4
  <2> HIDE DEF e
  <2>2. n - e \in Nat /\ n - e <= n /\ h.atMark <= n - e
    BY <1>1, <1>5, <2>1
  <2> QED BY Zenon, <2>2 DEF e
<1> QED BY Zenon, <1>2, <1>6 DEF n

ReleasedChunks(h, n) == [c \in 1..n |-> ReleaseToMark(h.chunk[c])]
Released(h, n) ==
  [h EXCEPT !.chunk = ReleasedChunks(h, n), !.cur = 1, !.using = FALSE, !.postMark = FALSE]
ReleasedSpec(h, n, g) ==
  /\ Shape(g) /\ Len(g.chunk) = n /\ DOMAIN g.chunk = 1..n
  /\ \A c \in 1..n : c \in DOMAIN h.chunk /\ g.chunk[c] = ReleaseToMark(h.chunk[c])
  /\ g.cur = 1 /\ g.pre = h.pre /\ g.post = h.post /\ g.using = FALSE
  /\ g.postMark = FALSE /\ g.marked = h.marked /\ g.atMark = h.atMark
  /\ g.ref = h.ref /\ g.ptr = h.ptr /\ g.holds = h.holds

\* The heap after each chunk that stays is cut back to its mark.
LEMMA ReleasedView ==
  ASSUME NEW h, Shape(h), NEW n \in 0..Len(h.chunk)
  PROVE  ReleasedSpec(h, n, Released(h, n))
<1> DEFINE f == ReleasedChunks(h, n)
           g == Released(h, n)
<1>0. /\ h \in HeapType /\ Len(h.chunk) \in Nat /\ DOMAIN h.chunk = 1..Len(h.chunk) /\ n \in Nat
      /\ \A c \in DOMAIN h.chunk : Tidy(h.chunk[c])
  BY ShapeFields DEF Shape
<1>1. f = [c \in 1..n |-> f[c]] /\ \A c \in 1..n : f[c] = ReleaseToMark(h.chunk[c])
  BY Zenon DEF ReleasedChunks
<1> HIDE DEF f
<1>2. \A c \in 1..n : c \in DOMAIN h.chunk /\ Tidy(f[c])
  <2>1. \A c \in 1..n : c \in DOMAIN h.chunk
    BY <1>0
  <2> QED BY Zenon, <1>0, <1>1, <2>1, TidyRelease
<1>3. f \in Seq(ChunkType) /\ Len(f) = n /\ DOMAIN f = 1..n
  BY Zenon, <1>0, <1>1, <1>2, TidySeq
<1>4. /\ g \in HeapType /\ g.chunk = f
      /\ g.cur = 1 /\ g.pre = h.pre /\ g.post = h.post /\ g.using = FALSE
      /\ g.postMark = FALSE /\ g.marked = h.marked /\ g.atMark = h.atMark
      /\ g.ref = h.ref /\ g.ptr = h.ptr /\ g.holds = h.holds
  BY Zenon, <1>0, <1>3 DEF HeapType, Released, f
<1> HIDE DEF g
<1>5. Shape(g)
  BY Zenon, <1>2, <1>3, <1>4 DEF Shape
<1> QED BY Zenon, <1>1, <1>2, <1>3, <1>4, <1>5 DEF g, ReleasedSpec

\* what Release leaves in the slots
OnlyStatics(r, m, q, l) ==
  /\ \A s \in Locals : q[s] = Null /\ l[s] = NoObj
  /\ \A s \in Statics : q[s] = r[s] /\ l[s] = m[s]
  /\ q \in [Slots -> Pointer] /\ l \in [Slots -> Object]
PastMark(h) == PostMarkObjs(h) \cup h.post

\* the two parts of the heap, and the chunks that stay
Parted(h, D) ==
  /\ D \in SUBSET Objs /\ D \cap Old(h) = {} /\ h.post \subseteq D
  /\ Old(h) = Allocated(h) \ D /\ D \subseteq Allocated(h) /\ NoObj \notin D
KeepsMarked(h, n) == n \in 0..Len(h.chunk) /\ h.atMark <= n

\* Release after its frees: nothing old referred to what is gone, so every
\* pointer left is valid and every count left is high enough.
LEMMA ReleaseFreed ==
  ASSUME NEW h, NEW r, NEW m, Good(h, r, m), h.postMark,
         NEW D, NEW k, NEW n, NEW g, NEW q, NEW l,
         Parted(h, D), FreeSpec(h, h.ref, D, k), Freed(h, k, D), Kept(h, k), KeepsMarked(h, n),
         ReleasedSpec(k, n, g), OnlyStatics(r, m, q, l)
  PROVE  /\ Good(g, q, l) /\ Kept(h, g) /\ g.marked /\ ~g.postMark
         /\ g.cur = 1 /\ g.post = {} /\ g.chunk[1].top = g.chunk[1].mark
<1>0. /\ Shape(h) /\ Unique(h) /\ Marks(h) /\ h.cur \in 1..Len(h.chunk) /\ h.pre \cap h.post = {}
      /\ Pointing(h, r, m) /\ Counting(h, m) /\ Settled(h, m) /\ Layout(h) /\ h \in HeapType
  BY Zenon DEF Good, Sound, Layout, Shape
<1>1. h.marked /\ h.atMark > 0 /\ h.atMark <= Len(h.chunk) /\ h.atMark \in Nat
      /\ Len(h.chunk) \in Nat /\ DOMAIN h.chunk = 1..Len(h.chunk)
      /\ \A c \in DOMAIN h.chunk : c > h.atMark => h.chunk[c].mark = 0
  BY Zenon, <1>0, ShapeFields DEF Marks
<1>2. /\ n \in Nat /\ n <= Len(h.chunk) /\ h.atMark <= n /\ n \in 0..Len(h.chunk) /\ 1 \in 1..n
  BY <1>1 DEF KeepsMarked
<1>3. D \in SUBSET Objs /\ D \cap Old(h) = {} /\ h.ref \in [Objs -> Nat]
      /\ Old(h) = Allocated(h) \ D /\ D \subseteq Allocated(h) /\ NoObj \notin D /\ h.post \subseteq D
  BY Zenon, <1>0, ShapeFields DEF Parted
<1>5. FreeSpec(h, h.ref, D, k)
  BY Zenon
<1>6. Freed(h, k, D)
  BY Zenon
<1>7. Kept(h, k)
  BY Zenon
<1>8. /\ Shape(k) /\ k.marked = h.marked /\ k.atMark = h.atMark
      /\ k.pre = h.pre \ D /\ k.post = h.post \ D
      /\ \A o \in D : k.ref[o] = 0 /\ k.ptr[o] = Null /\ k.holds[o] = NoObj
      /\ \A o \in Objs \ D : k.ref[o] = h.ref[o] /\ k.ptr[o] = h.ptr[o] /\ k.holds[o] = h.holds[o]
      /\ Len(k.chunk) = Len(h.chunk) /\ DOMAIN k.chunk = DOMAIN h.chunk
  BY Zenon, <1>5 DEF FreeSpec
<1>9. /\ \A c, x, o : o # NoObj => (Sits(k, c, x, o) <=> Sits(h, c, x, o) /\ o \notin D)
      /\ \A c \in DOMAIN h.chunk : k.chunk[c].mark = h.chunk[c].mark
  BY Zenon, <1>6 DEF Freed
<1>101. ReleasedSpec(k, n, g)
  BY Zenon
<1>10. /\ Shape(g) /\ Len(g.chunk) = n /\ DOMAIN g.chunk = 1..n
       /\ g.cur = 1 /\ g.pre = k.pre /\ g.post = k.post /\ g.using = FALSE
       /\ g.postMark = FALSE /\ g.marked = k.marked /\ g.atMark = k.atMark
       /\ g.ref = k.ref /\ g.ptr = k.ptr /\ g.holds = k.holds
  BY Zenon, <1>101 DEF ReleasedSpec
<1>102. \A c \in 1..n : c \in DOMAIN k.chunk /\ g.chunk[c] = ReleaseToMark(k.chunk[c])
  BY Zenon, <1>101 DEF ReleasedSpec
<1>11. \A c \in 1..n :
         /\ g.chunk[c].mark = k.chunk[c].mark /\ g.chunk[c].top = k.chunk[c].mark
         /\ DOMAIN g.chunk[c].at = {x \in DOMAIN k.chunk[c].at : x < k.chunk[c].mark}
         /\ \A x \in DOMAIN g.chunk[c].at : g.chunk[c].at[x] = k.chunk[c].at[x]
  <2>1. \A c \in 1..n : Tidy(k.chunk[c])
    BY Zenon, <1>8, <1>102, ShapeFields
  <2> QED BY <1>102, <2>1, TidyRelease
<1>12. g.pre = h.pre /\ g.post = {}
  <2>1. h.pre \subseteq Old(h)
    BY Zenon DEF Old
  <2> QED BY <1>3, <1>8, <1>10, <2>1
<1>13. ASSUME NEW c, NEW x, NEW o, o # NoObj
       PROVE  Sits(g, c, x, o) <=> Sits(h, c, x, o) /\ x < h.chunk[c].mark
  <2>1. ASSUME Sits(g, c, x, o) PROVE Sits(h, c, x, o) /\ x < h.chunk[c].mark
    <3>1. c \in 1..n /\ x \in DOMAIN g.chunk[c].at /\ g.chunk[c].at[x].obj = o
      BY Zenon, <1>10, <2>1 DEF Sits
    <3>2. x \in DOMAIN k.chunk[c].at /\ x < k.chunk[c].mark /\ k.chunk[c].at[x].obj = o
      BY Zenon, <1>11, <3>1
    <3>3. c \in DOMAIN h.chunk /\ c \in DOMAIN k.chunk
      BY Zenon, <1>8, <1>102, <3>1
    <3>4. Sits(k, c, x, o)
      BY Zenon, <3>2, <3>3 DEF Sits
    <3> QED BY Zenon, <1>9, <1>13, <3>2, <3>3, <3>4
  <2>2. ASSUME Sits(h, c, x, o), x < h.chunk[c].mark PROVE Sits(g, c, x, o)
    <3>1. c \in DOMAIN h.chunk /\ x \in Nat
      BY Zenon, <1>0, <2>2, SitsTyped DEF Sits
    <3>2. c \in 1..n
      <4>1. h.chunk[c].mark # 0
        BY <2>2, <3>1
      <4>2. ~(c > h.atMark)
        BY Zenon, <1>1, <3>1, <4>1
      <4> QED BY <1>1, <1>2, <3>1, <4>2
    <3>3. o \in Old(h)
      BY Zenon, <1>0, <1>13, <2>2, ObjectsView
    <3>4. Sits(k, c, x, o)
      BY Zenon, <1>3, <1>9, <1>13, <2>2, <3>3
    <3> QED BY Zenon, <1>9, <1>10, <1>11, <2>2, <3>1, <3>2, <3>4 DEF Sits
  <2> QED BY Zenon, <2>1, <2>2
<1>14. Unique(g)
  BY <1>0, <1>13, SizesAssumption DEF Unique
<1>15. Marks(g)
  BY <1>1, <1>2, <1>8, <1>9, <1>10, <1>11 DEF Marks
<1>16. Layout(g)
  BY Zenon, <1>2, <1>10, <1>12, <1>14, <1>15 DEF Layout
<1>17. ASSUME NEW o, o # NoObj
       PROVE  (o \in Allocated(g) <=> o \in Old(h)) /\ (o \in Old(g) <=> o \in Old(h))
  <2>1. Large(g) = h.pre
    BY Zenon, <1>12 DEF Large
  <2>2. \A c, x : Sits(g, c, x, o) => x < g.chunk[c].mark
    BY Zenon, <1>10, <1>11 DEF Sits
  <2>3. o \in Allocated(g) <=> o \in Large(g) \/ \E c, x : Sits(g, c, x, o)
    BY Zenon, <1>10, <1>17, ObjectsView
  <2>4. o \in Old(g) <=> o \in g.pre \/ \E c, x : Sits(g, c, x, o) /\ x < g.chunk[c].mark
    BY Zenon, <1>10, <1>17, ObjectsView
  <2>5. o \in Old(h) <=> o \in h.pre \/ \E c, x : Sits(h, c, x, o) /\ x < h.chunk[c].mark
    BY Zenon, <1>0, <1>17, ObjectsView
  <2> QED BY Zenon, <1>12, <1>13, <1>17, <2>1, <2>2, <2>3, <2>4, <2>5
<1>18. Allocated(g) = Old(h) /\ Old(g) = Old(h)
  <2>1. NoObj \notin Allocated(g) /\ NoObj \notin Old(h) /\ NoObj \notin Old(g)
    BY Zenon, <1>0, <1>10, ObjectsTyped
  <2> QED BY <1>17, <2>1
<1>19. ASSUME NEW p, NEW o, Leads(h, p, o), o \in Old(h) \cup {NoObj} PROVE Leads(g, p, o)
  <2>0. Shape(g) /\ Large(g) = h.pre
    BY Zenon, <1>10, <1>12 DEF Large
  <2>1. CASE o = NoObj
    BY Zenon, <1>19, <2>0, <2>1, ObjectsTyped DEF Leads
  <2>2. CASE o # NoObj
    <3>1. (p = o /\ o \in Large(h)) \/ \E c, x : p = Small(c, x) /\ Sits(h, c, x, o)
      BY Zenon, <1>0, <1>19, <2>2, TargetView DEF Leads
    <3>2. CASE p = o /\ o \in Large(h)
      <4>1. o \in h.pre
        BY Zenon, <1>0, <1>19, <2>2, <3>2, OldApart DEF Large
      <4>2. Target(g, p) = o
        BY Zenon, <2>0, <2>2, <3>2, <4>1, TargetView
      <4> QED BY Zenon, <1>19, <4>2 DEF Leads
    <3>3. CASE \E c, x : p = Small(c, x) /\ Sits(h, c, x, o)
      <4>1. PICK c, x : p = Small(c, x) /\ Sits(h, c, x, o)
        BY Zenon, <3>3
      <4>2. o \notin h.pre
        BY <1>0, <2>2, <4>1, SitsTyped, ShapeFields
      <4>3. PICK d, y : Sits(h, d, y, o) /\ y < h.chunk[d].mark
        BY Zenon, <1>0, <1>19, <2>2, <4>2, ObjectsView
      <4>4. o \in Objs
        BY Zenon, <1>0, <1>19, <2>2, ObjectsTyped
      <4>5. c = d /\ x = y
        BY Zenon, <1>0, <4>1, <4>3, <4>4 DEF Unique
      <4>6. Sits(g, c, x, o)
        BY Zenon, <1>13, <2>2, <4>3, <4>5
      <4>7. Target(g, p) = o
        BY Zenon, <2>0, <2>2, <4>1, <4>6, TargetView
      <4> QED BY Zenon, <1>19, <4>7 DEF Leads
    <3> QED BY Zenon, <3>1, <3>2, <3>3
  <2> QED BY Zenon, <2>1, <2>2
<1>20. /\ \A s \in Statics : m[s] \in Old(h) \cup {NoObj}
       /\ \A o \in Old(h) : h.holds[o] \in Old(h) \cup {NoObj}
       /\ \A o \in Old(h) :
            \/ FromSlots(m, o) = {} /\ FromObjs(h, o) = {}
            \/ \E s \in Statics : m[s] = o
            \/ \E p \in Old(h) : h.holds[p] = o
  BY Zenon, <1>0, <1>1 DEF Settled
<1>21. ASSUME NEW o \in Objs
       PROVE  \/ o \in Old(h) /\ g.ptr[o] = h.ptr[o] /\ g.holds[o] = h.holds[o]
              \/ o \notin Old(h) /\ g.ptr[o] = Null /\ g.holds[o] = NoObj
  <2>1. CASE o \in D
    BY <1>3, <1>8, <1>10, <2>1
  <2>2. CASE o \notin D /\ o \in Allocated(h)
    BY <1>3, <1>8, <1>10, <2>2
  <2>3. CASE o \notin Allocated(h)
    <3>1. h.holds[o] = NoObj /\ h.ptr[o] = Null
      BY Zenon, <1>0, <2>3 DEF Pointing, Leads
    <3> QED BY <1>3, <1>8, <1>10, <2>3, <3>1
  <2> QED BY Zenon, <2>1, <2>2, <2>3
<1>22. /\ r \in [Slots -> Pointer] /\ m \in [Slots -> Object]
       /\ \A s \in Slots : Leads(h, r[s], m[s])
       /\ \A o \in Objs : Leads(h, h.ptr[o], h.holds[o])
       /\ \A o \in Objs : h.holds[o] \notin RawObjs
       /\ \A o \in RawObjs : h.holds[o] = NoObj
       /\ \A s, t \in Slots : m[s] = m[t] => m[s] \notin RawObjs \/ s = t
  BY Zenon, <1>0 DEF Pointing
<1>23. Leads(g, Null, NoObj)
  BY Zenon, <1>10, ObjectsTyped DEF Leads
<1>24. /\ \A s \in Locals : q[s] = Null /\ l[s] = NoObj
       /\ \A s \in Statics : q[s] = r[s] /\ l[s] = m[s]
       /\ q \in [Slots -> Pointer] /\ l \in [Slots -> Object]
  BY Zenon DEF OnlyStatics
<1>25. Pointing(g, q, l)
  <2>1. \A s \in Slots : Leads(g, q[s], l[s])
    <3> SUFFICES ASSUME NEW s \in Slots PROVE Leads(g, q[s], l[s])
      BY Zenon
    <3>1. CASE s \in Locals
      BY Zenon, <1>23, <1>24, <3>1
    <3>2. CASE s \in Statics
      BY Zenon, <1>19, <1>20, <1>22, <1>24, <3>2
    <3> QED BY Zenon, <3>1, <3>2, SlotsTyped
  <2>2. \A o \in Objs : Leads(g, g.ptr[o], g.holds[o])
    BY Zenon, <1>19, <1>20, <1>21, <1>22, <1>23
  <2>3. /\ \A o \in Objs \ Allocated(g) : g.holds[o] = NoObj
        /\ \A o \in RawObjs : g.holds[o] = NoObj
        /\ \A o \in Objs : g.holds[o] \notin RawObjs
    <3>1. NoObj \notin RawObjs /\ RawObjs \subseteq Objs
      BY Zenon, SizesAssumption
    <3> QED BY Zenon, <1>18, <1>21, <1>22, <3>1
  <2>4. \A s, t \in Slots : l[s] = l[t] => l[s] \notin RawObjs \/ s = t
    <3>1. NoObj \notin RawObjs
      BY Zenon, SizesAssumption
    <3> QED BY <1>22, <1>24, <3>1, SlotsTyped
  <2> QED BY Zenon, <1>24, <2>1, <2>2, <2>3, <2>4 DEF Pointing
<1>26. \A o : o # NoObj => FromSlots(l, o) \subseteq FromSlots(m, o) /\ FromObjs(g, o) \subseteq FromObjs(h, o)
  <2> SUFFICES ASSUME NEW o, o # NoObj
               PROVE  FromSlots(l, o) \subseteq FromSlots(m, o) /\ FromObjs(g, o) \subseteq FromObjs(h, o)
    BY Zenon
  <2>1. \A s \in Slots : l[s] = o => m[s] = o
    BY Zenon, <1>24, SlotsTyped
  <2>2. \A p \in Objs : g.holds[p] = o => h.holds[p] = o
    BY Zenon, <1>21
  <2> QED BY Zenon, <2>1, <2>2 DEF FromSlots, FromObjs
<1>27. Counting(g, l)
  <2> SUFFICES ASSUME NEW o \in Allocated(g) \ RawObjs
               PROVE  /\ g.ref[o] >= Refs(g, l, o)
                      /\ ~g.marked \/ o \notin Old(g) => g.ref[o] = Refs(g, l, o)
    BY Zenon DEF Counting
  <2>1. g.marked /\ o \in Old(g) /\ o \in Old(h)
    BY <1>1, <1>8, <1>10, <1>18
  <2>2. o \in Allocated(h) \ RawObjs /\ o \in Objs /\ o # NoObj /\ o \notin D
    BY Zenon, <1>0, <1>3, <2>1, ObjectsTyped
  <2>3. g.ref[o] = h.ref[o] /\ h.ref[o] \in Nat
    BY <1>3, <1>8, <1>10, <2>2
  <2>4. h.ref[o] >= Refs(h, m, o)
    BY Zenon, <1>0, <2>2 DEF Counting
  <2>5. /\ Cardinality(FromSlots(l, o)) <= Cardinality(FromSlots(m, o))
        /\ Cardinality(FromObjs(g, o)) <= Cardinality(FromObjs(h, o))
    BY Zenon, <1>26, <2>2, RefsFinite, FS_Subset
  <2>6. /\ Cardinality(FromSlots(l, o)) \in Nat /\ Cardinality(FromSlots(m, o)) \in Nat
        /\ Cardinality(FromObjs(g, o)) \in Nat /\ Cardinality(FromObjs(h, o)) \in Nat
    BY Zenon, RefsFinite
  <2>7. Refs(h, m, o) >= Refs(g, l, o) /\ Refs(h, m, o) \in Nat /\ Refs(g, l, o) \in Nat
    BY <2>5, <2>6 DEF Refs
  <2> QED BY <2>1, <2>3, <2>4, <2>7
<1>28. Settled(g, l)
  <2>1. \A o \in Old(h) : o # NoObj /\ o \in Objs /\ g.holds[o] = h.holds[o]
    <3>1. Old(h) \subseteq Objs /\ NoObj \notin Old(h)
      BY Zenon, <1>0, ObjectsTyped
    <3> QED BY Zenon, <1>21, <3>1
  <2>2. ASSUME NEW o \in Old(h)
        PROVE  \/ FromSlots(l, o) = {} /\ FromObjs(g, o) = {}
               \/ \E s \in Statics : l[s] = o
               \/ \E p \in Old(h) : g.holds[p] = o
    <3>1. CASE FromSlots(m, o) = {} /\ FromObjs(h, o) = {}
      <4>1. FromSlots(l, o) \subseteq FromSlots(m, o) /\ FromObjs(g, o) \subseteq FromObjs(h, o)
        BY Zenon, <1>26, <2>1
      <4> QED BY Zenon, <3>1, <4>1
    <3>2. CASE \E s \in Statics : m[s] = o
      BY Zenon, <1>24, <3>2
    <3>3. CASE \E p \in Old(h) : h.holds[p] = o
      BY Zenon, <2>1, <3>3
    <3> QED BY Zenon, <1>20, <3>1, <3>2, <3>3
  <2> QED BY Zenon, <1>18, <1>20, <1>24, <2>1, <2>2 DEF Settled
<1>29. FreeListOK(g)
  BY Zenon, <1>10 DEF FreeListOK
<1>30. Kept(h, g)
  <2>1. \A c \in 1..h.atMark : c \in 1..n /\ c \in DOMAIN h.chunk
    BY <1>1, <1>2
  <2>2. ASSUME NEW c \in 1..h.atMark
        PROVE  g.chunk[c].mark = k.chunk[c].mark /\ BelowMark(g.chunk[c]) = BelowMark(k.chunk[c])
    <3> DEFINE j == g.chunk[c]
               i == k.chunk[c]
    <3>1. /\ j.mark = i.mark
          /\ DOMAIN j.at = {x \in DOMAIN i.at : x < i.mark}
          /\ \A x \in DOMAIN j.at : j.at[x] = i.at[x]
      BY Zenon, <1>11, <2>1
    <3> HIDE DEF j, i
    <3>2. {x \in DOMAIN j.at : x < j.mark} = {x \in DOMAIN i.at : x < i.mark}
      BY Zenon, <3>1
    <3>3. BelowMark(j) = BelowMark(i)
      BY Zenon, <3>1, <3>2 DEF BelowMark
    <3> QED BY Zenon, <3>1, <3>3 DEF j, i
  <2>3. Kept(k, g)
    BY Zenon, <1>2, <1>8, <1>10, <1>12, <2>2, <1>7 DEF Kept
  <2> QED BY Zenon, <1>7, <2>3, KeptTrans
<1>31. g.chunk[1].top = g.chunk[1].mark
  BY Zenon, <1>2, <1>11
<1> QED BY <1>1, <1>8, <1>10, <1>12, <1>16, <1>25, <1>27, <1>28, <1>29, <1>30, <1>31 DEF Good, Sound

\* Memory::Release
Releases(h, g) == g = Released(Free(h, PastMark(h)), KeptChunks(h))

\* Memory::Release keeps the heap good and what is below the marks.
LEMMA ReleaseGood ==
  ASSUME NEW h, NEW r, NEW m, Good(h, r, m), h.postMark,
         NEW g, Releases(h, g),
         NEW q, NEW l, OnlyStatics(r, m, q, l)
  PROVE  /\ Good(g, q, l) /\ Kept(h, g) /\ g.marked /\ ~g.postMark
         /\ g.cur = 1 /\ g.post = {} /\ g.chunk[1].top = g.chunk[1].mark
<1> DEFINE D == PastMark(h)
           k == Free(h, D)
           n == KeptChunks(h)
<1>0. /\ Layout(h) /\ Shape(h) /\ Marks(h) /\ h \in HeapType
  BY Zenon DEF Good, Sound, Layout, Shape
<1>1. /\ D \in SUBSET Objs /\ D \cap Old(h) = {} /\ h.post \subseteq D
      /\ Old(h) = Allocated(h) \ D /\ D \subseteq Allocated(h) /\ NoObj \notin D
  BY Zenon, <1>0, OldApart, ObjectsTyped DEF PastMark
<1>11. Parted(h, D)
  BY Zenon, <1>1 DEF Parted
<1>2. h.ref \in [Objs -> Nat] /\ h.atMark \in Nat
  BY Zenon, <1>0, ShapeFields
<1>3. n \in 0..Len(h.chunk) /\ h.atMark <= n
  <2>1. n \in Nat /\ n <= Len(h.chunk) /\ h.atMark <= n
    BY Zenon, <1>0, KeptChunksRange DEF Marks
  <2>2. Len(h.chunk) \in Nat
    BY Zenon, <1>0, ShapeFields
  <2> QED BY <2>1, <2>2
<1> HIDE DEF D, n
<1>4. k = FreeWith(h, h.ref, D)
  <2>1. [h EXCEPT !.ref = h.ref] = h
    BY Zenon, <1>0 DEF HeapType
  <2> QED BY Zenon, <2>1 DEF FreeWith
<1>5. g = Released(k, n)
  BY Zenon DEF D, n, Releases
<1> HIDE DEF k
<1>6. FreeSpec(h, h.ref, D, k)
  BY Zenon, <1>0, <1>1, <1>2, <1>4, FreeView
<1>7. Freed(h, k, D)
  BY Zenon, <1>0, <1>1, <1>2, <1>4, FreeObjects
<1>8. Kept(h, k)
  BY Zenon, <1>0, <1>1, <1>2, <1>4, FreeKept
<1>9. Shape(k) /\ n \in 0..Len(k.chunk)
  BY Zenon, <1>3, <1>6 DEF FreeSpec
<1>10. ReleasedSpec(k, n, g)
  BY Zenon, <1>5, <1>9, ReleasedView
<1>12. KeepsMarked(h, n)
  BY Zenon, <1>3 DEF KeepsMarked
<1>13. Good(h, r, m) /\ h.postMark /\ OnlyStatics(r, m, q, l)
  BY Zenon
<1> QED BY ONLY <1>11, <1>12, <1>13, <1>6, <1>7, <1>8, <1>10, ReleaseFreed
=============================================================================
