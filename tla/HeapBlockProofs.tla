-------------------------- MODULE HeapBlockProofs ---------------------------
(***************************************************************************)
(* The chunks of a Memory, their blocks and its free list; the parts of    *)
(* the inductive invariant of Heap; and the scans for unused values        *)
(* (FreeUnusedSmallBlocks, FreeUnusedLargeBlocks): they delete only what   *)
(* nothing refers to, and keep the counts, the pointers, the free list and *)
(* everything below the marks.                                             *)
(***************************************************************************)
EXTENDS Heap, FiniteSetTheorems, NaturalsInduction, TLAPS

\* Induction over the natural numbers, stated for a set instead of a predicate.
LEMMA NatInduct ==
  ASSUME NEW T, 0 \in T, \A n \in Nat : n \in T => n + 1 \in T
  PROVE  Nat \subseteq T
<1> DEFINE U == Nat \ T
<1>1. SUFFICES ASSUME U # {} PROVE FALSE
  BY Zenon
<1>2. PICK x \in U : \A y \in U : ~(<<y, x>> \in OpToRel(<, Nat))
  BY Zenon, <1>1, NatLessThanWellFounded, WFMin
<1>3. x \in Nat /\ x # 0 /\ x - 1 \in Nat
  OBVIOUS
<1>4. CASE x - 1 \in T
  BY <1>3, <1>4
<1>5. CASE x - 1 \notin T
  <2>1. <<x - 1, x>> \in OpToRel(<, Nat)
    BY <1>3 DEF OpToRel
  <2> QED BY Zenon, <2>1, <1>2, <1>3, <1>5
<1> QED BY Zenon, <1>4, <1>5

\* The least element of a non-empty set of natural numbers.
LEMMA MinNat ==
  ASSUME NEW S \in SUBSET Nat, S # {}
  PROVE  Min(S) \in S /\ \A y \in S : Min(S) <= y
<1>1. PICK x \in S : \A y \in S : ~(<<y, x>> \in OpToRel(<, Nat))
  BY Zenon, NatLessThanWellFounded, WFMin
<1>2. ASSUME NEW y \in S PROVE x <= y
  <2>1. ~(y < x)
    BY Zenon, <1>1 DEF OpToRel
  <2> QED BY <2>1
<1> QED BY Zenon, <1>2 DEF Min

Address == [chunk : Nat, off : Nat]
Object == Objs \cup {NoObj}
BlockType == [size : MinSmall..ChunkSize, obj : (Objs \ LargeObjs) \cup {NoObj}]
AtType == UNION {[D -> BlockType] : D \in SUBSET (0..ChunkSize)}
ChunkType == [mark : 0..ChunkSize, top : 0..ChunkSize, at : AtType]
EndOf(k, x) == x + k.at[x].size
Tidy(k) ==
  /\ k \in ChunkType /\ k.mark <= k.top
  /\ \A x \in DOMAIN k.at : EndOf(k, x) <= k.top /\ (x < k.mark => EndOf(k, x) <= k.mark)
  /\ \A x, y \in DOMAIN k.at : x < y => EndOf(k, x) <= y
Stays(k) == {x \in DOMAIN k.at : x < k.mark \/ k.at[x].obj # NoObj}
KeepsLive(k, g) ==
  /\ g.mark = k.mark /\ Stays(g) = Stays(k)
  /\ \A x \in Stays(k) : g.at[x] = k.at[x]

\* What the map of a chunk's blocks consists of.
LEMMA AtElim ==
  ASSUME NEW at \in AtType
  PROVE  /\ DOMAIN at \subseteq 0..ChunkSize /\ DOMAIN at \subseteq Nat
         /\ at = [x \in DOMAIN at |-> at[x]]
         /\ \A x \in DOMAIN at : at[x] \in BlockType /\ at[x].size \in Nat /\ at[x].size >= 1
<1>1. PICK D \in SUBSET (0..ChunkSize) : at \in [D -> BlockType]
  BY Zenon DEF AtType
<1>2. \A x \in D : at[x] \in BlockType
  BY Zenon, <1>1
<1>3. \A b \in BlockType : b.size \in Nat /\ b.size >= 1
  BY SizesAssumption DEF BlockType
<1> QED BY <1>1, <1>2, <1>3, SizesAssumption

\* A function from offsets to blocks is such a map.
LEMMA AtIntro ==
  ASSUME NEW D \in SUBSET (0..ChunkSize), NEW at \in [D -> BlockType]
  PROVE  at \in AtType
BY Zenon DEF AtType

\* The block that Chunk::Alloc or a split makes.
LEMMA BlockTyped ==
  ASSUME NEW size \in MinSmall..ChunkSize, NEW o \in (Objs \ LargeObjs) \cup {NoObj}
  PROVE  Block(size, o) \in BlockType /\ Block(size, o).size = size /\ Block(size, o).obj = o
BY Zenon DEF Block, BlockType

\* Everything a tidy chunk gives: its blocks lie below top(), none crosses
\* mark(), and no two overlap.
LEMMA ChunkFields ==
  ASSUME NEW k, Tidy(k)
  PROVE  /\ k.mark \in 0..ChunkSize /\ k.top \in 0..ChunkSize /\ k.mark \in Nat /\ k.top \in Nat
         /\ k.at \in AtType
         /\ k.mark <= k.top
         /\ k = [mark |-> k.mark, top |-> k.top, at |-> k.at]
         /\ DOMAIN k.at \subseteq 0..ChunkSize /\ DOMAIN k.at \subseteq Nat
         /\ \A x \in DOMAIN k.at :
              /\ k.at[x] \in BlockType /\ k.at[x].size \in Nat /\ k.at[x].size >= 1
              /\ x + k.at[x].size <= k.top /\ x < k.top
              /\ x < k.mark => x + k.at[x].size <= k.mark
         /\ \A x, y \in DOMAIN k.at : x < y => x + k.at[x].size <= y
<1>1. k \in ChunkType /\ k.at \in AtType /\ k.mark \in 0..ChunkSize /\ k.top \in 0..ChunkSize
  BY Zenon DEF Tidy, ChunkType
<1>2. k = [mark |-> k.mark, top |-> k.top, at |-> k.at]
  BY Zenon, <1>1 DEF ChunkType
<1>3. ChunkSize \in Nat
  BY Zenon, SizesAssumption
<1>4. /\ DOMAIN k.at \subseteq 0..ChunkSize /\ DOMAIN k.at \subseteq Nat
      /\ \A x \in DOMAIN k.at : k.at[x] \in BlockType /\ k.at[x].size \in Nat /\ k.at[x].size >= 1
  BY Zenon, <1>1, AtElim
<1> QED BY <1>1, <1>2, <1>3, <1>4 DEF Tidy, EndOf

\* How a chunk is shown to be tidy.
LEMMA ChunkIntro ==
  ASSUME NEW mark \in 0..ChunkSize, NEW top \in 0..ChunkSize, mark <= top,
         NEW D \in SUBSET (0..ChunkSize), NEW at \in [D -> BlockType],
         \A x \in D : x + at[x].size <= top /\ (x < mark => x + at[x].size <= mark),
         \A x, y \in D : x < y => x + at[x].size <= y
  PROVE  Tidy([mark |-> mark, top |-> top, at |-> at])
<1>1. at \in AtType /\ DOMAIN at = D
  BY Zenon, AtIntro
<1> QED BY Zenon, <1>1 DEF Tidy, ChunkType, EndOf

\* Chunk::Alloc
LEMMA TidyAlloc ==
  ASSUME NEW k, Tidy(k), NEW size \in MinSmall..ChunkSize, k.top + size <= ChunkSize,
         NEW b \in BlockType, b.size = size
  PROVE  /\ Tidy([mark |-> k.mark, top |-> k.top + size, at |-> Put(k.at, k.top, b)])
         /\ k.top \notin DOMAIN k.at
<1> DEFINE at == Put(k.at, k.top, b)
           D == DOMAIN k.at \cup {k.top}
<1>2. /\ k.top \notin DOMAIN k.at /\ D \in SUBSET (0..ChunkSize) /\ at \in [D -> BlockType]
      /\ k.top + size \in 0..ChunkSize /\ k.mark <= k.top + size
  BY ChunkFields, SizesAssumption DEF Put
<1>3. at[k.top].size = size /\ \A x \in DOMAIN k.at : x # k.top /\ at[x] = k.at[x]
  BY Zenon, <1>2 DEF Put
<1> HIDE DEF at
<1>4. \A x \in D : x + at[x].size <= k.top + size /\ (x < k.mark => x + at[x].size <= k.mark)
  BY <1>3, ChunkFields, SizesAssumption
<1>5. \A x, y \in D : x < y => x + at[x].size <= y
  BY <1>3, ChunkFields, SizesAssumption
<1>6. Tidy([mark |-> k.mark, top |-> k.top + size, at |-> at])
  BY Zenon, <1>2, <1>4, <1>5, ChunkIntro, ChunkFields
<1> QED BY Zenon, <1>2, <1>6 DEF at

\* SmallBlockFreeList::Alloc when it is not, Free
LEMMA TidyObj ==
  ASSUME NEW k, Tidy(k),
         NEW at, DOMAIN at = DOMAIN k.at, at = [x \in DOMAIN at |-> at[x]],
         \A x \in DOMAIN at : at[x] = k.at[x] \/ \E o \in (Objs \ LargeObjs) \cup {NoObj} :
                                                   at[x] = Block(k.at[x].size, o)
  PROVE  Tidy([mark |-> k.mark, top |-> k.top, at |-> at])
<1> DEFINE D == DOMAIN k.at
<1>2. \A x \in D : k.at[x].size \in MinSmall..ChunkSize
  BY Zenon, ChunkFields DEF BlockType
<1>3. \A x \in D : at[x] \in BlockType /\ at[x].size = k.at[x].size
  BY <1>2, BlockTyped, ChunkFields
<1>4. at \in [D -> BlockType]
  BY Zenon, <1>3
<1> QED BY <1>3, <1>4, ChunkIntro, ChunkFields

\* neighbouring free blocks become one
LEMMA TidyCoalesce ==
  ASSUME NEW k, Tidy(k)
  PROVE  Tidy(Coalesce(k)) /\ KeepsLive(k, Coalesce(k)) /\ Coalesce(k).top = k.top
<1> DEFINE joined(x) == FreeAt(k, x) /\ \E y \in DOMAIN k.at : FreeAt(k, y) /\ y + k.at[y].size = x
           kept == {x \in DOMAIN k.at : ~joined(x)}
           end(x) == Min({y \in kept : y > x} \cup {k.top})
           at == [x \in kept |-> IF FreeAt(k, x) THEN Block(end(x) - x, NoObj) ELSE k.at[x]]
<1>2. Coalesce(k) = [mark |-> k.mark, top |-> k.top, at |-> at]
  BY Zenon DEF Coalesce
<1>3. kept \subseteq DOMAIN k.at /\ \A x \in Stays(k) : x \in kept /\ ~FreeAt(k, x)
  BY ChunkFields DEF FreeAt, Stays
<1> HIDE DEF kept
<1>4. ASSUME NEW x \in kept
      PROVE  /\ end(x) \in Nat /\ end(x) <= k.top /\ end(x) >= x + k.at[x].size
             /\ \A y \in kept : y > x => end(x) <= y
  <2> DEFINE S == {y \in kept : y > x} \cup {k.top}
  <2>1. S \in SUBSET Nat /\ S # {} /\ k.top \in S
    BY Zenon, <1>3, ChunkFields
  <2>2. \A y \in S : x + k.at[x].size <= y
    BY Zenon, <1>3, ChunkFields
  <2> HIDE DEF S
  <2>3. Min(S) \in S /\ \A y \in S : Min(S) <= y
    BY Zenon, <2>1, MinNat
  <2>4. Min(S) \in Nat /\ Min(S) <= k.top /\ Min(S) >= x + k.at[x].size
    BY Zenon, <2>1, <2>2, <2>3, <1>3, ChunkFields
  <2> QED BY Zenon, <2>3, <2>4 DEF S
<1> HIDE DEF end
<1>5. ASSUME NEW x \in kept
      PROVE  /\ at[x] \in BlockType
             /\ x + at[x].size = IF FreeAt(k, x) THEN end(x) ELSE x + k.at[x].size
  <2>1. CASE FreeAt(k, x)
    <3>1. x \in Nat /\ k.at[x].size \in MinSmall..ChunkSize /\ k.top \in 0..ChunkSize
      BY Zenon, <1>3, ChunkFields DEF BlockType
    <3>2. end(x) - x \in MinSmall..ChunkSize
      BY <3>1, <1>4, SizesAssumption
    <3>3. at[x] = Block(end(x) - x, NoObj)
      BY Zenon, <2>1
    <3>4. at[x] \in BlockType /\ at[x].size = end(x) - x
      BY <3>2, <3>3, BlockTyped
    <3> QED BY <3>1, <3>4, <1>4, <2>1
  <2>2. CASE ~FreeAt(k, x)
    BY Zenon, <2>2, <1>3, ChunkFields
  <2> QED BY Zenon, <2>1, <2>2
<1>6. at \in [kept -> BlockType] /\ DOMAIN at = kept
  BY Zenon, <1>5
<1>7. \A x \in Stays(k) : at[x] = k.at[x]
  BY Zenon, <1>3
<1>8. \A x \in kept : FreeAt(k, x) => at[x].obj = NoObj /\ x >= k.mark
  BY Zenon DEF Block, FreeAt
<1> HIDE DEF at
<1>9. \A x \in kept : x + at[x].size <= k.top /\ (x < k.mark => x + at[x].size <= k.mark)
  <2> SUFFICES ASSUME NEW x \in kept
               PROVE  x + at[x].size <= k.top /\ (x < k.mark => x + at[x].size <= k.mark)
    BY Zenon
  <2>1. CASE FreeAt(k, x)
    BY <2>1, <1>3, <1>4, <1>5, <1>8, ChunkFields
  <2>2. CASE ~FreeAt(k, x)
    BY Zenon, <2>2, <1>3, <1>5, ChunkFields
  <2> QED BY Zenon, <2>1, <2>2
<1>10. \A x, y \in kept : x < y => x + at[x].size <= y
  <2> SUFFICES ASSUME NEW x \in kept, NEW y \in kept, x < y PROVE x + at[x].size <= y
    BY Zenon
  <2>1. CASE FreeAt(k, x)
    BY Zenon, <2>1, <1>3, <1>4, <1>5, ChunkFields
  <2>2. CASE ~FreeAt(k, x)
    BY Zenon, <2>2, <1>3, <1>5, ChunkFields
  <2> QED BY Zenon, <2>1, <2>2
<1>11. Tidy([mark |-> k.mark, top |-> k.top, at |-> at])
  BY Zenon, <1>3, <1>6, <1>9, <1>10, ChunkIntro, ChunkFields
<1> DEFINE g == Coalesce(k)
<1>12. g.mark = k.mark /\ g.top = k.top /\ g.at = at
  BY <1>2
<1>13. Stays(g) = Stays(k)
  <2>1. ASSUME NEW x \in Stays(k) PROVE x \in Stays(g)
    BY Zenon, <1>3, <1>6, <1>7, <1>12 DEF Stays
  <2>2. ASSUME NEW x \in Stays(g) PROVE x \in Stays(k)
    <3>1. x \in kept /\ (x < k.mark \/ at[x].obj # NoObj)
      BY Zenon, <1>6, <1>12 DEF Stays
    <3>2. x \in DOMAIN k.at
      BY Zenon, <3>1, <1>3
    <3>3. ~FreeAt(k, x)
      BY <3>1, <3>2, <1>8, ChunkFields
    <3> QED BY <3>2, <3>3, ChunkFields DEF FreeAt, Stays
  <2> QED BY Zenon, <2>1, <2>2
<1> QED BY Zenon, <1>2, <1>7, <1>11, <1>12, <1>13 DEF KeepsLive

\* the rest of a chunk becomes a free block
LEMMA TidyPad ==
  ASSUME NEW k, Tidy(k)
  PROVE  Tidy(Pad(k)) /\ KeepsLive(k, Pad(k))
<1>1. CASE ~(ChunkSize - k.top >= MinSmall)
  BY Zenon, <1>1 DEF Pad, KeepsLive
<1>2. CASE ChunkSize - k.top >= MinSmall
  <2> DEFINE size == ChunkSize - k.top
             b == Block(size, NoObj)
             g == [mark |-> k.mark, top |-> k.top + size, at |-> Put(k.at, k.top, b)]
  <2>1. size \in MinSmall..ChunkSize /\ k.top + size <= ChunkSize /\ k.top + size = ChunkSize
    BY <1>2, ChunkFields, SizesAssumption
  <2>2. b \in BlockType /\ b.size = size /\ b.obj = NoObj
    BY Zenon, <2>1, BlockTyped
  <2>3. Pad(k) = g
    BY Zenon, <1>2, <2>1 DEF Pad
  <2> HIDE DEF b, size
  <2>4. Tidy(g) /\ k.top \notin DOMAIN k.at
    BY Zenon, <2>1, <2>2, TidyAlloc
  <2>5. Stays(g) = Stays(k) /\ \A x \in Stays(k) : g.at[x] = k.at[x]
    BY <2>2, <2>4, ChunkFields DEF Stays, Put
  <2> QED BY <2>3, <2>4, <2>5 DEF KeepsLive
<1> QED BY Zenon, <1>1, <1>2

\* part of the blocks go
LEMMA TidyFewer ==
  ASSUME NEW k, Tidy(k), NEW D \in SUBSET (DOMAIN k.at), NEW top \in Nat,
         k.mark <= top, top <= k.top, \A x \in D : x + k.at[x].size <= top,
         NEW at, DOMAIN at = D, at = [x \in D |-> at[x]], \A x \in D : at[x] = k.at[x]
  PROVE  Tidy([mark |-> k.mark, top |-> top, at |-> at])
<1>1. at \in [D -> BlockType] /\ D \in SUBSET (0..ChunkSize) /\ top \in 0..ChunkSize
  BY ChunkFields, SizesAssumption
<1>2. \A x \in D : x + at[x].size <= top /\ (x < k.mark => x + at[x].size <= k.mark)
  BY Zenon, ChunkFields
<1>3. \A x, y \in D : x < y => x + at[x].size <= y
  BY Zenon, ChunkFields
<1> QED BY Zenon, <1>1, <1>2, <1>3, ChunkIntro, ChunkFields

\* set_top at the end of FreeUnusedSmallBlocks
LEMMA TidyGiveBack ==
  ASSUME NEW k, Tidy(k)
  PROVE  Tidy(GiveBack(k)) /\ KeepsLive(k, GiveBack(k))
<1> DEFINE last == {x \in DOMAIN k.at : FreeAt(k, x) /\ x + k.at[x].size = k.top}
           D == DOMAIN k.at \ last
           top == IF last = {} THEN k.top ELSE Min(last)
           at == [x \in D |-> k.at[x]]
           g == [mark |-> k.mark, top |-> top, at |-> at]
<1>1. GiveBack(k) = g
  BY Zenon DEF GiveBack
<1>2. DOMAIN at = D /\ at = [x \in D |-> at[x]] /\ \A x \in D : at[x] = k.at[x]
  BY Zenon
<1>3. D \in SUBSET (DOMAIN k.at) /\ Stays(k) \subseteq D
  BY ChunkFields DEF FreeAt, Stays
<1>4. /\ top \in Nat /\ k.mark <= top /\ top <= k.top
      /\ \A x \in D : x + k.at[x].size <= top
  <2>1. CASE last = {}
    <3>1. top = k.top /\ D = DOMAIN k.at
      BY Zenon, <2>1
    <3> HIDE DEF top, D
    <3> QED BY <3>1, ChunkFields
  <2>2. CASE last # {}
    <3>1. last \in SUBSET Nat
      BY Zenon, ChunkFields
    <3>2. top \in last /\ top = Min(last)
      BY Zenon, <2>2, <3>1, MinNat
    <3>3. /\ top \in DOMAIN k.at /\ FreeAt(k, top) /\ top + k.at[top].size = k.top
          /\ \A x \in D : x # top
      BY Zenon, <3>2
    <3> HIDE DEF top, D
    <3>4. top \in Nat /\ k.mark <= top /\ top <= k.top
      BY <3>3, ChunkFields DEF FreeAt
    <3>5. ASSUME NEW x \in D PROVE x + k.at[x].size <= top
      <4>1. x \in DOMAIN k.at /\ x # top
        BY Zenon, <1>3, <3>3
      <4>2. ASSUME top < x PROVE FALSE
        <5>1. k.top <= x
          BY <3>3, <4>1, <4>2, ChunkFields
        <5> QED BY <5>1, <4>1, ChunkFields
      <4> QED BY <3>3, <3>4, <4>1, <4>2, ChunkFields
    <3> QED BY Zenon, <3>4, <3>5
  <2> QED BY Zenon, <2>1, <2>2
<1> HIDE DEF D, top, at
<1>5. Tidy(g)
  BY Zenon, <1>2, <1>3, <1>4, TidyFewer
<1>6. Stays(g) = Stays(k) /\ \A x \in Stays(k) : g.at[x] = k.at[x]
  BY Zenon, <1>2, <1>3 DEF Stays
<1> QED BY <1>1, <1>5, <1>6 DEF KeepsLive

\* Memory::Free
LEMMA TidyFree ==
  ASSUME NEW k, Tidy(k), NEW D
  PROVE  LET g == FreeIn(k, D)
         IN  /\ Tidy(g) /\ g.mark = k.mark /\ g.top = k.top /\ DOMAIN g.at = DOMAIN k.at
             /\ \A x \in DOMAIN k.at :
                  /\ g.at[x].size = k.at[x].size
                  /\ k.at[x].obj \in D => g.at[x].obj = NoObj
                  /\ k.at[x].obj \notin D => g.at[x] = k.at[x]
<1> DEFINE at == [x \in DOMAIN k.at |-> IF k.at[x].obj \in D THEN Block(k.at[x].size, NoObj)
                                        ELSE k.at[x]]
<1>1. FreeIn(k, D) = [mark |-> k.mark, top |-> k.top, at |-> at]
  BY Zenon DEF FreeIn
<1>2. /\ DOMAIN at = DOMAIN k.at /\ at = [y \in DOMAIN at |-> at[y]]
      /\ \A x \in DOMAIN k.at : /\ k.at[x].obj \in D => at[x] = Block(k.at[x].size, NoObj)
                                /\ k.at[x].obj \notin D => at[x] = k.at[x]
  BY Zenon
<1> HIDE DEF at
<1>3. Tidy([mark |-> k.mark, top |-> k.top, at |-> at])
  BY Zenon, <1>2, TidyObj
<1>4. \A x \in DOMAIN k.at : /\ at[x].size = k.at[x].size
                             /\ k.at[x].obj \in D => at[x].obj = NoObj
  <2> SUFFICES ASSUME NEW x \in DOMAIN k.at
               PROVE  at[x].size = k.at[x].size /\ (k.at[x].obj \in D => at[x].obj = NoObj)
    BY Zenon
  <2>1. Block(k.at[x].size, NoObj).size = k.at[x].size /\ Block(k.at[x].size, NoObj).obj = NoObj
    BY Zenon DEF Block
  <2>2. CASE k.at[x].obj \in D
    <3>1. at[x] = Block(k.at[x].size, NoObj)
      BY Zenon, <1>2, <2>2
    <3> QED BY Zenon, <3>1, <2>1
  <2>3. CASE k.at[x].obj \notin D
    BY Zenon, <1>2, <2>3
  <2> QED BY Zenon, <2>2, <2>3
<1> QED BY <1>1, <1>2, <1>3, <1>4

Pointer == Objs \cup {Null} \cup Address
HeapType ==
  [chunk : Seq(ChunkType), cur : Nat, postMark : BOOLEAN, marked : BOOLEAN, atMark : Nat,
   pre : SUBSET LargeObjs, post : SUBSET LargeObjs,
   list : [0..NumBuckets - 1 -> Seq(Address)], using : BOOLEAN,
   ref : [Objs -> Nat], ptr : [Objs -> Pointer], holds : [Objs -> Object]]
Shape(h) == h \in HeapType /\ \A c \in DOMAIN h.chunk : Tidy(h.chunk[c])

\* the block of object o starts at offset x of chunk c
Sits(h, c, x, o) ==
  c \in DOMAIN h.chunk /\ x \in DOMAIN h.chunk[c].at /\ h.chunk[c].at[x].obj = o

\* the values that Release keeps
Old(h) == h.pre \cup ({BlockAt(h, p).obj : p \in {q \in Blocks(h) : ~AboveMark(h, q)}} \ {NoObj})

\* The fields of a well-formed Memory.
LEMMA ShapeFields ==
  ASSUME NEW h, Shape(h)
  PROVE  /\ h.chunk \in Seq(ChunkType) /\ Len(h.chunk) \in Nat /\ DOMAIN h.chunk = 1..Len(h.chunk)
         /\ \A c \in DOMAIN h.chunk : c \in Nat /\ Tidy(h.chunk[c])
         /\ h.cur \in Nat /\ h.postMark \in BOOLEAN /\ h.marked \in BOOLEAN /\ h.atMark \in Nat
         /\ h.pre \subseteq LargeObjs /\ h.post \subseteq LargeObjs /\ Large(h) \subseteq LargeObjs
         /\ Large(h) \subseteq Objs
         /\ h.list \in [0..NumBuckets - 1 -> Seq(Address)] /\ h.using \in BOOLEAN
         /\ h.ref \in [Objs -> Nat] /\ h.ptr \in [Objs -> Pointer] /\ h.holds \in [Objs -> Object]
<1>1. h \in HeapType /\ \A c \in DOMAIN h.chunk : Tidy(h.chunk[c])
  BY Zenon DEF Shape
<1>2. h.chunk \in Seq(ChunkType) /\ Len(h.chunk) \in Nat /\ DOMAIN h.chunk = 1..Len(h.chunk)
  BY <1>1 DEF HeapType
<1>3. /\ h.cur \in Nat /\ h.postMark \in BOOLEAN /\ h.marked \in BOOLEAN /\ h.atMark \in Nat
      /\ h.pre \subseteq LargeObjs /\ h.post \subseteq LargeObjs
      /\ h.list \in [0..NumBuckets - 1 -> Seq(Address)] /\ h.using \in BOOLEAN
      /\ h.ref \in [Objs -> Nat] /\ h.ptr \in [Objs -> Pointer] /\ h.holds \in [Objs -> Object]
  BY Zenon, <1>1 DEF HeapType
<1>4. Large(h) \subseteq LargeObjs /\ Large(h) \subseteq Objs
  BY Zenon, <1>3, SizesAssumption DEF Large
<1>5. \A c \in DOMAIN h.chunk : c \in Nat /\ Tidy(h.chunk[c])
  BY <1>1, <1>2
<1> QED BY Zenon, <1>2, <1>3, <1>4, <1>5

\* A pointer into a chunk determines the chunk and the offset.
LEMMA SmallPointer ==
  ASSUME NEW c, NEW x
  PROVE  /\ Small(c, x).chunk = c /\ Small(c, x).off = x
         /\ \A d, y : Small(c, x) = Small(d, y) => c = d /\ x = y
         /\ c \in Nat /\ x \in Nat => Small(c, x) \in Address
<1>1. Small(c, x).chunk = c /\ Small(c, x).off = x
  BY Zenon DEF Small
<1>2. ASSUME NEW d, NEW y, Small(c, x) = Small(d, y) PROVE c = d /\ x = y
  <2>1. Small(d, y).chunk = d /\ Small(d, y).off = y
    BY Zenon DEF Small
  <2> QED BY Zenon, <1>1, <1>2, <2>1
<1>3. ASSUME c \in Nat, x \in Nat PROVE Small(c, x) \in Address
  BY Zenon, <1>3 DEF Small, Address
<1> QED BY Zenon, <1>1, <1>2, <1>3

\* The addresses of the blocks, chunk by chunk.
LEMMA BlocksView ==
  ASSUME NEW h, Shape(h)
  PROVE  /\ \A c, x : Small(c, x) \in Blocks(h) <=> c \in DOMAIN h.chunk /\ x \in DOMAIN h.chunk[c].at
         /\ \A p \in Blocks(h) : /\ p \in Address /\ p = Small(p.chunk, p.off)
                                 /\ p.chunk \in DOMAIN h.chunk /\ p.chunk \in Nat
                                 /\ p.off \in DOMAIN h.chunk[p.chunk].at /\ p.off \in Nat
         /\ \A c, x : BlockAt(h, Small(c, x)) = h.chunk[c].at[x]
         /\ \A c, x : AboveMark(h, Small(c, x)) <=> x >= h.chunk[c].mark
<1>1. ASSUME NEW p \in Blocks(h)
      PROVE  \E c \in DOMAIN h.chunk : \E x \in DOMAIN h.chunk[c].at : p = Small(c, x)
  BY Zenon DEF Blocks
<1>2. ASSUME NEW c \in DOMAIN h.chunk, NEW x \in DOMAIN h.chunk[c].at PROVE Small(c, x) \in Blocks(h)
  BY DEF Blocks
<1>3. \A c \in DOMAIN h.chunk : c \in Nat /\ \A x \in DOMAIN h.chunk[c].at : x \in Nat
  BY Zenon, ShapeFields, ChunkFields
<1>4. ASSUME NEW p \in Blocks(h)
      PROVE  /\ p \in Address /\ p = Small(p.chunk, p.off)
             /\ p.chunk \in DOMAIN h.chunk /\ p.chunk \in Nat
             /\ p.off \in DOMAIN h.chunk[p.chunk].at /\ p.off \in Nat
  <2>1. PICK c \in DOMAIN h.chunk : \E x \in DOMAIN h.chunk[c].at : p = Small(c, x)
    BY Zenon, <1>1
  <2>2. PICK x \in DOMAIN h.chunk[c].at : p = Small(c, x)
    BY Zenon, <2>1
  <2> QED BY <2>2, <1>3, SmallPointer
<1>5. ASSUME NEW c, NEW x
      PROVE  Small(c, x) \in Blocks(h) <=> c \in DOMAIN h.chunk /\ x \in DOMAIN h.chunk[c].at
  BY <1>1, <1>2, SmallPointer
<1>6. \A c, x : BlockAt(h, Small(c, x)) = h.chunk[c].at[x]
  BY Zenon, SmallPointer DEF BlockAt
<1>7. \A c, x : AboveMark(h, Small(c, x)) <=> x >= h.chunk[c].mark
  BY SmallPointer DEF AboveMark
<1> QED BY Zenon, <1>4, <1>5, <1>6, <1>7

\* Where an object can sit.
LEMMA SitsTyped ==
  ASSUME NEW h, Shape(h), NEW c, NEW x, NEW o, Sits(h, c, x, o)
  PROVE  /\ c \in Nat /\ x \in Nat /\ Small(c, x) \in Address /\ Small(c, x) \in Blocks(h)
         /\ o \in (Objs \ LargeObjs) \cup {NoObj} /\ o \in Object
<1>1. c \in DOMAIN h.chunk /\ x \in DOMAIN h.chunk[c].at /\ h.chunk[c].at[x].obj = o
  BY Zenon DEF Sits
<1>2. Tidy(h.chunk[c]) /\ c \in Nat
  BY Zenon, <1>1, ShapeFields
<1>3. x \in Nat /\ h.chunk[c].at[x] \in BlockType
  BY Zenon, <1>1, <1>2, ChunkFields
<1>4. o \in (Objs \ LargeObjs) \cup {NoObj}
  BY Zenon, <1>1, <1>3 DEF BlockType
<1> QED BY Zenon, <1>1, <1>2, <1>3, <1>4, SmallPointer, BlocksView DEF Object

\* the objects that are allocated, below the marks or above them
LEMMA ObjectsView ==
  ASSUME NEW h, Shape(h), NEW o, o # NoObj
  PROVE  /\ o \in Allocated(h) <=> o \in Large(h) \/ \E c, x : Sits(h, c, x, o)
         /\ o \in Old(h) <=> o \in h.pre \/ \E c, x : Sits(h, c, x, o) /\ x < h.chunk[c].mark
         /\ o \in PostMarkObjs(h) <=> \E c, x : Sits(h, c, x, o) /\ x >= h.chunk[c].mark
<1>1. ASSUME NEW p \in Blocks(h), BlockAt(h, p).obj = o
      PROVE  /\ Sits(h, p.chunk, p.off, o)
             /\ AboveMark(h, p) <=> p.off >= h.chunk[p.chunk].mark
             /\ ~AboveMark(h, p) <=> p.off < h.chunk[p.chunk].mark
  <2>1. p.chunk \in DOMAIN h.chunk /\ p.off \in DOMAIN h.chunk[p.chunk].at /\ p.off \in Nat
    BY Zenon, BlocksView
  <2>2. h.chunk[p.chunk].mark \in Nat
    BY Zenon, <2>1, ShapeFields, ChunkFields
  <2> QED BY <1>1, <2>1, <2>2 DEF Sits, BlockAt, AboveMark
<1>2. ASSUME NEW c, NEW x, Sits(h, c, x, o)
      PROVE  /\ Small(c, x) \in Blocks(h) /\ BlockAt(h, Small(c, x)).obj = o
             /\ AboveMark(h, Small(c, x)) <=> x >= h.chunk[c].mark
             /\ ~AboveMark(h, Small(c, x)) <=> x < h.chunk[c].mark
  <2>1. Small(c, x) \in Blocks(h) /\ BlockAt(h, Small(c, x)).obj = o
    BY <1>2, SitsTyped, BlocksView DEF Sits
  <2>2. x \in Nat /\ h.chunk[c].mark \in Nat
    BY Zenon, <1>2, SitsTyped, ShapeFields, ChunkFields DEF Sits
  <2> QED BY <2>1, <2>2, BlocksView
<1>3. o \in Allocated(h) <=> o \in Large(h) \/ \E c, x : Sits(h, c, x, o)
  BY Zenon, <1>1, <1>2 DEF Allocated
<1>4. o \in Old(h) <=> o \in h.pre \/ \E c, x : Sits(h, c, x, o) /\ x < h.chunk[c].mark
  BY <1>1, <1>2 DEF Old
<1>5. o \in PostMarkObjs(h) <=> \E c, x : Sits(h, c, x, o) /\ x >= h.chunk[c].mark
  BY <1>1, <1>2 DEF PostMarkObjs
<1> QED BY Zenon, <1>3, <1>4, <1>5

\* A pointer leads to an object when it is that large block or the address of
\* the block the object sits in.
LEMMA TargetView ==
  ASSUME NEW h, Shape(h), NEW p, NEW o, o # NoObj
  PROVE  Target(h, p) = o <=> (p = o /\ o \in Large(h)) \/ \E c, x : p = Small(c, x) /\ Sits(h, c, x, o)
<1>1. Large(h) \cap Blocks(h) = {}
  <2>1. \A q \in Blocks(h) : q \in Address
    BY Zenon, BlocksView
  <2>2. \A q \in Large(h) : q \in Objs
    BY Zenon, ShapeFields
  <2> QED BY Zenon, <2>1, <2>2, ObjsAssumption DEF Address
<1>2. CASE p \in Large(h)
  <2>1. Target(h, p) = p
    BY Zenon, <1>1, <1>2 DEF Target
  <2>2. ASSUME NEW c, NEW x, p = Small(c, x), Sits(h, c, x, o) PROVE FALSE
    BY Zenon, <1>1, <1>2, <2>2, SitsTyped
  <2> QED BY Zenon, <1>2, <2>1, <2>2
<1>3. CASE p \in Blocks(h)
  <2>1. Target(h, p) = BlockAt(h, p).obj /\ p \notin Large(h)
    BY Zenon, <1>1, <1>3 DEF Target
  <2>2. p = Small(p.chunk, p.off) /\ BlockAt(h, p).obj = h.chunk[p.chunk].at[p.off].obj
        /\ p.chunk \in DOMAIN h.chunk /\ p.off \in DOMAIN h.chunk[p.chunk].at
    BY Zenon, <1>3, BlocksView DEF BlockAt
  <2>3. ASSUME BlockAt(h, p).obj = o PROVE p = Small(p.chunk, p.off) /\ Sits(h, p.chunk, p.off, o)
    BY Zenon, <2>2, <2>3 DEF Sits
  <2>4. ASSUME NEW c, NEW x, p = Small(c, x), Sits(h, c, x, o) PROVE BlockAt(h, p).obj = o
    BY <2>4, BlocksView DEF Sits
  <2> QED BY Zenon, <2>1, <2>3, <2>4
<1>4. CASE p \notin Large(h) /\ p \notin Blocks(h)
  <2>1. Target(h, p) = NoObj
    BY Zenon, <1>4 DEF Target
  <2>2. ASSUME NEW c, NEW x, p = Small(c, x), Sits(h, c, x, o) PROVE FALSE
    BY Zenon, <1>4, <2>2, SitsTyped
  <2> QED BY Zenon, <1>4, <2>1, <2>2
<1> QED BY Zenon, <1>2, <1>3, <1>4

\* The allocated objects are the old ones, the small ones above the marks and
\* the large ones allocated since Mark.
LEMMA ObjectsTyped ==
  ASSUME NEW h, Shape(h)
  PROVE  /\ Allocated(h) \subseteq Objs /\ Old(h) \subseteq Allocated(h)
         /\ PostMarkObjs(h) \subseteq Allocated(h) /\ NoObj \notin Allocated(h)
         /\ Allocated(h) = Old(h) \cup PostMarkObjs(h) \cup h.post
         /\ \A p : Target(h, p) \in Allocated(h) \cup {NoObj}
         /\ Target(h, Null) = NoObj
<1>1. NoObj \notin Objs /\ Null \notin Objs /\ Null \notin Address
  BY Zenon, SizesAssumption, ObjsAssumption DEF Address
<1>2. NoObj \notin Allocated(h) /\ NoObj \notin Old(h) /\ NoObj \notin PostMarkObjs(h)
  BY Zenon, <1>1, ShapeFields DEF Allocated, Old, PostMarkObjs, Large
<1>3. ASSUME NEW o \in Allocated(h) PROVE o \in Objs
  BY <1>2, ObjectsView, SitsTyped, ShapeFields
<1>4. ASSUME NEW o \in Old(h) PROVE o \in Allocated(h)
  BY Zenon, <1>2, ObjectsView DEF Large
<1>5. ASSUME NEW o \in PostMarkObjs(h) PROVE o \in Allocated(h)
  BY Zenon, <1>2, ObjectsView
<1>6. ASSUME NEW o \in Allocated(h) PROVE o \in Old(h) \cup PostMarkObjs(h) \cup h.post
  <2>1. CASE o \in Large(h)
    BY Zenon, <2>1 DEF Large, Old
  <2>2. ASSUME NEW c, NEW x, Sits(h, c, x, o) PROVE o \in Old(h) \cup PostMarkObjs(h)
    <3>1. x \in Nat /\ h.chunk[c].mark \in Nat
      BY Zenon, <2>2, SitsTyped, ShapeFields, ChunkFields DEF Sits
    <3>2. x < h.chunk[c].mark \/ x >= h.chunk[c].mark
      BY <3>1
    <3> QED BY Zenon, <3>2, <2>2, <1>2, ObjectsView
  <2> QED BY Zenon, <2>1, <2>2, <1>2, ObjectsView
<1>7. ASSUME NEW p PROVE Target(h, p) \in Allocated(h) \cup {NoObj}
  <2>1. SUFFICES ASSUME Target(h, p) # NoObj PROVE Target(h, p) \in Allocated(h)
    BY Zenon
  <2> DEFINE o == Target(h, p)
  <2>2. (p = o /\ o \in Large(h)) \/ \E c, x : p = Small(c, x) /\ Sits(h, c, x, o)
    BY Zenon, <2>1, TargetView
  <2> QED BY Zenon, <2>1, <2>2, ObjectsView
<1>8. Target(h, Null) = NoObj
  <2>1. Null \notin Large(h) /\ Null \notin Blocks(h)
    BY Zenon, <1>1, ShapeFields, BlocksView
  <2> QED BY Zenon, <2>1 DEF Target
<1>9. h.post \subseteq Allocated(h)
  BY Zenon DEF Allocated, Large
<1> QED BY Zenon, <1>2, <1>3, <1>4, <1>5, <1>6, <1>7, <1>8, <1>9

-----------------------------------------------------------------------------
(* The inductive invariant of a heap h with the slots r, set to m.         *)

Unique(h) ==
  \A o \in Objs : \A c, x, d, y : Sits(h, c, x, o) /\ Sits(h, d, y, o) => c = d /\ x = y

\* Before the first Mark there is no mark; after it only the chunks of that time
\* have one.
Marks(h) ==
  /\ h.atMark <= Len(h.chunk)
  /\ ~h.marked => h.post = {} /\ ~h.postMark /\ \A c \in DOMAIN h.chunk : h.chunk[c].mark = 0
  /\ h.marked => h.atMark > 0 /\ \A c \in DOMAIN h.chunk : c > h.atMark => h.chunk[c].mark = 0

\* The chunks are well-formed, every object sits in one block, and the allocating
\* chunk exists.
Layout(h) ==
  /\ Shape(h) /\ Unique(h) /\ Marks(h)
  /\ h.cur \in 1..Len(h.chunk)
  /\ h.pre \cap h.post = {}

\* p leads to o, and only the null pointer leads nowhere.
Leads(h, p, o) == Target(h, p) = o /\ (p = Null <=> o = NoObj)

\* Slots and values lead to what they were set to; what has no reference count
\* is referred to by one slot at most and refers to nothing.
Pointing(h, r, m) ==
  /\ r \in [Slots -> Pointer] /\ m \in [Slots -> Object]
  /\ \A s \in Slots : Leads(h, r[s], m[s])
  /\ \A o \in Objs : Leads(h, h.ptr[o], h.holds[o])
  /\ \A o \in Objs \ Allocated(h) : h.holds[o] = NoObj
  /\ \A o \in RawObjs : h.holds[o] = NoObj
  /\ \A o \in Objs : h.holds[o] \notin RawObjs
  /\ \A s, t \in Slots : m[s] = m[t] => m[s] \notin RawObjs \/ s = t

\* The references to o, from slots and from values.
FromSlots(m, o) == {s \in Slots : m[s] = o}
FromObjs(h, o) == {p \in Objs : h.holds[p] = o}
Refs(h, m, o) == Cardinality(FromSlots(m, o)) + Cardinality(FromObjs(h, o))

\* Counts cover the references, exactly before the first Mark and for what was
\* allocated since the last one.
Counting(h, m) ==
  \A o \in Allocated(h) \ RawObjs :
    /\ h.ref[o] >= Refs(h, m, o)
    /\ ~h.marked \/ o \notin Old(h) => h.ref[o] = Refs(h, m, o)

\* After the first Mark nothing static or old refers to anything newer, and an
\* old object that anything refers to is still referred to by something static
\* or old, so that a local slot is never its only reference.
Settled(h, m) ==
  h.marked =>
    /\ \A s \in Statics : m[s] \in Old(h) \cup {NoObj}
    /\ \A o \in Old(h) : h.holds[o] \in Old(h) \cup {NoObj}
    /\ \A o \in Old(h) :
         \/ FromSlots(m, o) = {} /\ FromObjs(h, o) = {}
         \/ \E s \in Statics : m[s] = o
         \/ \E p \in Old(h) : h.holds[p] = o
Sound(h, r, m) == Layout(h) /\ Pointing(h, r, m) /\ Counting(h, m) /\ Settled(h, m)

\* what PremarkKept says of a step
Kept(h, g) ==
  /\ g.atMark = h.atMark /\ Len(g.chunk) >= h.atMark
  /\ g.pre = h.pre
  /\ \A c \in 1..h.atMark :
       g.chunk[c].mark = h.chunk[c].mark /\ BelowMark(g.chunk[c]) = BelowMark(h.chunk[c])

\* Doing nothing keeps what is below the marks.
LEMMA KeptRefl ==
  ASSUME NEW h, Layout(h)
  PROVE  Kept(h, h)
<1>1. h.atMark <= Len(h.chunk) /\ h.atMark \in Nat /\ Len(h.chunk) \in Nat
  BY Zenon, ShapeFields DEF Layout, Marks
<1> QED BY Zenon, <1>1 DEF Kept

\* So does one keeping step after another.
LEMMA KeptTrans ==
  ASSUME NEW h, NEW g, NEW k, Kept(h, g), Kept(g, k)
  PROVE  Kept(h, k)
BY Zenon DEF Kept

-----------------------------------------------------------------------------
(* Steps that leave every block that is allocated or below a mark.         *)

KeepsBlocks(h, g) ==
  /\ Len(h.chunk) <= Len(g.chunk)
  /\ \A c \in DOMAIN h.chunk : KeepsLive(h.chunk[c], g.chunk[c])
  /\ \A c \in DOMAIN g.chunk : c > Len(h.chunk) => g.chunk[c].mark = 0 /\ Stays(g.chunk[c]) = {}
  /\ g.pre = h.pre /\ g.post = h.post
KeepsRest(h, g) ==
  /\ g.postMark = h.postMark /\ g.marked = h.marked /\ g.atMark = h.atMark
  /\ g.ref = h.ref /\ g.ptr = h.ptr /\ g.holds = h.holds

\* A step that keeps the blocks keeps where every object sits.
LEMMA KeepsSits ==
  ASSUME NEW h, NEW g, Shape(h), Shape(g), KeepsBlocks(h, g),
         NEW c, NEW x, NEW o, o # NoObj
  PROVE  /\ Sits(g, c, x, o) <=> Sits(h, c, x, o)
         /\ Sits(h, c, x, o) => g.chunk[c].mark = h.chunk[c].mark
<1>1. /\ DOMAIN h.chunk = 1..Len(h.chunk) /\ DOMAIN g.chunk = 1..Len(g.chunk)
      /\ Len(h.chunk) \in Nat /\ Len(g.chunk) \in Nat
  BY Zenon, ShapeFields
<1>2. ASSUME Sits(h, c, x, o) PROVE Sits(g, c, x, o) /\ g.chunk[c].mark = h.chunk[c].mark
  <2>1. c \in DOMAIN h.chunk /\ x \in Stays(h.chunk[c]) /\ h.chunk[c].at[x].obj = o
    BY Zenon, <1>2 DEF Sits, Stays
  <2>2. c \in DOMAIN g.chunk /\ KeepsLive(h.chunk[c], g.chunk[c])
    BY <1>1, <2>1 DEF KeepsBlocks
  <2>3. x \in Stays(g.chunk[c]) /\ g.chunk[c].at[x] = h.chunk[c].at[x] /\ g.chunk[c].mark = h.chunk[c].mark
    BY Zenon, <2>1, <2>2 DEF KeepsLive
  <2> QED BY Zenon, <2>1, <2>2, <2>3 DEF Sits, Stays
<1>3. ASSUME Sits(g, c, x, o) PROVE Sits(h, c, x, o)
  <2>1. c \in DOMAIN g.chunk /\ x \in Stays(g.chunk[c]) /\ g.chunk[c].at[x].obj = o
    BY Zenon, <1>3 DEF Sits, Stays
  <2>2. c \in DOMAIN h.chunk
    <3>1. ~(c > Len(h.chunk))
      BY Zenon, <2>1 DEF KeepsBlocks
    <3> QED BY <3>1, <2>1, <1>1
  <2>3. KeepsLive(h.chunk[c], g.chunk[c])
    BY Zenon, <2>2 DEF KeepsBlocks
  <2>4. x \in Stays(h.chunk[c]) /\ g.chunk[c].at[x] = h.chunk[c].at[x]
    BY Zenon, <2>1, <2>3 DEF KeepsLive
  <2> QED BY Zenon, <2>1, <2>2, <2>4 DEF Sits, Stays
<1> QED BY Zenon, <1>2, <1>3

\* Such a step allocates and frees nothing and leaves every pointer valid.
LEMMA KeepsView ==
  ASSUME NEW h, NEW g, Shape(h), Shape(g), KeepsBlocks(h, g)
  PROVE  /\ Allocated(g) = Allocated(h) /\ Old(g) = Old(h) /\ PostMarkObjs(g) = PostMarkObjs(h)
         /\ \A p, o : o # NoObj => (Target(g, p) = o <=> Target(h, p) = o)
<1>1. g.pre = h.pre /\ Large(g) = Large(h)
  BY Zenon DEF KeepsBlocks, Large
<1>2. \A o : o # NoObj => (o \in Allocated(g) <=> o \in Allocated(h))
  BY <1>1, KeepsSits, ObjectsView
<1>3. \A o : o # NoObj => (o \in Old(g) <=> o \in Old(h))
  <2> SUFFICES ASSUME NEW o, o # NoObj PROVE o \in Old(g) <=> o \in Old(h)
    BY Zenon
  <2>1. \A c, x : /\ Sits(g, c, x, o) <=> Sits(h, c, x, o)
                  /\ Sits(h, c, x, o) => g.chunk[c].mark = h.chunk[c].mark
    BY Zenon, KeepsSits
  <2> QED BY Zenon, <1>1, <2>1, ObjectsView
<1>4. \A o : o # NoObj => (o \in PostMarkObjs(g) <=> o \in PostMarkObjs(h))
  <2> SUFFICES ASSUME NEW o, o # NoObj PROVE o \in PostMarkObjs(g) <=> o \in PostMarkObjs(h)
    BY Zenon
  <2>1. \A c, x : /\ Sits(g, c, x, o) <=> Sits(h, c, x, o)
                  /\ Sits(h, c, x, o) => g.chunk[c].mark = h.chunk[c].mark
    BY Zenon, KeepsSits
  <2> QED BY Zenon, <2>1, ObjectsView
<1>5. /\ NoObj \notin Allocated(g) /\ NoObj \notin Allocated(h) /\ NoObj \notin Old(h)
      /\ NoObj \notin Old(g) /\ NoObj \notin PostMarkObjs(g) /\ NoObj \notin PostMarkObjs(h)
  BY Zenon, ObjectsTyped
<1>6. \A p, o : o # NoObj => (Target(g, p) = o <=> Target(h, p) = o)
  BY <1>1, KeepsSits, TargetView
<1> QED BY <1>2, <1>3, <1>4, <1>5, <1>6

\* Hence it keeps the heap sound.
LEMMA KeepsSound ==
  ASSUME NEW h, NEW g, NEW r, NEW m, Sound(h, r, m), Shape(g), KeepsBlocks(h, g), KeepsRest(h, g),
         g.cur \in 1..Len(g.chunk)
  PROVE  Sound(g, r, m)
<1>1. Shape(h) /\ Unique(h) /\ Marks(h) /\ h.pre \cap h.post = {}
  BY Zenon DEF Sound, Layout
<1>2. /\ Allocated(g) = Allocated(h) /\ Old(g) = Old(h)
      /\ \A p, o : o # NoObj => (Target(g, p) = o <=> Target(h, p) = o)
  BY Zenon, <1>1, KeepsView
<1>3. Unique(g)
  <2> SUFFICES ASSUME NEW o \in Objs, NEW c, NEW x, NEW d, NEW y, Sits(g, c, x, o), Sits(g, d, y, o)
               PROVE  c = d /\ x = y
    BY Zenon DEF Unique
  <2>1. o # NoObj
    BY Zenon, SizesAssumption
  <2> QED BY <1>1, <2>1, KeepsSits DEF Unique
<1>4. Marks(g)
  <2>1. /\ DOMAIN h.chunk = 1..Len(h.chunk) /\ DOMAIN g.chunk = 1..Len(g.chunk)
        /\ Len(h.chunk) \in Nat /\ Len(g.chunk) \in Nat /\ h.atMark \in Nat
    BY Zenon, <1>1, ShapeFields
  <2>2. /\ g.atMark = h.atMark /\ g.marked = h.marked /\ g.postMark = h.postMark
        /\ g.post = h.post /\ Len(h.chunk) <= Len(g.chunk)
    BY Zenon DEF KeepsRest, KeepsBlocks
  <2>3. \A c \in DOMAIN g.chunk : g.chunk[c].mark = 0 \/ (c \in DOMAIN h.chunk /\ g.chunk[c].mark = h.chunk[c].mark)
    BY <2>1 DEF KeepsBlocks, KeepsLive
  <2> QED BY <1>1, <2>1, <2>2, <2>3 DEF Marks
<1>5. Layout(g)
  BY Zenon, <1>1, <1>3, <1>4 DEF Layout, KeepsBlocks
<1>6. Pointing(g, r, m)
  <2>1. g.ptr = h.ptr /\ g.holds = h.holds
    BY Zenon DEF KeepsRest
  <2>2. Target(g, Null) = NoObj
    BY Zenon, ObjectsTyped
  <2>3. \A p, o : Leads(h, p, o) => Leads(g, p, o)
    BY Zenon, <1>2, <2>2 DEF Leads
  <2> QED BY Zenon, <1>2, <2>1, <2>3 DEF Sound, Pointing
<1>7. Counting(g, m)
  <2>1. g.ref = h.ref /\ g.holds = h.holds /\ g.marked = h.marked
    BY Zenon DEF KeepsRest
  <2>2. \A o : Refs(g, m, o) = Refs(h, m, o)
    BY Zenon, <2>1 DEF Refs, FromObjs
  <2> QED BY Zenon, <1>2, <2>1, <2>2 DEF Sound, Counting
<1>8. Settled(g, m)
  <2>1. g.holds = h.holds /\ g.marked = h.marked
    BY Zenon DEF KeepsRest
  <2>2. \A o : FromObjs(g, o) = FromObjs(h, o)
    BY Zenon, <2>1 DEF FromObjs
  <2> QED BY Zenon, <1>2, <2>1, <2>2 DEF Sound, Settled
<1> QED BY Zenon, <1>5, <1>6, <1>7, <1>8 DEF Sound

\* A chunk whose live blocks are kept is the same below its mark.
LEMMA KeepsBelow ==
  ASSUME NEW k, NEW g, KeepsLive(k, g)
  PROVE  g.mark = k.mark /\ BelowMark(g) = BelowMark(k)
<1>1. {x \in DOMAIN g.at : x < g.mark} = {x \in DOMAIN k.at : x < k.mark}
  BY Zenon DEF KeepsLive, Stays
<1>2. \A x \in {y \in DOMAIN k.at : y < k.mark} : g.at[x] = k.at[x]
  BY Zenon DEF KeepsLive, Stays
<1> QED BY Zenon, <1>1, <1>2 DEF BelowMark, KeepsLive

\* Hence such a step keeps what is below the marks.
LEMMA KeepsKept ==
  ASSUME NEW h, NEW g, Layout(h), Shape(g), KeepsBlocks(h, g), KeepsRest(h, g)
  PROVE  Kept(h, g)
<1>1. /\ DOMAIN h.chunk = 1..Len(h.chunk) /\ Len(h.chunk) \in Nat /\ Len(g.chunk) \in Nat
      /\ h.atMark \in Nat /\ h.atMark <= Len(h.chunk)
  BY Zenon, ShapeFields DEF Layout, Marks
<1>2. \A c \in 1..h.atMark : KeepsLive(h.chunk[c], g.chunk[c])
  BY <1>1 DEF KeepsBlocks
<1>3. \A c \in 1..h.atMark :
        g.chunk[c].mark = h.chunk[c].mark /\ BelowMark(g.chunk[c]) = BelowMark(h.chunk[c])
  BY Zenon, <1>2, KeepsBelow
<1> QED BY <1>1, <1>3 DEF Kept, KeepsBlocks, KeepsRest

-----------------------------------------------------------------------------
(* The free list.                                                          *)

\* the lists hold addresses of S only, each of a free block of the list's size,
\* and none of them twice
Listed(h, l, S) ==
  /\ l \in [0..NumBuckets - 1 -> Seq(Address)]
  /\ \A n \in 0..NumBuckets - 1 : \A i \in DOMAIN l[n] :
       /\ l[n][i] \in S /\ l[n][i] \in FreeBlocks(h)
       /\ bits(BlockAt(h, l[n][i]).size) = n
  /\ \A n, b \in 0..NumBuckets - 1 : \A i \in DOMAIN l[n], j \in DOMAIN l[b] :
       l[n][i] = l[b][j] => n = b /\ i = j
ListOK(h) == Listed(h, h.list, FreeBlocks(h))
FreeListOK(h) == h.using => ListOK(h)

\* A larger size has no fewer bits.
LEMMA BitsMonotone ==
  ASSUME NEW a \in Nat, NEW b \in Nat, a <= b
  PROVE  bits(a) \in Nat /\ bits(b) \in Nat /\ bits(a) <= bits(b)
<1> DEFINE A == {i \in 1..a : IsPowerOf2(i)}
           B == {i \in 1..b : IsPowerOf2(i)}
<1>1. IsFiniteSet(1..b)
  BY FS_Interval
<1>2. A \subseteq B /\ B \subseteq 1..b
  OBVIOUS
<1>3. IsFiniteSet(B)
  BY Zenon, <1>1, <1>2, FS_Subset
<1>4. IsFiniteSet(A) /\ Cardinality(A) <= Cardinality(B)
  BY Zenon, <1>2, <1>3, FS_Subset
<1>5. Cardinality(A) \in Nat /\ Cardinality(B) \in Nat
  BY Zenon, <1>3, <1>4, FS_CardinalityType
<1> QED BY Zenon, <1>4, <1>5 DEF bits

\* Every block size has a bucket of the free list.
LEMMA BitsRange ==
  /\ NumBuckets \in Nat
  /\ \A n \in 0..ChunkSize : bits(n) \in 0..NumBuckets - 1 /\ bits(n) \in Nat
<1>1. ChunkSize \in Nat
  BY Zenon, SizesAssumption
<1>2. bits(ChunkSize) \in Nat
  BY <1>1, BitsMonotone
<1>3. \A n \in 0..ChunkSize : bits(n) \in Nat /\ bits(n) <= bits(ChunkSize)
  BY <1>1, BitsMonotone
<1> QED BY <1>2, <1>3 DEF NumBuckets

\* A free block has an address above the mark and a size with a bucket.
LEMMA FreeBlocksTyped ==
  ASSUME NEW h, Shape(h)
  PROVE  /\ \A p \in FreeBlocks(h) :
              /\ p \in Address /\ p \in Blocks(h) /\ p = Small(p.chunk, p.off)
              /\ p.chunk \in DOMAIN h.chunk /\ p.off \in DOMAIN h.chunk[p.chunk].at /\ p.off \in Nat
              /\ p.off >= h.chunk[p.chunk].mark /\ h.chunk[p.chunk].at[p.off].obj = NoObj
              /\ BlockAt(h, p) = h.chunk[p.chunk].at[p.off]
              /\ BlockAt(h, p).size \in 0..ChunkSize /\ BlockAt(h, p).size \in MinSmall..ChunkSize
         /\ \A c, x : Small(c, x) \in FreeBlocks(h) <=>
                        /\ c \in DOMAIN h.chunk /\ x \in DOMAIN h.chunk[c].at
                        /\ x >= h.chunk[c].mark /\ h.chunk[c].at[x].obj = NoObj
<1>1. ASSUME NEW p \in FreeBlocks(h)
      PROVE  /\ p \in Address /\ p \in Blocks(h) /\ p = Small(p.chunk, p.off)
             /\ p.chunk \in DOMAIN h.chunk /\ p.off \in DOMAIN h.chunk[p.chunk].at /\ p.off \in Nat
             /\ p.off >= h.chunk[p.chunk].mark /\ h.chunk[p.chunk].at[p.off].obj = NoObj
             /\ BlockAt(h, p) = h.chunk[p.chunk].at[p.off]
             /\ BlockAt(h, p).size \in 0..ChunkSize /\ BlockAt(h, p).size \in MinSmall..ChunkSize
  <2>1. p \in Blocks(h) /\ AboveMark(h, p) /\ BlockAt(h, p).obj = NoObj
    BY Zenon DEF FreeBlocks
  <2>2. /\ p \in Address /\ p = Small(p.chunk, p.off)
        /\ p.chunk \in DOMAIN h.chunk /\ p.off \in DOMAIN h.chunk[p.chunk].at /\ p.off \in Nat
    BY Zenon, <2>1, BlocksView
  <2>3. BlockAt(h, p) = h.chunk[p.chunk].at[p.off]
    BY Zenon DEF BlockAt
  <2>4. BlockAt(h, p) \in BlockType
    BY <2>2, <2>3, ShapeFields, ChunkFields
  <2>5. BlockAt(h, p).size \in MinSmall..ChunkSize
    BY Zenon, <2>4 DEF BlockType
  <2>6. BlockAt(h, p).size \in 0..ChunkSize
    BY <2>5, SizesAssumption
  <2> QED BY Zenon, <2>1, <2>2, <2>3, <2>5, <2>6 DEF AboveMark
<1>2. ASSUME NEW c, NEW x
      PROVE  Small(c, x) \in FreeBlocks(h) <=>
               /\ c \in DOMAIN h.chunk /\ x \in DOMAIN h.chunk[c].at
               /\ x >= h.chunk[c].mark /\ h.chunk[c].at[x].obj = NoObj
  BY BlocksView DEF FreeBlocks
<1> QED BY Zenon, <1>1, <1>2

\* A cleared free list is right.
LEMMA ListedEmpty ==
  ASSUME NEW h, NEW S
  PROVE  Listed(h, EmptyList, S)
BY DEF Listed, EmptyList

\* A list of some of the blocks of S is one of some of the blocks of a larger set.
LEMMA ListedMore ==
  ASSUME NEW h, NEW l, NEW S, NEW R, Listed(h, l, S), S \subseteq R
  PROVE  Listed(h, l, R)
BY Zenon DEF Listed

\* AddFreeBlock
LEMMA ListedAdd ==
  ASSUME NEW h, Shape(h), NEW l, NEW S, Listed(h, l, S),
         NEW p \in FreeBlocks(h), p \notin S
  PROVE  Listed(h, AddFreeBlock(l, p, BlockAt(h, p).size), S \cup {p})
<1> DEFINE b == bits(BlockAt(h, p).size)
           g == AddFreeBlock(l, p, BlockAt(h, p).size)
           B == 0..NumBuckets - 1
<1>1. p \in Address /\ b \in B
  BY Zenon, FreeBlocksTyped, BitsRange
<1>2. l \in [B -> Seq(Address)]
  BY Zenon DEF Listed
<1>3. g = [l EXCEPT ![b] = <<p>> \o @]
  BY Zenon DEF AddFreeBlock
<1> HIDE DEF b, g, B
<1>4. /\ g \in [B -> Seq(Address)] /\ g[b] = <<p>> \o l[b] /\ \A n \in B : n # b => g[n] = l[n]
  BY <1>1, <1>2, <1>3
<1>5. /\ DOMAIN g[b] = 1..Len(l[b]) + 1 /\ g[b][1] = p /\ Len(l[b]) \in Nat
      /\ \A i \in 1..Len(l[b]) + 1 : i # 1 => i - 1 \in DOMAIN l[b] /\ g[b][i] = l[b][i - 1]
  <2>1. l[b] \in Seq(Address)
    BY Zenon, <1>1, <1>2
  <2> QED BY <2>1, <1>1, <1>4
<1>6. \A n \in B : \A i \in DOMAIN l[n] :
        l[n][i] \in S /\ l[n][i] # p /\ l[n][i] \in FreeBlocks(h) /\ bits(BlockAt(h, l[n][i]).size) = n
  BY DEF Listed, B
<1>7. ASSUME NEW n \in B, NEW i \in DOMAIN g[n]
      PROVE  /\ g[n][i] \in S \cup {p} /\ g[n][i] \in FreeBlocks(h)
             /\ bits(BlockAt(h, g[n][i]).size) = n
  <2>1. CASE n # b
    BY Zenon, <2>1, <1>4, <1>6
  <2>2. CASE n = b /\ i = 1
    BY Zenon, <2>2, <1>5 DEF b
  <2>3. CASE n = b /\ i # 1
    <3>1. i - 1 \in DOMAIN l[b] /\ g[b][i] = l[b][i - 1]
      BY Zenon, <2>3, <1>5
    <3> QED BY Zenon, <3>1, <2>3, <1>1, <1>6
  <2> QED BY Zenon, <2>1, <2>2, <2>3
<1>8. ASSUME NEW n \in B, NEW a \in B, NEW i \in DOMAIN g[n], NEW j \in DOMAIN g[a], g[n][i] = g[a][j]
      PROVE  n = a /\ i = j
  <2>1. n = a
    BY Zenon, <1>7, <1>8
  <2>2. CASE n # b
    BY <2>1, <2>2, <1>4, <1>8 DEF Listed, B
  <2>3. CASE n = b
    <3>1. i \in 1..Len(l[b]) + 1 /\ j \in 1..Len(l[b]) + 1 /\ g[b][i] = g[b][j]
      BY Zenon, <2>1, <2>3, <1>5, <1>8
    <3>2. CASE i = 1 /\ j = 1
      BY Zenon, <3>2, <2>1
    <3>3. CASE i = 1 /\ j # 1
      BY <3>1, <3>3, <1>1, <1>5, <1>6
    <3>4. CASE i # 1 /\ j = 1
      BY <3>1, <3>4, <1>1, <1>5, <1>6
    <3>5. CASE i # 1 /\ j # 1
      <4>1. i - 1 \in DOMAIN l[b] /\ j - 1 \in DOMAIN l[b] /\ l[b][i - 1] = l[b][j - 1]
        BY Zenon, <3>1, <3>5, <1>5
      <4>2. i - 1 = j - 1
        BY <4>1, <1>1 DEF Listed, B
      <4> QED BY <4>2, <3>1, <2>1, <1>5
    <3> QED BY Zenon, <3>2, <3>3, <3>4, <3>5
  <2> QED BY Zenon, <2>2, <2>3
<1> QED BY Zenon, <1>4, <1>7, <1>8 DEF Listed, g, B

\* FreeUnusedSmallBlocks adds the free blocks of one chunk
LEMMA AddChunkListed ==
  ASSUME NEW h, Shape(h), NEW c \in DOMAIN h.chunk, NEW old, NEW S, Listed(h, old, S),
         \A x : Small(c, x) \notin S
  PROVE  Listed(h, AddChunk(h, c, old), S \cup {Small(c, x) : x \in Nat})
<1> DEFINE step(l, x) == IF Small(c, x - 1) \in FreeBlocks(h)
                         THEN AddFreeBlock(l, Small(c, x - 1), h.chunk[c].at[x - 1].size)
                         ELSE l
           Is(f, n) == f = [x \in 0..n |-> IF x = 0 THEN old ELSE step(f[x - 1], x)]
           R(x) == S \cup {Small(c, y) : y \in 0..x - 1}
<1>1. \A n \in Nat : \E f : Is(f, n)
  <2> DEFINE T == {n \in Nat : \E f : Is(f, n)}
  <2> HIDE DEF step
  <2>1. 0 \in T
    <3> DEFINE f == [x \in 0..0 |-> old]
    <3>1. Is(f, 0)
      OBVIOUS
    <3> QED BY Zenon, <3>1
  <2>2. ASSUME NEW n \in Nat, n \in T PROVE n + 1 \in T
    <3>1. PICK f : Is(f, n)
      BY Zenon, <2>2
    <3> DEFINE g == [x \in 0..n + 1 |-> IF x = n + 1 THEN step(f[n], n + 1) ELSE f[x]]
    <3>2. \A x \in 0..n + 1 : g[x] = IF x = 0 THEN old ELSE step(g[x - 1], x)
      <4> SUFFICES ASSUME NEW x \in 0..n + 1 PROVE g[x] = IF x = 0 THEN old ELSE step(g[x - 1], x)
        BY Zenon
      <4>1. CASE x = n + 1
        <5>1. g[x] = step(f[n], n + 1) /\ x # 0 /\ x - 1 = n /\ g[n] = f[n]
          BY <4>1
        <5> QED BY Zenon, <5>1, <4>1
      <4>2. CASE x # n + 1 /\ x = 0
        <5>1. g[x] = f[x] /\ x \in 0..n
          BY <4>2
        <5> QED BY Zenon, <3>1, <5>1, <4>2
      <4>3. CASE x # n + 1 /\ x # 0
        <5>1. g[x] = f[x] /\ x \in 0..n /\ x - 1 \in 0..n /\ g[x - 1] = f[x - 1]
          BY <4>3
        <5>2. f[x] = step(f[x - 1], x)
          BY Zenon, <3>1, <5>1, <4>3
        <5> QED BY Zenon, <5>1, <5>2, <4>3
      <4> QED BY Zenon, <4>1, <4>2, <4>3
    <3>3. Is(g, n + 1)
      <4>1. g = [x \in 0..n + 1 |-> g[x]]
        BY Zenon
      <4> HIDE DEF g
      <4> QED BY Zenon, <3>2, <4>1
    <3> HIDE DEF g
    <3> QED BY <3>3
  <2> HIDE DEF T
  <2>3. Nat \subseteq T
    BY Zenon, <2>1, <2>2, NatInduct
  <2> QED BY Zenon, <2>3 DEF T
<1> DEFINE upTo == CHOOSE f : Is(f, ChunkSize)
<1>2. AddChunk(h, c, old) = upTo[ChunkSize]
  BY Zenon DEF AddChunk
<1>3. ChunkSize \in Nat /\ Is(upTo, ChunkSize)
  BY Zenon, <1>1, SizesAssumption
<1> HIDE DEF upTo
<1>4. ASSUME NEW x \in Nat, NEW l, Listed(h, l, R(x))
      PROVE  Listed(h, step(l, x + 1), R(x + 1))
  <2>1. x + 1 - 1 = x /\ R(x + 1) = R(x) \cup {Small(c, x)}
    OBVIOUS
  <2>2. Small(c, x) \notin R(x)
    BY SmallPointer
  <2>3. CASE Small(c, x) \in FreeBlocks(h)
    <3>1. BlockAt(h, Small(c, x)).size = h.chunk[c].at[x].size
      BY BlocksView
    <3>2. Listed(h, AddFreeBlock(l, Small(c, x), BlockAt(h, Small(c, x)).size), R(x) \cup {Small(c, x)})
      <4> HIDE DEF R
      <4> QED BY Zenon, <1>4, <2>2, <2>3, ListedAdd
    <3>3. step(l, x + 1) = AddFreeBlock(l, Small(c, x), BlockAt(h, Small(c, x)).size)
      BY <2>1, <2>3, <3>1
    <3> QED BY Zenon, <2>1, <3>2, <3>3
  <2>4. CASE Small(c, x) \notin FreeBlocks(h)
    <3>1. step(l, x + 1) = l
      BY <2>1, <2>4
    <3>2. Listed(h, l, R(x) \cup {Small(c, x)})
      <4> HIDE DEF R
      <4> QED BY Zenon, <1>4, ListedMore
    <3> QED BY Zenon, <2>1, <3>1, <3>2
  <2> QED BY Zenon, <2>3, <2>4
<1> HIDE DEF step
<1>5. \A x \in 0..ChunkSize : upTo[x] = IF x = 0 THEN old ELSE step(upTo[x - 1], x)
  BY Zenon, <1>3
<1>6. \A x \in Nat : x <= ChunkSize => Listed(h, upTo[x], R(x))
  <2> DEFINE T == {x \in Nat : x <= ChunkSize => Listed(h, upTo[x], R(x))}
  <2>1. 0 \in T
    <3>1. upTo[0] = old
      BY <1>3, <1>5
    <3>2. S \subseteq R(0)
      BY Zenon
    <3> HIDE DEF R
    <3> QED BY Zenon, <3>1, <3>2, ListedMore
  <2>2. ASSUME NEW x \in Nat, x \in T PROVE x + 1 \in T
    <3> SUFFICES ASSUME x + 1 <= ChunkSize PROVE Listed(h, upTo[x + 1], R(x + 1))
      OBVIOUS
    <3>1. upTo[x + 1] = step(upTo[x], x + 1)
      <4>1. x + 1 \in 0..ChunkSize /\ x + 1 # 0 /\ (x + 1) - 1 = x
        BY <1>3
      <4> QED BY Zenon, <4>1, <1>5
    <3>2. Listed(h, upTo[x], R(x))
      BY <2>2, <1>3
    <3> HIDE DEF R
    <3> QED BY Zenon, <3>1, <3>2, <1>4
  <2> HIDE DEF T
  <2>3. Nat \subseteq T
    BY Zenon, <2>1, <2>2, NatInduct
  <2> QED BY Zenon, <2>3 DEF T
<1>7. Listed(h, upTo[ChunkSize], R(ChunkSize))
  <2>1. ChunkSize \in Nat /\ ChunkSize <= ChunkSize
    BY SizesAssumption
  <2> HIDE DEF R
  <2> QED BY Zenon, <2>1, <1>6
<1>8. R(ChunkSize) \subseteq S \cup {Small(c, x) : x \in Nat}
  BY <1>3
<1> HIDE DEF R
<1> QED BY Zenon, <1>2, <1>7, <1>8, ListedMore

\* The list FreeUnusedSmallBlocks builds offers free blocks only, none twice.
LEMMA BuildListed ==
  ASSUME NEW h, Shape(h)
  PROVE  Listed(h, BuildFreeList(h), FreeBlocks(h))
<1> DEFINE N == Len(h.chunk)
           Is(f, n) == f = [c \in 0..n |-> IF c = 0 THEN EmptyList ELSE AddChunk(h, c, f[c - 1])]
           R(n) == {p \in Address : p.chunk <= n}
<1>0. N \in Nat /\ DOMAIN h.chunk = 1..N
  BY Zenon, ShapeFields
<1>1. \A n \in Nat : \E f : Is(f, n)
  <2> DEFINE T == {n \in Nat : \E f : Is(f, n)}
  <2>1. 0 \in T
    <3> DEFINE f == [c \in 0..0 |-> EmptyList]
    <3>1. Is(f, 0)
      OBVIOUS
    <3> QED BY Zenon, <3>1
  <2>2. ASSUME NEW n \in Nat, n \in T PROVE n + 1 \in T
    <3>1. PICK f : Is(f, n)
      BY Zenon, <2>2
    <3> DEFINE g == [c \in 0..n + 1 |-> IF c = n + 1 THEN AddChunk(h, n + 1, f[n]) ELSE f[c]]
    <3>2. \A c \in 0..n + 1 : g[c] = IF c = 0 THEN EmptyList ELSE AddChunk(h, c, g[c - 1])
      <4> SUFFICES ASSUME NEW c \in 0..n + 1
                   PROVE  g[c] = IF c = 0 THEN EmptyList ELSE AddChunk(h, c, g[c - 1])
        BY Zenon
      <4>1. CASE c = n + 1
        <5>1. g[c] = AddChunk(h, c, f[n]) /\ c # 0 /\ c - 1 = n /\ g[n] = f[n]
          BY <4>1
        <5> QED BY Zenon, <5>1
      <4>2. CASE c # n + 1 /\ c = 0
        <5>1. g[c] = f[c] /\ c \in 0..n
          BY <4>2
        <5> QED BY Zenon, <3>1, <5>1, <4>2
      <4>3. CASE c # n + 1 /\ c # 0
        <5>1. g[c] = f[c] /\ c \in 0..n /\ c - 1 \in 0..n /\ g[c - 1] = f[c - 1]
          BY <4>3
        <5>2. f[c] = AddChunk(h, c, f[c - 1])
          BY Zenon, <3>1, <5>1, <4>3
        <5> QED BY Zenon, <5>1, <5>2, <4>3
      <4> QED BY Zenon, <4>1, <4>2, <4>3
    <3>3. Is(g, n + 1)
      <4>1. g = [c \in 0..n + 1 |-> g[c]]
        BY Zenon
      <4> HIDE DEF g
      <4> QED BY Zenon, <3>2, <4>1
    <3> HIDE DEF g
    <3> QED BY <3>3
  <2> HIDE DEF T
  <2>3. Nat \subseteq T
    BY Zenon, <2>1, <2>2, NatInduct
  <2> QED BY Zenon, <2>3 DEF T
<1> DEFINE upTo == CHOOSE f : Is(f, N)
<1>2. BuildFreeList(h) = upTo[N]
  BY Zenon DEF BuildFreeList, AddChunks
<1>3. Is(upTo, N)
  BY Zenon, <1>0, <1>1
<1> HIDE DEF upTo
<1>4. \A c \in 0..N : upTo[c] = IF c = 0 THEN EmptyList ELSE AddChunk(h, c, upTo[c - 1])
  BY Zenon, <1>3
<1> HIDE DEF N
<1>5. ASSUME NEW c \in Nat, c + 1 <= N, NEW l, Listed(h, l, R(c))
      PROVE  Listed(h, AddChunk(h, c + 1, l), R(c + 1))
  <2>1. c + 1 \in DOMAIN h.chunk
    BY <1>0, <1>5
  <2>2. \A x : Small(c + 1, x) \notin R(c)
    <3>1. \A x : Small(c + 1, x).chunk = c + 1
      BY Zenon, SmallPointer
    <3> QED BY <3>1
  <2>3. Listed(h, AddChunk(h, c + 1, l), R(c) \cup {Small(c + 1, x) : x \in Nat})
    <3> HIDE DEF R
    <3> QED BY Zenon, <1>5, <2>1, <2>2, AddChunkListed
  <2>4. R(c) \cup {Small(c + 1, x) : x \in Nat} \subseteq R(c + 1)
    <3>1. \A p \in R(c) : p \in R(c + 1)
      BY DEF Address
    <3>2. \A x \in Nat : Small(c + 1, x) \in Address /\ Small(c + 1, x).chunk = c + 1
      BY SmallPointer
    <3> QED BY <3>1, <3>2
  <2> HIDE DEF R
  <2> QED BY Zenon, <2>3, <2>4, ListedMore
<1>6. \A n \in Nat : n <= N => Listed(h, upTo[n], R(n))
  <2> DEFINE T == {n \in Nat : n <= N => Listed(h, upTo[n], R(n))}
  <2> HIDE DEF R
  <2>1. 0 \in T
    <3>1. upTo[0] = EmptyList
      BY <1>0, <1>4
    <3> QED BY Zenon, <3>1, ListedEmpty
  <2>2. ASSUME NEW n \in Nat, n \in T PROVE n + 1 \in T
    <3> SUFFICES ASSUME n + 1 <= N PROVE Listed(h, upTo[n + 1], R(n + 1))
      OBVIOUS
    <3>1. upTo[n + 1] = AddChunk(h, n + 1, upTo[n])
      <4>1. n + 1 \in 0..N /\ n + 1 # 0 /\ (n + 1) - 1 = n
        BY <1>0
      <4> QED BY Zenon, <4>1, <1>4
    <3>2. Listed(h, upTo[n], R(n))
      BY <2>2, <1>0
    <3> QED BY Zenon, <3>1, <3>2, <1>5
  <2> HIDE DEF T
  <2>3. Nat \subseteq T
    BY Zenon, <2>1, <2>2, NatInduct
  <2> QED BY Zenon, <2>3 DEF T
<1>7. Listed(h, upTo[N], R(N))
  <2>1. N \in Nat /\ N <= N
    BY <1>0
  <2> HIDE DEF R
  <2> QED BY Zenon, <2>1, <1>6
<1> QED BY <1>2, <1>7 DEF Listed

\* A function on 1..n with tidy chunks is a sequence of chunks.
LEMMA TidySeq ==
  ASSUME NEW n \in Nat, NEW f, f = [c \in 1..n |-> f[c]], \A c \in 1..n : Tidy(f[c])
  PROVE  f \in Seq(ChunkType) /\ Len(f) = n /\ DOMAIN f = 1..n
<1>1. \A c \in 1..n : f[c] \in ChunkType
  BY Zenon DEF Tidy
<1> QED BY <1>1

\* A chunk keeps its own live blocks.
LEMMA KeepsLiveRefl ==
  ASSUME NEW k
  PROVE  KeepsLive(k, k)
BY Zenon DEF KeepsLive

\* Coalescing, padding and giving back touch free blocks above the marks only.
LEMMA CoalesceAllKeeps ==
  ASSUME NEW h, Shape(h)
  PROVE  LET g == CoalesceAll(h)
         IN  /\ Shape(g) /\ KeepsBlocks(h, g) /\ KeepsRest(h, g)
             /\ g.cur = h.cur /\ g.using = h.using /\ g.list = h.list /\ Len(g.chunk) = Len(h.chunk)
<1> DEFINE n == Len(h.chunk)
           f == [c \in DOMAIN h.chunk |-> IF c = Len(h.chunk) THEN GiveBack(Coalesce(h.chunk[c]))
                                          ELSE Coalesce(Pad(h.chunk[c]))]
           g == CoalesceAll(h)
<1>0. n \in Nat /\ DOMAIN h.chunk = 1..n /\ \A c \in 1..n : Tidy(h.chunk[c])
  BY Zenon, ShapeFields
<1>1. g = [h EXCEPT !.chunk = f]
  BY Zenon DEF CoalesceAll
<1>2. ASSUME NEW c \in 1..n PROVE Tidy(f[c]) /\ KeepsLive(h.chunk[c], f[c])
  <2> DEFINE k == h.chunk[c]
  <2>0. Tidy(k)
    BY Zenon, <1>0
  <2>1. CASE c = n
    <3>1. f[c] = GiveBack(Coalesce(k))
      BY Zenon, <1>0, <2>1
    <3> HIDE DEF f, k
    <3>2. Tidy(Coalesce(k)) /\ KeepsLive(k, Coalesce(k))
      BY Zenon, <2>0, TidyCoalesce
    <3>3. Tidy(f[c]) /\ KeepsLive(Coalesce(k), f[c])
      BY Zenon, <3>1, <3>2, TidyGiveBack
    <3>4. KeepsLive(k, f[c])
      BY Zenon, <3>2, <3>3 DEF KeepsLive
    <3> QED BY Zenon, <3>3, <3>4 DEF k
  <2>2. CASE c # n
    <3>1. f[c] = Coalesce(Pad(k))
      BY Zenon, <1>0, <2>2
    <3> HIDE DEF f, k
    <3>2. Tidy(Pad(k)) /\ KeepsLive(k, Pad(k))
      BY Zenon, <2>0, TidyPad
    <3>3. Tidy(f[c]) /\ KeepsLive(Pad(k), f[c])
      BY Zenon, <3>1, <3>2, TidyCoalesce
    <3>4. KeepsLive(k, f[c])
      BY Zenon, <3>2, <3>3 DEF KeepsLive
    <3> QED BY Zenon, <3>3, <3>4 DEF k
  <2> QED BY Zenon, <2>1, <2>2
<1>3. f = [c \in 1..n |-> f[c]]
  BY Zenon, <1>0
<1> HIDE DEF f
<1>4. f \in Seq(ChunkType) /\ Len(f) = n /\ DOMAIN f = 1..n
  BY Zenon, <1>0, <1>2, <1>3, TidySeq
<1>5. h \in HeapType
  BY Zenon DEF Shape
<1>6. g \in HeapType /\ g.chunk = f /\ g.cur = h.cur /\ g.using = h.using /\ g.list = h.list
      /\ g.pre = h.pre /\ g.post = h.post /\ KeepsRest(h, g)
  BY Zenon, <1>1, <1>4, <1>5 DEF HeapType, KeepsRest
<1> HIDE DEF g
<1>7. Shape(g)
  BY Zenon, <1>2, <1>4, <1>6 DEF Shape
<1>8. KeepsBlocks(h, g)
  BY <1>0, <1>2, <1>4, <1>6 DEF KeepsBlocks
<1> QED BY Zenon, <1>4, <1>6, <1>7, <1>8 DEF g

\* Memory::Free of the objects of D, when the counts are ref
FreeWith(h, ref, D) == Free([h EXCEPT !.ref = ref], D)

\* Memory::Free, seen from one chunk.
LEMMA FreeChunk ==
  ASSUME NEW h, Shape(h), NEW D, NEW ref, NEW c \in DOMAIN h.chunk
  PROVE  FreeWith(h, ref, D).chunk[c] = FreeIn(h.chunk[c], D)
<1> DEFINE k == [h EXCEPT !.ref = ref]
           f == [d \in DOMAIN k.chunk |-> FreeIn(k.chunk[d], D)]
<1>1. h \in HeapType
  BY Zenon DEF Shape
<1>2. k.chunk = h.chunk /\ DOMAIN k = DOMAIN h /\ "chunk" \in DOMAIN k
  BY Zenon, <1>1 DEF HeapType
<1>3. Free(k, D).chunk = f
  <2> HIDE DEF k, f
  <2> QED BY Zenon, <1>2 DEF Free, f
<1> QED BY Zenon, <1>2, <1>3 DEF FreeWith

FreeSpec(h, ref, D, g) ==
  /\ Shape(g)
  /\ g.cur = h.cur /\ g.postMark = h.postMark /\ g.marked = h.marked /\ g.atMark = h.atMark
  /\ g.list = h.list /\ g.using = h.using
  /\ g.pre = h.pre \ D /\ g.post = h.post \ D
  /\ \A o \in D : g.ref[o] = 0 /\ g.ptr[o] = Null /\ g.holds[o] = NoObj
  /\ \A o \in Objs \ D : g.ref[o] = ref[o] /\ g.ptr[o] = h.ptr[o] /\ g.holds[o] = h.holds[o]
  /\ Len(g.chunk) = Len(h.chunk) /\ DOMAIN g.chunk = DOMAIN h.chunk

\* The fields of the heap after Memory::Free of the objects of D.
LEMMA FreeView ==
  ASSUME NEW h, Shape(h), NEW D \in SUBSET Objs, NEW ref \in [Objs -> Nat]
  PROVE  FreeSpec(h, ref, D, FreeWith(h, ref, D))
<1> DEFINE g == FreeWith(h, ref, D)
<1> DEFINE f == [c \in DOMAIN h.chunk |-> FreeIn(h.chunk[c], D)]
           n == Len(h.chunk)
<1>0. n \in Nat /\ DOMAIN h.chunk = 1..n /\ \A c \in 1..n : Tidy(h.chunk[c])
  BY Zenon, ShapeFields
<1>1. f = [c \in 1..n |-> f[c]] /\ \A c \in 1..n : Tidy(f[c])
  BY Zenon, <1>0, TidyFree
<1>2. f \in Seq(ChunkType) /\ Len(f) = n /\ DOMAIN f = 1..n
  <2> HIDE DEF f, n
  <2> QED BY Zenon, <1>0, <1>1, TidySeq
<1>3. \A c \in DOMAIN h.chunk : f[c] = FreeIn(h.chunk[c], D)
  BY Zenon
<1>4. h \in HeapType
  BY Zenon DEF Shape
<1> DEFINE k == [h EXCEPT !.ref = ref]
<1>5. k \in HeapType /\ k.chunk = h.chunk /\ k.cur = h.cur /\ k.postMark = h.postMark
      /\ k.marked = h.marked /\ k.atMark = h.atMark /\ k.list = h.list /\ k.using = h.using
      /\ k.pre = h.pre /\ k.post = h.post /\ k.ref = ref /\ k.ptr = h.ptr /\ k.holds = h.holds
  BY Zenon, <1>4 DEF HeapType
<1> HIDE DEF k
<1> DEFINE ref2 == [o \in Objs |-> IF o \in D THEN 0 ELSE ref[o]]
           ptr2 == [o \in Objs |-> IF o \in D THEN Null ELSE h.ptr[o]]
           holds2 == [o \in Objs |-> IF o \in D THEN NoObj ELSE h.holds[o]]
<1>6. g = [k EXCEPT !.chunk = f, !.pre = k.pre \ D, !.post = k.post \ D,
                    !.ref = ref2, !.ptr = ptr2, !.holds = holds2]
  BY <1>5 DEF FreeWith, Free, k
<1>7. ref2 \in [Objs -> Nat] /\ ptr2 \in [Objs -> Pointer] /\ holds2 \in [Objs -> Object]
  <2>1. h.ptr \in [Objs -> Pointer] /\ h.holds \in [Objs -> Object]
    BY Zenon, <1>4 DEF HeapType
  <2>2. Null \in Pointer /\ NoObj \in Object
    BY Zenon DEF Pointer, Object
  <2> QED BY Zenon, <2>1, <2>2
<1>11. /\ \A o \in D : ref2[o] = 0 /\ ptr2[o] = Null /\ holds2[o] = NoObj
       /\ \A o \in Objs \ D : ref2[o] = ref[o] /\ ptr2[o] = h.ptr[o] /\ holds2[o] = h.holds[o]
  BY Zenon
<1> HIDE DEF ref2, ptr2, holds2, f, g
<1>8. h.pre \ D \in SUBSET LargeObjs /\ h.post \ D \in SUBSET LargeObjs
  BY Zenon, ShapeFields
<1> DEFINE pre2 == h.pre \ D
           post2 == h.post \ D
<1>9. /\ g \in HeapType /\ g.chunk = f /\ g.cur = k.cur /\ g.postMark = k.postMark
      /\ g.marked = k.marked /\ g.atMark = k.atMark /\ g.list = k.list /\ g.using = k.using
      /\ g.pre = pre2 /\ g.post = post2 /\ g.ref = ref2 /\ g.ptr = ptr2 /\ g.holds = holds2
  <2>1. g = [k EXCEPT !.chunk = f, !.pre = pre2, !.post = post2,
                      !.ref = ref2, !.ptr = ptr2, !.holds = holds2]
    BY Zenon, <1>5, <1>6
  <2>2. k = [chunk |-> k.chunk, cur |-> k.cur, postMark |-> k.postMark, marked |-> k.marked,
             atMark |-> k.atMark, pre |-> k.pre, post |-> k.post, list |-> k.list, using |-> k.using,
             ref |-> k.ref, ptr |-> k.ptr, holds |-> k.holds]
    BY Zenon, <1>5 DEF HeapType
  <2> HIDE DEF pre2, post2
  <2>3. g = [chunk |-> f, cur |-> k.cur, postMark |-> k.postMark, marked |-> k.marked,
             atMark |-> k.atMark, pre |-> pre2, post |-> post2, list |-> k.list, using |-> k.using,
             ref |-> ref2, ptr |-> ptr2, holds |-> holds2]
    BY Zenon, <2>1, <2>2
  <2>4. /\ k.cur \in Nat /\ k.postMark \in BOOLEAN /\ k.marked \in BOOLEAN /\ k.atMark \in Nat
        /\ k.list \in [0..NumBuckets - 1 -> Seq(Address)] /\ k.using \in BOOLEAN
    BY Zenon, <1>5 DEF HeapType
  <2>5. pre2 \in SUBSET LargeObjs /\ post2 \in SUBSET LargeObjs
    BY Zenon, <1>8 DEF pre2, post2
  <2> HIDE DEF k
  <2>6. g \in HeapType
    BY Zenon, <2>3, <2>4, <2>5, <1>2, <1>7 DEF HeapType
  <2> QED BY Zenon, <2>3, <2>6
<1>10. Shape(g)
  BY Zenon, <1>1, <1>2, <1>9 DEF Shape
<1>12. FreeSpec(h, ref, D, g)
  BY Zenon, <1>0, <1>2, <1>5, <1>9, <1>10, <1>11 DEF FreeSpec
<1> QED BY Zenon, <1>12 DEF g

Freed(h, g, D) ==
  /\ \A c, x, o : o # NoObj => (Sits(g, c, x, o) <=> Sits(h, c, x, o) /\ o \notin D)
  /\ \A c \in DOMAIN h.chunk : g.chunk[c].mark = h.chunk[c].mark
  /\ Allocated(g) = Allocated(h) \ D /\ Old(g) = Old(h) \ D
  /\ PostMarkObjs(g) = PostMarkObjs(h) \ D
  /\ \A p, o : o # NoObj /\ o \notin D => (Target(g, p) = o <=> Target(h, p) = o)

\* Memory::Free removes the objects of D and disturbs no other.
LEMMA FreeObjects ==
  ASSUME NEW h, Shape(h), NEW D \in SUBSET Objs, NEW ref \in [Objs -> Nat],
         NEW g, g = FreeWith(h, ref, D)
  PROVE  Freed(h, g, D)
<1>0. Shape(g) /\ g.pre = h.pre \ D /\ g.post = h.post \ D /\ DOMAIN g.chunk = DOMAIN h.chunk
  <2>1. FreeSpec(h, ref, D, g)
    BY Zenon, FreeView
  <2> QED BY Zenon, <2>1 DEF FreeSpec
<1>00. \A c \in DOMAIN h.chunk : g.chunk[c] = FreeIn(h.chunk[c], D)
  BY Zenon, FreeChunk
<1>1. ASSUME NEW c \in DOMAIN h.chunk
      PROVE  /\ g.chunk[c].mark = h.chunk[c].mark /\ DOMAIN g.chunk[c].at = DOMAIN h.chunk[c].at
             /\ \A x \in DOMAIN h.chunk[c].at :
                  /\ h.chunk[c].at[x].obj \in D => g.chunk[c].at[x].obj = NoObj
                  /\ h.chunk[c].at[x].obj \notin D => g.chunk[c].at[x] = h.chunk[c].at[x]
  <2>1. Tidy(h.chunk[c]) /\ g.chunk[c] = FreeIn(h.chunk[c], D)
    BY Zenon, <1>00, ShapeFields
  <2> QED BY <2>1, TidyFree
<1>9. \A c \in DOMAIN h.chunk : g.chunk[c].mark = h.chunk[c].mark
  BY Zenon, <1>1
<1>2. ASSUME NEW c, NEW x, NEW o, o # NoObj
      PROVE  Sits(g, c, x, o) <=> Sits(h, c, x, o) /\ o \notin D
  BY <1>0, <1>1, <1>2 DEF Sits
<1>3. Large(g) = Large(h) \ D
  BY Zenon, <1>0 DEF Large
<1>4. \A o : o # NoObj => (o \in Allocated(g) <=> o \in Allocated(h) /\ o \notin D)
  BY Zenon, <1>0, <1>2, <1>3, ObjectsView
<1>5. \A o : o # NoObj => (o \in Old(g) <=> o \in Old(h) /\ o \notin D)
  <2> SUFFICES ASSUME NEW o, o # NoObj PROVE o \in Old(g) <=> o \in Old(h) /\ o \notin D
    BY Zenon
  <2>1. \A c, x : /\ Sits(g, c, x, o) <=> Sits(h, c, x, o) /\ o \notin D
                  /\ Sits(h, c, x, o) => g.chunk[c].mark = h.chunk[c].mark
    BY <1>2, <1>9 DEF Sits
  <2> QED BY Zenon, <1>0, <2>1, ObjectsView
<1>6. \A o : o # NoObj => (o \in PostMarkObjs(g) <=> o \in PostMarkObjs(h) /\ o \notin D)
  <2> SUFFICES ASSUME NEW o, o # NoObj PROVE o \in PostMarkObjs(g) <=> o \in PostMarkObjs(h) /\ o \notin D
    BY Zenon
  <2>1. \A c, x : /\ Sits(g, c, x, o) <=> Sits(h, c, x, o) /\ o \notin D
                  /\ Sits(h, c, x, o) => g.chunk[c].mark = h.chunk[c].mark
    BY <1>2, <1>9 DEF Sits
  <2> QED BY Zenon, <1>0, <2>1, ObjectsView
<1>7. /\ NoObj \notin Allocated(g) /\ NoObj \notin Allocated(h) /\ NoObj \notin Old(h)
      /\ NoObj \notin Old(g) /\ NoObj \notin PostMarkObjs(g) /\ NoObj \notin PostMarkObjs(h)
  BY Zenon, <1>0, ObjectsTyped
<1>8. \A p, o : o # NoObj /\ o \notin D => (Target(g, p) = o <=> Target(h, p) = o)
  BY <1>0, <1>2, <1>3, TargetView
<1> QED BY Zenon, <1>2, <1>4, <1>5, <1>6, <1>7, <1>8, <1>9 DEF Freed

\* Freeing a block never makes a listed block something else: it is only listed
\* by the next scan.
LEMMA FreeLists ==
  ASSUME NEW h, Shape(h), NEW D \in SUBSET Objs, NEW ref \in [Objs -> Nat],
         NEW g, g = FreeWith(h, ref, D), ListOK(h)
  PROVE  ListOK(g)
<1>0. /\ Shape(g) /\ g.list = h.list /\ g.using = h.using /\ DOMAIN g.chunk = DOMAIN h.chunk
      /\ \A c \in DOMAIN h.chunk : g.chunk[c] = FreeIn(h.chunk[c], D)
  <2>1. FreeSpec(h, ref, D, g)
    BY Zenon, FreeView
  <2>2. \A c \in DOMAIN h.chunk : g.chunk[c] = FreeIn(h.chunk[c], D)
    BY Zenon, FreeChunk
  <2> QED BY Zenon, <2>1, <2>2 DEF FreeSpec
<1>1. ASSUME NEW p \in FreeBlocks(h) PROVE p \in FreeBlocks(g) /\ BlockAt(g, p).size = BlockAt(h, p).size
  <2> DEFINE c == p.chunk
             x == p.off
  <2>1. /\ c \in DOMAIN h.chunk /\ x \in DOMAIN h.chunk[c].at /\ x >= h.chunk[c].mark
        /\ h.chunk[c].at[x].obj = NoObj /\ p = Small(c, x)
    BY Zenon, FreeBlocksTyped
  <2>2. Tidy(h.chunk[c]) /\ g.chunk[c] = FreeIn(h.chunk[c], D) /\ NoObj \notin D
    BY Zenon, <1>0, <2>1, ShapeFields, SizesAssumption
  <2>3. /\ g.chunk[c].mark = h.chunk[c].mark /\ DOMAIN g.chunk[c].at = DOMAIN h.chunk[c].at
        /\ g.chunk[c].at[x] = h.chunk[c].at[x]
    BY <2>1, <2>2, TidyFree
  <2>4. p \in FreeBlocks(g)
    <3>1. c \in DOMAIN g.chunk /\ x \in DOMAIN g.chunk[c].at /\ x >= g.chunk[c].mark
          /\ g.chunk[c].at[x].obj = NoObj
      BY Zenon, <1>0, <2>1, <2>3
    <3> HIDE DEF c, x
    <3>2. Small(c, x) \in FreeBlocks(g)
      BY Zenon, <1>0, <3>1, FreeBlocksTyped
    <3> QED BY Zenon, <3>2, <2>1
  <2> QED BY Zenon, <2>3, <2>4 DEF BlockAt
<1> QED BY <1>0, <1>1 DEF ListOK, Listed

-----------------------------------------------------------------------------
(* The values that a scan deletes.                                         *)

\* The references to an object can be counted.
LEMMA RefsFinite ==
  ASSUME NEW h, NEW m, NEW o
  PROVE  /\ IsFiniteSet(FromSlots(m, o)) /\ IsFiniteSet(FromObjs(h, o))
         /\ Cardinality(FromSlots(m, o)) \in Nat /\ Cardinality(FromObjs(h, o)) \in Nat
         /\ Refs(h, m, o) \in Nat
<1>1. FromSlots(m, o) \subseteq Statics \cup Locals /\ FromObjs(h, o) \subseteq Objs
  BY Zenon DEF FromSlots, FromObjs, Slots
<1>2. IsFiniteSet(FromSlots(m, o)) /\ IsFiniteSet(FromObjs(h, o))
  BY Zenon, <1>1, ObjsAssumption, FS_Subset
<1>3. Cardinality(FromSlots(m, o)) \in Nat /\ Cardinality(FromObjs(h, o)) \in Nat
  BY Zenon, <1>2, FS_CardinalityType
<1> QED BY <1>2, <1>3 DEF Refs

\* The pointers that deleting D gives up are the references held by D.
LEMMA PointersAre ==
  ASSUME NEW h, NEW r, NEW m, Shape(h), Pointing(h, r, m), NEW D \in SUBSET Objs, NEW o \in Objs
  PROVE  Pointers(h, D, o) = FromObjs(h, o) \cap D
<1>1. o # NoObj
  BY Zenon, SizesAssumption
<1>2. \A p \in D : (h.ptr[p] # Null /\ Target(h, h.ptr[p]) = o) <=> h.holds[p] = o
  BY <1>1 DEF Pointing, Leads
<1> QED BY Zenon, <1>2 DEF Pointers, FromObjs

\* nothing outside D refers to a member of D
Closed(h, m, D) ==
  /\ D \subseteq Allocated(h)
  /\ \A o \in D : FromSlots(m, o) = {} /\ FromObjs(h, o) \subseteq D
  /\ h.marked => D \cap Old(h) = {}

\* The values a scan starts from, with a count of zero, have no reference.
LEMMA ClosedStart ==
  ASSUME NEW h, NEW r, NEW m, Sound(h, r, m), NEW scanned \in SUBSET Allocated(h),
         h.marked => scanned \cap Old(h) = {}
  PROVE  Closed(h, m, {o \in scanned \ RawObjs : h.ref[o] = 0})
<1> DEFINE D == {o \in scanned \ RawObjs : h.ref[o] = 0}
<1>1. ASSUME NEW o \in D PROVE FromSlots(m, o) = {} /\ FromObjs(h, o) = {}
  <2>1. h.ref[o] >= Refs(h, m, o) /\ h.ref[o] = 0
    BY Zenon DEF Sound, Counting
  <2>2. Cardinality(FromSlots(m, o)) = 0 /\ Cardinality(FromObjs(h, o)) = 0
    BY <2>1, RefsFinite DEF Refs
  <2> QED BY Zenon, <2>2, RefsFinite, FS_EmptySet
<1> QED BY Zenon, <1>1 DEF Closed

\* What loses its last reference with them has none from outside either.
LEMMA ClosedSpread ==
  ASSUME NEW h, NEW r, NEW m, Sound(h, r, m), NEW D, Closed(h, m, D)
  PROVE  Closed(h, m, Spread(h, D)) /\ D \subseteq Spread(h, D)
<1>0. Shape(h) /\ Pointing(h, r, m) /\ Counting(h, m) /\ Settled(h, m)
  BY Zenon DEF Sound, Layout
<1>1. Allocated(h) \subseteq Objs /\ D \in SUBSET Objs
  BY Zenon, <1>0, ObjectsTyped DEF Closed
<1>2. ASSUME NEW o \in Allocated(h), LastReferences(h, D, o)
      PROVE  /\ o \notin RawObjs /\ FromSlots(m, o) = {} /\ FromObjs(h, o) \subseteq D
             /\ h.marked => o \notin Old(h)
  <2>1. o \in Objs /\ Pointers(h, D, o) = FromObjs(h, o) \cap D
    BY Zenon, <1>0, <1>1, PointersAre
  <2>2. FromObjs(h, o) \cap D # {} /\ h.ref[o] = Cardinality(FromObjs(h, o) \cap D)
    BY Zenon, <1>2, <2>1 DEF LastReferences
  <2>3. o \notin RawObjs
    BY Zenon, <1>0, <2>2 DEF FromObjs, Pointing
  <2>4. h.ref[o] >= Refs(h, m, o)
    BY Zenon, <1>0, <2>3 DEF Counting
  <2>5. /\ IsFiniteSet(FromObjs(h, o) \cap D)
        /\ Cardinality(FromObjs(h, o) \cap D) <= Cardinality(FromObjs(h, o))
        /\ Cardinality(FromObjs(h, o) \cap D) = Cardinality(FromObjs(h, o))
             => FromObjs(h, o) \cap D = FromObjs(h, o)
    <3>1. FromObjs(h, o) \cap D \subseteq FromObjs(h, o) /\ IsFiniteSet(FromObjs(h, o))
      BY Zenon, RefsFinite
    <3> QED BY Zenon, <3>1, FS_Subset
  <2>6. Cardinality(FromObjs(h, o) \cap D) \in Nat
    BY Zenon, <2>5, FS_CardinalityType
  <2>7. /\ Cardinality(FromSlots(m, o)) = 0
        /\ Cardinality(FromObjs(h, o) \cap D) = Cardinality(FromObjs(h, o))
    BY <2>2, <2>4, <2>5, <2>6, RefsFinite DEF Refs
  <2>8. FromSlots(m, o) = {}
    BY Zenon, <2>7, RefsFinite, FS_EmptySet
  <2>9. FromObjs(h, o) \subseteq D
    BY Zenon, <2>5, <2>7
  <2>10. ASSUME h.marked, o \in Old(h) PROVE FALSE
    <3>1. /\ ~(FromSlots(m, o) = {} /\ FromObjs(h, o) = {})
          /\ ~\E s \in Statics : m[s] = o
      BY Zenon, <2>2, <2>8 DEF FromSlots, Slots
    <3>2. PICK p \in Old(h) : h.holds[p] = o
      BY Zenon, <1>0, <2>10, <3>1 DEF Settled
    <3>3. p \in FromObjs(h, o)
      BY Zenon, <3>2, <1>0, <1>1, ObjectsTyped DEF FromObjs
    <3> QED BY Zenon, <3>3, <3>2, <2>9, <2>10 DEF Closed
  <2> QED BY Zenon, <2>3, <2>8, <2>9, <2>10
<1>3. Spread(h, D) = D \cup {o \in Allocated(h) : LastReferences(h, D, o)}
  BY Zenon DEF Spread
<1> QED BY Zenon, <1>2, <1>3 DEF Closed

\* Form::Delete and the deletions it leads to: the set is closed, and no other
\* value has lost its last reference
LEMMA DoomedClosed ==
  ASSUME NEW h, NEW r, NEW m, Sound(h, r, m), NEW scanned \in SUBSET Allocated(h),
         h.marked => scanned \cap Old(h) = {}
  PROVE  /\ Closed(h, m, Doomed(h, scanned))
         /\ {o \in scanned \ RawObjs : h.ref[o] = 0} \subseteq Doomed(h, scanned)
         /\ Spread(h, Doomed(h, scanned)) = Doomed(h, scanned)
<1> DEFINE N == Cardinality(Objs)
           A == {o \in scanned \ RawObjs : h.ref[o] = 0}
           Is(f, n) == f = [i \in 0..n |-> IF i = 0 THEN A ELSE Spread(h, f[i - 1])]
<1>0. N \in Nat
  BY Zenon, ObjsAssumption, FS_CardinalityType
<1>1. \A n \in Nat : \E f : Is(f, n)
  <2> DEFINE T == {n \in Nat : \E f : Is(f, n)}
  <2> HIDE DEF A
  <2>1. 0 \in T
    <3> DEFINE f == [i \in 0..0 |-> A]
    <3>1. Is(f, 0)
      OBVIOUS
    <3> QED BY Zenon, <3>1
  <2>2. ASSUME NEW n \in Nat, n \in T PROVE n + 1 \in T
    <3>1. PICK f : Is(f, n)
      BY Zenon, <2>2
    <3> DEFINE g == [i \in 0..n + 1 |-> IF i = n + 1 THEN Spread(h, f[n]) ELSE f[i]]
    <3>2. \A i \in 0..n + 1 : g[i] = IF i = 0 THEN A ELSE Spread(h, g[i - 1])
      <4> SUFFICES ASSUME NEW i \in 0..n + 1
                   PROVE  g[i] = IF i = 0 THEN A ELSE Spread(h, g[i - 1])
        BY Zenon
      <4>1. CASE i = n + 1
        <5>1. g[i] = Spread(h, f[n]) /\ i # 0 /\ i - 1 = n /\ g[n] = f[n]
          BY <4>1
        <5> QED BY Zenon, <5>1
      <4>2. CASE i # n + 1 /\ i = 0
        <5>1. g[i] = f[i] /\ i \in 0..n
          BY <4>2
        <5> QED BY Zenon, <3>1, <5>1, <4>2
      <4>3. CASE i # n + 1 /\ i # 0
        <5>1. g[i] = f[i] /\ i \in 0..n /\ i - 1 \in 0..n /\ g[i - 1] = f[i - 1]
          BY <4>3
        <5>2. f[i] = Spread(h, f[i - 1])
          BY Zenon, <3>1, <5>1, <4>3
        <5> QED BY Zenon, <5>1, <5>2, <4>3
      <4> QED BY Zenon, <4>1, <4>2, <4>3
    <3>3. Is(g, n + 1)
      <4>1. g = [i \in 0..n + 1 |-> g[i]]
        BY Zenon
      <4> HIDE DEF g
      <4> QED BY Zenon, <3>2, <4>1
    <3> HIDE DEF g
    <3> QED BY <3>3
  <2> HIDE DEF T
  <2>3. Nat \subseteq T
    BY Zenon, <2>1, <2>2, NatInduct
  <2> QED BY Zenon, <2>3 DEF T
<1> DEFINE doomed == CHOOSE f : Is(f, N)
<1>2. Doomed(h, scanned) = doomed[N]
  BY Zenon DEF Doomed
<1>3. Is(doomed, N)
  BY Zenon, <1>0, <1>1
<1> HIDE DEF doomed
<1>4. doomed[0] = A /\ \A i \in 0..N : i # 0 => doomed[i] = Spread(h, doomed[i - 1])
  <2> HIDE DEF A, N
  <2> QED BY <1>0, <1>3
<1>5. Closed(h, m, A)
  BY Zenon, ClosedStart
<1> HIDE DEF A, N
<1> DEFINE Fix(i) == Spread(h, doomed[i]) = doomed[i] \/ Cardinality(doomed[i]) > i
           Good(i) == Closed(h, m, doomed[i]) /\ A \subseteq doomed[i] /\ Fix(i)
           T == {i \in Nat : i <= N => Good(i)}
<1>6. \A D : Closed(h, m, D) => IsFiniteSet(D) /\ Cardinality(D) \in Nat /\ Cardinality(D) <= N
  <2> SUFFICES ASSUME NEW D, Closed(h, m, D)
               PROVE  IsFiniteSet(D) /\ Cardinality(D) \in Nat /\ Cardinality(D) <= N
    BY Zenon
  <2>1. D \subseteq Objs
    BY Zenon, ObjectsTyped DEF Closed, Sound, Layout
  <2>2. IsFiniteSet(D) /\ Cardinality(D) <= N
    BY Zenon, <2>1, ObjsAssumption, FS_Subset DEF N
  <2> QED BY Zenon, <2>2, FS_CardinalityType
<1>7. 0 \in T
  <2>1. Fix(0)
    <3>1. CASE A = {}
      <4>1. \A o : ~LastReferences(h, {}, o)
        BY Zenon DEF LastReferences, Pointers
      <4>2. Spread(h, {}) = {}
        BY Zenon, <4>1 DEF Spread
      <4> QED BY Zenon, <3>1, <4>2, <1>4
    <3>2. CASE A # {}
      <4>1. IsFiniteSet(A) /\ Cardinality(A) \in Nat
        BY Zenon, <1>5, <1>6
      <4>2. Cardinality(A) # 0
        BY Zenon, <4>1, <3>2, FS_EmptySet
      <4> QED BY <4>1, <4>2, <1>4
    <3> QED BY Zenon, <3>1, <3>2
  <2> QED BY Zenon, <2>1, <1>4, <1>5
<1>8. ASSUME NEW i \in Nat, i \in T PROVE i + 1 \in T
  <2> SUFFICES ASSUME i + 1 <= N PROVE Good(i + 1)
    OBVIOUS
  <2>1. Good(i)
    BY <1>8, <1>0
  <2>2. doomed[i + 1] = Spread(h, doomed[i])
    <3>1. i + 1 \in 0..N /\ i + 1 # 0 /\ (i + 1) - 1 = i
      BY <1>0
    <3> QED BY Zenon, <3>1, <1>4
  <2>3. Closed(h, m, doomed[i + 1]) /\ doomed[i] \subseteq doomed[i + 1]
    BY <2>1, <2>2, ClosedSpread
  <2>4. Fix(i + 1)
    <3>1. CASE Spread(h, doomed[i]) = doomed[i]
      BY Zenon, <2>2, <3>1
    <3>2. CASE Spread(h, doomed[i]) # doomed[i]
      <4>1. Cardinality(doomed[i]) > i
        BY Zenon, <2>1, <3>2
      <4>2. IsFiniteSet(doomed[i + 1]) /\ Cardinality(doomed[i + 1]) \in Nat /\ Cardinality(doomed[i]) \in Nat
        BY Zenon, <2>1, <2>3, <1>6
      <4>3. /\ Cardinality(doomed[i]) <= Cardinality(doomed[i + 1])
            /\ Cardinality(doomed[i]) = Cardinality(doomed[i + 1]) => doomed[i] = doomed[i + 1]
        BY Zenon, <4>2, <2>3, FS_Subset
      <4>4. doomed[i] # doomed[i + 1]
        BY Zenon, <2>2, <3>2
      <4>5. Cardinality(doomed[i + 1]) > i + 1
        BY <4>1, <4>2, <4>3, <4>4
      <4> QED BY Zenon, <4>5
    <3> QED BY Zenon, <3>1, <3>2
  <2> QED BY Zenon, <2>1, <2>3, <2>4
<1>9. Good(N)
  <2> HIDE DEF T
  <2>1. Nat \subseteq T
    BY Zenon, <1>7, <1>8, NatInduct
  <2>2. N \in T /\ N <= N
    BY <2>1, <1>0
  <2> QED BY Zenon, <2>2 DEF T
<1>10. Spread(h, doomed[N]) = doomed[N]
  <2>1. Cardinality(doomed[N]) \in Nat /\ Cardinality(doomed[N]) <= N
    BY Zenon, <1>9, <1>6
  <2>2. ~(Cardinality(doomed[N]) > N)
    BY <2>1, <1>0
  <2> QED BY Zenon, <2>2, <1>9
<1> QED BY Zenon, <1>2, <1>9, <1>10 DEF A

\* A finite set is counted in two parts.
LEMMA SplitCount ==
  ASSUME NEW S, NEW D, IsFiniteSet(S)
  PROVE  /\ Cardinality(S \cap D) \in Nat /\ Cardinality(S \ D) \in Nat
         /\ Cardinality(S) = Cardinality(S \cap D) + Cardinality(S \ D)
<1>1. IsFiniteSet(S \cap D) /\ IsFiniteSet(S \ D)
  BY Zenon, FS_Subset
<1>2. (S \cap D) \cup (S \ D) = S /\ (S \cap D) \cap (S \ D) = {}
  BY Zenon
<1>3. Cardinality(S \cap D) \in Nat /\ Cardinality(S \ D) \in Nat
  BY Zenon, <1>1, FS_CardinalityType
<1>4. Cardinality((S \cap D) \cup (S \ D)) =
        Cardinality(S \cap D) + Cardinality(S \ D) - Cardinality((S \cap D) \cap (S \ D))
  BY Zenon, <1>1, FS_Union
<1>5. Cardinality(S) = Cardinality(S \cap D) + Cardinality(S \ D) - 0
  BY Zenon, <1>2, <1>4, FS_EmptySet
<1> QED BY <1>3, <1>5

\* the counts that a deletion leaves are the pointers that it leaves
LEMMA DroppedCounts ==
  ASSUME NEW h, NEW r, NEW m, Sound(h, r, m), NEW D, Closed(h, m, D),
         NEW o \in Objs
  PROVE  LET n == Cardinality(Pointers(h, D, o))
         IN  /\ h.ref[o] - n \in Nat /\ n \in Nat
             /\ Cardinality(FromObjs(h, o)) = n + Cardinality(FromObjs(h, o) \ D)
             /\ Cardinality(FromObjs(h, o) \ D) \in Nat
             /\ n = 0 <=> Pointers(h, D, o) = {}
<1>0. Shape(h) /\ Pointing(h, r, m) /\ Counting(h, m)
  BY Zenon DEF Sound, Layout
<1>1. D \in SUBSET Objs /\ h.ref[o] \in Nat /\ o # NoObj
  BY <1>0, ObjectsTyped, ShapeFields, SizesAssumption DEF Closed
<1>2. Pointers(h, D, o) = FromObjs(h, o) \cap D
  BY Zenon, <1>0, <1>1, PointersAre
<1>3. /\ Cardinality(FromObjs(h, o) \cap D) \in Nat /\ Cardinality(FromObjs(h, o) \ D) \in Nat
      /\ Cardinality(FromObjs(h, o)) =
           Cardinality(FromObjs(h, o) \cap D) + Cardinality(FromObjs(h, o) \ D)
  BY Zenon, RefsFinite, SplitCount
<1>4. IsFiniteSet(FromObjs(h, o) \cap D)
  BY Zenon, RefsFinite, FS_Subset
<1>5. CASE o \in Allocated(h) \ RawObjs
  <2>1. h.ref[o] >= Refs(h, m, o)
    BY Zenon, <1>0, <1>5 DEF Counting
  <2>2. h.ref[o] >= Cardinality(FromObjs(h, o))
    BY <2>1, <1>1, RefsFinite DEF Refs
  <2> QED BY <1>1, <1>2, <1>3, <1>4, <2>2, RefsFinite, FS_EmptySet
<1>6. CASE o \notin Allocated(h) \ RawObjs
  <2>1. \A p \in Objs : h.holds[p] # o
    BY <1>0, <1>1, <1>6, ObjectsTyped DEF Pointing, Leads
  <2>2. FromObjs(h, o) = {}
    BY Zenon, <2>1 DEF FromObjs
  <2>3. FromObjs(h, o) \cap D = {} /\ Cardinality(FromObjs(h, o) \cap D) = 0
    BY Zenon, <2>2, FS_EmptySet
  <2> QED BY <1>1, <1>2, <1>3, <2>3
<1> QED BY Zenon, <1>5, <1>6

DeletedRef(h, D) == [o \in Objs |-> h.ref[o] - Cardinality(Pointers(h, D, o))]

\* A scan's deletions are one Memory::Free with the counts taken down first.
LEMMA DeleteIsFree ==
  ASSUME NEW h, Shape(h), NEW scanned
  PROVE  Delete(h, scanned) = FreeWith(h, DeletedRef(h, Doomed(h, scanned)), Doomed(h, scanned))
<1> DEFINE D == Doomed(h, scanned)
<1>1. h \in HeapType /\ h.ref = [o \in Objs |-> h.ref[o]]
  BY Zenon DEF Shape, HeapType
<1>2. Delete(h, scanned) = Free(DropReferences(h, D), D)
  BY Zenon DEF Delete
<1> HIDE DEF D
<1>3. DropReferences(h, D) = [h EXCEPT !.ref = DeletedRef(h, D)]
  BY Zenon, <1>1 DEF DropReferences, DeletedRef, HeapType
<1> QED BY Zenon, <1>2, <1>3 DEF FreeWith, D

\* a scan deletes values that nothing refers to, and only those
LEMMA DeleteSound ==
  ASSUME NEW h, NEW r, NEW m, Sound(h, r, m), NEW D, Closed(h, m, D),
         NEW g, g = FreeWith(h, DeletedRef(h, D), D)
  PROVE  Sound(g, r, m)
<1> DEFINE ref == DeletedRef(h, D)
<1>0. /\ Shape(h) /\ Unique(h) /\ Marks(h) /\ h.cur \in 1..Len(h.chunk) /\ h.pre \cap h.post = {}
      /\ Pointing(h, r, m) /\ Counting(h, m) /\ Settled(h, m)
  BY Zenon DEF Sound, Layout
<1>1. D \in SUBSET Objs /\ NoObj \notin D /\ NoObj \notin Objs
  BY Zenon, <1>0, ObjectsTyped, SizesAssumption DEF Closed
<1>2. ref \in [Objs -> Nat] /\ \A o \in Objs : ref[o] = h.ref[o] - Cardinality(Pointers(h, D, o))
  BY Zenon, DroppedCounts DEF DeletedRef
<1> HIDE DEF ref
<1>3. Freed(h, g, D)
  BY Zenon, <1>0, <1>1, <1>2, FreeObjects DEF ref
<1>35. FreeSpec(h, ref, D, g)
  BY Zenon, <1>0, <1>1, <1>2, FreeView DEF ref
<1>4. /\ Shape(g) /\ g.cur = h.cur /\ g.postMark = h.postMark /\ g.marked = h.marked
      /\ g.atMark = h.atMark /\ Len(g.chunk) = Len(h.chunk) /\ DOMAIN g.chunk = DOMAIN h.chunk
  BY Zenon, <1>35 DEF FreeSpec
<1>5. g.pre = h.pre \ D /\ g.post = h.post \ D
  BY Zenon, <1>35 DEF FreeSpec
<1>6. \A o \in D : g.ref[o] = 0 /\ g.ptr[o] = Null /\ g.holds[o] = NoObj
  BY Zenon, <1>35 DEF FreeSpec
<1>7. \A o \in Objs \ D : g.ref[o] = ref[o] /\ g.ptr[o] = h.ptr[o] /\ g.holds[o] = h.holds[o]
  BY Zenon, <1>35 DEF FreeSpec
<1>8. Layout(g)
  <2>1. Unique(g)
    BY <1>0, <1>1, <1>3 DEF Unique, Freed
  <2>2. Marks(g)
    BY Zenon, <1>0, <1>3, <1>4, <1>5 DEF Marks, Freed
  <2> QED BY Zenon, <1>0, <1>4, <1>5, <2>1, <2>2 DEF Layout
<1>9. \A s \in Slots : m[s] \notin D
  BY Zenon DEF Closed, FromSlots
<1>10. \A p \in Objs \ D : h.holds[p] \notin D
  BY Zenon DEF Closed, FromObjs
<1>11. ASSUME NEW p, NEW o, o \notin D, Leads(h, p, o) PROVE Leads(g, p, o)
  <2>1. CASE o = NoObj
    BY Zenon, <2>1, <1>4, <1>11, ObjectsTyped DEF Leads
  <2>2. CASE o # NoObj
    BY Zenon, <2>2, <1>3, <1>11 DEF Leads, Freed
  <2> QED BY Zenon, <2>1, <2>2
<1>12. Pointing(g, r, m)
  <2>1. \A s \in Slots : Leads(g, r[s], m[s])
    BY Zenon, <1>0, <1>9, <1>11 DEF Pointing
  <2>2. ASSUME NEW o \in Objs
        PROVE  /\ Leads(g, g.ptr[o], g.holds[o]) /\ g.holds[o] \notin RawObjs
               /\ o \notin Allocated(g) => g.holds[o] = NoObj
               /\ o \in RawObjs => g.holds[o] = NoObj
    <3>1. CASE o \in D
      <4>1. Target(g, Null) = NoObj
        BY Zenon, <1>4, ObjectsTyped
      <4>2. NoObj \notin RawObjs
        BY Zenon, SizesAssumption
      <4> QED BY Zenon, <3>1, <4>1, <4>2, <1>6 DEF Leads
    <3>2. CASE o \notin D
      <4>1. g.ptr[o] = h.ptr[o] /\ g.holds[o] = h.holds[o] /\ h.holds[o] \notin D
        BY Zenon, <3>2, <1>7, <1>10
      <4>2. Leads(g, g.ptr[o], g.holds[o])
        BY Zenon, <4>1, <1>0, <1>11 DEF Pointing
      <4>3. o \notin Allocated(g) => o \notin Allocated(h)
        BY Zenon, <3>2, <1>3 DEF Freed
      <4> QED BY Zenon, <4>1, <4>2, <4>3, <1>0 DEF Pointing
    <3> QED BY Zenon, <3>1, <3>2
  <2>3. RawObjs \subseteq Objs
    BY Zenon, SizesAssumption
  <2> QED BY Zenon, <1>0, <2>1, <2>2, <2>3 DEF Pointing
<1>13. \A o : o # NoObj => FromObjs(g, o) = FromObjs(h, o) \ D
  BY Zenon, <1>6, <1>7 DEF FromObjs
<1>14. Counting(g, m)
  <2> SUFFICES ASSUME NEW o \in Allocated(g) \ RawObjs
               PROVE  /\ g.ref[o] >= Refs(g, m, o)
                      /\ ~g.marked \/ o \notin Old(g) => g.ref[o] = Refs(g, m, o)
    BY Zenon DEF Counting
  <2>1. o \in Allocated(h) \ RawObjs /\ o \in Objs \ D /\ o # NoObj
    BY <1>0, <1>1, <1>3, ObjectsTyped DEF Freed
  <2>2. /\ h.ref[o] >= Refs(h, m, o)
        /\ ~h.marked \/ o \notin Old(h) => h.ref[o] = Refs(h, m, o)
    BY Zenon, <1>0, <2>1 DEF Counting
  <2> DEFINE n == Cardinality(Pointers(h, D, o))
  <2>3. /\ n \in Nat /\ Cardinality(FromObjs(h, o)) = n + Cardinality(FromObjs(h, o) \ D)
        /\ Cardinality(FromObjs(h, o) \ D) \in Nat
    BY <2>1, DroppedCounts
  <2>4. g.ref[o] = h.ref[o] - n
    BY Zenon, <2>1, <1>2, <1>7
  <2> HIDE DEF n
  <2>5. Refs(g, m, o) = Refs(h, m, o) - n /\ Refs(h, m, o) \in Nat /\ h.ref[o] \in Nat
    <3>1. Refs(g, m, o) = Cardinality(FromSlots(m, o)) + Cardinality(FromObjs(h, o) \ D)
      BY Zenon, <2>1, <1>13 DEF Refs
    <3>2. Refs(h, m, o) = Cardinality(FromSlots(m, o)) + Cardinality(FromObjs(h, o))
      BY Zenon DEF Refs
    <3>3. Cardinality(FromSlots(m, o)) \in Nat /\ h.ref[o] \in Nat
      BY Zenon, <2>1, <1>0, RefsFinite, ShapeFields
    <3> QED BY <3>1, <3>2, <3>3, <2>3
  <2>6. ~g.marked \/ o \notin Old(g) => ~h.marked \/ o \notin Old(h)
    BY Zenon, <2>1, <1>3, <1>4 DEF Freed
  <2>7. g.ref[o] >= Refs(g, m, o)
    BY <2>2, <2>3, <2>4, <2>5
  <2>8. h.ref[o] = Refs(h, m, o) => g.ref[o] = Refs(g, m, o)
    BY Zenon, <2>4, <2>5
  <2> QED BY Zenon, <2>2, <2>6, <2>7, <2>8
<1>15. Settled(g, m)
  <2> SUFFICES ASSUME g.marked
               PROVE  /\ \A s \in Statics : m[s] \in Old(g) \cup {NoObj}
                      /\ \A o \in Old(g) : g.holds[o] \in Old(g) \cup {NoObj}
                      /\ \A o \in Old(g) :
                           \/ FromSlots(m, o) = {} /\ FromObjs(g, o) = {}
                           \/ \E s \in Statics : m[s] = o
                           \/ \E p \in Old(g) : g.holds[p] = o
    BY Zenon DEF Settled
  <2>1. h.marked /\ Old(g) = Old(h) /\ D \cap Old(h) = {}
    BY Zenon, <1>3, <1>4 DEF Freed, Closed
  <2>2. \A o \in Old(h) : o \in Objs /\ o # NoObj /\ g.holds[o] = h.holds[o]
    BY <2>1, <1>0, <1>1, <1>7, ObjectsTyped
  <2> QED BY <2>1, <2>2, <1>0, <1>13 DEF Settled
<1> QED BY Zenon, <1>8, <1>12, <1>14, <1>15 DEF Sound

-----------------------------------------------------------------------------
(* Scans.                                                                  *)

\* The heap, the slots and the free list in one.
Good(h, r, m) == Sound(h, r, m) /\ FreeListOK(h)

\* what a scan may do
Shrinks(h, g) ==
  /\ g.marked = h.marked /\ g.postMark = h.postMark
  /\ Allocated(g) \subseteq Allocated(h)
  /\ h.marked => Kept(h, g)

\* One scan after another is a scan.
LEMMA ShrinksTrans ==
  ASSUME NEW h, NEW g, NEW k, Shrinks(h, g), Shrinks(g, k)
  PROVE  Shrinks(h, k)
BY Zenon, KeptTrans DEF Shrinks

\* What is below the marks and what was allocated since Mark are disjoint and
\* together everything allocated.
LEMMA OldApart ==
  ASSUME NEW h, Layout(h)
  PROVE  /\ PostMarkObjs(h) \subseteq Allocated(h) /\ PostMarkObjs(h) \cap Old(h) = {}
         /\ h.post \subseteq Allocated(h) /\ h.post \cap Old(h) = {}
         /\ h.pre \subseteq Allocated(h)
         /\ Old(h) = Allocated(h) \ (PostMarkObjs(h) \cup h.post)
<1>0. Shape(h) /\ Unique(h) /\ h.pre \cap h.post = {}
  BY Zenon DEF Layout
<1>1. NoObj \notin PostMarkObjs(h) /\ NoObj \notin Old(h) /\ NoObj \notin h.post /\ Old(h) \subseteq Objs
  BY Zenon, <1>0, ObjectsTyped, ShapeFields, SizesAssumption
<1>2. ASSUME NEW o \in Old(h), o \in PostMarkObjs(h) PROVE FALSE
  <2>1. PICK c, x : Sits(h, c, x, o) /\ x >= h.chunk[c].mark
    BY Zenon, <1>0, <1>1, <1>2, ObjectsView
  <2>2. o \notin LargeObjs
    BY <2>1, <1>0, <1>1, SitsTyped
  <2>3. o \notin h.pre
    BY Zenon, <2>2, <1>0, ShapeFields
  <2>4. PICK d, y : Sits(h, d, y, o) /\ y < h.chunk[d].mark
    BY Zenon, <2>3, <1>0, <1>1, ObjectsView
  <2>5. c = d /\ x = y
    BY Zenon, <2>1, <2>4, <1>0, <1>1 DEF Unique
  <2>6. x \in Nat /\ h.chunk[c].mark \in Nat
    BY Zenon, <2>1, <1>0, SitsTyped, ShapeFields, ChunkFields DEF Sits
  <2> QED BY <2>1, <2>4, <2>5, <2>6
<1>3. ASSUME NEW o \in Old(h), o \in h.post PROVE FALSE
  <2>1. o \in LargeObjs /\ o \notin h.pre
    BY Zenon, <1>0, <1>3, ShapeFields
  <2>2. PICK d, y : Sits(h, d, y, o)
    BY Zenon, <2>1, <1>0, <1>1, ObjectsView
  <2> QED BY <2>1, <2>2, <1>0, <1>1, SitsTyped
<1>4. h.post \subseteq Allocated(h) /\ h.pre \subseteq Allocated(h)
  BY Zenon DEF Allocated, Large
<1> QED BY Zenon, <1>0, <1>2, <1>3, <1>4, ObjectsTyped

\* nothing below a mark is freed when no old value is
LEMMA FreeKept ==
  ASSUME NEW h, Layout(h), NEW D \in SUBSET Objs, D \cap Old(h) = {},
         NEW ref \in [Objs -> Nat], NEW g, g = FreeWith(h, ref, D)
  PROVE  Kept(h, g)
<1>0. Shape(h) /\ Marks(h)
  BY Zenon DEF Layout
<1>1. FreeSpec(h, ref, D, g)
  BY Zenon, <1>0, FreeView
<1>2. g.atMark = h.atMark /\ Len(g.chunk) = Len(h.chunk) /\ g.pre = h.pre \ D
  BY Zenon, <1>1 DEF FreeSpec
<1>3. g.pre = h.pre
  BY Zenon, <1>2 DEF Old
<1>4. /\ DOMAIN h.chunk = 1..Len(h.chunk) /\ Len(h.chunk) \in Nat /\ h.atMark \in Nat
      /\ h.atMark <= Len(h.chunk)
  BY Zenon, <1>0, ShapeFields DEF Marks
<1>5. ASSUME NEW c \in 1..h.atMark
      PROVE  g.chunk[c].mark = h.chunk[c].mark /\ BelowMark(g.chunk[c]) = BelowMark(h.chunk[c])
  <2> DEFINE k == h.chunk[c]
             l == g.chunk[c]
  <2>1. c \in DOMAIN h.chunk /\ Tidy(k)
    BY <1>0, <1>4, ShapeFields
  <2>2. l = FreeIn(k, D)
    BY Zenon, <1>0, <2>1, FreeChunk
  <2>3. /\ l.mark = k.mark /\ DOMAIN l.at = DOMAIN k.at
        /\ \A x \in DOMAIN k.at : k.at[x].obj \notin D => l.at[x] = k.at[x]
    <3> HIDE DEF k, l
    <3> QED BY <2>1, <2>2, TidyFree
  <2>4. \A x \in DOMAIN k.at : x < k.mark => k.at[x].obj \notin D
    <3> SUFFICES ASSUME NEW x \in DOMAIN k.at, x < k.mark, k.at[x].obj \in D PROVE FALSE
      BY Zenon
    <3> DEFINE o == k.at[x].obj
    <3>1. o \in Objs /\ o # NoObj /\ Sits(h, c, x, o)
      BY Zenon, <2>1, SizesAssumption DEF Sits
    <3>2. o \in Old(h)
      BY Zenon, <3>1, <1>0, ObjectsView
    <3> QED BY Zenon, <3>2
  <2> HIDE DEF k, l
  <2>5. BelowMark(l) = BelowMark(k)
    BY Zenon, <2>3, <2>4 DEF BelowMark
  <2> QED BY Zenon, <2>3, <2>5 DEF k, l
<1> QED BY Zenon, <1>2, <1>3, <1>4, <1>5 DEF Kept

\* A scan deletes no value that is referred to, keeps the counts of the others
\* right, touches nothing old, and leaves no scanned value with count zero.
LEMMA DeleteGood ==
  ASSUME NEW h, NEW r, NEW m, Good(h, r, m), NEW scanned \in SUBSET Allocated(h),
         h.marked => scanned \cap Old(h) = {}
  PROVE  LET g == Delete(h, scanned)
         IN  /\ Good(g, r, m) /\ Shrinks(h, g)
             /\ g.using = h.using /\ Len(g.chunk) = Len(h.chunk) /\ g.cur = h.cur
             /\ ListOK(h) => ListOK(g)
             /\ PostMarkObjs(g) \subseteq PostMarkObjs(h)
             /\ \A o \in (scanned \cap Allocated(g)) \ RawObjs : g.ref[o] > 0
<1> DEFINE D == Doomed(h, scanned)
           g == Delete(h, scanned)
           ref == DeletedRef(h, D)
<1>0. Sound(h, r, m) /\ FreeListOK(h) /\ Layout(h) /\ Shape(h)
  BY Zenon DEF Good, Sound, Layout
<1>1. g = FreeWith(h, ref, D)
  BY Zenon, <1>0, DeleteIsFree
<1>2. /\ Closed(h, m, D) /\ Spread(h, D) = D
      /\ {o \in scanned \ RawObjs : h.ref[o] = 0} \subseteq D
  BY Zenon, <1>0, DoomedClosed
<1>3. D \in SUBSET Objs /\ (h.marked => D \cap Old(h) = {})
  BY Zenon, <1>0, <1>2, ObjectsTyped DEF Closed
<1> HIDE DEF D
<1>4. ref \in [Objs -> Nat] /\ \A o \in Objs : ref[o] = h.ref[o] - Cardinality(Pointers(h, D, o))
  BY Zenon, <1>0, <1>2, DroppedCounts DEF DeletedRef
<1>5. Sound(g, r, m)
  BY Zenon, <1>0, <1>1, <1>2, DeleteSound
<1> HIDE DEF ref, g
<1>6. ListOK(h) => ListOK(g)
  BY Zenon, <1>0, <1>1, <1>3, <1>4, FreeLists
<1>7. Freed(h, g, D)
  BY Zenon, <1>0, <1>1, <1>3, <1>4, FreeObjects
<1>8. FreeSpec(h, ref, D, g)
  BY Zenon, <1>0, <1>1, <1>3, <1>4, FreeView
<1>9. h.marked => Kept(h, g)
  BY Zenon, <1>0, <1>1, <1>3, <1>4, FreeKept
<1>10. Shrinks(h, g)
  BY Zenon, <1>7, <1>8, <1>9 DEF Shrinks, Freed, FreeSpec
<1>11. ASSUME NEW o \in (scanned \cap Allocated(g)) \ RawObjs PROVE g.ref[o] > 0
  <2>1. o \in Allocated(h) /\ o \in Objs \ D
    BY Zenon, <1>0, <1>7, ObjectsTyped DEF Freed
  <2>2. h.ref[o] # 0
    BY Zenon, <2>1, <1>2
  <2>3. g.ref[o] = h.ref[o] - Cardinality(Pointers(h, D, o))
    BY Zenon, <2>1, <1>4, <1>8 DEF FreeSpec
  <2> DEFINE n == Cardinality(Pointers(h, D, o))
  <2>4. n \in Nat /\ h.ref[o] - n \in Nat /\ (n = 0 <=> Pointers(h, D, o) = {}) /\ h.ref[o] \in Nat
    <3>1. h.ref[o] \in Nat
      BY Zenon, <2>1, <1>0, ShapeFields
    <3>2. n \in Nat /\ h.ref[o] - n \in Nat /\ (n = 0 <=> Pointers(h, D, o) = {})
      BY Zenon, <2>1, <1>0, <1>2, DroppedCounts
    <3> QED BY Zenon, <3>1, <3>2
  <2>5. ~LastReferences(h, D, o)
    BY Zenon, <2>1, <1>2 DEF Spread
  <2>6. n = 0 \/ h.ref[o] # n
    BY Zenon, <2>4, <2>5 DEF LastReferences
  <2> HIDE DEF n
  <2> QED BY <2>2, <2>3, <2>4, <2>6 DEF n
<1>12. /\ g.using = h.using /\ Len(g.chunk) = Len(h.chunk) /\ g.cur = h.cur
       /\ PostMarkObjs(g) \subseteq PostMarkObjs(h)
  BY Zenon, <1>7, <1>8 DEF Freed, FreeSpec
<1>13. FreeListOK(g)
  BY Zenon, <1>0, <1>6, <1>12 DEF FreeListOK
<1> QED BY Zenon, <1>5, <1>6, <1>10, <1>11, <1>12, <1>13 DEF Good, g

-----------------------------------------------------------------------------
(* Steps that change none of the blocks.                                   *)

Only(h, g) ==
  /\ Shape(g) /\ g.chunk = h.chunk /\ g.pre = h.pre /\ g.post = h.post /\ KeepsRest(h, g)
WithList(h, l) == [h EXCEPT !.list = l]

\* Another free list.
LEMMA SetList ==
  ASSUME NEW h, Shape(h), NEW l \in [0..NumBuckets - 1 -> Seq(Address)]
  PROVE  /\ Only(h, WithList(h, l)) /\ WithList(h, l).cur = h.cur
         /\ WithList(h, l).list = l /\ WithList(h, l).using = h.using
<1>1. h \in HeapType
  BY Zenon DEF Shape
<1> DEFINE g == WithList(h, l)
<1>2. /\ g \in HeapType /\ g.chunk = h.chunk /\ g.pre = h.pre /\ g.post = h.post /\ KeepsRest(h, g)
      /\ g.cur = h.cur /\ g.list = l /\ g.using = h.using
  BY Zenon, <1>1 DEF HeapType, WithList, KeepsRest
<1> HIDE DEF g
<1>3. Shape(g)
  BY Zenon, <1>2 DEF Shape
<1> QED BY Zenon, <1>2, <1>3 DEF Only, g

\* None of these moves or frees a block.
LEMMA OnlySound ==
  ASSUME NEW h, NEW g, NEW r, NEW m, Sound(h, r, m), Only(h, g), g.cur \in 1..Len(h.chunk)
  PROVE  /\ Sound(g, r, m) /\ Shrinks(h, g) /\ FreeBlocks(g) = FreeBlocks(h)
         /\ Allocated(g) = Allocated(h) /\ PostMarkObjs(g) = PostMarkObjs(h)
         /\ \A l, S : Listed(h, l, S) => Listed(g, l, S)
<1>0. Shape(h) /\ Layout(h) /\ Shape(g) /\ g.chunk = h.chunk /\ KeepsRest(h, g)
  BY Zenon DEF Sound, Layout, Only
<1>1. KeepsBlocks(h, g)
  <2>1. Len(h.chunk) \in Nat /\ DOMAIN h.chunk = 1..Len(h.chunk)
    BY Zenon, <1>0, ShapeFields
  <2> QED BY <1>0, <2>1, KeepsLiveRefl DEF KeepsBlocks, Only
<1>2. Sound(g, r, m)
  BY Zenon, <1>0, <1>1, KeepsSound
<1>3. Allocated(g) = Allocated(h) /\ PostMarkObjs(g) = PostMarkObjs(h)
  BY Zenon, <1>0, <1>1, KeepsView
<1>4. Kept(h, g)
  BY Zenon, <1>0, <1>1, KeepsKept
<1>5. \A p : BlockAt(g, p) = BlockAt(h, p) /\ AboveMark(g, p) = AboveMark(h, p)
  BY Zenon, <1>0 DEF BlockAt, AboveMark
<1>6. Blocks(g) = Blocks(h)
  BY Zenon, <1>0 DEF Blocks
<1>7. FreeBlocks(g) = FreeBlocks(h)
  BY <1>5, <1>6 DEF FreeBlocks
<1>8. \A l, S : Listed(h, l, S) => Listed(g, l, S)
  BY <1>5, <1>7 DEF Listed
<1> QED BY Zenon, <1>0, <1>2, <1>3, <1>4, <1>7, <1>8 DEF Shrinks, KeepsRest

\* FreeUnusedSmallBlocks
LEMMA SmallUnusedGood ==
  ASSUME NEW h, NEW r, NEW m, Good(h, r, m), NEW build \in BOOLEAN, NEW coalesce \in BOOLEAN
  PROVE  LET g == FreeUnusedSmallBlocks(h, build, coalesce)
         IN  /\ Good(g, r, m) /\ Shrinks(h, g)
             /\ Len(g.chunk) = Len(h.chunk) /\ g.cur = h.cur /\ g.using = h.using
             /\ coalesce => ListOK(g)
             /\ \A o \in PostMarkObjs(g) \ RawObjs : g.ref[o] > 0
<1> DEFINE d == Delete(h, PostMarkObjs(h))
           k == CoalesceAll(d)
           l == IF build THEN BuildFreeList(k) ELSE EmptyList
           g == FreeUnusedSmallBlocks(h, build, coalesce)
<1>0. Sound(h, r, m) /\ Layout(h)
  BY Zenon DEF Good, Sound
<1>1. PostMarkObjs(h) \in SUBSET Allocated(h) /\ PostMarkObjs(h) \cap Old(h) = {}
  BY Zenon, <1>0, OldApart
<1>2. /\ Good(d, r, m) /\ Shrinks(h, d) /\ d.using = h.using /\ Len(d.chunk) = Len(h.chunk)
      /\ d.cur = h.cur /\ PostMarkObjs(d) \subseteq PostMarkObjs(h)
      /\ \A o \in (PostMarkObjs(h) \cap Allocated(d)) \ RawObjs : d.ref[o] > 0
  BY Zenon, <1>1, DeleteGood
<1> HIDE DEF d
<1>3. Sound(d, r, m) /\ Layout(d) /\ Shape(d)
  BY Zenon, <1>2 DEF Good, Sound, Layout
<1>4. \A o \in PostMarkObjs(d) \ RawObjs : d.ref[o] > 0
  BY Zenon, <1>2, <1>3, ObjectsTyped
<1>5. CASE ~coalesce
  <2>1. g = d
    BY Zenon, <1>5 DEF FreeUnusedSmallBlocks, d
  <2> HIDE DEF g
  <2> QED BY Zenon, <1>2, <1>4, <1>5, <2>1 DEF g
<1>6. CASE coalesce
  <2>1. g = WithList(k, l)
    BY Zenon, <1>6 DEF FreeUnusedSmallBlocks, WithList, d
  <2>2. /\ Shape(k) /\ KeepsBlocks(d, k) /\ KeepsRest(d, k)
        /\ k.cur = d.cur /\ k.using = d.using /\ k.list = d.list /\ Len(k.chunk) = Len(d.chunk)
    BY Zenon, <1>3, CoalesceAllKeeps
  <2> HIDE DEF k
  <2>3. k.cur \in 1..Len(k.chunk)
    BY Zenon, <1>3, <2>2 DEF Layout
  <2>4. Sound(k, r, m)
    BY Zenon, <1>3, <2>2, <2>3, KeepsSound
  <2>5. PostMarkObjs(k) = PostMarkObjs(d) /\ Allocated(k) = Allocated(d)
    BY Zenon, <1>3, <2>2, KeepsView
  <2>6. Shrinks(d, k)
    BY Zenon, <1>3, <2>2, <2>5, KeepsKept DEF Shrinks, KeepsRest
  <2>7. Listed(k, l, FreeBlocks(k))
    BY Zenon, <2>2, BuildListed, ListedEmpty
  <2>8. l \in [0..NumBuckets - 1 -> Seq(Address)]
    BY Zenon, <2>7 DEF Listed
  <2> HIDE DEF l, g
  <2>9. Only(k, g) /\ g.cur = k.cur /\ g.list = l /\ g.using = k.using
    BY Zenon, <2>1, <2>2, <2>8, SetList
  <2>10. /\ Sound(g, r, m) /\ Shrinks(k, g) /\ FreeBlocks(g) = FreeBlocks(k)
         /\ PostMarkObjs(g) = PostMarkObjs(k)
    BY Zenon, <2>3, <2>4, <2>9, OnlySound
  <2>11. Listed(g, l, FreeBlocks(k))
    BY Zenon, <2>3, <2>4, <2>7, <2>9, OnlySound
  <2>12. Good(g, r, m) /\ ListOK(g)
    BY Zenon, <2>9, <2>10, <2>11 DEF Good, FreeListOK, ListOK
  <2>13. Shrinks(h, g)
    BY Zenon, <1>2, <2>6, <2>10, ShrinksTrans
  <2>14. g.ref = d.ref /\ PostMarkObjs(g) = PostMarkObjs(d) /\ Len(g.chunk) = Len(h.chunk)
         /\ g.cur = h.cur /\ g.using = h.using
    BY Zenon, <1>2, <2>2, <2>5, <2>9, <2>10 DEF Only, KeepsRest
  <2> QED BY Zenon, <1>4, <2>12, <2>13, <2>14 DEF g
<1> QED BY Zenon, <1>5, <1>6

\* FreeUnusedLargeBlocks, while a program runs or before the first Mark
LEMMA LargeUnusedGood ==
  ASSUME NEW h, NEW r, NEW m, Good(h, r, m), h.postMark \/ ~h.marked
  PROVE  LET g == FreeUnusedLargeBlocks(h)
         IN  /\ Good(g, r, m) /\ Shrinks(h, g)
             /\ Len(g.chunk) = Len(h.chunk) /\ g.cur = h.cur /\ g.using = h.using
             /\ ListOK(h) => ListOK(g)
<1> DEFINE scanned == IF h.postMark THEN h.post ELSE h.pre
           g == FreeUnusedLargeBlocks(h)
<1>0. Layout(h)
  BY Zenon DEF Good, Sound
<1>1. scanned \in SUBSET Allocated(h) /\ (h.marked => scanned \cap Old(h) = {})
  BY Zenon, <1>0, OldApart
<1>2. g = Delete(h, scanned)
  BY Zenon DEF FreeUnusedLargeBlocks
<1> HIDE DEF scanned, g
<1>3. /\ Good(g, r, m) /\ Shrinks(h, g) /\ Len(g.chunk) = Len(h.chunk) /\ g.cur = h.cur
      /\ g.using = h.using /\ (ListOK(h) => ListOK(g))
  BY Zenon, <1>1, <1>2, DeleteGood
<1> QED BY Zenon, <1>3 DEF g

-----------------------------------------------------------------------------
(* Allocation.                                                             *)

\* g is h with object o in addition
Adds(h, g, o) ==
  /\ Layout(g)
  /\ Allocated(g) = Allocated(h) \cup {o}
  /\ h.marked => Old(g) = Old(h) /\ Kept(h, g)
  /\ \A p, q : q # NoObj /\ Target(h, p) = q => Target(g, p) = q
  /\ PointerTo(g, o) \in Pointer /\ Target(g, PointerTo(g, o)) = o
  /\ KeepsRest(h, g)

\* what Memory::Alloc does: object o is added and the free list stays sound
Makes(h, g, o) == Adds(h, g, o) /\ FreeListOK(g)

\* A slot is static or local, never both.
LEMMA SlotsTyped ==
  /\ Statics \subseteq Slots /\ Locals \subseteq Slots
  /\ \A s \in Slots : s \in Statics \/ s \in Locals
  /\ \A s \in Statics : s \notin Locals
BY Zenon, SizesAssumption DEF Slots
=============================================================================
