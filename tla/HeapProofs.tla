----------------------------- MODULE HeapProofs -----------------------------
(***************************************************************************)
(* The inductive invariant of the heap of a Proc, which every step keeps,  *)
(* and the theorems about it.                                              *)
(***************************************************************************)
EXTENDS HeapAllocProofs, HeapStoreProofs, HeapMarkProofs

\* A collection is only asked for while a program runs, and after Release the
\* heap is where Mark expects it.
Resting ==
  /\ inEngine \in BOOLEAN /\ stop \in BOOLEAN
  /\ stop => inEngine /\ Running
  /\ heap.marked /\ ~heap.postMark =>
       /\ heap.cur = 1 /\ heap.post = {} /\ heap.chunk[1].top = heap.chunk[1].mark

\* The inductive invariant.
HInv == Good(heap, root, means) /\ Resting

\* what every step does to the heap and the slots
Preserves == Good(heap', root', means') /\ (heap.marked => Kept(heap, heap'))
SamePhase == heap'.marked = heap.marked /\ heap'.postMark = heap.postMark

\* The Memory of a new Proc.
LEMMA InitGood ==
  ASSUME Init
  PROVE  HInv
<1>1. Tidy(NewChunk) /\ NewChunk \in ChunkType /\ DOMAIN NewChunk.at = {} /\ NewChunk.mark = 0
  <2>1. Tidy(NewChunk)
    BY Zenon, TidyNew
  <2>2. NewChunk \in ChunkType
    BY Zenon, <2>1 DEF Tidy
  <2> QED BY Zenon, <2>1, <2>2 DEF NewChunk
<1> DEFINE ch == <<NewChunk>>
<1>2. ch \in Seq(ChunkType) /\ Len(ch) = 1 /\ DOMAIN ch = 1..1 /\ ch[1] = NewChunk
  BY <1>1
<1> HIDE DEF ch
<1> DEFINE list == EmptyList
<1>3. list \in [0..NumBuckets - 1 -> Seq(Address)]
  BY DEF EmptyList
<1> HIDE DEF list
<1> DEFINE ref == [o \in Objs |-> 0]
           ptr == [o \in Objs |-> Null]
           holds == [o \in Objs |-> NoObj]
<1>4. /\ ref \in [Objs -> Nat] /\ ptr \in [Objs -> Pointer] /\ holds \in [Objs -> Object]
      /\ \A o \in Objs : ptr[o] = Null /\ holds[o] = NoObj
  BY Zenon DEF Pointer, Object
<1> HIDE DEF ref, ptr, holds
<1>5. heap = [chunk |-> ch, cur |-> 1, postMark |-> FALSE, marked |-> FALSE, atMark |-> 0,
              pre |-> {}, post |-> {}, list |-> list, using |-> FALSE,
              ref |-> ref, ptr |-> ptr, holds |-> holds]
  BY Zenon DEF Init, ch, list, ref, ptr, holds
<1>6. /\ heap \in HeapType /\ heap.chunk = ch /\ heap.cur = 1 /\ heap.postMark = FALSE
      /\ heap.marked = FALSE /\ heap.atMark = 0 /\ heap.pre = {} /\ heap.post = {}
      /\ heap.using = FALSE /\ heap.ptr = ptr /\ heap.holds = holds
  BY Zenon, <1>2, <1>3, <1>4, <1>5 DEF HeapType
<1>7. Shape(heap)
  BY <1>1, <1>2, <1>6 DEF Shape
<1>8. Unique(heap) /\ Marks(heap)
  <2>1. \A c, x, o : ~Sits(heap, c, x, o)
    BY <1>1, <1>2, <1>6 DEF Sits
  <2>2. Unique(heap)
    BY Zenon, <2>1 DEF Unique
  <2>3. Marks(heap)
    BY <1>1, <1>2, <1>6 DEF Marks
  <2> QED BY Zenon, <2>2, <2>3
<1>9. Layout(heap)
  BY <1>2, <1>6, <1>7, <1>8 DEF Layout
<1>10. Leads(heap, Null, NoObj)
  BY Zenon, <1>7, ObjectsTyped DEF Leads
<1>11. /\ root \in [Slots -> Pointer] /\ means \in [Slots -> Object]
       /\ \A s \in Slots : root[s] = Null /\ means[s] = NoObj
  BY Zenon DEF Init, Pointer, Object
<1>12. NoObj \notin RawObjs /\ RawObjs \subseteq Objs
  BY Zenon, SizesAssumption
<1>13. Pointing(heap, root, means)
  BY <1>4, <1>6, <1>10, <1>11, <1>12 DEF Pointing
<1>14. Allocated(heap) = {}
  <2>1. \A c, x, o : ~Sits(heap, c, x, o)
    BY <1>1, <1>2, <1>6 DEF Sits
  <2>2. Large(heap) = {} /\ NoObj \notin Allocated(heap)
    BY Zenon, <1>6, <1>7, ObjectsTyped DEF Large
  <2>3. \A o : o # NoObj => o \notin Allocated(heap)
    BY Zenon, <1>7, <2>1, <2>2, ObjectsView
  <2> QED BY Zenon, <2>2, <2>3
<1>15. Counting(heap, means) /\ Settled(heap, means) /\ FreeListOK(heap)
  BY Zenon, <1>6, <1>14 DEF Counting, Settled, FreeListOK
<1>16. Resting
  BY Zenon, <1>6 DEF Init, Resting
<1> QED BY <1>9, <1>13, <1>15, <1>16 DEF HInv, Good, Sound

\* After the first Mark the program writes local slots only.
LEMMA WritableSlots ==
  ASSUME NEW s \in Writable
  PROVE  s \in Slots /\ (heap.marked => s \in Locals)
BY Zenon DEF Writable, Slots

\* one more or one less reference
LEMMA RefRecounted ==
  ASSUME NEW h, Shape(h), NEW ref \in [Objs -> Nat]
  PROVE  Recounted(h, WithRef(h, ref)) /\ WithRef(h, ref).ref = ref
BY Zenon, SetRef DEF Recounted, SameBlocks

\* Memory::Alloc and the store of its result.
LEMMA NewGood ==
  ASSUME HInv, NEW s \in Slots, NEW o \in Objs, New(s, o)
  PROVE  Preserves /\ SamePhase /\ UNCHANGED inEngine /\ (stop' => stop \/ inEngine) /\ stop' \in BOOLEAN
<1>0. Good(heap, root, means) /\ Running /\ root[s] = Null /\ o \notin Allocated(heap)
      /\ (heap.marked => s \in Locals)
  BY Zenon, WritableSlots DEF HInv, New
<1>1. PICK g : From(heap, root, means, g, o) /\ Store(heap, g, s, o)
  <2>1. CASE o \notin LargeObjs
    <3>1. PICK size \in SmallSizes : \E g \in SmallAlloc(heap, size, o) : Store(heap, g, s, o)
      BY Zenon, <2>1 DEF New
    <3>2. PICK g \in SmallAlloc(heap, size, o) : Store(heap, g, s, o)
      BY Zenon, <3>1
    <3>3. From(heap, root, means, g, o)
      BY Zenon, <1>0, <2>1, FromSmall DEF Running
    <3> QED BY Zenon, <3>2, <3>3
  <2>2. CASE o \in LargeObjs
    <3>2. PICK g \in LargeAlloc(heap, o) : Store(heap, g, s, o)
      BY Zenon, <2>2 DEF New
    <3>3. From(heap, root, means, g, o)
      BY Zenon, <1>0, <2>2, FromLarge DEF Running
    <3> QED BY Zenon, <3>2, <3>3
  <2> QED BY Zenon, <2>1, <2>2
<1>2. PICK k : Good(k, root, means) /\ Shrinks(heap, k) /\ o \notin Allocated(k) /\ Makes(k, g, o)
  BY Zenon, <1>1 DEF From
<1>3. k.marked = heap.marked /\ k.postMark = heap.postMark /\ (heap.marked => Kept(heap, k))
  BY Zenon, <1>2 DEF Shrinks
<1>4. Layout(g) /\ KeepsRest(k, g) /\ (k.marked => Kept(k, g))
  BY Zenon, <1>2 DEF Makes, Adds
<1>5. g \in HeapType /\ Shape(g)
  BY Zenon, <1>4 DEF Layout, Shape
<1> DEFINE ref == [g.ref EXCEPT ![o] = 1]
<1>6. heap' = WithRef(g, ref)
  BY Zenon, <1>1 DEF Store, WithRef
<1>7. root' = [root EXCEPT ![s] = PointerTo(g, o)] /\ means' = [means EXCEPT ![s] = o]
  BY Zenon, <1>1 DEF Store
<1>8. Good(heap', root', means') /\ SameBlocks(g, heap')
  <2>1. k.marked => s \in Locals
    BY Zenon, <1>0, <1>3
  <2>2. Stores(g, heap', root, root', means, means', s, o)
    BY Zenon, <1>6, <1>7 DEF Stores
  <2> HIDE DEF ref
  <2> QED BY Zenon, <1>0, <1>2, <2>1, <2>2, StoreGood
<1>9. SamePhase
  BY Zenon, <1>3, <1>4, <1>8 DEF SamePhase, KeepsRest, SameBlocks
<1>10. heap.marked => Kept(heap, heap')
  <2> SUFFICES ASSUME heap.marked PROVE Kept(heap, heap')
    BY Zenon
  <2>1. Shape(heap')
    BY Zenon, <1>8 DEF Good, Sound, Layout
  <2>2. Kept(g, heap')
    BY Zenon, <1>4, <1>8, <2>1, SameBlocksView
  <2> QED BY Zenon, <1>3, <1>4, <2>2, KeptTrans
<1>11. UNCHANGED inEngine /\ (stop' => stop \/ inEngine) /\ stop' \in BOOLEAN
  BY Zenon, <1>1 DEF Store
<1> QED BY Zenon, <1>8, <1>9, <1>10, <1>11 DEF Preserves

\* dec_ref or FREE.
LEMMA DropGood ==
  ASSUME HInv, NEW s \in Slots, Drop(s)
  PROVE  Preserves /\ SamePhase /\ UNCHANGED <<inEngine, stop>>
<1> DEFINE o == means[s]
<1>0. /\ Good(heap, root, means) /\ Sound(heap, root, means) /\ Layout(heap) /\ Shape(heap)
      /\ heap \in HeapType /\ root[s] # Null /\ (heap.marked => s \in Locals)
  BY Zenon, WritableSlots DEF HInv, Drop, Good, Sound, Layout, Shape
<1>1. Target(heap, root[s]) = o /\ o # NoObj /\ o \in Objs /\ o \in Allocated(heap) /\ s \in FromSlots(means, o)
  BY Zenon, <1>0, SlotObject
<1>2. /\ root' = [root EXCEPT ![s] = Null] /\ means' = [means EXCEPT ![s] = NoObj]
      /\ UNCHANGED <<inEngine, stop>>
  BY Zenon DEF Drop
<1>3. heap' = IF o \in RawObjs THEN Free(heap, {o}) ELSE [heap EXCEPT !.ref[o] = @ - 1]
  BY Zenon, <1>1 DEF Drop
<1>4. CASE o \in RawObjs
  <2>1. heap' = Free(heap, {o})
    BY Zenon, <1>3, <1>4
  <2>3. Clears(root, root', means, means', s)
    BY Zenon, <1>2 DEF Clears
  <2>2. /\ Good(Free(heap, {means[s]}), root', means')
        /\ (heap.marked => Kept(heap, Free(heap, {means[s]})))
        /\ Free(heap, {means[s]}).marked = heap.marked
        /\ Free(heap, {means[s]}).postMark = heap.postMark
    BY <1>0, <2>3, <1>4, FreeRawGood
  <2> QED BY Zenon, <1>2, <2>1, <2>2 DEF Preserves, SamePhase
<1>5. CASE o \notin RawObjs
  <2> DEFINE ref == [heap.ref EXCEPT ![o] = @ - 1]
  <2>1. heap.ref \in [Objs -> Nat]
    BY Zenon, <1>0, ShapeFields
  <2>2. heap.ref[o] >= 1
    <3>1. heap.ref[o] >= Refs(heap, means, o)
      BY Zenon, <1>0, <1>1, <1>5 DEF Sound, Counting
    <3>2. /\ IsFiniteSet(FromSlots(means, o)) /\ IsFiniteSet(FromObjs(heap, o))
          /\ Cardinality(FromSlots(means, o)) \in Nat /\ Cardinality(FromObjs(heap, o)) \in Nat
      BY Zenon, RefsFinite
    <3>3. Cardinality(FromSlots(means, o)) # 0
      BY Zenon, <1>1, <3>2, FS_EmptySet
    <3> QED BY <1>1, <2>1, <3>1, <3>2, <3>3 DEF Refs
  <2>3. ref \in [Objs -> Nat] /\ ref[o] = heap.ref[o] - 1 /\ \A p \in Objs : p # o => ref[p] = heap.ref[p]
    BY <1>1, <2>1, <2>2
  <2>4. heap' = WithRef(heap, ref)
    BY Zenon, <1>3, <1>5 DEF WithRef
  <2> HIDE DEF ref
  <2>5. Recounted(heap, heap') /\ heap'.ref = ref
    BY Zenon, <1>0, <2>3, <2>4, RefRecounted
  <2>6. Good(heap', root', means') /\ Kept(heap, heap')
    <3>1. OneLess(heap, heap', means[s])
      BY Zenon, <2>3, <2>5 DEF OneLess
    <3>2. Clears(root, root', means, means', s)
      BY Zenon, <1>2 DEF Clears
    <3> QED BY Zenon, <1>0, <3>1, <3>2, ClearGood
  <2>7. SamePhase
    BY Zenon, <2>5 DEF SamePhase, Recounted, SameBlocks
  <2> QED BY Zenon, <1>2, <2>6, <2>7 DEF Preserves
<1> QED BY Zenon, <1>4, <1>5

\* inc_ref and the store in another slot.
LEMMA CopiesGood ==
  ASSUME HInv, NEW s \in Slots, NEW t \in Slots, Copy(s, t)
  PROVE  Preserves /\ SamePhase /\ UNCHANGED <<inEngine, stop>>
<1> DEFINE o == means[s]
<1>0. /\ Good(heap, root, means) /\ Sound(heap, root, means) /\ Layout(heap) /\ Shape(heap)
      /\ heap \in HeapType /\ root[s] # Null /\ root[t] = Null /\ (heap.marked => t \in Locals)
  BY Zenon, WritableSlots DEF HInv, Copy, Good, Sound, Layout, Shape
<1>1. Target(heap, root[s]) = o /\ o # NoObj /\ o \in Objs
  BY <1>0, SlotObject
<1>2. /\ root' = [root EXCEPT ![t] = root[s]] /\ means' = [means EXCEPT ![t] = means[s]]
      /\ UNCHANGED <<inEngine, stop>>
  BY Zenon DEF Copy
<1>3. o \notin RawObjs /\ heap' = [heap EXCEPT !.ref[o] = @ + 1]
  BY Zenon, <1>1 DEF Copy
<1> DEFINE ref == [heap.ref EXCEPT ![o] = @ + 1]
<1>4. heap.ref \in [Objs -> Nat]
  BY Zenon, <1>0, ShapeFields
<1>5. ref \in [Objs -> Nat] /\ ref[o] = heap.ref[o] + 1 /\ \A p \in Objs : p # o => ref[p] = heap.ref[p]
  BY <1>1, <1>4
<1>6. heap' = WithRef(heap, ref)
  BY Zenon, <1>3 DEF WithRef
<1> HIDE DEF ref
<1>7. Recounted(heap, heap') /\ heap'.ref = ref
  BY Zenon, <1>0, <1>5, <1>6, RefRecounted
<1>8. Good(heap', root', means') /\ Kept(heap, heap')
  <2>1. OneMore(heap, heap', means[s])
    BY Zenon, <1>5, <1>7 DEF OneMore
  <2>2. Copies(root, root', means, means', s, t)
    BY Zenon, <1>2 DEF Copies
  <2> QED BY Zenon, <1>0, <1>3, <2>1, <2>2, CopyGood
<1>9. SamePhase
  BY Zenon, <1>7 DEF SamePhase, Recounted, SameBlocks
<1> QED BY Zenon, <1>2, <1>8, <1>9 DEF Preserves

\* A store in a value.
LEMMA SetElementGood ==
  ASSUME HInv, NEW s \in Slots, NEW t \in Slots, SetElement(s, t)
  PROVE  Preserves /\ SamePhase /\ UNCHANGED <<inEngine, stop>>
<1> DEFINE o == means[s]
           e == means[t]
<1>0. /\ Good(heap, root, means) /\ Sound(heap, root, means) /\ Layout(heap) /\ Shape(heap)
      /\ root[s] # Null /\ root[t] # Null /\ (heap.marked => s \in Locals)
  BY Zenon, WritableSlots DEF HInv, SetElement, Good, Sound, Layout
<1>1. Target(heap, root[s]) = o /\ o \in Objs /\ Target(heap, root[t]) = e /\ e \in Objs
  BY <1>0, SlotObject
<1>2. UNCHANGED <<root, means, inEngine, stop>>
  BY Zenon DEF SetElement
<1>3. /\ o # e /\ o \notin RawObjs /\ e \notin RawObjs /\ heap.ref[o] = 1 /\ heap.ptr[o] = Null
      /\ heap' = [heap EXCEPT !.ptr[o] = root[t], !.holds[o] = means[t], !.ref[e] = @ + 1]
  BY Zenon, <1>1 DEF SetElement
<1>4. root[t] \in Pointer
  BY Zenon, <1>0 DEF Sound, Pointing
<1>5. Sets(heap, heap', o, e, root[t])
  BY <1>0, <1>1, <1>3, <1>4, SetsElement
<1>6. Good(heap', root, means) /\ Kept(heap, heap')
  <2>1. ASSUME NEW n, Sets(heap, n, means[s], means[t], root[t])
        PROVE  Good(n, root, means) /\ Kept(heap, n)
    BY Zenon, <1>0, <1>3, <2>1, ElementGood
  <2> QED BY Zenon, <1>5, <2>1
<1>7. SamePhase
  BY Zenon, <1>5 DEF SamePhase, Sets, SameBlocks
<1> QED BY Zenon, <1>2, <1>6, <1>7 DEF Preserves

\* What a garbage collection does, as a step.
LEMMA CollectStep ==
  ASSUME HInv, Running, GarbageCollect(heap), UNCHANGED means
  PROVE  /\ Preserves /\ SamePhase /\ Len(heap'.chunk) = Len(heap.chunk)
         /\ FreeBlocks(heap') = {} /\ ~heap'.using
         /\ \A o \in PostMarkObjs(heap') \ RawObjs : heap'.ref[o] > 0
<1> DEFINE u == Unused(heap)
<1>1. heap' = [Slide(u) EXCEPT !.using = FALSE] /\ root' = [s \in Slots |-> AdjustPtr(u, root[s])]
  BY Zenon DEF GarbageCollect, AdjustRoots
<1>2. Good(heap, root, means) /\ (heap.postMark \/ ~heap.marked)
  BY Zenon DEF HInv, Running
<1>3. /\ Good(heap', root', means) /\ FreeBlocks(heap') = {} /\ ~heap'.using
      /\ Len(heap'.chunk) = Len(heap.chunk)
      /\ heap'.marked = heap.marked /\ heap'.postMark = heap.postMark
      /\ heap.marked => Kept(heap, heap')
      /\ \A o \in PostMarkObjs(heap') \ RawObjs : heap'.ref[o] > 0
  <2>1. Collects(u, heap', root, root')
    BY Zenon, <1>1 DEF Collects
  <2> QED BY Zenon, <1>2, <2>1, CollectGood
<1> QED BY Zenon, <1>3 DEF Preserves, SamePhase

\* GCTrigger::CheckForGC at the end of an instruction.
LEMMA EndInstrGood ==
  ASSUME HInv, EndInstr
  PROVE  Preserves /\ SamePhase /\ UNCHANGED inEngine /\ stop' = FALSE
<1>1. UNCHANGED <<means, inEngine>> /\ stop' = FALSE
  BY Zenon DEF EndInstr
<1>2. CASE stop
  <2>1. GarbageCollect(heap) /\ Running
    BY Zenon, <1>2 DEF EndInstr, HInv, Resting
  <2> QED BY Zenon, <1>1, <2>1, CollectStep
<1>3. CASE ~stop
  <2>1. UNCHANGED <<heap, root>>
    BY Zenon, <1>3 DEF EndInstr
  <2>2. Kept(heap, heap)
    BY Zenon, KeptRefl DEF HInv, Good, Sound
  <2> QED BY Zenon, <1>1, <2>1, <2>2 DEF Preserves, SamePhase, HInv
<1> QED BY Zenon, <1>2, <1>3

\* Memory::Mark, the first one and the later ones.
LEMMA MarkGood ==
  ASSUME HInv, Mark
  PROVE  Preserves /\ heap'.postMark = TRUE /\ UNCHANGED <<inEngine, stop>>
<1>0. /\ Good(heap, root, means) /\ ~heap.postMark /\ \A s \in Locals : root[s] = Null
      /\ UNCHANGED <<means, inEngine, stop>>
  BY Zenon DEF HInv, Mark
<1>1. CASE heap.marked
  <2>1. heap' = WithPostMark(heap, TRUE) /\ UNCHANGED root
    BY Zenon, <1>1 DEF Mark, WithPostMark
  <2>2. Good(heap', root, means) /\ Kept(heap, heap')
    BY <1>0, <1>1, <2>1, NextMarkGood
  <2>3. heap \in HeapType
    BY Zenon, <1>0 DEF Good, Sound, Layout, Shape
  <2>4. heap'.postMark = TRUE
    BY Zenon, <2>1, <2>3 DEF WithPostMark, HeapType
  <2> QED BY Zenon, <1>0, <2>1, <2>2, <2>4 DEF Preserves
<1>2. CASE ~heap.marked
  <2> DEFINE u == Unused(heap)
             k == [Slide(u) EXCEPT !.using = FALSE]
             q == [s \in Slots |-> AdjustPtr(u, root[s])]
  <2>1. /\ heap' = [[k EXCEPT !.atMark = Len(heap.chunk)] EXCEPT
                      !.chunk = [c \in DOMAIN k.chunk |-> SetMark(k.chunk[c])],
                      !.postMark = TRUE, !.marked = TRUE]
        /\ root' = q
    BY Zenon, <1>2 DEF Mark, AdjustRoots
  <2>2. /\ Good(k, q, means) /\ ~k.using /\ Len(k.chunk) = Len(heap.chunk) /\ k.marked = heap.marked
    <3>1. Collects(u, k, root, q)
      BY Zenon DEF Collects
    <3> HIDE DEF k, q
    <3> QED BY Zenon, <1>0, <1>2, <3>1, CollectGood
  <2>3. \A s \in Locals : q[s] = Null
    BY Zenon, <1>0, SlotsTyped DEF AdjustPtr
  <2> HIDE DEF k, q
  <2>4. k \in HeapType
    BY Zenon, <2>2 DEF Good, Sound, Layout, Shape
  <2>5. heap' = WithMarks(k, Len(k.chunk))
    BY Zenon, <2>1, <2>2 DEF WithMarks, MarkedChunks
  <2>6. Good(heap', root', means)
    BY <1>2, <2>1, <2>2, <2>3, <2>5, FirstMarkGood
  <2>7. heap'.postMark = TRUE
    BY Zenon, <2>4, <2>5 DEF WithMarks, HeapType
  <2> QED BY <1>0, <1>2, <2>6, <2>7 DEF Preserves
<1> QED BY Zenon, <1>1, <1>2

\* Memory::Release, as a step.
LEMMA ReleaseStep ==
  ASSUME HInv, Release
  PROVE  /\ Preserves /\ UNCHANGED <<inEngine, stop>> /\ ~heap'.postMark
         /\ heap'.cur = 1 /\ heap'.post = {} /\ heap'.chunk[1].top = heap'.chunk[1].mark
<1>0. Good(heap, root, means) /\ heap.postMark /\ UNCHANGED <<inEngine, stop>>
  BY Zenon DEF HInv, Release
<1> DEFINE k == Free(heap, PastMark(heap))
<1>1. heap' = Released(k, KeptChunks(heap))
  BY Zenon DEF Release, Released, ReleasedChunks, PastMark
<1>11. Releases(heap, heap')
  BY Zenon, <1>1 DEF Releases
<1> HIDE DEF k
<1>2. OnlyStatics(root, means, root', means')
  <2>1. root \in [Slots -> Pointer] /\ means \in [Slots -> Object]
    BY Zenon, <1>0 DEF Good, Sound, Pointing
  <2>2. /\ root' = [s \in Slots |-> IF s \in Locals THEN Null ELSE root[s]]
        /\ means' = [s \in Slots |-> IF s \in Locals THEN NoObj ELSE means[s]]
    BY Zenon DEF Release
  <2>3. /\ \A s \in Locals : root'[s] = Null /\ means'[s] = NoObj
        /\ \A s \in Statics : root'[s] = root[s] /\ means'[s] = means[s]
    BY Zenon, <2>2, SlotsTyped
  <2>4. root' \in [Slots -> Pointer] /\ means' \in [Slots -> Object]
    BY Zenon, <2>1, <2>2 DEF Pointer, Object
  <2> QED BY Zenon, <2>3, <2>4 DEF OnlyStatics
<1>3. /\ Good(heap', root', means') /\ Kept(heap, heap') /\ heap'.marked /\ ~heap'.postMark
      /\ heap'.cur = 1 /\ heap'.post = {} /\ heap'.chunk[1].top = heap'.chunk[1].mark
  BY Zenon, <1>0, <1>11, <1>2, ReleaseGood
<1> QED BY Zenon, <1>0, <1>3 DEF Preserves

\* a step that leaves the heap and the slots alone
LEMMA IdleGood ==
  ASSUME HInv, UNCHANGED <<heap, root, means>>
  PROVE  Preserves /\ SamePhase
<1>1. Kept(heap, heap)
  BY Zenon, KeptRefl DEF HInv, Good, Sound
<1> QED BY Zenon, <1>1 DEF Preserves, SamePhase, HInv

-----------------------------------------------------------------------------
(* The inductive invariant and what follows from it.                       *)

\* A step between Mark and Release, or before the first Mark, leaves the rest of
\* the invariant alone.
LEMMA RunningAhead ==
  ASSUME HInv, SamePhase, Running, UNCHANGED inEngine, stop' \in BOOLEAN, stop' => stop \/ inEngine
  PROVE  Resting'
<1>1. Running' /\ ~(heap'.marked /\ ~heap'.postMark)
  BY Zenon DEF SamePhase, Running
<1>2. inEngine' \in BOOLEAN /\ (stop' => inEngine')
  BY Zenon DEF HInv, Resting
<1> QED BY Zenon, <1>1, <1>2 DEF Resting

\* every step of the heap keeps it good and keeps what is below the marks
LEMMA StepGood ==
  ASSUME HInv, [Next]_vars
  PROVE  HInv' /\ (heap.marked => Kept(heap, heap'))
<1>0. stop \in BOOLEAN /\ inEngine \in BOOLEAN
  BY Zenon DEF HInv, Resting
<1> SUFFICES Preserves /\ Resting'
  BY Zenon DEF Preserves, HInv
<1>1. ASSUME NEW s \in Slots, NEW o \in Objs, New(s, o) PROVE Preserves /\ Resting'
  <2>1. Running
    BY Zenon, <1>1 DEF New
  <2> QED BY <1>1, <2>1, NewGood, RunningAhead
<1>2. ASSUME NEW s \in Slots, Drop(s) PROVE Preserves /\ Resting'
  <2>1. Running
    BY Zenon, <1>2 DEF Drop
  <2> QED BY <1>0, <1>2, <2>1, DropGood, RunningAhead
<1>3. ASSUME NEW s \in Slots, NEW t \in Slots, Copy(s, t) PROVE Preserves /\ Resting'
  <2>1. Running
    BY Zenon, <1>3 DEF Copy
  <2> QED BY Zenon, <1>0, <1>3, <2>1, CopiesGood, RunningAhead
<1>4. ASSUME NEW s \in Slots, NEW t \in Slots, SetElement(s, t) PROVE Preserves /\ Resting'
  <2>1. Running
    BY Zenon, <1>4 DEF SetElement
  <2> QED BY <1>0, <1>4, <2>1, SetElementGood, RunningAhead
<1>5. CASE Enter
  <2>1. UNCHANGED <<heap, root, means, stop>> /\ inEngine' = TRUE
    BY Zenon, <1>5 DEF Enter
  <2>2. Resting'
    BY Zenon, <2>1 DEF HInv, Resting, Running
  <2> QED BY Zenon, <2>1, <2>2, IdleGood
<1>6. CASE EndInstr
  <2>1. Preserves /\ SamePhase /\ UNCHANGED inEngine /\ stop' = FALSE
    BY Zenon, <1>6, EndInstrGood
  <2>2. Running \/ UNCHANGED heap
    BY Zenon, <1>6 DEF EndInstr, HInv, Resting
  <2>3. CASE Running
    BY Zenon, <2>1, <2>3, RunningAhead
  <2>4. CASE UNCHANGED heap
    BY Zenon, <2>1, <2>4 DEF HInv, Resting
  <2> QED BY Zenon, <2>1, <2>2, <2>3, <2>4
<1>7. CASE Leave
  <2>1. UNCHANGED <<heap, root, means>> /\ inEngine' = FALSE /\ stop' = FALSE
    BY Zenon, <1>7 DEF Leave
  <2>2. Resting'
    BY Zenon, <2>1 DEF HInv, Resting
  <2> QED BY Zenon, <2>1, <2>2, IdleGood
<1>8. CASE Mark
  <2>1. Preserves /\ heap'.postMark = TRUE /\ UNCHANGED <<inEngine, stop>>
    BY Zenon, <1>8, MarkGood
  <2>2. Resting'
    BY <1>8, <2>1 DEF HInv, Resting, Running, Mark
  <2> QED BY Zenon, <2>1, <2>2
<1>9. CASE Release
  <2>1. /\ Preserves /\ UNCHANGED <<inEngine, stop>>
        /\ heap'.cur = 1 /\ heap'.post = {} /\ heap'.chunk[1].top = heap'.chunk[1].mark
    BY Zenon, <1>9, ReleaseStep
  <2>2. Resting'
    <3>1. ~inEngine' /\ ~stop' /\ inEngine' \in BOOLEAN /\ stop' \in BOOLEAN
      BY <1>9, <2>1 DEF HInv, Resting, Release
    <3> QED BY Zenon, <2>1, <3>1 DEF Resting
  <2> QED BY Zenon, <2>1, <2>2
<1>10. CASE UNCHANGED vars
  <2>1. UNCHANGED <<heap, root, means>> /\ Resting'
    BY Zenon, <1>10 DEF vars, HInv, Resting, Running
  <2> QED BY Zenon, <2>1, IdleGood
<1> QED BY <1>1, <1>2, <1>3, <1>4, <1>5, <1>6, <1>7, <1>8, <1>9, <1>10 DEF Next

\* The heap of a Proc is good in every state: its blocks are tidy and disjoint,
\* pointers lead where they were set, counts cover the references, nothing old
\* refers to anything newer, and Mark finds what Release left.
THEOREM HeapInvariant == Spec => []HInv
<1>1. Init => HInv
  BY Zenon, InitGood
<1>2. HInv /\ [Next]_vars => HInv'
  BY Zenon, StepGood
<1> QED BY <1>1, <1>2, PTL DEF Spec

\* Mark's CHECKs never fail: when a run starts after an earlier one was
\* released, memory.cc finds the first chunk allocating, at its mark, and no
\* large block of the earlier run, whatever that run allocated, freed, moved
\* or left behind.
THEOREM MarkChecksAlways == Spec => []MarkChecksHold
<1>1. HInv => MarkChecksHold
  BY Zenon DEF HInv, Resting, MarkChecksHold
<1> QED BY <1>1, HeapInvariant, PTL

\* No pointer a program can still use dangles: frames and values lead to the
\* object they were set to through every scan, reuse of a free block,
\* compaction (CompactSmallBlocks with AdjustPtr) and Release.
THEOREM PointersValidAlways == Spec => []PointersValid
<1>1. HInv => PointersValid
  <2> SUFFICES ASSUME HInv PROVE PointersValid
    BY Zenon
  <2>1. Pointing(heap, root, means) /\ Shape(heap)
    BY Zenon DEF HInv, Good, Sound, Layout
  <2>2. /\ \A s \in Slots : Leads(heap, root[s], means[s])
        /\ \A o \in Objs : Leads(heap, heap.ptr[o], heap.holds[o])
    BY Zenon, <2>1 DEF Pointing
  <2>3. Allocated(heap) \subseteq Objs
    BY Zenon, <2>1, ObjectsTyped
  <2> QED BY Zenon, <2>2, <2>3 DEF PointersValid, Leads
<1> QED BY <1>1, HeapInvariant, PTL

\* Reference counts never fall below the number of references, and are exact
\* for what was allocated since Mark: val.h's counting survives the deletions
\* of the scans and the references that Release forgets.
THEOREM RefCountsAlways == Spec => []RefCountsCover
<1>1. HInv => RefCountsCover
  <2> SUFFICES ASSUME HInv, NEW o \in Allocated(heap) \ RawObjs
               PROVE  /\ heap.ref[o] >= References(o)
                      /\ ~heap.marked \/ o \in PostMarkObjs(heap) \cup heap.post
                           => heap.ref[o] = References(o)
    BY Zenon DEF RefCountsCover
  <2>1. Pointing(heap, root, means) /\ Layout(heap) /\ Shape(heap) /\ Counting(heap, means)
    BY Zenon DEF HInv, Good, Sound, Layout
  <2>2. Allocated(heap) \subseteq Objs /\ NoObj \notin Allocated(heap)
    BY Zenon, <2>1, ObjectsTyped
  <2>3. {p \in Allocated(heap) : heap.holds[p] = o} = FromObjs(heap, o)
    <3>1. \A p \in Objs \ Allocated(heap) : heap.holds[p] # o
      BY Zenon, <2>1, <2>2 DEF Pointing
    <3> QED BY <2>2, <3>1 DEF FromObjs
  <2>4. References(o) = Refs(heap, means, o)
    BY Zenon, <2>3 DEF References, Refs, FromSlots
  <2>5. o \in PostMarkObjs(heap) \cup heap.post => o \notin Old(heap)
    BY Zenon, <2>1, OldApart
  <2> QED BY Zenon, <2>1, <2>4, <2>5 DEF Counting
<1> QED BY <1>1, HeapInvariant, PTL

\* The free list never offers a block twice, an allocated block, one below a
\* mark or one in the list of another size: every entry stays a free block of
\* a chunk that exists while allocations cut blocks and scans rebuild the list.
THEOREM FreeListAlways == Spec => []FreeListSound
<1>1. HInv => FreeListSound
  <2>1. HInv => FreeListOK(heap)
    BY Zenon DEF HInv, Good
  <2>2. FreeListOK(heap) => FreeListSound
    <3> DEFINE entry == UNION {{<<n, i>> : i \in DOMAIN heap.list[n]} : n \in 0..NumBuckets - 1}
               at(e) == heap.list[e[1]][e[2]]
    <3> SUFFICES ASSUME ListOK(heap)
                 PROVE  /\ \A e \in entry : at(e) \in FreeBlocks(heap) /\ bits(BlockAt(heap, at(e)).size) = e[1]
                        /\ \A e, f \in entry : at(e) = at(f) => e = f
      BY Zenon DEF FreeListOK, FreeListSound
    <3>1. \A e \in entry : \E n \in 0..NumBuckets - 1 : \E i \in DOMAIN heap.list[n] : e = <<n, i>>
      BY Zenon
    <3> HIDE DEF entry
    <3>2. ASSUME NEW e \in entry
          PROVE  at(e) \in FreeBlocks(heap) /\ bits(BlockAt(heap, at(e)).size) = e[1]
      <4>1. PICK n \in 0..NumBuckets - 1 : \E i \in DOMAIN heap.list[n] : e = <<n, i>>
        BY Zenon, <3>1, <3>2
      <4>2. PICK i \in DOMAIN heap.list[n] : e = <<n, i>>
        BY Zenon, <4>1
      <4>3. e[1] = n /\ e[2] = i
        BY Zenon, <4>2
      <4> QED BY Zenon, <4>2, <4>3 DEF ListOK, Listed
    <3>3. ASSUME NEW e \in entry, NEW f \in entry, at(e) = at(f) PROVE e = f
      <4>1. PICK n \in 0..NumBuckets - 1 : \E i \in DOMAIN heap.list[n] : e = <<n, i>>
        BY Zenon, <3>1, <3>3
      <4>2. PICK m \in 0..NumBuckets - 1 : \E j \in DOMAIN heap.list[m] : f = <<m, j>>
        BY Zenon, <3>1, <3>3
      <4>3. PICK i \in DOMAIN heap.list[n] : e = <<n, i>>
        BY Zenon, <4>1
      <4>4. PICK j \in DOMAIN heap.list[m] : f = <<m, j>>
        BY Zenon, <4>2
      <4>5. heap.list[n][i] = heap.list[m][j]
        BY Zenon, <3>3, <4>3, <4>4
      <4> QED BY <4>3, <4>4, <4>5 DEF ListOK, Listed
    <3> QED BY Zenon, <3>2, <3>3
  <2> QED BY Zenon, <2>1, <2>2
<1> QED BY <1>1, HeapInvariant, PTL

\* From the first Mark on nothing below the marks moves, is freed or is split
\* by any step: the static variables of a Proc survive every run.
THEOREM PremarkKeptAlways == Spec => PremarkKept
<1>1. HInv /\ [Next]_vars =>
        [heap.marked =>
           /\ heap'.atMark = heap.atMark /\ Len(heap'.chunk) >= heap.atMark
           /\ heap'.pre = heap.pre
           /\ \A c \in 1..heap.atMark :
                /\ heap'.chunk[c].mark = heap.chunk[c].mark
                /\ BelowMark(heap'.chunk[c]) = BelowMark(heap.chunk[c])]_vars
  BY Zenon, StepGood DEF Kept
<1> QED BY <1>1, HeapInvariant, PTL DEF Spec, PremarkKept

\* A collection that the interpreter runs between two instructions leaves no
\* hole above the marks, stops the use of the free list and leaves no counted
\* small value without a reference (GCTrigger::CheckForGC).
THEOREM CollectionCompleteAlways == Spec => CollectionComplete
<1>1. HInv /\ [Next]_vars =>
        [stop /\ inEngine /\ EndInstr =>
           /\ FreeBlocks(heap') = {} /\ ~heap'.using
           /\ \A o \in PostMarkObjs(heap') \ RawObjs : heap'.ref[o] > 0]_vars
  <2> SUFFICES ASSUME HInv, stop, EndInstr
               PROVE  /\ FreeBlocks(heap') = {} /\ ~heap'.using
                      /\ \A o \in PostMarkObjs(heap') \ RawObjs : heap'.ref[o] > 0
    BY Zenon
  <2>1. GarbageCollect(heap) /\ Running /\ UNCHANGED means
    BY Zenon DEF EndInstr, HInv, Resting
  <2> QED BY Zenon, <2>1, CollectStep
<1> QED BY <1>1, HeapInvariant, PTL DEF Spec, CollectionComplete
=============================================================================
