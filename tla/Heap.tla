-------------------------------- MODULE Heap --------------------------------
(***************************************************************************)
(* The heap of one Proc: sawzall::Memory (src/src/engine/memory.cc), its   *)
(* GCTrigger (src/src/engine/gctrigger.cc) and the reference counts of the *)
(* values it holds (src/src/engine/val.h).                                 *)
(*                                                                         *)
(* A chunk maps the offset of each block between its data() and its top(), *)
(* free ones included, to the block; its mark and its top are offsets too. *)
(* A small pointer is a chunk number and an offset, a large one (malloc)   *)
(* is the object itself: malloc never moves a block.  An object holds at   *)
(* most one pointer to another one.  What the code compares with           *)
(* VirtualProcessSize(), which only the operating system knows, is a       *)
(* choice: whether the GC threshold is passed, whether enough was allocated*)
(* since the last scan, and whether a scan found enough to coalesce.       *)
(***************************************************************************)
EXTENDS Integers, Sequences, FiniteSets, FiniteSetsExt

CONSTANTS
  Objs,       \* names of values and other allocated data
  LargeObjs,  \* those too large for a chunk
  RawObjs,    \* those allocated without a reference count
  Statics,    \* slots of the static frame, written before the first Mark only
  Locals,     \* slots of the other frames, inputs and trap messages
  NoObj,      \* the content of a free block
  Null,       \* the null pointer
  ChunkSize,  \* chunk_size_
  SmallSizes, \* sizes requested for small blocks, header included
  MinSmall,   \* min_small_block_size_
  ToFree,     \* kPercentageChunksToFree
  MaxChunks,  \* bound: chunks this model allocates
  MaxRef      \* bound: reference counts this model reaches

ASSUME SizesAssumption ==
  /\ ChunkSize \in Nat /\ MinSmall \in 1..ChunkSize
  /\ SmallSizes \subseteq MinSmall..ChunkSize
  /\ ToFree \in 0..100 /\ MaxChunks \in Nat \ {0} /\ MaxRef \in Nat \ {0}
  /\ LargeObjs \cup RawObjs \subseteq Objs
  /\ Statics \cap Locals = {} /\ NoObj \notin Objs /\ Null \notin Objs

\* the program has finitely many values and variables at a time, and can tell
\* a pointer into a chunk from a malloc block and from NULL
ASSUME ObjsAssumption ==
  /\ IsFiniteSet(Objs) /\ IsFiniteSet(Statics \cup Locals)
  /\ (Objs \cup {Null}) \cap [chunk : Nat, off : Nat] = {}

VARIABLES
  heap,    \* the Memory object: see Init
  root,    \* the pointer in each slot
  means,   \* the object each slot was set to (history)
  inEngine, \* a GCTrigger is registered: Engine::Execute runs
  stop     \* GCTrigger::stop_for_gc_

vars == <<heap, root, means, inEngine, stop>>
Slots == Statics \cup Locals

-----------------------------------------------------------------------------
(* Chunks, blocks and pointers.                                            *)

Block(size, obj) == [size |-> size, obj |-> obj]
NewChunk == [mark |-> 0, top |-> 0, at |-> [x \in {} |-> Block(0, NoObj)]]
Put(at, x, block) == [y \in DOMAIN at \cup {x} |-> IF y = x THEN block ELSE at[y]]
Small(c, off) == [chunk |-> c, off |-> off]

\* the small blocks of heap h, named by their addresses
Blocks(h) == UNION {{Small(c, x) : x \in DOMAIN h.chunk[c].at} : c \in DOMAIN h.chunk}
BlockAt(h, p) == h.chunk[p.chunk].at[p.off]
AboveMark(h, p) == p.off >= h.chunk[p.chunk].mark
Large(h) == h.pre \cup h.post
Allocated(h) == Large(h) \cup ({BlockAt(h, p).obj : p \in Blocks(h)} \ {NoObj})

\* what a pointer leads to: the object that starts there, or NoObj
Target(h, p) ==
  CASE p \in Large(h) -> p
    [] p \in Blocks(h) -> BlockAt(h, p).obj
    [] OTHER -> NoObj

\* the number of bits of n: a power of two for each of them is at most n
IsPowerOf2(n) == \E k \in 0..n : n = 2 ^ k
bits(n) == Cardinality({i \in 1..n : IsPowerOf2(i)})
NumBuckets == bits(ChunkSize) + 1
EmptyList == [b \in 0..NumBuckets - 1 |-> <<>>]

\* AddFreeBlock: at the head of the list of its size
AddFreeBlock(list, p, size) == [list EXCEPT ![bits(size)] = <<p>> \o @]

AllocateChunk(h) == [h EXCEPT !.chunk = Append(@, NewChunk)]

Init ==
  /\ heap = [chunk |-> <<NewChunk>>,
             cur |-> 1,             \* allocating_chunk_
             postMark |-> FALSE,    \* post_mark_
             marked |-> FALSE,      \* mark_count_ > 0
             atMark |-> 0,          \* chunks_at_mark_
             pre |-> {},            \* allocated blocks of large_premark_blocks_
             post |-> {},           \* allocated blocks of large_postmark_blocks_
             list |-> EmptyList,    \* free_list_
             using |-> FALSE,       \* using_free_list_
             ref |-> [o \in Objs |-> 0],
             ptr |-> [o \in Objs |-> Null],   \* the pointer an object holds
             holds |-> [o \in Objs |-> NoObj]] \* what it was set to (history)
  /\ root = [s \in Slots |-> Null]
  /\ means = [s \in Slots |-> NoObj]
  /\ inEngine = FALSE
  /\ stop = FALSE

-----------------------------------------------------------------------------
(* Reclaiming.                                                             *)

\* Memory::Free of every object of D: its block stays, marked free
FreeIn(k, D) ==
  [mark |-> k.mark, top |-> k.top,
   at |-> [x \in DOMAIN k.at |-> IF k.at[x].obj \in D THEN Block(k.at[x].size, NoObj)
                                 ELSE k.at[x]]]
Free(h, D) ==
  [h EXCEPT !.chunk = [c \in DOMAIN h.chunk |-> FreeIn(h.chunk[c], D)],
            !.pre = @ \ D, !.post = @ \ D,
            !.ref = [o \in Objs |-> IF o \in D THEN 0 ELSE @[o]],
            !.ptr = [o \in Objs |-> IF o \in D THEN Null ELSE @[o]],
            !.holds = [o \in Objs |-> IF o \in D THEN NoObj ELSE @[o]]]

Pointers(h, S, o) == {p \in S : h.ptr[p] # Null /\ Target(h, h.ptr[p]) = o}

\* Defect: the deleted values keep their references.
KeepReferences(h, D) == h

\* Form::Delete of every scanned value with no reference: it gives up its
\* pointer, and what has no other reference is deleted with it
DropReferences(h, D) ==
  [h EXCEPT !.ref = [o \in Objs |-> @[o] - Cardinality(Pointers(h, D, o))]]
LastReferences(h, D, o) ==
  Pointers(h, D, o) # {} /\ h.ref[o] = Cardinality(Pointers(h, D, o))
Spread(h, D) == D \cup {o \in Allocated(h) : LastReferences(h, D, o)}
Doomed(h, scanned) ==
  LET doomed[i \in 0..Cardinality(Objs)] ==
        IF i = 0 THEN {o \in scanned \ RawObjs : h.ref[o] = 0} ELSE Spread(h, doomed[i - 1])
  IN  doomed[Cardinality(Objs)]
Delete(h, scanned) ==
  LET D == Doomed(h, scanned) IN Free(DropReferences(h, D), D)

PostMarkObjs(h) == {BlockAt(h, p).obj : p \in {q \in Blocks(h) : AboveMark(h, q)}} \ {NoObj}

\* neighbouring free blocks above the mark become one
FreeAt(k, x) == x >= k.mark /\ k.at[x].obj = NoObj
Coalesce(k) ==
  LET joined(x) == FreeAt(k, x) /\ \E y \in DOMAIN k.at : FreeAt(k, y) /\ y + k.at[y].size = x
      kept == {x \in DOMAIN k.at : ~joined(x)}
      end(x) == Min({y \in kept : y > x} \cup {k.top})
  IN  [mark |-> k.mark, top |-> k.top,
       at |-> [x \in kept |-> IF FreeAt(k, x) THEN Block(end(x) - x, NoObj) ELSE k.at[x]]]

\* the space above top() of a chunk other than the last becomes a free block
Pad(k) ==
  IF ChunkSize - k.top >= MinSmall
  THEN [mark |-> k.mark, top |-> ChunkSize, at |-> Put(k.at, k.top, Block(ChunkSize - k.top, NoObj))]
  ELSE k

\* a free block at the end of the last chunk goes back to the arena
GiveBack(k) ==
  LET last == {x \in DOMAIN k.at : FreeAt(k, x) /\ x + k.at[x].size = k.top}
  IN  [mark |-> k.mark, top |-> IF last = {} THEN k.top ELSE Min(last),
       at |-> [x \in DOMAIN k.at \ last |-> k.at[x]]]

FreeBlocks(h) == {p \in Blocks(h) : AboveMark(h, p) /\ BlockAt(h, p).obj = NoObj}

\* the free blocks are added chunk by chunk, from mark() to top()
AddChunk(h, c, old) ==
  LET upTo[x \in 0..ChunkSize] ==
        IF x = 0 THEN old
        ELSE IF Small(c, x - 1) \in FreeBlocks(h)
        THEN AddFreeBlock(upTo[x - 1], Small(c, x - 1), h.chunk[c].at[x - 1].size)
        ELSE upTo[x - 1]
  IN  upTo[ChunkSize]
AddChunks(h, old) ==
  LET upTo[c \in 0..Len(h.chunk)] == IF c = 0 THEN old ELSE AddChunk(h, c, upTo[c - 1])
  IN  upTo[Len(h.chunk)]

\* Defect: free_list_ is not cleared first.
AddToFreeList(h) == AddChunks(h, h.list)
BuildFreeList(h) == AddChunks(h, EmptyList)

CoalesceAll(h) ==
  [h EXCEPT !.chunk = [c \in DOMAIN h.chunk |->
                         IF c = Len(h.chunk) THEN GiveBack(Coalesce(h.chunk[c]))
                         ELSE Coalesce(Pad(h.chunk[c]))]]
FreeUnusedSmallBlocks(h, build, coalesce) ==
  LET g == Delete(h, PostMarkObjs(h))
      k == CoalesceAll(g)
  IN  IF coalesce THEN [k EXCEPT !.list = IF build THEN BuildFreeList(k) ELSE EmptyList] ELSE g

FreeUnusedLargeBlocks(h) == Delete(h, IF h.postMark THEN h.post ELSE h.pre)

-----------------------------------------------------------------------------
(* Allocating.                                                             *)

\* SmallBlockFreeList::Alloc: the first block of the first list of larger
\* blocks; it is cut at its end when the rest can be a block of its own
Larger(h, size) == {n \in bits(size) + 1..NumBuckets - 1 : h.list[n] # <<>>}
FreeListHas(h, size) == Larger(h, size) # {}
Split(k, x, rest, block) ==
  [mark |-> k.mark, top |-> k.top,
   at |-> Put(Put(k.at, x, Block(rest, NoObj)), x + rest, block)]
Take(k, x, o) == [mark |-> k.mark, top |-> k.top, at |-> Put(k.at, x, Block(k.at[x].size, o))]
FreeListAlloc(h, size, o) ==
  LET b == Min(Larger(h, size))
      p == Head(h.list[b])
      rest == BlockAt(h, p).size - size
      popped == [h.list EXCEPT ![b] = Tail(@)]
  IN  IF rest >= MinSmall
      THEN [h EXCEPT !.chunk[p.chunk] = Split(@, p.off, rest, Block(size, o)),
                     !.list = AddFreeBlock(popped, p, rest)]
      ELSE [h EXCEPT !.chunk[p.chunk] = Take(@, p.off, o), !.list = popped]

\* Chunk::Alloc in the allocating chunk or a later one
Fits(h, c, size) == h.chunk[c].top + size <= ChunkSize
Arena(h, size) == {c \in h.cur..Len(h.chunk) : Fits(h, c, size)}
ArenaAlloc(h, size, o) ==
  LET c == Min(Arena(h, size))
      k == h.chunk[c]
  IN  [h EXCEPT !.cur = c,
                !.chunk[c] = [mark |-> k.mark, top |-> k.top + size,
                              at |-> Put(k.at, k.top, Block(size, o))]]

\* the process is too large: free what can be freed, and go on with the free
\* list until the interpreter, if it is running, collects
Reclaim(h) ==
  [FreeUnusedLargeBlocks(FreeUnusedSmallBlocks(h, TRUE, TRUE)) EXCEPT !.using = TRUE]
CheckGCThreshold(h) == {h, Reclaim(h)}

\* Memory::Alloc of a small block, from a chunk with room, from the free list,
\* or from a new chunk; a scan repeats while the free list is in use, and may
\* find too little to coalesce
AllocateInNew(h, size, o) ==
  LET g == AllocateChunk(h) IN ArenaAlloc([g EXCEPT !.cur = Len(g.chunk)], size, o)
SmallAlloc(h, size, o) ==
  LET full == [h EXCEPT !.cur = Len(h.chunk)]
      again(enough) == FreeUnusedSmallBlocks(FreeUnusedLargeBlocks(full), TRUE, enough)
      reclaimed == CASE ~h.using -> CheckGCThreshold(full)
                     [] h.using /\ ~FreeListHas(h, size) -> {full, again(FALSE), again(TRUE)}
                     [] OTHER -> {full}
  IN  IF Arena(h, size) # {} THEN {ArenaAlloc(h, size, o)}
      ELSE {IF g.using /\ FreeListHas(g, size) THEN FreeListAlloc(g, size, o)
            ELSE AllocateInNew(g, size, o) : g \in reclaimed}

LargeAlloc(h, o) ==
  LET again(enough) == FreeUnusedLargeBlocks(FreeUnusedSmallBlocks(h, TRUE, enough))
      add(g) == IF g.postMark THEN [g EXCEPT !.post = @ \cup {o}]
                ELSE [g EXCEPT !.pre = @ \cup {o}]
  IN  {add(g) : g \in UNION {CheckGCThreshold(k) : k \in {h, again(FALSE), again(TRUE)}}}

-----------------------------------------------------------------------------
(* Compaction.                                                             *)

\* a block above the mark moves down to what is live before it
LiveBytes(k, x) ==
  Cardinality({y \in k.mark..x - 1 :
                 \E z \in DOMAIN k.at : k.at[z].obj # NoObj /\ y \in z..z + k.at[z].size - 1})

\* Defect: distances are taken from data() instead of mark().
OffsetFromData(k, x) == IF x < k.mark THEN x ELSE LiveBytes(k, x)
NewOffset(k, x) == IF x < k.mark THEN x ELSE k.mark + LiveBytes(k, x)

AdjustPtr(h, p) ==
  IF p = Null \/ p \in Objs THEN p
  ELSE Small(p.chunk, NewOffset(h.chunk[p.chunk], p.off))

\* the values whose AdjustHeapPtrs is called: above the marks, and large ones
Adjusted(h) == (PostMarkObjs(h) \cup Large(h)) \ RawObjs

SlideIn(k) ==
  LET stay == {x \in DOMAIN k.at : x < k.mark \/ k.at[x].obj # NoObj}
  IN  [mark |-> k.mark, top |-> NewOffset(k, k.top),
       at |-> [y \in {NewOffset(k, x) : x \in stay} |->
                 k.at[CHOOSE x \in stay : NewOffset(k, x) = y]]]

\* h after FreeUnusedLargeBlocks and FreeUnusedSmallBlocks(false, true)
Slide(h) ==
  [h EXCEPT !.ptr = [o \in Objs |-> IF o \in Adjusted(h) THEN AdjustPtr(h, @[o]) ELSE @[o]],
            !.chunk = [c \in DOMAIN h.chunk |-> SlideIn(h.chunk[c])],
            !.cur = 1]

\* frames, additional inputs and trap messages
AdjustRoots(h) == [s \in Slots |-> AdjustPtr(h, root[s])]

\* Defect: the chunks are not scanned for unused values.
UnusedLargeOnly(h) == FreeUnusedLargeBlocks(h)

Unused(h) == FreeUnusedSmallBlocks(FreeUnusedLargeBlocks(h), FALSE, TRUE)

\* heap' and root' after CompactSmallBlocks of h, and using_free_list_ reset
GarbageCollect(h) ==
  \E g \in {Unused(h)} :
    /\ heap' = [Slide(g) EXCEPT !.using = FALSE]
    /\ root' = AdjustRoots(g)

-----------------------------------------------------------------------------
(* What the interpreter and the Proc do.                                   *)

PointerTo(h, o) ==
  IF o \in Large(h) THEN o ELSE CHOOSE p \in Blocks(h) : BlockAt(h, p).obj = o

\* slots the program may write now
Writable == IF heap.marked THEN Locals ELSE Slots
Running == (heap.postMark \/ ~heap.marked)

\* g is heap h after Memory::Alloc has made o in it
Store(h, g, s, o) ==
  /\ Len(g.chunk) <= MaxChunks
  /\ heap' = [g EXCEPT !.ref[o] = 1]
  /\ root' = [root EXCEPT ![s] = PointerTo(g, o)]
  /\ means' = [means EXCEPT ![s] = o]
  /\ stop' = (stop \/ (inEngine /\ g.using /\ ~h.using))
  /\ UNCHANGED inEngine

New(s, o) ==
  /\ Running /\ s \in Writable /\ root[s] = Null /\ o \notin Allocated(heap)
  /\ \/ /\ o \notin LargeObjs
        /\ \E size \in SmallSizes : \E g \in SmallAlloc(heap, size, o) : Store(heap, g, s, o)
     \/ /\ o \in LargeObjs
        /\ \E g \in LargeAlloc(heap, o) : Store(heap, g, s, o)

\* dec_ref, which never deletes, or FREE of what has no reference count
Drop(s) ==
  /\ Running /\ s \in Writable /\ root[s] # Null
  /\ LET o == Target(heap, root[s])
     IN  heap' = IF o \in RawObjs THEN Free(heap, {o}) ELSE [heap EXCEPT !.ref[o] = @ - 1]
  /\ root' = [root EXCEPT ![s] = Null]
  /\ means' = [means EXCEPT ![s] = NoObj]
  /\ UNCHANGED <<inEngine, stop>>

\* inc_ref: another slot refers to the same value
Copy(s, t) ==
  /\ Running /\ t \in Writable /\ root[s] # Null /\ root[t] = Null
  /\ LET o == Target(heap, root[s])
     IN  /\ o \notin RawObjs /\ heap.ref[o] < MaxRef
         /\ heap' = [heap EXCEPT !.ref[o] = @ + 1]
  /\ root' = [root EXCEPT ![t] = root[s]]
  /\ means' = [means EXCEPT ![t] = means[s]]
  /\ UNCHANGED <<inEngine, stop>>

\* a value is written only while it has one reference, from a slot that the
\* program may write (Val::Uniq makes a copy of any other)
SetElement(s, t) ==
  /\ Running /\ s \in Writable /\ root[s] # Null /\ root[t] # Null
  /\ LET o == Target(heap, root[s])
         e == Target(heap, root[t])
     IN  /\ o # e /\ {o, e} \cap RawObjs = {}
         /\ heap.ref[o] = 1 /\ heap.ptr[o] = Null /\ heap.ref[e] < MaxRef
         /\ heap' = [heap EXCEPT !.ptr[o] = root[t], !.holds[o] = means[t],
                                 !.ref[e] = @ + 1]
  /\ UNCHANGED <<root, means, inEngine, stop>>

Enter == ~inEngine /\ inEngine' = TRUE /\ UNCHANGED <<heap, root, means, stop>>

\* the inner loop ends with the instruction when a collection is wanted
EndInstr ==
  /\ inEngine
  /\ IF stop THEN GarbageCollect(heap) ELSE UNCHANGED <<heap, root>>
  /\ stop' = FALSE
  /\ UNCHANGED <<means, inEngine>>

\* a trap, a return to the caller of Engine::Execute or a terminate: the
\* GCTrigger is destroyed and CheckForGC is not called
Leave == inEngine /\ inEngine' = FALSE /\ stop' = FALSE /\ UNCHANGED <<heap, root, means>>

SetMark(k) == [mark |-> k.top, top |-> k.top, at |-> k.at]

\* Proc::SetupRunOrCall: only the static frame is there
Mark ==
  /\ ~inEngine /\ ~heap.postMark
  /\ \A s \in Locals : root[s] = Null
  /\ IF heap.marked
     THEN heap' = [heap EXCEPT !.postMark = TRUE] /\ UNCHANGED root
     ELSE LET mark(h) == [h EXCEPT !.chunk = [c \in DOMAIN h.chunk |-> SetMark(h.chunk[c])],
                                   !.postMark = TRUE, !.marked = TRUE]
          IN  \E g \in {Unused(heap)} :
                /\ heap' = mark([Slide(g) EXCEPT !.using = FALSE, !.atMark = Len(heap.chunk)])
                /\ root' = AdjustRoots(g)
  /\ UNCHANGED <<means, inEngine, stop>>

\* Defect: the top of a chunk stays where it is.
KeepTop(k) == k

\* Memory::Release drops what was allocated since Mark without a look at the
\* counts, and some of the chunks added since the first Mark
ReleaseToMark(k) ==
  [mark |-> k.mark, top |-> k.mark, at |-> [x \in {y \in DOMAIN k.at : y < k.mark} |-> k.at[x]]]

\* Defect: the chunks that were there at Mark count as well, but for the first.
KeptOfAll(h) == Len(h.chunk) - ((Len(h.chunk) - 1) * ToFree) \div 100
KeptChunks(h) == Len(h.chunk) - ((Len(h.chunk) - h.atMark) * ToFree) \div 100
Release ==
  /\ ~inEngine /\ heap.postMark
  /\ heap' = [Free(heap, PostMarkObjs(heap) \cup heap.post) EXCEPT
                !.chunk = [c \in 1..KeptChunks(heap) |-> ReleaseToMark(@[c])],
                !.cur = 1, !.using = FALSE, !.postMark = FALSE]
  /\ root' = [s \in Slots |-> IF s \in Locals THEN Null ELSE root[s]]
  /\ means' = [s \in Slots |-> IF s \in Locals THEN NoObj ELSE means[s]]
  /\ UNCHANGED <<inEngine, stop>>

Next ==
  \/ \E s \in Slots, o \in Objs : New(s, o)
  \/ \E s \in Slots : Drop(s)
  \/ \E s, t \in Slots : Copy(s, t) \/ SetElement(s, t)
  \/ Enter \/ EndInstr \/ Leave \/ Mark \/ Release

Spec == Init /\ [][Next]_vars

-----------------------------------------------------------------------------
(* Properties.                                                             *)

\* Every pointer that the program can still use, in a frame or in a value,
\* leads to the object it was set to, whatever was freed, handed out again
\* from the free list or moved by a compaction since (Alloc, Release,
\* CompactSmallBlocks and AdjustPtr in memory.cc).
PointersValid ==
  /\ \A s \in Slots : root[s] # Null => Target(heap, root[s]) = means[s]
  /\ \A s \in Slots : means[s] # NoObj => root[s] # Null
  /\ \A o \in Allocated(heap) : heap.ptr[o] # Null => Target(heap, heap.ptr[o]) = heap.holds[o]

References(o) ==
  Cardinality({s \in Slots : means[s] = o})
  + Cardinality({p \in Allocated(heap) : heap.holds[p] = o})

\* The count of a value allocated since Mark is the number of pointers to it,
\* and that of an older value is never less: Release forgets pointers without
\* dec_ref, which may keep an old value for ever but cannot free it too early
\* (val.h inc_ref, dec_ref, dec_ref_and_check; memory.cc Release).
RefCountsCover ==
  \A o \in Allocated(heap) \ RawObjs :
    /\ heap.ref[o] >= References(o)
    /\ ~heap.marked \/ o \in PostMarkObjs(heap) \cup heap.post => heap.ref[o] = References(o)

\* While the free list is in use each of its entries is a different free block
\* above the mark of a chunk that still exists, in the list of its size; so no
\* block is handed out twice or while it is allocated (FreeUnusedSmallBlocks,
\* SmallBlockFreeList in memory.cc).
FreeListSound ==
  heap.using =>
    LET entry == UNION {{<<n, i>> : i \in DOMAIN heap.list[n]} : n \in 0..NumBuckets - 1}
        at(e) == heap.list[e[1]][e[2]]
    IN  /\ \A e \in entry : at(e) \in FreeBlocks(heap) /\ bits(BlockAt(heap, at(e)).size) = e[1]
        /\ \A e, f \in entry : at(e) = at(f) => e = f

BelowMark(k) == [x \in {y \in DOMAIN k.at : y < k.mark} |-> k.at[x]]

\* What is below the marks stays where it is from the first Mark on: no scan,
\* compaction or Release of a later run frees, moves or splits it (Memory::Mark).
PremarkKept ==
  [][heap.marked =>
       /\ heap'.atMark = heap.atMark /\ Len(heap'.chunk) >= heap.atMark
       /\ heap'.pre = heap.pre
       /\ \A c \in 1..heap.atMark :
            /\ heap'.chunk[c].mark = heap.chunk[c].mark
            /\ BelowMark(heap'.chunk[c]) = BelowMark(heap.chunk[c])]_vars

\* Between a Release and the next Mark the CHECKs of Mark hold: the allocating
\* chunk is the first, it is at its mark, and there is no post-mark large block.
MarkChecksHold ==
  heap.marked /\ ~heap.postMark =>
    /\ heap.cur = 1 /\ heap.chunk[1].top = heap.chunk[1].mark /\ heap.post = {}

\* The collection at the end of an instruction leaves no hole above the marks
\* and no small value without a reference there (GCTrigger::CheckForGC,
\* Memory::GarbageCollect).
CollectionComplete ==
  [][stop /\ inEngine /\ EndInstr =>
       /\ FreeBlocks(heap') = {} /\ ~heap'.using
       /\ \A o \in PostMarkObjs(heap') \ RawObjs : heap'.ref[o] > 0]_vars
=============================================================================
