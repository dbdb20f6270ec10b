-------------------------- MODULE HeapStoreProofs ---------------------------
(***************************************************************************)
(* What the program does with a value: storing it in a slot, copying and   *)
(* dropping references, setting an element, freeing a raw block.           *)
(***************************************************************************)
EXTENDS HeapBlockProofs

WithRef(h, ref) == [h EXCEPT !.ref = ref]

\* Other reference counts.
LEMMA SetRef ==
  ASSUME NEW h, Shape(h), NEW ref \in [Objs -> Nat]
  PROVE  LET g == WithRef(h, ref)
         IN  /\ Shape(g) /\ g.chunk = h.chunk /\ g.pre = h.pre /\ g.post = h.post
             /\ g.cur = h.cur /\ g.list = h.list /\ g.using = h.using
             /\ g.postMark = h.postMark /\ g.marked = h.marked /\ g.atMark = h.atMark
             /\ g.ref = ref /\ g.ptr = h.ptr /\ g.holds = h.holds
<1>1. h \in HeapType /\ \A c \in DOMAIN h.chunk : Tidy(h.chunk[c])
  BY Zenon DEF Shape
<1> DEFINE g == WithRef(h, ref)
<1>2. /\ g \in HeapType /\ g.chunk = h.chunk /\ g.pre = h.pre /\ g.post = h.post
      /\ g.cur = h.cur /\ g.list = h.list /\ g.using = h.using
      /\ g.postMark = h.postMark /\ g.marked = h.marked /\ g.atMark = h.atMark
      /\ g.ref = ref /\ g.ptr = h.ptr /\ g.holds = h.holds
  BY Zenon, <1>1 DEF HeapType, WithRef
<1> HIDE DEF g
<1>3. Shape(g)
  BY Zenon, <1>1, <1>2 DEF Shape
<1> QED BY Zenon, <1>2, <1>3 DEF g

\* the parts of the heap that no reference count, slot or pointer is part of
SameBlocks(h, g) ==
  /\ g.chunk = h.chunk /\ g.pre = h.pre /\ g.post = h.post /\ g.cur = h.cur
  /\ g.list = h.list /\ g.using = h.using
  /\ g.postMark = h.postMark /\ g.marked = h.marked /\ g.atMark = h.atMark

\* What depends on the blocks alone.
LEMMA SameBlocksView ==
  ASSUME NEW h, NEW g, Layout(h), Shape(g), SameBlocks(h, g)
  PROVE  /\ Layout(g) /\ Allocated(g) = Allocated(h) /\ Old(g) = Old(h)
         /\ PostMarkObjs(g) = PostMarkObjs(h) /\ FreeBlocks(g) = FreeBlocks(h)
         /\ \A p : Target(g, p) = Target(h, p)
         /\ FreeListOK(h) => FreeListOK(g)
         /\ Kept(h, g)
<1>1. /\ Blocks(g) = Blocks(h) /\ \A p : BlockAt(g, p) = BlockAt(h, p)
      /\ \A p : AboveMark(g, p) = AboveMark(h, p) /\ Large(g) = Large(h)
  BY DEF SameBlocks, Blocks, BlockAt, AboveMark, Large
<1>2. FreeBlocks(g) = FreeBlocks(h) /\ Allocated(g) = Allocated(h) /\ PostMarkObjs(g) = PostMarkObjs(h)
  BY <1>1 DEF FreeBlocks, Allocated, PostMarkObjs
<1>3. Old(g) = Old(h)
  BY Zenon, <1>1 DEF Old, SameBlocks
<1>4. \A p : Target(g, p) = Target(h, p)
  BY Zenon, <1>1 DEF Target
<1>5. FreeListOK(h) => FreeListOK(g)
  BY <1>1, <1>2 DEF FreeListOK, ListOK, Listed, SameBlocks
<1>6. Layout(g)
  <2>1. Unique(g) /\ Marks(g)
    BY DEF Layout, Unique, Marks, Sits, SameBlocks
  <2> QED BY Zenon, <2>1 DEF Layout, SameBlocks
<1>7. Kept(h, g)
  <2>1. Kept(h, h)
    BY Zenon, KeptRefl
  <2> QED BY Zenon, <2>1 DEF Kept, SameBlocks
<1> QED BY <1>2, <1>3, <1>4, <1>5, <1>6, <1>7

-----------------------------------------------------------------------------
(* Slots and references.                                                   *)

\* an object that is not allocated is not referred to
LEMMA Unreferenced ==
  ASSUME NEW h, NEW r, NEW m, Sound(h, r, m), NEW o \in Objs, o \notin Allocated(h)
  PROVE  FromSlots(m, o) = {} /\ FromObjs(h, o) = {}
<1>0. Shape(h) /\ Pointing(h, r, m) /\ o # NoObj
  BY Zenon, SizesAssumption DEF Sound, Layout
<1>1. ASSUME NEW s \in Slots, m[s] = o PROVE FALSE
  <2>1. Target(h, r[s]) = o
    BY Zenon, <1>0, <1>1 DEF Pointing, Leads
  <2> QED BY Zenon, <1>0, <2>1, ObjectsTyped
<1>2. ASSUME NEW p \in Objs, h.holds[p] = o PROVE FALSE
  <2>1. Target(h, h.ptr[p]) = o
    BY Zenon, <1>0, <1>2 DEF Pointing, Leads
  <2> QED BY Zenon, <1>0, <2>1, ObjectsTyped
<1> QED BY Zenon, <1>1, <1>2 DEF FromSlots, FromObjs

Stores(g, n, r, q, m, l, s, o) ==
  /\ n = WithRef(g, [g.ref EXCEPT ![o] = 1])
  /\ q = [r EXCEPT ![s] = PointerTo(g, o)] /\ l = [m EXCEPT ![s] = o]

\* A new object is stored in an empty slot with a count of one.
LEMMA StoreGood ==
  ASSUME NEW k, NEW r, NEW m, Good(k, r, m), NEW o \in Objs, o \notin Allocated(k),
         NEW g, Makes(k, g, o), NEW s \in Slots, r[s] = Null, k.marked => s \in Locals,
         NEW n, NEW q, NEW l, Stores(g, n, r, q, m, l, s, o)
  PROVE  Good(n, q, l) /\ SameBlocks(g, n)
<1> USE DEF Stores
<1>0. /\ Sound(k, r, m) /\ Layout(k) /\ Shape(k) /\ Pointing(k, r, m) /\ Counting(k, m)
      /\ Settled(k, m) /\ FreeListOK(g) /\ Adds(k, g, o) /\ o # NoObj
  BY Zenon, SizesAssumption DEF Good, Sound, Layout, Makes
<1>1. /\ Layout(g) /\ Shape(g) /\ Allocated(g) = Allocated(k) \cup {o}
      /\ KeepsRest(k, g) /\ PointerTo(g, o) \in Pointer /\ Target(g, PointerTo(g, o)) = o
      /\ \A p, t : t # NoObj /\ Target(k, p) = t => Target(g, p) = t
      /\ (k.marked => Old(g) = Old(k))
  BY Zenon, <1>0 DEF Adds, Layout
<1>2. k.ref \in [Objs -> Nat] /\ g.ref = k.ref /\ g.ptr = k.ptr /\ g.holds = k.holds
      /\ g.marked = k.marked /\ k.holds \in [Objs -> Object] /\ k.ptr \in [Objs -> Pointer]
  BY Zenon, <1>0, <1>1, ShapeFields DEF KeepsRest
<1> DEFINE ref == [g.ref EXCEPT ![o] = 1]
<1>3. ref \in [Objs -> Nat] /\ ref[o] = 1 /\ \A p \in Objs : p # o => ref[p] = k.ref[p]
  BY Zenon, <1>2
<1> HIDE DEF ref
<1>4. /\ Shape(n) /\ SameBlocks(g, n) /\ n.ref = ref /\ n.ptr = k.ptr /\ n.holds = k.holds
      /\ n.marked = k.marked
  BY <1>1, <1>2, <1>3, SetRef DEF SameBlocks, ref
<1>5. /\ Layout(n) /\ Allocated(n) = Allocated(k) \cup {o} /\ Old(n) = Old(g)
      /\ \A p : Target(n, p) = Target(g, p)
      /\ FreeListOK(n)
  BY <1>0, <1>1, <1>4, SameBlocksView
<1>6. FromSlots(m, o) = {} /\ FromObjs(k, o) = {}
  BY Zenon, <1>0, Unreferenced
<1>7. m[s] = NoObj
  BY Zenon, <1>0 DEF Pointing, Leads
<1>8. /\ r \in [Slots -> Pointer] /\ m \in [Slots -> Object]
      /\ \A t \in Slots : Leads(k, r[t], m[t])
      /\ \A p \in Objs : Leads(k, k.ptr[p], k.holds[p])
  BY Zenon, <1>0 DEF Pointing
<1>9. /\ q \in [Slots -> Pointer] /\ l \in [Slots -> Object] /\ q[s] = PointerTo(g, o) /\ l[s] = o
      /\ \A t \in Slots : t # s => q[t] = r[t] /\ l[t] = m[t]
  BY Zenon, <1>1, <1>8 DEF Object
<1>10. ASSUME NEW p, NEW t, Leads(k, p, t) PROVE Leads(n, p, t)
  <2>1. CASE t = NoObj
    BY Zenon, <1>4, <1>10, <2>1, ObjectsTyped DEF Leads
  <2>2. CASE t # NoObj
    BY Zenon, <1>1, <1>5, <1>10, <2>2 DEF Leads
  <2> QED BY Zenon, <2>1, <2>2
<1>11. Leads(n, q[s], l[s])
  <2>1. Target(n, q[s]) = o
    BY Zenon, <1>1, <1>5, <1>9
  <2>2. q[s] # Null
    BY <1>0, <1>4, <2>1, ObjectsTyped
  <2> QED BY <1>0, <1>9, <2>1, <2>2 DEF Leads
<1>12. Pointing(n, q, l)
  <2>1. \A t \in Slots : Leads(n, q[t], l[t])
    BY Zenon, <1>8, <1>9, <1>10, <1>11
  <2>2. \A p \in Objs : Leads(n, n.ptr[p], n.holds[p])
    BY Zenon, <1>4, <1>8, <1>10
  <2>3. /\ \A p \in Objs \ Allocated(n) : n.holds[p] = NoObj
        /\ \A p \in RawObjs : n.holds[p] = NoObj
        /\ \A p \in Objs : n.holds[p] \notin RawObjs
    BY Zenon, <1>0, <1>4, <1>5 DEF Pointing
  <2>4. ASSUME NEW t \in Slots, NEW u \in Slots, l[t] = l[u] PROVE l[t] \notin RawObjs \/ t = u
    <3>1. \A v \in Slots : m[v] # o
      BY Zenon, <1>6 DEF FromSlots
    <3>2. m[t] = m[u] => m[t] \notin RawObjs \/ t = u
      BY Zenon, <1>0 DEF Pointing
    <3> QED BY <1>9, <2>4, <3>1, <3>2
  <2> QED BY <1>9, <2>1, <2>2, <2>3, <2>4 DEF Pointing
<1>13. ASSUME NEW p, p # o, p # NoObj
       PROVE  FromSlots(l, p) = FromSlots(m, p) /\ FromObjs(n, p) = FromObjs(k, p)
  BY <1>4, <1>7, <1>9, <1>13 DEF FromSlots, FromObjs
<1>14. Refs(n, l, o) = 1
  <2>1. FromSlots(l, o) = {s}
    BY Zenon, <1>6, <1>9 DEF FromSlots
  <2>2. FromObjs(n, o) = {}
    BY Zenon, <1>4, <1>6 DEF FromObjs
  <2>3. Cardinality({s}) = 1 /\ Cardinality({}) = 0
    BY Zenon, FS_Singleton, FS_EmptySet
  <2>4. Cardinality(FromSlots(l, o)) = 1 /\ Cardinality(FromObjs(n, o)) = 0
    BY Zenon, <2>1, <2>2, <2>3
  <2> QED BY <2>4 DEF Refs
<1>15. Counting(n, l)
  <2> SUFFICES ASSUME NEW p \in Allocated(n) \ RawObjs
               PROVE  /\ n.ref[p] >= Refs(n, l, p)
                      /\ ~n.marked \/ p \notin Old(n) => n.ref[p] = Refs(n, l, p)
    BY Zenon DEF Counting
  <2>1. CASE p = o
    BY <1>3, <1>4, <1>14, <2>1
  <2>2. CASE p # o
    <3>1. p \in Allocated(k) \ RawObjs /\ p \in Objs /\ p # NoObj
      BY Zenon, <1>0, <1>5, <2>2, ObjectsTyped
    <3>2. Refs(n, l, p) = Refs(k, m, p) /\ n.ref[p] = k.ref[p]
      BY Zenon, <1>3, <1>4, <1>13, <2>2, <3>1 DEF Refs
    <3>3. /\ k.ref[p] >= Refs(k, m, p)
          /\ ~k.marked \/ p \notin Old(k) => k.ref[p] = Refs(k, m, p)
      BY Zenon, <1>0, <3>1 DEF Counting
    <3>4. ~n.marked \/ p \notin Old(n) => ~k.marked \/ p \notin Old(k)
      BY Zenon, <1>1, <1>4, <1>5
    <3> QED BY Zenon, <3>2, <3>3, <3>4
  <2> QED BY Zenon, <2>1, <2>2
<1>16. Settled(n, l)
  <2> SUFFICES ASSUME n.marked
               PROVE  /\ \A t \in Statics : l[t] \in Old(n) \cup {NoObj}
                      /\ \A p \in Old(n) : n.holds[p] \in Old(n) \cup {NoObj}
                      /\ \A p \in Old(n) :
                           \/ FromSlots(l, p) = {} /\ FromObjs(n, p) = {}
                           \/ \E t \in Statics : l[t] = p
                           \/ \E t \in Old(n) : n.holds[t] = p
    BY Zenon DEF Settled
  <2>1. Old(n) = Old(k) /\ k.marked /\ s \in Locals
    BY Zenon, <1>1, <1>4, <1>5
  <2>2. \A t \in Statics : l[t] = m[t]
    BY Zenon, <1>9, <2>1, SlotsTyped
  <2>3. /\ \A t \in Statics : m[t] \in Old(k) \cup {NoObj}
        /\ \A p \in Old(k) : k.holds[p] \in Old(k) \cup {NoObj}
        /\ \A p \in Old(k) :
             \/ FromSlots(m, p) = {} /\ FromObjs(k, p) = {}
             \/ \E t \in Statics : m[t] = p
             \/ \E t \in Old(k) : k.holds[t] = p
    BY Zenon, <1>0, <2>1 DEF Settled
  <2>4. \A p \in Old(k) : p # o /\ p # NoObj
    BY Zenon, <1>0, ObjectsTyped
  <2>5. ASSUME NEW p \in Old(k)
        PROVE  \/ FromSlots(l, p) = {} /\ FromObjs(n, p) = {}
               \/ \E t \in Statics : l[t] = p
               \/ \E t \in Old(k) : n.holds[t] = p
    <3>1. FromSlots(l, p) = FromSlots(m, p) /\ FromObjs(n, p) = FromObjs(k, p)
      BY Zenon, <1>13, <2>4
    <3>2. CASE FromSlots(m, p) = {} /\ FromObjs(k, p) = {}
      BY Zenon, <3>1, <3>2
    <3>3. CASE \E t \in Statics : m[t] = p
      BY Zenon, <2>2, <3>3
    <3>4. CASE \E t \in Old(k) : k.holds[t] = p
      BY Zenon, <1>4, <3>4
    <3> QED BY Zenon, <2>3, <3>2, <3>3, <3>4
  <2> QED BY <1>4, <2>1, <2>2, <2>3, <2>5
<1> QED BY Zenon, <1>4, <1>5, <1>12, <1>15, <1>16 DEF Good, Sound

\* the counts of a heap whose blocks, pointers and objects are those of h
Recounted(h, g) ==
  /\ Shape(g) /\ SameBlocks(h, g) /\ g.ptr = h.ptr /\ g.holds = h.holds

\* Pointers stay valid while the blocks stay.
LEMMA LeadsSame ==
  ASSUME NEW h, NEW g, Layout(h), Shape(g), SameBlocks(h, g), NEW p, NEW o, Leads(h, p, o)
  PROVE  Leads(g, p, o)
BY SameBlocksView DEF Leads

\* a slot that is given up: its object is what the slot was set to
LEMMA SlotObject ==
  ASSUME NEW h, NEW r, NEW m, Sound(h, r, m), NEW s \in Slots, r[s] # Null
  PROVE  /\ Target(h, r[s]) = m[s] /\ m[s] # NoObj /\ m[s] \in Objs /\ m[s] \in Allocated(h)
         /\ s \in FromSlots(m, m[s])
<1>0. Shape(h) /\ Pointing(h, r, m)
  BY Zenon DEF Sound, Layout
<1>1. Leads(h, r[s], m[s])
  BY Zenon, <1>0 DEF Pointing
<1>2. m[s] # NoObj /\ Target(h, r[s]) = m[s]
  BY Zenon, <1>1 DEF Leads
<1>3. m[s] \in Allocated(h) /\ m[s] \in Objs
  BY Zenon, <1>0, <1>2, ObjectsTyped
<1> QED BY Zenon, <1>2, <1>3 DEF FromSlots

\* what a step of the program leaves alone once a heap is marked
Undisturbed(h, m, g, l) ==
  /\ \A s \in Statics : l[s] = m[s]
  /\ \A o \in Old(h) : g.holds[o] = h.holds[o]
  /\ \A o \in Old(h) : FromSlots(m, o) = {} /\ FromObjs(h, o) = {}
                       => FromSlots(l, o) = {} /\ FromObjs(g, o) = {}

\* The old part of the heap stays closed when nothing in it changes.
LEMMA SettledKeep ==
  ASSUME NEW h, NEW m, NEW g, NEW l, Settled(h, m), g.marked = h.marked, Old(g) = Old(h),
         h.marked => Undisturbed(h, m, g, l)
  PROVE  Settled(g, l)
<1> USE DEF Undisturbed
<1> SUFFICES ASSUME g.marked
             PROVE  /\ \A s \in Statics : l[s] \in Old(g) \cup {NoObj}
                    /\ \A o \in Old(g) : g.holds[o] \in Old(g) \cup {NoObj}
                    /\ \A o \in Old(g) :
                         \/ FromSlots(l, o) = {} /\ FromObjs(g, o) = {}
                         \/ \E s \in Statics : l[s] = o
                         \/ \E p \in Old(g) : g.holds[p] = o
  BY Zenon DEF Settled
<1>1. /\ \A s \in Statics : m[s] \in Old(h) \cup {NoObj}
      /\ \A o \in Old(h) : h.holds[o] \in Old(h) \cup {NoObj}
      /\ \A o \in Old(h) :
           \/ FromSlots(m, o) = {} /\ FromObjs(h, o) = {}
           \/ \E s \in Statics : m[s] = o
           \/ \E p \in Old(h) : h.holds[p] = o
  BY Zenon DEF Settled
<1>2. ASSUME NEW o \in Old(h)
      PROVE  \/ FromSlots(l, o) = {} /\ FromObjs(g, o) = {}
             \/ \E s \in Statics : l[s] = o
             \/ \E p \in Old(h) : g.holds[p] = o
  <2>1. CASE FromSlots(m, o) = {} /\ FromObjs(h, o) = {}
    BY Zenon, <2>1
  <2>2. CASE \E s \in Statics : m[s] = o
    BY Zenon, <2>2
  <2>3. CASE \E p \in Old(h) : h.holds[p] = o
    BY Zenon, <2>3
  <2> QED BY Zenon, <1>1, <2>1, <2>2, <2>3
<1> QED BY Zenon, <1>1, <1>2

\* a slot is cleared, and the count of what it held, if there is one, goes down
Clears(r, q, m, l, s) == q = [r EXCEPT ![s] = Null] /\ l = [m EXCEPT ![s] = NoObj]
OneLess(h, n, o) ==
  /\ Recounted(h, n) /\ \A p \in Objs : p # o => n.ref[p] = h.ref[p]
  /\ o \notin RawObjs => n.ref[o] = h.ref[o] - 1

\* dec_ref: a slot is cleared and the count of its object is one less.
LEMMA ClearGood ==
  ASSUME NEW h, NEW r, NEW m, Good(h, r, m), NEW s \in Slots, r[s] # Null,
         h.marked => s \in Locals,
         NEW n, OneLess(h, n, m[s]), NEW q, NEW l, Clears(r, q, m, l, s)
  PROVE  Good(n, q, l) /\ Kept(h, n)
<1> USE DEF OneLess, Clears
<1> DEFINE o == m[s]
<1>0. /\ Sound(h, r, m) /\ Layout(h) /\ Shape(h) /\ Pointing(h, r, m) /\ Counting(h, m)
      /\ Settled(h, m) /\ FreeListOK(h)
  BY Zenon DEF Good, Sound, Layout
<1>1. o # NoObj /\ o \in Objs /\ o \in Allocated(h) /\ s \in FromSlots(m, o)
  BY <1>0, SlotObject
<1>2. /\ Shape(n) /\ SameBlocks(h, n) /\ n.ptr = h.ptr /\ n.holds = h.holds /\ n.marked = h.marked
  BY Zenon DEF Recounted, SameBlocks
<1>3. /\ Layout(n) /\ Allocated(n) = Allocated(h) /\ Old(n) = Old(h) /\ FreeListOK(n) /\ Kept(h, n)
      /\ \A p : Target(n, p) = Target(h, p)
  BY Zenon, <1>0, <1>2, SameBlocksView
<1>4. /\ r \in [Slots -> Pointer] /\ m \in [Slots -> Object]
  BY Zenon, <1>0 DEF Pointing
<1>5. /\ q \in [Slots -> Pointer] /\ l \in [Slots -> Object] /\ q[s] = Null /\ l[s] = NoObj
      /\ \A t \in Slots : t # s => q[t] = r[t] /\ l[t] = m[t]
  BY Zenon, <1>4 DEF Object, Pointer
<1>6. Pointing(n, q, l)
  <2>1. Leads(n, Null, NoObj)
    BY Zenon, <1>2, ObjectsTyped DEF Leads
  <2>2. \A t \in Slots : Leads(n, q[t], l[t])
    BY Zenon, <1>0, <1>2, <1>5, <2>1, LeadsSame DEF Pointing
  <2>3. \A p \in Objs : Leads(n, n.ptr[p], n.holds[p])
    BY Zenon, <1>0, <1>2, LeadsSame DEF Pointing
  <2>4. /\ \A p \in Objs \ Allocated(n) : n.holds[p] = NoObj
        /\ \A p \in RawObjs : n.holds[p] = NoObj
        /\ \A p \in Objs : n.holds[p] \notin RawObjs
    BY Zenon, <1>0, <1>2, <1>3 DEF Pointing
  <2>5. \A t, u \in Slots : l[t] = l[u] => l[t] \notin RawObjs \/ t = u
    <3>1. NoObj \notin RawObjs
      BY Zenon, SizesAssumption
    <3>2. \A t, u \in Slots : m[t] = m[u] => m[t] \notin RawObjs \/ t = u
      BY Zenon, <1>0 DEF Pointing
    <3> QED BY Zenon, <1>5, <3>1, <3>2
  <2> QED BY Zenon, <1>5, <2>2, <2>3, <2>4, <2>5 DEF Pointing
<1>7. \A p : p # NoObj => FromSlots(l, p) = FromSlots(m, p) \ {s}
  BY Zenon, <1>5 DEF FromSlots
<1>8. \A p : p # NoObj /\ p # o => FromSlots(l, p) = FromSlots(m, p)
  BY Zenon, <1>5 DEF FromSlots
<1>9. \A p : FromObjs(n, p) = FromObjs(h, p)
  BY Zenon, <1>2 DEF FromObjs
<1>10. Refs(n, l, o) = Refs(h, m, o) - 1 /\ Refs(h, m, o) \in Nat
  <2>1. /\ IsFiniteSet(FromSlots(m, o)) /\ Cardinality(FromObjs(h, o)) \in Nat
        /\ Cardinality(FromSlots(m, o)) \in Nat
    BY Zenon, RefsFinite
  <2>2. Cardinality(FromSlots(m, o) \ {s}) = Cardinality(FromSlots(m, o)) - 1
    <3> HIDE DEF o
    <3> QED BY Zenon, <1>1, <2>1, FS_RemoveElement
  <2>3. Cardinality(FromSlots(l, o)) = Cardinality(FromSlots(m, o)) - 1
    BY Zenon, <1>1, <1>7, <2>2
  <2>4. Refs(h, m, o) = Cardinality(FromSlots(m, o)) + Cardinality(FromObjs(h, o))
    BY Zenon DEF Refs
  <2>5. Refs(n, l, o) = Cardinality(FromSlots(l, o)) + Cardinality(FromObjs(h, o))
    BY Zenon, <1>9 DEF Refs
  <2> HIDE DEF o
  <2> QED BY <2>1, <2>3, <2>4, <2>5
<1>11. Counting(n, l)
  <2> SUFFICES ASSUME NEW p \in Allocated(n) \ RawObjs
               PROVE  /\ n.ref[p] >= Refs(n, l, p)
                      /\ ~n.marked \/ p \notin Old(n) => n.ref[p] = Refs(n, l, p)
    BY Zenon DEF Counting
  <2>1. p \in Allocated(h) \ RawObjs /\ p \in Objs /\ p # NoObj
    BY Zenon, <1>0, <1>3, ObjectsTyped
  <2>2. /\ h.ref[p] >= Refs(h, m, p)
        /\ ~n.marked \/ p \notin Old(n) => h.ref[p] = Refs(h, m, p)
    BY Zenon, <1>0, <1>2, <1>3, <2>1 DEF Counting
  <2>3. h.ref[p] \in Nat
    BY <1>0, <2>1, ShapeFields
  <2>4. CASE p = o
    <3>1. n.ref[p] = h.ref[p] - 1 /\ Refs(n, l, p) = Refs(h, m, p) - 1 /\ Refs(h, m, p) \in Nat
      BY Zenon, <1>10, <2>1, <2>4
    <3>2. n.ref[p] >= Refs(n, l, p)
      BY <2>2, <2>3, <3>1
    <3>3. h.ref[p] = Refs(h, m, p) => n.ref[p] = Refs(n, l, p)
      BY Zenon, <3>1
    <3> QED BY Zenon, <2>2, <3>2, <3>3
  <2>5. CASE p # o
    <3>1. n.ref[p] = h.ref[p]
      BY Zenon, <2>1, <2>5
    <3>2. Refs(n, l, p) = Refs(h, m, p)
      BY Zenon, <1>8, <1>9, <2>1, <2>5 DEF Refs
    <3> QED BY Zenon, <2>2, <3>1, <3>2
  <2> QED BY Zenon, <2>4, <2>5
<1>12. Settled(n, l)
  <2>1. h.marked => \A t \in Statics : l[t] = m[t]
    BY <1>5, SlotsTyped
  <2>2. \A p \in Old(h) : p # NoObj
    BY Zenon, <1>0, ObjectsTyped
  <2>3. \A p \in Old(h) : /\ FromSlots(m, p) = {} => FromSlots(l, p) = {}
                          /\ FromObjs(h, p) = {} => FromObjs(n, p) = {}
    BY Zenon, <1>7, <1>9, <2>2
  <2>4. h.marked => Undisturbed(h, m, n, l)
    BY Zenon, <1>2, <2>1, <2>3 DEF Undisturbed
  <2> QED BY Zenon, <1>0, <1>2, <1>3, <2>4, SettledKeep
<1> QED BY Zenon, <1>3, <1>6, <1>11, <1>12 DEF Good, Sound

\* another slot is set to the same value, whose count goes up
Copies(r, q, m, l, s, t) == q = [r EXCEPT ![t] = r[s]] /\ l = [m EXCEPT ![t] = m[s]]
OneMore(h, n, o) ==
  /\ Recounted(h, n) /\ \A p \in Objs : p # o => n.ref[p] = h.ref[p]
  /\ n.ref[o] = h.ref[o] + 1

\* inc_ref: an empty slot takes the object of another and its count is one more.
LEMMA CopyGood ==
  ASSUME NEW h, NEW r, NEW m, Good(h, r, m), NEW s \in Slots, r[s] # Null,
         NEW t \in Slots, r[t] = Null, h.marked => t \in Locals, m[s] \notin RawObjs,
         NEW n, OneMore(h, n, m[s]), NEW q, NEW l, Copies(r, q, m, l, s, t)
  PROVE  Good(n, q, l) /\ Kept(h, n)
<1> USE DEF OneMore, Copies
<1> DEFINE o == m[s]
<1>0. /\ Sound(h, r, m) /\ Layout(h) /\ Shape(h) /\ Pointing(h, r, m) /\ Counting(h, m)
      /\ Settled(h, m) /\ FreeListOK(h)
  BY Zenon DEF Good, Sound, Layout
<1>1. o # NoObj /\ o \in Objs /\ o \in Allocated(h) /\ s \in FromSlots(m, o)
  BY <1>0, SlotObject
<1>2. /\ Shape(n) /\ SameBlocks(h, n) /\ n.ptr = h.ptr /\ n.holds = h.holds /\ n.marked = h.marked
  BY Zenon DEF Recounted, SameBlocks
<1>3. /\ Layout(n) /\ Allocated(n) = Allocated(h) /\ Old(n) = Old(h) /\ FreeListOK(n) /\ Kept(h, n)
      /\ \A p : Target(n, p) = Target(h, p)
  BY Zenon, <1>0, <1>2, SameBlocksView
<1>4. /\ r \in [Slots -> Pointer] /\ m \in [Slots -> Object] /\ m[t] = NoObj
  BY Zenon, <1>0 DEF Pointing, Leads
<1>5. /\ q \in [Slots -> Pointer] /\ l \in [Slots -> Object] /\ q[t] = r[s] /\ l[t] = o
      /\ \A u \in Slots : u # t => q[u] = r[u] /\ l[u] = m[u]
  BY Zenon, <1>4
<1>6. Pointing(n, q, l)
  <2>1. Leads(n, r[s], o)
    BY Zenon, <1>0, <1>2, LeadsSame DEF Pointing
  <2>2. \A u \in Slots : Leads(n, q[u], l[u])
    BY Zenon, <1>0, <1>2, <1>5, <2>1, LeadsSame DEF Pointing
  <2>3. \A p \in Objs : Leads(n, n.ptr[p], n.holds[p])
    BY Zenon, <1>0, <1>2, LeadsSame DEF Pointing
  <2>4. /\ \A p \in Objs \ Allocated(n) : n.holds[p] = NoObj
        /\ \A p \in RawObjs : n.holds[p] = NoObj
        /\ \A p \in Objs : n.holds[p] \notin RawObjs
    BY Zenon, <1>0, <1>2, <1>3 DEF Pointing
  <2>5. \A v, u \in Slots : l[v] = l[u] => l[v] \notin RawObjs \/ v = u
    <3>2. \A v, u \in Slots : m[v] = m[u] => m[v] \notin RawObjs \/ v = u
      BY Zenon, <1>0 DEF Pointing
    <3> QED BY Zenon, <1>5, <3>2
  <2> QED BY Zenon, <1>5, <2>2, <2>3, <2>4, <2>5 DEF Pointing
<1>7. FromSlots(l, o) = FromSlots(m, o) \cup {t} /\ t \notin FromSlots(m, o)
  BY Zenon, <1>1, <1>4, <1>5 DEF FromSlots
<1>8. \A p : p # NoObj /\ p # o => FromSlots(l, p) = FromSlots(m, p)
  BY Zenon, <1>4, <1>5 DEF FromSlots
<1>9. \A p : FromObjs(n, p) = FromObjs(h, p)
  BY Zenon, <1>2 DEF FromObjs
<1>10. Refs(n, l, o) = Refs(h, m, o) + 1 /\ Refs(h, m, o) \in Nat
  <2>1. /\ IsFiniteSet(FromSlots(m, o)) /\ Cardinality(FromObjs(h, o)) \in Nat
        /\ Cardinality(FromSlots(m, o)) \in Nat
    BY Zenon, RefsFinite
  <2>2. Cardinality(FromSlots(m, o) \cup {t}) = Cardinality(FromSlots(m, o)) + 1
    <3> HIDE DEF o
    <3> QED BY Zenon, <1>7, <2>1, FS_AddElement
  <2>3. Cardinality(FromSlots(l, o)) = Cardinality(FromSlots(m, o)) + 1
    BY Zenon, <1>7, <2>2
  <2>4. Refs(h, m, o) = Cardinality(FromSlots(m, o)) + Cardinality(FromObjs(h, o))
    BY Zenon DEF Refs
  <2>5. Refs(n, l, o) = Cardinality(FromSlots(l, o)) + Cardinality(FromObjs(h, o))
    BY Zenon, <1>9 DEF Refs
  <2> HIDE DEF o
  <2> QED BY <2>1, <2>3, <2>4, <2>5
<1>11. Counting(n, l)
  <2> SUFFICES ASSUME NEW p \in Allocated(n) \ RawObjs
               PROVE  /\ n.ref[p] >= Refs(n, l, p)
                      /\ ~n.marked \/ p \notin Old(n) => n.ref[p] = Refs(n, l, p)
    BY Zenon DEF Counting
  <2>1. p \in Allocated(h) \ RawObjs /\ p \in Objs /\ p # NoObj
    BY Zenon, <1>0, <1>3, ObjectsTyped
  <2>2. /\ h.ref[p] >= Refs(h, m, p)
        /\ ~n.marked \/ p \notin Old(n) => h.ref[p] = Refs(h, m, p)
    BY Zenon, <1>0, <1>2, <1>3, <2>1 DEF Counting
  <2>3. h.ref[p] \in Nat
    BY Zenon, <1>0, <2>1, ShapeFields
  <2>4. CASE p = o
    <3>1. n.ref[p] = h.ref[p] + 1 /\ Refs(n, l, p) = Refs(h, m, p) + 1 /\ Refs(h, m, p) \in Nat
      BY Zenon, <1>10, <2>1, <2>4
    <3>2. n.ref[p] >= Refs(n, l, p)
      BY <2>2, <2>3, <3>1
    <3>3. h.ref[p] = Refs(h, m, p) => n.ref[p] = Refs(n, l, p)
      BY Zenon, <3>1
    <3> QED BY Zenon, <2>2, <3>2, <3>3
  <2>5. CASE p # o
    <3>1. n.ref[p] = h.ref[p]
      BY Zenon, <2>1, <2>5
    <3>2. Refs(n, l, p) = Refs(h, m, p)
      BY Zenon, <1>8, <1>9, <2>1, <2>5 DEF Refs
    <3> QED BY Zenon, <2>2, <3>1, <3>2
  <2> QED BY Zenon, <2>4, <2>5
<1>12. Settled(n, l)
  <2>1. h.marked => \A u \in Statics : l[u] = m[u]
    BY <1>5, SlotsTyped
  <2>2. \A p \in Old(h) : p # NoObj
    BY Zenon, <1>0, ObjectsTyped
  <2>3. \A p \in Old(h) : FromSlots(m, p) = {} /\ FromObjs(h, p) = {}
                          => FromSlots(l, p) = {} /\ FromObjs(n, p) = {}
    BY Zenon, <1>1, <1>8, <1>9, <2>2
  <2>4. h.marked => Undisturbed(h, m, n, l)
    BY Zenon, <1>2, <2>1, <2>3 DEF Undisturbed
  <2> QED BY Zenon, <1>0, <1>2, <1>3, <2>4, SettledKeep
<1> QED BY Zenon, <1>3, <1>6, <1>11, <1>12 DEF Good, Sound

\* a value with one reference, from a slot that the program may write, is not
\* one that Release keeps
LEMMA SoleReference ==
  ASSUME NEW h, NEW r, NEW m, Sound(h, r, m), NEW s \in Slots, r[s] # Null,
         h.marked => s \in Locals, h.ref[m[s]] = 1, m[s] \notin RawObjs, h.marked
  PROVE  m[s] \notin Old(h)
<1> DEFINE o == m[s]
<1> SUFFICES ASSUME o \in Old(h) PROVE FALSE
  BY Zenon
<1>0. Counting(h, m) /\ Settled(h, m) /\ Shape(h)
  BY Zenon DEF Sound, Layout
<1>1. o \in Allocated(h) /\ s \in FromSlots(m, o) /\ o \in Objs /\ s \in Locals
  BY SlotObject
<1>2. /\ IsFiniteSet(FromSlots(m, o)) /\ IsFiniteSet(FromObjs(h, o))
      /\ Cardinality(FromSlots(m, o)) \in Nat /\ Cardinality(FromObjs(h, o)) \in Nat
  BY Zenon, RefsFinite
<1>3. Cardinality(FromSlots(m, o)) + Cardinality(FromObjs(h, o)) <= 1
  <2>1. 1 >= Refs(h, m, o)
    BY Zenon, <1>0, <1>1 DEF Counting
  <2> QED BY Zenon, <1>2, <2>1 DEF Refs
<1>4. Cardinality(FromSlots(m, o)) >= 1
  <2>1. Cardinality(FromSlots(m, o)) # 0
    <3> HIDE DEF o
    <3> QED BY Zenon, <1>1, <1>2, FS_EmptySet
  <2> HIDE DEF o
  <2> QED BY <1>2, <2>1
<1>5. FromObjs(h, o) = {}
  <2>1. Cardinality(FromObjs(h, o)) = 0
    <3> HIDE DEF o
    <3> QED BY <1>2, <1>3, <1>4
  <2> HIDE DEF o
  <2> QED BY Zenon, <1>2, <2>1, FS_EmptySet
<1>6. FromSlots(m, o) = {s}
  <2>1. Cardinality(FromSlots(m, o)) = 1
    <3> HIDE DEF o
    <3> QED BY <1>2, <1>3, <1>4
  <2>2. PICK u : FromSlots(m, o) = {u}
    <3> HIDE DEF o
    <3> QED BY Zenon, <1>2, <2>1, FS_Singleton
  <2> QED BY Zenon, <1>1, <2>2
<1>7. \/ \E t \in Statics : m[t] = o
      \/ \E p \in Old(h) : h.holds[p] = o
  BY Zenon, <1>0, <1>1 DEF Settled
<1>8. ASSUME NEW t \in Statics, m[t] = o PROVE FALSE
  <2>1. t \in FromSlots(m, o)
    BY Zenon, <1>8, SlotsTyped DEF FromSlots
  <2>2. t = s
    BY Zenon, <1>6, <2>1
  <2> QED BY Zenon, <1>1, <2>2, SlotsTyped
<1>9. ASSUME NEW p \in Old(h), h.holds[p] = o PROVE FALSE
  <2>1. p \in FromObjs(h, o)
    BY Zenon, <1>0, <1>9, ObjectsTyped DEF FromObjs
  <2> QED BY Zenon, <1>5, <2>1
<1> QED BY Zenon, <1>7, <1>8, <1>9

\* object o is set to hold what slot t holds
Sets(h, n, o, e, p) ==
  /\ Shape(n) /\ SameBlocks(h, n)
  /\ n.ptr[o] = p /\ n.holds[o] = e /\ n.ref[e] = h.ref[e] + 1
  /\ \A x \in Objs : x # o => n.ptr[x] = h.ptr[x] /\ n.holds[x] = h.holds[x]
  /\ \A x \in Objs : x # e => n.ref[x] = h.ref[x]

\* The step that SetElement takes.
LEMMA SetsElement ==
  ASSUME NEW h, Shape(h), NEW o \in Objs, NEW e \in Objs, NEW p \in Pointer
  PROVE  Sets(h, [h EXCEPT !.ptr[o] = p, !.holds[o] = e, !.ref[e] = @ + 1], o, e, p)
<1> DEFINE ptr == [h.ptr EXCEPT ![o] = p]
           holds == [h.holds EXCEPT ![o] = e]
           ref == [h.ref EXCEPT ![e] = @ + 1]
           n == [h EXCEPT !.ptr = ptr, !.holds = holds, !.ref = ref]
<1>0. h.ref \in [Objs -> Nat] /\ h.ptr \in [Objs -> Pointer] /\ h.holds \in [Objs -> Object]
  BY Zenon, ShapeFields
<1>1. ptr \in [Objs -> Pointer] /\ ptr[o] = p /\ \A x \in Objs : x # o => ptr[x] = h.ptr[x]
  BY Zenon, <1>0
<1>2. holds \in [Objs -> Object] /\ holds[o] = e /\ \A x \in Objs : x # o => holds[x] = h.holds[x]
  BY Zenon, <1>0 DEF Object
<1>3. ref \in [Objs -> Nat] /\ ref[e] = h.ref[e] + 1 /\ \A x \in Objs : x # e => ref[x] = h.ref[x]
  BY <1>0
<1>4. h \in HeapType /\ \A c \in DOMAIN h.chunk : Tidy(h.chunk[c])
  BY Zenon DEF Shape
<1>5. [h EXCEPT !.ptr[o] = p, !.holds[o] = e, !.ref[e] = @ + 1] = n
  BY Zenon, <1>4 DEF HeapType
<1> HIDE DEF ptr, holds, ref
<1>8. /\ n \in HeapType /\ SameBlocks(h, n) /\ n.ref = ref /\ n.ptr = ptr /\ n.holds = holds
      /\ n.chunk = h.chunk
  BY Zenon, <1>1, <1>2, <1>3, <1>4 DEF HeapType, SameBlocks
<1> HIDE DEF n
<1>9. Shape(n)
  BY Zenon, <1>4, <1>8 DEF Shape
<1>10. Sets(h, n, o, e, p)
  BY Zenon, <1>1, <1>2, <1>3, <1>8, <1>9 DEF Sets
<1> QED BY Zenon, <1>5, <1>10

\* An element is stored in a value whose only reference is a slot that may be
\* written; such a value is never old.
LEMMA ElementGood ==
  ASSUME NEW h, NEW r, NEW m, Good(h, r, m), NEW s \in Slots, NEW t \in Slots,
         r[s] # Null, r[t] # Null, h.marked => s \in Locals,
         m[s] # m[t], m[s] \notin RawObjs, m[t] \notin RawObjs,
         h.ref[m[s]] = 1, h.ptr[m[s]] = Null, NEW n, Sets(h, n, m[s], m[t], r[t])
  PROVE  Good(n, r, m) /\ Kept(h, n)
<1> DEFINE o == m[s]
           e == m[t]
<1>0. /\ Sound(h, r, m) /\ Layout(h) /\ Shape(h) /\ Pointing(h, r, m) /\ Counting(h, m)
      /\ Settled(h, m) /\ FreeListOK(h)
  BY Zenon DEF Good, Sound, Layout
<1>1. /\ o # NoObj /\ o \in Objs /\ o \in Allocated(h) /\ s \in FromSlots(m, o)
      /\ e # NoObj /\ e \in Objs /\ e \in Allocated(h) /\ t \in FromSlots(m, e)
  BY <1>0, SlotObject
<1>2. /\ Shape(n) /\ SameBlocks(h, n) /\ n.marked = h.marked
      /\ n.ptr[o] = r[t] /\ n.holds[o] = e /\ n.ref[e] = h.ref[e] + 1
      /\ \A x \in Objs : x # o => n.ptr[x] = h.ptr[x] /\ n.holds[x] = h.holds[x]
      /\ \A x \in Objs : x # e => n.ref[x] = h.ref[x]
  BY Zenon DEF Sets, SameBlocks
<1>3. /\ Layout(n) /\ Allocated(n) = Allocated(h) /\ Old(n) = Old(h) /\ FreeListOK(n) /\ Kept(h, n)
      /\ \A p : Target(n, p) = Target(h, p)
  BY <1>0, <1>2, SameBlocksView
<1>4. h.holds[o] = NoObj
  BY Zenon, <1>0, <1>1 DEF Pointing, Leads
<1>5. h.marked => o \notin Old(h)
  BY Zenon, <1>0, SoleReference
<1>6. Pointing(n, r, m)
  <2>1. Leads(n, r[t], e)
    BY Zenon, <1>0, <1>2, LeadsSame DEF Pointing
  <2>2. \A u \in Slots : Leads(n, r[u], m[u])
    BY Zenon, <1>0, <1>2, LeadsSame DEF Pointing
  <2>3. \A p \in Objs : Leads(n, n.ptr[p], n.holds[p])
    <3>1. \A p \in Objs : Leads(h, h.ptr[p], h.holds[p])
      BY Zenon, <1>0 DEF Pointing
    <3>2. \A p \in Objs : Leads(n, h.ptr[p], h.holds[p])
      BY Zenon, <1>0, <1>2, <3>1, LeadsSame
    <3> HIDE DEF o, e
    <3> QED BY Zenon, <1>2, <2>1, <3>2
  <2>4. /\ \A p \in Objs \ Allocated(h) : h.holds[p] = NoObj
        /\ \A p \in RawObjs : h.holds[p] = NoObj
        /\ \A p \in Objs : h.holds[p] \notin RawObjs
        /\ \A v, u \in Slots : m[v] = m[u] => m[v] \notin RawObjs \/ v = u
        /\ r \in [Slots -> Pointer] /\ m \in [Slots -> Object]
    BY Zenon, <1>0 DEF Pointing
  <2>5. RawObjs \subseteq Objs
    BY Zenon, SizesAssumption
  <2>6. /\ \A p \in Objs \ Allocated(n) : n.holds[p] = NoObj
        /\ \A p \in RawObjs : n.holds[p] = NoObj
        /\ \A p \in Objs : n.holds[p] \notin RawObjs
    BY Zenon, <1>1, <1>2, <1>3, <2>4, <2>5
  <2> QED BY Zenon, <2>2, <2>3, <2>4, <2>6 DEF Pointing
<1>7. FromObjs(n, e) = FromObjs(h, e) \cup {o} /\ o \notin FromObjs(h, e)
  BY <1>1, <1>2, <1>4 DEF FromObjs
<1>8. \A p : p # NoObj /\ p # e => FromObjs(n, p) = FromObjs(h, p)
  BY <1>1, <1>2, <1>4 DEF FromObjs
<1>10. Refs(n, m, e) = Refs(h, m, e) + 1 /\ Refs(h, m, e) \in Nat
  <2>1. /\ IsFiniteSet(FromObjs(h, e)) /\ Cardinality(FromObjs(h, e)) \in Nat
        /\ Cardinality(FromSlots(m, e)) \in Nat
    BY Zenon, RefsFinite
  <2>2. Cardinality(FromObjs(h, e) \cup {o}) = Cardinality(FromObjs(h, e)) + 1
    <3> HIDE DEF o, e
    <3> QED BY Zenon, <1>7, <2>1, FS_AddElement
  <2>3. Cardinality(FromObjs(n, e)) = Cardinality(FromObjs(h, e)) + 1
    BY Zenon, <1>7, <2>2
  <2>4. /\ Refs(h, m, e) = Cardinality(FromSlots(m, e)) + Cardinality(FromObjs(h, e))
        /\ Refs(n, m, e) = Cardinality(FromSlots(m, e)) + Cardinality(FromObjs(n, e))
    BY Zenon DEF Refs
  <2> HIDE DEF o, e
  <2> QED BY <2>1, <2>3, <2>4
<1>11. Counting(n, m)
  <2> SUFFICES ASSUME NEW p \in Allocated(n) \ RawObjs
               PROVE  /\ n.ref[p] >= Refs(n, m, p)
                      /\ ~n.marked \/ p \notin Old(n) => n.ref[p] = Refs(n, m, p)
    BY Zenon DEF Counting
  <2>1. p \in Allocated(h) \ RawObjs /\ p \in Objs /\ p # NoObj
    BY Zenon, <1>0, <1>3, ObjectsTyped
  <2>2. /\ h.ref[p] >= Refs(h, m, p)
        /\ ~n.marked \/ p \notin Old(n) => h.ref[p] = Refs(h, m, p)
    BY Zenon, <1>0, <1>2, <1>3, <2>1 DEF Counting
  <2>3. h.ref[p] \in Nat
    BY Zenon, <1>0, <2>1, ShapeFields
  <2>4. CASE p = e
    <3>1. n.ref[p] = h.ref[p] + 1 /\ Refs(n, m, p) = Refs(h, m, p) + 1 /\ Refs(h, m, p) \in Nat
      BY Zenon, <1>2, <1>10, <2>1, <2>4
    <3>2. n.ref[p] >= Refs(n, m, p)
      BY <2>2, <2>3, <3>1
    <3>3. h.ref[p] = Refs(h, m, p) => n.ref[p] = Refs(n, m, p)
      BY Zenon, <3>1
    <3> QED BY Zenon, <2>2, <3>2, <3>3
  <2>5. CASE p # e
    <3>1. n.ref[p] = h.ref[p]
      BY Zenon, <1>2, <2>1, <2>5
    <3>2. Refs(n, m, p) = Refs(h, m, p)
      BY Zenon, <1>8, <2>1, <2>5 DEF Refs
    <3> QED BY Zenon, <2>2, <3>1, <3>2
  <2> QED BY Zenon, <2>4, <2>5
<1>12. Settled(n, m)
  <2>2. \A p \in Old(h) : p # NoObj /\ p \in Objs
    BY Zenon, <1>0, ObjectsTyped
  <2>3. \A p \in Old(h) : FromSlots(m, p) = {} /\ FromObjs(h, p) = {}
                          => FromObjs(n, p) = {}
    BY Zenon, <1>1, <1>8, <2>2
  <2>5. h.marked => \A p \in Old(h) : n.holds[p] = h.holds[p]
    BY Zenon, <1>2, <1>5, <2>2
  <2>4. h.marked => Undisturbed(h, m, n, m)
    BY Zenon, <2>3, <2>5 DEF Undisturbed
  <2> QED BY Zenon, <1>0, <1>2, <1>3, <2>4, SettledKeep
<1> QED BY Zenon, <1>3, <1>6, <1>11, <1>12 DEF Good, Sound

\* FREE of what has no reference count, when its only slot is cleared
LEMMA FreeRawGood ==
  ASSUME NEW h, NEW r, NEW m, Good(h, r, m), NEW s \in Slots, r[s] # Null,
         h.marked => s \in Locals, m[s] \in RawObjs,
         NEW q, NEW l, Clears(r, q, m, l, s)
  PROVE  LET g == Free(h, {m[s]})
         IN  /\ Good(g, q, l) /\ (h.marked => Kept(h, g))
             /\ g.marked = h.marked /\ g.postMark = h.postMark
<1> DEFINE o == m[s]
           D == {o}
           g == Free(h, D)
           ref == h.ref
<1>0. /\ Sound(h, r, m) /\ Layout(h) /\ Shape(h) /\ Pointing(h, r, m) /\ Settled(h, m)
      /\ FreeListOK(h) /\ h \in HeapType
  BY Zenon DEF Good, Sound, Layout, Shape
<1>1. o # NoObj /\ o \in Objs /\ o \in Allocated(h) /\ s \in FromSlots(m, o)
  BY <1>0, SlotObject
<1>2. OneLess(h, h, m[s])
  BY Zenon, <1>0 DEF OneLess, Recounted, SameBlocks
<1>3. Good(h, q, l)
  BY Zenon, <1>2, ClearGood
<1> USE DEF Clears
<1>4. FromSlots(l, o) = {}
  <2>1. m \in [Slots -> Object] /\ \A t, u \in Slots : m[t] = m[u] => m[t] \notin RawObjs \/ t = u
    BY Zenon, <1>0 DEF Pointing
  <2>2. \A t \in Slots : l[t] # o
    BY Zenon, <1>1, <2>1
  <2> QED BY Zenon, <2>2 DEF FromSlots
<1>5. FromObjs(h, o) = {} /\ h.holds[o] = NoObj
  BY Zenon, <1>0 DEF Pointing, FromObjs
<1>6. h.marked => o \notin Old(h)
  <2> SUFFICES ASSUME h.marked, o \in Old(h) PROVE FALSE
    BY Zenon
  <2>1. \E t \in Statics : m[t] = o
    BY Zenon, <1>0, <1>1, <1>5, ObjectsTyped DEF Settled, FromObjs
  <2>2. PICK t \in Statics : m[t] = o
    BY Zenon, <2>1
  <2>3. t = s
    BY Zenon, <1>0, <2>2, SlotsTyped DEF Pointing
  <2> QED BY Zenon, <2>3, SlotsTyped
<1>7. Closed(h, l, D)
  BY Zenon, <1>1, <1>4, <1>5, <1>6 DEF Closed
<1>8. D \in SUBSET Objs /\ ref \in [Objs -> Nat]
  BY Zenon, <1>0, <1>1, ShapeFields
<1>9. DeletedRef(h, D) = ref
  <2>1. ASSUME NEW p \in Objs PROVE Cardinality(Pointers(h, D, p)) = 0 /\ ref[p] \in Nat
    <3>1. h.ptr[o] = Null
      BY Zenon, <1>0, <1>1, <1>5 DEF Pointing, Leads
    <3>2. Pointers(h, D, p) = {}
      BY Zenon, <3>1 DEF Pointers
    <3> QED BY Zenon, <1>8, <3>2, FS_EmptySet
  <2>2. \A p \in Objs : ref[p] - Cardinality(Pointers(h, D, p)) = ref[p]
    BY <2>1
  <2>3. [p \in Objs |-> ref[p] - Cardinality(Pointers(h, D, p))] = [p \in Objs |-> ref[p]]
    BY Zenon, <2>2
  <2> QED BY Zenon, <1>8, <2>3 DEF DeletedRef
<1>10. g = FreeWith(h, ref, D)
  <2>1. [h EXCEPT !.ref = h.ref] = h
    BY Zenon, <1>0 DEF HeapType
  <2> QED BY Zenon, <2>1 DEF FreeWith
<1> HIDE DEF D, g, ref, o
<1>11. Sound(g, q, l)
  BY Zenon, <1>3, <1>7, <1>9, <1>10, DeleteSound DEF Good
<1>12. ListOK(h) => ListOK(g)
  BY Zenon, <1>0, <1>8, <1>10, FreeLists
<1>13. FreeSpec(h, ref, D, g)
  BY Zenon, <1>0, <1>8, <1>10, FreeView
<1>14. FreeListOK(g) /\ g.marked = h.marked /\ g.postMark = h.postMark
  BY Zenon, <1>0, <1>12, <1>13 DEF FreeListOK, FreeSpec
<1>15. h.marked => Kept(h, g)
  BY Zenon, <1>0, <1>6, <1>8, <1>10, FreeKept DEF D
<1> QED BY Zenon, <1>11, <1>14, <1>15 DEF Good, g, D, o
=============================================================================
