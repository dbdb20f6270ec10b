------------------------------ MODULE TopHeap ------------------------------
(***************************************************************************)
(* SzlTopHeap (src/src/emitters/szltopheap.cc): the candidates of a top    *)
(* table, in a heap whose root has the smallest weight.  Positions count   *)
(* from 0 as in the code, sequences from 1.  A heap is a record: at is     *)
(* heap_, the elements in heap order, pos the position that each Elem      *)
(* keeps of itself (Elem::heap), and weight their weights; hash_ is the    *)
(* set of elements in at.                                                  *)
(***************************************************************************)
EXTENDS Integers, Sequences, SequencesExt

At(t, h) == t.at[h + 1]
WeightAt(t, h) == t.weight[At(t, h)]
Parent(h) == (h - 1) \div 2

\* heap_[h] = e; e->heap = h
Put(t, h, e) == [t EXCEPT !.at[h + 1] = e, !.pos[e] = h]

\* e, found at h, moves up past the parents that are larger
RECURSIVE Rise(_, _, _)
Rise(t, h, e) ==
  IF h = 0 \/ ~(t.weight[e] < WeightAt(t, Parent(h))) THEN Put(t, h, e)
  ELSE Rise(Put(t, h, At(t, Parent(h))), Parent(h), e)
FixHeapUp(t, h) == Rise(t, h, At(t, h))

\* Defect: the right child is never looked at.
LeftKid(t, h, n) == 2 * h + 1

\* the smaller child of h among the first n; the left one when they are equal
SmallKid(t, h, n) ==
  LET kid == 2 * h + 1
  IN  IF kid + 1 < n /\ WeightAt(t, kid + 1) < WeightAt(t, kid) THEN kid + 1 ELSE kid

\* e, found at h, moves down past the children that are not larger
RECURSIVE Sink(_, _, _, _)
Sink(t, h, n, e) ==
  LET kid == SmallKid(t, h, n)
  IN  IF 2 * h + 1 >= n \/ t.weight[e] < WeightAt(t, kid) THEN Put(t, h, e)
      ELSE Sink(Put(t, h, At(t, kid)), kid, n, e)
FixHeapDown(t, h, n) == Sink(t, h, n, At(t, h))

FixHeap(t, h) ==
  IF h # 0 /\ WeightAt(t, h) < WeightAt(t, Parent(h)) THEN FixHeapUp(t, h)
  ELSE FixHeapDown(t, h, Len(t.at))

Smallest(t) == t.at[1]

Find(t, e) == e \in ToSet(t.at)

AddNewElem(t, e, w) ==
  FixHeapUp([t EXCEPT !.at = Append(@, e), !.weight[e] = w, !.pos[e] = Len(t.at)],
            Len(t.at))

\* the Elem object at the root takes another value and weight
ReplaceSmallest(t, e, w) ==
  FixHeapDown([t EXCEPT !.at[1] = e, !.weight[e] = w, !.weight[Smallest(t)] = 0,
                        !.pos[e] = t.pos[Smallest(t)], !.pos[Smallest(t)] = 0],
              0, Len(t.at))

AddToWeight(t, w, e) == FixHeap([t EXCEPT !.weight[e] = @ + w], t.pos[e])

\* the root goes to the end of what is still a heap, over and over
RECURSIVE SortDown(_, _)
SortDown(t, n) ==
  IF n <= 1 THEN t
  ELSE SortDown(FixHeapDown([t EXCEPT !.at[1] = At(t, n - 1), !.at[n] = At(t, 0)], 0, n - 1),
                n - 1)

Sort(t) == SortDown(t, Len(t.at))

\* the reverse of a sorted heap_, with its positions
ReHeap(t) ==
  LET r == Reverse(t.at)
  IN  [t EXCEPT !.at = r,
                !.pos = [e \in DOMAIN @ |-> IF Find(t, e) THEN (CHOOSE i \in 1..Len(r) : r[i] = e) - 1
                                            ELSE @[e]]]

\* (one element: the code's own IsHeap does not look at position 0)
IsHeap(t) ==
  \A h \in 1..Len(t.at) - 1 :
    ~(WeightAt(t, h) < WeightAt(t, Parent(h))) /\ t.pos[At(t, h)] = h

EmptyHeap(Elems) == [at |-> <<>>, pos |-> [e \in Elems |-> 0], weight |-> [e \in Elems |-> 0]]
=============================================================================
