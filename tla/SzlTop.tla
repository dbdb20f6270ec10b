------------------------------- MODULE SzlTop -------------------------------
(***************************************************************************)
(* Top tables (src/src/emitters/szltop.cc): the candidates in a heap, the  *)
(* weights of all other elements in a sketch.  An element is a pair of a   *)
(* value and its weight.  The string of an entry is the record of what     *)
(* Flush encodes and Merge decodes.                                        *)
(***************************************************************************)
EXTENDS TopHeap, Sketch, FiniteSetsExt

CONSTANTS Emitters, Indices, Elems, MaxEmits,
          Param,     \* param(): how many elements are displayed
          MaxElems,  \* tops_.maxElems(), the candidates kept (param * 10)
          NoSketch   \* sketch_ = NULL

VARIABLES table, written, emitted, failed

Values == {x[1] : x \in Elems}

CreateEntry == {[tops |-> EmptyHeap(Values), sketch |-> NoSketch, tot |-> 0]}

-----------------------------------------------------------------------------
Lazy(k) == IF k = NoSketch THEN NewSketch ELSE k

\* e takes the place of the smallest candidate, which goes to the sketch
Swap(n, e, w) ==
  LET sw == Estimate(n.sketch, e)
      worst == Smallest(n.tops)
  IN  [n EXCEPT !.sketch = AddSub(AddSub(n.sketch, e, sw, 0), worst, n.tops.weight[worst], 1),
                !.tops = ReplaceSmallest(n.tops, e, w + sw)]

\* a full heap and an element that is not in it
AddToSketch(n, e, w) ==
  IF w + Estimate(n.sketch, e) < n.tops.weight[Smallest(n.tops)]
  THEN [n EXCEPT !.sketch = AddSub(n.sketch, e, w, 1)]
  ELSE Swap(n, e, w)

AddWeightedElem(n, e, w) ==
  LET m == [n EXCEPT !.tot = @ + 1]
  IN  CASE MaxElems = 0 -> m
        [] Find(m.tops, e) -> [m EXCEPT !.tops = AddToWeight(m.tops, w, e)]
        [] MaxElems # 0 /\ ~Find(m.tops, e) /\ Len(m.tops.at) # MaxElems ->
             [m EXCEPT !.tops = AddNewElem(m.tops, e, w)]
        [] OTHER -> AddToSketch([m EXCEPT !.sketch = Lazy(@)], e, w)
AddElem(n, x) == {AddWeightedElem(n, x[1], x[2])}

-----------------------------------------------------------------------------
\* Defect: all elements are counted as extra.
EncodeAll(n) ==
  [extra |-> n.tot, vals |-> Sort(n.tops).at, weight |-> n.tops.weight, sketch |-> n.sketch]

Encode(n) ==
  [extra |-> n.tot - Len(n.tops.at), vals |-> Sort(n.tops).at,
   weight |-> n.tops.weight, sketch |-> n.sketch]

Flush(n) == IF n.tops.at = <<>> THEN <<>> ELSE <<Encode(n)>>

\* what is put out: the weights of the first Param of the sorted heap
FlushForDisplay(n) ==
  [i \in 1..Min({Len(n.tops.at), Param}) |-> n.tops.weight[Sort(n.tops).at[i]]]
AfterDisplay(n) == IF n.tot = 0 THEN n ELSE [n EXCEPT !.tops = ReHeap(Sort(@))]

-----------------------------------------------------------------------------
\* Merge, "Adjust existing candidates' weights": position after position of
\* the heap, while AddToWeight moves its elements; x is the entry and the
\* sketch of the string
AdjustAt(x, h) ==
  LET e == At(x.tops, h)
      w == Estimate(x.new, e)
  IN  [tops |-> AddToWeight(x.tops, w, e), new |-> AddSub(x.new, e, w, 0)]
RECURSIVE AdjustFrom(_, _)
AdjustFrom(x, h) == IF h = Len(x.tops.at) THEN x ELSE AdjustFrom(AdjustAt(x, h), h + 1)
Adjust(n, k) ==
  IF k = NoSketch THEN [tops |-> n.tops, new |-> k]
  ELSE AdjustFrom([tops |-> n.tops, new |-> k], 0)

\* "Combine the two sketches": m is the new one after the adjustment
Combine(k, m) == IF m = NoSketch THEN k
                 ELSE IF k = NoSketch THEN m ELSE AddSketch(k, m)

MergeVal(n, v) ==
  LET x == Adjust(n, v.sketch)
      m == FoldLeft(LAMBDA a, e : AddWeightedElem(a, e, v.weight[e]),
                    [n EXCEPT !.tops = x.tops], v.vals)
  IN  [m EXCEPT !.sketch = Combine(@, x.new), !.tot = @ + v.extra]

Merge(n, val) ==
  CASE val = <<>> -> {[ok |-> TRUE, entry |-> n]}
    [] val # <<>> /\ Len(val[1].vals) > MaxElems -> {[ok |-> FALSE, entry |-> n]}
    [] OTHER -> {[ok |-> TRUE, entry |-> MergeVal(n, val[1])]}

INSTANCE SzlEmitter

-----------------------------------------------------------------------------
(* Properties.                                                             *)

Entries == {table[h[1]][h[2]] : h \in Held}

\* After every operation, displays included, the candidates are a heap and
\* know their positions, which AddToWeight relies on when it starts at e->heap
\* (szltopheap.cc IsHeap, asserted at the end of ReHeap).
HeapOrdered ==
  \A n \in Entries :
    /\ IsHeap(n.entry.tops)
    /\ n.entry.tops.at # <<>> => n.entry.tops.pos[Smallest(n.entry.tops)] = 0

Signed(e, i, w) == IF Sign[e][i] = 1 THEN -w ELSE w
HeldIn(at, weight, k, i, c) ==
  MapThenSumSet(LAMBDA e : Signed(e, i, weight[e]), {e \in ToSet(at) : Cell[e][i] = c})
  + (IF k = NoSketch THEN 0 ELSE k[i][c])
EmittedIn(seen, i, c) ==
  MapThenSumSet(LAMBDA x : Signed(x[1], i, seen[x] * x[2]), {x \in Elems : Cell[x[1]][i] = c})

\* No weight is lost or counted twice, however elements collide in the sketch
\* and move between it and the candidates, at emits, flushes and merges: in
\* every cell of every table of an entry, what the sketch holds and what the
\* candidates that hash there weigh is what was emitted (AddWeightedElem, Merge).
WeightConserved ==
  \A n \in Entries : \A i \in Tabs, c \in 1..TabSize :
    HeldIn(n.entry.tops.at, n.entry.tops.weight, n.entry.sketch, i, c) = EmittedIn(n.seen, i, c)

\* The count of an entry is the number of emits in it, although Flush takes
\* the candidates out of the count and Merge adds them one by one; the
\* candidates are distinct and at most MaxElems.
CountConserved ==
  \A n \in Entries :
    /\ n.entry.tot = Count(n.seen)
    /\ Len(n.entry.tops.at) <= MaxElems
    /\ Cardinality(ToSet(n.entry.tops.at)) = Len(n.entry.tops.at)

\* What is displayed is in descending order of weight, and as many elements as
\* there are candidates, at most Param, none of them lighter than a candidate
\* that is left out (FlushForDisplay, Sort).
DisplaySorted ==
  \A n \in Entries : n.entry.tot # 0 =>
    LET d == FlushForDisplay(n.entry)
    IN  /\ \A i \in 1..Len(d) - 1 : d[i] >= d[i + 1]
        /\ Len(d) \in 1..Param
        /\ \A e \in ToSet(n.entry.tops.at) :
             n.entry.tops.weight[e] > d[Len(d)] => \E i \in DOMAIN d : d[i] = n.entry.tops.weight[e]

\* When no two elements share a cell of the sketch, Merge moves what the new
\* sketch holds of a candidate to its weight, all of it and once, although the
\* loop may come to a candidate twice; or not at all, because the candidate
\* moved up past the loop: never for the smallest one, where the loop begins.
\* (the comment "Adjust existing candidates' weights" has no exception)
AdjustedOnce ==
  \A n \in Entries, w \in BagToSet(written) :
    LET tops == n.entry.tops
        k == w.val[1].sketch
        x == Adjust(n.entry, k)
    IN  k # NoSketch => \A e \in ToSet(tops.at) :
          \/ x.tops.weight[e] = tops.weight[e] + Estimate(k, e) /\ Estimate(x.new, e) = 0
          \/ /\ x.tops.weight[e] = tops.weight[e] /\ Estimate(x.new, e) = Estimate(k, e)
             /\ e # Smallest(tops)
=============================================================================
