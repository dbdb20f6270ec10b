----------------------------- MODULE SzlMaximum -----------------------------
(***************************************************************************)
(* Maximum and minimum tables (src/src/emitters/szlmaximum.cc) on the heap *)
(* of szlheap.cc.  An element is a pair of a value and its weight; the     *)
(* root of the heap is the kept element with the worst weight.             *)
(***************************************************************************)
EXTENDS Integers, Sequences, FiniteSetsExt, SequencesExt

CONSTANTS Emitters, Indices, Elems, MaxEmits,
          MaxElems,   \* param(): how many elements are kept
          Largest,    \* BOOLEAN: a maximum table
          Modulus,    \* the width of tot_elems_ (2^64)
          Fresh       \* what the new entry's tot_elems_ may hold, which the
                      \* constructor does not set

VARIABLES table, written, emitted, failed

Less(u, w) == IF Largest THEN u < w ELSE u > w
Worse(x, y) == Less(x[2], y[2])
Heap == INSTANCE BinHeap WITH Above <- Worse, Rests <- Worse

\* garbage, a history variable, is what tot_elems_ counts that was never added:
\* what the new entry happened to hold, and what the strings merged into it did
CreateEntry == {[heap |-> <<>>, tot |-> n, garbage |-> n] : n \in Fresh}

\* SzlHeap::AddElem
HeapAddElem(a, x) ==
  IF Len(a) < MaxElems THEN Heap!FixHeapUp(Append(a, x), Len(a) + 1)
  ELSE IF MaxElems > 0 /\ Worse(a[1], x)
       THEN Heap!FixHeapDown([a EXCEPT ![1] = x], 1, Len(a))
       ELSE a

AddWeightedElem(e, x) == [e EXCEPT !.heap = HeapAddElem(@, x), !.tot = (@ + 1) % Modulus]
AddElem(e, x) == {AddWeightedElem(e, x)}

Flush(e) ==
  IF e.heap = <<>> THEN <<>> ELSE <<(e.tot - Len(e.heap)) % Modulus, Heap!Sort(e.heap), e.garbage>>

\* every element is put out, and the heap is left as before
FlushForDisplay(e) == IF e.heap = <<>> THEN <<"">> ELSE Heap!Sort(e.heap)
AfterDisplay(e) == [e EXCEPT !.heap = Heap!ReHeap(Heap!Sort(@))]

\* "Check for consistent params": a table that is not full has dropped nothing
Consistent(extra, n) == n <= MaxElems /\ (n = MaxElems \/ extra = 0)

\* Defect: a full table is refused.
MergeFullRefused(e, val) ==
  IF val = <<>> THEN {[ok |-> TRUE, entry |-> e]}
  ELSE IF Len(val[2]) >= MaxElems THEN {[ok |-> FALSE, entry |-> e]}
  ELSE {[ok |-> TRUE, entry |-> FoldLeft(AddWeightedElem, e, val[2])]}

Merge(e, val) ==
  IF val = <<>> THEN {[ok |-> TRUE, entry |-> e]}
  ELSE IF ~Consistent(val[1], Len(val[2])) THEN {[ok |-> FALSE, entry |-> e]}
  ELSE LET m == FoldLeft(AddWeightedElem, e, val[2])
       IN  {[ok |-> TRUE, entry |-> [m EXCEPT !.tot = (@ + val[1]) % Modulus,
                                                 !.garbage = (@ + val[3]) % Modulus]]}

\* SzlMaximumResults
ParseFromString(val) ==
  IF val = <<>> \/ ~Consistent(val[1], Len(val[2])) THEN <<>> ELSE val[2]

INSTANCE SzlEmitter

-----------------------------------------------------------------------------
(* Properties.                                                             *)

Entries == {table[h[1]][h[2]] : h \in Held}

\* how many of the emits in n have a weight better than w, and w itself
Better(n, w) == MapThenSumSet(LAMBDA x : IF Less(w, x[2]) THEN n.seen[x] ELSE 0, Elems)
Equal(n, w) == MapThenSumSet(LAMBDA x : IF x[2] = w THEN n.seen[x] ELSE 0, Elems)
Kept(a, w) == Cardinality({i \in DOMAIN a : a[i][2] = w})
Weights == {x[2] : x \in Elems}

\* An entry keeps the best MaxElems weights of all the emits that went into
\* it, with their multiplicity, however they were merged; and every element
\* it keeps was emitted.
KeepsBest ==
  \A n \in Entries :
    /\ \A w \in Weights :
         Kept(n.entry.heap, w) = Max({0, Min({Equal(n, w), MaxElems - Better(n, w)})})
    /\ \A i \in DOMAIN n.entry.heap :
         Cardinality({j \in DOMAIN n.entry.heap : n.entry.heap[j] = n.entry.heap[i]})
           <= n.seen[n.entry.heap[i]]

\* The array is a heap after every operation, also after a display has sorted
\* and reversed it, and the display lists the best element first.
HeapKept ==
  \A n \in Entries :
    /\ Heap!IsHeap(n.entry.heap)
    /\ LET d == FlushForDisplay(n.entry)
       IN  n.entry.heap # <<>> => \A i \in 2..Len(d) : ~Worse(d[i - 1], d[i])

\* Merge accepts a string that Flush made exactly when tot_elems_ counted what
\* was added to the entry and nothing else, or when the entry was full, where
\* the check of Merge does not look at the count.  That the constructor sets
\* tot_elems_ is what the acceptance of every string hangs on.
MergeAcceptsCounted ==
  \A h \in Held, w \in BagToSet(written) :
    \A r \in Merge(table[h[1]][h[2]].entry, w.val) :
      r.ok = (w.val[3] = 0 \/ Len(w.val[2]) = MaxElems)

\* What the results reader makes of the flushed string is what the entry
\* displays, and nothing for a table that is not full and whose count is off.
ResultsAgree ==
  \A n \in Entries : n.entry.heap # <<>> =>
    ParseFromString(Flush(n.entry)) =
      IF n.entry.garbage = 0 \/ Len(n.entry.heap) = MaxElems THEN FlushForDisplay(n.entry) ELSE <<>>

\* "Total elements ever added to the table" (szlmaximum.cc): tot_elems_ is the
\* number of emits in the entry and what was in memory where the entries were
\* made, neither more nor less, through every flush and merge.
TotalElementsAdded == \A n \in Entries : n.entry.tot = (Count(n.seen) + n.entry.garbage) % Modulus
=============================================================================
