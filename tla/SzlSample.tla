----------------------------- MODULE SzlSample ------------------------------
(***************************************************************************)
(* Sample tables (src/src/emitters/szlsample.cc): every element gets a     *)
(* random tag, and the heap of szlheap.cc decides by the tags which        *)
(* elements stay.  The flushed string has no tags; Merge draws new ones.   *)
(***************************************************************************)
EXTENDS Integers, Sequences, FiniteSetsExt, SequencesExt

CONSTANTS Emitters, Indices, Elems, MaxEmits,
          MaxElems,   \* param(): the size of the sample
          Tags        \* what random_.Next() may return

VARIABLES table, written, emitted, failed

\* a heap element is <<value, tag>>
LowTag(x, y) == x[2] < y[2]
Heap == INSTANCE BinHeap WITH Above <- LowTag, Rests <- LowTag

CreateEntry == {[heap |-> <<>>, tot |-> 0]}

HeapAddElem(a, x) ==
  IF Len(a) < MaxElems THEN Heap!FixHeapUp(Append(a, x), Len(a) + 1)
  ELSE IF MaxElems > 0 /\ LowTag(a[1], x)
       THEN Heap!FixHeapDown([a EXCEPT ![1] = x], 1, Len(a))
       ELSE a

Add(e, x, tag) == [heap |-> HeapAddElem(e.heap, <<x, tag>>), tot |-> e.tot + 1]

AddElem(e, x) == {Add(e, x, t) : t \in Tags}

FlushForDisplay(e) ==
  IF e.heap = <<>> THEN <<"">> ELSE [i \in DOMAIN e.heap |-> e.heap[i][1]]

Flush(e) ==
  IF e.heap = <<>> THEN <<>> ELSE <<e.tot - Len(e.heap), FlushForDisplay(e)>>

Consistent(extra, n) == n <= MaxElems /\ (n = MaxElems \/ extra = 0)

\* the entries that new tags for the elements of the string lead to
RetagAll(e, vals) ==
  LET after[n \in 0..Len(vals)] ==
        IF n = 0 THEN {e}
        ELSE UNION {{Add(d, vals[n], t) : t \in Tags} : d \in after[n - 1]}
  IN  after[Len(vals)]

\* Defect: the first element of the string is added twice.
MergeFirstTwice(e, val) ==
  IF val = <<>> THEN {[ok |-> TRUE, entry |-> e]}
  ELSE IF ~Consistent(val[1], Len(val[2])) THEN {[ok |-> FALSE, entry |-> e]}
  ELSE {[ok |-> TRUE, entry |-> [m EXCEPT !.tot = @ + val[1]]] :
          m \in RetagAll(e, <<val[2][1]>> \o val[2])}

Merge(e, val) ==
  IF val = <<>> THEN {[ok |-> TRUE, entry |-> e]}
  ELSE IF ~Consistent(val[1], Len(val[2])) THEN {[ok |-> FALSE, entry |-> e]}
  ELSE {[ok |-> TRUE, entry |-> [m EXCEPT !.tot = @ + val[1]]] :
          m \in RetagAll(e, val[2])}

\* SzlSampleResults
ParseFromString(val) ==
  IF val = <<>> \/ ~Consistent(val[1], Len(val[2])) THEN <<>> ELSE val[2]

\* a display leaves the entry as it is
AfterDisplay(e) == e

INSTANCE SzlEmitter

-----------------------------------------------------------------------------
(* Properties.                                                             *)

Entries == {table[h[1]][h[2]] : h \in Held}

Copies(e, x) == Cardinality({i \in DOMAIN e.heap : e.heap[i][1] = x})

\* A sample is one without replacement: as large as the table allows, and no
\* element is in it more often than it was emitted, however the samples of
\* several emitters were merged.
SampleSound ==
  \A n \in Entries :
    /\ Len(n.entry.heap) = Min({MaxElems, Count(n.seen)})
    /\ \A x \in Elems : Copies(n.entry, x) <= n.seen[x]
    /\ n.entry.tot = Count(n.seen)

\* What the results reader makes of the flushed string is what the entry
\* displays, and Merge accepts the string.
ResultsAgree ==
  \A n \in Entries : n.entry.heap # <<>> => ParseFromString(Flush(n.entry)) = FlushForDisplay(n.entry)
=============================================================================
