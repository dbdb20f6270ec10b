------------------------------- MODULE SzlSet -------------------------------
(***************************************************************************)
(* Set tables (src/src/emitters/szlset.cc): the distinct elements, up to a *)
(* maximum; one element too many marks an overflow, and an overflowed set  *)
(* is not put out.                                                         *)
(***************************************************************************)
EXTENDS Integers, Sequences, FiniteSetsExt, SequencesExt

CONSTANTS Emitters, Indices, Elems, MaxEmits,
          MaxElems    \* param(): the largest set that is reported

VARIABLES table, written, emitted, failed

CreateEntry == {[set |-> {}, tot |-> 0]}

\* Defect: a full set takes no further element, and never overflows.
AddOneUpToMax(e, x) ==
  [set |-> IF Cardinality(e.set) >= MaxElems THEN e.set ELSE e.set \cup {x},
   tot |-> e.tot + 1]

\* "Do not add if we are already full": over-full, that is
AddOne(e, x) ==
  [set |-> IF Cardinality(e.set) > MaxElems THEN e.set ELSE e.set \cup {x},
   tot |-> e.tot + 1]
AddElem(e, x) == {AddOne(e, x)}

\* (the elements of std::set come out sorted)
Flush(e) ==
  IF Cardinality(e.set) > MaxElems \/ e.set = {} THEN <<>>
  ELSE <<e.tot - Cardinality(e.set), SetToSortSeq(e.set, <)>>

FlushForDisplay(e) ==
  CASE Cardinality(e.set) > MaxElems -> <<>>
    [] e.set = {} -> <<"">>
    [] OTHER -> SetToSortSeq(e.set, <)

Merge(e, val) ==
  IF val = <<>> THEN {[ok |-> TRUE, entry |-> e]}
  ELSE {[ok |-> TRUE, entry |-> [FoldLeft(AddOne, e, val[2]) EXCEPT !.tot = @ + val[1]]]}

\* SzlSetResults
ParseFromString(val) ==
  IF val = <<>> \/ Len(val[2]) > MaxElems THEN <<>> ELSE val[2]

\* a display leaves the entry as it is
AfterDisplay(e) == e

INSTANCE SzlEmitter

-----------------------------------------------------------------------------
(* Properties.                                                             *)

Entries == {table[h[1]][h[2]] : h \in Held}
Seen(n) == {x \in Elems : n.seen[x] > 0}

\* An entry that has not overflowed holds exactly the distinct elements that
\* were emitted into it or came with the strings merged into it, and it has
\* overflowed exactly when there are more of them than it may report.
SetExact ==
  \A n \in Entries :
    IF Cardinality(n.entry.set) <= MaxElems THEN n.entry.set = Seen(n)
    ELSE Cardinality(Seen(n)) > MaxElems /\ n.entry.set \subseteq Seen(n)

\* An overflowed entry is flushed as the empty string and with it everything
\* that was emitted into it is gone, the overflow too: who merges the others
\* may report a set that is too small.  Nothing else is ever lost: what is
\* missing at an index is nothing, or has more elements than a set may have.
LostByOverflowOnly ==
  \A k \in Indices :
    LET missing == [x \in Elems |-> emitted[k][x] - SumOf(Stored(table, k, x)) - SumOf(Pending(written, k, x))]
    IN  /\ \A x \in Elems : missing[x] >= 0
        /\ missing # None => Cardinality({x \in Elems : missing[x] > 0}) > MaxElems

\* Every emit that went into an entry is counted once in it, and the results
\* reader shows what the entry displays, also for an overflowed set.
CountsAndResultsAgree ==
  \A n \in Entries :
    /\ n.entry.tot = Count(n.seen)
    /\ n.entry.set # {} => ParseFromString(Flush(n.entry)) = FlushForDisplay(n.entry)
=============================================================================
