------------------------- MODULE SzlWeightedSample --------------------------
(***************************************************************************)
(* Weighted samples (src/src/emitters/szlweightedsample.cc,                *)
(* szlweightedsampleadapter.cc, szlweightedsampleadapter.h,                *)
(* weighted-reservoir-sampler.h, weighted-reservoir-sampler-impl.cc): each *)
(* element of positive weight draws a key, log(random) / weight, and the   *)
(* elements with the largest keys are kept with their keys.  An element is *)
(* <value, weight, draw>: draw is the logarithm its random number will     *)
(* have.  The heap of positions by key, of the C++ library, is taken by    *)
(* its contract: its top is one of the positions with the least key.       *)
(***************************************************************************)
EXTENDS Integers, Sequences, FiniteSetsExt, SequencesExt

CONSTANTS Emitters, Indices, Elems, MaxEmits,
          MaxElems   \* max_sample_size()

VARIABLES table, written, emitted, failed

CreateEntry == {[sample |-> <<>>, tot |-> 0]}

\* key_index_heap_[0], of a full reservoir
Tops(e) == {i \in DOMAIN e.sample : \A j \in DOMAIN e.sample : e.sample[i].key <= e.sample[j].key}

\* WRSAlgorithm::ConsiderKey with AddKey and ReplaceMinKey, and SetSample at
\* the position it returns
ConsiderSampledDatum(e, s) ==
  IF Len(e.sample) < MaxElems THEN {[e EXCEPT !.sample = Append(@, s)]}
  ELSE {IF e.sample[i].key < s.key THEN [e EXCEPT !.sample[i] = s] ELSE e : i \in Tops(e)}

\* ConsiderSample, SimpleWRSAlgorithm::ConsiderWeight
ConsiderSample(e, x) ==
  IF x[2] > 0 THEN ConsiderSampledDatum(e, [value |-> x[1], key |-> x[3] \div x[2]])
  ELSE {e}

AddElem(e, x) == ConsiderSample([e EXCEPT !.tot = @ + 1], x)

\* Defect: an entry that holds no element flushes to nothing.
EncodeHeldOnly(e) ==
  IF e.sample = <<>> THEN <<>> ELSE <<e.tot - Len(e.sample), e.sample>>

\* Encode
Flush(e) ==
  IF e.tot = 0 THEN <<>> ELSE <<e.tot - Len(e.sample), e.sample>>

Merge(e, val) ==
  IF val = <<>> THEN {[ok |-> TRUE, entry |-> e]}
  ELSE IF Len(val[2]) > MaxElems THEN {[ok |-> FALSE, entry |-> e]}
  ELSE {[ok |-> TRUE, entry |-> [f EXCEPT !.tot = @ + val[1] + Len(val[2])]] :
          f \in FoldLeft(LAMBDA fs, s : UNION {ConsiderSampledDatum(f, s) : f \in fs}, {e}, val[2])}

\* the elements that the results reader makes of a string, and their total
SplitEncodedStr(val) ==
  IF val = <<>> THEN [elems |-> <<>>, tot |-> 0]
  ELSE [elems |-> val[2], tot |-> val[1] + Len(val[2])]

\* EncodeForDisplay
Display(e) == e.sample

\* a display leaves the entry as it is
AfterDisplay(e) == e

INSTANCE SzlEmitter

-----------------------------------------------------------------------------
(* Properties.                                                             *)

Entries == {table[h[1]][h[2]] : h \in Held}
KeyOf(x) == x[3] \div x[2]
Weighty == {x \in Elems : x[2] > 0}
\* how many of the elements that went into n have this key, or a larger one
KeyCount(n, P(_)) == MapThenSumSet(LAMBDA x : n.seen[x], {x \in Weighty : P(KeyOf(x))})
Keys == {KeyOf(x) : x \in Weighty}
KeptCount(n, P(_)) == Cardinality({i \in DOMAIN n.entry.sample : P(n.entry.sample[i].key)})

\* However the emits were spread over emitters and merged, an entry keeps
\* the elements with the MaxElems largest keys, each with the key it drew
\* ("each sampler simply keeps the samples with n largest keys, the merger
\* only needs to merge and find the n largest keys again").
KeepsLargestKeys ==
  \A n \in Entries :
    /\ \A k \in Keys :
         KeptCount(n, LAMBDA j : j >= k) = Min({MaxElems, KeyCount(n, LAMBDA j : j >= k)})
    /\ \A s \in Range(n.entry.sample) :
         \E x \in Weighty : n.seen[x] > 0 /\ x[1] = s.value /\ KeyOf(x) = s.key

\* What an entry displays is what the results reader makes of its string,
\* and the total counts every emit, the ones of no positive weight included
\* ("If nElems() == 0 but TotElems() > 0, we still need to encode").
SplitEqualsDisplay ==
  \A n \in Entries :
    SplitEncodedStr(Flush(n.entry)) = [elems |-> Display(n.entry), tot |-> Count(n.seen)]
=============================================================================
