------------------------- MODULE SzlDistinctSample --------------------------
(***************************************************************************)
(* Distinct samples and inverse histograms                                 *)
(* (src/src/emitters/szldistinctsample.cc, szldistinctsampleresults.cc,    *)
(* szlcomputeinversehistogram.cc): the distinct values with the smallest   *)
(* hashes, each with the sum of its weights.  list_ is an array of fixed   *)
(* size; map_ orders positions of list_ by the hash of the value that is   *)
(* stored there.                                                           *)
(***************************************************************************)
EXTENDS Integers, Sequences, FiniteSetsExt, SequencesExt

CONSTANTS Emitters, Indices, Elems, MaxEmits,
          MaxElems,   \* param(): the size of the sample
          Hash(_),    \* the MD5 digest of a value
          HashRange   \* one more than the largest digest

VARIABLES table, written, emitted, failed

CreateEntry == {[list |-> <<>>, map |-> <<>>, tot |-> 0]}

\* HashCmp: the digest, then the value itself
HashCmp(v, w) == Hash(v) < Hash(w) \/ (Hash(v) = Hash(w) /\ v < w)

\* map_.lower_bound: the first position of map_ that is not before v
LowerBound(e, v) ==
  Min({i \in DOMAIN e.map : ~HashCmp(e.list[e.map[i]].value, v)} \cup {Len(e.map) + 1})

\* map_[&list_[n].value] = n
MapInsert(e, n) ==
  [e EXCEPT !.map = InsertAt(@, LowerBound(e, e.list[n].value), n)]

\* Defect: the weight replaces the one of the largest hash, which stays.
ReplaceWeightOnly(e, x) ==
  [e EXCEPT !.list[Last(e.map)].weight = x[2]]

\* the value with the largest hash makes room: first it leaves map_, then
\* its position of list_ is overwritten
ReplaceLast(e, x) ==
  LET n == Last(e.map)
  IN  MapInsert([e EXCEPT !.map = Front(@), !.list[n] = [value |-> x[1], weight |-> x[2]]], n)

AddWeightedElem(e0, x) ==
  LET e == [e0 EXCEPT !.tot = @ + 1]
      i == LowerBound(e, x[1])
      atEnd == i > Len(e.map)
      full == Len(e.list) >= MaxElems
  IN  CASE atEnd /\ full -> e
        [] ~atEnd /\ e.list[e.map[i]].value = x[1] ->
             [e EXCEPT !.list[e.map[i]].weight = @ + x[2]]
        [] ~full /\ (atEnd \/ e.list[e.map[i]].value # x[1]) ->
             MapInsert([e EXCEPT !.list = Append(@, [value |-> x[1], weight |-> x[2]])],
                       Len(e.list) + 1)
        [] OTHER -> ReplaceLast(e, x)
AddElem(e, x) == {AddWeightedElem(e, x)}

\* <value, weight> in the order of map_
InOrder(e) == [i \in DOMAIN e.map |-> <<e.list[e.map[i]].value, e.list[e.map[i]].weight>>]

Flush(e) ==
  IF e.list = <<>> THEN <<>> ELSE <<e.tot - Len(e.list), InOrder(e)>>

Merge(e, val) ==
  IF val = <<>> THEN {[ok |-> TRUE, entry |-> e]}
  ELSE IF Len(val[2]) > MaxElems THEN {[ok |-> FALSE, entry |-> e]}
  ELSE {[ok |-> TRUE, entry |-> [FoldLeft(AddWeightedElem, e, val[2]) EXCEPT !.tot = @ + val[1]]]}

-----------------------------------------------------------------------------
\* the estimate of the number of distinct values, as a fraction
EstimateUniqueCount(last, n, tot) ==
  IF n < MaxElems THEN <<n, 1>>
  ELSE IF HashRange * MaxElems > tot * Hash(last) THEN <<tot, 1>>
  ELSE <<HashRange * MaxElems, Hash(last)>>

\* the weights of the sample, in ascending order and each once, with the
\* share of the values that have it; before them weight 0 with the estimate
ComputeInverseHistogram(last, weights, tot) ==
  LET n == Len(weights)
      Share(w) == <<Cardinality({i \in DOMAIN weights : weights[i] = w}), n>>
      distinct == SetToSortSeq(Range(weights), <)
  IN  << <<0, IF n = 0 THEN <<0, 1>> ELSE EstimateUniqueCount(last, n, tot)>> >>
        \o [i \in DOMAIN distinct |-> <<distinct[i], Share(distinct[i])>>]

WeightsOf(s) == [i \in DOMAIN s |-> s[i][2]]
LastOf(s) == IF s = <<>> THEN 0 ELSE Last(s)[1]

\* SzlInverseHistogramEntry::FlushForDisplay
InverseHistogram(e) ==
  ComputeInverseHistogram(LastOf(InOrder(e)), WeightsOf(InOrder(e)), e.tot)

\* SzlInverseHistogramResults::ParseFromString
ParseHistogram(val) ==
  IF val = <<>> THEN ComputeInverseHistogram(0, <<>>, 0)
  ELSE ComputeInverseHistogram(LastOf(val[2]), WeightsOf(val[2]), val[1] + Len(val[2]))

\* a display leaves the entry as it is
AfterDisplay(e) == e

INSTANCE SzlEmitter

-----------------------------------------------------------------------------
(* Properties.                                                             *)

Entries == {table[h[1]][h[2]] : h \in Held}
Seen(n) == {x[1] : x \in {y \in Elems : n.seen[y] > 0}}
Sampled(n) == {v \in Seen(n) : Cardinality({u \in Seen(n) : HashCmp(u, v)}) < MaxElems}
Total(n, v) == MapThenSumSet(LAMBDA x : IF x[1] = v THEN n.seen[x] * x[2] ELSE 0, Elems)

\* An entry holds exactly the MaxElems distinct values with the smallest
\* hashes, and the weight of each is the exact sum over all the emits that
\* went into the entry: a value that an emitter dropped, or kept and lost
\* later, is never in the merged sample with part of its weight.
SampleExact ==
  \A n \in Entries :
    Range(InOrder(n.entry)) = {<<v, Total(n, v)>> : v \in Sampled(n)}

\* map_ lists every used position of list_ once, in the order of the hashes
\* of the values stored there now ("assert(map_.size() == nElems_)").
MapOrdersList ==
  \A n \in Entries :
    /\ Range(n.entry.map) = DOMAIN n.entry.list
    /\ Len(n.entry.map) = Len(n.entry.list)
    /\ \A i \in 2..Len(n.entry.map) :
         HashCmp(n.entry.list[n.entry.map[i - 1]].value, n.entry.list[n.entry.map[i]].value)

\* The inverse histogram that an entry displays is the one that the results
\* reader makes of its string, and its shares cover every value of the sample.
HistogramSound ==
  \A n \in Entries :
    LET d == InverseHistogram(n.entry)
    IN  /\ n.entry.list # <<>> => d = ParseHistogram(Flush(n.entry))
        /\ MapThenSumSet(LAMBDA i : d[i][2][1], 2..Len(d)) = Len(n.entry.list)
        /\ n.entry.tot = Count(n.seen)
=============================================================================
