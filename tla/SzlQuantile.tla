---------------------------- MODULE SzlQuantile -----------------------------
(***************************************************************************)
(* Approximate quantiles (src/src/emitters/szlquantile.cc, szlquantile.h,  *)
(* szlquantileresults.cc, szlcomputequantiles.cc): the Munro-Paterson tree *)
(* of buffers.  Levels 0 and 1 are the leaves, of weight 1; level i >= 2   *)
(* is empty or holds K elements of weight 2^(i-1).  Level i of the code's  *)
(* buffer_ is buf[i + 1] here, and a buffer that does not exist is empty.  *)
(* ok tells that no CHECK of the code has failed.                          *)
(***************************************************************************)
EXTENDS Integers, Sequences, FiniteSetsExt, SequencesExt

CONSTANTS Emitters, Indices, Elems, MaxEmits,
          NumQuantiles,   \* num_quantiles_, at least 2
          MaxTotElems     \* MAX_TOT_ELEMS

VARIABLES table, written, emitted, failed

\* (b - 2) * 2^(b - 2) + 0.5 <= epsilon * MAX_TOT_ELEMS, epsilon = 1/(N - 1)
Inequality1(b) == (2 * (b - 2) * 2^(b - 2) + 1) * (NumQuantiles - 1) <= 2 * MaxTotElems

\* the first b that fails the test of the loop
FinalB == CHOOSE b \in 2..MaxTotElems : ~Inequality1(b) /\ \A c \in 2..(b - 1) : Inequality1(c)

ComputeK == MaxTotElems \div 2^(FinalB - 1)
K == ComputeK

CreateEntry == {[buf |-> <<>>, min |-> 0, max |-> 0, tot |-> 0, ok |-> TRUE]}

Level(e, i) == IF i < Len(e.buf) THEN e.buf[i + 1] ELSE <<>>

EnsureBuffer(e, i) ==
  [e EXCEPT !.buf = [j \in 1..Max({Len(@), i + 1}) |-> IF j <= Len(@) THEN @[j] ELSE <<>>]]

Put(e, i, s) == [EnsureBuffer(e, i) EXCEPT !.buf[i + 1] = s]

Check(e, c) == [e EXCEPT !.ok = @ /\ c]

RECURSIVE MergeSorted(_, _)
MergeSorted(a, b) ==
  IF a = <<>> THEN b
  ELSE IF b # <<>> /\ Head(a) >= Head(b) THEN <<Head(b)>> \o MergeSorted(a, Tail(b))
  ELSE <<Head(a)>> \o MergeSorted(Tail(a), b)

\* every other element of the two, the first one included
Collapse(a, b) ==
  LET m == MergeSorted(a, b) IN [i \in 1..((Len(m) + 1) \div 2) |-> m[2 * i - 1]]

\* buf and the buffer of this level are emptied; their merge moves up
RECURSIVE RecursiveCollapse(_, _, _)
RecursiveCollapse(e, s, i) ==
  LET merged == Collapse(Level(e, i), s)
      f == Check(Put(EnsureBuffer(e, i + 1), i, <<>>), Len(s) = K /\ Len(Level(e, i)) = K)
  IN  IF Level(e, i + 1) = <<>> THEN Put(f, i + 1, merged)
      ELSE RecursiveCollapse(f, merged, i + 1)

Ascending(s) == SortSeq(s, <)

MinMax(e, lo, hi) ==
  [e EXCEPT !.min = IF e.tot = 0 \/ lo < @ THEN lo ELSE @,
            !.max = IF e.tot = 0 \/ @ < hi THEN hi ELSE @]

\* Defect: the second leaf is collapsed as it is.
CollapseUnsorted(e) ==
  RecursiveCollapse(Put(Check(e, Len(Level(e, 0)) = K /\ Len(Level(e, 1)) = K), 0, <<>>),
                    Ascending(Level(e, 0)), 1)

\* the leaves are sorted and collapsed
CollapseLeaves(e) ==
  LET f == Check(e, Len(Level(e, 0)) = K /\ Len(Level(e, 1)) = K)
  IN  RecursiveCollapse(Put(Put(f, 1, Ascending(Level(e, 1))), 0, <<>>), Ascending(Level(e, 0)), 1)

AddOne(e0, x) ==
  LET e1 == MinMax(e0, x, x)
      e2 == IF e1.tot > 0 /\ e1.tot % (2 * K) = 0 THEN CollapseLeaves(e1) ELSE e1
      e3 == EnsureBuffer(e2, 1)
      i == IF Len(Level(e3, 0)) < K THEN 0 ELSE 1
  IN  [Put(e3, i, Append(Level(e3, i), x)) EXCEPT !.tot = @ + 1]
AddElem(e, x) == {AddOne(e, x)}

Flush(e) == <<e.tot, e.min, e.max, e.buf>>

\* Defect: elements put straight into an empty leaf are not counted.
MergeLevelUncounted(e, i, s) ==
  LET f == Check(EnsureBuffer(e, i), i < 2 \/ Len(s) = K)
  IN  IF s = <<>> THEN e
      ELSE IF Level(f, i) = <<>> THEN
        [Put(f, i, s) EXCEPT !.tot = @ + IF i >= 2 THEN K * 2^(i - 1) ELSE 0]
      ELSE IF i >= 2 THEN RecursiveCollapse([f EXCEPT !.tot = @ + K * 2^(i - 1)], s, i)
      ELSE FoldLeft(AddOne, f, s)

\* one buffer of a string
MergeLevel(e, i, s) ==
  LET f == Check(EnsureBuffer(e, i), i < 2 \/ Len(s) = K)
  IN  IF s = <<>> THEN e
      ELSE IF Level(f, i) = <<>> THEN
        [Put(f, i, s) EXCEPT !.tot = @ + IF i >= 2 THEN K * 2^(i - 1) ELSE Len(s)]
      ELSE IF i >= 2 THEN RecursiveCollapse([f EXCEPT !.tot = @ + K * 2^(i - 1)], s, i)
      ELSE FoldLeft(AddOne, f, s)

Merge(e, val) ==
  {[ok |-> TRUE,
    entry |-> FoldLeftDomain(LAMBDA f, j : MergeLevel(f, j - 1, val[4][j]),
                             MinMax(e, val[2], val[3]), val[4])]}

-----------------------------------------------------------------------------
(* ComputeQuantiles.                                                       *)

Weight(i) == IF i <= 1 THEN 1 ELSE 2^(i - 1)
WeightedSum(buf) == MapThenSumSet(LAMBDA j : Len(buf[j]) * Weight(j - 1), DOMAIN buf)

\* ceil(i * tot / (N - 1))
Target(i, tot) == (i * tot + NumQuantiles - 2) \div (NumQuantiles - 1)

\* The elements in ascending order until their weights reach target: the
\* last buffer with the smallest element gives the next one.  at counts the
\* elements passed in each buffer.
RECURSIVE Splitter(_, _, _, _, _)
Splitter(buf, at, sum, target, max) ==
  LET open == {j \in DOMAIN buf : at[j] < Len(buf[j])}
      least == Min({max} \cup {buf[j][at[j] + 1] : j \in open})
      j == Max({i \in open : buf[i][at[i] + 1] = least})
  IN  IF sum + Weight(j - 1) >= target THEN [value |-> least, at |-> at, sum |-> sum]
      ELSE Splitter(buf, [at EXCEPT ![j] = @ + 1], sum + Weight(j - 1), target, max)

ComputeQuantiles(buf0, min, max, tot) ==
  LET buf == [j \in DOMAIN buf0 |-> IF j <= 2 THEN Ascending(buf0[j]) ELSE buf0[j]]
      Step(r, i) ==
        LET s == Splitter(buf, r.at, r.sum, Target(i, tot), max)
        IN  [values |-> Append(r.values, s.value), at |-> s.at, sum |-> s.sum]
      inner == FoldLeft(Step, [values |-> <<>>, at |-> [j \in DOMAIN buf |-> 0], sum |-> 0],
                        [i \in 1..(NumQuantiles - 2) |-> i])
  IN  <<min>> \o inner.values \o <<max>>

\* FlushForDisplay, of an entry with elements
Display(e) == ComputeQuantiles(e.buf, e.min, e.max, e.tot)

\* SzlQuantileResults::ParseFromString, when its CHECK on the total holds
ParseFromString(val) ==
  IF WeightedSum(val[4]) = val[1] THEN ComputeQuantiles(val[4], val[2], val[3], val[1]) ELSE <<>>

\* a display leaves the entry as it is
AfterDisplay(e) == e

INSTANCE SzlEmitter

-----------------------------------------------------------------------------
(* Properties.                                                             *)

Entries == {table[h[1]][h[2]] : h \in Held}

\* how many of the elements of n satisfy P, and how many its buffers claim
TrueCount(n, P(_)) == MapThenSumSet(LAMBDA x : IF P(x) THEN n.seen[x] ELSE 0, Elems)
ClaimedCount(n, P(_)) ==
  MapThenSumSet(LAMBDA j : Weight(j - 1) * Len(SelectSeq(n.entry.buf[j], P)), DOMAIN n.entry.buf)

\* No CHECK fails: the leaves are full whenever tot_elems_ is a multiple of
\* 2 * k_, merged entries included ("This is equivalent to testing
\* (tot_elems_ > 0) && (tot_elems_ % (2 * k_) == 0)"), Collapse gets two full
\* buffers, an inner buffer is empty or full, and the weights add up to
\* tot_elems_, as the results reader and ComputeQuantiles demand.
NoCheckFails ==
  \A n \in Entries :
    /\ n.entry.ok
    /\ WeightedSum(n.entry.buf) = n.entry.tot
    /\ n.entry.tot = Count(n.seen)
    /\ n.entry.min <= n.entry.max
    /\ \A j \in DOMAIN n.entry.buf : Len(n.entry.buf[j]) <= K
    /\ n.entry.tot % (2 * K) = 0 <=> (Len(Level(n.entry, 0)) = K /\ Len(Level(n.entry, 1)) = K)

\* The buffers never claim fewer elements up to a value than there are, and
\* the excess is at most half an element of weight 1 per buffer slot, level
\* and round: 2 * K * excess <= levels * tot.  It does not matter how the
\* elements were spread over emitters and in which order they were merged.
RankError ==
  \A n \in Entries, x \in Elems :
    LET excess == ClaimedCount(n, LAMBDA y : y <= x) - TrueCount(n, LAMBDA y : y <= x)
    IN  /\ excess >= 0
        /\ 2 * K * excess <= Max({Len(n.entry.buf) - 2, 0}) * n.entry.tot

\* The displayed quantiles run from the least to the greatest emitted value,
\* and each one in between is an emitted value whose true rank meets its
\* target up to the rank error; the results reader shows the same.
QuantilesSound ==
  \A n \in Entries :
    LET q == Display(n.entry)
        slack == Max({Len(n.entry.buf) - 2, 0}) * n.entry.tot
        emits == {x \in Elems : n.seen[x] > 0}
    IN  /\ Len(q) = NumQuantiles
        /\ q = ParseFromString(Flush(n.entry))
        /\ q[1] = Min(emits) /\ Last(q) = Max(emits)
        /\ \A i \in 1..(NumQuantiles - 2) :
             /\ q[i + 1] \in emits
             /\ TrueCount(n, LAMBDA y : y < q[i + 1]) < Target(i, n.entry.tot)
             /\ 2 * K * TrueCount(n, LAMBDA y : y <= q[i + 1]) + slack
                  >= 2 * K * Target(i, n.entry.tot)
=============================================================================
