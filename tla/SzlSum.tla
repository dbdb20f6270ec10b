------------------------------- MODULE SzlSum -------------------------------
(***************************************************************************)
(* Sum tables (src/src/emitters/szlsum.cc) of integers, which wrap around, *)
(* and of maps, whose values are added key by key by the sorted merge of   *)
(* SzlOps::AddInternal (src/src/emitvalues/szlvalue.cc).                   *)
(***************************************************************************)
EXTENDS Integers, Sequences, FiniteSetsExt

CONSTANTS Emitters, Indices, Elems, MaxEmits,
          Maps,     \* BOOLEAN: the elements are maps
          Modulus   \* 2 ^ 64, the width of an integer

VARIABLES table, written, emitted, failed

Wrap(n) == n % Modulus
Nothing == IF Maps THEN <<>> ELSE 0   \* after Clear()

\* Defect: the walk stops at the end of the source.
WalkSourceOnly(s, d) ==
  LET walk[i \in 1..Len(s) + 1, j \in 1..Len(d) + 1] ==
        CASE i > Len(s) -> <<>>
          [] i <= Len(s) /\ (j > Len(d) \/ s[i][1] < d[j][1]) -> <<s[i]>> \o walk[i + 1, j]
          [] i <= Len(s) /\ j <= Len(d) /\ s[i][1] > d[j][1] -> <<d[j]>> \o walk[i, j + 1]
          [] OTHER -> << <<d[j][1], Wrap(d[j][2] + s[i][2])>> >> \o walk[i + 1, j + 1]
  IN  walk[1, 1]

\* both maps are sorted by key: the position of every key in the sum, and
\* there the pair of the source, of the destination, or their sum
AddMap(s, d) ==
  LET walk[i \in 1..Len(s) + 1, j \in 1..Len(d) + 1] ==
        CASE i > Len(s) /\ j > Len(d) -> <<>>
          [] i <= Len(s) /\ (j > Len(d) \/ s[i][1] < d[j][1]) -> <<s[i]>> \o walk[i + 1, j]
          [] j <= Len(d) /\ (i > Len(s) \/ s[i][1] > d[j][1]) -> <<d[j]>> \o walk[i, j + 1]
          [] OTHER -> << <<d[j][1], Wrap(d[j][2] + s[i][2])>> >> \o walk[i + 1, j + 1]
  IN  walk[1, 1]

Add(s, d) ==
  CASE ~Maps -> Wrap(d + s)
    [] Maps /\ s = <<>> -> d
    [] Maps /\ s # <<>> /\ d = <<>> -> s
    [] OTHER -> AddMap(s, d)

CreateEntry == {[tot |-> 0, sum |-> Nothing]}

\* the first element is parsed into sum_, the others are added to it
AddElem(e, x) ==
  {[tot |-> e.tot + 1, sum |-> IF e.tot + 1 = 1 THEN x ELSE Add(x, e.sum)]}

Flush(e) == IF e.tot = 0 THEN <<>> ELSE <<e.tot, e.sum>>

Merge(e, val) ==
  IF val = <<>> THEN {[ok |-> TRUE, entry |-> e]}
  ELSE IF val[1] <= 0 THEN {[ok |-> FALSE, entry |-> e]}
  ELSE {[ok |-> TRUE, entry |-> [tot |-> e.tot + val[1], sum |-> Add(val[2], e.sum)]]}

\* a display leaves the entry as it is
AfterDisplay(e) == e

INSTANCE SzlEmitter

-----------------------------------------------------------------------------
(* Properties.                                                             *)

Entries == {table[h[1]][h[2]] : h \in Held}

\* FlushForDisplay, and what SzlSumResults reads from a string
FlushForDisplay(e) == IF e.tot = 0 THEN <<"">> ELSE <<e.sum>>
ParseFromString(val) == IF val = <<>> THEN <<>> ELSE <<val[2]>>

\* the value of key k in an emitted map, 0 when it has none
At(x, k) == SumSet({x[i][2] : i \in {j \in DOMAIN x : x[j][1] = k}})
KeysOf(x) == {x[i][1] : i \in DOMAIN x}
Seen(n) == {x \in Elems : n.seen[x] > 0}

\* The sum of an entry is the sum of the emits that went into it, modulo the
\* width of an integer, however they were spread over emitters and merged; a
\* map sum has exactly the keys of the emitted maps, in order.
SumExact ==
  \A n \in Entries :
    IF Maps
    THEN /\ \A k \in KeysOf(n.entry.sum) :
              At(n.entry.sum, k) = Wrap(SumOf([x \in Elems |-> n.seen[x] * At(x, k)]))
         /\ KeysOf(n.entry.sum) = UNION {KeysOf(x) : x \in Seen(n)}
         /\ \A i \in 2..Len(n.entry.sum) : n.entry.sum[i - 1][1] < n.entry.sum[i][1]
    ELSE n.entry.sum = Wrap(SumOf([x \in Elems |-> n.seen[x] * x]))

\* The count of an entry is the number of emits in it, and what the results
\* reader makes of the flushed string is what the entry displays.
CountsAndResultsAgree ==
  \A n \in Entries :
    /\ n.entry.tot = Count(n.seen)
    /\ n.entry.tot > 0 => ParseFromString(Flush(n.entry)) = FlushForDisplay(n.entry)
=============================================================================
