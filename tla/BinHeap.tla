------------------------------ MODULE BinHeap -------------------------------
(***************************************************************************)
(* The binary heap in an array that the tables keep their best elements in *)
(* (src/src/emitters/szlheap.cc; szlunique.cc has one of its own).  The    *)
(* root is position 1, the kids of i are 2i and 2i + 1.                    *)
(***************************************************************************)
EXTENDS Integers, Sequences, SequencesExt

CONSTANTS Above(_, _),   \* a strictly belongs above b
          Rests(_, _)    \* an element that sinks stops above its kid

\* a[path[1]] moves to the end of the path, the others one position back
Rotate(a, path) ==
  [i \in DOMAIN a |->
     IF i \notin Range(path) THEN a[i]
     ELSE LET j == CHOOSE n \in DOMAIN path : path[n] = i
          IN  IF j = Len(path) THEN a[path[1]] ELSE a[path[j + 1]]]

FixHeapUp(a, h) ==
  LET path[i \in 1..h] ==
        IF i = 1 \/ ~Above(a[h], a[i \div 2]) THEN <<i>>
        ELSE <<i>> \o path[i \div 2]
  IN  Rotate(a, path[h])

Kid(a, i, n) ==
  IF 2 * i + 1 <= n /\ Above(a[2 * i + 1], a[2 * i]) THEN 2 * i + 1 ELSE 2 * i

FixHeapDown(a, h, n) ==
  LET path[i \in 1..n] ==
        IF 2 * i > n \/ Rests(a[h], a[Kid(a, i, n)]) THEN <<i>>
        ELSE <<i>> \o path[Kid(a, i, n)]
  IN  Rotate(a, path[h])

Exchange(a, i, j) == [a EXCEPT ![i] = a[j], ![j] = a[i]]

\* the root goes behind the heap, again and again: the root's order reversed
Sort(a) ==
  LET after[k \in 0..Len(a)] ==
        IF k = 0 THEN a
        ELSE FixHeapDown(Exchange(after[k - 1], 1, Len(a) - k + 1), 1, Len(a) - k)
  IN  IF a = <<>> THEN a ELSE after[Len(a) - 1]

ReHeap(a) == Reverse(a)

IsHeap(a) == \A i \in 2..Len(a) : ~Above(a[i], a[i \div 2])
=============================================================================
