----------------------------- MODULE SzlUnique ------------------------------
(***************************************************************************)
(* Unique tables (src/src/emitters/szlunique.cc, szluniqueresults.cc): the *)
(* smallest hashes that were emitted, in a heap with the largest at the    *)
(* root, and from them an estimate of the number of distinct elements.     *)
(* An element stands for its hash, 8 bytes of ByteBits bits (8 in the      *)
(* code).  A string has the size of its encoded hashes as third component. *)
(***************************************************************************)
EXTENDS Integers, Sequences, FiniteSetsExt, SequencesExt

CONSTANTS Emitters, Indices, Elems, MaxEmits,
          MaxElems,   \* param(): how many hashes are kept
          ByteBits

VARIABLES table, written, emitted, failed

Bigger(x, y) == x > y
NotSmaller(e, kid) == ~(kid > e)
Heap == INSTANCE BinHeap WITH Above <- Bigger, Rests <- NotSmaller

CreateEntry == {[heap |-> <<>>, exists |-> {}, tot |-> 0]}

ReplaceBiggest(e, x) ==
  [e EXCEPT !.exists = (@ \ {e.heap[1]}) \cup {x},
            !.heap = Heap!FixHeapDown([@ EXCEPT ![1] = x], 1, Len(@))]

AddHash(e0, x) ==
  LET e == [e0 EXCEPT !.tot = @ + 1]
  IN  CASE MaxElems <= 0 \/ x \in e.exists -> e
        [] MaxElems > 0 /\ x \notin e.exists /\ Len(e.heap) < MaxElems ->
             [e EXCEPT !.exists = @ \cup {x},
                       !.heap = Heap!FixHeapUp(Append(@, x), Len(@) + 1)]
        [] MaxElems > 0 /\ x \notin e.exists /\ Len(e.heap) >= MaxElems ->
             IF x < e.heap[1] THEN ReplaceBiggest(e, x) ELSE e
AddElem(e, x) == {AddHash(e, x)}

\* Defect: the sorted array is left smallest first.
SortOnly(e) == Heap!Sort(e.heap)

\* (an entry is sorted once, by the Flush that ends it: isSorted_ is false)
MakeSortedHeap(e) == Heap!ReHeap(Heap!Sort(e.heap))

kHashSize == 24    \* "Size of the hash we keep", of which 8 bytes are set
kUniqueLen == 8    \* "length of hash stored in intermediate results"

Flush(e) ==
  IF e.heap = <<>> THEN <<>> ELSE <<e.tot - Len(e.heap), MakeSortedHeap(e), kHashSize>>

Merge(e, val) ==
  IF val = <<>> THEN {[ok |-> TRUE, entry |-> e]}
  ELSE IF val[3] # kHashSize THEN {[ok |-> FALSE, entry |-> e]}
  ELSE {[ok |-> TRUE, entry |-> [FoldLeft(AddHash, e, val[2]) EXCEPT !.tot = @ + val[1]]]}

-----------------------------------------------------------------------------
\* the bytes of a hash, the most significant first
ByteOf(x, i) == (x \div 2 ^ (ByteBits * (8 - i))) % 2 ^ ByteBits

Word == 4 * ByteBits   \* the 32 bits of the intermediate results
Log2(n) == CHOOSE b \in 0..Word : 2 ^ b <= n /\ n < 2 ^ (b + 1)
Big(n) == n * 2 ^ (Word - 1 - Log2(n))

\* r is scaled down, or up unless that exceeds the total (a processor shifts
\* by the remainder when asked to shift by more than the width, 8 bytes)
Scaled(r, renorm, tot) ==
  LET up == renorm % (8 * ByteBits)
  IN  IF renorm < 0 THEN Min({r \div 2 ^ (-renorm), tot})
      ELSE IF r > tot \div 2 ^ up THEN tot ELSE Min({r * 2 ^ up, tot})

\* z zero bytes stripped, then the next four bytes
EstimateFrom(bytes, z, n, tot) ==
  LET top == bytes[z + 1] * 2 ^ (3 * ByteBits) + bytes[z + 2] * 2 ^ (2 * ByteBits)
               + bytes[z + 3] * 2 ^ ByteBits + bytes[z + 4]
      biggestsmall == IF top = 0 THEN 1 ELSE top
  IN  Scaled((Big(n) * 2 ^ Word) \div biggestsmall, z * ByteBits - (Word - 1 - Log2(n)), tot)

Zeros(bytes, max) ==
  CHOOSE z \in 0..max : (\A i \in 1..z : bytes[i] = 0) /\ (z = max \/ bytes[z + 1] # 0)

\* the hash sets 8 of the 16 bytes of unpacked, and Estimate may read 4 behind
\* them: there are zeros up to some byte, and anything from there on
Leftovers == {[i \in 9..20 |-> IF i < first THEN 0 ELSE b] : first \in 9..21, b \in {1, 2 ^ ByteBits - 1}}
UnpackUniqueHash(x, left) == [i \in 1..20 |-> IF i <= 8 THEN ByteOf(x, i) ELSE left[i]]

\* SzlUniqueEntry::Estimate, as far as it is determined
Estimates(e) ==
  IF MaxElems <= 0 THEN {0}
  ELSE IF Len(e.heap) < MaxElems THEN {Len(e.heap)}
  ELSE {LET bytes == UnpackUniqueHash(e.heap[1], left)
        IN  EstimateFrom(bytes, Zeros(bytes, 16), Len(e.heap), e.tot) : left \in Leftovers}

\* SzlUniqueResults: "the biggest of the small elements, which is the first";
\* -1 for a string that it does not accept
ParseFromString(val) ==
  IF val = <<>> THEN 0
  ELSE LET n == Len(val[2])
           bytes == [i \in 1..8 |-> ByteOf(val[2][1], i)]
       IN  IF n > MaxElems \/ val[3] # kUniqueLen THEN -1
           ELSE IF n < MaxElems THEN n
           ELSE EstimateFrom(bytes, Zeros(bytes, kUniqueLen - 4), n, n + val[1])

\* a display leaves the entry as it is
AfterDisplay(e) == e

INSTANCE SzlEmitter

-----------------------------------------------------------------------------
(* Properties.                                                             *)

Entries == {table[h[1]][h[2]] : h \in Held}
Seen(n) == {x \in Elems : n.seen[x] > 0}

\* An entry keeps exactly the MaxElems smallest distinct hashes of all emits
\* that went into it, once each, and exists_ is the set of what the heap holds.
KeepsSmallest ==
  \A n \in Entries :
    /\ n.entry.exists = {x \in Seen(n) : Cardinality({y \in Seen(n) : y < x}) < MaxElems}
    /\ Range(n.entry.heap) = n.entry.exists
    /\ Len(n.entry.heap) = Cardinality(n.entry.exists)

\* The estimate that an entry displays is never less than the number of hashes
\* kept nor more than the number of emits, and it is exact until the table is
\* full: also for a hash of zeros, and for one so small that Estimate reads
\* bytes which the hash has not set.  The results reader accepts none of the
\* strings that Flush makes ("See SzlUnique::Flush for format"), since it expects
\* hashes of another size; of a string with that size it makes the same estimate,
\* although it strips fewer zeros.
EstimateSound ==
  \A n \in Entries : n.entry.heap # <<>> =>
    LET val == Flush(n.entry)
    IN  /\ \A est \in Estimates(n.entry) :
             /\ est \in Len(n.entry.heap)..Count(n.seen)
             /\ Cardinality(Seen(n)) < MaxElems => est = Cardinality(Seen(n))
             /\ ParseFromString([val EXCEPT ![3] = kUniqueLen]) = est
        /\ ParseFromString(val) = -1
=============================================================================
