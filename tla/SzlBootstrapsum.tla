-------------------------- MODULE SzlBootstrapsum ---------------------------
(***************************************************************************)
(* Bootstrap sums (src/src/emitters/szlbootstrapsum.cc): row 0 is the sum  *)
(* of the elements, each other row is the sum with every element taken as  *)
(* often as a Poisson dice says.  An element with a fingerprint rolls a    *)
(* dice seeded with it, so that all the elements of one fingerprint are    *)
(* taken equally often wherever they are emitted; fingerprint 0 rolls the  *)
(* dice of the table.                                                      *)
(*                                                                         *)
(* A 32-bit random word is its four bytes, most significant first.         *)
(***************************************************************************)
EXTENDS Integers, Sequences, FiniteSetsExt, SequencesExt

CONSTANTS Emitters, Indices, MaxEmits,
          Elems,        \* <row of values, fingerprint>
          Kinds,        \* the kinds of the fields: "int" or "float"
          NumRows,      \* param()
          Words(_),     \* the words that a seed's generator gives
          TableRolls    \* what the dice of the table may roll

VARIABLES table, written, emitted, failed

\* 2^32 * CDF(i) as <most significant byte, the 24 bits below>
kPoissonCutoffs ==
  << <<94, 2971865>>, <<188, 5943729>>, <<235, 7429662>>, <<251, 2332567>>,
     <<255, 1058293>>, <<255, 14225211>>, <<255, 16419697>>, <<255, 16733195>>,
     <<255, 16772382>>, <<255, 16776736>>, <<255, 16777171>>, <<255, 16777211>>,
     <<255, 16777215>> >>

\* c < d for two 32-bit numbers
Below(c, d) == c[1] < d[1] \/ (c[1] = d[1] /\ c[2] < d[2])

\* while (kPoissonCutoffs[value] < coin) ++value
Search(coin, value) ==
  Min({i \in value..12 : ~Below(kPoissonCutoffs[i + 1], coin)})

\* Defect: the bytes at which a cutoff lies count as decided.
DispatchDecided(b) == [value |-> Search(<<b, 0>>, 0), ambiguous |-> FALSE]

kDispatchTable(b) ==
  [value |-> CASE b <= 94 -> 0 [] b \in 95..188 -> 1 [] b \in 189..235 -> 2
               [] b \in 236..251 -> 3 [] OTHER -> 4,
   ambiguous |-> b \in {94, 188, 235, 251, 255}]

\* a dice over the words that are left, with the bytes left of the last one
NewDice(seed) == [words |-> Words(seed), bytes |-> <<>>]

GetByte(d) ==
  IF d.bytes = <<>>
  THEN [byte |-> Head(d.words)[1], dice |-> [words |-> Tail(d.words), bytes |-> Tail(Head(d.words))]]
  ELSE [byte |-> Head(d.bytes), dice |-> [d EXCEPT !.bytes = Tail(@)]]

Low24(w) == w[2] * 65536 + w[3] * 256 + w[4]

\* PoissonDice::Roll on the fast path; coin tells what was looked at
Roll(d) ==
  LET g == GetByte(d)
      entry == kDispatchTable(g.byte)
      coin == <<g.byte, Low24(Head(g.dice.words))>>
  IN  IF entry.ambiguous
      THEN [value |-> Search(coin, entry.value), coins |-> {coin},
            dice |-> [g.dice EXCEPT !.words = Tail(@)]]
      ELSE [value |-> entry.value, coins |-> {<<g.byte, 0>>, <<g.byte, 16777215>>}, dice |-> g.dice]

\* the rolls made for one element of this fingerprint
RollsOf(seed) ==
  FoldLeft(LAMBDA r, i : LET roll == Roll(r.dice)
                         IN  [rolls |-> Append(r.rolls, roll), dice |-> roll.dice],
           [rolls |-> <<>>, dice |-> NewDice(seed)],
           [i \in 1..NumRows |-> i]).rolls

\* how often each row takes the element: once in the first row
Factors(seed) ==
  IF seed # 0 THEN {[row \in 1..NumRows |-> IF row = 1 THEN 1 ELSE RollsOf(seed)[row - 1].value]}
  ELSE {[row \in 1..NumRows |-> IF row = 1 THEN 1 ELSE f[row - 1]] :
          f \in [1..(NumRows - 1) -> TableRolls]}

\* ints to the front of a packed row, floats to the back in reverse order
RowSize == Len(Kinds)
PackedAt(j) ==
  IF Kinds[j] = "int" THEN Cardinality({i \in 1..j : Kinds[i] = "int"})
  ELSE RowSize + 1 - Cardinality({i \in 1..j : Kinds[i] = "float"})
PackSzlValue(v) == [p \in 1..RowSize |-> v[CHOOSE j \in 1..RowSize : PackedAt(j) = p]]

\* the loop of Flush and FlushForDisplay
Unpack(p) == [j \in 1..RowSize |-> p[PackedAt(j)]]

-----------------------------------------------------------------------------
NoSamples == [row \in 1..NumRows |-> [p \in 1..RowSize |-> 0]]

CreateEntry == {[samples |-> <<>>, tot |-> 0]}

\* samples_, allocated when it is needed
SamplesOf(e) == IF e.samples = <<>> THEN NoSamples ELSE e.samples

\* AddWeightedElem, BootstrapSampleAndSum
AddElem(e, x) ==
  LET packed == PackSzlValue(x[1])
  IN  {[samples |-> [row \in 1..NumRows |-> [p \in 1..RowSize |->
                       SamplesOf(e)[row][p] + f[row] * packed[p]]],
        tot |-> e.tot + 1] : f \in Factors(x[2])}

\* also what is displayed, and what the results reader gives
Rows(e) == [row \in 1..NumRows |-> Unpack(e.samples[row])]
Flush(e) == IF e.tot = 0 THEN <<>> ELSE <<e.tot, Rows(e)>>

Merge(e, val) ==
  IF val = <<>> THEN {[ok |-> TRUE, entry |-> e]}
  ELSE IF val[1] <= 0 THEN {[ok |-> FALSE, entry |-> e]}
  ELSE {[ok |-> TRUE,
         entry |-> [samples |-> [row \in 1..NumRows |-> [p \in 1..RowSize |->
                       SamplesOf(e)[row][p] + PackSzlValue(val[2][row])[p]]],
                    tot |-> e.tot + val[1]]]}

\* a display leaves the entry as it is
AfterDisplay(e) == e

INSTANCE SzlEmitter

-----------------------------------------------------------------------------
(* Properties.                                                             *)

Entries == {table[h[1]][h[2]] : h \in Held}
Column(n, j, Factor(_)) ==
  MapThenSumSet(LAMBDA x : n.seen[x] * Factor(x) * x[1][j], Elems)

\* Row 0 is the plain sum of the elements, field by field, and the total is
\* their number, after any merges ("We always add it to the first sample").
FirstRowIsSum ==
  \A n \in Entries :
    /\ \A j \in 1..RowSize : Rows(n.entry)[1][j] = Column(n, j, LAMBDA x : 1)
    /\ n.entry.tot = Count(n.seen)

\* In every other row all the elements of one fingerprint have the same
\* factor, the one the fingerprint's dice rolls for that row: rows are the
\* same whichever emitters the elements went to and however these merged.
SeededRowsRepeat ==
  \A n \in Entries :
    (\A x \in Elems : x[2] = 0 => n.seen[x] = 0) =>
      \A row \in 2..NumRows, j \in 1..RowSize :
        Rows(n.entry)[row][j] = Column(n, j, LAMBDA x : RollsOf(x[2])[row - 1].value)

\* A roll that stops after one byte gives what the search through the
\* cutoffs would give for every 32-bit number with that first byte.
FastPathExact ==
  \A n \in Entries : \A x \in {y \in Elems : y[2] # 0 /\ n.seen[y] > 0} :
    \A i \in 1..NumRows : \A c \in RollsOf(x[2])[i].coins :
      RollsOf(x[2])[i].value = Search(c, 0)
=============================================================================
