------------------------------ MODULE MCTables ------------------------------
(***************************************************************************)
(* The table kinds side by side for TLC: an emitter's entries are those of *)
(* the SzlTabWriter that its table was created with, which never changes.  *)
(* The elements of each kind and the bound on its emits are chosen here.   *)
(***************************************************************************)
EXTENDS Integers, Sequences, TLC

CONSTANTS Emitters, OneEmitter, k1, k2, NoSketch

VARIABLES kind,   \* what SzlTabWriter::CreateSzlTabWriter was asked for
          table, written, emitted, failed

vars == <<kind, table, written, emitted, failed>>
Symmetry == Permutations(Emitters)

Sum == INSTANCE SzlSum WITH
  Indices <- {k1, k2}, Elems <- {1, 6}, MaxEmits <- 4, Maps <- FALSE, Modulus <- 8

MapElems == {<<>>, << <<1, 1>> >>, << <<2, 3>> >>, << <<1, 2>>, <<3, 1>> >>}
MapSum == INSTANCE SzlSum WITH
  Indices <- {k1}, Elems <- MapElems, MaxEmits <- 4, Maps <- TRUE, Modulus <- 4

\* two of the weights are equal
MaximumElems == {<<"p", 1>>, <<"q", 2>>, <<"r", 2>>, <<"s", 3>>}
Maximum == INSTANCE SzlMaximum WITH
  Indices <- {k1}, Elems <- MaximumElems, MaxEmits <- 4, MaxElems <- 3, Largest <- TRUE,
  Modulus <- 4, Fresh <- {0, 1}

Sample == INSTANCE SzlSample WITH
  Indices <- {k1}, Elems <- {1, 2, 3}, MaxEmits <- 4, MaxElems <- 2, Tags <- {1, 2}

Set == INSTANCE SzlSet WITH
  Indices <- {k1}, Elems <- 1..4, MaxEmits <- 5, MaxElems <- 2

Unique == INSTANCE SzlUnique WITH
  Indices <- {k1}, Elems <- {70, 900, 5000, 20000, 60000}, MaxEmits <- 5, MaxElems <- 3, ByteBits <- 2
\* one hash is kept, at times the one of zeros
LowUnique == INSTANCE SzlUnique WITH
  Indices <- {k1}, Elems <- {0, 2, 3, 70}, MaxEmits <- 4, MaxElems <- 1, ByteBits <- 2

\* the values 2 and 3 have the same digest
DistinctElems == {<<1, 1>>, <<2, 1>>, <<2, 2>>, <<3, 1>>, <<4, 2>>}
DistinctHash(v) == <<6, 4, 4, 1>>[v]
DistinctSample == INSTANCE SzlDistinctSample WITH
  Indices <- {k1}, Elems <- DistinctElems, MaxEmits <- 5, MaxElems <- 2, Hash <- DistinctHash, HashRange <- 8

\* <<value, weight, draw>>
WeightedElems == {<<1, 1, -2>>, <<2, 2, -2>>, <<2, 1, -6>>, <<3, 2, -4>>, <<4, 0, -2>>}
WeightedSample == INSTANCE SzlWeightedSample WITH
  Indices <- {k1}, Elems <- WeightedElems, MaxEmits <- 5, MaxElems <- 2

\* k_ = 1 and k_ = 2
Quantile == INSTANCE SzlQuantile WITH
  Indices <- {k1}, Elems <- 1..3, MaxEmits <- 5, NumQuantiles <- 3, MaxTotElems <- 8
WideQuantile == INSTANCE SzlQuantile WITH
  Indices <- {k1}, Elems <- 1..2, MaxEmits <- 7, NumQuantiles <- 3, MaxTotElems <- 16

\* the words put bytes at which a cutoff lies, on either side of the cutoff,
\* and bytes next to them first
SumRows == {<< <<1, 2, 4>>, 7>>, << <<3, 1, 1>>, 7>>, << <<1, 5, 2>>, 9>>, << <<2, 2, 1>>, 0>>}
Words(seed) ==
  IF seed = 7 THEN << <<94, 188, 189, 0>>, <<9, 45, 88, 25>>, <<8, 90, 177, 242>>, <<0, 0, 0, 0>> >>
  ELSE << <<255, 251, 94, 1>>, <<0, 250, 0, 0>>, <<0, 35, 151, 152>>, <<7, 45, 88, 26>>, <<1, 1, 1, 1>> >>
Bootstrapsum == INSTANCE SzlBootstrapsum WITH
  Indices <- {k1}, Elems <- SumRows, MaxEmits <- 3, Kinds <- <<"float", "int", "float">>,
  NumRows <- 4, TableRolls <- {0, 1}

\* three tables of two cells: any two of the elements 1..4 share some cell
Cell == [e \in 1..4 |-> [i \in 1..3 |-> 1 + ((e \div (2 ^ (i - 1))) % 2)]]
Sign == [e \in 1..4 |-> [i \in 1..3 |-> (e + i) % 2]]
Top == INSTANCE SzlTop WITH
  Indices <- {k1}, Elems <- (1..3) \X {-1, 2}, MaxEmits <- 5, Param <- 1, MaxElems <- 2,
  NTabs <- 3, TabSize <- 2
\* one entry with as many candidates as elements
TallTop == INSTANCE SzlTop WITH
  Emitters <- OneEmitter, Indices <- {k1}, Elems <- (1..4) \X {-1, 2}, MaxEmits <- 4, Param <- 2,
  MaxElems <- 4, NTabs <- 3, TabSize <- 2

\* one emitter that merges its own strings, and a sketch without collisions
FlatCell == [e \in 1..4 |-> <<e>>]
FlatSign == [e \in 1..4 |-> <<e % 2>>]
FlatTop == INSTANCE SzlTop WITH
  Emitters <- OneEmitter, Indices <- {k1}, Elems <- (1..4) \X {1}, MaxEmits <- 6, Param <- 1,
  MaxElems <- 2, NTabs <- 1, TabSize <- 4, Cell <- FlatCell, Sign <- FlatSign

Init ==
  \/ kind = "sum" /\ Sum!Init
  \/ kind = "sum of maps" /\ MapSum!Init
  \/ kind = "maximum" /\ Maximum!Init
  \/ kind = "sample" /\ Sample!Init
  \/ kind = "set" /\ Set!Init
  \/ kind = "unique" /\ Unique!Init
  \/ kind = "low unique" /\ LowUnique!Init
  \/ kind = "distinctsample" /\ DistinctSample!Init
  \/ kind = "weightedsample" /\ WeightedSample!Init
  \/ kind = "quantile" /\ Quantile!Init
  \/ kind = "wide quantile" /\ WideQuantile!Init
  \/ kind = "bootstrapsum" /\ Bootstrapsum!Init
  \/ kind = "top" /\ Top!Init
  \/ kind = "tall top" /\ TallTop!Init
  \/ kind = "flat top" /\ FlatTop!Init

Next ==
  /\ \/ kind = "sum" /\ Sum!Next
     \/ kind = "sum of maps" /\ MapSum!Next
     \/ kind = "maximum" /\ Maximum!Next
     \/ kind = "sample" /\ Sample!Next
     \/ kind = "set" /\ Set!Next
     \/ kind = "unique" /\ Unique!Next
     \/ kind = "low unique" /\ LowUnique!Next
     \/ kind = "distinctsample" /\ DistinctSample!Next
     \/ kind = "weightedsample" /\ WeightedSample!Next
     \/ kind = "quantile" /\ Quantile!Next
     \/ kind = "wide quantile" /\ WideQuantile!Next
     \/ kind = "bootstrapsum" /\ Bootstrapsum!Next
     \/ kind = "top" /\ Top!Next
     \/ kind = "tall top" /\ TallTop!Next
     \/ kind = "flat top" /\ FlatTop!Next
  /\ UNCHANGED kind

Spec == Init /\ [][Next]_vars

-----------------------------------------------------------------------------
(* Properties.  Their parts are explained in the modules of the tables.    *)

\* Merge accepts every string that Flush made, for every kind of table but the
\* maximum: there it depends on what an entry found in the tot_elems_ that its
\* constructor does not set (szlmaximum.cc), and on nothing else.
MergeAccepts ==
  IF kind = "maximum" THEN Maximum!MergeAcceptsCounted ELSE ~failed

\* No emit is lost or counted twice on its way through entries and written
\* strings: every emit is in exactly one of them, except those into a set that
\* overflowed, and the counts that tables keep and split on Flush (tot_elems_,
\* totElems_) are the number of emits; in a maximum table together with what
\* tot_elems_ held before it was first incremented.
CountsConserved ==
  /\ kind = "sum" => Sum!EmitsConserved
  /\ kind = "set" => Set!LostByOverflowOnly
  /\ kind = "maximum" => Maximum!TotalElementsAdded
  /\ kind = "top" => Top!CountConserved

\* What is added up is exactly what was emitted: sums modulo the width of an
\* integer, sums of maps key by key (SzlOps::AddInternal), the first row of a
\* bootstrap sum, and the weights of a top table, wherever between candidates
\* and sketch they are; a merge moves them from the one to the other at most
\* once.  A further bootstrap row depends on the fingerprints of
\* its emits only, not on the emitters they went through, and a roll that one
\* byte decides is what the full search would give (szlbootstrapsum.cc).
SumsExact ==
  /\ kind = "sum" => Sum!SumExact
  /\ kind = "sum of maps" => MapSum!SumExact
  /\ kind = "bootstrapsum" =>
       Bootstrapsum!FirstRowIsSum /\ Bootstrapsum!SeededRowsRepeat /\ Bootstrapsum!FastPathExact
  /\ kind = "top" => Top!WeightConserved
  /\ kind = "flat top" => FlatTop!WeightConserved /\ FlatTop!AdjustedOnce

\* A table that keeps the extreme elements holds those of all emits in it,
\* whatever way they took: the best weights of a maximum, the smallest hashes
\* of a unique table, the values of smallest hash of a distinct sample with
\* their whole weight, the largest keys of a weighted sample.
KeepsBest ==
  /\ kind = "maximum" => Maximum!KeepsBest
  /\ kind = "unique" => Unique!KeepsSmallest
  /\ kind = "distinctsample" => DistinctSample!SampleExact
  /\ kind = "weightedsample" => WeightedSample!KeepsLargestKeys

\* The orders that tables rely on hold after every operation, displays that
\* sort in place included: the heaps of maximum and top and the positions
\* their candidates know, and map_ of a distinct sample, whose keys point into
\* the list it orders.
OrderKept ==
  /\ kind = "maximum" => Maximum!HeapKept
  /\ kind = "top" => Top!HeapOrdered
  /\ kind = "tall top" => TallTop!HeapOrdered /\ TallTop!DisplaySorted
  /\ kind = "distinctsample" => DistinctSample!MapOrdersList

\* What a table displays, what the results reader makes of its flushed string
\* and what was emitted agree (FlushForDisplay, Flush and ParseFromString), but
\* for a maximum table with a wrong count; a set that has not overflowed is the
\* set of the emits that reached it, which the emits of an overflowed set do not
\* (szlset.cc).
ResultsAgree ==
  /\ kind = "sum of maps" => MapSum!CountsAndResultsAgree
  /\ kind = "set" => Set!CountsAndResultsAgree /\ Set!SetExact
  /\ kind = "maximum" => Maximum!ResultsAgree
  /\ kind = "sample" => Sample!ResultsAgree
  /\ kind = "distinctsample" => DistinctSample!HistogramSound
  /\ kind = "weightedsample" => WeightedSample!SplitEqualsDisplay
  /\ kind = "quantile" => Quantile!QuantilesSound

\* A sample is one without replacement, as large as it may be (szlsample.cc).
SampleSound == kind = "sample" => Sample!SampleSound

\* What a table estimates is within its bounds.  The estimate of a unique table
\* is exact until the table is full and no more than the emits afterwards, however
\* small its hashes, and it is the one that the results reader would make if it
\* accepted the string (szlunique.cc Estimate, szluniqueresults.cc); the buffers
\* of a quantile table overstate the rank of a value by a bounded amount only,
\* and none of its CHECKs fails, after merges either (szlquantile.cc).
EstimateSound ==
  /\ kind = "unique" => Unique!EstimateSound
  /\ kind = "low unique" => LowUnique!EstimateSound
  /\ kind = "quantile" => Quantile!NoCheckFails /\ Quantile!RankError
  /\ kind = "wide quantile" => WideQuantile!NoCheckFails /\ WideQuantile!RankError
=============================================================================
