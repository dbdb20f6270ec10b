------------------------------- MODULE Sketch -------------------------------
(***************************************************************************)
(* SzlSketch (src/src/emitters/szlsketch.cc): the weights of the elements  *)
(* that are not candidates of a top table, added up in a few hash tables   *)
(* with signs.  The hashes are parameters: Cell[e][i] and Sign[e][i] are   *)
(* what ComputeIndex takes from the MD5 digest of e for table i.  A sketch *)
(* is a function from tables and cells to weights.                         *)
(***************************************************************************)
EXTENDS Integers, FiniteSets, SequencesExt

CONSTANTS NTabs,    \* nTabs_, an odd number
          TabSize,  \* tabSize_
          Cell,     \* ComputeIndex: the cell of an element in each table
          Sign      \* ComputeIndex: its sign there, 0 or 1

Tabs == 1..NTabs
NewSketch == [i \in Tabs |-> [c \in 1..TabSize |-> 0]]

\* AddSub: the weight w of e goes in (isAdd = 1) or out (isAdd = 0)
AddSub(k, e, w, isAdd) ==
  [i \in Tabs |-> [k[i] EXCEPT ![Cell[e][i]] = IF Sign[e][i] = isAdd THEN @ - w ELSE @ + w]]

AddSketch(k, m) == [i \in Tabs |-> [c \in 1..TabSize |-> k[i][c] + m[i][c]]]

\* Estimate: the median of what the tables say of e
Estimate(k, e) ==
  LET value(i) == IF Sign[e][i] = 1 THEN -k[i][Cell[e][i]] ELSE k[i][Cell[e][i]]
  IN  SetToSortSeq({<<value(i), i>> : i \in Tabs},
                   LAMBDA a, b : a[1] < b[1] \/ (a[1] = b[1] /\ a[2] < b[2]))[(NTabs \div 2) + 1][1]
=============================================================================
