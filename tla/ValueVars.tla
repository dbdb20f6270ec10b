------------------------------ MODULE ValueVars ------------------------------
(***************************************************************************)
(* What a Sawzall program sees of its array, bytes and string variables:   *)
(* each holds a sequence of its own, an assignment copies it, and a store  *)
(* into an element or a slice changes one variable alone.  Arrays and      *)
(* Strings keep this promise with reference counts, slices that share      *)
(* elements and updates in place; they take these steps along with theirs. *)
(***************************************************************************)
EXTENDS Integers, Sequences

CONSTANTS
  Vars,      \* the variables of the program
  Undef      \* no value

VARIABLE val \* the value of each variable

Init == val = [x \in Vars |-> Undef]

Defined(x) == val[x] # Undef
Set(x, s) == val' = [val EXCEPT ![x] = s]

\* s[beg:end], cut to the bounds of s
Slice(s, beg, end) ==
  LET b == IF beg < 0 THEN 0 ELSE beg
      e == IF end > Len(s) THEN Len(s) ELSE end
  IN  IF b > e THEN <<>> ELSE SubSeq(s, b + 1, e)

Assign(x, y) == Defined(y) /\ Set(x, val[y])
AssignNew(x, s) == Set(x, s)
AssignSlice(x, y, b, e) == Defined(y) /\ Set(x, Slice(val[y], b, e))
AssignSum(x, y, z) == Defined(y) /\ Defined(z) /\ Set(x, val[y] \o val[z])
Undefine(x) == Set(x, Undef)

\* a store outside of the bounds undefines the variable
StoreElem(x, i, e) ==
  Defined(x) /\ Set(x, IF i \in 0..Len(val[x]) - 1 THEN [val[x] EXCEPT ![i + 1] = e] ELSE Undef)
StoreSlice(x, b, e, y) ==
  /\ Defined(x) /\ Defined(y)
  /\ Set(x, IF 0 <= b /\ b <= e /\ e <= Len(val[x])
            THEN SubSeq(val[x], 1, b) \o val[y] \o SubSeq(val[x], e + 1, Len(val[x]))
            ELSE Undef)
=============================================================================
