------------------------------ MODULE MCLibrary ------------------------------
(***************************************************************************)
(* The kinds of values side by side for TLC: a program of a few statements *)
(* on two variables of the same type.                                      *)
(***************************************************************************)
EXTENDS Integers, Sequences, TLC

CONSTANTS
  Vars, Undef,
  ElemA, ElemB, ElemW, \* elements; of a string, runes of one and two bytes
  KeyP, KeyQ, KeyR     \* keys of a map; two have the same head at times

VARIABLES kind, mem, count, var, past, step, val

vars == <<kind, mem, count, var, past, step, val>>
Symmetry == Permutations(Vars)

\* a rune of two bytes behind a rune of one; SliceInfo is scaled down
Strings == INSTANCE Strings WITH
  Elems <- {ElemA, ElemW}, Width <- (ElemA :> 1) @@ (ElemW :> 2), Lits <- {<<ElemA, ElemW>>},
  SliceInfo <- 2, Slop <- 1, MaxLength <- 2, MaxObjs <- 4, MaxSteps <- 4

Arrays == INSTANCE Arrays WITH
  Elems <- {ElemA, ElemB}, Lits <- {<<ElemA, ElemA, ElemB>>}, Counted <- TRUE,
  MaxLength <- 3, MaxObjs <- 3, MaxSteps <- 4
Bytes == INSTANCE Arrays WITH
  Elems <- {ElemA, ElemB}, Lits <- {<<ElemA, ElemA, ElemB>>}, Counted <- FALSE,
  MaxLength <- 3, MaxObjs <- 3, MaxSteps <- 4

Maps == INSTANCE Maps WITH
  Keys <- {KeyP, KeyQ, KeyR}, Hash <- (KeyP :> 3) @@ (KeyQ :> 7) @@ (KeyR :> 5), Values <- {1},
  kMinNCell <- 1, kHeadsPerCell <- 2, kSlop <- 4, MaxValue <- 2, MaxObjs <- 3, MaxSteps <- 4

Forms == INSTANCE Forms WITH Bits <- 4, TagBits <- 1, Floats <- {0, 8, 1, 9, 3, 7, 15}

\* functions of values: a case is computed, and that is all
FunctionCase(c) ==
  /\ val = c
  /\ mem = <<>> /\ count = <<>> /\ var = <<>> /\ past = {} /\ step = 0

Init ==
  \/ kind = "forms" /\ \E c \in Forms!Cases : FunctionCase(c)
  \/ kind = "string" /\ Strings!Init /\ count = <<>>
  \/ kind = "array" /\ Arrays!Init
  \/ kind = "bytes" /\ Bytes!Init
  \/ kind = "map" /\ Maps!Init /\ past = {}

Next ==
  /\ \/ kind = "string" /\ Strings!Next /\ UNCHANGED count
     \/ kind = "array" /\ Arrays!Next
     \/ kind = "bytes" /\ Bytes!Next
     \/ kind = "map" /\ Maps!Next /\ UNCHANGED past
  /\ UNCHANGED kind

Spec == Init /\ [][Next]_vars

-----------------------------------------------------------------------------
(* Properties.  Their parts are explained in the modules.                  *)

\* A program cannot tell values that are shared, sliced and updated in place
\* from values of its own (Uniq, NewSlice, PutSlice, Clone and InsertKey).  Two
\* stores to slices are exceptions: an assertion of PutSliceImpl ends the program
\* when the end lies behind the runes but within the bytes of a string, and an
\* array or bytes that moves to the base of a narrowed owner is read from the
\* wrong slots.
ContentsAgree ==
  /\ kind = "string" => Strings!ContentsAgree /\ Strings!StoreInRange
  /\ kind = "array" => Arrays!ContentsAgree
  /\ kind = "bytes" => Bytes!ContentsAgree
  /\ kind = "map" => Maps!ContentsAgree /\ Maps!EqualAlike

\* The structures behind the values stay sound: the offset that a string
\* remembers, the slots of an owner that its slices read (but for a slice that
\* moved to the base of a narrowed owner), the chains of a map.
StructureSound ==
  /\ kind = "string" => Strings!OffsetsFresh /\ Strings!RangesSound
  /\ kind = "array" => Arrays!SlotsCovered
  /\ kind = "bytes" => Bytes!SlotsCovered
  /\ kind = "map" => Maps!ChainsSound

\* Reference counts are exact: of values, of the owners of slices, and of the
\* keys of maps.  Those of the elements of arrays are exact until an owner is
\* narrowed or a slice grows within its owner, and never too small until a slice
\* moves to the base of its owner.
CountsExact ==
  /\ kind = "string" => Strings!CountsExact
  /\ kind = "array" => Arrays!CountsExact /\ Arrays!ElementsCounted
  /\ kind = "bytes" => Bytes!CountsExact
  /\ kind = "map" => Maps!CountsExact

\* Equality, order, hash and fingerprint of the values of a type agree, but for
\* the two zeros (equal, with hashes of their own) and NaN (equal to nothing),
\* and tagged integers are integers (form.cc, taggedptrs.h).
FunctionsAgree ==
  /\ kind = "forms" => Forms!Agrees(val)
=============================================================================
