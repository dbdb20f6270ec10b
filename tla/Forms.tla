-------------------------------- MODULE Forms --------------------------------
(***************************************************************************)
(* Equality, order, hash and fingerprint of values, as the forms of each   *)
(* type compute them (src/src/engine/form.cc), and integers that are       *)
(* tagged words where they fit (taggedptrs.h).                             *)
(*                                                                         *)
(* A value is a pair of its type and its contents: a number for the basic  *)
(* types (the bits of a float), a sequence of bytes for bytes and strings, *)
(* a sequence of values for arrays and tuples, <<entry, context>> for      *)
(* closures.  A hash is a set of words combined by exclusive or, and a     *)
(* fingerprint a sequence of words; no two words have the same hash.       *)
(***************************************************************************)
EXTENDS Integers, Sequences, FiniteSets, FiniteSetsExt, SequencesExt

CONSTANTS
  Bits,    \* bits of a word
  TagBits, \* bits of a tag
  Floats   \* the floats in use, by their bits

Word == 0..2 ^ Bits - 1
Signed(w) == IF w >= 2 ^ (Bits - 1) THEN w - 2 ^ Bits ELSE w
Unsigned(i) == i % 2 ^ Bits

-----------------------------------------------------------------------------
(* TaggedInts: a word, or a pointer to an IntVal.                          *)

\* Defect: one bit more is taken for granted.
fits_smi_defect(x) == -(2 ^ (Bits - TagBits)) <= x /\ x < 2 ^ (Bits - TagBits)
fits_smi(x) == -(2 ^ (Bits - TagBits - 1)) <= x /\ x < 2 ^ (Bits - TagBits - 1)
\* a shift by the bits of the tag drops the bits above
MakeVal(x) == [tag |-> "smi", word |-> Unsigned(x * 2 ^ TagBits)]
as_smi(v) == Signed(v.word) \div 2 ^ TagBits
as_Val(x) == IF fits_smi(x) THEN MakeVal(x) ELSE [tag |-> "ptr", word |-> Unsigned(x)]
as_int(v) == IF v.tag = "smi" THEN as_smi(v) ELSE Signed(v.word)
is_zero(v) == v = MakeVal(0)

Wrap(i) == Signed(Unsigned(i))
Abs(i) == IF i < 0 THEN -i ELSE i
Quot(a, b) == IF (a < 0) = (b < 0) THEN Abs(a) \div Abs(b) ELSE -(Abs(a) \div Abs(b))
TaggedAdd(v, w) == as_Val(Wrap(as_int(v) + as_int(w)))
TaggedSub(v, w) ==
  IF v.tag = "smi" /\ w.tag = "smi" /\ fits_smi(as_smi(v) - as_smi(w))
  THEN MakeVal(as_smi(v) - as_smi(w)) ELSE as_Val(Wrap(as_int(v) - as_int(w)))
TaggedMul(v, w) == as_Val(Wrap(as_int(v) * as_int(w)))
\* Division: the set of outcomes.  NULL is a division by zero; the smallest
\* integer divided by -1 is undefined in C++, and the processor may end the
\* program or wrap.
NULL == [tag |-> "NULL", word |-> 0]
Died == [tag |-> "SIGFPE", word |-> 0]
Overflows(v, w) == as_int(v) = -(2 ^ (Bits - 1)) /\ as_int(w) = -1
TaggedDiv(v, w) ==
  IF is_zero(w) THEN {NULL}
  ELSE IF Overflows(v, w) THEN {Died, as_Val(as_int(v))}
  ELSE {as_Val(Quot(as_int(v), as_int(w)))}
TaggedRem(v, w) ==
  IF is_zero(w) THEN {NULL}
  ELSE IF Overflows(v, w) THEN {Died, as_Val(0)}
  ELSE {as_Val(as_int(v) - Quot(as_int(v), as_int(w)) * as_int(w))}
TaggedInc(v, delta) == as_Val(Wrap(as_int(v) + delta))
TaggedLss(v, w) ==
  IF v.tag = "smi" /\ w.tag = "smi" THEN Signed(v.word) < Signed(w.word)
  ELSE as_int(v) < as_int(w)

-----------------------------------------------------------------------------
(* The forms.                                                              *)

\* the number that the bits of a float stand for; the largest magnitude is NaN,
\* of which every comparison is false
Float(b) == IF b >= 2 ^ (Bits - 1) THEN -(b - 2 ^ (Bits - 1)) ELSE b
IsNaN(b) == b % 2 ^ (Bits - 1) = 2 ^ (Bits - 1) - 1
cmp(a, b) == IF a < b THEN -1 ELSE IF a > b THEN 1 ELSE 0

basic64(v) ==
  CASE v[1] = "bool" -> IF v[2] THEN 1 ELSE 0
    [] v[1] = "int" -> Unsigned(v[2])
    [] OTHER -> v[2]
NewValBasic64(type, bits) ==
  CASE type = "bool" -> <<type, bits # 0>>
    [] type = "int" -> <<type, Signed(bits)>>
    [] OTHER -> <<type, bits>>

BoolEqual(a, b) == a[2] = b[2]
IntEqual(a, b) == a[2] = b[2]
FloatEqual(a, b) == ~IsNaN(a[2]) /\ ~IsNaN(b[2]) /\ Float(a[2]) = Float(b[2])
BytesEqual(a, b) == Len(a[2]) = Len(b[2]) /\ \A i \in 1..Len(a[2]) : a[2][i] = b[2][i]
StringEqual(a, b) == Len(a[2]) = Len(b[2]) /\ \A i \in 1..Len(a[2]) : a[2][i] = b[2][i]
ClosureEqual(a, b) == a[2] = b[2]
RECURSIVE IsEqual(_, _)
ArrayEqual(a, b) == Len(a[2]) = Len(b[2]) /\ \A i \in 1..Len(a[2]) : IsEqual(a[2][i], b[2][i])
TupleEqual(a, b) == \A i \in 1..Len(a[2]) : IsEqual(a[2][i], b[2][i])
IsEqual(a, b) ==
  CASE a[1] = "bool" -> BoolEqual(a, b)
    [] a[1] \in {"int", "uint", "fingerprint", "time"} -> IntEqual(a, b)
    [] a[1] = "float" -> FloatEqual(a, b)
    [] a[1] = "bytes" -> BytesEqual(a, b)
    [] a[1] = "string" -> StringEqual(a, b)
    [] a[1] = "array" -> ArrayEqual(a, b)
    [] a[1] = "tuple" -> TupleEqual(a, b)
    [] a[1] = "closure" -> ClosureEqual(a, b)

\* the first difference of two sequences of bytes, of unsigned bytes
FirstDiff(s, t) ==
  LET n == Min({Len(s), Len(t)})
      diffs == {i \in 1..n : s[i] # t[i]}
  IN  IF diffs = {} THEN 0 ELSE s[Min(diffs)] - t[Min(diffs)]
BytesCmp(a, b) ==
  LET d == FirstDiff(a[2], b[2]) IN IF d # 0 THEN d ELSE cmp(Len(a[2]), Len(b[2]))
\* Defect: of two strings, one a prefix of the other, neither is less.
StringCmpDefect(a, b) == FirstDiff(a[2], b[2])
StringCmp(a, b) ==
  LET d == FirstDiff(a[2], b[2]) IN IF d # 0 THEN d ELSE cmp(Len(a[2]), Len(b[2]))
ClosureCmp(a, b) ==
  IF a[2][1] # b[2][1] THEN cmp(a[2][1], b[2][1]) ELSE cmp(a[2][2], b[2][2])
FloatCmp(a, b) == IF IsNaN(a[2]) \/ IsNaN(b[2]) THEN 0 ELSE cmp(Float(a[2]), Float(b[2]))
RECURSIVE Cmp(_, _)
ArrayCmp(a, b) ==
  LET n == Min({Len(a[2]), Len(b[2])})
      diffs == {i \in 1..n : Cmp(a[2][i], b[2][i]) # 0}
  IN  IF diffs = {} THEN cmp(Len(a[2]), Len(b[2])) ELSE Cmp(a[2][Min(diffs)], b[2][Min(diffs)])
TupleCmp(a, b) == ArrayCmp(a, b)
Cmp(a, b) ==
  CASE a[1] = "bool" -> cmp(basic64(a), basic64(b))
    [] a[1] \in {"int", "uint", "fingerprint", "time"} -> cmp(a[2], b[2])
    [] a[1] = "float" -> FloatCmp(a, b)
    [] a[1] = "bytes" -> BytesCmp(a, b)
    [] a[1] = "string" -> StringCmp(a, b)
    [] a[1] = "array" -> ArrayCmp(a, b)
    [] a[1] = "tuple" -> TupleCmp(a, b)
    [] a[1] = "closure" -> ClosureCmp(a, b)

\* MapHashCat
Xor(S, T) == (S \ T) \cup (T \ S)
Seed == {<<"seed">>}
\* Defect: a float is hashed by its magnitude.
NumHashDefect(v) == {<<"num", IF v[1] = "float" THEN basic64(v) % 2 ^ (Bits - 1) ELSE basic64(v)>>}
NumHash(v) == {<<"num", basic64(v)>>}
BytesHash(v) == {<<"bytes">> \o v[2]}
ClosureHash(v) == Xor({<<"ptr", v[2][1]>>}, {<<"ptr", v[2][2]>>})
RECURSIVE Hash(_)
ArrayHash(v) == FoldLeft(LAMBDA h, e : Xor(h, Hash(e)), Seed, v[2])
TupleHash(v) == FoldLeft(LAMBDA h, e : Xor(h, Hash(e)), Seed, v[2])
Hash(v) ==
  CASE v[1] \in {"bytes", "string"} -> BytesHash(v)
    [] v[1] = "array" -> ArrayHash(v)
    [] v[1] = "tuple" -> TupleHash(v)
    [] v[1] = "closure" -> ClosureHash(v)
    [] OTHER -> NumHash(v)

\* the code index of a closure is that of its entry, its level that of its context
ClosureFingerprint(v) == <<"(">> \o v[2] \o <<")">>
RECURSIVE Fingerprint(_)
ArrayFingerprint(v) == FoldLeft(LAMBDA p, e : <<"(">> \o p \o Fingerprint(e) \o <<")">>, <<"seed">>, v[2])
TupleFingerprint(v) == FoldLeft(LAMBDA p, e : <<"(">> \o p \o Fingerprint(e) \o <<")">>, <<"seed">>, v[2])
Fingerprint(v) ==
  CASE v[1] \in {"bytes", "string"} -> <<"(">> \o v[2] \o <<")">>
    [] v[1] = "array" -> ArrayFingerprint(v)
    [] v[1] = "tuple" -> TupleFingerprint(v)
    [] v[1] = "closure" -> ClosureFingerprint(v)
    [] OTHER -> <<basic64(v)>>

-----------------------------------------------------------------------------
(* Three values of a type.                                                 *)

Basic(type) ==
  CASE type = "bool" -> {<<"bool", c>> : c \in BOOLEAN}
    [] type = "int" -> {<<"int", Signed(c)>> : c \in Word}
    [] type = "float" -> {<<"float", c>> : c \in Floats}
    [] OTHER -> {<<type, c>> : c \in Word}
Texts == UNION {[1..n -> {0, 1, 2}] : n \in 0..2}
Values(type) ==
  CASE type \in {"bytes", "string"} -> {<<type, s>> : s \in Texts}
    [] type = "array" -> {<<"array", s>> : s \in UNION {[1..n -> {<<"string", <<>>>>, <<"string", <<1>>>>}] : n \in 0..2}}
    [] type = "tuple" -> {<<"tuple", <<u, v>>>> : u \in Basic("bool"), v \in {<<"float", c>> : c \in Floats}}
    [] type = "closure" -> {<<"closure", c>> : c \in {1, 2} \X {3, 4}}
    [] OTHER -> Basic(type)
Types == {"bool", "int", "uint", "fingerprint", "time", "float", "bytes", "string", "array",
          "tuple", "closure"}
Cases == UNION {Values(type) \X Values(type) \X Values(type) : type \in Types}

\* the floats of a value, and values that differ in the sign of a zero
FloatsOf(v) ==
  CASE v[1] = "float" -> <<v>>
    [] v[1] = "tuple" -> SelectSeq(v[2], LAMBDA e : e[1] = "float")
    [] OTHER -> <<>>
HasNaN(v) == \E i \in 1..Len(FloatsOf(v)) : IsNaN(FloatsOf(v)[i][2])
ZerosDiffer(a, b) ==
  \E i \in 1..Len(FloatsOf(a)) :
    LET x == FloatsOf(a)[i][2]
        y == FloatsOf(b)[i][2]
    IN  Float(x) = 0 /\ Float(y) = 0 /\ x # y

\* Equality is what order and hashes say, so that maps find their keys and
\* sorts end (form.cc).  Values that are equal have equal hashes and
\* fingerprints, with one exception: 0.0 and -0.0 are equal, and differ in both,
\* so that a map may hold them as two keys.  Without NaN the order is total, and
\* values are equal when neither is less; a NaN is equal to nothing, itself
\* included, so that a map never finds it.
OrderSound(c) ==
  LET sign(i) == IF i < 0 THEN -1 ELSE IF i > 0 THEN 1 ELSE 0
  IN  /\ IsEqual(c[1], c[2]) =>
           /\ Hash(c[1]) = Hash(c[2]) <=> ~ZerosDiffer(c[1], c[2])
           /\ Fingerprint(c[1]) = Fingerprint(c[2]) <=> ~ZerosDiffer(c[1], c[2])
      /\ HasNaN(c[1]) => ~IsEqual(c[1], c[2])
      /\ (\A i \in 1..3 : ~HasNaN(c[i])) =>
           /\ IsEqual(c[1], c[1])
           /\ IsEqual(c[1], c[2]) <=> Cmp(c[1], c[2]) = 0
           /\ sign(Cmp(c[1], c[2])) = -sign(Cmp(c[2], c[1]))
           /\ Cmp(c[1], c[2]) <= 0 /\ Cmp(c[2], c[3]) <= 0 => Cmp(c[1], c[3]) <= 0
      /\ c[1][1] \notin {"bytes", "string", "array", "tuple", "closure"} =>
           NewValBasic64(c[1][1], basic64(c[1])) = c[1]

\* Arithmetic on tagged integers is arithmetic on words, whether its operands
\* and results are tagged or not, and equal integers are tagged alike
\* (taggedptrs.h; is_zero compares words).  A division by zero, and no other,
\* is NULL, which the engine makes a trap; only the smallest integer divided by
\* -1 may end the program.
TaggedSound(i, j) ==
  LET v == as_Val(i)
      w == as_Val(j)
  IN  /\ as_int(v) = i /\ (is_zero(v) <=> i = 0)
      /\ TaggedAdd(v, w) = as_Val(Wrap(i + j)) /\ as_int(TaggedAdd(v, w)) = Wrap(i + j)
      /\ as_int(TaggedSub(v, w)) = Wrap(i - j) /\ as_int(TaggedMul(v, w)) = Wrap(i * j)
      /\ (NULL \in TaggedDiv(v, w)) = (j = 0) /\ (NULL \in TaggedRem(v, w)) = (j = 0)
      /\ Died \in TaggedDiv(v, w) \cup TaggedRem(v, w) => j = -1 /\ Wrap(-i) # -i
      /\ \A q \in TaggedDiv(v, w) \ {NULL, Died}, r \in TaggedRem(v, w) \ {NULL, Died} :
           Wrap(as_int(q) * j + as_int(r)) = i /\ Abs(as_int(r)) < Abs(j)
      /\ as_int(TaggedInc(v, 1)) = Wrap(i + 1)
      /\ TaggedLss(v, w) <=> i < j

\* The two of a case of OrderSound; tagged integers are checked on integers.
Agrees(c) == OrderSound(c) /\ (c[1][1] = "int" => TaggedSound(c[1][2], c[2][2]))
=============================================================================
