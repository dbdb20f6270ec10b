-------------------------- MODULE ConstantFolding --------------------------
(***************************************************************************)
(* Folding of expressions with literal operands (engine/constantfolding.cc)*)
(*                                                                         *)
(* Fold(P, x) is what an expression whose operands were visited already is *)
(* replaced by.  An operation that fails is left to the running program.   *)
(* Of the basic types, int and bool stand for the scalar ones, string and  *)
(* bytes are the others.                                                   *)
(***************************************************************************)
EXTENDS Ast

CONSTANT kMaxFoldedNewLength    \* longer strings are not created by folding

is_literal(x) == x.k = "Literal"
IntLiteral(n) == Literal("int", n)
BoolLiteral(b) == Literal("bool", b)

FoldInt(x, l, r) ==
    CASE x.op = "ADD" -> IntLiteral(l + r)
      [] x.op = "SUB" -> IntLiteral(l - r)
      [] x.op = "MUL" -> IntLiteral(l * r)
      [] x.op = "DIV" -> IF r = 0 THEN x ELSE IntLiteral(quotient(l, r))
      [] x.op = "MOD" -> IF r = 0 THEN x ELSE IntLiteral(l - r * quotient(l, r))
      [] x.op = "EQL" -> BoolLiteral(l = r)
      [] x.op = "NEQ" -> BoolLiteral(l # r)
      [] x.op = "LSS" -> BoolLiteral(l < r)
      [] x.op = "LEQ" -> BoolLiteral(l <= r)
      [] x.op = "GTR" -> BoolLiteral(l > r)
      [] x.op = "GEQ" -> BoolLiteral(l >= r)

(* Booleans, strings and bytes. *)
FoldOther(x, l, r) ==
    CASE x.op = "EQL" -> BoolLiteral(l.v = r.v)
      [] x.op = "NEQ" -> BoolLiteral(l.v # r.v)
      [] x.op = "ADD" -> Literal(l.t, l.v \o r.v)

FoldBinary(x) ==
    LET l == x.left
        r == x.right
    IN  IF ~is_literal(l) \/ ~is_literal(r) THEN x
        ELSE IF l.t = "int" THEN FoldInt(x, l.v, r.v) ELSE FoldOther(x, l, r)

all_literals(list) == \A i \in DOMAIN list : is_literal(list[i])

(* The intrinsic is called; if it fails the call stays. *)
FoldCall(x) ==
    IF x.fun.k # "Intrinsic" \/ ~all_literals(x.args) THEN x
    ELSE IF ~x.fun.can_fold THEN x
    ELSE CASE x.fun.name = "len" -> IntLiteral(Len(x.args[1].v))
           [] x.fun.name = "addday" -> IF x.args[1].v = 0 THEN x ELSE x.args[1]

FoldConversion(x) ==
    IF ~is_literal(x.src) \/ ~all_literals(x.params) \/ x.kind # "Basic" THEN x
    ELSE CASE x.op = "int2str" -> Literal("string", << <<"int", x.src.v>> >>)
           [] x.op = "str2int" -> IF Len(x.src.v) = 1 /\ x.src.v[1][2] \in 1 .. 9
                                  THEN IntLiteral(x.src.v[1][2]) ELSE x
           [] OTHER -> x.src

FoldDollar(x) == IF is_literal(x.array) THEN IntLiteral(Len(x.array.v)) ELSE x

FoldRuntimeGuard(x) == IF is_literal(x.guard) /\ x.guard.v THEN x.expr ELSE x

FoldIndex(x) ==
    IF ~is_literal(x.var) \/ ~is_literal(x.index) THEN x
    ELSE IF x.index.v < 0 \/ x.index.v >= Len(x.var.v) THEN x
    ELSE IntLiteral(x.var.v[x.index.v + 1][2])

(* A character zero stands for one that is not valid. *)
FoldNew(x) ==
    IF x.t \notin {"string", "bytes"} THEN x
    ELSE IF ~is_literal(x.init) \/ ~is_literal(x.length) THEN x
    ELSE IF \/ x.t = "string" /\ x.init.v = 0
            \/ x.length.v < 0 \/ x.length.v > kMaxFoldedNewLength THEN x
    ELSE Literal(x.t, [i \in 1 .. x.length.v |-> <<"int", x.init.v>>])

(* The bounds are moved into the range first. *)
FoldSlice(x) ==
    LET n == Len(x.var.v)
        clip(i) == IF i < 0 THEN 0 ELSE IF i > n THEN n ELSE i
    IN  IF ~is_literal(x.var) \/ ~is_literal(x.beg) \/ ~is_literal(x.end) THEN x
        ELSE [x.var EXCEPT !.v = SubSeq(@, clip(x.beg.v) + 1, clip(x.end.v))]

Fold(x) ==
    CASE x.k = "Binary" -> FoldBinary(x)
      [] x.k = "Call" -> FoldCall(x)
      [] x.k = "Conversion" -> FoldConversion(x)
      [] x.k = "Dollar" -> FoldDollar(x)
      [] x.k = "RuntimeGuard" -> FoldRuntimeGuard(x)
      [] x.k = "Index" -> FoldIndex(x)
      [] x.k = "New" -> FoldNew(x)
      [] x.k = "Slice" -> FoldSlice(x)
      [] OTHER -> x

=============================================================================
