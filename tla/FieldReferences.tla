-------------------------- MODULE FieldReferences --------------------------
(***************************************************************************)
(* Which fields of tuples are read (engine/fieldreferences.cc), as pairs   *)
(* of a tuple type and the number of a field.  No field is a tuple here.   *)
(***************************************************************************)
EXTENDS Ast

AllFieldsRead(t) == {<<t, i>> : i \in DOMAIN field_types(t)}
Types(P, list) == {TypeOf(P, list[i]) : i \in DOMAIN list}

(* The fields that a node reads, apart from those that its children read.  *)
(* An assignment does not read the field that it assigns to.               *)
ReadAt(P, x, is_lhs) ==
    CASE x.k = "Selector" /\ ~is_lhs -> {<<TypeOf(P, x.var), x.field>>}
      [] x.k = "Binary" /\ x.op \in {"EQL", "NEQ"} ->
            AllFieldsRead(TypeOf(P, x.left)) \cup AllFieldsRead(TypeOf(P, x.right))
      [] IsIntrinsic(x, {"INTRINSIC"}) -> UNION {AllFieldsRead(t) : t \in Types(P, x.args)}
      [] x.k = "Composite" -> AllFieldsRead(x.t)
      [] x.k = "Conversion" -> AllFieldsRead(TypeOf(P, x.src))
      [] x.k = "Emit" -> UNION {AllFieldsRead(t) : t \in Types(P, x.indices) \cup {TypeOf(P, x.value)}}
      [] OTHER -> {}

RECURSIVE Read(_, _, _)
Read(P, x, is_lhs) ==
    LET below == Below(P, x)
    IN  ReadAt(P, x, is_lhs)
        \cup UNION {Read(P, below[i], x.k = "Assignment" /\ i = 1) : i \in DOMAIN below}

SetReferencedFields(P) ==
    [P EXCEPT !.read = Read(P, P.funs["$main"].body, FALSE)
                       \cup UNION {Read(P, VarDecl(P.statics[i]), FALSE) : i \in DOMAIN P.statics}]

=============================================================================
