--------------------------- MODULE RewriteAsserts ---------------------------
(***************************************************************************)
(* Calls of assert become if statements (engine/rewriteasserts.cc), so     *)
(* that the message is evaluated only when the assertion fails.            *)
(***************************************************************************)
EXTENDS Ast

BoolLiteral(b) == Literal("bool", b)

VisitExprStat(x) ==
    LET call == x.expr
        cond == call.args[1]
        rewritten == If(Binary("bool", BoolLiteral(FALSE), "EQL", "eql_bits", cond),
                        ExprStat([call EXCEPT !.args[1] = BoolLiteral(FALSE)]), Empty)
    IN  IF \/ ~IsIntrinsic(call, {"INTRINSIC"}) \/ call.fun.name # "assert"
           \/ cond.k = "Literal" \/ call.args[2].k = "Literal"
        THEN x ELSE rewritten

RECURSIVE Rewrite(_)
Rewrite(x) ==
    LET RECURSIVE rewriteAt(_, _)
        rewriteAt(y, places) ==
            IF places = <<>> THEN y
            ELSE With(PutAt(y, places[1], Rewrite(GetAt(y, places[1]))), LAMBDA z : rewriteAt(z, Tail(places)))
    IN  CASE x.k = "Block" -> [x EXCEPT !.list = SelectSeq([i \in DOMAIN @ |-> Rewrite(@[i])], LAMBDA y : TRUE)]
          [] x.k = "ExprStat" -> VisitExprStat([x EXCEPT !.expr = Rewrite(@)])
          [] OTHER -> rewriteAt(x, Slots(x))

RewriteAsserts(P) ==
    [P EXCEPT !.funs = <<>> @@ [f \in DOMAIN P.funs |-> [P.funs[f] EXCEPT !.body = Rewrite(@)]],
              !.decl = <<>> @@ [d \in DOMAIN P.decl |-> [P.decl[d] EXCEPT !.init = Rewrite(@)]]]

=============================================================================
