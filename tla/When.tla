-------------------------------- MODULE When --------------------------------
(***************************************************************************)
(* How a when statement is rewritten as loops (engine/when.cc).            *)
(*                                                                         *)
(* The statement has an identity, id, from which the names of its          *)
(* temporaries and the identities of its loops are made.  A construction   *)
(* is kept in a record w: the declarations made so far, their number, and  *)
(* whether the analysis failed.                                            *)
(***************************************************************************)
EXTENDS Ast
LOCAL INSTANCE SequencesExt

is_quant(P, d) == P.decl[d].quant # "none"

-----------------------------------------------------------------------------
(* What constrains a quantifier. *)

RECURSIVE AllDefs(_)
AllDefs(x) ==
    \/ IsIntrinsic(x, {"DEF"})
    \/ x.k = "Binary" /\ x.op \in {"LAND", "LOR", "EQL"} /\ AllDefs(x.left) /\ AllDefs(x.right)
    \/ x.k = "Literal" /\ x.t = "bool"

(* The quantifiers that appear in an expression, as often as they do. *)
all_quants(P, x) ==
    With(SelectSeq(Nodes(P, x, {"StatExpr", "Function", "TempVariable"}),
                   LAMBDA y : y.k = "Variable" /\ is_quant(P, y.d)), LAMBDA quants :
         [i \in DOMAIN quants |-> quants[i].d])

(* The index expressions that constrain quantifier q, whether the          *)
(* condition must be protected by def(), and whether it cannot be handled. *)
NoUses == [uses |-> <<>>, needs_def |-> FALSE, error |-> FALSE]
Both(u, v) ==
    [uses |-> u.uses \o v.uses, needs_def |-> u.needs_def \/ v.needs_def, error |-> u.error \/ v.error]

RECURSIVE Uses(_, _, _, _)
Uses(P, q, locals, x) ==
    LET AnalyzeIndex(index) ==
            With(all_quants(P, index), LAMBDA quants :
                 CASE quants = <<q>> /\ index.k = "Variable" -> [NoUses EXCEPT !.uses = <<x>>]
                   [] Len(quants) = 0 \/ (Len(quants) = 1 /\ quants # <<q>>) -> NoUses
                   [] OTHER -> [Uses(P, q, locals, index) EXCEPT !.needs_def = TRUE])
        RECURSIVE each(_)
        each(list) == IF list = <<>> THEN NoUses ELSE Both(Uses(P, q, locals, list[1]), each(Tail(list)))
    IN  CASE x.k = "Index" ->
                IF x.var.k = "Variable" /\ x.var.d \in locals THEN Uses(P, q, locals, x.index)
                ELSE Both(Uses(P, q, locals, x.var), AnalyzeIndex(x.index))
          [] x.k = "Slice" ->
                Both(Uses(P, q, locals, x.var), Both(AnalyzeIndex(x.beg), AnalyzeIndex(x.end)))
          [] x.k = "Dollar" -> NoUses
          [] x.k = "RuntimeGuard" -> Uses(P, q, locals, x.expr)
          [] x.k = "Call" ->
                Both(IF x.fun.k = "Intrinsic" THEN NoUses ELSE Uses(P, q, locals, x.fun), each(x.args))
          [] x.k = "Saw" ->
                [Both(Uses(P, q, locals, x.count), each(x.args)) EXCEPT
                    !.error = @ \/ \E i \in DOMAIN x.flags : x.flags[i] = "REST"]
          [] x.k \in {"Function", "TempVariable"} -> [NoUses EXCEPT !.error = TRUE]
          [] OTHER -> each(Below(P, x))

LocalsOf(P, cond) ==
    With(Nodes(P, cond, {"Function"}), LAMBDA nodes :
         {nodes[i].d : i \in {j \in DOMAIN nodes : nodes[j].k = "VarDecl"}})
UsesOf(P, cond, q) == Uses(P, q, LocalsOf(P, cond), cond)

-----------------------------------------------------------------------------
(* The pieces of the loops. *)

Int0 == Literal("int", 0)
IntOp(x, op, opcode, y) == Binary("int", x, op, opcode, y)
Internal(name, result, args) == Call(Intrinsic("WHEN", name, result, FALSE, FALSE), args)
LenCall(x) == Call(Intrinsic("LEN", "len", "int", FALSE, TRUE), <<x>>)

TempDecl(w, name, t, init) ==
    LET d == name \o ToString(w.id) \o "_" \o ToString(Cardinality(DOMAIN w.decl))
    IN  [w EXCEPT !.decl = (d :> Decl(t, w.owner, w.level, FALSE, init)) @@ @, !.last = d, !.temps = Append(@, d)]
Failed(w) == [w EXCEPT !.error = TRUE]

(* A slice may begin, and end, behind the last element. *)
RangeLimit(use) ==
    <<Int0, IF use.k = "Slice" THEN IntOp(LenCall(use.var), "ADD", "add_int", Literal("int", 1))
            ELSE LenCall(use.var)>>

NumQuant(P, quants, x) ==
    LET RECURSIVE count(_)
        count(i) == IF i > Len(quants) THEN 0 ELSE Len(UsesOf(P, x, quants[i]).uses) + count(i + 1)
    IN  count(1)

(* The declarations in front of a loop, the variables that hold its range, *)
(* and the array of keys, if any.                                          *)
LoopRange(w, decls, min, max, key_array) ==
    [w |-> w, decls |-> [i \in DOMAIN decls |-> VarDecl(decls[i])], min |-> min, max |-> max,
     key_array |-> key_array]

CombineArrayRange(w, uses) ==
    LET RECURSIVE limits(_)
        limits(i) == IF i > Len(uses) THEN <<>> ELSE RangeLimit(uses[i]) \o limits(i + 1)
        args == <<Literal("int", Len(uses))>> \o limits(1)
    IN  With(TempDecl(w, "$minmax", "int", Internal("$combinerange", "int", args)), LAMBDA w1 :
        With(TempDecl(w1, "$min", "int", IntOp(Variable(w1.last), "BAND", "and_int",
                                              Literal("int", 2^kHalfBits - 1))), LAMBDA w2 :
        With(TempDecl(w2, "$max", "int", IntOp(Variable(w1.last), "SHR", "shr_int",
                                              Literal("int", kHalfBits))), LAMBDA w3 :
            LoopRange(w3, <<w1.last, w2.last, w3.last>>, w2.last, w3.last, "none"))))

CombineMapRange(w, uses) ==
    LET maps == [i \in DOMAIN uses |-> uses[i].var]
        args == <<Literal("int", Len(uses))>> \o maps
    IN  With(TempDecl(w, "$key_array", "array", Internal("$combinekeys", "array", args)), LAMBDA w1 :
        With(TempDecl(w1, "$min", "int", Int0), LAMBDA w2 :
        With(TempDecl(w2, "$max", "int", LenCall(Variable(w1.last))), LAMBDA w3 :
            LoopRange(w3, <<w1.last, w2.last, w3.last>>, w2.last, w3.last, w1.last))))

(* An integer loop serves for arrays and for one map variable; several     *)
(* maps need the union of their keys.                                      *)
CombineRange(P, quants, w, uses) ==
    With(<<>> \o [i \in DOMAIN uses |-> TypeOf(P, uses[i].var)], LAMBDA types :
        LET map(i) == is_map(types[i])
            var(i) == uses[i].var.k = "Variable"
            mapdecl == {uses[i].var.d : i \in {j \in DOMAIN uses : map(j) /\ var(j)}}
            nmapexpr == Cardinality({i \in DOMAIN uses : map(i) /\ ~var(i)})
            narray == Cardinality({i \in DOMAIN uses : ~map(i)})
            too_complex == \E i \in DOMAIN uses : ~var(i) /\ (map(i) \/ is_array(types[i]))
                                                  /\ NumQuant(P, quants, uses[i]) > 1
            simple == nmapexpr = 0 /\ (mapdecl = {} \/ (Cardinality(mapdecl) = 1 /\ narray = 0))
        IN  IF too_complex \/ (~simple /\ narray > 0)
            THEN LoopRange(Failed(w), <<>>, "none", "none", "none")
            ELSE IF simple THEN CombineArrayRange(w, uses) ELSE CombineMapRange(w, uses))

(* The quantifier itself is the index of the loop, unless it indexes a     *)
(* map: then there is an index of its own, and the quantifier is assigned  *)
(* the key at that index.                                                  *)
MapUses(P, uses) == {i \in DOMAIN uses : is_map(TypeOf(P, uses[i].var))}
DeclareIndexVar(P, r, q, uses) ==
    IF MapUses(P, uses) = {}
    THEN [r EXCEPT !.w.decl = (q :> [P.decl[q] EXCEPT !.init = Variable(r.min)]) @@ @, !.w.last = q]
    ELSE [r EXCEPT !.w = TempDecl(@, "$index", "int", Variable(r.min)), !.decls = Append(@, VarDecl(q))]

CreateAssignment(P, r, q, uses, index) ==
    LET map == uses[CHOOSE i \in MapUses(P, uses) : \A j \in MapUses(P, uses) : i <= j].var
    IN  Assignment(Variable(q),
            IF r.key_array # "none" THEN Index(Variable(r.key_array), Variable(index), Nil)
            ELSE Internal("$getkeybyindex", "int", <<map, Variable(index)>>))

ForLoop(loop, index, max, body) ==
    Loop(loop, "FOR", VarDecl(index), Binary("bool", Variable(index), "LSS", "lss_int", Variable(max)),
         [k |-> "Increment", lvalue |-> Variable(index), delta |-> 1], body)

(* A condition that is not made of def() alone: def(t) && t.  Its          *)
(* declaration comes first in the block.                                   *)
Protected(w, cond) ==
    IF AllDefs(cond) THEN [w |-> w, decls |-> <<>>, cond |-> cond]
    ELSE With(TempDecl(w, "$boolean", "bool", cond), LAMBDA w1 :
            [w |-> w1, decls |-> <<VarDecl(w1.last)>>,
             cond |-> Binary("bool", Call(Intrinsic("DEF", "def", "bool", FALSE, FALSE), <<Variable(w1.last)>>),
                             "LAND", "nop", Variable(w1.last))])

(* A construction with its result. *)
Made(w, block) == [w |-> w, block |-> block]

(* The body is appended to the block of loops; a failed condition leaves   *)
(* through the loop around both.                                           *)
CreateWhileAllLoop(x, w, succeeded, loops, loop) ==
    Made(w, Block(<<Loop(loop, "WHILE", Nil, Literal("bool", TRUE), Nil,
        Block(loops.list \o <<x.body>>
              \o (IF succeeded = "none" THEN <<>>
                  ELSE <<Assignment(Variable(succeeded), Literal("bool", TRUE))>>)
              \o <<Break(loop, TRUE)>>))>>))

(* A loop for quantifier number i around body; "succeeded" makes a "some"  *)
(* loop that is not the innermost one stop.                                *)
LoopId(x, i) == 100 * x.id + i
CreateForLoop(P, x, w, i, uses, succeeded, body) ==
    LET q == x.qvars[i]
        kind == P.decl[q].quant
        loop == LoopId(x, i)
        stop == IF succeeded # "none" /\ kind = "SOME"
                THEN <<If(Variable(succeeded), Break(loop, TRUE), Empty)>> ELSE <<>>
        unfit == succeeded # "none" /\ kind = "ALL"
    IN  With(DeclareIndexVar(P, CombineRange(P, x.qvars, w, uses), q, uses), LAMBDA r :
            LET index == r.w.last
                inner == IF MapUses(P, uses) = {} THEN [body EXCEPT !.list = @ \o stop]
                         ELSE Block(<<CreateAssignment(P, r, q, uses, index)>> \o body.list \o stop)
            IN  IF w.error \/ r.w.error \/ unfit THEN Made(Failed(w), Nil)
                ELSE Made(r.w, Block(Append(r.decls, ForLoop(loop, index, r.max, inner)))))

-----------------------------------------------------------------------------
(* One quantifier *)
AnalyzeOneVar(P, x, w, uses, needs_def) ==
    LET q == x.qvars[1]
        loop == LoopId(x, 1)
        outer == LoopId(x, 0)
    IN  With(CombineRange(P, x.qvars, w, uses), LAMBDA r0 :
        IF r0.w.error THEN Made(r0.w, Nil)
        ELSE With(DeclareIndexVar(P, r0, q, uses), LAMBDA r :
            LET index == r.w.last
                assign == IF MapUses(P, uses) = {} THEN <<>> ELSE <<CreateAssignment(P, r, q, uses, index)>>
            IN  With(IF needs_def \/ r.key_array # "none" THEN Protected(r.w, x.cond)
                     ELSE [w |-> r.w, decls |-> <<>>, cond |-> x.cond], LAMBDA c :
                LET test == CASE P.decl[q].quant = "SOME" -> If(c.cond, Block(<<x.body, Break(loop, TRUE)>>), Empty)
                              [] P.decl[q].quant = "EACH" -> If(c.cond, x.body, Empty)
                              [] OTHER -> If(c.cond, Empty, Break(outer, TRUE))
                    loops == Block(Append(r.decls, ForLoop(loop, index, r.max,
                                          Block(assign \o c.decls \o <<test>>))))
                IN  IF P.decl[q].quant = "ALL" THEN CreateWhileAllLoop(x, c.w, "none", loops, outer)
                    ELSE Made(c.w, loops))))

(* The loops for the quantifiers, from the i-th outwards; the innermost is *)
(* not told of $succeeded, but made complete if it is an "all" loop.       *)
RECURSIVE Outwards(_, _, _, _, _, _)
Outwards(P, x, made, i, alluses, succeeded) ==
    LET n == Len(x.qvars)
        innermost == succeeded # "none" /\ i = n
        loop == CreateForLoop(P, x, made.w, i, alluses[i], IF innermost THEN "none" ELSE succeeded, made.block)
    IN  IF i = 0 \/ made.w.error THEN made
        ELSE With(loop, LAMBDA next :
            Outwards(P, x, IF innermost /\ P.decl[x.qvars[n]].quant = "ALL" /\ ~next.w.error
                           THEN CreateWhileAllLoop(x, next.w, succeeded, next.block, LoopId(x, 0)) ELSE next,
                     i - 1, alluses, succeeded))

(* Several quantifiers of the same kind, and of different kinds: what the  *)
(* innermost loop does, the variable that tells that it succeeded, and     *)
(* what is put around the loops.                                           *)
AllSameTest(x, kind, cond) ==
    LET outermost == IF kind = "ALL" THEN LoopId(x, 0) ELSE LoopId(x, 1)
    IN  CASE kind = "SOME" -> If(cond, Block(<<x.body, Break(outermost, TRUE)>>), Empty)
          [] kind = "EACH" -> If(cond, Block(<<x.body>>), Empty)
          [] OTHER -> If(cond, Block(<<>>), Break(outermost, TRUE))
MixedTest(x, kind, cond, succeeded) ==
    LET n == Len(x.qvars)
        set == Assignment(Variable(succeeded), Literal("bool", TRUE))
    IN  CASE kind = "SOME" -> If(cond, Block(<<x.body, set, Break(LoopId(x, n), TRUE)>>), Empty)
          [] kind = "EACH" -> If(cond, Block(<<x.body, set>>), Empty)
          [] OTHER -> If(cond, Block(<<Empty>>), Break(LoopId(x, 0), TRUE))

AnalyzeNVars(P, x, w, alluses, same) ==
    LET n == Len(x.qvars)
        kind == P.decl[x.qvars[n]].quant
    IN  With(IF same THEN w ELSE TempDecl(w, "$succeeded", "bool", Literal("bool", FALSE)), LAMBDA w1 :
        With(Protected(w1, x.cond), LAMBDA c :
        With(Outwards(P, x, Made(c.w, Block(Append(c.decls, IF same THEN AllSameTest(x, kind, c.cond)
                                                            ELSE MixedTest(x, kind, c.cond, w1.last)))),
                      n, alluses, IF same THEN "none" ELSE w1.last), LAMBDA loops :
            CASE loops.w.error -> loops
              [] ~loops.w.error /\ ~same -> Made(loops.w, Block(<<VarDecl(w1.last)>> \o loops.block.list))
              [] OTHER -> IF kind = "ALL" THEN CreateWhileAllLoop(x, loops.w, "none", loops.block, LoopId(x, 0))
                          ELSE loops)))

Analyze(P, f, x) ==
    LET w == [id |-> x.id, owner |-> f, level |-> P.funs[f].level, decl |-> <<>>, last |-> "none",
              temps |-> <<>>, error |-> FALSE]
        n == Len(x.qvars)
        kinds == {P.decl[x.qvars[i]].quant : i \in 1 .. n}
    IN  With(<<>> \o [i \in 1 .. n |-> UsesOf(P, x.cond, x.qvars[i])], LAMBDA found :
        LET alluses == [i \in 1 .. n |-> found[i].uses]
            failed == \E i \in 1 .. n : found[i].error \/ alluses[i] = <<>>
        IN  CASE failed -> Made(Failed(w), Nil)
              [] n = 0 -> Made(w, If(x.cond, x.body, Empty))
              [] ~failed /\ n = 1 -> AnalyzeOneVar(P, x, w, alluses[1], found[1].needs_def)
              [] OTHER -> AnalyzeNVars(P, x, w, alluses, Cardinality(kinds) = 1))

-----------------------------------------------------------------------------
(* All when statements of a program, inner ones first.  A when statement   *)
(* stands for what it was rewritten as.                                    *)

(* A block in a block is part of it. *)
Flattened(list) ==
    Block(FlattenSeq([i \in DOMAIN list |-> IF list[i].k = "Block" THEN list[i].list ELSE <<list[i]>>]))

(* The tree with its when statements rewritten, and the temporary          *)
(* variables made for each.                                                *)
RECURSIVE Rewritten(_, _, _)
Rewritten(P, f, x) ==
    LET places == SelectSeq(Slots(x), LAMBDA place : x.k # "When" \/ place = <<"body">>)
        RECURSIVE put(_, _, _)
        put(y, at, below) ==
            IF at = <<>> THEN y
            ELSE With(PutAt(y, at[1], below[1].x), LAMBDA z : put(z, Tail(at), Tail(below)))
    IN  With(SelectSeq([i \in DOMAIN places |-> Rewritten(P, f, GetAt(x, places[i]))], LAMBDA r : TRUE),
             LAMBDA below :
        LET ws == FlattenSeq([i \in DOMAIN below |-> below[i].ws])
        IN  CASE x.k = "Block" -> [x |-> Flattened([i \in DOMAIN below |-> below[i].x]), ws |-> ws]
              [] x.k = "When" -> With(Analyze(P, f, put(x, places, below)), LAMBDA made :
                                    [x |-> made.block, ws |-> Append(ws, made.w)])
              [] OTHER -> [x |-> put(x, places, below), ws |-> ws])

RewriteWhens(P) ==
    With(<<>> @@ [f \in DOMAIN P.funs |-> Rewritten(P, f, P.funs[f].body)], LAMBDA all :
        LET ws == UNION {{all[f].ws[i] : i \in DOMAIN all[f].ws} : f \in DOMAIN all}
            decls == UNION {DOMAIN w.decl : w \in ws}
        IN  [errors |-> Cardinality({w \in ws : w.error}),
             P |-> [P EXCEPT
                !.decl = [d \in decls |-> (CHOOSE w \in ws : d \in DOMAIN w.decl).decl[d]] @@ @,
                !.funs = <<>> @@ [f \in DOMAIN P.funs |->
                    [P.funs[f] EXCEPT !.body = all[f].x,
                        !.locals = @ \o FlattenSeq([i \in DOMAIN all[f].ws |-> all[f].ws[i].temps])]]]])

=============================================================================
