---------------------------- MODULE ClosureCheck ----------------------------
(***************************************************************************)
(* Closure checking and the elimination of unreachable functions           *)
(* (engine/closurecheck.cc).                                               *)
(*                                                                         *)
(* fun_sets is a set of pairs: the node that might hold a function, and    *)
(* that function.  The node is a variable, a function (what it returns) or *)
(* a call (what it calls); two calls of the same expression share theirs.  *)
(* All functions have the same type here, up to their number of parameters.*)
(***************************************************************************)
EXTENDS Ast

Var(d) == <<"VarDecl", d>>
Fn(f) == <<"Function", f>>
Site(x) == <<"Call", x.fun>>
fun_set(sets, node) == {pair[2] : pair \in {p \in sets : p[1] = node}}

(* A value of a type can hold, or grant access to, a function. *)
Filter(t) == t = "function"

is_function_init(P, d) == init_of(P, d).k = "Function"
is_non_function_init(P, d) == init_of(P, d).k \notin {"Nil", "Function"}

(* The functions that a call might call, and that the value of an          *)
(* expression of type t might be.                                          *)
Targets(P, sets, x) ==
    IF x.fun.k = "Variable" /\ is_function_init(P, x.fun.d) THEN {P.decl[x.fun.d].init.f}
    ELSE {f \in fun_set(sets, Site(x)) : Len(P.funs[f].params) = Len(x.args)}

RECURSIVE Values(_, _, _, _)
Values(P, sets, t, x) ==
    CASE x.k = "Function" -> {x.f}
      [] x.k = "Variable" ->
            (IF is_function_init(P, x.d) THEN {P.decl[x.d].init.f} ELSE {})
            \cup {f \in fun_set(sets, Var(x.d)) : Filter(t)}
      [] x.k = "Call" -> {f \in UNION {fun_set(sets, Fn(g)) : g \in IF x.fun.k = "Intrinsic" THEN {} ELSE Targets(P, sets, x)} : Filter(t)}
      [] x.k \in {"Index", "Slice"} -> Values(P, sets, t, x.var)
      [] x.k = "Conversion" -> Values(P, sets, t, x.src)
      [] x.k = "RuntimeGuard" -> Values(P, sets, t, x.expr)
      [] x.k \in {"Assignment", "VarDecl", "Return"} -> {}
      [] OTHER -> UNION {Values(P, sets, t, Below(P, x)[i]) : i \in DOMAIN Below(P, x)}

Propagate(P, sets, lvalue, t, x) == {lvalue} \X Values(P, sets, t, x)

(* What a node in the body of fun propagates. *)
Propagated(P, sets, fun, x) ==
    CASE x.k = "Assignment" -> Propagate(P, sets, Var(UndefVar(x.lvalue)), TypeOf(P, x.lvalue), x.rvalue)
      [] x.k = "VarDecl" /\ is_non_function_init(P, x.d) ->
            Propagate(P, sets, Var(x.d), P.decl[x.d].t, P.decl[x.d].init)
      [] x.k = "Return" /\ x.result # Nil -> Propagate(P, sets, Fn(fun), P.funs[fun].result, x.result)
      [] x.k = "Call" /\ x.fun.k # "Intrinsic" ->
            (IF x.fun.k = "Variable" /\ is_function_init(P, x.fun.d) THEN {}
             ELSE Propagate(P, sets, Site(x), "function", x.fun))
            \cup UNION {LET param == P.funs[g].params[i]
                        IN  Propagate(P, sets, Var(param), P.decl[param].t, x.args[i]) :
                            g \in Targets(P, sets, x), i \in DOMAIN x.args}
      [] OTHER -> {}

(* The function refers to a variable that does not exist in the scope to   *)
(* which it is returned, or in the scope of the variable it is stored in.  *)
Escapes(P, fun, lvalue, f) ==
    \/ lvalue[1] = "Function" /\ P.funs[f].context_level >= P.funs[fun].level
    \/ /\ lvalue[1] = "VarDecl"
       /\ ~P.decl[lvalue[2]].is_param
       /\ P.funs[f].context_level > P.decl[lvalue[2]].level

(* The pairs that one visit of all functions finds: <<function visited,    *)
(* pair>>.                                                                 *)
Visited(P, sets, nodes) ==
    UNION {{fun} \X Propagated(P, sets, fun, nodes[fun][i]) :
              <<fun, i>> \in UNION {{g} \X DOMAIN nodes[g] : g \in DOMAIN nodes}}
RECURSIVE Fixpoint(_, _, _)
Fixpoint(P, sets, nodes) ==
    With(Visited(P, sets, nodes), LAMBDA visited :
        LET kept == {v[2] : v \in {w \in visited : ~Escapes(P, w[1], w[2][1], w[2][2])}}
        IN  IF kept \subseteq sets THEN [sets |-> sets, errors |-> {v \in visited : v[2] \notin kept}]
            ELSE Fixpoint(P, sets \cup kept, nodes))

OfKinds(nodes, kinds) == SelectSeq(nodes, LAMBDA x : x.k \in kinds)
CheckClosures(P) ==
    Fixpoint(P, {}, <<>> @@ [f \in {P.order[i] : i \in DOMAIN P.order} |->
        OfKinds(Nodes(P, P.funs[f].body, {"Function"}), {"Assignment", "VarDecl", "Return", "Call"})])

-----------------------------------------------------------------------------
(* The functions that are reachable from $main and from the initializers   *)
(* of the statics.  Any use of a function counts as a call.                *)

(* The program without the initializers that are functions. *)
Uninitialized(P) ==
    [P EXCEPT !.decl = <<>> @@ [d \in DOMAIN P.decl |->
        IF is_function_init(P, d) THEN [P.decl[d] EXCEPT !.init = Nil] ELSE P.decl[d]]]

(* The variables and the functions that the nodes below x refer to. *)
Uses(P, x) ==
    LET nodes == Nodes(Uninitialized(P), x, {})
        of(kind) == {nodes[i] : i \in {j \in DOMAIN nodes : nodes[j].k = kind}}
        vars == {y.d : y \in of("Variable")} \cup {y.var.d : y \in of("StatExpr")}
    IN  [vars |-> vars,
         funs |-> {y.f : y \in of("Function")}
                  \cup {P.decl[d].init.f : d \in {e \in vars : is_function_init(P, e)}}]

RECURSIVE Reach(_, _, _, _)
Reach(P, worklist, reachable, referenced) ==
    IF worklist = {} THEN [funs |-> reachable, vars |-> referenced]
    ELSE LET f == CHOOSE g \in worklist : TRUE
         IN  With(Uses(P, P.funs[f].body), LAMBDA uses :
                 Reach(P, (worklist \ {f}) \cup (uses.funs \ reachable), reachable \cup uses.funs,
                       referenced \cup uses.vars))

FindReachable(P) ==
    LET inits == {P.statics[i] : i \in {j \in DOMAIN P.statics : is_non_function_init(P, P.statics[j])}}
        uses == {Uses(P, P.decl[d].init) : d \in inits}
        funs == {"$main"} \cup UNION {u.funs : u \in uses}
    IN  Reach(P, funs, funs, inits \cup UNION {u.vars : u \in uses})

(* The variable holds a function that nobody refers to. *)
Removed(P, referenced, d) == is_function_init(P, d) /\ d \notin referenced

(* A node without the declarations of those variables: a block drops them. *)
RECURSIVE VisitBlock(_, _, _)
VisitBlock(P, referenced, x) ==
    LET visit(y) == VisitBlock(P, referenced, y)
        RECURSIVE visitAt(_, _)
        visitAt(y, places) ==
            IF places = <<>> THEN y
            ELSE With(PutAt(y, places[1], visit(GetAt(y, places[1]))), LAMBDA z : visitAt(z, Tail(places)))
    IN  CASE x.k = "VarDecl" -> IF Removed(P, referenced, x.d) THEN Nil ELSE x
          [] x.k = "Block" ->
                [x EXCEPT !.list = SelectSeq([i \in DOMAIN @ |-> visit(@[i])], LAMBDA y : y # Nil)]
          [] OTHER -> visitAt(x, Slots(x))

(* A declaration that is itself the body of a statement is removed too,    *)
(* which leaves the statement without one.                                 *)
Bodyless(x) ==
    \/ x.k = "If" /\ Nil \in {x.then_part, x.else_part}
    \/ x.k = "Loop" /\ x.body = Nil

(* The functions that a node refers to, inner ones first. *)
Functions(P, x) == OfKinds(Nodes(P, x, {}), {"Function"})
RECURSIVE Distinct(_)
Distinct(s) ==
    IF s = <<>> THEN <<>>
    ELSE <<Head(s)>> \o Distinct(SelectSeq(Tail(s), LAMBDA y : y # Head(s)))
RECURSIVE Concatenated(_)
Concatenated(s) == IF s = <<>> THEN <<>> ELSE Head(s) \o Concatenated(Tail(s))

EliminateUnreachable(P, reach) ==
    LET visit(x) == IF x = Nil THEN x ELSE VisitBlock(P, reach.vars, x)
        kept == [P EXCEPT
            !.statics = SelectSeq(@, LAMBDA d : P.decl[d].t # "function" \/ d \in reach.vars),
            !.funs = <<>> @@ [f \in DOMAIN P.funs |-> IF f \in reach.funs
                                 THEN [P.funs[f] EXCEPT !.body = visit(@)] ELSE P.funs[f]],
            !.decl = <<>> @@ [d \in DOMAIN P.decl |-> [P.decl[d] EXCEPT !.init = visit(@)]]]
    IN  With(kept, LAMBDA Q :
            LET inits == [i \in DOMAIN Q.statics |-> Functions(Q, VarDecl(Q.statics[i]))]
                found == Concatenated(inits) \o Functions(Q, Q.funs["$main"].body)
            IN  [Q EXCEPT !.order = Append(Distinct([i \in DOMAIN found |-> found[i].f]), "$main")])

(* The pass: the errors, and the program that remains. *)
CheckAndOptimizeFunctions(P, remove_unreachable) ==
    LET errors == CheckClosures(P).errors
    IN  IF ~remove_unreachable THEN [errors |-> errors, P |-> P, asserts |-> {}]
        ELSE With(EliminateUnreachable(P, FindReachable(P)), LAMBDA Q :
                 LET nodes == Nodes(Q, Q.funs["$main"].body, {})
                 IN  [errors |-> errors, P |-> Q,
                      asserts |-> IF \E i \in DOMAIN nodes : Bodyless(nodes[i])
                                  THEN {"closurecheck: a statement without a body"} ELSE {}])

=============================================================================
