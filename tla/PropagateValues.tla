-------------------------- MODULE PropagateValues --------------------------
(***************************************************************************)
(* The propagation of values and of definedness (propagatevalues.cc).      *)
(*                                                                         *)
(* The pass visits the main function, and every other function where it is *)
(* met first, in the order of execution.  What is known about a variable   *)
(* at a place of the program is a version of it; the versions are kept in  *)
(* a stack of scopes, and the scopes of alternative and of conditional     *)
(* parts are joined behind them.  A use of a variable whose value is a     *)
(* known literal or function is replaced by it, a use of a variable that   *)
(* is known to be defined is marked, so that no check is generated for it, *)
(* and expressions are folded on the way.                                  *)
(*                                                                         *)
(* A visit is an operator from a node and a state to a node and a state.   *)
(* Warnings are left out.                                                  *)
(***************************************************************************)
EXTENDS ConstantFolding, SequencesExt

-----------------------------------------------------------------------------
(* Versions: whether the variable is defined, whether it was modified, and *)
(* the expression that is its value, if it is known.                       *)

Ver(def, modified, value) == [def |-> def, modified |-> modified, value |-> value]

(* What is known about a variable without any version of it. *)
Version(P, d, locals_level) ==
    LET var == P.decl[d]
        init == init_of(P, d)
        predeclared == var.level = 0 /\ var.owner = "none"
    IN  IF ~var.modified_after_init
        THEN IF var.is_param \/ predeclared THEN Ver("defined", TRUE, Nil)
             ELSE IF init # Nil THEN Ver("unknown", TRUE, init)
             ELSE Ver("undefined", FALSE, Nil)
        ELSE IF var.level < locals_level THEN Ver("unknown", TRUE, Nil)
        ELSE IF var.is_param THEN Ver("defined", TRUE, Nil)
        ELSE IF init = Nil THEN Ver("undefined", FALSE, Nil)
        ELSE Ver(IF init.k \in {"Literal", "Function"} THEN "defined" ELSE "unknown", FALSE, init)

JoinExpr(one, two) == IF is_literal(one) /\ one = two THEN one ELSE Nil

(* Exactly one of two alternatives is executed. *)
VersionJoinAlternatives(v, one, two) ==
    LET modified == one.modified \/ two.modified
    IN  [modified |-> v.modified \/ modified,
         value |-> IF modified THEN JoinExpr(one.value, two.value) ELSE v.value,
         def |-> IF one.def = two.def THEN one.def ELSE IF modified THEN "unknown" ELSE v.def]

VersionJoinUnconditional(v, other) ==
    IF other.modified THEN other ELSE [v EXCEPT !.def = other.def]

(* Of a variable that was not modified, a use can only make known that it  *)
(* is defined.                                                             *)
JoinUnconditionalAsserts(v, other) ==
    ~other.modified /\ v.def # other.def => v.def \in {"unknown", "undefined"} /\ other.def = "defined"

VersionJoinConditional(v, other) ==
    IF ~other.modified THEN v
    ELSE [modified |-> TRUE, value |-> JoinExpr(v.value, other.value),
          def |-> IF v.def = other.def THEN v.def ELSE "unknown"]

-----------------------------------------------------------------------------
(* Scopes.  The state of the pass s has the stack of scopes s.vs, its top  *)
(* last.                                                                   *)

NoScope == [map |-> <<>>, level |-> 0, dead |-> FALSE, null |-> TRUE]
Scope(level, dead) == [map |-> <<>>, level |-> level, dead |-> dead, null |-> FALSE]
Top(s) == Last(s.vs)

(* Variables of enclosing functions that are modified anywhere are not     *)
(* tracked.                                                                *)
NotFound == Ver("none", FALSE, Nil)
Find(P, vs, d) ==
    LET has == {i \in DOMAIN vs : d \in DOMAIN vs[i].map}
        i == CHOOSE i \in has : \A j \in has : j <= i
    IN  IF has = {} THEN NotFound
        ELSE IF P.decl[d].modified_after_init /\ P.decl[d].level # Last(vs).level THEN NotFound
        ELSE vs[i].map[d]

(* The version of d that scope sc, whose parent is the top of vs, starts   *)
(* from.                                                                   *)
Nearest(P, vs, sc, d) ==
    LET v == Find(P, vs, d) IN IF v = NotFound THEN Version(P, d, sc.level) ELSE v
MutableFind(P, vs, sc, d) == IF d \in DOMAIN sc.map THEN sc.map[d] ELSE Nearest(P, vs, sc, d)

GetVersion(s, d) ==
    LET v == Find(s.P, s.vs, d) IN IF v = NotFound THEN Version(s.P, d, s.P.funs[s.fun].level) ELSE v

SetVersion(s, d, v) ==
    [s EXCEPT !.vs[Len(s.vs)].map = (d :> v) @@ @]
TopVersion(s, d) == MutableFind(s.P, Front(s.vs), Top(s), d)
is_local(s, d) == s.P.decl[d].level = Top(s).level
Checked(s, holds, what) == IF holds THEN s ELSE [s EXCEPT !.asserts = @ \cup {what}]

(* The variables of other functions are modified by calls only. *)
UpdateValue(s, d, value, def) ==
    IF is_local(s, d) THEN SetVersion(s, d, Ver(def, TRUE, value))
    ELSE Checked(s, s.P.decl[d].modified_at_call, "modified_at_call")
SetUnknown(s, d) == UpdateValue(s, d, Nil, "unknown")
SetDefState(s, d, def) ==
    IF is_local(s, d) THEN SetVersion(s, d, [TopVersion(s, d) EXCEPT !.def = def]) ELSE s
SetDefined(s, d) == SetDefState(s, d, "defined")
SetUndefined(s, d) == SetDefState(s, d, "undefined")

(* Defect: what a call may modify keeps its known value. *)
SetUnknownAtCallDefect(s) == s
SetUnknownAtCall(s) ==
    FoldLeft(SetUnknown, s,
             SelectSeq(s.P.funs[s.fun].locals, LAMBDA d : s.P.decl[d].modified_at_call))

(* The scope sc, above vs, updated for each of the variables of ds. *)
Updated(P, vs, sc, ds, F(_, _)) ==
    [sc EXCEPT !.map = [d \in ds |-> F(d, MutableFind(P, vs, sc, d))] @@ @]

InTop(s, ds, F(_, _)) ==
    [s EXCEPT !.vs[Len(s.vs)] = Updated(s.P, Front(s.vs), @, ds, F)]

JoinUnconditional(s, other) ==
    IF other.dead \/ Top(s).dead THEN [s EXCEPT !.vs[Len(s.vs)].dead = TRUE]
    ELSE Checked(InTop(s, DOMAIN other.map, LAMBDA d, v : VersionJoinUnconditional(v, other.map[d])),
                \A d \in DOMAIN other.map : JoinUnconditionalAsserts(TopVersion(s, d), other.map[d]),
                "JoinUnconditional")

JoinConditional(s, other) ==
    IF other.dead THEN s
    ELSE InTop(s, DOMAIN other.map, LAMBDA d, v : VersionJoinConditional(v, other.map[d]))
ConditionalChange(s, other) ==
    ~other.dead /\ \E d \in DOMAIN other.map :
        VersionJoinConditional(TopVersion(s, d), other.map[d]) # TopVersion(s, d)

JoinAlternatives(s, one, two) ==
    CASE ~one.dead /\ ~two.dead ->
           InTop(s, DOMAIN one.map \cup DOMAIN two.map,
                 LAMBDA d, v : IF d \notin DOMAIN two.map THEN VersionJoinConditional(v, one.map[d])
                               ELSE IF d \notin DOMAIN one.map THEN VersionJoinConditional(v, two.map[d])
                               ELSE VersionJoinAlternatives(v, one.map[d], two.map[d]))
      [] one.dead /\ two.dead -> [s EXCEPT !.vs[Len(s.vs)].dead = TRUE]
      [] one.dead /\ ~two.dead -> JoinUnconditional(s, two)
      [] OTHER -> JoinUnconditional(s, one)

(* The scope sc, whose parent is the top of vs, merged with another path:  *)
(* the scopes of "path", the last one on top.                              *)
MergeAlternativePath(P, vs, sc, path) ==
    LET dead == Last(path).dead
        holds(d) == {i \in DOMAIN path : d \in DOMAIN path[i].map}
        map == <<>> @@ [d \in UNION {DOMAIN path[i].map : i \in DOMAIN path} |->
                   path[CHOOSE i \in holds(d) : \A j \in holds(d) : j <= i].map[d]]
    IN  IF dead THEN sc
        ELSE IF sc.dead THEN [Scope(sc.level, vs # <<>> /\ Last(vs).dead) EXCEPT !.map = map]
        ELSE [sc EXCEPT !.map = <<>> @@ [d \in DOMAIN sc.map \cup DOMAIN map |->
                IF d \notin DOMAIN map THEN VersionJoinConditional(Nearest(P, vs, sc, d), sc.map[d])
                ELSE IF d \notin DOMAIN sc.map THEN VersionJoinConditional(Nearest(P, vs, sc, d), map[d])
                ELSE VersionJoinAlternatives(Nearest(P, vs, sc, d), sc.map[d], map[d])]]

MergeTop(s, sc) ==
    IF sc.null THEN s
    ELSE [s EXCEPT !.vs[Len(s.vs)] = MergeAlternativePath(s.P, Front(s.vs), @, <<sc>>)]
Push(s) == [s EXCEPT !.vs = Append(@, Scope(s.P.funs[s.fun].level, @ # <<>> /\ Last(@).dead))]
Pop(s) == [s EXCEPT !.vs = Front(@)]
set_dead_end(s) == [s EXCEPT !.vs[Len(s.vs)].dead = TRUE]

(* A break or a continue: the scopes down to the loop's are merged into    *)
(* the scope of the values at such statements.                             *)
MergeValues(s, sc) ==
    LET parents == SubSeq(s.vs, 1, s.parent)
    IN  MergeAlternativePath(s.P, parents,
                             IF sc.null THEN Scope(s.P.funs[s.fun].level, parents # <<>> /\ Last(parents).dead)
                             ELSE sc,
                             SubSeq(s.vs, s.parent + 1, Len(s.vs)))

-----------------------------------------------------------------------------
(* The two visitors that do not change the tree. *)

(* What calls, saw and undefine may have changed when the expression is    *)
(* evaluated, wherever in the expression they are.                         *)
UndefinedVariable(s, x) ==
    CASE IsIntrinsic(x, {"UNDEFINE"}) -> UpdateValue(s, x.args[1].d, Nil, "undefined")
      [] x.k = "Call" /\ x.fun.k # "Intrinsic" -> SetUnknownAtCall(s)
      [] x.k = "Saw" ->
           FoldLeft(LAMBDA u, i : IF x.flags[i] = "REST" THEN SetUnknown(u, UndefVar(x.args[i])) ELSE u,
                    s, [i \in DOMAIN x.args |-> i])
      [] x.k = "StatExpr" -> SetUnknownAtCall(s)
      [] OTHER -> s
VisitUndefined(s, x) ==
    IF x = Nil THEN s
    ELSE FoldLeft(UndefinedVariable, s,
                  SelectSeq(Nodes(s.P, x, {"Function"}), LAMBDA n : n.k \in {"Call", "Saw", "StatExpr"}))

(* The variables that are defined when the evaluation of x did not trap. *)
RECURSIVE Required(_, _)
Required(P, x) ==
    CASE x.k = "Variable" -> {x.d}
      [] x.k = "Function" -> {}
      [] IsIntrinsic(x, {"DEF", "UNDEFINE"}) -> {}
      [] x.k = "Binary" /\ x.op \in {"LAND", "LOR"} -> Required(P, x.left)
      [] OTHER -> LET below == Below(P, x) IN UNION {Required(P, below[i]) : i \in DOMAIN below}
VisitDefined(s, x) ==
    IF s.ignore_undefs \/ x = Nil THEN s
    ELSE FoldSet(LAMBDA d, u : SetDefined(u, d), s, Required(s.P, x))

(* def(x) or !def(x), where x is a variable or a field of one: the         *)
(* variable, or "none", and whether it is negated.                         *)
DefOfVariable(x) ==
    LET negated == x.k = "Binary" /\ x.op = "EQL" /\ x.left = BoolLiteral(FALSE)
        call == IF negated THEN x.right ELSE x
        RECURSIVE tuple(_)
        tuple(y) == IF y.k = "Selector" THEN tuple(y.var) ELSE y
        var == tuple(call.args[1])
    IN  [negated |-> negated,
         d |-> IF IsIntrinsic(call, {"DEF"}) /\ var.k = "Variable" THEN var.d ELSE "none"]
AssumeDef(s, def, holds) ==
    IF def.d = "none" THEN s
    ELSE IF def.negated = holds THEN SetUndefined(s, def.d) ELSE SetDefined(s, def.d)

-----------------------------------------------------------------------------
(* The visits.  "subst" visits a statement or an expression, "eval" an     *)
(* expression with all three visitors, and "lookahead" a loop, as often as *)
(* it takes.  The result is the node and the state behind it.              *)

RECURSIVE Visit(_, _, _)

(* Visits the child at a place of the node r.x, if there is one. *)
At(v, place, r) ==
    IF GetAt(r.x, place).k = "Nil" THEN r
    ELSE LET q == Visit(v, GetAt(r.x, place), r.s) IN [s |-> q.s, x |-> PutAt(r.x, place, q.x)]
RECURSIVE AllAt(_, _, _)
AllAt(v, places, r) ==
    CASE Len(places) = 0 -> r
      [] Len(places) = 1 -> At(v, places[1], r)
      [] OTHER -> With(AllAt(v, SubSeq(places, 1, Len(places) \div 2), r),
                       LAMBDA q : AllAt(v, SubSeq(places, Len(places) \div 2 + 1, Len(places)), q))
VisitChildren(v, x, s) == AllAt(v, Slots(x), [x |-> x, s |-> s])

merge_def_state(s, def) ==
    [s EXCEPT !.def = IF "undefined" \in {@, def} THEN "undefined"
                      ELSE IF "unknown" \in {@, def} THEN "unknown" ELSE "defined"]
Merged(r, def) == [r EXCEPT !.s = merge_def_state(@, def)]

(* In lookahead mode only the definedness is collected. *)
VisitVariable(x, s) ==
    LET ver == GetVersion(s, x.d)
        marked == [x EXCEPT !.is_defined = @ \/ ver.def = "defined"]
        substitute == ~x.is_lvalue /\ ver.modified /\ ver.def = "defined"
                      /\ ver.value.k \in {"Literal", "Function"}
    IN  IF ~x.is_rvalue THEN [x |-> x, s |-> s]
        ELSE [x |-> IF s.lookahead \/ ver.def = "undefined" THEN x
                    ELSE IF substitute THEN ver.value ELSE marked,
              s |-> merge_def_state(s, ver.def)]

(* The initializer of a temporary is visited at the first use only. *)
VisitTempVariable(x, s) ==
    LET value(u) == IF u.P.temps[x.d].k \in {"Literal", "Function"} THEN u.P.temps[x.d] ELSE x
    IN  IF s.lookahead THEN [x |-> x, s |-> s]
        ELSE IF x.d \in s.temps THEN [x |-> value(s), s |-> s]
        ELSE With(Visit("subst", s.P.temps[x.d], [s EXCEPT !.temps = @ \cup {x.d}]),
                  LAMBDA r : With([r.s EXCEPT !.P.temps[x.d] = r.x], LAMBDA u : [x |-> value(u), s |-> u]))

(* A function is analyzed where it is met first, with the scopes around it.*)
VisitFunction(x, s) ==
    IF x.f \in s.funs THEN [x |-> x, s |-> s]
    ELSE LET r == Visit("subst", s.P.funs[x.f].body,
                        Push([s EXCEPT !.funs = @ \cup {x.f}, !.fun = x.f, !.ignore_undefs = s.global_ignore_undefs]))
         IN  [x |-> x,
              s |-> [Pop(r.s) EXCEPT !.P.funs[x.f].body = r.x, !.P.funs[x.f].analysis_done = TRUE,
                                     !.fun = s.fun, !.ignore_undefs = s.ignore_undefs, !.def = s.def]]

(* So is a statement expression; its effects are those of a call. *)
VisitStatExpr(x, s) ==
    IF x.id \in s.statexprs THEN [x |-> x, s |-> s]
    ELSE LET r == VisitChildren("subst", x, Push([s EXCEPT !.statexprs = @ \cup {x.id}]))
         IN  [r EXCEPT !.s = [Pop(@) EXCEPT !.def = s.def]]

(* No value may be propagated to the argument of def() in its place: what  *)
(* it says is the value's definedness, not that of the code around it.     *)
VisitCall(x, s) ==
    IF IsIntrinsic(x, {"UNDEFINE"}) THEN [x |-> x, s |-> s]
    ELSE LET r == VisitChildren("subst", x, s)
         IN  IF IsIntrinsic(x, {"DEF"}) THEN [r EXCEPT !.s.def = s.def]
             ELSE IF r.x # Fold(r.x) THEN [r EXCEPT !.x = Fold(@)]
             ELSE Merged(r, IF CASE r.x.fun.k = "Intrinsic" -> r.x.fun.can_fail
                                 [] r.x.fun.k = "Function" -> might_rtn_undef(r.s.P, r.x.fun.f)
                                 [] OTHER -> TRUE
                            THEN "unknown" ELSE "defined")

(* The right operand of && and || is only evaluated if the left one is     *)
(* defined, and with def(v) to the left, if v is or if v is not.           *)
VisitLogical(x, s) ==
    With(At("subst", <<"left">>, [x |-> x, s |-> s]), LAMBDA l :
    LET def == DefOfVariable(l.x.left)
        pushed == Push(l.s)
        assumed == IF def.d # "none" THEN AssumeDef(pushed, def, x.op = "LAND")
                   ELSE [VisitDefined([pushed EXCEPT !.ignore_undefs = FALSE], l.x.left)
                            EXCEPT !.ignore_undefs = s.ignore_undefs]
    IN  With(At("subst", <<"right">>, [x |-> l.x, s |-> VisitUndefined(assumed, l.x.right)]), LAMBDA r :
        LET state == IF def.d = "none" /\ r.s.def = "undefined" /\ l.s.def # "undefined" THEN "unknown"
                     ELSE r.s.def
            after == [Pop(r.s) EXCEPT !.def = state]
        IN  IF ~is_literal(l.x.left) THEN [x |-> r.x, s |-> after]
            ELSE IF l.x.left.v = (x.op = "LOR") THEN [x |-> l.x.left, s |-> [after EXCEPT !.def = l.s.def]]
            ELSE [x |-> r.x.right, s |-> after]))

(* Other expressions: what the result is if it could not be folded. *)
ResultState(x) ==
    CASE x.k = "Binary" /\ x.op \in {"DIV", "MOD"} ->
           IF ~is_literal(x.right) THEN "unknown" ELSE IF x.right.v = 0 THEN "undefined" ELSE "defined"
      [] x.k = "Composite" -> IF x.t = "string" THEN "unknown" ELSE "defined"
      [] x.k \in {"Conversion", "RuntimeGuard", "Index", "New", "Slice"} -> "unknown"
      [] OTHER -> "defined"
VisitOperation(x, s) ==
    LET r == AllAt("subst",
                   IF x.k = "Dollar" /\ x.length_temp.k # "Nil" THEN At1("length_temp") ELSE Places(x),
                   [x |-> x,
                    s |-> IF x.k \in {"Index", "Slice"} /\ x.length_temp.k # "Nil"
                          THEN SetDefined(s, x.length_temp.d) ELSE s])
    IN  IF r.x # Fold(r.x) THEN [r EXCEPT !.x = Fold(@)] ELSE Merged(r, ResultState(r.x))

-----------------------------------------------------------------------------
(* Statements *)

AllUndefined(s, x, places) == FoldLeft(LAMBDA u, place : VisitUndefined(u, GetAt(x, place)), s, places)
AllDefined(s, x, places) == FoldLeft(LAMBDA u, place : VisitDefined(u, GetAt(x, place)), s, places)
Fresh_(s) == [s EXCEPT !.def = "defined"]

(* All three visitors, one after the other. *)
VisitEval(x, s) ==
    LET r == Visit("subst", x, Fresh_(VisitUndefined(s, x))) IN [r EXCEPT !.s = VisitDefined(@, r.x)]

(* The variable is updated after all uses, and before the uses make known  *)
(* that it is defined.                                                     *)
VisitAssignment(x, s) ==
    LET r == AllAt("subst", Places(x), [x |-> x, s |-> Fresh_(AllUndefined(s, x, Places(x)))])
    IN  [r EXCEPT !.s = AllDefined(
            UpdateValue(@, UndefVar(r.x.lvalue), IF r.x.lvalue.k = "Variable" THEN r.x.rvalue ELSE Nil, @.def),
            r.x, Places(r.x))]

VisitIncrement(x, s) ==
    LET r == AllAt("subst", Places(x), [x |-> x, s |-> Fresh_(AllUndefined(s, x, Places(x)))])
        d == UndefVar(r.x.lvalue)
        ver == GetVersion(r.s, d)
        value == IF r.x.lvalue.k = "Variable" /\ ver.modified /\ ver.def = "defined"
                    /\ is_literal(ver.value)
                 THEN IntLiteral(ver.value.v + x.delta) ELSE Nil
    IN  [r EXCEPT !.s = AllDefined(UpdateValue(@, d, value, @.def), r.x, Places(r.x))]

(* Of the breaks only those out of a loop are considered. *)
VisitContinue(x, s) == [x |-> x, s |-> set_dead_end([s EXCEPT !.continue_values = MergeValues(s, @)])]
VisitBreak(x, s) ==
    [x |-> x, s |-> IF x.loop THEN set_dead_end([s EXCEPT !.break_values = MergeValues(s, @)]) ELSE s]

LoopCond(r, when) == IF when THEN At("eval", <<"cond">>, r) ELSE r
LoopBody(r) ==
    With(At("subst", <<"body">>, [r EXCEPT !.s.parent = Len(r.s.vs) - 1]), LAMBDA b :
         At("subst", <<"after">>,
            [b EXCEPT !.s = [MergeTop(@, @.continue_values) EXCEPT !.continue_values = NoScope]]))
Popped(r, Join(_, _)) == [r EXCEPT !.s = Join(Pop(@), Top(@))]

(* Executions of the loop before the last one are looked ahead at until    *)
(* that changes nothing more.                                              *)
LookAhead(x, s) ==
    LET c == LoopCond([x |-> x, s |-> Push([s EXCEPT !.lookahead = TRUE])], x.sym # "DO")
    IN  With(LoopCond(LoopBody(c), x.sym = "DO"), LAMBDA b :
             [b EXCEPT !.s = [MergeTop(@, @.break_values) EXCEPT !.break_values = NoScope, !.lookahead = s.lookahead]])
VisitLookahead(x, s) ==
    With(LookAhead(x, s), LAMBDA b :
         IF ConditionalChange(Pop(b.s), Top(b.s)) THEN Visit("lookahead", b.x, JoinConditional(Pop(b.s), Top(b.s)))
         ELSE Popped(b, JoinConditional))

(* A variable declared in "after" is used before it is declared. *)
VisitLoop(x, s) ==
    LET start == At("subst", <<"before">>,
                    [x |-> x, s |-> [s EXCEPT !.break_values = NoScope, !.continue_values = NoScope]])
        ready == IF x.after.k = "VarDecl" THEN [start EXCEPT !.s = SetUndefined(@, x.after.d)] ELSE start
    IN  With(Visit("lookahead", ready.x, ready.s), LAMBDA l :
        With(LoopCond([l EXCEPT !.s = Push([@ EXCEPT !.lookahead = TRUE])], x.sym # "DO"), LAMBDA c :
        With(Popped(LoopBody([c EXCEPT !.s.lookahead = s.lookahead]), JoinConditional), LAMBDA b :
        LET broken == ~b.s.break_values.null
            last == At("eval", <<"cond">>, IF broken THEN [b EXCEPT !.s = Push(@)] ELSE b)
        IN  With(last, LAMBDA e :
            [x |-> e.x,
             s |-> [IF broken THEN JoinAlternatives(Pop(e.s), Top(e.s), e.s.break_values) ELSE e.s EXCEPT
                       !.break_values = s.break_values, !.continue_values = s.continue_values,
                       !.parent = s.parent]]))))

VisitIf(x, s) ==
    With(At("eval", <<"cond">>, [x |-> x, s |-> s]), LAMBDA c :
    LET def == DefOfVariable(c.x.cond)
    IN  With(At("subst", <<"then_part">>, [c EXCEPT !.s = AssumeDef(Push(@), def, TRUE)]), LAMBDA t :
        IF x.else_part.k = "Empty" THEN Popped(t, JoinConditional)
        ELSE With(At("subst", <<"else_part">>, [t EXCEPT !.s = AssumeDef(Push(Pop(@)), def, FALSE)]), LAMBDA e :
             [e EXCEPT !.s = JoinAlternatives(Pop(@), Top(t.s), Top(@))])))

(* A switch is treated as a chain of if statements.  The labels are        *)
(* visited first, each case's in the scope of the else part before it.     *)
VisitLabel(r, i, j) ==
    At("eval", <<"cases", i, "labels", j>>, IF j > 1 THEN [r EXCEPT !.s = Push(@)] ELSE r)
VisitLabels(r, i) ==
    LET labels == DOMAIN r.x.cases[i].labels
    IN  With(FoldLeft(LAMBDA q, j : VisitLabel(q, i, j), r, [j \in labels |-> j]), LAMBDA q :
             [q EXCEPT !.s = Push([@ EXCEPT !.vs = SubSeq(@, 1, Len(@) - (Cardinality(labels) - 1))])])
VisitCase(r, i) ==
    LET else_part == Top(r.s)
    IN  With(At("subst", <<"cases", i, "stat">>, [r EXCEPT !.s = Push(Pop(@))]), LAMBDA t :
             [t EXCEPT !.s = JoinAlternatives(Pop(@), Top(@), else_part)])
VisitSwitch(x, s) ==
    LET n == Len(x.cases)
    IN  With(At("eval", <<"tag">>, [x |-> x, s |-> s]), LAMBDA t :
        With(FoldLeft(VisitLabels, t, [i \in 1 .. n |-> i]), LAMBDA l :
        With(At("subst", <<"default_case">>, l), LAMBDA d :
             FoldLeft(VisitCase, d, [i \in 1 .. n |-> n + 1 - i]))))

(* A return traps silently, so nothing is known to be defined.  A variable *)
(* that nobody defines is returned without any warning.                    *)
VisitReturn(x, s) ==
    LET silent == /\ x.result.k = "Variable"
                  /\ init_of(s.P, x.result.d) = Nil /\ ~s.P.decl[x.result.d].modified_after_init
                  /\ s.P.decl[x.result.d].owner = s.fun
        visited == At("subst", <<"result">>, [x |-> x, s |-> Fresh_(VisitUndefined(s, x.result))])
    IN  With(IF silent THEN [x |-> x, s |-> [s EXCEPT !.def = "undefined"]] ELSE visited, LAMBDA r :
             [r EXCEPT !.s = set_dead_end([@ EXCEPT !.P.funs[s.fun].rtn_undef = @ \/ r.s.def # "defined"])])

(* The index and element variables are assigned to before the formats are  *)
(* evaluated.                                                              *)
VisitEmit(x, s) ==
    LET places == At1("output") \o Each("indices", x.indices) \o At1("value") \o At1("weight")
        formats == At1("index_format") \o At1("elem_format")
        assign(u, d, value) == IF d = "none" THEN u ELSE SetVersion(u, d, Ver("defined", TRUE, value))
    IN  With(AllAt("subst", places, [x |-> x, s |-> Fresh_(AllUndefined(s, x, places))]), LAMBDA r :
        LET indexed == FoldLeft(LAMBDA u, i : assign(u, x.index_decls[i], r.x.indices[i]), r.s,
                                [i \in DOMAIN x.index_decls |-> i])
            assigned == assign(indexed, x.elem_decl, r.x.value)
        IN  With(AllAt("subst", formats, [x |-> r.x, s |-> AllUndefined(assigned, x, formats)]), LAMBDA f :
                 [f EXCEPT !.s = AllDefined(@, f.x, places \o formats)]))

(* A static variable is defined, or the program stops.  Other declarations *)
(* trap silently.                                                          *)
VisitVarDecl(x, s) ==
    LET is_static == s.P.decl[x.d].level = 0
        visit(u) == IF init_of(u.P, x.d) = Nil THEN [x |-> Nil, s |-> u]
                    ELSE With(Visit("subst", init_of(u.P, x.d), Fresh_(VisitUndefined(u, init_of(u.P, x.d)))),
                              LAMBDA r : [r EXCEPT !.s.P.decl[x.d].init = r.x])
    IN  IF init_of(s.P, x.d) = Nil /\ s.P.decl[x.d].t # "output" THEN [x |-> x, s |-> s]
        ELSE With(visit(IF is_static THEN [s EXCEPT !.ignore_undefs = FALSE] ELSE s), LAMBDA r :
             [x |-> x,
              s |-> SetVersion([IF is_static THEN VisitDefined(r.s, r.x) ELSE r.s EXCEPT !.ignore_undefs = s.ignore_undefs],
                               x.d, Ver(IF is_static THEN "defined" ELSE r.s.def, TRUE, r.x))])

Visit(v, x, s) ==
    CASE v = "eval" -> VisitEval(x, s)
      [] v = "lookahead" -> VisitLookahead(x, s)
      [] x.k = "Variable" -> VisitVariable(x, s)
      [] x.k = "TempVariable" -> VisitTempVariable(x, s)
      [] x.k = "Function" -> VisitFunction(x, s)
      [] x.k = "StatExpr" -> Merged(VisitStatExpr(x, s), IF s.ignore_undefs THEN "unknown" ELSE "defined")
      [] x.k = "Call" -> VisitCall(x, s)
      [] x.k = "Binary" /\ x.op \in {"LAND", "LOR"} -> VisitLogical(x, s)
      [] x.k = "Saw" -> [x |-> x, s |-> merge_def_state(s, "unknown")]
      [] x.k = "Assignment" -> VisitAssignment(x, s)
      [] x.k = "Continue" -> VisitContinue(x, s)
      [] x.k = "Break" -> VisitBreak(x, s)
      [] x.k = "Increment" -> VisitIncrement(x, s)
      [] x.k = "Loop" -> VisitLoop(x, s)
      [] x.k = "If" -> VisitIf(x, s)
      [] x.k = "Switch" -> VisitSwitch(x, s)
      [] x.k \in {"ExprStat", "Result"} -> At("eval", <<"expr">>, [x |-> x, s |-> s])
      [] x.k = "Return" -> VisitReturn(x, s)
      [] x.k = "Emit" -> VisitEmit(x, s)
      [] x.k = "VarDecl" -> VisitVarDecl(x, s)
      [] x.k \in {"Block", "Empty", "TypeDecl", "Proto"} -> VisitChildren("subst", x, s)
      [] OTHER -> VisitOperation(x, s)

PropagateValues(P, ignore_undefs) ==
    VisitFunction(Function("$main"),
                  [P |-> P, vs |-> <<>>, fun |-> "none", parent |-> 0,
                   break_values |-> NoScope, continue_values |-> NoScope, lookahead |-> FALSE,
                   ignore_undefs |-> ignore_undefs, global_ignore_undefs |-> ignore_undefs,
                   def |-> "defined", funs |-> {}, statexprs |-> {}, temps |-> {}, asserts |-> {}]).s

=============================================================================
