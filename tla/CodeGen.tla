------------------------------ MODULE CodeGen ------------------------------
(***************************************************************************)
(* The byte code generator (engine/codegen.cc).                            *)
(*                                                                         *)
(* The C++ code generator is a recursive visitor.  Here the calls that are *)
(* still to be made are kept on a worklist, "todo": one action performs    *)
(* the call at its head, and replaces it by the calls that its body makes. *)
(* What a C++ object does in its destructor (StackMark, TrapHandler) is a  *)
(* call behind the calls of the object's scope.                            *)
(*                                                                         *)
(* Every instruction occupies one position of the code; the operand of a   *)
(* branch is the label itself, whose position is looked up when the        *)
(* instruction is executed.                                                *)
(***************************************************************************)
EXTENDS Ast, SequencesExt

CONSTANTS Programs,     \* the programs to compile, a sequence
          Flags,        \* how szl was built and started, see below
          kNumElems     \* unit of composite initialization

VARIABLES prog,         \* the index of the program
          flags,        \* a member of Flags
          ast,          \* the syntax tree, as far as the passes have changed it
          todo,         \* the pending calls of the code generator
          cg            \* the state of the code generator

cvars == <<prog, flags, ast, todo, cg>>

P == ast

(* A record of Flags: debug says that the program was built without NDEBUG, *)
(* so that verify_sp instructions are generated; eliminate_dead_code is the *)
(* flag of that name; unreturned says that main is left unreturned, so that *)
(* more calls can be made in its frame; ignore_undefs says that undefined   *)
(* values are not fatal.                                                    *)

-----------------------------------------------------------------------------
(* Instructions *)

SetsCC(op) == op \in {"set_cc", "eql_bits", "neq_bits", "lss_int", "eql_array", "eql_string",
                      "eql_map", "eql_tuple", "eql_closure"}
UsesCC(op) == op \in {"get_cc", "branch_true", "branch_false", "trap_false"}

(* How an instruction changes the height of the expression stack; the      *)
(* instructions whose number of operands varies are adjusted explicitly.   *)
StackDelta(op) ==
    CASE op \in {"loadV", "loadVu", "push8", "pushV", "createB", "createStr", "createT",
                 "createA", "createM", "dupV", "get_cc", "fd_print"} -> 1
      [] op \in {"xload8", "xloadR", "xloadV", "xloadVu", "mindexV", "mindexVu", "storeV",
                 "openO", "fclearB", "finc64", "newB", "newStr", "newA", "popV", "add_int",
                 "sub_int", "mul_int", "div_int", "mod_int", "and_int", "shr_int", "add_array", "add_string",
                 "set_cc", "call", "retV"} -> -1
      [] op \in {"sload8", "sloadR", "sloadV", "fstoreV", "xinc8", "xincR", "xinc64", "minc64",
                 "eql_bits", "neq_bits", "lss_int", "eql_array", "eql_string", "eql_map",
                 "eql_tuple", "eql_closure"} -> -2
      [] op \in {"xstore8", "xstoreR", "xstoreV", "mstoreV"} -> -3
      [] op = "sstoreV" -> -4
      [] OTHER -> 0

-----------------------------------------------------------------------------
(* The state of the code generator.  A label is an index of cg.labels: its *)
(* position (0 when it is not bound), the stack height of the control flow *)
(* through it, the number of forward branches to it and the trap           *)
(* descriptors whose target it is.  A trap descriptor is an index of       *)
(* cg.traps.  asserts collects the assertions that did not hold.           *)

NewLabel == [pos |-> 0, h |-> 0, forward |-> 0, other |-> {}]

CodeGenInit ==
    [code |-> <<>>, labels |-> <<>>, h |-> 0, max |-> 0, dead |-> FALSE, cc |-> FALSE,
     statics |-> FALSE, fun |-> "none", traps |-> <<>>, cur |-> 0, gth |-> 0, enter |-> 0,
     entry |-> [f \in DOMAIN P.funs |-> 0], exits |-> <<>>, initialized |-> {},
     tables |-> <<>>, lits |-> <<>>, descs |-> <<>>, errors |-> 0, asserts |-> {}]

Pos(g) == Len(g.code) + 1
is_linked(g, L) == g.labels[L].forward > 0 \/ g.labels[L].other # {}
Check(g, holds, what) == IF holds THEN g ELSE [g EXCEPT !.asserts = @ \cup {what}]

SetStack(g, h) ==
    Check([g EXCEPT !.h = h, !.max = IF h > @ THEN h ELSE @], h >= 0, "height >= 0")

emit_ok(g) == ~(flags.eliminate_dead_code /\ g.dead)

emit_op(g, instr) ==
    [SetStack(g, g.h + StackDelta(instr[1]))
        EXCEPT !.code = IF emit_ok(g) THEN Append(@, instr) ELSE @]

(* A label's stack height is the height of every control flow through it.  *)
AgreesOn(g, L) == is_linked(g, L) => g.labels[L].h = g.h

Bind(g, L) ==
    LET dep == g.labels[L].other
    IN  Check([g EXCEPT !.dead = FALSE,
                        !.labels[L] = [pos |-> Pos(g), h |-> g.h, forward |-> 0, other |-> {}],
                        !.traps = [t \in DOMAIN @ |-> IF t \in dep THEN [@[t] EXCEPT !.target = Pos(g)]
                                                                  ELSE @[t]]],
              AgreesOn(g, L), "bind_to: stack_height")

(* The operand of a branch to label L: a reference that binding the label  *)
(* will resolve unless it is bound already.                                *)
offset(g, L) ==
    IF g.labels[L].pos > 0
    THEN Check(g, g.labels[L].h = g.h, "offset: stack_height")
    ELSE Check([g EXCEPT !.labels[L].forward = @ + 1, !.labels[L].h = g.h],
               AgreesOn(g, L), "offset: stack_height")

add_dep(g, L, t) ==
    Check([g EXCEPT !.labels[L].other = @ \cup {t}, !.labels[L].h = g.h],
          AgreesOn(g, L), "add_dep: stack_height")

Branch(g, instr, L) ==
    LET op == instr[1]
        ready == IF UsesCC(op) THEN IF g.cc THEN g ELSE emit_op(g, <<"set_cc">>)
                 ELSE Check(g, ~g.cc, "Branch: cc_set")
    IN  [IF emit_ok(ready) THEN emit_op(offset(ready, L), instr) ELSE ready
            EXCEPT !.cc = FALSE, !.dead = @ \/ op = "branch"]

-----------------------------------------------------------------------------
(* Variable access *)

level(g) == IF g.fun = "none" THEN 0 ELSE P.funs[g.fun].level
delta_to(g, lev) == IF g.fun = "none" THEN 0 ELSE bp_delta(P, g.fun, lev)

(* The offsets of locals, parameters and statics: the locals of a function *)
(* come before its parameters.                                             *)
Vars(f, params) == SelectSeq(P.funs[f].locals, LAMBDA d : P.decl[d].is_param = params)
kStart == 1
AllocateFrameOffsets(f) == Vars(f, FALSE) \o Vars(f, TRUE)
locals_size(f) == kStart + Len(Vars(f, FALSE))
frame_size(f) == kStart + Len(AllocateFrameOffsets(f))
statics_size == kStart + Len(P.statics)
slots(d) == IF P.decl[d].level = 0 THEN P.statics ELSE AllocateFrameOffsets(P.decl[d].owner)
has_slot(d) == \E i \in DOMAIN slots(d) : slots(d)[i] = d
var_index(d) == IF has_slot(d) THEN kStart + (CHOOSE i \in DOMAIN slots(d) : slots(d)[i] = d) - 1 ELSE 0

VariableAccess(is_load, is_lhs, delta) ==
    IF delta # 0 THEN "inc64" ELSE IF ~is_load THEN "storeV" ELSE IF is_lhs THEN "loadVu" ELSE "loadV"
SelectorAccess(is_load, is_lhs, delta) ==
    IF delta # 0 THEN "finc64" ELSE IF ~is_load THEN "fstoreV" ELSE IF is_lhs THEN "floadVu" ELSE "floadV"
IndexedAccess(t, is_load, is_lhs, delta) ==
    LET ops == CASE is_array(t) -> <<"xinc64", IF is_lhs THEN "xloadVu" ELSE "xloadV", "xstoreV">>
                 [] t = "bytes" -> <<"xinc8", "xload8", "xstore8">>
                 [] OTHER -> <<"xincR", "xloadR", "xstoreR">>
    IN  IF delta # 0 THEN ops[1] ELSE IF is_load THEN ops[2] ELSE ops[3]
MappedKey(is_load, delta) == IF is_load \/ delta # 0 THEN "mloadV" ELSE "minsertV"
MappedValue(is_load, is_lhs, delta) ==
    IF delta # 0 THEN "minc64"
    ELSE IF ~is_load THEN "mstoreV" ELSE IF is_lhs THEN "mindexVu" ELSE "mindexV"

-----------------------------------------------------------------------------
(* The pending calls, each as a sequence of one call. *)

op(instr) == << <<"emit_op", instr>> >>
bind(L) == << <<"Bind", L>> >>
branch(opcode, L) == << <<"Branch", <<opcode, L>>, L>> >>
set_bp(lev) == << <<"SetBP", lev>> >>
load(x, is_lhs) == << <<"Load", x, is_lhs>> >>
load_conditional(x, is_lhs, tt, ft) == << <<"LoadConditional", x, is_lhs, tt, ft>> >>
visit(x, st) == << <<"Visit", x, st>> >>
store_decl(d, st) == << <<"StoreVarDecl", d, st>> >>
dup == << <<"Dup">> >>
pop == << <<"Pop">> >>
set_stack(h) == << <<"SetStack", h>> >>
adjust_stack(d) == << <<"AdjustStack", d>> >>
set_cc(b) == << <<"cc_set", b>> >>
dead_code == << <<"dead_code">> >>
add_trap(d) == << <<"AddTrap", d>> >>
execute(s) == << <<"Execute", s>> >>
push_bool(b) == op(<<"pushV", "bool", b>>)
push_int(i) == op(<<"push8", i>>)
discard_result(t) == IF t = "void" THEN <<>> ELSE pop

(* A StackMark and a TrapHandler with the calls made in their scope. *)
stack_mark(calls) == << <<"StackMark", calls>> >>
trap_handler(target, var, is_silent, x, calls) ==
    << <<"TrapHandler", target, var, is_silent, x, calls>> >>

(* Expressions are pushed last one first. *)
RECURSIVE load_reverse(_)
load_reverse(list) ==
    IF list = <<>> THEN <<>> ELSE load(Last(list), FALSE) \o load_reverse(Front(list))
RECURSIVE execute_all(_)
execute_all(list) == IF list = <<>> THEN <<>> ELSE execute(Head(list)) \o execute_all(Tail(list))

(* The state of a visit: what is wanted of the expression, and where to    *)
(* branch to when it is true or false.                                     *)
State(is_lhs, is_load, delta, tt, ft) ==
    [is_lhs |-> is_lhs, is_load |-> is_load, delta |-> delta, tt |-> tt, ft |-> ft]
NoState == State(FALSE, TRUE, 0, 0, 0)

load_lhs(x, st) == visit(x, State(TRUE, TRUE, 0, st.tt, st.ft))
store(x, delta, st) == visit(x, State(TRUE, FALSE, delta, st.tt, st.ft))

-----------------------------------------------------------------------------
(* One step performs the call at the head of the worklist. *)

Item == Head(todo)
Calling(name) == todo # <<>> /\ Item[1] = name
Visiting(class) == Calling("Visit") /\ Item[2].k = class
X == Item[2]
St == Item[3]

(* L(i) is the i-th label that this step creates. *)
L(i) == Len(cg.labels) + i
Fresh(g, n) == [g EXCEPT !.labels = @ \o [i \in 1 .. n |-> NewLabel]]

Finish(g, calls) == cg' = g /\ todo' = calls \o Tail(todo) /\ UNCHANGED <<prog, flags, ast>>
Do(n, calls) == Finish(Fresh(cg, n), calls)

EmitOp == Calling("emit_op") /\ Finish(emit_op(cg, Item[2]), <<>>)
BindLabel == Calling("Bind") /\ Finish(Bind(cg, Item[2]), <<>>)
BranchTo == Calling("Branch") /\ Finish(Branch(cg, Item[2], Item[3]), <<>>)
SetStackTo == Calling("SetStack") /\ Finish(SetStack(cg, Item[2]), <<>>)
AdjustStack == Calling("AdjustStack") /\ Finish(SetStack(cg, cg.h + Item[2]), <<>>)
SetCC == Calling("cc_set") /\ Finish([Check(cg, ~cg.cc \/ ~Item[2], "cc_set") EXCEPT !.cc = Item[2]], <<>>)
DeadCode == Calling("dead_code") /\ Finish([cg EXCEPT !.dead = TRUE], <<>>)
StackMark == Calling("StackMark") /\ Finish(cg, Item[2] \o set_stack(cg.h))

SetBP ==
    /\ Calling("SetBP")
    /\ \E delta \in {delta_to(cg, Item[2])} :
          Finish(IF delta > 0 THEN emit_op(cg, <<"set_bp", delta>>) ELSE cg, <<>>)

(* Trap handlers.  During initialization all traps except in def() lead to *)
(* the global handler.                                                     *)
TrapHandler ==
    /\ Calling("TrapHandler")
    /\ \E g \in {IF flags.debug THEN emit_op(cg, <<"verify_sp", cg.h>>) ELSE cg} :
       LET target == IF cg.statics /\ ~Item[4] THEN cg.gth ELSE Item[2]
           var == Item[3]
           t == Len(cg.traps) + 1
           desc == [begin |-> Pos(g), end |-> Pos(g), target |-> Pos(g), h |-> g.h, var |-> var,
                    index |-> IF var = "none" THEN 0 ELSE var_index(var),
                    delta |-> IF var = "none" THEN 0 ELSE delta_to(g, P.decl[var].level),
                    silent |-> Item[4], super |-> g.cur, sites |-> {}]
       IN  IF CanTrap(P, Item[5])
           THEN Finish([add_dep(g, target, t) EXCEPT !.traps = Append(@, desc), !.cur = t],
                       Item[6] \o << <<"~TrapHandler", t>> >>)
           ELSE Finish(g, Item[6])

TrapHandlerEnd ==
    /\ Calling("~TrapHandler")
    /\ \E t \in {Item[2]} :
          Finish([Check(cg, cg.traps[t].h = cg.h, "~TrapHandler: stack_height")
                     EXCEPT !.traps[t].end = Pos(cg), !.cur = cg.traps[t].super], <<>>)

(* Remember the instruction just emitted as a place where the current      *)
(* range may trap, and the variable found undefined there.                 *)
AddTrap ==
    /\ Calling("AddTrap")
    /\ IF cg.cur = 0 THEN Finish(Check(cg, FALSE, "AddTrap: current_trap_range"), <<>>)
       ELSE Finish([cg EXCEPT !.traps[cg.cur].sites = @ \cup {<<Pos(cg) - 1, Item[2]>>}], <<>>)

(* Load an expression.  A boolean may have been translated into branches,  *)
(* in part or altogether, or into the condition code; in the end it is on  *)
(* the stack.                                                              *)
Load ==
    /\ Calling("Load")
    /\ Do(2, load_conditional(X, Item[3], L(1), L(2)) \o << <<"Loaded", L(1), L(2), cg.h>> >>)

Loaded ==
    /\ Calling("Loaded")
    /\ \E g \in {IF cg.cc THEN [emit_op(cg, <<"get_cc">>) EXCEPT !.cc = FALSE] ELSE cg} :
       LET tt == Item[2]
           ft == Item[3]
           reload(label, b) == set_stack(Item[4]) \o bind(label) \o push_bool(b)
           true_linked == is_linked(g, tt)
           false_linked == is_linked(g, ft)
       IN  IF ~true_linked /\ ~false_linked THEN Finish(g, <<>>)
           ELSE Finish(Fresh(g, 1),
                       branch("branch", L(1))
                       \o (IF true_linked THEN reload(tt, TRUE) ELSE <<>>)
                       \o (IF true_linked /\ false_linked THEN branch("branch", L(1)) ELSE <<>>)
                       \o (IF false_linked THEN reload(ft, FALSE) ELSE <<>>)
                       \o bind(L(1)))

LoadConditional ==
    /\ Calling("LoadConditional")
    /\ Finish(Check(cg, ~cg.cc, "LoadConditional: cc_set"),
              visit(X, State(Item[3], TRUE, 0, Item[4], Item[5])))

StoreVarDecl ==
    /\ Calling("StoreVarDecl")
    /\ Do(0, set_bp(P.decl[X].level)
             \o op(<<VariableAccess(FALSE, St.is_lhs, St.delta), var_index(X)>>))

Dup ==
    /\ Calling("Dup")
    /\ Finish([cg EXCEPT !.cc = FALSE], (IF cg.cc THEN op(<<"get_cc">>) ELSE <<>>) \o op(<<"dupV">>))

Pop ==
    /\ Calling("Pop")
    /\ Finish([cg EXCEPT !.cc = FALSE], IF cg.cc THEN <<>> ELSE op(<<"popV">>))

(* Execute a statement: it leaves the stack as high as it was. *)
Execute ==
    /\ Calling("Execute")
    /\ Finish(Check(cg, ~cg.cc, "Execute: cc_set"), visit(X, NoState) \o << <<"Executed", cg.h>> >>)

Executed ==
    /\ Calling("Executed")
    /\ Finish(Check(Check(cg, ~cg.cc, "Execute: cc_set"), cg.h = Item[2], "Execute: stack_height"), <<>>)

-----------------------------------------------------------------------------
(* Expressions *)

DoBinary ==
    /\ Visiting("Binary")
    /\ CASE X.op = "LAND" ->
              Do(1, load_conditional(X.left, FALSE, L(1), St.ft) \o branch("branch_false", St.ft)
                    \o bind(L(1)) \o load_conditional(X.right, FALSE, St.tt, St.ft))
         [] X.op = "LOR" ->
              Do(1, load_conditional(X.left, FALSE, St.tt, L(1)) \o branch("branch_true", St.tt)
                    \o bind(L(1)) \o load_conditional(X.right, FALSE, St.tt, St.ft))
         [] OTHER ->
              Do(0, load(X.left, FALSE) \o load(X.right, FALSE) \o op(<<X.opcode>>)
                    \o set_cc(SetsCC(X.opcode)))

callc(fun) == op(<<IF fun.can_fail THEN "callc" ELSE "callcnf", fun.name>>)
LenIntrinsic == op(<<"callcnf", "len">>)

(* What follows a call: the place where an undefined result traps, and the *)
(* result.                                                                 *)
after_call == (IF CanCauseTrap(P, X, FALSE) THEN add_trap("none") ELSE <<>>)
              \o adjust_stack(IF TypeOf(P, X) = "void" THEN 0 ELSE 1)

DoCallIntrinsic ==
    /\ Visiting("Call") /\ X.fun.k = "Intrinsic"
    /\ LET kind == X.fun.kind
           arg == X.args[1]
       IN  CASE kind = "DEF" ->
                  Do(0, trap_handler(St.ft, "none", TRUE, arg, load(arg, FALSE) \o pop) \o push_bool(TRUE))
             [] kind = "INPROTO" ->
                  Do(0, load(arg.var, FALSE) \o op(<<"ftestB", arg.field>>))
             [] kind = "CLEARPROTO" ->
                  Do(0, load(arg.var, TRUE) \o op(<<"fclearB", arg.field>>))
             [] kind = "UNDEFINE" ->
                  Do(0, set_bp(P.decl[arg.d].level) \o op(<<"undefine", var_index(arg.d)>>))
             [] kind = "SORT" ->
                  Do(0, stack_mark((IF Len(X.args) = 1 THEN op(<<"pushV", "null", 0>>)
                                    ELSE load(X.args[2], FALSE)) \o load(arg, FALSE))
                        \o callc(X.fun) \o adjust_stack(1))
             [] kind = "MATCH" ->
                  Do(0, stack_mark(load_reverse(X.args)) \o op(<<"match">>) \o after_call)
             [] OTHER ->
                  Do(0, stack_mark(load_reverse(X.args)) \o callc(X.fun) \o after_call)

(* A function is called at its entry label, where the stack is empty. *)
DoCallFunction ==
    /\ Visiting("Call") /\ X.fun.k = "Function"
    /\ LET f == X.fun.f
           known == cg.entry[f] # 0
           label == IF known THEN cg.entry[f] ELSE L(1)
       IN  Finish([Fresh(cg, IF known THEN 0 ELSE 1) EXCEPT !.entry[f] = label],
                  stack_mark(load_reverse(X.args)) \o set_bp(P.funs[f].context_level)
                  \o stack_mark(set_stack(0) \o branch("calli", label)) \o after_call)

DoCallClosure ==
    /\ Visiting("Call") /\ X.fun.k \notin {"Function", "Intrinsic"}
    /\ Do(0, stack_mark(load_reverse(X.args)) \o load(X.fun, FALSE) \o op(<<"call">>) \o after_call)

(* A composite is created first and then filled, kNumElems elements at a   *)
(* time.                                                                   *)
RECURSIVE init_composite(_, _, _)
init_composite(list, from, init) ==
    IF from >= Len(list) THEN <<>>
    ELSE LET n == IF Len(list) - from < kNumElems THEN Len(list) - from ELSE kNumElems
         IN  stack_mark(load_reverse(SubSeq(list, from + 1, from + n)))
             \o op(<<init, from, n>>) \o init_composite(list, from + n, init)

DoComposite ==
    /\ Visiting("Composite")
    /\ LET n == Len(X.list)
       IN  CASE is_array(X.t) -> Do(0, op(<<"createA", n>>) \o init_composite(X.list, 0, "initA"))
             [] is_map(X.t) -> Do(0, op(<<"createM">>) \o init_composite(X.list, 0, "initM"))
             [] is_tuple(X.t) -> Do(0, op(<<"createT", Len(field_types(X.t))>>) \o init_composite(X.list, 0, "initT"))
             [] X.t = "bytes" -> Do(0, stack_mark(load_reverse(X.list)) \o op(<<"createB", n>>))
             [] X.t = "string" -> Do(0, stack_mark(load_reverse(X.list)) \o op(<<"createStr", n>>))

DoConversion ==
    /\ Visiting("Conversion")
    /\ Do(0, stack_mark(load_reverse(X.params) \o load(X.src, FALSE))
             \o op(CASE X.kind = "Basic" -> <<"basicconv", X.op>>
                     [] X.kind = "ArrayToArray" -> <<"arrayconv", X.op>>
                     [] X.kind = "ArrayToMap" -> <<"mapconv", X.key_op, X.op>>)
             \o adjust_stack(1))

DoDollar ==
    /\ Visiting("Dollar")
    /\ IF X.length_temp # Nil THEN Do(0, visit(X.length_temp, St))
       ELSE Do(0, load(X.array, FALSE) \o LenIntrinsic)

DoFunction ==
    /\ Visiting("Function")
    /\ LET known == cg.entry[X.f] # 0
           label == IF known THEN cg.entry[X.f] ELSE L(1)
       IN  Finish([Fresh(cg, IF known THEN 0 ELSE 1) EXCEPT !.entry[X.f] = label],
                  stack_mark(set_stack(0)
                             \o << <<"Branch", <<"createC", label, delta_to(cg, P.funs[X.f].context_level)>>,
                                     label>> >>)
                  \o adjust_stack(1))

DoSelector ==
    /\ Visiting("Selector")
    /\ Do(0, load(X.var, St.is_lhs)
             \o (IF St.is_lhs THEN op(<<"fsetB", X.field>>) ELSE <<>>)
             \o op(<<SelectorAccess(St.is_load, St.is_lhs, St.delta), X.field, St.delta>>))

(* The guard's value is materialized if it was translated into a branch;   *)
(* it traps when it is false.                                              *)
DoRuntimeGuard ==
    /\ Visiting("RuntimeGuard")
    /\ Do(3, load_conditional(X.guard, FALSE, L(1), L(2)) \o << <<"Guarded", L(2), L(3)>> >>
             \o op(<<"trap_false">>) \o set_cc(FALSE) \o bind(L(1)) \o visit(X.expr, St))

Guarded ==
    /\ Calling("Guarded")
    /\ Do(0, (IF cg.cc THEN <<>> ELSE op(<<"set_cc">>))
             \o (IF ~is_linked(cg, Item[2]) THEN <<>>
                 ELSE branch("branch", Item[3]) \o bind(Item[2]) \o push_bool(FALSE)
                      \o op(<<"set_cc">>) \o bind(Item[3])))

save_length(temp) ==
    IF temp = Nil THEN <<>> ELSE op(<<"dupV">>) \o LenIntrinsic \o store(temp, 0, St)

DoIndex ==
    /\ Visiting("Index")
    /\ LET t == TypeOf(P, X.var)
       IN  IF is_indexable(t)
           THEN Do(0, load(X.var, St.is_lhs) \o save_length(X.length_temp) \o load(X.index, FALSE)
                      \o op(<<IndexedAccess(t, St.is_load, St.is_lhs, St.delta), St.delta>>))
           ELSE Do(0, load(X.index, FALSE) \o load(X.var, St.is_lhs)
                      \o op(<<MappedKey(St.is_load, St.delta)>>)
                      \o op(<<MappedValue(St.is_load, St.is_lhs, St.delta), St.delta>>))

DoNew ==
    /\ Visiting("New")
    /\ IF is_map(X.t) THEN Do(0, load(X.length, FALSE) \o op(<<"newM">>))
       ELSE Do(0, load(X.init, FALSE) \o load(X.length, FALSE)
                  \o op(<<CASE is_array(X.t) -> "newA" [] X.t = "bytes" -> "newB" [] OTHER -> "newStr">>))


(* Saw a string apart with the regular expressions up to the next "rest"   *)
(* argument, which receives what is left of the string at that point.      *)
RECURSIVE saw_args(_)
saw_args(arg0) ==
    IF arg0 > Len(X.args) THEN <<>>
    ELSE LET rests == {i \in arg0 .. Len(X.args) : X.flags[i] = "REST"}
             argn == IF rests = {} THEN Len(X.args) + 1 ELSE CHOOSE i \in rests : \A j \in rests : i <= j
             count == argn - arg0
         IN  stack_mark(
                (IF count = 0 THEN <<>>
                 ELSE load_reverse(SubSeq(X.args, arg0, argn - 1))
                      \o FlattenSeq([i \in 1 .. count |-> push_int(IF X.flags[argn - i] = "SKIP" THEN 1 ELSE 0)])
                      \o load(X.count, FALSE) \o op(<<"saw", count>>))
                \o (IF argn > Len(X.args) THEN <<>> ELSE op(<<"dupV">>) \o store(X.args[argn], 0, St)))
             \o saw_args(argn + 1)

DoSaw ==
    /\ Visiting("Saw")
    /\ Do(0, op(<<"createA", 0>>) \o load(X.str, FALSE) \o saw_args(1) \o op(<<"popV">>))

DoSlice ==
    /\ Visiting("Slice")
    /\ LET t == TypeOf(P, X.var)
           access == IF ~St.is_load THEN "sstoreV"
                     ELSE IF is_array(t) THEN "sloadV" ELSE IF t = "bytes" THEN "sload8" ELSE "sloadR"
           operands == load(X.var, St.is_lhs) \o save_length(X.length_temp)
                       \o load(X.beg, FALSE) \o load(X.end, FALSE)
       IN  IF St.is_lhs /\ St.is_load
           THEN Do(0, operands \o << <<"Error">> >>)
           ELSE Do(0, operands \o op(<<access>>))

Error == Calling("Error") /\ Finish([cg EXCEPT !.errors = @ + 1], <<>>)

(* Static variables declared inside a statement expression are not         *)
(* initialized here but with the other statics.                            *)
DoStatExpr ==
    /\ Visiting("StatExpr")
    /\ Finish([Fresh(cg, 1) EXCEPT !.exits = [id \in DOMAIN @ \cup {X.id} |->
                                                 IF id = X.id THEN [exit |-> L(1), cont |-> 0] ELSE @[id]],
                                   !.statics = FALSE],
              execute(X.body) \o << <<"do_statics", cg.statics>> >>
              \o op(<<"stop", "missing result">>) \o bind(L(1)) \o load(X.var, FALSE))

DoStatics == Calling("do_statics") /\ Finish([cg EXCEPT !.statics = Item[2]], <<>>)

(* A literal that is not a tagged value is allocated with the code, which  *)
(* keeps a reference to it.                                                *)
Push(t, elems) ==
    IF t \in {"int", "bool"} THEN Do(0, op(<<"pushV", t, elems>>))
    ELSE Finish([cg EXCEPT !.lits = Append(@, [t |-> t, e |-> elems])],
                op(<<"pushV", "ptr", Len(cg.lits) + 1>>))

DoRegex == Visiting("Regex") /\ Push("string", X.base)

DoLiteral == Visiting("Literal") /\ Push(X.t, X.v)

variable(x, st) ==
    set_bp(P.decl[x.d].level)
    \o op(<<VariableAccess(st.is_load, st.is_lhs, st.delta), var_index(x.d), st.delta>>)
    \o (IF st.is_load /\ CanTrap(P, x) THEN add_trap(x.d) ELSE <<>>)

DoVariable == Visiting("Variable") /\ Do(0, variable(X, St))

(* A temporary is initialized by the code for its first use. *)
DoTempVariable ==
    /\ Visiting("TempVariable")
    /\ IF X.d \notin cg.initialized
       THEN Do(0, load(P.temps[X.d], St.is_lhs) \o op(<<"dupV">>) \o store_decl(X.d, St)
                  \o << <<"set_initialized", X.d>> >>)
       ELSE Do(0, variable(X, St))

SetInitialized ==
    Calling("set_initialized") /\ Finish([cg EXCEPT !.initialized = @ \cup {Item[2]}], <<>>)

-----------------------------------------------------------------------------
(* Statements *)

exit_of(id) == cg.exits[id].exit
WithExits(g, id, exit, cont) ==
    [g EXCEPT !.exits = [i \in DOMAIN @ \cup {id} |->
                            IF i = id THEN [exit |-> exit, cont |-> cont] ELSE @[i]]]

(* A trap in an assignment leaves the variable undefined and continues     *)
(* behind the statement.  A dead assignment is evaluated for its side      *)
(* effects.                                                                *)
DoAssignment ==
    /\ Visiting("Assignment")
    /\ Do(1, trap_handler(L(1), UndefVar(X.lvalue), FALSE, X,
                load(X.rvalue, FALSE)
                \o IF is_dead(P, X)
                   THEN pop \o load_lhs(X.lvalue.var, St) \o pop
                   ELSE store(X.lvalue, 0, St))
             \o bind(L(1)))

DoBlock == Visiting("Block") /\ Do(0, execute_all(X.list))
DoBreak == Visiting("Break") /\ Do(0, branch("branch", exit_of(X.stat)))
(* Defect: continue goes to the body and not to the step of a for loop. *)
DoContinueDefect == Visiting("Continue") /\ Do(0, branch("branch", cg.exits[X.loop].cont - 1))
DoContinue == Visiting("Continue") /\ Do(0, branch("branch", cg.exits[X.loop].cont))
DoNothing == (Visiting("TypeDecl") \/ Visiting("Empty")) /\ Do(0, <<>>)

(* The statics are initialized by the initialization code and the locals   *)
(* where they are declared.  The initialization of a local is silent.      *)
DoVarDecl ==
    /\ Visiting("VarDecl")
    /\ LET d == P.decl[X.d]
       IN  IF (d.level = 0) # cg.statics THEN Do(0, <<>>)
           ELSE CASE d.t = "output" ->
                       Finish([Fresh(cg, 1) EXCEPT !.tables = Append(@, X.d)],
                              trap_handler(L(1), "none", FALSE, X,
                                 (IF d.init = Nil THEN push_int(-1) ELSE load(d.init, FALSE))
                                 \o set_bp(d.level) \o op(<<"openO", var_index(X.d), Len(cg.tables) + 1>>))
                              \o bind(L(1)))
                  [] d.t # "output" /\ d.init # Nil ->
                       Do(1, trap_handler(L(1), IF cg.statics THEN "none" ELSE X.d, ~cg.statics, d.init,
                                load(d.init, FALSE) \o store_decl(X.d, St))
                             \o bind(L(1)))
                  [] OTHER -> Do(0, <<>>)

(* The operands of an emit: the weight, the value and the indices, or what *)
(* the table's formats make of the value and of the indices, for which     *)
(* they are assigned to the variables that the formats refer to.           *)
DoEmit ==
    /\ Visiting("Emit")
    /\ LET weight == IF X.weight = Nil THEN <<>> ELSE load(X.weight, FALSE)
           value == load(X.value, FALSE)
                    \o IF X.elem_format = Nil THEN <<>>
                       ELSE store_decl(X.elem_decl, NoState) \o load(X.elem_format, FALSE)
           indices == IF X.index_format = Nil THEN load_reverse(X.indices)
                      ELSE FlattenSeq([i \in DOMAIN X.indices |->
                              load(X.indices[i], FALSE) \o store_decl(X.index_decls[i], NoState)])
                           \o load(X.index_format, FALSE)
           n == IF X.index_format = Nil THEN Len(X.indices) ELSE 1
       IN  Do(1, trap_handler(L(1), "none", FALSE, X,
                    stack_mark(weight \o value \o indices \o load(X.output, FALSE)))
                 \o set_bp(0) \o op(<<"emit", n, X.weight # Nil>>) \o bind(L(1)))

DoExprStat ==
    /\ Visiting("ExprStat")
    /\ Do(1, trap_handler(L(1), "none", FALSE, X.expr,
                load(X.expr, FALSE) \o discard_result(TypeOf(P, X.expr)))
             \o bind(L(1)))

DoIf ==
    /\ Visiting("If")
    /\ LET has_then == X.then_part # Empty
           has_else == X.else_part # Empty
           exit == L(1)
           cond(tt, ft, calls) ==
               trap_handler(exit, "none", FALSE, X.cond, load_conditional(X.cond, FALSE, tt, ft) \o calls)
       IN  CASE has_then /\ has_else ->
                  Do(3, cond(L(2), L(3), branch("branch_false", L(3)))
                        \o bind(L(2)) \o execute(X.then_part) \o branch("branch", exit)
                        \o bind(L(3)) \o execute(X.else_part) \o bind(exit))
             [] has_then /\ ~has_else ->
                  Do(2, cond(L(2), exit, branch("branch_false", exit))
                        \o bind(L(2)) \o execute(X.then_part) \o bind(exit))
             [] ~has_then /\ has_else ->
                  Do(2, cond(exit, L(2), branch("branch_true", exit))
                        \o bind(L(2)) \o execute(X.else_part) \o bind(exit))
             [] OTHER ->
                  Do(1, cond(exit, exit, pop) \o bind(exit))

DoIncrement ==
    /\ Visiting("Increment")
    /\ Do(1, trap_handler(L(1), UndefVar(X.lvalue), FALSE, X.lvalue, store(X.lvalue, X.delta, St))
             \o bind(L(1)))

DoResult ==
    /\ Visiting("Result")
    /\ Do(1, trap_handler(L(1), X.var.d, FALSE, X.expr, load(X.expr, FALSE) \o store(X.var, 0, St))
             \o bind(L(1)) \o branch("branch", exit_of(X.statexpr)))

(* An undefined result is returned by the function's global handler. *)
DoReturn ==
    /\ Visiting("Return")
    /\ Do(0, (IF X.result = Nil THEN op(<<"ret", frame_size(cg.fun)>>)
              ELSE trap_handler(cg.gth, "none", TRUE, X.result,
                      load(X.result, FALSE) \o op(<<"retV", frame_size(cg.fun)>>)
                      \o (IF CanTrap(P, X.result) THEN add_trap("none") ELSE <<>>)))
             \o dead_code)

(* The labels of a case are compared with the tag one by one.  A label     *)
(* that traps does not match.                                              *)
compare(x) == dup \o load(x, FALSE) \o op(<<"eql_bits">>) \o set_cc(TRUE)

RECURSIVE case_labels(_, _, _, _)
case_labels(labels, next, case_stat, next_case) ==
    IF Len(labels) = 1
    THEN trap_handler(next_case, "none", FALSE, labels[1],
                      compare(labels[1]) \o branch("branch_false", next_case))
    ELSE trap_handler(next, "none", FALSE, labels[1],
                      compare(labels[1]) \o branch("branch_true", case_stat))
         \o bind(next) \o case_labels(Tail(labels), next + 1, case_stat, next_case)

(* Defect: the tag is left on the stack when a case matches. *)
case_codeDefect(c, l, exit) ==
    case_labels(c.labels, l + 2, l, l + 1) \o bind(l)
    \o trap_handler(exit, "none", FALSE, c.labels[1], execute(c.stat) \o branch("branch", exit))
    \o bind(l + 1)

(* The labels of case c: its own labels' follow, its statement's and the   *)
(* next case's.                                                            *)
case_code(c, l, exit) ==
    case_labels(c.labels, l + 2, l, l + 1) \o bind(l)
    \o stack_mark(pop \o trap_handler(exit, "none", FALSE, c.labels[1],
                                      execute(c.stat) \o branch("branch", exit)))
    \o bind(l + 1)

RECURSIVE cases_code(_, _, _)
cases_code(cases, l, exit) ==
    IF cases = <<>> THEN <<>>
    ELSE case_code(Head(cases), l, exit)
         \o cases_code(Tail(cases), l + 1 + Len(Head(cases).labels), exit)

RECURSIVE case_label_count(_)
case_label_count(cases) ==
    IF cases = <<>> THEN 0 ELSE 1 + Len(Head(cases).labels) + case_label_count(Tail(cases))

DoSwitch ==
    /\ Visiting("Switch")
    /\ Finish(WithExits(Fresh(cg, 2 + case_label_count(X.cases)), X.id, L(2), 0),
              trap_handler(L(1), "none", FALSE, X.tag,
                 load(X.tag, FALSE) \o cases_code(X.cases, L(3), L(2))
                 \o pop \o execute(X.default_case) \o bind(L(2)) \o bind(L(1))))

DoLoop ==
    /\ Visiting("Loop")
    /\ LET entry == L(1)  loop == L(2)  cont == L(3)  exit == L(4)
           always == \/ X.sym = "FOR" /\ X.cond = Nil
                     \/ X.sym # "FOR" /\ X.cond.k = "Literal" /\ X.cond.v
       IN  Finish(WithExits(Fresh(cg, 4), X.id, exit, cont),
                  (IF X.before = Nil THEN <<>> ELSE execute(X.before))
                  \o (IF X.sym = "DO" THEN <<>> ELSE branch("branch", entry))
                  \o bind(loop) \o execute(X.body) \o bind(cont)
                  \o (IF X.after = Nil THEN <<>> ELSE execute(X.after))
                  \o bind(entry)
                  \o (IF always THEN branch("branch", loop)
                      ELSE trap_handler(exit, "none", FALSE, X.cond,
                              load_conditional(X.cond, FALSE, loop, exit) \o branch("branch_true", loop)))
                  \o bind(exit))

-----------------------------------------------------------------------------
(* Functions and initializers.  The height of the expression stack is      *)
(* known when all the code was generated, and entered in "enter" then.     *)

Begin(g, fun, statics, gth) ==
    [g EXCEPT !.dead = FALSE, !.max = 0, !.h = 0, !.statics = statics, !.fun = fun, !.gth = gth]

(* Code generation ends with the first function that has errors. *)
Abandon ==
    /\ Calling("GenerateFunction") \/ Calling("GenerateInitializers")
    /\ cg.errors > 0
    /\ todo' = <<>> /\ UNCHANGED <<prog, flags, ast, cg>>

GenerateFunction ==
    /\ Calling("GenerateFunction") /\ cg.errors = 0
    /\ LET f == Item[2]
           F == P.funs[f]
           leave == flags.unreturned /\ f = "$main"
           known == cg.entry[f] # 0
           entry == IF known THEN cg.entry[f] ELSE L(2)
       IN  Finish([Begin(Fresh(cg, 2), f, FALSE, L(1)) EXCEPT !.entry[f] = entry],
                  bind(entry) \o << <<"enter", locals_size(f)>> >> \o execute(F.body)
                  \o (CASE F.result # "void" -> op(<<"stop", "missing return">>)
                        [] F.result = "void" /\ leave -> op(<<"terminate">>)
                        [] OTHER -> op(<<"ret", frame_size(f)>>))
                  \o << <<"End", Pos(cg), <<"retU">>, IF leave THEN 20 ELSE 0>> >>)

GenerateInitializers ==
    /\ Calling("GenerateInitializers") /\ cg.errors = 0
    /\ Finish(Begin(Fresh(cg, 1), "none", TRUE, L(1)),
              << <<"enter", statics_size>> >>
              \o execute_all([i \in DOMAIN P.statics |-> VarDecl(P.statics[i])])
              \o op(<<"terminate">>)
              \o << <<"End", Pos(cg), <<"stop", "initialization failed">>, 0>> >>)

Enter ==
    /\ Calling("enter")
    /\ Finish([emit_op(cg, <<"enter", Item[2], 0>>) EXCEPT !.enter = Pos(cg)], <<>>)

(* The code of the global handler, only if there is a trap that leads to   *)
(* it, and the padding in front of the next function.                      *)
kAlignment == 4
End ==
    /\ Calling("End")
    /\ \E g \in {IF is_linked(cg, cg.gth) THEN emit_op(Bind(cg, cg.gth), Item[3]) ELSE cg} :
       LET pad == (kAlignment - (Len(g.code) % kAlignment)) % kAlignment
           max == IF g.max < Item[4] THEN Item[4] ELSE g.max
       IN  Finish([Check(g, g.cur = 0, "no open trap ranges")
                      EXCEPT !.code = [@ EXCEPT ![g.enter] = <<@[1], @[2], max>>]
                                      \o [i \in 1 .. pad |-> <<"nop">>],
                             !.descs = Append(@, [fun |-> g.fun, begin |-> Item[2],
                                                  end |-> Pos(g) + pad])],
                  <<>>)

-----------------------------------------------------------------------------
(* Compilation of a program: all functions, then the initializers. *)
Generate ==
    /\ Calling("Generate")
    /\ Do(0, [i \in DOMAIN P.order |-> <<"GenerateFunction", P.order[i]>>]
             \o << <<"GenerateInitializers">> >>)

CodeGenStep ==
    \/ EmitOp \/ BindLabel \/ BranchTo \/ SetStackTo \/ AdjustStack \/ SetCC \/ DeadCode
    \/ StackMark \/ SetBP \/ TrapHandler \/ TrapHandlerEnd \/ AddTrap
    \/ Load \/ Loaded \/ LoadConditional \/ StoreVarDecl \/ Dup \/ Pop \/ Execute \/ Executed
    \/ DoBinary \/ DoCallIntrinsic \/ DoCallFunction \/ DoCallClosure \/ DoComposite
    \/ DoConversion \/ DoDollar \/ DoFunction \/ DoSelector \/ DoRuntimeGuard \/ Guarded
    \/ DoIndex \/ DoNew \/ DoRegex \/ DoSaw \/ DoSlice \/ Error \/ DoStatExpr \/ DoStatics
    \/ DoLiteral \/ DoVariable \/ DoTempVariable \/ SetInitialized
    \/ DoAssignment \/ DoBlock \/ DoBreak \/ DoContinue \/ DoNothing \/ DoVarDecl \/ DoEmit
    \/ DoExprStat \/ DoIf \/ DoIncrement \/ DoResult \/ DoReturn \/ DoSwitch \/ DoLoop
    \/ Generate \/ Abandon \/ GenerateFunction \/ GenerateInitializers \/ Enter \/ End

=============================================================================
