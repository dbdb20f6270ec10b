-------------------------------- MODULE Ast --------------------------------
(***************************************************************************)
(* The syntax tree the compiler works on (engine/node.h): one constructor  *)
(* per node class, with the fields the code generators and the passes read *)
(* and without file positions, documentation strings and printing.         *)
(*                                                                         *)
(* A program is a record                                                   *)
(*   funs     names of functions -> Function records,                      *)
(*   order    the list of functions in the order they are compiled,        *)
(*   statics  the list of static variables, in declaration order,          *)
(*   decl     names of variables -> VarDecl records,                       *)
(*   temps    names of temporaries -> the expressions they stand for,      *)
(*   read     the fields of tuple types that are read.                     *)
(* A function or a variable is named where the code holds a pointer to it. *)
(***************************************************************************)
EXTENDS Integers, Sequences, FiniteSets, TLC

CONSTANT kHalfBits      \* the number of bits of half an integer

-----------------------------------------------------------------------------
(* Types.  An array of int, an array of arrays, a map from int to int, a   *)
(* map from int to arrays, a tuple with two int fields, a tuple with one   *)
(* array field, and so on.                                                 *)

is_array(t) == t \in {"array", "array2"}
is_map(t) == t \in {"map", "mapA"}
is_indexable(t) == is_array(t) \/ t \in {"string", "bytes"}

field_types(t) == CASE t = "tuple" -> <<"int", "int">> [] t = "tupleA" -> <<"array">> [] OTHER -> <<>>
is_tuple(t) == field_types(t) # <<>>

(* The type of the elements of an indexable or map type. *)
elem_type(t) == CASE t = "array2" -> "array" [] t = "mapA" -> "array" [] OTHER -> "int"

-----------------------------------------------------------------------------
(* LET r == x IN F(r), with x evaluated once. *)
With(x, F(_)) == CHOOSE r \in {F(v) : v \in {x}} : TRUE

(* A pointer that is NULL. *)
Nil == [k |-> "Nil"]

(* Expressions *)

(* The variable at the root of an lvalue is used as an lvalue.  It is an   *)
(* rvalue as well unless it is assigned to as a whole.                     *)
RECURSIVE MarkLvalue(_, _)
MarkLvalue(x, also_rvalue) ==
    CASE x.k = "Variable" -> [x EXCEPT !.is_lvalue = TRUE, !.is_rvalue = also_rvalue]
      [] x.k \in {"Index", "Slice", "Selector"} -> [x EXCEPT !.var = MarkLvalue(@, TRUE)]
      [] OTHER -> x

Literal(t, v) == [k |-> "Literal", t |-> t, v |-> v]
Variable(d) ==
    [k |-> "Variable", d |-> d, is_defined |-> FALSE, is_lvalue |-> FALSE, is_rvalue |-> TRUE]
TempVariable(d) == [k |-> "TempVariable", d |-> d, is_defined |-> FALSE]
Binary(t, left, op, opcode, right) ==
    [k |-> "Binary", t |-> t, left |-> left, op |-> op, opcode |-> opcode, right |-> right]
Slice(var, beg, end, length_temp) ==
    [k |-> "Slice", var |-> var, beg |-> beg, end |-> end,
     length_temp |-> MarkLvalue(length_temp, FALSE)]
Index(var, index, length_temp) ==
    [k |-> "Index", var |-> var, index |-> index, length_temp |-> MarkLvalue(length_temp, FALSE)]
Selector(var, field) == [k |-> "Selector", var |-> var, field |-> field]
Dollar(array, length_temp) == [k |-> "Dollar", array |-> array, length_temp |-> length_temp]
RuntimeGuard(guard, expr, temp) ==
    [k |-> "RuntimeGuard", guard |-> guard, expr |-> expr, temp |-> temp]
Conversion(t, src, params, kind, op, key_op) ==
    [k |-> "Conversion", t |-> t, src |-> src, params |-> params, kind |-> kind,
     op |-> op, key_op |-> key_op]
New(t, length, init) == [k |-> "New", t |-> t, length |-> length, init |-> init]
Composite(t, list) == [k |-> "Composite", t |-> t, list |-> list]
StatExpr(id, t, var, body) == [k |-> "StatExpr", id |-> id, t |-> t, var |-> var, body |-> body]
Function(f) == [k |-> "Function", f |-> f]
Intrinsic(kind, name, result, can_fail, can_fold) ==
    [k |-> "Intrinsic", kind |-> kind, name |-> name, result |-> result, can_fail |-> can_fail,
     can_fold |-> can_fold]
Call(fun, args) == [k |-> "Call", fun |-> fun, args |-> args]
Saw(count, str, args, flags) ==
    [k |-> "Saw", count |-> count, str |-> str, flags |-> flags,
     args |-> [i \in DOMAIN args |-> IF flags[i] = "REST" THEN MarkLvalue(args[i], FALSE) ELSE args[i]]]
Regex(base) == [k |-> "Regex", base |-> base]

(* Statements.  A breakable statement and a statement expression have an   *)
(* identity, which break, continue and result statements refer to.         *)

Empty == [k |-> "Empty"]
ExprStat(expr) == [k |-> "ExprStat", expr |-> expr]
Assignment(lvalue, rvalue) ==
    [k |-> "Assignment", lvalue |-> MarkLvalue(lvalue, FALSE), rvalue |-> rvalue]
Increment(lvalue, delta) == [k |-> "Increment", lvalue |-> MarkLvalue(lvalue, TRUE), delta |-> delta]
Block(list) == [k |-> "Block", list |-> list]
If(cond, then_part, else_part) ==
    [k |-> "If", cond |-> cond, then_part |-> then_part, else_part |-> else_part]
Loop(id, sym, before, cond, after, body) ==
    [k |-> "Loop", id |-> id, sym |-> sym, before |-> before, cond |-> cond,
     after |-> after, body |-> body]
Break(id, loop) == [k |-> "Break", stat |-> id, loop |-> loop]
Continue(id) == [k |-> "Continue", loop |-> id]
Case(labels, stat) == [labels |-> labels, stat |-> stat]
Switch(id, tag, cases, default_case) ==
    [k |-> "Switch", id |-> id, tag |-> tag, cases |-> cases, default_case |-> default_case]
Result(id, var, expr) == [k |-> "Result", statexpr |-> id, var |-> var, expr |-> expr]
Return(result) == [k |-> "Return", result |-> result]
VarDecl(d) == [k |-> "VarDecl", d |-> d]
TypeDecl(tname) == [k |-> "TypeDecl", tname |-> tname]
Emit(output, indices, value, weight) ==
    [k |-> "Emit", output |-> output, indices |-> indices, value |-> value, weight |-> weight,
     index_decls |-> <<>>, index_format |-> Nil, elem_decl |-> "none", elem_format |-> Nil]
EmitFormat(output, indices, value, index_decls, index_format, elem_decl, elem_format) ==
    [Emit(output, indices, value, Nil) EXCEPT
        !.index_decls = index_decls, !.index_format = index_format,
        !.elem_decl = elem_decl, !.elem_format = elem_format]
When(id, qvars, cond, body) ==
    [k |-> "When", id |-> id, qvars |-> qvars, cond |-> cond, body |-> body]
Proto(list) == [k |-> "Proto", list |-> list]

(* The attributes of a variable and of a function; "result" is the type    *)
(* that a variable of a function type returns, "quant" the kind of a       *)
(* quantifier of a when statement: SOME, EACH or ALL.                      *)
Decl(t, owner, level, is_param, init) ==
    [t |-> t, result |-> "int", owner |-> owner, level |-> level, is_param |-> is_param, init |-> init,
     quant |-> "none", modified_after_init |-> FALSE, modified_at_call |-> FALSE]
Fun(owner, level, result, params, locals, body) ==
    [owner |-> owner, level |-> level, context_level |-> -1, result |-> result,
     params |-> params, locals |-> locals, body |-> body, rtn_undef |-> FALSE, analysis_done |-> FALSE]

(* Until a function is analyzed it is assumed that it may return undefined.*)
might_rtn_undef(P, f) == ~P.funs[f].analysis_done \/ P.funs[f].rtn_undef

(* An output variable has no initializer; it holds its table's parameter.  *)
init_of(P, d) == IF P.decl[d].t = "output" THEN Nil ELSE P.decl[d].init

-----------------------------------------------------------------------------
(* Visiting nodes.  The places of a node's children, in visiting order: a  *)
(* place is the path of fields and positions that leads to the child.      *)
At1(f) == << <<f>> >>
Each(f, list) == [i \in DOMAIN list |-> <<f, i>>]
RECURSIVE EachLabel(_, _)
EachLabel(cases, i) ==
    IF i > Len(cases) THEN <<>>
    ELSE [j \in DOMAIN cases[i].labels |-> <<"cases", i, "labels", j>>] \o EachLabel(cases, i + 1)

Places(x) ==
    CASE x.k = "Binary" -> At1("left") \o At1("right")
      [] x.k = "Slice" -> At1("var") \o At1("beg") \o At1("end")
      [] x.k = "Index" -> At1("var") \o At1("index")
      [] x.k = "Selector" -> At1("var")
      [] x.k = "Dollar" -> At1("array") \o At1("length_temp")
      [] x.k = "RuntimeGuard" -> At1("guard") \o At1("expr")
      [] x.k = "Conversion" -> At1("src") \o Each("params", x.params)
      [] x.k = "New" -> At1("length") \o At1("init")
      [] x.k = "Composite" -> Each("list", x.list)
      [] x.k = "Call" -> At1("fun") \o Each("args", x.args)
      [] x.k = "Saw" -> At1("count") \o At1("str") \o Each("args", x.args)
      [] x.k = "StatExpr" -> At1("body")
      [] x.k = "ExprStat" -> At1("expr")
      [] x.k = "Assignment" -> At1("lvalue") \o At1("rvalue")
      [] x.k = "Increment" -> At1("lvalue")
      [] x.k = "Block" -> Each("list", x.list)
      [] x.k = "If" -> At1("cond") \o At1("then_part") \o At1("else_part")
      [] x.k = "Loop" -> At1("before") \o At1("cond") \o At1("after") \o At1("body")
      [] x.k = "Switch" -> At1("tag") \o EachLabel(x.cases, 1)
                           \o [i \in DOMAIN x.cases |-> <<"cases", i, "stat">>] \o At1("default_case")
      [] x.k = "Result" -> At1("expr")
      [] x.k = "Return" -> At1("result")
      [] x.k = "Emit" -> At1("output") \o Each("indices", x.indices) \o At1("value") \o At1("weight")
                         \o At1("index_format") \o At1("elem_format")
      [] x.k = "When" -> At1("cond") \o At1("body")
      [] OTHER -> <<>>

RECURSIVE GetAt(_, _)
GetAt(x, place) == IF place = <<>> THEN x ELSE GetAt(x[place[1]], Tail(place))
RECURSIVE PutAt(_, _, _)
PutAt(x, place, y) == IF place = <<>> THEN y ELSE [x EXCEPT ![place[1]] = PutAt(@, Tail(place), y)]

Slots(x) == SelectSeq(Places(x), LAMBDA p : GetAt(x, p).k # "Nil")

(* The children of a node, those that it shares with other nodes included: *)
(* the initializer of a variable and the body of a function.               *)
Below(P, x) ==
    SelectSeq(CASE x.k = "VarDecl" -> <<init_of(P, x.d)>>
                [] x.k = "TempVariable" -> <<P.temps[x.d]>>
                [] x.k = "Function" -> <<P.funs[x.f].body>>
                [] OTHER -> [i \in DOMAIN Places(x) |-> GetAt(x, Places(x)[i])],
              LAMBDA c : c.k # "Nil")

(* All nodes below x and x itself, children first.  A node in "omit" is    *)
(* not entered.                                                            *)
RECURSIVE Nodes(_, _, _)
Nodes(P, x, omit) ==
    IF x.k \in omit THEN <<x>>
    ELSE LET below == Below(P, x)
             RECURSIVE all(_, _)
             all(i, j) == IF i >= j THEN IF i > j THEN <<>> ELSE Nodes(P, below[i], omit)
                          ELSE all(i, (i + j) \div 2) \o all((i + j) \div 2 + 1, j)
         IN  Append(all(1, Len(below)), x)

(* Division truncates towards zero. *)
quotient(x, y) ==
    LET abs(i) == IF i < 0 THEN -i ELSE i
    IN  (IF (x < 0) = (y < 0) THEN 1 ELSE -1) * (abs(x) \div abs(y))

IsIntrinsic(x, kinds) == x.k = "Call" /\ x.fun.k = "Intrinsic" /\ x.fun.kind \in kinds

(* The type of an expression. *)
RECURSIVE TypeOf(_, _)
TypeOf(P, x) ==
    CASE x.k \in {"Variable", "TempVariable"} -> P.decl[x.d].t
      [] x.k \in {"Slice"} -> TypeOf(P, x.var)
      [] x.k = "Index" -> elem_type(TypeOf(P, x.var))
      [] x.k = "Selector" -> field_types(TypeOf(P, x.var))[x.field]
      [] x.k = "Dollar" -> "int"
      [] x.k = "RuntimeGuard" -> TypeOf(P, x.expr)
      [] x.k = "Function" -> "function"
      [] x.k = "Regex" -> "string"
      [] x.k = "Saw" -> "array"
      [] x.k = "Call" ->
            (CASE x.fun.k = "Function" -> P.funs[x.fun.f].result
               [] x.fun.k = "Intrinsic" -> x.fun.result
               [] x.fun.k = "Variable" -> P.decl[x.fun.d].result)
      [] OTHER -> x.t

(* Whether evaluating a node may trap even if its operands are defined.    *)
(* A division traps unless its right operand is a literal other than zero. *)
CanCauseTrap(P, x, is_lvalue) ==
    CASE x.k \in {"Variable", "TempVariable"} -> ~is_lvalue /\ ~x.is_defined
      [] x.k = "Slice" -> is_lvalue
      [] x.k = "Index" -> ~is_map(TypeOf(P, x.var)) \/ ~is_lvalue
      [] x.k = "Binary" -> x.opcode \in {"div_int", "mod_int"}
                           /\ (x.right.k # "Literal" \/ x.right.v = 0)
      [] x.k = "Conversion" -> x.kind = "ArrayToMap" \/ x.op \in {"str2int", "bytes2proto"} \/ x.key_op = "str2int"
      [] x.k = "Composite" -> x.t = "string"
      [] x.k = "Call" ->
            CASE x.fun.k = "Function" -> might_rtn_undef(P, x.fun.f)
              [] x.fun.k = "Intrinsic" -> x.fun.can_fail
              [] OTHER -> TRUE
      [] x.k \in {"New", "Saw", "StatExpr", "RuntimeGuard"} -> TRUE
      [] OTHER -> FALSE

(* Whether evaluating a node may trap, its operands included.  def() and   *)
(* undefine() never do; a function literal is not entered.                 *)
RECURSIVE CanTrapAt(_, _, _)
CanTrapAt(P, x, lvalue) ==
    \/ CanCauseTrap(P, x, x = lvalue)
    \/ /\ ~IsIntrinsic(x, {"DEF", "UNDEFINE"})
       /\ x.k \notin {"Function", "StatExpr"}
       /\ \E i \in DOMAIN Below(P, x) : CanTrapAt(P, Below(P, x)[i], lvalue)

(* CanTrap of a node that a trap handler is set up for. *)
CanTrap(P, x) ==
    CASE x.k = "Assignment" -> CanTrapAt(P, x.lvalue, x.lvalue) \/ CanTrapAt(P, x.rvalue, x.lvalue)
      [] x.k \in {"VarDecl", "Emit"} -> TRUE
      [] OTHER -> CanTrapAt(P, x, Nil)

(* The variable that an assignment to an lvalue leaves undefined when it   *)
(* traps.                                                                  *)
RECURSIVE UndefVar(_)
UndefVar(lvalue) == IF "var" \in DOMAIN lvalue THEN UndefVar(lvalue.var) ELSE lvalue.d

(* An assignment to a tuple field nobody reads is dead. *)
is_dead(P, x) == x.lvalue.k = "Selector" /\ <<TypeOf(P, x.lvalue.var), x.lvalue.field>> \notin P.read

(* How many static links lead from function f's frame to the frame at a    *)
(* level.  The chain is sparse: a frame's static link skips the enclosing  *)
(* functions whose variables no function inside refers to.                 *)
RECURSIVE Enclosing(_, _, _)
Enclosing(P, f, level) ==
    IF f = "none" \/ P.funs[f].level <= level THEN f ELSE Enclosing(P, P.funs[f].owner, level)
RECURSIVE bp_delta(_, _, _)
bp_delta(P, f, level) ==
    IF f = "none" \/ P.funs[f].level = level THEN 0
    ELSE 1 + bp_delta(P, Enclosing(P, f, P.funs[f].context_level), level)

-----------------------------------------------------------------------------
(* What the parser records about the variables and functions of a program  *)
(* while it reads it.                                                      *)

(* The variables that a node changes: the roots of its lvalues. *)
Modified(x) ==
    CASE x.k \in {"Assignment", "Increment"} -> {UndefVar(x.lvalue)}
      [] x.k = "Saw" -> {UndefVar(x.args[i]) : i \in {j \in DOMAIN x.args : x.flags[j] = "REST"}}
      [] x.k \in {"Index", "Slice"} /\ x.length_temp # Nil -> {x.length_temp.d}
      [] IsIntrinsic(x, {"UNDEFINE"}) -> {x.args[1].d}
      [] OTHER -> {}
AllModified(nodes) == UNION {Modified(nodes[i]) : i \in DOMAIN nodes}

(* ... in the body of a function, and in the statement expressions in it. *)
ModifiedIn(P, nodes) ==
    [all |-> AllModified(nodes),
     statexpr |-> UNION {AllModified(Nodes(P, nodes[i].body, {"Function"})) :
                            i \in {j \in DOMAIN nodes : nodes[j].k = "StatExpr"}}]

(* A variable is modified at a call if it is modified in a function inside *)
(* the one that declares it, or in a statement expression.                 *)
MarkedDecl(P, d, modified) ==
    [P.decl[d] EXCEPT
        !.modified_after_init = \E f \in DOMAIN modified : d \in modified[f].all,
        !.modified_at_call = \E f \in DOMAIN modified :
            \/ d \in modified[f].all /\ P.funs[f].level # P.decl[d].level
            \/ d \in modified[f].statexpr]

(* The innermost enclosing level that f, or a function in it, refers to. *)
context_level(P, f) ==
    LET nodes == Nodes(P, P.funs[f].body, {})
        used == {P.decl[nodes[i].d].level : i \in {j \in DOMAIN nodes : nodes[j].k = "Variable"}}
        outer == {level \in used : level < P.funs[f].level}
    IN  IF outer = {} THEN -1 ELSE CHOOSE level \in outer : \A other \in outer : other <= level

Parsed(P) ==
    LET modified == <<>> @@ [f \in DOMAIN P.funs |-> ModifiedIn(P, Nodes(P, P.funs[f].body, {"Function"}))]
        contexts == [f \in DOMAIN P.funs |-> context_level(P, f)]
    IN  [P EXCEPT !.decl = <<>> @@ [d \in DOMAIN P.decl |-> MarkedDecl(P, d, modified)],
                  !.funs = <<>> @@ [f \in DOMAIN P.funs |-> [P.funs[f] EXCEPT !.context_level = contexts[f]]]]

=============================================================================
