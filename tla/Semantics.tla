----------------------------- MODULE Semantics -----------------------------
(***************************************************************************)
(* What a Sawzall program means, as a reference for the compilers and the  *)
(* passes: an evaluator over the syntax tree.                              *)
(*                                                                         *)
(* Values are plain values: there are no references, no stack and no code. *)
(* A variable belongs to an activation of the function that declares it,   *)
(* and every activation knows the activation of the function around it.    *)
(* An undefined value ends the evaluation of the statement it occurs in,   *)
(* and leaves undefined the variable that the statement was to define.     *)
(***************************************************************************)
EXTENDS Ast, SequencesExt

Undef == <<"null", 0>>
Num(n) == <<"int", n>>
Truth(b) == <<"bool", b>>
Many(kind, elems, bits) == <<kind, elems, bits>>

(* A state: the activations so far, the current one, the output, whether   *)
(* the program has failed and whether undefined values are ignored.        *)
Start(ignore) == [acts |-> <<[f |-> "none", up |-> 0, vars |-> <<>>]>>, cur |-> 1, out |-> <<>>,
                  failed |-> FALSE, ignore |-> ignore]

RECURSIVE ActivationOf(_, _, _)
ActivationOf(s, a, f) == IF s.acts[a].f = f THEN a ELSE ActivationOf(s, s.acts[a].up, f)

Around(P, s, a, f) == ActivationOf(s, a, IF P.funs[f].level = 1 THEN "none" ELSE P.funs[f].owner)

Home(P, s, d) == ActivationOf(s, s.cur, IF P.decl[d].level = 0 THEN "none" ELSE P.decl[d].owner)
ValueOf(P, s, d) ==
    LET vars == s.acts[Home(P, s, d)].vars IN IF d \in DOMAIN vars THEN vars[d] ELSE Undef
SetVar(P, s, d, v) ==
    [s EXCEPT !.acts[Home(P, s, d)].vars =
        [e \in DOMAIN @ \cup {d} |-> IF e = d THEN v ELSE @[e]]]

(* A trap that is reported is fatal unless undefined values are ignored. *)
Report(s) == [s EXCEPT !.failed = @ \/ ~s.ignore]

(* Element access; the index of an element, or 0. *)
KeyIndex(v, key) ==
    LET found == {i \in 1 .. Len(v[2]) \div 2 : v[2][2 * i - 1] = key}
    IN  IF found = {} THEN 0 ELSE 2 * (CHOOSE i \in found : TRUE)
Place(t, v, i) ==
    IF is_map(t) THEN KeyIndex(v, i)
    ELSE IF i[2] >= 0 /\ i[2] < Len(v[2]) THEN i[2] + 1 ELSE 0
Within(i, n) == IF i < 0 THEN 0 ELSE IF i > n THEN n ELSE i

(* What is emitted: the inproto bits are not. *)
RECURSIVE Shown(_)
Shown(v) == IF Len(v) # 3 THEN v ELSE <<v[1], [i \in DOMAIN v[2] |-> Shown(v[2][i])]>>

RECURSIVE Insert(_, _)
Insert(v, pairs) ==
    IF pairs = <<>> THEN v
    ELSE LET i == KeyIndex(v, pairs[1])
         IN  Insert(IF i = 0 THEN [v EXCEPT ![2] = @ \o SubSeq(pairs, 1, 2)]
                    ELSE [v EXCEPT ![2][i] = pairs[2]], SubSeq(pairs, 3, Len(pairs)))

SameValue(x, y) ==
    IF x[1] = "map" THEN {<<x[2][2 * i - 1], x[2][2 * i]>> : i \in 1 .. Len(x[2]) \div 2}
                         = {<<y[2][2 * i - 1], y[2][2 * i]>> : i \in 1 .. Len(y[2]) \div 2}
    ELSE Shown(x) = Shown(y)

Operate(opcode, x, y) ==
    CASE opcode = "add_int" -> Num(x[2] + y[2])
      [] opcode = "sub_int" -> Num(x[2] - y[2])
      [] opcode = "mul_int" -> Num(x[2] * y[2])
      [] opcode = "div_int" -> IF y[2] = 0 THEN Undef ELSE Num(quotient(x[2], y[2]))
      [] opcode = "mod_int" -> IF y[2] = 0 THEN Undef ELSE Num(x[2] - y[2] * quotient(x[2], y[2]))
      [] opcode \in {"add_array", "add_string"} -> [x EXCEPT ![2] = @ \o y[2]]
      [] opcode = "lss_int" -> Truth(x[2] < y[2])
      [] opcode = "neq_bits" -> Truth(x # y)
      [] OTHER -> Truth(SameValue(x, y))

Convert(op, v) ==
    CASE op = "int2str" -> Many("string", <<v>>, {})
      [] op = "str2int" -> IF Len(v[2]) = 1 /\ v[2][1][2] \in 1 .. 9 THEN v[2][1] ELSE Undef
      [] op = "bytes2proto" ->
            IF Len(v[2]) > 2 THEN Undef
            ELSE Many("tuple", [i \in 1 .. 2 |-> IF i \in DOMAIN v[2] THEN v[2][i] ELSE Num(0)], DOMAIN v[2])
      [] OTHER -> v
ConvertAll(x, v) ==
    LET conv(i) == IF x.kind = "ArrayToMap" /\ i % 2 = 1 THEN x.key_op ELSE x.op
        elems == [i \in DOMAIN v[2] |-> Convert(conv(i), v[2][i])]
    IN  IF (\E i \in DOMAIN elems : elems[i] = Undef) \/ (x.kind = "ArrayToMap" /\ Len(elems) % 2 = 1)
        THEN Undef
        ELSE IF x.kind = "ArrayToMap" THEN Insert(Many("map", <<>>, {}), elems)
        ELSE Many("array", elems, {})

(* saw: the string, then a list of regular expressions, skips and rests. *)
RECURSIVE SawAll(_, _, _, _)
SawAll(str, list, flags, i) ==
    LET at == {p \in DOMAIN str : i <= Len(list) /\ str[p] = list[i]}
    IN  IF at = {} THEN <<<<>>, str>>
        ELSE LET p == CHOOSE p \in at : \A q \in at : p <= q
                 rest == SawAll(SubSeq(str, p + 1, Len(str)), list, flags, i + 1)
             IN  <<IF flags[i] = "SKIP" THEN rest[1] ELSE <<Many("string", <<str[p]>>, {})>> \o rest[1],
                   rest[2]>>

-----------------------------------------------------------------------------
(* Expressions.  The result is the value, or Undef, and the state. *)

RECURSIVE Eval(_, _, _)
RECURSIVE EvalList(_, _, _)
RECURSIVE Exec(_, _, _)
RECURSIVE ExecList(_, _, _)
RECURSIVE Repeat(_, _, _)
RECURSIVE Resolve(_, _, _, _)
RECURSIVE SawFrom(_, _, _, _, _)
RECURSIVE ExecWhen(_, _, _, _)
RECURSIVE TryEach(_, _, _, _, _, _)

(* A list is evaluated from its last element to its first one; the values  *)
(* are undefined if one of them is.                                        *)
EvalList(P, list, s) ==
    IF list = <<>> THEN <<Many("list", <<>>, {}), s>>
    ELSE LET r == Eval(P, Last(list), s)
         IN  IF r[1] = Undef \/ r[2].failed THEN <<Undef, r[2]>>
             ELSE LET rest == EvalList(P, Front(list), r[2])
                  IN  IF rest[1] = Undef THEN rest ELSE <<[rest[1] EXCEPT ![2] = Append(@, r[1])], rest[2]>>

(* Two operands, from the left to the right. *)
EvalTwo(P, x, y, s) ==
    LET r == Eval(P, x, s)
    IN  IF r[1] = Undef \/ r[2].failed THEN <<Undef, r[2]>>
        ELSE LET q == Eval(P, y, r[2]) IN IF q[1] = Undef THEN q ELSE <<Many("pair", r[1], q[1]), q[2]>>

(* A call runs the body in a new activation. *)
Apply(P, f, up, args, s) ==
    LET act == [f |-> f, up |-> up,
                vars |-> [d \in {P.funs[f].params[i] : i \in DOMAIN args} |->
                             args[CHOOSE i \in DOMAIN args : P.funs[f].params[i] = d]]]
        r == Exec(P, P.funs[f].body, [s EXCEPT !.acts = Append(@, act), !.cur = Len(s.acts) + 1])
        back == [r[2] EXCEPT !.cur = s.cur]
    IN  CASE r[1][1] = "return" -> <<r[1][2], back>>
          [] r[1][1] # "return" /\ P.funs[f].result # "void" -> <<Undef, [back EXCEPT !.failed = TRUE]>>
          [] OTHER -> <<Truth(TRUE), back>>

EvalCall(P, x, s) ==
    LET fun == x.fun
        kind == IF fun.k = "Intrinsic" THEN fun.kind ELSE "none"
    IN  CASE kind = "DEF" -> LET r == Eval(P, x.args[1], s) IN <<Truth(r[1] # Undef), r[2]>>
          [] kind = "UNDEFINE" -> <<Truth(TRUE), SetVar(P, s, x.args[1].d, Undef)>>
          [] kind = "INPROTO" ->
               LET r == Eval(P, x.args[1].var, s)
               IN  IF r[1] = Undef THEN r ELSE <<Truth(x.args[1].field \in r[1][3]), r[2]>>
          [] kind = "CLEARPROTO" ->
               LET r == Eval(P, x.args[1].var, s)
               IN  IF r[1] = Undef THEN r
                   ELSE <<Truth(TRUE), SetVar(P, r[2], x.args[1].var.d, [r[1] EXCEPT ![3] = @ \ {x.args[1].field}])>>
          [] OTHER ->
               LET r == EvalList(P, x.args, s)
                   c == IF r[1] = Undef \/ fun.k \in {"Intrinsic", "Function"} THEN r ELSE Eval(P, fun, r[2])
               IN  IF r[1] = Undef \/ r[2].failed \/ c[1] = Undef THEN <<Undef, c[2]>>
                   ELSE CASE kind = "LEN" ->
                               <<Num(Len(r[1][2][1][2]) \div (IF r[1][2][1][1] = "map" THEN 2 ELSE 1)), r[2]>>
                          [] kind = "SORT" -> <<[r[1][2][1] EXCEPT ![2] = SortSeq(@, LAMBDA a, b : a[2] < b[2])], r[2]>>
                          [] kind = "MATCH" ->
                               LET str == r[1][2][2][2]
                               IN  <<Truth(\E i \in DOMAIN str : str[i] = r[1][2][1][2][1]), r[2]>>
                          [] kind = "GETENV" -> <<Undef, r[2]>>
                          [] kind = "INTRINSIC" -> <<IF r[1][2][1] = Truth(FALSE) THEN Undef ELSE Truth(TRUE), r[2]>>
                          [] kind = "ADDDAY" -> <<IF r[1][2][1] = Num(0) THEN Undef ELSE r[1][2][1], r[2]>>
                          [] fun.k = "Function" ->
                               Apply(P, fun.f, Around(P, r[2], s.cur, fun.f), r[1][2], r[2])
                          [] OTHER -> Apply(P, c[1][2], c[1][4], r[1][2], c[2])

(* Saw: from argument i on, with the rest of the string. *)
SawFrom(P, x, s, str, i) ==
    IF i > Len(x.args) THEN <<Many("list", <<>>, {}), s>>
    ELSE LET rests == {j \in i .. Len(x.args) : x.flags[j] = "REST"}
             n == IF rests = {} THEN Len(x.args) + 1 ELSE CHOOSE j \in rests : \A k \in rests : j <= k
             regs == EvalList(P, SubSeq(x.args, i, n - 1), s)
             count == Eval(P, x.count, regs[2])
             times == IF n = i THEN 0 ELSE count[1][2]
             each == [j \in 1 .. (n - i) * times |-> ((j - 1) % (n - i)) + 1]
             sawn == SawAll(str, [j \in DOMAIN each |-> regs[1][2][each[j]][2][1]],
                            [j \in DOMAIN each |-> x.flags[i + each[j] - 1]], 1)
             s1 == IF n = i THEN s ELSE count[2]
         IN  IF regs[1] = Undef THEN regs
             ELSE IF n > Len(x.args) THEN <<Many("list", sawn[1], {}), s1>>
             ELSE LET r == SawFrom(P, x, SetVar(P, s1, x.args[n].d, Many("string", sawn[2], {})), sawn[2], n + 1)
                  IN  IF r[1] = Undef THEN r ELSE <<[r[1] EXCEPT ![2] = sawn[1] \o @], r[2]>>

Eval(P, x, s) ==
    IF s.failed THEN <<Undef, s>>
    ELSE CASE x.k = "Literal" -> <<IF x.t \in {"int", "bool"} THEN <<x.t, x.v>> ELSE Many(x.t, x.v, {}), s>>
      [] x.k = "Regex" -> <<Many("string", x.base, {}), s>>
      [] x.k = "Variable" -> <<ValueOf(P, s, x.d), s>>
      [] x.k = "TempVariable" ->
           IF ValueOf(P, s, x.d) # Undef THEN <<ValueOf(P, s, x.d), s>>
           ELSE LET r == Eval(P, P.temps[x.d], s)
                IN  IF r[1] = Undef THEN r ELSE <<r[1], SetVar(P, r[2], x.d, r[1])>>
      [] x.k = "Binary" ->
           IF x.op \in {"LAND", "LOR"}
           THEN LET r == Eval(P, x.left, s)
                IN  IF r[1] = Undef \/ r[1][2] = (x.op = "LOR") THEN r ELSE Eval(P, x.right, r[2])
           ELSE LET r == EvalTwo(P, x.left, x.right, s)
                IN  IF r[1] = Undef THEN r ELSE <<Operate(x.opcode, r[1][2], r[1][3]), r[2]>>
      [] x.k = "Index" ->
           LET t == TypeOf(P, x.var)
               v == Eval(P, x.var, s)
               s1 == IF v[1] = Undef \/ x.length_temp = Nil THEN v[2]
                     ELSE SetVar(P, v[2], x.length_temp.d, Num(Len(v[1][2])))
               r == IF is_map(t) THEN LET q == EvalTwo(P, x.index, x.var, s)
                                      IN  IF q[1] = Undef THEN q ELSE <<Many("pair", q[1][3], q[1][2]), q[2]>>
                    ELSE IF v[1] = Undef THEN v
                    ELSE LET q == Eval(P, x.index, s1) IN IF q[1] = Undef THEN q ELSE <<Many("pair", v[1], q[1]), q[2]>>
           IN  IF r[1] = Undef THEN r
               ELSE LET i == Place(t, r[1][2], r[1][3])
                    IN  <<IF i = 0 THEN Undef ELSE r[1][2][2][i], r[2]>>
      [] x.k = "Slice" ->
           LET v == Eval(P, x.var, s)
               s1 == IF v[1] = Undef \/ x.length_temp = Nil THEN v[2]
                     ELSE SetVar(P, v[2], x.length_temp.d, Num(Len(v[1][2])))
               r == IF v[1] = Undef THEN v ELSE EvalTwo(P, x.beg, x.end, s1)
               n == Len(v[1][2])
           IN  IF r[1] = Undef THEN r
               ELSE <<[v[1] EXCEPT ![2] = SubSeq(@, Within(r[1][2][2], n) + 1, Within(r[1][3][2], n))], r[2]>>
      [] x.k = "Selector" ->
           LET r == Eval(P, x.var, s) IN IF r[1] = Undef THEN r ELSE <<r[1][2][x.field], r[2]>>
      [] x.k = "Dollar" ->
           IF x.length_temp # Nil THEN Eval(P, x.length_temp, s)
           ELSE LET r == Eval(P, x.array, s) IN IF r[1] = Undef THEN r ELSE <<Num(Len(r[1][2])), r[2]>>
      [] x.k = "RuntimeGuard" ->
           LET r == Eval(P, x.guard, SetVar(P, s, x.temp, Undef))
           IN  IF r[1] # Truth(TRUE) THEN <<Undef, r[2]>> ELSE Eval(P, x.expr, r[2])
      [] x.k = "Conversion" ->
           LET r == Eval(P, x.src, s)
           IN  IF r[1] = Undef THEN r
               ELSE <<IF x.kind = "Basic" THEN Convert(x.op, r[1]) ELSE ConvertAll(x, r[1]), r[2]>>
      [] x.k = "New" ->
           LET r == IF is_map(x.t) THEN Eval(P, x.length, s) ELSE EvalTwo(P, x.init, x.length, s)
           IN  CASE r[1] = Undef -> r
                 [] r[1] # Undef /\ is_map(x.t) -> <<Many("map", <<>>, {}), r[2]>>
                 [] OTHER -> <<IF r[1][3][2] < 0 \/ (x.t = "string" /\ r[1][2] = Num(0)) THEN Undef
                               ELSE Many(IF is_array(x.t) THEN "array" ELSE x.t,
                                         [i \in 1 .. r[1][3][2] |-> r[1][2]], {}), r[2]>>
      [] x.k = "Composite" ->
           LET r == EvalList(P, x.list, s)
           IN  IF r[1] = Undef THEN r
               ELSE <<CASE is_array(x.t) -> Many("array", r[1][2], {})
                        [] is_map(x.t) -> Insert(Many("map", <<>>, {}), r[1][2])
                        [] is_tuple(x.t) -> Many("tuple", r[1][2], DOMAIN r[1][2])
                        [] OTHER -> IF x.t = "string" /\ \E i \in DOMAIN r[1][2] : r[1][2][i][2] = 0 THEN Undef
                                    ELSE Many(x.t, r[1][2], {}), r[2]>>
      [] x.k = "StatExpr" ->
           LET r == Exec(P, x.body, s)
           IN  IF r[2].failed THEN <<Undef, r[2]>>
               ELSE IF r[1][1] # "result" THEN <<Undef, [r[2] EXCEPT !.failed = TRUE]>>
               ELSE Eval(P, x.var, r[2])
      [] x.k = "Function" -> << <<"closure", x.f, 0, Around(P, s, s.cur, x.f)>>, s>>
      [] x.k = "Saw" ->
           LET v == Eval(P, x.str, s)
               r == IF v[1] = Undef THEN v ELSE SawFrom(P, x, v[2], v[1][2], 1)
           IN  IF r[1] = Undef THEN r ELSE <<Many("array", r[1][2], {}), r[2]>>
      [] x.k = "Call" -> EvalCall(P, x, s)

-----------------------------------------------------------------------------
(* Assignment.  The place that an lvalue denotes is a variable and a list  *)
(* of element positions; the result is the place, or Undef, and the state. *)

At(v, path) == FoldLeft(LAMBDA u, i : u[2][i], v, path)
RECURSIVE Update(_, _, _)
Update(v, path, new) ==
    IF path = <<>> THEN new ELSE [v EXCEPT ![2][path[1]] = Update(@, Tail(path), new)]

(* final: the element is stored to, so that a key may be inserted. *)
Resolve(P, x, s, final) ==
    CASE x.k \in {"Variable", "TempVariable"} ->
           IF ~final /\ ValueOf(P, s, x.d) = Undef THEN <<Undef, s>> ELSE << <<x.d, <<>> >>, s>>
      [] x.k = "Selector" ->
           LET r == Resolve(P, x.var, s, FALSE)
           IN  IF r[1] = Undef THEN r
               ELSE LET root == ValueOf(P, r[2], r[1][1])
                        t == At(root, r[1][2])
                    IN  << <<r[1][1], Append(r[1][2], x.field)>>,
                           SetVar(P, r[2], r[1][1], Update(root, r[1][2], [t EXCEPT ![3] = @ \cup {x.field}]))>>
      [] x.k = "Index" ->
           LET t == TypeOf(P, x.var)
               first == IF is_map(t) THEN Eval(P, x.index, s) ELSE Resolve(P, x.var, s, FALSE)
               s1 == IF first[1] = Undef \/ x.length_temp = Nil THEN first[2]
                     ELSE SetVar(P, first[2], x.length_temp.d,
                                 Num(Len(At(ValueOf(P, first[2], first[1][1]), first[1][2])[2])))
               second == IF first[1] = Undef THEN first
                         ELSE IF is_map(t) THEN Resolve(P, x.var, s1, FALSE) ELSE Eval(P, x.index, s1)
               place == IF is_map(t) THEN second[1] ELSE first[1]
               index == IF is_map(t) THEN first[1] ELSE second[1]
           IN  IF second[1] = Undef THEN second
               ELSE LET root == ValueOf(P, second[2], place[1])
                        v == At(root, place[2])
                        i == Place(t, v, index)
                    IN  CASE i # 0 -> << <<place[1], Append(place[2], i)>>, second[2]>>
                          [] i = 0 /\ is_map(t) /\ final ->
                               << <<place[1], Append(place[2], Len(v[2]) + 2)>>,
                                  SetVar(P, second[2], place[1],
                                         Update(root, place[2], [v EXCEPT ![2] = @ \o <<index, Undef>>]))>>
                          [] OTHER -> <<Undef, second[2]>>
      [] OTHER -> <<Undef, s>>

(* Assign a value; TRUE or Undef, and the state. *)
Assign(P, x, v, s) ==
    IF x.k = "Slice"
    THEN LET r == Resolve(P, x.var, s, FALSE)
             old == At(ValueOf(P, r[2], r[1][1]), r[1][2])
             s1 == IF x.length_temp = Nil THEN r[2] ELSE SetVar(P, r[2], x.length_temp.d, Num(Len(old[2])))
             b == IF r[1] = Undef THEN r ELSE EvalTwo(P, x.beg, x.end, s1)
             beg == b[1][2][2]
             end == b[1][3][2]
         IN  IF b[1] = Undef THEN b
             ELSE IF ~(0 <= beg /\ beg <= end /\ end <= Len(old[2])) THEN <<Undef, b[2]>>
             ELSE <<Truth(TRUE), SetVar(P, b[2], r[1][1],
                      Update(ValueOf(P, b[2], r[1][1]), r[1][2],
                             [old EXCEPT ![2] = SubSeq(@, 1, beg) \o v[2] \o SubSeq(@, end + 1, Len(@))]))>>
    ELSE LET r == Resolve(P, x, s, TRUE)
         IN  IF r[1] = Undef THEN r
             ELSE IF x.k = "Index" /\ TypeOf(P, x.var) = "string" /\ v[2] = 0 THEN <<Undef, r[2]>>
             ELSE <<Truth(TRUE), SetVar(P, r[2], r[1][1], Update(ValueOf(P, r[2], r[1][1]), r[1][2], v))>>

-----------------------------------------------------------------------------
(* Statements.  The result is how the statement ended (normally, by break, *)
(* continue, return or result) and the state.                              *)

Normal == <<"normal", 0>>

(* The condition, tag or expression of a statement was undefined. *)
Skip(s) == <<Normal, Report(s)>>
Guard(r, s) == r[1] = Undef \/ r[2].failed

ExecList(P, list, s) ==
    IF list = <<>> \/ s.failed THEN <<Normal, s>>
    ELSE LET r == Exec(P, Head(list), s)
         IN  IF r[1] # Normal THEN r ELSE ExecList(P, Tail(list), r[2])

(* The loop from its test on. *)
Repeat(P, x, s) ==
    LET c == IF x.cond = Nil THEN <<Truth(TRUE), s>> ELSE Eval(P, x.cond, s)
        b == Exec(P, x.body, c[2])
        again == IF b[1] \in {Normal, <<"continue", x.id>>}
                 THEN IF x.after = Nil THEN <<Normal, b[2]>> ELSE Exec(P, x.after, b[2])
                 ELSE b
    IN  IF c[2].failed THEN <<Normal, c[2]>>
        ELSE IF c[1] = Undef THEN Skip(c[2])
        ELSE IF c[1] = Truth(FALSE) THEN <<Normal, c[2]>>
        ELSE IF b[1] = <<"break", x.id>> \/ b[2].failed THEN <<Normal, b[2]>>
        ELSE IF b[1] \notin {Normal, <<"continue", x.id>>} THEN b
        ELSE Repeat(P, x, again[2])

(* The case that the tag selects: an undefined label does not match. *)
RECURSIVE Select(_, _, _, _, _, _)
Select(P, x, tag, c, l, s) ==
    IF c > Len(x.cases) THEN <<0, s>>
    ELSE IF l > Len(x.cases[c].labels) THEN Select(P, x, tag, c + 1, 1, s)
    ELSE LET r == Eval(P, x.cases[c].labels[l], s)
         IN  IF r[1] = tag THEN <<c, r[2]>>
             ELSE Select(P, x, tag, c, l + 1, IF r[1] = Undef THEN Report(r[2]) ELSE r[2])

(* When statements.  A quantifier ranges over the positions that exist in  *)
(* all of the arrays, strings and slices that it indexes by itself in the  *)
(* condition, or over the keys of the maps, in the order of the one map or *)
(* sorted.  A condition that is undefined does not hold.                   *)
Constraints(P, x, q) ==
    LET nodes == Nodes(P, x.cond, {"Function"})
        is_q(y) == y.k = "Variable" /\ y.d = q
        by_q(y) == IF y.k = "Index" THEN is_q(y.index) ELSE y.k = "Slice" /\ (is_q(y.beg) \/ is_q(y.end))
    IN  {nodes[i] : i \in {j \in DOMAIN nodes : by_q(nodes[j])}}
KeyList(v) == [i \in 1 .. Len(v[2]) \div 2 |-> v[2][2 * i - 1]]
Candidates(P, x, q, s) ==
    LET uses == Constraints(P, x, q)
        value(u) == Eval(P, u.var, s)[1]
        lengths == {Len(value(u)[2]) + (IF u.k = "Slice" THEN 1 ELSE 0) : u \in uses}
        keys == UNION {Range(KeyList(value(u))) : u \in uses}
    IN  IF \E u \in uses : is_map(TypeOf(P, u.var))
        THEN IF Cardinality({u.var : u \in uses}) = 1 THEN KeyList(value(CHOOSE u \in uses : TRUE))
             ELSE SortSeq(SetToSeq(keys), LAMBDA a, b : a[2] < b[2])
        ELSE [i \in 1 .. Min(lengths) |-> Num(i - 1)]

(* Values of quantifier i and of those after it; whether the condition     *)
(* held, how the body ended, and the state.  "all" quantifiers come last,  *)
(* and the body is executed once when all their values have been tried.    *)
ExecWhen(P, x, i, s) ==
    LET kind(j) == P.decl[x.qvars[j]].quant
        c == Eval(P, x.cond, s)
        b == Exec(P, x.body, c[2])
        r == TryEach(P, x, i, Candidates(P, x, x.qvars[i], s), kind(i) = "ALL", s)
        done == Exec(P, x.body, r[3])
    IN  IF i > Len(x.qvars)
        THEN IF c[1] # Truth(TRUE) THEN <<FALSE, Normal, c[2]>>
             ELSE IF i > 1 /\ kind(i - 1) = "ALL" THEN <<TRUE, Normal, c[2]>> ELSE <<TRUE, b[1], b[2]>>
        ELSE IF r[1] /\ kind(i) = "ALL" /\ (i = 1 \/ kind(i - 1) # "ALL") THEN <<TRUE, done[1], done[2]>> ELSE r

(* held: for "all", whether the condition held so far, for the others      *)
(* whether it held for some value.                                         *)
TryEach(P, x, i, list, held, s) ==
    IF list = <<>> THEN <<held, Normal, s>>
    ELSE LET kind == P.decl[x.qvars[i]].quant
             r == ExecWhen(P, x, i + 1, SetVar(P, s, x.qvars[i], list[1]))
         IN  IF r[2] # Normal \/ (kind = "SOME" /\ r[1]) \/ (kind = "ALL" /\ ~r[1]) THEN r
             ELSE TryEach(P, x, i, Tail(list), r[1] \/ held, r[3])

Exec(P, x, s) ==
    IF s.failed THEN <<Normal, s>>
    ELSE CASE x.k \in {"Empty", "TypeDecl"} -> <<Normal, s>>
      [] x.k = "Block" -> ExecList(P, x.list, s)
      [] x.k = "When" -> LET r == ExecWhen(P, x, 1, s) IN <<r[2], r[3]>>
      [] x.k = "Break" -> << <<"break", x.stat>>, s>>
      [] x.k = "Continue" -> << <<"continue", x.loop>>, s>>
      [] x.k = "ExprStat" ->
           LET r == Eval(P, x.expr, s) IN IF r[1] = Undef THEN Skip(r[2]) ELSE <<Normal, r[2]>>
      [] x.k = "Assignment" ->
           LET r == Eval(P, x.rvalue, s)
               a == IF Guard(r, s) THEN <<Undef, r[2]>> ELSE Assign(P, x.lvalue, r[1], r[2])
           IN  IF a[1] # Undef THEN <<Normal, a[2]>>
               ELSE Skip(SetVar(P, a[2], UndefVar(x.lvalue), Undef))
      [] x.k = "Increment" ->
           LET d == UndefVar(x.lvalue)
               r == Resolve(P, x.lvalue, s, FALSE)
               root == ValueOf(P, r[2], d)
           IN  IF r[1] = Undef THEN Skip(SetVar(P, r[2], d, Undef))
               ELSE <<Normal, SetVar(P, r[2], d, Update(root, r[1][2], Num(At(root, r[1][2])[2] + x.delta)))>>
      [] x.k = "If" ->
           LET r == Eval(P, x.cond, s)
           IN  IF r[2].failed THEN <<Normal, r[2]>>
               ELSE IF r[1] = Undef THEN Skip(r[2])
               ELSE Exec(P, IF r[1][2] THEN x.then_part ELSE x.else_part, r[2])
      [] x.k = "Loop" ->
           LET b == IF x.before = Nil THEN <<Normal, s>> ELSE Exec(P, x.before, s)
               first == IF x.sym = "DO" THEN Exec(P, x.body, b[2]) ELSE <<Normal, b[2]>>
           IN  IF first[1] = <<"break", x.id>> THEN <<Normal, first[2]>>
               ELSE IF first[1] \notin {Normal, <<"continue", x.id>>} THEN first
               ELSE Repeat(P, x, first[2])
      [] x.k = "Switch" ->
           LET r == Eval(P, x.tag, s)
               c == IF Guard(r, s) THEN <<0, r[2]>> ELSE Select(P, x, r[1], 1, 1, r[2])
               e == Exec(P, IF c[1] = 0 THEN x.default_case ELSE x.cases[c[1]].stat, c[2])
           IN  IF r[2].failed THEN <<Normal, r[2]>>
               ELSE IF r[1] = Undef THEN Skip(r[2])
               ELSE IF e[1] = <<"break", x.id>> THEN <<Normal, e[2]>> ELSE e
      [] x.k = "Return" ->
           IF x.result = Nil THEN << <<"return", Truth(TRUE)>>, s>>
           ELSE LET r == Eval(P, x.result, s) IN << <<"return", r[1]>>, r[2]>>
      [] x.k = "Result" ->
           LET r == Eval(P, x.expr, s)
           IN  << <<"result", 0>>, IF r[1] = Undef THEN Report(SetVar(P, r[2], x.var.d, Undef))
                                   ELSE SetVar(P, r[2], x.var.d, r[1])>>
      [] x.k = "VarDecl" ->
           LET d == P.decl[x.d]
               r == Eval(P, d.init, s)
           IN  IF d.level = 0 \/ d.init = Nil THEN <<Normal, s>> ELSE <<Normal, SetVar(P, r[2], x.d, r[1])>>
      [] x.k = "Emit" ->
           LET w == IF x.weight = Nil THEN <<Truth(TRUE), s>> ELSE Eval(P, x.weight, s)
               v == IF w[1] = Undef THEN w ELSE Eval(P, x.value, w[2])
               fv == IF v[1] = Undef \/ x.elem_format = Nil THEN v
                     ELSE Eval(P, x.elem_format, SetVar(P, v[2], x.elem_decl, v[1]))
               i == IF fv[1] = Undef THEN fv
                    ELSE EvalList(P, IF x.index_format = Nil THEN x.indices ELSE Reverse(x.indices), fv[2])
               set == FoldLeft(LAMBDA u, j : SetVar(P, u, x.index_decls[Len(x.indices) + 1 - j], i[1][2][j]), i[2],
                               [j \in DOMAIN x.indices |-> j])
               fi == IF i[1] = Undef \/ x.index_format = Nil THEN i
                     ELSE LET f == Eval(P, x.index_format, set) IN <<IF f[1] = Undef THEN Undef ELSE Many("list", <<f[1]>>, {}), f[2]>>
               all == <<ValueOf(P, s, x.output.d)>> \o fi[1][2] \o <<fv[1]>> \o (IF x.weight = Nil THEN <<>> ELSE <<w[1]>>)
           IN  IF fi[2].failed THEN <<Normal, fi[2]>>
               ELSE IF fi[1] = Undef THEN Skip(fi[2])
               ELSE <<Normal, [fi[2] EXCEPT !.out = Append(@, [j \in DOMAIN all |-> Shown(all[j])])]>>

-----------------------------------------------------------------------------
(* A program: its statics are initialized in order, where an undefined     *)
(* value is always fatal, and then the main function is called.            *)
RECURSIVE InitStatics(_, _, _, _)
InitStatics(P, i, tables, s) ==
    IF i > Len(P.statics) \/ s.failed THEN s
    ELSE LET d == P.statics[i]
             init == P.decl[d].init
             r == IF init = Nil THEN <<Undef, s>> ELSE Eval(P, init, s)
         IN  IF P.decl[d].t = "output"
             THEN InitStatics(P, i + 1, tables + 1,
                              [SetVar(P, r[2], d, Num(tables + 1)) EXCEPT !.failed = @ \/ (init # Nil /\ r[1] = Undef)])
             ELSE InitStatics(P, i + 1, tables,
                              IF init = Nil THEN s
                              ELSE [SetVar(P, r[2], d, r[1]) EXCEPT !.failed = @ \/ r[1] = Undef])

Meaning(P, ignore) ==
    LET s == InitStatics(P, 1, 0, [Start(FALSE) EXCEPT !.ignore = FALSE])
        r == Apply(P, "$main", 1, <<Many("bytes", P.input, {}), Many("bytes", P.key, {})>>, [s EXCEPT !.ignore = ignore])
        final == IF s.failed THEN s ELSE r[2]
    IN  [out |-> final.out, failed |-> final.failed]

=============================================================================
