----------------------------- MODULE MCCompile -----------------------------
(* Programs to compile and to run, chosen so that every construct of the   *)
(* language occurs, with defined and with undefined operands.              *)
EXTENDS Compile

S == INSTANCE Semantics

N(n) == Literal("int", n)
T == Literal("bool", TRUE)
F == Literal("bool", FALSE)
Str(s) == Literal("string", [i \in DOMAIN s |-> <<"int", s[i]>>])
V(d) == Variable(d)
Add(x, y) == Binary("int", x, "ADD", "add_int", y)
Sub(x, y) == Binary("int", x, "SUB", "sub_int", y)
Mul(x, y) == Binary("int", x, "MUL", "mul_int", y)
Div(x, y) == Binary("int", x, "DIV", "div_int", y)
Less(x, y) == Binary("bool", x, "LSS", "lss_int", y)
Equal(x, y) == Binary("bool", x, "EQL", "eql_bits", y)
And(x, y) == Binary("bool", x, "LAND", "nop", y)
Or(x, y) == Binary("bool", x, "LOR", "nop", y)
Def(x) == Call(Intrinsic("DEF", "def", "bool", FALSE, FALSE), <<x>>)
Length(x) == Call(Intrinsic("LEN", "len", "int", FALSE, TRUE), <<x>>)
GetEnv(x) == Call(Intrinsic("GETENV", "getenv", "int", TRUE, FALSE), <<x>>)
Sort(x) == Call(Intrinsic("SORT", "sort", "array", FALSE, FALSE), <<x>>)
AddDay(x) == Call(Intrinsic("ADDDAY", "addday", "int", TRUE, TRUE), <<x>>)
Do_(f, args) == Call(V(f), args)
Set(d, x) == Assignment(V(d), x)
Put_(x) == Emit(V("o"), <<>>, x, Nil)
PutB(x) == If(x, Put_(N(1)), Put_(N(0)))

Static(t, init) == Decl(t, "$main", 0, FALSE, init)
Local(f, lev, t, init) == Decl(t, f, lev, FALSE, init)
Param(f, lev, t) == Decl(t, f, lev, TRUE, Nil)

(* A function variable, declared in function f. *)
FunVar(f, lev, g, result) == [Local(f, lev, "function", Function(g)) EXCEPT !.result = result]

(* A program whose main function has these locals and this body.  Its      *)
(* statics are declared first, except those inside others.                 *)
Inside == {"kr", "kt"}
MainFun(locals, body) ==
    Fun("none", 1, "void", <<"input", "key">>, locals \o <<"input", "key">>, Block(body))
MainDecls ==
    [o |-> Static("output", Nil), input |-> Param("$main", 1, "bytes"), key |-> Param("$main", 1, "bytes")]
ProgT(funs, order, statics, temps, decl, locals, body) ==
    LET outer == SelectSeq(statics, LAMBDA d : d \notin Inside)
        decls == [i \in DOMAIN outer |-> VarDecl(outer[i])]
    IN  [funs |-> ("$main" :> MainFun(locals, decls \o body)) @@ funs,
                order |-> Append(order, "$main"), statics |-> statics, decl |-> decl @@ MainDecls,
                temps |-> temps, read |-> {}, input |-> << <<"int", 7>> >>, key |-> <<>>]
Prog(funs, order, statics, decl, locals, body) == ProgT(funs, order, statics, <<>>, decl, locals, body)
L1(t, init) == Local("$main", 1, t, init)

Control == Prog(<<>>, <<>>, <<"o">>,
    [i |-> L1("int", N(0)), b |-> L1("bool", Nil)], <<"i", "b">>,
    <<VarDecl("i"), VarDecl("b"),
      Loop(1, "WHILE", Nil, Less(V("i"), N(3)), Nil, Block(<<
          If(Equal(V("i"), N(1)), Block(<<Increment(V("i"), 1), Continue(1)>>), Empty),
          Put_(V("i")), Increment(V("i"), 1)>>)),
      Loop(2, "FOR", Set("i", N(0)), Nil, Increment(V("i"), 1),
          If(Less(N(1), V("i")), Break(2, TRUE), Put_(Mul(V("i"), N(2))))),
      Loop(3, "DO", Nil, And(Less(V("i"), N(4)), Or(Equal(V("i"), N(3)), T)), Nil, Increment(V("i"), 1)),
      Set("b", And(Or(Less(V("i"), N(2)), Equal(V("i"), N(4))), Less(N(0), V("i")))),
      PutB(V("b")), If(V("b"), Empty, Put_(N(5))), If(V("b"), Empty, Empty),
      Switch(4, V("i"), <<Case(<<N(1), N(2)>>, Put_(N(12))), Case(<<N(9), N(4)>>,
          Block(<<Put_(N(94)), Break(4, FALSE), Put_(N(0))>>))>>, Put_(N(0))),
      Switch(5, V("i"), <<Case(<<N(1)>>, Empty)>>, Put_(N(55))), TypeDecl("t")>>)

Undefs == Prog(<<>>, <<>>, <<"o">>,
    [x |-> L1("int", Nil), y |-> L1("int", Div(N(1), N(0))), z |-> L1("int", N(4)), b |-> L1("bool", Nil)],
    <<"x", "y", "z", "b">>,
    <<VarDecl("x"), VarDecl("y"), VarDecl("z"), VarDecl("b"),
      PutB(Def(V("y"))), PutB(And(Def(V("z")), Less(V("z"), N(9)))),
      Set("b", And(Def(V("x")), Less(V("x"), N(1)))), PutB(V("b")),
      Set("b", Or(Def(Add(V("z"), Div(N(1), Sub(V("z"), V("z"))))), T)), PutB(V("b")),
      Set("z", V("x")), PutB(Def(V("z"))), If(Less(V("y"), N(1)), Put_(N(1)), Put_(N(2))),
      Loop(1, "WHILE", Nil, Less(V("x"), N(1)), Nil, Put_(N(3))),
      Set("z", N(2)),
      Switch(2, V("z"), <<Case(<<V("x"), N(2)>>, Put_(N(22))), Case(<<V("y")>>, Empty)>>, Put_(N(20))),
      Switch(3, V("z"), <<Case(<<V("x")>>, Put_(N(22)))>>, Put_(N(20))),
      Switch(4, V("x"), <<Case(<<N(1)>>, Empty)>>, Put_(N(30))),
      ExprStat(GetEnv(Str(<<1>>))), ExprStat(Length(V("input"))),
      ExprStat(Call(Intrinsic("UNDEFINE", "undefine", "void", FALSE, FALSE), <<V("z")>>)),
      Emit(V("o"), <<N(1), V("z")>>, N(1), N(1)), PutB(Def(V("z"))), Put_(N(99))>>)

(* f is nested in $main and g in f; h, inside g, refers to main's variable *)
(* and not to f's or g's, so that static links skip frames.                *)
Functions == Prog(
    ("f" :> Fun("$main", 2, "int", <<"fp">>, <<"fl", "g", "fp">>,
               Block(<<VarDecl("g"), VarDecl("fl"), Set("fl", Do_("g", <<Add(V("fp"), N(1)), N(5)>>)),
                       Return(Add(V("fl"), V("x")))>>))) @@
    ("g" :> Fun("f", 3, "int", <<"gp", "gq">>, <<"h", "gp", "gq">>,
               Block(<<VarDecl("h"), ExprStat(Do_("h", <<V("gp")>>)),
                       If(Less(V("gp"), N(3)), Return(Add(V("fl"), V("gp"))), Empty),
                       Return(Add(V("fp"), V("gq")))>>))) @@
    ("h" :> Fun("g", 4, "void", <<"hp">>, <<"hp">>,
               Block(<<Set("x", Add(V("x"), V("hp"))), If(Less(N(3), V("x")), Return(Nil), Empty), Put_(V("x"))>>))) @@
    ("fact" :> Fun("$main", 2, "int", <<"n">>, <<"n">>,
               Block(<<If(Less(V("n"), N(1)), Return(N(1)), Empty),
                       Return(Mul(V("n"), Do_("fact", <<Sub(V("n"), N(1))>>)))>>))) @@
    ("twice" :> Fun("$main", 2, "int", <<"fn", "a">>, <<"fn", "a">>,
               Return(Call(V("fn"), <<Call(V("fn"), <<V("a")>>)>>)))),
    <<"h", "g", "f", "fact", "twice">>, <<"o">>,
    [x |-> L1("int", N(0)), y |-> L1("int", Nil), fl |-> Local("f", 2, "int", Nil), fp |-> Param("f", 2, "int"),
     gp |-> Param("g", 3, "int"), gq |-> Param("g", 3, "int"), hp |-> Param("h", 4, "int"),
     n |-> Param("fact", 2, "int"), fn |-> Param("twice", 2, "function"), a |-> Param("twice", 2, "int"),
     f |-> FunVar("$main", 1, "f", "int"), g |-> FunVar("f", 2, "g", "int"), h |-> FunVar("g", 3, "h", "void"),
     fact |-> FunVar("$main", 1, "fact", "int"), twice |-> FunVar("$main", 1, "twice", "int")],
    <<"x", "y", "f", "fact", "twice">>,
    <<VarDecl("x"), VarDecl("f"), VarDecl("fact"), VarDecl("twice"),
      Set("y", Do_("f", <<N(1)>>)), PutB(Def(V("y"))), Put_(Do_("f", <<N(4)>>)), Put_(V("x")),
      Put_(Do_("fact", <<N(3)>>)), Put_(Do_("twice", <<V("f"), N(6)>>)),
      PutB(Def(Do_("f", <<N(0)>>))), ExprStat(Add(N(1), Do_("f", <<N(1)>>))), Put_(V("x"))>>)

AddA(x, y) == Binary("array", x, "ADD", "add_array", y)
EqA(x, y) == Binary("bool", x, "EQL", "eql_array", y)
At_(x, i) == Index(x, i, Nil)
Arr(list) == Composite("array", list)
Cut(x, i, j) == Slice(x, i, j, Nil)
End_(x) == Sub(Dollar(x, Nil), N(1))
NewArr(n, x) == New("array", n, x)

(* Values are copied when they are assigned: what is changed afterwards is *)
(* one of the two, whatever they share.                                    *)
Arrays == Prog(<<>>, <<>>, <<"o">>,
    [a |-> L1("array", Arr(<<N(1), N(2), N(3)>>)), b |-> L1("array", V("a")), c |-> L1("array2", Nil),
     d |-> L1("array", Nil), t |-> L1("int", Nil)],
    <<"a", "b", "c", "d", "t">>,
    <<VarDecl("a"), VarDecl("b"), VarDecl("c"), Assignment(At_(V("a"), N(1)), N(7)), Put_(V("a")), Put_(V("b")),
      Set("c", Composite("array2", <<V("a"), V("b"), Arr(<<N(9)>>)>>)),
      Assignment(At_(At_(V("c"), N(0)), N(2)), N(5)), Put_(V("a")), Put_(V("c")),
      Assignment(Index(At_(V("c"), N(1)), Sub(Dollar(At_(V("c"), N(1)), V("t")), N(1)), V("t")), N(6)),
      Put_(At_(V("b"), End_(V("b")))), Put_(Index(At_(V("c"), N(1)), Sub(Dollar(At_(V("c"), N(1)), V("t")), N(1)), V("t"))),
      Increment(At_(At_(V("c"), N(2)), N(0)), 1), Put_(At_(V("c"), N(2))),
      Set("d", Cut(V("b"), N(1), Dollar(V("b"), Nil))), Assignment(At_(V("d"), N(0)), N(4)), Put_(V("d")), Put_(V("b")),
      Put_(Slice(At_(V("c"), N(0)), N(-1), Sub(Dollar(At_(V("c"), N(0)), V("t")), N(1)), V("t"))),
      Assignment(Cut(V("b"), N(0), N(1)), V("b")), Put_(V("b")),
      Assignment(Cut(At_(V("c"), N(0)), N(1), N(3)), Arr(<<N(8)>>)), Put_(V("c")),
      Assignment(Cut(V("b"), N(2), N(9)), V("a")), PutB(Def(V("b"))),
      Set("d", AddA(V("a"), V("d"))), PutB(EqA(V("d"), V("a"))), PutB(EqA(V("a"), Arr(<<N(1), N(7), N(3)>>))),
      Increment(At_(V("d"), N(3)), -1), Put_(V("d")), Put_(At_(V("d"), N(5))), Increment(At_(V("d"), N(9)), 1),
      PutB(Def(V("d"))), Assignment(At_(V("a"), N(-1)), N(1)), PutB(Def(V("a"))),
      Set("a", Arr(<<N(1), N(2), Div(N(1), N(0)), N(4)>>)), PutB(Def(V("a"))),
      Set("c", Composite("array2", <<Arr(<<N(1)>>), V("a")>>)), PutB(Def(V("c"))),
      Set("a", NewArr(N(2), N(3))), Set("c", New("array2", N(2), V("a"))), Assignment(At_(V("a"), N(0)), N(0)), Put_(V("c")),
      ExprStat(NewArr(N(-1), N(0))), Put_(Sort(Arr(<<N(3), N(1), N(2)>>)))>>)

Mp(list) == Composite("map", list)
EqM(x, y) == Binary("bool", x, "EQL", "eql_map", y)
Fld(x, i) == Selector(x, i)
InProto(x, i) == Call(Intrinsic("INPROTO", "inproto", "bool", FALSE, FALSE), <<Fld(x, i)>>)
ClearProto(x, i) == Call(Intrinsic("CLEARPROTO", "clearproto", "void", FALSE, FALSE), <<Fld(x, i)>>)
LookUp(x, i) == At_(x, i)

Maps == Prog(<<>>, <<>>, <<"o">>,
    [a |-> L1("map", Mp(<<N(1), N(10), N(2), N(20), N(1), N(11)>>)), b |-> L1("map", V("a")), c |-> L1("mapA", Nil),
     t |-> L1("tuple", Composite("tuple", <<N(1), N(2)>>)), u |-> L1("tuple", V("t")), e |-> L1("array", Arr(<<N(5)>>)),
     v |-> L1("tupleA", Composite("tupleA", <<V("e")>>))],
    <<"a", "b", "c", "t", "u", "e", "v">>,
    <<VarDecl("a"), VarDecl("b"), VarDecl("c"), VarDecl("t"), VarDecl("u"), VarDecl("e"), VarDecl("v"),
      Assignment(At_(V("a"), N(3)), N(30)), Assignment(At_(V("a"), N(2)), N(21)), Put_(V("a")), Put_(V("b")),
      Increment(At_(V("a"), N(1)), 1), Put_(At_(V("a"), N(1))), Put_(At_(V("b"), N(7))), PutB(Def(At_(V("b"), N(3)))),
      Increment(At_(V("b"), N(7)), 1), PutB(Def(V("b"))),
      Set("b", Mp(<<N(3), N(30), N(2), N(21), N(1), N(12)>>)), PutB(EqM(V("a"), V("b"))), PutB(EqM(V("a"), Mp(<<>>))),
      Set("c", New("mapA", N(2), Nil)), Assignment(At_(V("c"), N(1)), V("e")),
      Assignment(At_(At_(V("c"), N(1)), N(0)), N(6)), Put_(V("c")), Put_(V("e")),
      Assignment(At_(At_(V("c"), N(2)), N(0)), N(6)), PutB(Def(V("c"))),
      Assignment(At_(V("b"), Div(N(1), N(0))), N(1)), PutB(Def(V("b"))),
      Assignment(Fld(V("t"), 1), N(3)), Put_(V("t")), Put_(V("u")), Increment(Fld(V("u"), 2), 1), Put_(Fld(V("u"), 2)),
      ExprStat(ClearProto(V("u"), 1)), PutB(InProto(V("u"), 1)), PutB(InProto(V("t"), 1)),
      Assignment(Fld(V("u"), 1), N(4)), PutB(InProto(V("u"), 1)),
      Assignment(Fld(V("t"), 2), Add(N(8), N(9))), Assignment(Fld(V("t"), 2), Div(N(8), N(0))),
      Assignment(At_(Fld(V("v"), 1), N(0)), N(3)), Put_(V("e")), Put_(V("v")), Put_(At_(Fld(V("v"), 1), N(0))),
      PutB(Def(V("t"))), PutB(Binary("bool", V("u"), "EQL", "eql_tuple", Composite("tuple", <<N(4), N(3)>>)))>>)

Rx(c) == Regex(<< <<"int", c>> >>)
MatchS(r, x) == Call(Intrinsic("MATCH", "match", "bool", FALSE, FALSE), <<r, x>>)
ToInt(x) == Conversion("int", x, <<>>, "Basic", "str2int", "none")
ToStr(x) == Conversion("string", x, <<>>, "Basic", "int2str", "none")
SawA(count, x, args, flags_) == Saw(N(count), x, args, flags_)
ConvA(op_, x) == Conversion("array", x, <<>>, "ArrayToArray", op_, "none")
ConvM(kop, op_, x) == Conversion("map", x, <<>>, "ArrayToMap", op_, kop)

Strings == Prog(<<>>, <<>>, <<"o">>,
    [s |-> L1("string", Str(<<1, 2, 3, 2, 4>>)), r |-> L1("string", V("s")), b |-> L1("bytes", Composite("bytes", <<N(1), N(0)>>)),
     n |-> L1("int", ToInt(Str(<<1, 2>>))), l |-> L1("array", Nil), q |-> L1("string", Nil)],
    <<"s", "r", "b", "n", "l", "q">>,
    <<VarDecl("s"), VarDecl("r"), VarDecl("b"), VarDecl("n"), VarDecl("l"), VarDecl("q"), PutB(Def(V("n"))), Put_(V("n")),
      Assignment(At_(V("s"), N(0)), N(5)), Put_(V("s")), Put_(V("r")), Put_(At_(V("r"), N(2))), Put_(At_(V("b"), N(0))),
      Assignment(At_(V("b"), N(1)), N(0)), Put_(Cut(V("b"), N(1), N(2))), Put_(Cut(V("r"), N(1), N(3))),
      Increment(At_(V("s"), N(0)), 1), Increment(At_(V("b"), N(0)), 1), Put_(V("s")), Put_(V("b")),
      Assignment(At_(V("s"), N(1)), N(0)), PutB(Def(V("s"))), PutB(MatchS(Rx(3), V("r"))), PutB(MatchS(Rx(9), V("r"))),
      Set("s", Composite("string", <<N(1), N(0), N(2)>>)), PutB(Def(V("s"))),
      Set("s", Composite("string", <<N(1), N(2)>>)), Put_(Binary("string", Str(<<6>>), "ADD", "add_string", V("s"))),
      Put_(Binary("string", V("s"), "ADD", "add_string", V("r"))),
      PutB(Binary("bool", V("s"), "EQL", "eql_string", Str(<<1, 2>>))),
      Set("l", SawA(1, V("r"), <<Rx(2), V("q"), Rx(3), Rx(2)>>, <<"NONE", "REST", "SKIP", "NONE">>)), Put_(V("l")), Put_(V("q")),
      Put_(SawA(2, V("r"), <<Rx(2)>>, <<"NONE">>)), Put_(SawA(1, V("r"), <<V("q")>>, <<"REST">>)), Put_(V("q")),
      Set("n", Add(ToInt(Str(<<7>>)), N(1))), Put_(ToStr(V("n"))),
      Set("l", ConvA("str2int", Arr(<<Str(<<3>>), Str(<<4>>)>>))), Put_(V("l")),
      Set("l", ConvA("str2int", Arr(<<Str(<<3>>), Str(<<4, 4>>)>>))), PutB(Def(V("l"))),
      Put_(ConvM("str2int", "int2int", Arr(<<Str(<<3>>), Str(<<4>>), Str(<<3>>), Str(<<5>>)>>))),
      Put_(ConvM("int2int", "int2int", Arr(<<N(1)>>))), Put_(ConvM("int2int", "str2int", Arr(<<Str(<<1>>), Str(<<2, 2>>)>>))),
      Put_(New("string", N(2), N(6))), Put_(New("bytes", N(1), N(6))),
      ExprStat(MatchS(Rx(1), V("input"))), PutB(Equal(Length(V("key")), N(0)))>>)

(* The conversion of an array to a tuple of two fields. *)
ToTuple(temp) ==
    RuntimeGuard(Equal(Length(TempVariable(temp)), N(2)),
                 Composite("tuple", <<At_(TempVariable(temp), N(0)), At_(TempVariable(temp), N(1))>>), temp)

(* Statement expressions, formats, guards, and the statics. *)
Formats == ProgT(
    ("f" :> Fun("$main", 1, "int", <<"p">>, <<"p">>, Block(<<If(Less(V("p"), N(2)), Return(V("p")), Empty)>>))) @@
    ("g" :> Fun("$main", 2, "int", <<>>, <<>>, Return(V("y")))),
    <<"f", "g">>, <<"o", "w", "kr", "kt", "k", "h">>, ("g1" :> AddA(V("ar"), V("ar"))) @@ ("g2" :> V("ar")),
    [w |-> Static("output", Add(N(1), N(2))), k |-> Static("int", StatExpr(1, "int", V("kr"), Block(<<
         VarDecl("kt"), If(Less(V("kt"), N(9)), Result(1, V("kr"), Add(V("kt"), N(1))), Empty), Result(1, V("kr"), N(3))>>))),
     y |-> L1("int", Nil), h |-> Static("function", Function("f")), g |-> FunVar("$main", 1, "g", "int"), p |-> Param("f", 1, "int"), kr |-> Static("int", Nil),
     kt |-> Static("int", N(2)), x |-> L1("int", StatExpr(2, "int", V("xr"), Block(<<Result(2, V("xr"), Div(N(1), N(0)))>>))),
     xr |-> L1("int", Nil), z |-> L1("int", StatExpr(3, "int", V("zr"), Block(<<
         Put_(N(31)), If(Less(N(1), V("k")), Result(3, V("zr"), N(32)), Result(3, V("zr"), N(33)))>>))), zr |-> L1("int", Nil),
     ev |-> L1("int", Nil), i1 |-> L1("int", Nil), i2 |-> L1("int", Nil), ar |-> L1("array", Arr(<<N(8)>>)), tt |-> L1("tuple", Nil),
     g1 |-> L1("array", Nil), g2 |-> L1("array", Nil)],
    <<"x", "xr", "z", "zr", "ev", "i1", "i2", "ar", "tt", "g1", "g2", "y", "g">>,
    <<VarDecl("y"), VarDecl("g"), VarDecl("x"), VarDecl("ar"), VarDecl("z"), PutB(Def(V("x"))), Put_(V("z")), Put_(V("k")),
      EmitFormat(V("w"), <<N(1), N(2)>>, N(3), <<"i1", "i2">>, Add(Mul(V("i1"), N(10)), V("i2")), "ev", ToStr(V("ev"))),
      EmitFormat(V("w"), <<N(1), V("y")>>, N(3), <<"i1", "i2">>, V("i1"), "ev", V("ev")),
      Emit(V("w"), <<N(1), N(2)>>, N(3), N(4)), Emit(V("w"), <<N(1)>>, V("y"), N(4)), Emit(V("w"), <<N(1)>>, N(5), V("y")),
      Put_(Call(V("h"), <<N(1)>>)), PutB(Binary("bool", V("h"), "EQL", "eql_closure", V("h"))),
      Set("tt", ToTuple("g1")), Put_(V("tt")), Set("tt", ToTuple("g2")), PutB(Def(V("tt"))),
      PutB(Def(Do_("g", <<>>))), Put_(Do_("h", <<Add(N(1), Do_("g", <<>>))>>)), Set("z", Do_("h", <<N(0)>>)), Put_(V("z")),
      Put_(Do_("h", <<N(5)>>)), Put_(N(100))>>)

BadStatic == Prog(<<>>, <<>>, <<"o", "k">>, [k |-> Static("int", Div(N(1), N(0)))], <<>>, <<Put_(N(1))>>)
BadTable == Prog(<<>>, <<>>, <<"o", "w">>, [w |-> Static("output", Div(N(1), N(0)))], <<>>, <<Put_(N(1))>>)
NoResult == Prog(<<>>, <<>>, <<"o">>,
    [x |-> L1("int", StatExpr(1, "int", V("r"), Block(<<If(Less(N(1), N(0)), Result(1, V("r"), N(1)), Empty)>>))), r |-> L1("int", Nil)],
    <<"x", "r">>, <<Put_(N(1)), VarDecl("x"), Put_(N(2))>>)
SliceOfSlice == Prog(<<>>, <<>>, <<"o">>, [a |-> L1("array", Arr(<<N(1)>>))], <<"a">>,
    <<VarDecl("a"), Assignment(At_(Cut(V("a"), N(0), N(1)), N(0)), N(2))>>)

(* Functions that are never called, fields that are never read, and        *)
(* assertions.                                                             *)
Assert_(x, msg) == ExprStat(Call(Intrinsic("INTRINSIC", "assert", "void", TRUE, FALSE), <<x, msg>>))
FromBytes(list) == Conversion("tuple", Composite("bytes", list), <<>>, "Basic", "bytes2proto", "none")
Passes == Prog(
    ("f" :> Fun("$main", 2, "int", <<"p">>, <<"p", "f2">>, Block(<<VarDecl("f2"), Return(Add(V("p"), V("x")))>>))) @@
    ("f2" :> Fun("f", 3, "int", <<>>, <<>>, Return(V("p")))) @@
    ("g" :> Fun("$main", 2, "int", <<"q">>, <<"q">>, Return(Do_("h", <<V("q")>>)))) @@
    ("h" :> Fun("$main", 2, "int", <<"r">>, <<"r">>, Return(V("r")))) @@
    ("s" :> Fun("$main", 1, "int", <<"w">>, <<"w">>, Block(<<Assert_(Less(V("w"), N(5)), ToStr(V("w"))), Return(V("w"))>>))) @@
    ("st" :> Fun("$main", 1, "int", <<"v">>, <<"v">>, Return(V("v")))) @@
    ("i" :> Fun("$main", 2, "int", <<"e">>, <<"e">>, Return(Mul(V("e"), V("x"))))),
    <<"f2", "f", "g", "h", "s", "st", "i">>, <<"o", "s", "st", "k">>,
    [x |-> L1("int", N(3)), t |-> L1("tuple", FromBytes(<<N(5), N(6)>>)), u |-> L1("tuple", FromBytes(<<N(1), N(2), N(3)>>)),
     k |-> Static("int", Do_("s", <<N(4)>>)),
     f |-> FunVar("$main", 1, "f", "int"), f2 |-> FunVar("f", 2, "f2", "int"), g |-> FunVar("$main", 1, "g", "int"),
     h |-> FunVar("$main", 1, "h", "int"), s |-> FunVar("$main", 0, "s", "int"), st |-> FunVar("$main", 0, "st", "int"),
     i |-> FunVar("$main", 1, "i", "int"), z |-> [L1("function", V("i")) EXCEPT !.result = "int"],
     p |-> Param("f", 2, "int"), q |-> Param("g", 2, "int"), r |-> Param("h", 2, "int"), w |-> Param("s", 1, "int"),
     v |-> Param("st", 1, "int"), e |-> Param("i", 2, "int")],
    <<"x", "t", "u", "f", "g", "h", "i", "z">>,
    <<VarDecl("x"), VarDecl("h"), VarDecl("g"), VarDecl("f"), VarDecl("i"), VarDecl("z"), VarDecl("t"), VarDecl("u"),
      Put_(Call(V("z"), <<N(2)>>)), Set("z", V("f")), Put_(Call(V("z"), <<N(2)>>)), Put_(V("k")),
      Assignment(Fld(V("t"), 2), N(9)), Put_(Fld(V("t"), 1)), PutB(Def(V("u"))),
      Assert_(Less(V("x"), N(5)), ToStr(V("x"))), Assert_(Less(V("x"), N(1)), ToStr(V("x"))), Put_(N(1)),
      Assert_(Less(V("x"), N(1)), Str(<<1>>)), Put_(N(2)),
      Set("x", Do_("s", <<N(7)>>)), PutB(Def(V("x"))),
      Assignment(Fld(V("t"), 2), Div(N(1), N(0))), PutB(Def(V("t"))), Assignment(Fld(V("u"), 2), N(1))>>)

(* Values that are known at compile time: across branches, loops that are  *)
(* left early, calls and statement expressions that change them, def().    *)
Neg(x) == Equal(F, x)
Folding == Prog(
    ("f" :> Fun("$main", 2, "int", <<>>, <<>>, Block(<<Set("z", Add(V("z"), N(1))), If(Less(V("z"), N(3)), Return(V("z")), Return(N(8)))>>))) @@
    ("r" :> Fun("$main", 2, "int", <<"p">>, <<"p", "u">>, Block(<<If(Less(V("p"), N(1)), Return(V("u")), Empty), Return(N(6))>>))),
    <<"f", "r">>, <<"o">>,
    [x |-> L1("int", N(2)), y |-> L1("int", Add(V("x"), N(1))), n |-> L1("int", Nil), i |-> L1("int", Nil), z |-> L1("int", N(1)),
     w |-> L1("int", Nil), q |-> L1("int", N(4)), c |-> L1("int", Nil), cr |-> L1("int", Nil), s |-> L1("string", Str(<<1, 2>>)),
     tu |-> L1("tuple", Composite("tuple", <<N(1), N(2)>>)), f |-> FunVar("$main", 1, "f", "int"), r |-> FunVar("$main", 1, "r", "int"),
     p |-> Param("r", 2, "int"), u |-> Local("r", 2, "int", Nil), g1 |-> L1("int", Nil)],
    <<"x", "y", "n", "i", "z", "w", "q", "c", "cr", "s", "tu", "f", "r">>,
    <<VarDecl("x"), VarDecl("y"), VarDecl("n"), VarDecl("i"), VarDecl("z"), VarDecl("w"), VarDecl("q"), VarDecl("s"), VarDecl("tu"),
      VarDecl("f"), VarDecl("r"),
      If(Less(V("x"), V("y")), Set("n", V("x")), Set("n", V("y"))), Put_(Add(V("n"), N(1))),
      Loop(1, "WHILE", Nil, Less(V("n"), N(5)), Nil, Block(<<
          If(Equal(V("n"), N(4)), Block(<<Set("y", N(7)), Break(1, TRUE)>>), Empty), Increment(V("n"), 1), Set("y", V("n"))>>)),
      Put_(V("y")), Put_(Add(V("x"), N(1))),
      Loop(2, "FOR", Set("i", N(0)), Less(V("i"), N(3)), Increment(V("i"), 1), Block(<<
          If(Equal(V("i"), N(1)), Continue(2), Empty), Put_(V("x")), Set("x", Add(V("x"), V("i")))>>)), Put_(V("x")),
      Loop(3, "DO", Nil, Less(V("i"), N(5)), Nil, Block(<<Increment(V("i"), 1), If(Less(N(4), V("i")), Break(3, TRUE), Empty)>>)), Put_(V("i")),
      Put_(V("z")), ExprStat(Do_("f", <<>>)), Put_(V("z")), Put_(Add(Do_("f", <<>>), V("z"))),
      If(Neg(Def(V("w"))), Put_(N(40)), Put_(V("w"))), Set("w", N(5)), PutB(And(Def(V("w")), Less(V("w"), N(6)))),
      If(Def(V("w")), Put_(V("w")), Set("w", N(6))), Put_(V("w")), PutB(Or(Neg(Def(V("w"))), Equal(V("w"), N(5)))),
      Set("c", StatExpr(4, "int", V("cr"), Block(<<Set("q", Add(V("q"), N(1))), Result(4, V("cr"), V("q"))>>))), Put_(V("c")), Put_(V("q")),
      Put_(At_(V("s"), N(1))), Put_(Cut(V("s"), N(-1), N(1))), Put_(Length(V("s"))), Put_(Binary("string", V("s"), "ADD", "add_string", Str(<<3>>))),
      Put_(Cut(V("s"), N(0), Dollar(V("s"), Nil))), PutB(Binary("bool", V("s"), "EQL", "eql_string", Str(<<1, 2>>))),
      Put_(New("string", N(2), N(6))), Put_(New("bytes", N(9), N(6))), Put_(AddDay(N(3))), PutB(Def(AddDay(N(0)))),
      PutB(Def(At_(V("s"), N(2)))), PutB(Def(Div(N(4), N(2)))), PutB(Def(Fld(V("tu"), 1))), Put_(ToInt(ToStr(N(7)))), PutB(Def(ToInt(V("s")))),
      PutB(Def(Do_("r", <<N(0)>>))), Put_(Do_("r", <<N(1)>>)), PutB(Or(F, Less(V("q"), N(1)))), PutB(And(T, Less(N(1), V("q")))), PutB(Or(T, V("x")))>>)

(* A recursive function that hands the function nested in its first        *)
(* activation down to the last one, which calls it and its own.            *)
Closures == Prog(
    ("walk" :> Fun("$main", 2, "int", <<"k", "fn">>, <<"v", "pick", "k", "fn">>,
               Block(<<VarDecl("v"), VarDecl("pick"),
                       If(Less(N(1), V("k")), Return(Do_("walk", <<Sub(V("k"), N(1)), V("pick")>>)), Empty),
                       If(Less(N(0), V("k")), Return(Do_("walk", <<Sub(V("k"), N(1)), V("fn")>>)), Empty),
                       Return(Add(Mul(Call(V("fn"), <<>>), N(10)), Do_("pick", <<>>)))>>))) @@
    ("pick" :> Fun("walk", 3, "int", <<>>, <<>>, Block(<<Set("v", Add(V("v"), N(1))), Return(V("v"))>>))) @@
    ("none_" :> Fun("$main", 2, "int", <<>>, <<>>, Return(N(9)))),
    <<"pick", "walk", "none_">>, <<"o">>,
    [walk |-> FunVar("$main", 1, "walk", "int"), pick |-> FunVar("walk", 2, "pick", "int"),
     none_ |-> FunVar("$main", 1, "none_", "int"), v |-> Local("walk", 2, "int", V("k")),
     k |-> Param("walk", 2, "int"), fn |-> Param("walk", 2, "function")],
    <<"walk", "none_">>,
    <<VarDecl("walk"), VarDecl("none_"), Put_(Do_("walk", <<N(2), V("none_")>>)), Put_(Do_("walk", <<N(0), V("none_")>>))>>)

(* A function that is returned from the function whose variable it uses. *)
BadClosure == Prog(
    ("mk" :> Fun("$main", 2, "function", <<>>, <<"v", "h">>, Block(<<VarDecl("v"), VarDecl("h"), Return(V("h"))>>))) @@
    ("h" :> Fun("mk", 3, "int", <<>>, <<>>, Return(V("v")))),
    <<"h", "mk">>, <<"o">>,
    [mk |-> FunVar("$main", 1, "mk", "function"), h |-> FunVar("mk", 2, "h", "int"), v |-> Local("mk", 2, "int", N(1)),
     g |-> L1("function", Do_("mk", <<>>))],
    <<"mk", "g">>, <<VarDecl("mk"), VarDecl("g"), Put_(Do_("g", <<>>))>>)

(* Quantifiers over arrays, slices and maps. *)
Quant(kind, t) == [L1(t, Nil) EXCEPT !.quant = kind]
Some == Quant("SOME", "int")
Each_ == Quant("EACH", "int")
All == Quant("ALL", "int")
Pair(i, j) == Add(Mul(V(i), N(10)), V(j))
EqAt(a, i, b, j) == Equal(At_(V(a), V(i)), At_(V(b), V(j)))
WhenProg(decl, locals, body) == Prog(<<>>, <<>>, <<"o">>,
    [a |-> L1("array", Arr(<<N(3), N(1), N(4), N(1)>>)), b |-> L1("array", Arr(<<N(1), N(4)>>))] @@ decl,
    <<"a", "b">> \o locals, <<VarDecl("a"), VarDecl("b")>> \o body)
Whens == WhenProg(
    [s1 |-> Some, e1 |-> Each_, a1 |-> All, a2 |-> All, s2 |-> Some, e2 |-> Each_, s3 |-> Some, e3 |-> Each_],
    <<"s1", "e1", "a1", "a2", "s2", "e2", "s3", "e3">>,
    <<When(1, <<"s1">>, Equal(At_(V("a"), V("s1")), N(1)), Put_(V("s1"))),
      When(2, <<"e1">>, Equal(At_(V("a"), V("e1")), At_(V("a"), Add(V("e1"), N(2)))), Put_(V("e1"))),
      When(3, <<"a1">>, Less(At_(V("a"), V("a1")), N(9)), Put_(N(100))),
      When(4, <<"a2">>, Less(At_(V("a"), V("a2")), N(4)), Put_(N(101))),
      When(5, <<"s2">>, EqA(Cut(V("a"), V("s2"), N(4)), Arr(<<N(4), N(1)>>)),
          When(6, <<"e2">>, Less(At_(V("b"), V("e2")), At_(V("a"), V("s2"))), Put_(Pair("s2", "e2")))),
      When(7, <<>>, Less(N(1), N(2)), Put_(N(103))),
      When(8, <<"e3">>, Def(At_(V("a"), Add(V("e3"), Sub(At_(V("b"), V("e3")), N(2))))), Put_(V("e3")))>>)
WhenPairs == WhenProg(
    [s1 |-> Some, s2 |-> Some, s3 |-> Some, s4 |-> Some, e1 |-> Each_, e2 |-> Each_, e3 |-> Each_, e4 |-> Each_, e5 |-> Each_,
     a1 |-> All, a2 |-> All, a3 |-> All],
    <<"s1", "s2", "s3", "s4", "e1", "e2", "e3", "e4", "e5", "a1", "a2", "a3">>,
    <<When(1, <<"e1", "s1">>, EqAt("a", "e1", "b", "s1"), Put_(Pair("e1", "s1"))),
      When(2, <<"s2", "e2">>, EqAt("a", "s2", "b", "e2"), Put_(Pair("s2", "e2"))),
      When(3, <<"e3", "a1">>, Less(At_(V("b"), V("a1")), Add(At_(V("a"), V("e3")), N(1))), Put_(V("e3"))),
      When(4, <<"s3", "s4">>, EqAt("b", "s3", "a", "s4"), Put_(Pair("s3", "s4"))),
      When(5, <<"e4", "e5">>, EqAt("b", "e4", "a", "e5"), Put_(Pair("e4", "e5"))),
      When(6, <<"a2", "a3">>, Less(At_(V("a"), V("a2")), Add(At_(V("b"), V("a3")), N(9))), Put_(N(102)))>>)

WhenMaps == Prog(<<>>, <<>>, <<"o">>,
    [a |-> L1("map", Mp(<<N(5), N(10), N(2), N(20), N(4), N(10)>>)), b |-> L1("map", Mp(<<N(4), N(7), N(1), N(8)>>)),
     c |-> L1("map", Mp(<<>>)), k1 |-> Each_, k2 |-> Some, k3 |-> Each_, k4 |-> All, k5 |-> Some, k6 |-> Each_],
    <<"a", "b", "c", "k1", "k2", "k3", "k4", "k5", "k6">>,
    <<VarDecl("a"), VarDecl("b"), VarDecl("c"),
      When(1, <<"k1">>, Equal(LookUp(V("a"), V("k1")), N(10)), Put_(V("k1"))),
      When(2, <<"k2">>, Less(LookUp(V("b"), V("k2")), LookUp(V("a"), V("k2"))), Put_(V("k2"))),
      When(3, <<"k3">>, Or(Def(LookUp(V("a"), V("k3"))), Def(LookUp(V("b"), V("k3")))), Put_(V("k3"))),
      When(4, <<"k4">>, Less(LookUp(V("c"), V("k4")), N(1)), Put_(N(100))),
      When(5, <<"k5", "k6">>, Equal(LookUp(V("a"), V("k5")), Add(LookUp(V("b"), V("k6")), N(2))),
           Put_(Pair("k5", "k6")))>>)

(* A quantifier that no index constrains, an "all" that is not the last    *)
(* one, and an array that depends on a quantifier itself.                  *)
BadWhens == Prog(<<>>, <<>>, <<"o">>,
    [a |-> L1("array", Arr(<<N(3)>>)), c |-> L1("array2", Nil), s1 |-> Some, s2 |-> Some, s3 |-> Some, s4 |-> Some, a1 |-> All],
    <<"a", "c", "s1", "s2", "s3", "s4", "a1">>,
    <<When(1, <<"s1">>, Less(V("s1"), N(1)), Empty),
      When(2, <<"a1", "s2">>, EqAt("a", "a1", "a", "s2"), Empty),
      When(3, <<"s3", "s4">>, Less(At_(At_(V("c"), V("s3")), V("s4")), N(1)), Empty)>>)

MCPrograms == <<Control, Undefs, Functions, Arrays, Maps, Strings, Formats, BadStatic, BadTable, NoResult, SliceOfSlice, Passes, Folding, BadClosure,
               Whens, WhenPairs, WhenMaps, BadWhens, Closures>>
Options(debug, dead, unreturned, ignore, optimize) ==
    [debug |-> debug, eliminate_dead_code |-> dead, unreturned |-> unreturned, ignore_undefs |-> ignore,
     optimize |-> optimize]
MCFlags == {Options(TRUE, FALSE, FALSE, TRUE, FALSE), Options(FALSE, TRUE, TRUE, TRUE, TRUE),
            Options(TRUE, TRUE, FALSE, FALSE, FALSE), Options(FALSE, TRUE, FALSE, FALSE, TRUE)}

(* What the programs emit: the number of the table and the values, an      *)
(* array or a map by its length and its elements.  A program that fails    *)
(* does so after its output.  When undefined values are not ignored it     *)
(* fails after the first "stop" emits, unless that is -1.                  *)
Golden(failed, stop, out) == [rejected |-> FALSE, failed |-> failed, stop |-> stop, out |-> out]
MCExpected == <<
    (* Control *)
    Golden(FALSE, -1,
      << <<1, 0>>, <<1, 2>>, <<1, 0>>, <<1, 2>>, <<1, 1>>, <<1, 94>>, <<1, 55>> >>),
    (* Undefs *)
    Golden(FALSE, 4,
      << <<1, 0>>, <<1, 1>>, <<1, 0>>, <<1, 1>>, <<1, 0>>, <<1, 22>>, <<1, 20>>, <<1, 0>>,
      <<1, 99>> >>),
    (* Functions *)
    Golden(FALSE, 1,
      << <<1, 2>>, <<1, 0>>, <<1, 16>>, <<1, 7>>, <<1, 6>>, <<1, 70>>, <<1, 0>>, <<1, 43>> >>),
    (* Arrays *)
    Golden(FALSE, 12,
      << <<1, 3, 1, 7, 3>>, <<1, 3, 1, 2, 3>>, <<1, 3, 1, 7, 3>>,
      <<1, 3, 3, 1, 7, 5, 3, 1, 2, 3, 1, 9>>, <<1, 3>>, <<1, 6>>, <<1, 1, 10>>, <<1, 2, 4, 3>>,
      <<1, 3, 1, 2, 3>>, <<1, 2, 1, 7>>, <<1, 5, 1, 2, 3, 2, 3>>,
      <<1, 3, 2, 1, 8, 3, 1, 2, 6, 1, 10>>, <<1, 0>>, <<1, 0>>, <<1, 1>>,
      <<1, 5, 1, 7, 3, 3, 3>>, <<1, 0>>, <<1, 0>>, <<1, 0>>, <<1, 0>>,
      <<1, 2, 2, 3, 3, 2, 3, 3>>, <<1, 3, 1, 2, 3>> >>),
    (* Maps *)
    Golden(FALSE, 3,
      << <<1, 6, 1, 11, 2, 21, 3, 30>>, <<1, 4, 1, 11, 2, 20>>, <<1, 12>>, <<1, 0>>, <<1, 0>>,
      <<1, 1>>, <<1, 0>>, <<1, 2, 1, 1, 6>>, <<1, 1, 5>>, <<1, 0>>, <<1, 0>>, <<1, 2, 3, 2>>,
      <<1, 2, 1, 2>>, <<1, 3>>, <<1, 0>>, <<1, 1>>, <<1, 1>>, <<1, 1, 5>>, <<1, 1, 1, 3>>,
      <<1, 3>>, <<1, 0>>, <<1, 1>> >>),
    (* Strings *)
    Golden(FALSE, 1,
      << <<1, 0>>, <<1, 5, 5, 2, 3, 2, 4>>, <<1, 5, 1, 2, 3, 2, 4>>, <<1, 3>>, <<1, 1>>,
      <<1, 1, 0>>, <<1, 2, 2, 3>>, <<1, 5, 6, 2, 3, 2, 4>>, <<1, 2, 2, 0>>, <<1, 0>>, <<1, 1>>,
      <<1, 0>>, <<1, 0>>, <<1, 3, 6, 1, 2>>, <<1, 7, 1, 2, 1, 2, 3, 2, 4>>, <<1, 1>>, <<1, 2, 1, 2, 1, 2>>,
      <<1, 3, 3, 2, 4>>, <<1, 2, 1, 2, 1, 2>>, <<1, 0>>, <<1, 5, 1, 2, 3, 2, 4>>, <<1, 1, 8>>,
      <<1, 2, 3, 4>>, <<1, 0>>, <<1, 2, 3, 1, 5>>, <<1, 2, 6, 6>>, <<1, 1, 6>>, <<1, 1>> >>),
    (* Formats *)
    Golden(TRUE, 0,
      << <<1, 31>>, <<1, 0>>, <<1, 32>>, <<1, 3>>, <<2, 12, 1, 3>>, <<2, 1, 2, 3, 4>>, <<1, 1>>,
      <<1, 1>>, <<1, 2, 8, 8>>, <<1, 0>>, <<1, 0>>, <<1, 0>> >>),
    (* BadStatic *)
    Golden(TRUE, 0,
      <<>>),
    (* BadTable *)
    Golden(TRUE, 0,
      <<>>),
    (* NoResult *)
    Golden(TRUE, 1,
      << <<1, 1>> >>),
    (* SliceOfSlice *)
    [rejected |-> TRUE],
    (* Passes *)
    Golden(FALSE, 5,
      << <<1, 6>>, <<1, 5>>, <<1, 4>>, <<1, 5>>, <<1, 0>>, <<1, 1>>, <<1, 2>>, <<1, 1>>, <<1, 0>> >>),
    (* Folding *)
    Golden(FALSE, -1,
      << <<1, 3>>, <<1, 7>>, <<1, 3>>, <<1, 2>>, <<1, 2>>, <<1, 4>>, <<1, 5>>, <<1, 1>>, <<1, 2>>,
      <<1, 11>>, <<1, 40>>, <<1, 1>>, <<1, 5>>, <<1, 5>>, <<1, 1>>, <<1, 5>>, <<1, 5>>,
      <<1, 2>>, <<1, 1, 1>>, <<1, 2>>, <<1, 3, 1, 2, 3>>, <<1, 2, 1, 2>>, <<1, 1>>,
      <<1, 2, 6, 6>>, <<1, 9, 6, 6, 6, 6, 6, 6, 6, 6, 6>>, <<1, 3>>, <<1, 0>>, <<1, 0>>,
      <<1, 1>>, <<1, 1>>, <<1, 7>>, <<1, 0>>, <<1, 0>>, <<1, 6>>, <<1, 0>>, <<1, 1>>, <<1, 1>> >>),
    (* BadClosure *)
    [rejected |-> TRUE],
    (* Whens *)
    Golden(FALSE, -1,
      << <<1, 1>>, <<1, 1>>, <<1, 100>>, <<1, 20>>, <<1, 103>>, <<1, 1>> >>),
    (* WhenPairs *)
    Golden(FALSE, -1,
      << <<1, 10>>, <<1, 21>>, <<1, 30>>, <<1, 10>>, <<1, 2>>, <<1, 1>>, <<1, 1>>, <<1, 3>>,
      <<1, 12>>, <<1, 102>> >>),
    (* WhenMaps *)
    Golden(FALSE, -1,
      << <<1, 5>>, <<1, 4>>, <<1, 4>>, <<1, 1>>, <<1, 2>>, <<1, 4>>, <<1, 5>>, <<1, 100>>,
      <<1, 51>> >>),
    (* BadWhens *)
    [rejected |-> TRUE],
    (* Closures *)
    Golden(FALSE, -1,
      << <<1, 31>>, <<1, 91>> >>) >>

(* A conditional break out of a case: x is 2 behind it. *)
SwitchBreak == Prog(<<>>, <<>>, <<"o">>, [x |-> L1("int", N(1)), n |-> L1("int", Length(V("input")))], <<"x", "n">>,
    <<VarDecl("x"), VarDecl("n"),
      Switch(1, V("n"), <<Case(<<N(1)>>, Block(<<Set("x", N(2)), If(Less(V("n"), N(5)), Break(1, FALSE), Empty), Set("x", N(3))>>))>>,
             Set("x", N(3))),
      Put_(V("x"))>>)
MCSwitchBreak == <<SwitchBreak>>
MCSwitchBreakExpected == <<Golden(FALSE, -1, << <<1, 2>> >>)>>
MCFunctions == <<Functions>>
MCFunctionsExpected == <<MCExpected[3]>>

(* They emit what they mean. *)
Means(P_, ignore) == LET r == S!Meaning(P_, ignore) IN Outcome(r.out, r.failed)
ASSUME \A i \in DOMAIN MCPrograms, ignore \in BOOLEAN :
           ~MCExpected[i].rejected => Means(MCPrograms[i], ignore) = ExpectedOutcome(MCExpected[i], ignore)
ASSUME Means(SwitchBreak, FALSE) = ExpectedOutcome(MCSwitchBreakExpected[1], FALSE)
=============================================================================
