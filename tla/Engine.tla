------------------------------- MODULE Engine -------------------------------
(***************************************************************************)
(* The byte code interpreter (engine/engine.cc) running the code that      *)
(* CodeGen generated, with the trap handling of engine/proc.cc.            *)
(*                                                                         *)
(* The stack is a sequence that grows at its end.  A frame is the index    *)
(* fp of its variable 0; variable i is at fp - i and the frame header, one *)
(* cell, at fp + 1.  A cell holds a value: an int, a bool, a pointer into  *)
(* the heap, or NULL.  A heap object has a reference count and holds the   *)
(* elements of an array, a string or bytes, the fields of a tuple with the *)
(* set of its inproto bits, the keys and values of a map in turn, or the   *)
(* entry and the context of a closure.  A slice is an object of its own    *)
(* here; how slices share their elements is in Arrays.                     *)
(***************************************************************************)
EXTENDS CodeGen

CONSTANT StackSize      \* the number of cells of the stack

VARIABLE m              \* the state of the interpreter, see EngineInit

evars == <<cvars, m>>

NULL == <<"null", 0>>
IntVal(n) == <<"int", n>>
BoolVal(b) == <<"bool", b>>
Ptr(id) == <<"ptr", id>>
is_ptr(v) == v[1] = "ptr"
Header(dynamic_link, static_link, return_pc, act) ==
    <<"frame", dynamic_link, static_link, return_pc, act>>

-----------------------------------------------------------------------------
(* Heap objects *)

FreshId(heap) == CHOOSE id \in 1 .. Cardinality(DOMAIN heap) + 1 : id \notin DOMAIN heap
Object(kind, elems, bits) == [kind |-> kind, ref |-> 1, e |-> elems, bits |-> bits]
Allocate(heap, object) ==
    [id \in DOMAIN heap \cup {FreshId(heap)} |-> IF id \in DOMAIN heap THEN heap[id] ELSE object]

(* trap_info is the place of the error that a trap explains itself with,   *)
(* or 0; vinfo has, for every variable that a trap left undefined, the     *)
(* place of the error, or 0, and the variable to blame, where "none"       *)
(* stands for the result of a function; blames are the explanations given  *)
(* so far; fatal is what ends the program when an assertion fails, and     *)
(* emitter_error says that an emitter did.                                 *)
(*                                                                         *)
(* acts, a history that nothing in the interpreter reads, has an entry for *)
(* every call: the function and the activation that the function is nested *)
(* in, or 0.  outer is that activation for the function about to be        *)
(* entered, and in a closure the set bits holds it.                        *)
EngineInit ==
    [phase |-> "compile", stk |-> <<>>, fp |-> 0, bp |-> 0, gp |-> 0, pc |-> 0, return_pc |-> 0, cc |-> FALSE,
     heap |-> [id \in DOMAIN cg.lits |-> Object(cg.lits[id].t, cg.lits[id].e, {})],
     out |-> <<>>, status |-> "TERMINATED", initialized |-> FALSE, trap_info |-> 0,
     vinfo |-> [d \in DOMAIN P.decl \cup {"none"} |-> [message |-> 0, var |-> "none"]],
     blames |-> <<>>, fatal |-> {}, emitter_error |-> FALSE, acts |-> <<>>, outer |-> 0]

inc_ref(heap, v) == IF is_ptr(v) THEN [heap EXCEPT ![v[2]].ref = @ + 1] ELSE heap

(* Releasing the last reference deletes the object and releases what it    *)
(* refers to.                                                              *)
RECURSIVE dec_ref(_, _)
dec_ref(heap, v) ==
    IF ~is_ptr(v) THEN heap
    ELSE IF heap[v[2]].ref > 1 THEN [heap EXCEPT ![v[2]].ref = @ - 1]
    ELSE FoldLeft(dec_ref, [id \in DOMAIN heap \ {v[2]} |-> heap[id]], heap[v[2]].e)

inc_refs(heap, vs) == FoldLeft(inc_ref, heap, vs)
dec_refs(heap, vs) == FoldLeft(dec_ref, heap, vs)
is_unique(heap, v) == ~is_ptr(v) \/ heap[v[2]].ref = 1

(* Defect: the reference that the copy takes over is not released. *)
UniqDefect(heap, v) ==
    IF is_unique(heap, v) THEN <<heap, v>>
    ELSE LET o == heap[v[2]]
         IN  <<Allocate(inc_refs(heap, o.e), [o EXCEPT !.ref = 1]), Ptr(FreshId(heap))>>

(* The value itself when nobody else refers to it, else a copy of it,      *)
(* which takes over one of its references: the heap and the value.         *)
Uniq(heap, v) ==
    IF is_unique(heap, v) THEN <<heap, v>>
    ELSE LET o == heap[v[2]]
         IN  <<Allocate(dec_ref(inc_refs(heap, o.e), v), [o EXCEPT !.ref = 1]), Ptr(FreshId(heap))>>

(* What a value looks like from outside. *)
RECURSIVE Show(_, _)
Show(heap, v) ==
    IF ~is_ptr(v) THEN v
    ELSE LET o == heap[v[2]] IN <<o.kind, [i \in DOMAIN o.e |-> Show(heap, o.e[i])]>>

IsEqual(heap, x, y) ==
    IF is_ptr(x) /\ heap[x[2]].kind = "map"
    THEN LET pairs(v) == {<<Show(heap, heap[v[2]].e[2 * i - 1]), Show(heap, heap[v[2]].e[2 * i])>> :
                             i \in 1 .. Len(heap[v[2]].e) \div 2}
         IN  pairs(x) = pairs(y)
    ELSE Show(heap, x) = Show(heap, y)

-----------------------------------------------------------------------------
(* Executing instructions *)

Instr == cg.code[m.pc]
Running(opcodes) == m.status = "RUNNING" /\ Instr[1] \in opcodes

Top(i) == m.stk[Len(m.stk) - i + 1]
Popped(i) == SubSeq(m.stk, 1, Len(m.stk) - i)
Obj(v) == m.heap[v[2]]
entry_of(label) == cg.labels[label].pos

(* The instruction is done: the base pointer is reset to the frame. *)
Done(stk, heap) ==
    /\ m' = [m EXCEPT !.stk = stk, !.heap = heap, !.pc = @ + 1, !.bp = m.fp]
    /\ UNCHANGED cvars

(* The instruction traps, and leaves this on the stack; with an error      *)
(* message, or because a variable is undefined.                            *)
TrapInfo(stk, heap, info) ==
    /\ m' = [m EXCEPT !.stk = stk, !.heap = heap, !.pc = @ + 1, !.status = "TRAPPED",
                      !.trap_info = info]
    /\ UNCHANGED cvars
Trap(stk, heap) == TrapInfo(stk, heap, m.pc)
TrapUndefined == TrapInfo(m.stk, m.heap, 0)

Fail(why) ==
    /\ m' = [m EXCEPT !.status = "FAILED", !.fatal = @ \cup {why}]
    /\ UNCHANGED cvars

(* An error of an emitter ends the run, with no trap handled: what is left *)
(* on the stack goes with it.                                              *)
EmitterError(stk) ==
    /\ m' = [m EXCEPT !.status = "FAILED", !.trap_info = m.pc, !.pc = @ + 1, !.stk = stk,
                      !.emitter_error = TRUE]
    /\ UNCHANGED cvars

PushVal(v, heap) == Done(Append(m.stk, v), heap)

(* Replace the n operands, which are released, by the value v, to which    *)
(* the heap already has a reference.                                       *)
operands(n) == SubSeq(m.stk, Len(m.stk) - n + 1, Len(m.stk))
Replace(n, v, heap) == Done(Append(Popped(n), v), dec_refs(heap, operands(n)))
Consume(n, heap) == Done(Popped(n), dec_refs(heap, operands(n)))
TrapConsuming(n, heap) == Trap(Popped(n), dec_refs(heap, operands(n)))
New_(n, object) == Replace(n, Ptr(FreshId(m.heap)), Allocate(m.heap, object))

(* The frame delta static links away from fp. *)
RECURSIVE base(_, _, _)
base(stk, fp, delta) == IF delta = 0 THEN fp ELSE base(stk, stk[fp + 1][3], delta - 1)

var_at == m.bp - Instr[2]
Var == m.stk[var_at]

VerifySp ==
    /\ Running({"verify_sp"})
    /\ IF Len(m.stk) - (m.fp + 1) = Instr[2] THEN Done(m.stk, m.heap) ELSE Fail("sp misaligned")

-----------------------------------------------------------------------------
(* Loads.  The variants that end in "u" make the value unique in its place *)
(* before they push it, because it is about to be changed.                 *)

LoadV ==
    /\ Running({"loadV"})
    /\ IF Var = NULL THEN TrapUndefined ELSE PushVal(Var, inc_ref(m.heap, Var))

LoadVu ==
    /\ Running({"loadVu"})
    /\ IF Var = NULL THEN TrapUndefined
       ELSE \E u \in {Uniq(m.heap, Var)} :
               Done(Append([m.stk EXCEPT ![var_at] = u[2]], u[2]), inc_ref(u[1], u[2]))

Put(heap, v, i, x) == [heap EXCEPT ![v[2]].e[i] = x]

(* Replace the n operands by element i of v, which is one of them. *)
LoadElem(n, v, i) == Replace(n, Obj(v).e[i], inc_ref(m.heap, Obj(v).e[i]))
LoadElemU(n, v, i) ==
    \E u \in {Uniq(m.heap, Obj(v).e[i])} : Replace(n, u[2], inc_ref(Put(u[1], v, i, u[2]), u[2]))

in_range(v, i) == i >= 0 /\ i < Len(Obj(v).e)

FloadV == Running({"floadV"}) /\ LoadElem(1, Top(1), Instr[2])
FloadVu == Running({"floadVu"}) /\ LoadElemU(1, Top(1), Instr[2])

XloadV ==
    /\ Running({"xload8", "xloadR", "xloadV"})
    /\ IF in_range(Top(2), Top(1)[2]) THEN LoadElem(2, Top(2), Top(1)[2] + 1)
       ELSE TrapConsuming(2, m.heap)

XloadVu ==
    /\ Running({"xloadVu"})
    /\ IF in_range(Top(2), Top(1)[2]) THEN LoadElemU(2, Top(2), Top(1)[2] + 1)
       ELSE TrapConsuming(2, m.heap)

(* Maps: the key is replaced by its index, and the map stays on top. *)
key_index(v, key) ==
    LET found == {i \in 1 .. Len(Obj(v).e) \div 2 : Obj(v).e[2 * i - 1] = key}
    IN  IF found = {} THEN 0 ELSE CHOOSE i \in found : TRUE

MloadV ==
    /\ Running({"mloadV"})
    /\ \E i \in {key_index(Top(1), Top(2))} :
          IF i = 0 THEN TrapConsuming(2, m.heap)
          ELSE Done(Popped(2) \o <<IntVal(i), Top(1)>>, m.heap)

MindexV == Running({"mindexV"}) /\ LoadElem(2, Top(1), 2 * Top(2)[2])
MindexVu ==
    /\ Running({"mindexVu"})
    /\ IF Obj(Top(1)).ref # 2 THEN Fail("assert is_unique") ELSE LoadElemU(2, Top(1), 2 * Top(2)[2])

clamp(i, n) == IF i < 0 THEN 0 ELSE IF i > n THEN n ELSE i

SloadV ==
    /\ Running({"sload8", "sloadR", "sloadV"})
    /\ LET v == Obj(Top(3))
           beg == clamp(Top(2)[2], Len(v.e))
           end == clamp(Top(1)[2], Len(v.e))
           elems == SubSeq(v.e, beg + 1, end)
       IN  Replace(3, Ptr(FreshId(m.heap)),
                   Allocate(inc_refs(m.heap, elems), [v EXCEPT !.ref = 1, !.e = elems]))

-----------------------------------------------------------------------------
(* Stores.  The object changed is pushed by a load that made it unique:    *)
(* the variable and the stack refer to it, and nothing else.               *)

StoreV ==
    /\ Running({"storeV"})
    /\ Done([Popped(1) EXCEPT ![var_at] = Top(1)], dec_ref(m.heap, Var))

Undefine ==
    /\ Running({"undefine"})
    /\ Done([m.stk EXCEPT ![var_at] = NULL], dec_ref(m.heap, Var))

(* The emitter of a table is installed, if there is a factory for it; the  *)
(* factory may refuse the table, or its parameter be out of range.         *)
OpenO ==
    /\ Running({"openO"})
    /\ \E stk \in {[Popped(1) EXCEPT ![var_at] = IntVal(Instr[3])]} :
          Done(stk, m.heap) \/ EmitterError(stk)

(* Store the deepest of n operands into element i of v, one of the others. *)
StoreElem(n, v, i) ==
    IF Obj(v).ref # 2 THEN Fail("assert is_unique")
    ELSE Done(Popped(n), dec_refs(Put(m.heap, v, i, Top(n)), <<Obj(v).e[i]>> \o Tail(operands(n))))

FstoreV == Running({"fstoreV"}) /\ StoreElem(2, Top(1), Instr[2])

FsetB ==
    /\ Running({"fsetB"})
    /\ IF Obj(Top(1)).ref # 2 THEN Fail("assert is_unique")
       ELSE Done(m.stk, [m.heap EXCEPT ![Top(1)[2]].bits = @ \cup {Instr[2]}])

FclearB ==
    /\ Running({"fclearB"})
    /\ IF Obj(Top(1)).ref # 2 THEN Fail("assert is_unique")
       ELSE Consume(1, [m.heap EXCEPT ![Top(1)[2]].bits = @ \ {Instr[2]}])

FtestB == Running({"ftestB"}) /\ Replace(1, BoolVal(Instr[2] \in Obj(Top(1)).bits), m.heap)

(* An index that is out of range traps after the object was released, and  *)
(* leaves the value to be stored to the trap handler.                      *)
XstoreV ==
    /\ Running({"xstore8", "xstoreR", "xstoreV"})
    /\ CASE Obj(Top(2)).ref # 2 -> Fail("assert is_unique")
         [] Obj(Top(2)).ref = 2 /\ ~in_range(Top(2), Top(1)[2]) -> TrapConsuming(2, m.heap)
         [] OTHER -> IF Instr[1] = "xstoreR" /\ Top(3)[2] = 0 THEN TrapConsuming(3, m.heap)
                     ELSE StoreElem(3, Top(2), Top(1)[2] + 1)

MinsertV ==
    /\ Running({"minsertV"})
    /\ \E i \in {key_index(Top(1), Top(2))} :
       CASE Obj(Top(1)).ref # 2 -> Fail("assert is_unique")
         [] Obj(Top(1)).ref = 2 /\ i # 0 -> Done(Popped(2) \o <<IntVal(i), Top(1)>>, m.heap)
         [] OTHER -> Done(Popped(2) \o <<IntVal(Len(Obj(Top(1)).e) \div 2 + 1), Top(1)>>,
                          [m.heap EXCEPT ![Top(1)[2]].e = @ \o <<Top(2), NULL>>])

MstoreV == Running({"mstoreV"}) /\ StoreElem(3, Top(1), 2 * Top(2)[2])

(* A slice assigned to must be in range; what is assigned may be longer or *)
(* shorter.                                                                *)
SstoreV ==
    /\ Running({"sstoreV"})
    /\ LET a == Top(3)
           beg == Top(2)[2]
           end == Top(1)[2]
           x == Obj(Top(4)).e
       IN  CASE Obj(a).ref # 2 -> Fail("assert is_unique")
             [] Obj(a).ref = 2 /\ ~(0 <= beg /\ beg <= end /\ end <= Len(Obj(a).e)) ->
                  TrapConsuming(4, m.heap)
             [] OTHER ->
                  Consume(4, dec_refs([inc_refs(m.heap, x) EXCEPT ![a[2]].e =
                                         SubSeq(@, 1, beg) \o x \o SubSeq(@, end + 1, Len(@))],
                                      SubSeq(Obj(a).e, beg + 1, end)))

IncElem(n, v, i, delta) ==
    IF Obj(v).ref # 2 THEN Fail("assert is_unique")
    ELSE Consume(n, Put(m.heap, v, i, IntVal(Obj(v).e[i][2] + delta)))

Inc64 ==
    /\ Running({"inc64"})
    /\ IF Var = NULL THEN TrapUndefined
       ELSE Done([m.stk EXCEPT ![var_at] = IntVal(@[2] + Instr[3])], m.heap)

Finc64 == Running({"finc64"}) /\ IncElem(1, Top(1), Instr[2], Instr[3])

Xinc64 ==
    /\ Running({"xinc8", "xincR", "xinc64"})
    /\ IF in_range(Top(2), Top(1)[2]) THEN IncElem(2, Top(2), Top(1)[2] + 1, Instr[2])
       ELSE TrapConsuming(2, m.heap)

Minc64 == Running({"minc64"}) /\ IncElem(2, Top(1), 2 * Top(2)[2], Instr[2])

-----------------------------------------------------------------------------
(* Literals and new objects *)

PushV ==
    /\ Running({"push8", "pushV"})
    /\ \E v \in {IF Instr[1] = "push8" THEN IntVal(Instr[2]) ELSE <<Instr[2], Instr[3]>>} :
          PushVal(v, inc_ref(m.heap, v))

(* Elements are zero until they are initialized: a collection may happen   *)
(* in between.                                                             *)
Zeros(n) == [i \in 1 .. n |-> IntVal(0)]
CreateT == Running({"createT"}) /\ New_(0, Object("tuple", Zeros(Instr[2]), 1 .. Instr[2]))
CreateA == Running({"createA"}) /\ New_(0, Object("array", Zeros(Instr[2]), {}))
CreateM == Running({"createM"}) /\ New_(0, Object("map", <<>>, {}))

(* The next n elements from a place on. *)
InitElems(from, n) ==
    Done(Popped(n), [m.heap EXCEPT ![Top(n + 1)[2]].e =
                       [i \in DOMAIN @ |-> IF i \in from + 1 .. from + n THEN Top(i - from) ELSE @[i]]])
InitT == Running({"initT"}) /\ InitElems(Instr[2], Instr[3])
InitA == Running({"initA"}) /\ InitElems(Instr[2], Instr[3])

(* A key that is in the map already keeps its place; its value is replaced. *)
RECURSIVE init_map(_, _, _)
init_map(heap, v, pairs) ==
    IF pairs = <<>> THEN heap
    ELSE LET e == heap[v[2]].e
             same == {i \in 1 .. Len(e) \div 2 : e[2 * i - 1] = pairs[1]}
             rest == SubSeq(pairs, 3, Len(pairs))
         IN  IF same = {} THEN init_map([heap EXCEPT ![v[2]].e = @ \o SubSeq(pairs, 1, 2)], v, rest)
             ELSE LET i == 2 * (CHOOSE j \in same : TRUE)
                  IN  init_map(dec_ref([heap EXCEPT ![v[2]].e[i] = pairs[2]], e[i]), v, rest)

InitM ==
    /\ Running({"initM"})
    /\ LET n == Instr[3]
       IN  Done(Popped(n), init_map(m.heap, Top(n + 1), [i \in 1 .. n |-> Top(i)]))

NewElems(kind, n, init) ==
    LET elems == [i \in 1 .. n |-> init]
    IN  IF n < 0 THEN TrapConsuming(2, m.heap)
        ELSE Replace(2, Ptr(FreshId(m.heap)), Allocate(inc_refs(m.heap, elems), Object(kind, elems, {})))
NewA == Running({"newA"}) /\ NewElems("array", Top(1)[2], Top(2))
NewB == Running({"newB"}) /\ NewElems("bytes", Top(1)[2], Top(2))

NewM == Running({"newM"}) /\ New_(1, Object("map", <<>>, {}))

CreateB == Running({"createB"}) /\ New_(Instr[2], Object("bytes", [i \in 1 .. Instr[2] |-> Top(i)], {}))

(* A string is made of valid characters; zero stands for one that is not. *)
NewStr ==
    /\ Running({"newStr"})
    /\ IF Top(2)[2] = 0 THEN TrapConsuming(2, m.heap) ELSE NewElems("string", Top(1)[2], Top(2))

CreateStr ==
    /\ Running({"createStr"})
    /\ LET n == Instr[2]
           bad == {i \in 1 .. n : Top(i)[2] = 0}
       IN  IF bad # {} THEN Trap(Popped(CHOOSE i \in bad : \A j \in bad : i <= j), m.heap)
           ELSE New_(n, Object("string", [i \in 1 .. n |-> Top(i)], {}))

(* The function whose code an instruction belongs to; the function whose   *)
(* variables a function uses first; and the activation that is running,    *)
(* with the one that a function made or called by it is nested in.         *)
fun_at(pc) == LET here == {i \in DOMAIN cg.descs : cg.descs[i].begin <= pc /\ pc < cg.descs[i].end}
              IN  IF here = {} THEN "none" ELSE cg.descs[CHOOSE i \in here : TRUE].fun
context_of(f) ==
    IF f = "$main" \/ P.funs[f].context_level <= 0 THEN "none" ELSE Enclosing(P, f, P.funs[f].context_level)
act_of(fp) == IF fp <= m.gp THEN 0 ELSE m.stk[fp + 1][5]
RECURSIVE nested_in(_, _)
nested_in(act, f) ==
    IF act = 0 \/ f = "none" THEN 0 ELSE IF m.acts[act].fun = f THEN act ELSE nested_in(m.acts[act].outer, f)
outer_of(pc) == nested_in(act_of(m.fp), context_of(fun_at(pc)))

CreateC ==
    /\ Running({"createC"})
    /\ \E entry \in {entry_of(Instr[2])} :
          New_(0, Object("closure", <<IntVal(entry), IntVal(base(m.stk, m.fp, Instr[3]))>>, {outer_of(entry)}))

DupV == Running({"dupV"}) /\ PushVal(Top(1), inc_ref(m.heap, Top(1)))
PopV == Running({"popV"}) /\ Consume(1, m.heap)

-----------------------------------------------------------------------------
(* Operators, conversions and intrinsics *)

Arithmetic ==
    /\ Running({"add_int", "sub_int", "mul_int", "and_int", "shr_int"})
    /\ Replace(2, IntVal(CASE Instr[1] = "add_int" -> Top(2)[2] + Top(1)[2]
                           [] Instr[1] = "sub_int" -> Top(2)[2] - Top(1)[2]
                           [] Instr[1] = "mul_int" -> Top(2)[2] * Top(1)[2]
                           [] Instr[1] = "and_int" -> Top(2)[2] % (Top(1)[2] + 1)
                           [] Instr[1] = "shr_int" -> Top(2)[2] \div 2^Top(1)[2]), m.heap)

DivMod ==
    /\ Running({"div_int", "mod_int"})
    /\ LET x == Top(2)[2]
           y == Top(1)[2]
       IN  IF y = 0 THEN TrapConsuming(2, m.heap)
           ELSE Replace(2, IntVal(IF Instr[1] = "div_int" THEN quotient(x, y)
                                  ELSE x - y * quotient(x, y)), m.heap)

AddArray ==
    /\ Running({"add_array"})
    /\ \E elems \in {Obj(Top(2)).e \o Obj(Top(1)).e} :
          Replace(2, Ptr(FreshId(m.heap)), Allocate(inc_refs(m.heap, elems), Object("array", elems, {})))

(* Defect: the left operand is extended in its place. *)
AddStringDefect ==
    /\ Running({"add_string"})
    /\ Done(Popped(1), dec_ref([m.heap EXCEPT ![Top(2)[2]].e = @ \o Obj(Top(1)).e], Top(1)))
AddString ==
    /\ Running({"add_string"})
    /\ New_(2, Object(Obj(Top(2)).kind, Obj(Top(2)).e \o Obj(Top(1)).e, {}))

SetCCFrom(n, value) ==
    /\ m' = [m EXCEPT !.stk = Popped(n), !.heap = dec_refs(m.heap, operands(n)),
                      !.cc = value, !.pc = @ + 1, !.bp = m.fp]
    /\ UNCHANGED cvars

SetCc == Running({"set_cc"}) /\ SetCCFrom(1, Top(1)[2])
GetCc == Running({"get_cc"}) /\ PushVal(BoolVal(m.cc), m.heap)

CompareBits ==
    /\ Running({"eql_bits", "neq_bits", "lss_int"})
    /\ SetCCFrom(2, CASE Instr[1] = "lss_int" -> Top(2)[2] < Top(1)[2]
                      [] Instr[1] = "neq_bits" -> Top(2) # Top(1)
                      [] Instr[1] = "eql_bits" -> Top(2) = Top(1))

CompareObjects ==
    /\ Running({"eql_array", "eql_string", "eql_map", "eql_tuple", "eql_closure"})
    /\ SetCCFrom(2, IsEqual(m.heap, Top(2), Top(1)))

(* The digits are the characters 1 to 9; other strings are not integers.   *)
(* Bytes are the fields of a tuple in order; fields that nobody reads are  *)
(* skipped.                                                                *)
ConvertBasic(heap, conv, v) ==
    CASE conv = "int2str" -> <<Allocate(heap, Object("string", <<v>>, {})), Ptr(FreshId(heap))>>
      [] conv = "str2int" -> IF Len(heap[v[2]].e) = 1 /\ heap[v[2]].e[1][2] \in 1 .. 9
                             THEN <<heap, heap[v[2]].e[1]>> ELSE <<heap, NULL>>
      [] conv = "bytes2proto" ->
            LET e == heap[v[2]].e
                set == {i \in DOMAIN e : <<"tuple", i>> \in P.read}
            IN  IF Len(e) > 2 THEN <<heap, NULL>>
                ELSE <<Allocate(heap, Object("tuple", [i \in 1 .. 2 |-> IF i \in set THEN e[i] ELSE IntVal(0)], set)),
                       Ptr(FreshId(heap))>>
      [] OTHER -> <<inc_ref(heap, v), v>>

BasicConv ==
    /\ Running({"basicconv"})
    /\ \E r \in {ConvertBasic(m.heap, Instr[2], Top(1))} :
          IF r[2] = NULL THEN TrapConsuming(1, m.heap) ELSE Replace(1, r[2], r[1])

(* Convert the elements, from the first on, until one fails.  The result   *)
(* is the heap and the elements converted.                                 *)
RECURSIVE convert_elems(_, _, _)
convert_elems(heap, elems, convs) ==
    IF elems = <<>> THEN <<heap, <<>> >>
    ELSE LET r == ConvertBasic(heap, convs[1], elems[1])
         IN  IF r[2] = NULL THEN <<heap, <<>> >>
             ELSE LET rest == convert_elems(r[1], Tail(elems), Tail(convs))
                  IN  <<rest[1], <<r[2]>> \o rest[2]>>

(* An array converted element by element, or to a map whose keys are the   *)
(* elements in odd places.  The elements converted before one failed are   *)
(* released.                                                               *)
ArrayConv ==
    /\ Running({"arrayconv", "mapconv"})
    /\ \E elems \in {Obj(Top(1)).e} :
       LET to_map == Instr[1] = "mapconv"
           convs == [i \in DOMAIN elems |-> IF to_map /\ i % 2 = 0 THEN Instr[3] ELSE Instr[2]]
       IN  IF to_map /\ Len(elems) % 2 = 1 THEN TrapConsuming(1, m.heap)
           ELSE \E r \in {convert_elems(m.heap, elems, convs)} :
                   IF Len(r[2]) < Len(elems) THEN TrapConsuming(1, dec_refs(r[1], r[2]))
                   ELSE LET new == Allocate(r[1], Object(IF to_map THEN "map" ELSE "array", <<>>, {}))
                            v == Ptr(FreshId(r[1]))
                        IN  Replace(1, v, IF to_map THEN init_map(new, v, r[2])
                                          ELSE [new EXCEPT ![v[2]].e = r[2]])

CountOf(object) == IF object.kind = "map" THEN Len(object.e) \div 2 ELSE Len(object.e)
KeysOf(object) == {object.e[2 * i - 1] : i \in 1 .. Len(object.e) \div 2}

(* The intersection of n ranges, packed into one integer. *)
CombineRange(n) ==
    LET min == Max({0} \cup {Top(2 * i)[2] : i \in 1 .. n})
        max == Min({Top(2 * i + 1)[2] : i \in 1 .. n})
    IN  Replace(2 * n + 1, IntVal(max * 2^kHalfBits + min), m.heap)

(* Keys are ordered by their fingerprints, the keys themselves here. *)
CombineKeys(n) ==
    \E keys \in {UNION {KeysOf(Obj(Top(1 + i))) : i \in 1 .. n}} :
       New_(n + 1, Object("array", SortSeq(SetToSeq(keys), LAMBDA x, y : x[2] < y[2]), {}))

GetKeyByIndex == Replace(2, Obj(Top(1)).e[2 * Top(2)[2] + 1], m.heap)

szl_assert == IF Top(1) = BoolVal(FALSE) THEN TrapConsuming(2, m.heap) ELSE Consume(2, m.heap)

szl_sort == New_(2, Object("array", SortSeq(Obj(Top(1)).e, LAMBDA x, y : x[2] < y[2]), {}))

(* getenv stands for the intrinsics that fail, addday for those that fail  *)
(* for some arguments.                                                     *)
CallC ==
    /\ Running({"callc", "callcnf"})
    /\ CASE Instr[2] = "len" -> Replace(1, IntVal(CountOf(Obj(Top(1)))), m.heap)
         [] Instr[2] = "getenv" -> TrapConsuming(1, m.heap)
         [] Instr[2] = "addday" ->
              IF Top(1) = IntVal(0) THEN TrapConsuming(1, m.heap) ELSE Done(m.stk, m.heap)
         [] Instr[2] = "assert" -> szl_assert
         [] Instr[2] = "$combinerange" -> CombineRange(Top(1)[2])
         [] Instr[2] = "$combinekeys" -> CombineKeys(Top(1)[2])
         [] Instr[2] = "$getkeybyindex" -> GetKeyByIndex
         [] Instr[2] = "sort" -> szl_sort

(* A regular expression is one character here. *)
Match ==
    /\ Running({"match"})
    /\ Replace(2, BoolVal(\E i \in DOMAIN Obj(Top(2)).e : Obj(Top(2)).e[i] = Obj(Top(1)).e[1]), m.heap)

(* The first matches of the regular expressions, in turn, in the string:   *)
(* the matches and the rest of the string.                                 *)
RECURSIVE saw(_, _, _, _)
saw(str, regexes, skip, i) ==
    LET at == {p \in DOMAIN str : i <= Len(regexes) /\ str[p] = regexes[i]}
    IN  IF at = {} THEN <<<<>>, str>>
        ELSE LET p == CHOOSE p \in at : \A q \in at : p <= q
                 rest == saw(SubSeq(str, p + 1, Len(str)), regexes, skip, i + 1)
             IN  <<IF skip[i] THEN rest[1] ELSE <<str[p]>> \o rest[1], rest[2]>>

RECURSIVE new_strings(_, _)
new_strings(heap, chars) ==
    IF chars = <<>> THEN <<heap, <<>> >>
    ELSE LET rest == new_strings(Allocate(heap, Object("string", <<chars[1]>>, {})), Tail(chars))
         IN  <<rest[1], <<Ptr(FreshId(heap))>> \o rest[2]>>

SawV ==
    /\ Running({"saw"})
    /\ LET n == Instr[2]
           count == Top(1)[2]
           regex(i) == Obj(Top(1 + n + i)).e[1]
           each == [i \in 1 .. n * count |-> ((i - 1) % n) + 1]
           str == Top(2 * n + 2)
           result == Top(2 * n + 3)
       IN  \E r \in {saw(Obj(str).e, [i \in DOMAIN each |-> regex(each[i])],
                         [i \in DOMAIN each |-> Top(1 + each[i])[2] = 1], 1)} :
           \E s \in {new_strings(m.heap, r[1])} :
              IF Obj(result).ref # 1 THEN Fail("assert is_unique")
              ELSE Done(Popped(2 * n + 3) \o <<result, Ptr(FreshId(s[1]))>>,
                        dec_refs([Allocate(s[1], Object("string", r[2], {})) EXCEPT ![result[2]].e = @ \o s[2]],
                                 operands(2 * n + 2)))

-----------------------------------------------------------------------------
(* Control *)

Jump(pc) == m' = [m EXCEPT !.pc = pc, !.bp = m.fp] /\ UNCHANGED cvars

BranchOp ==
    /\ Running({"branch", "branch_true", "branch_false"})
    /\ LET taken == CASE Instr[1] = "branch" -> TRUE
                      [] Instr[1] = "branch_true" -> m.cc
                      [] OTHER -> ~m.cc
       IN  Jump(IF taken THEN entry_of(Instr[2]) ELSE m.pc + 1)

TrapFalse == Running({"trap_false"}) /\ IF m.cc THEN Done(m.stk, m.heap) ELSE Trap(m.stk, m.heap)

(* The frame of the callee: the arguments are on the stack already. *)
EnterOp ==
    /\ Running({"enter"})
    /\ LET n == Instr[2]
           fp == Len(m.stk) + n
       IN  IF fp + 1 + Instr[3] > StackSize THEN Fail("stack overflow")
           ELSE /\ m' = [m EXCEPT !.stk = @ \o [i \in 1 .. n |-> NULL] \o <<Header(m.fp, m.bp, m.return_pc, Len(m.acts) + 1)>>,
                                  !.fp = fp, !.bp = fp, !.return_pc = 0, !.pc = @ + 1,
                                  !.acts = Append(@, [fun |-> fun_at(m.pc), outer |-> m.outer]), !.outer = 0]
                /\ UNCHANGED cvars

SetBp ==
    /\ Running({"set_bp"})
    /\ m' = [m EXCEPT !.bp = base(m.stk, m.fp, Instr[2]), !.pc = @ + 1]
    /\ UNCHANGED cvars

CallI ==
    /\ Running({"calli"})
    /\ m' = [m EXCEPT !.return_pc = m.pc + 1, !.pc = entry_of(Instr[2]), !.outer = outer_of(entry_of(Instr[2]))]
    /\ UNCHANGED cvars

(* Defect: the function runs in the context of its caller. *)
CallVDefect ==
    /\ Running({"call"})
    /\ m' = [m EXCEPT !.stk = Popped(1), !.heap = dec_ref(@, Top(1)), !.return_pc = m.pc + 1,
                      !.pc = Obj(Top(1)).e[1][2], !.outer = Max(Obj(Top(1)).bits)]
    /\ UNCHANGED cvars
CallV ==
    /\ Running({"call"})
    /\ m' = [m EXCEPT !.stk = Popped(1), !.heap = dec_ref(@, Top(1)), !.return_pc = m.pc + 1,
                      !.bp = Obj(Top(1)).e[2][2], !.pc = Obj(Top(1)).e[1][2], !.outer = Max(Obj(Top(1)).bits)]
    /\ UNCHANGED cvars

(* Pop a frame and the first n of its variables, and push the results. *)
pop_frame(n, results, status) ==
    LET header == m.stk[m.fp + 1]
        keep == m.fp - n
    IN  IF Len(m.stk) - Len(results) # m.fp + 1 THEN Fail("assert sp == fp->stack()")
        ELSE /\ m' = [m EXCEPT !.stk = SubSeq(@, 1, keep) \o results,
                               !.heap = dec_refs(@, SubSeq(m.stk, keep + 1, m.fp)),
                               !.fp = header[2], !.bp = header[2], !.pc = header[4],
                               !.status = IF header[4] = 0 THEN "TERMINATED" ELSE status,
                               !.trap_info = 0]
             /\ UNCHANGED cvars

Ret == Running({"ret"}) /\ pop_frame(Instr[2], <<>>, "RUNNING")
RetV == Running({"retV"}) /\ pop_frame(Instr[2], <<Top(1)>>, "RUNNING")
(* An undefined result: the locals are left to the caller's trap handler. *)
RetU == Running({"retU"}) /\ pop_frame(0, <<>>, "TRAPPED")

Terminate ==
    /\ Running({"terminate"})
    /\ m' = [m EXCEPT !.status = "TERMINATED", !.pc = @ + 1]
    /\ UNCHANGED cvars

Stop ==
    /\ Running({"stop"})
    /\ m' = [m EXCEPT !.status = "FAILED", !.trap_info = m.pc, !.pc = @ + 1]
    /\ UNCHANGED cvars

(* The table, the indices, the value and the weight; or the emitter fails. *)
EmitV ==
    /\ Running({"emit"})
    /\ LET n == Instr[2]
           all == IF Instr[3] THEN n + 3 ELSE n + 2
       IN  \/ /\ m' = [m EXCEPT !.out = Append(@, [i \in 1 .. all |-> Show(m.heap, Top(i))]),
                                !.stk = Popped(all), !.heap = dec_refs(@, operands(all)),
                                !.pc = @ + 1, !.bp = m.fp]
              /\ UNCHANGED cvars
           \/ EmitterError(Popped(all))

-----------------------------------------------------------------------------
(* Traps *)

(* The trap ranges in the order of their begin offsets; ranges that begin  *)
(* at the same offset are in the order they were created in.               *)
TrapForInstr(offs) ==
    LET before == {t \in DOMAIN cg.traps : cg.traps[t].begin <= offs}
        follows(t, u) == \/ cg.traps[u].begin < cg.traps[t].begin
                         \/ cg.traps[u].begin = cg.traps[t].begin /\ u <= t
        contains(t) == t = 0 \/ (cg.traps[t].begin <= offs /\ offs < cg.traps[t].end)
        RECURSIVE enclosing(_)
        enclosing(t) == IF contains(t) THEN t ELSE enclosing(cg.traps[t].super)
    IN  IF before = {} THEN 0
        ELSE enclosing(CHOOSE t \in before : \A u \in before : follows(t, u))

(* The variable found undefined at an instruction of a trap range. *)
checked(desc, offs) == {site \in desc.sites : site[1] = offs}

(* What is known about the undefined variables after a trap: a variable    *)
(* that is checked and unexplained is to blame itself, and its explanation *)
(* is copied to the variable that is left undefined.  An error gives its   *)
(* place to that variable.                                                 *)
target_var(desc) == IF desc.var # "none" THEN {desc.var} ELSE IF desc.silent THEN {"none"} ELSE {}

Blamed(desc, offs) ==
    [d \in DOMAIN m.vinfo |->
        IF m.vinfo[d].message = 0 /\ m.vinfo[d].var = "none" /\ <<offs, d>> \in desc.sites
        THEN [m.vinfo[d] EXCEPT !.var = d] ELSE m.vinfo[d]]
Explained(desc, offs) ==
    LET info == Blamed(desc, offs)
    IN  [d \in DOMAIN info |->
            IF d \notin target_var(desc) THEN info[d]
            ELSE IF checked(desc, offs) = {} THEN [message |-> m.trap_info, var |-> "none"]
            ELSE info[(CHOOSE s \in checked(desc, offs) : TRUE)[2]]]

(* The explanation that a trap reports: the error, the variable that was   *)
(* never defined, or the error that left the variable undefined.           *)
Explanation(desc, offs) ==
    IF m.trap_info # 0 THEN <<"error", "none", m.trap_info>>
    ELSE LET d == (CHOOSE s \in checked(desc, offs) : TRUE)[2]
             info == Explained(desc, offs)[d]
         IN  IF info.message # 0 THEN <<"because of", d, info.message>>
             ELSE IF info.var = d THEN <<"not defined", d, 0>> ELSE <<"copied from", info.var, 0>>

(* The variable of the trap range becomes undefined, the operands that are *)
(* left on the stack are released, and execution continues at the target.  *)
HandleTrap ==
    /\ m.status = "TRAPPED"
    /\ \E t \in {TrapForInstr(m.pc - 1)} :
       IF t = 0 THEN Fail("no trap handler")
       ELSE LET desc == cg.traps[t]
                offs == m.pc - 1
                var == IF desc.index = 0 THEN 0 ELSE base(m.stk, m.fp, desc.delta) - desc.index
                undefined == IF var = 0 THEN m.stk ELSE [m.stk EXCEPT ![var] = NULL]
                new_sp == m.fp + 1 + desc.h
                fatal == ~desc.silent /\ ~(m.initialized /\ flags.ignore_undefs)
            IN  CASE Len(m.stk) < new_sp -> Fail("assert cur_sp <= new_sp")
                  [] m.trap_info = 0 /\ checked(desc, offs) = {} -> Fail("assert trap_info_ != NULL")
                  [] ~desc.silent /\ m.trap_info = 0 /\ Explanation(desc, offs) = <<"not defined", "none", 0>> ->
                       Fail("name of no variable")
                  [] OTHER ->
                     /\ m' = [m EXCEPT
                           !.stk = SubSeq(undefined, 1, new_sp),
                           !.heap = dec_refs(IF var = 0 THEN @ ELSE dec_ref(@, m.stk[var]),
                                             SubSeq(undefined, new_sp + 1, Len(undefined))),
                           !.pc = desc.target, !.bp = m.fp, !.return_pc = 0,
                           !.vinfo = Explained(desc, offs),
                           !.blames = IF desc.silent THEN @ ELSE Append(@, Explanation(desc, offs)),
                           !.trap_info = 0,
                           !.status = IF fatal THEN "FAILED" ELSE "RUNNING"]
                     /\ UNCHANGED cvars

-----------------------------------------------------------------------------
(* The phases of the program: compilation, initialization, one run. *)

SetupInitialization ==
    /\ todo = <<>> /\ cg.errors = 0 /\ m.phase = "compile"
    /\ m' = [EngineInit EXCEPT !.phase = "init", !.pc = Last(cg.descs).begin, !.gp = statics_size,
                               !.status = "RUNNING"]
    /\ UNCHANGED cvars

SetupRun ==
    /\ m.phase = "init" /\ m.status = "TERMINATED"
    /\ \E heap \in {Allocate(m.heap, Object("bytes", P.key, {}))} :
          m' = [m EXCEPT !.phase = "run", !.initialized = TRUE, !.status = "RUNNING",
                         !.stk = SubSeq(@, 1, m.gp + 1) \o <<Ptr(FreshId(m.heap)), Ptr(FreshId(heap))>>,
                         !.heap = Allocate(heap, Object("bytes", P.input, {})),
                         !.fp = m.gp, !.bp = m.gp, !.pc = entry_of(cg.entry["$main"])]
    /\ UNCHANGED cvars

Stopped ==
    \/ todo = <<>> /\ cg.errors # 0
    \/ m.phase # "compile" /\ m.status = "FAILED"
    \/ m.phase = "run" /\ m.status = "TERMINATED"

EngineStep ==
    \/ VerifySp \/ LoadV \/ LoadVu \/ FloadV \/ FloadVu \/ XloadV \/ XloadVu \/ MloadV
    \/ MindexV \/ MindexVu \/ SloadV \/ StoreV \/ Undefine \/ OpenO \/ FstoreV \/ FsetB \/ FclearB
    \/ FtestB \/ XstoreV \/ MinsertV \/ MstoreV \/ SstoreV \/ Inc64 \/ Finc64 \/ Xinc64 \/ Minc64
    \/ PushV \/ CreateT \/ CreateA \/ CreateM \/ InitT \/ InitA \/ InitM \/ NewA \/ NewB \/ NewStr \/ NewM
    \/ CreateB \/ CreateStr \/ CreateC \/ DupV \/ PopV \/ Arithmetic \/ DivMod \/ AddArray \/ AddString
    \/ SetCc
    \/ GetCc \/ CompareBits \/ CompareObjects \/ BasicConv \/ ArrayConv
    \/ CallC \/ Match \/ SawV \/ BranchOp \/ TrapFalse \/ EnterOp \/ SetBp \/ CallI \/ CallV
    \/ Ret \/ RetV \/ RetU \/ Terminate \/ Stop \/ EmitV \/ HandleTrap
    \/ SetupInitialization \/ SetupRun
=============================================================================
