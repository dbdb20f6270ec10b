------------------------------- MODULE Strings -------------------------------
(***************************************************************************)
(* String values: StringVal, OffsetMap and StringForm (src/src/engine/     *)
(* val.cc, form.cc) under the instructions that use them (engine.cc).  A   *)
(* string is a sequence of runes of one or more bytes.  It owns its bytes, *)
(* or it is a slice of the bytes of another string; an OffsetMap remembers *)
(* the byte offset of the rune that was looked for last.                   *)
(*                                                                         *)
(* An action is a statement of the program.                                *)
(***************************************************************************)
EXTENDS Integers, Sequences, FiniteSets, FiniteSetsExt, SequencesExt

CONSTANTS
  Vars,      \* the variables of the program
  Elems,     \* the runes
  Width,     \* the number of bytes of a rune
  Lits,      \* the literals of the program: sequences of runes
  Undef,     \* an undefined variable; also a byte that was never written
  SliceInfo, \* the bytes that SliceInfo takes
  Slop,      \* the bytes that AmountToAllocate adds
  MaxLength, \* bound: runes of a string
  MaxObjs,   \* bound: strings allocated at a time
  MaxSteps   \* bound: statements of the program

VARIABLES
  mem, \* the StringVals
  var, \* the string in each variable
  past, \* the slice whose store failed an assertion, if the program is dead
  step, \* the statements that have been executed
  val   \* what the program should see

vars == <<mem, var, past, step, val>>

Seen == INSTANCE ValueVars

-----------------------------------------------------------------------------
(* Bytes: a rune r is the bytes <<r, 1>> .. <<r, Width[r]>>.               *)

Encode(s) == FlattenSeq([i \in DOMAIN s |-> [k \in 1..Width[s[i]] |-> <<s[i], k>>]])
is_first(byte) == byte[2] = 1
Decode(b) == LET firsts == SelectSeq(b, is_first) IN [i \in DOMAIN firsts |-> firsts[i][1]]

\* b with t written over it from offset n on
memmove(b, n, t) == [i \in DOMAIN b |-> IF i \in n + 1..n + Len(t) THEN t[i - n] ELSE b[i]]

-----------------------------------------------------------------------------
(* StringVal.  m is the memory, o a string in it.                          *)

ReadOnly == 1000
NoMap == <<"NULL">>
ASCIIMap == <<"ASCII">>
ResetMap == <<0, 0>>

Objs == 1..MaxObjs
Free == [ref |-> 0, size |-> 0, array |-> Undef, origin |-> 0, length |-> 0, runes |-> 0,
         map |-> NoMap, bytes |-> <<>>]
Live(m) == {o \in Objs : m[o] # Free}

is_readonly(m, o) == m[o].ref > ReadOnly \div 2
is_slice(m, o) == m[o].size < 0
array(m, o) == IF is_slice(m, o) THEN m[o].array ELSE o
origin(m, o) == IF is_slice(m, o) THEN m[o].origin ELSE 0
bytes(m, o) == SubSeq(m[array(m, o)].bytes, origin(m, o) + 1, origin(m, o) + m[o].length)
Content(m, o) == Decode(bytes(m, o))
legal_index(m, o, i) == 0 <= i /\ i < m[o].length

\* Defect: the count of the string that owns the bytes is not looked at.
is_unique_defect(m, o) == m[o].ref = 1
is_unique(m, o) == m[o].ref = 1 /\ m[array(m, o)].ref = 1
inc_ref(m, o) == [m EXCEPT ![o].ref = @ + 1]
\* An unused string that owns its bytes is gone at once: nobody can tell when
\* it is deleted.  An unused slice holds its owner until it is collected.
dec_ref(m, o) ==
  IF o = Undef THEN m
  ELSE IF m[o].ref = 1 /\ ~is_slice(m, o) THEN [m EXCEPT ![o] = Free]
  ELSE [m EXCEPT ![o].ref = @ - 1]

Fresh(m) == Min({o \in Objs : m[o] = Free})

\* Defect: a map that is allocated is kept as it is.
MapAfterDefect(map, length, runes) ==
  IF length = runes THEN ASCIIMap ELSE IF map = ASCIIMap THEN NoMap ELSE map
\* what SetRange makes of a map
MapAfter(map, length, runes) ==
  IF length = runes THEN ASCIIMap
  ELSE IF map \in {ASCIIMap, NoMap} THEN NoMap ELSE ResetMap

SetRange(m, o, org, length, runes) ==
  [m EXCEPT ![o].origin = org, ![o].length = length, ![o].runes = runes,
            ![o].map = MapAfter(@, length, runes)]

forward_utf8(b, p, delta) ==
  LET starts == {q \in p + 1..Len(b) - 1 : is_first(b[q + 1])}
  IN  CHOOSE q \in starts \cup {p} : Cardinality({s \in starts : s <= q}) = delta
backward_utf8(b, p, delta) ==
  LET starts == {q \in 0..p - 1 : is_first(b[q + 1])}
  IN  CHOOSE q \in starts \cup {p} : Cardinality({s \in starts : s >= q}) = delta

\* OffsetMap::byte_offset for the rune i, 0 < i < the number of runes: the
\* scan starts at the nearest of the beginning, the remembered rune, the end
ScanOffset(b, runes, map, i) ==
  LET d == i - map[1]
  IN  CASE d < 0 /\ i < -d -> forward_utf8(b, 0, i)
        [] d < 0 /\ i >= -d -> backward_utf8(b, map[2], -d)
        [] d >= 0 /\ d < runes - i -> forward_utf8(b, map[2], d)
        [] OTHER -> backward_utf8(b, Len(b), runes - i)

\* StringVal::byte_offset: the offset of rune i, and the memory afterwards
in_scan(m, o, i) == 0 < i /\ i < m[o].runes
Mapped(m, o) ==
  IF m[o].map = NoMap THEN [m EXCEPT ![o].map = ResetMap] ELSE m
byte_offset(m, o, i) ==
  IF m[o].map = ASCIIMap \/ i <= 0 THEN i
  ELSE IF i >= m[o].runes THEN m[o].length + (i - m[o].runes)
  ELSE ScanOffset(bytes(m, o), m[o].runes, Mapped(m, o)[o].map, i)
Sought(m, o, i) ==
  IF m[o].map = ASCIIMap THEN m
  ELSE IF in_scan(m, o, i) THEN [m EXCEPT ![o].map = <<i, byte_offset(m, o, i)>>]
  ELSE Mapped(m, o)

-----------------------------------------------------------------------------
(* StringForm.                                                             *)

AmountToAllocate(length) == Max({length + Slop, SliceInfo})
Blank(n) == [i \in 1..n |-> <<Undef, 1>>]

\* NewVal filled with the bytes b, at Fresh(m)
NewVal(m, b, runes) ==
  LET size == AmountToAllocate(Len(b))
  IN  [m EXCEPT ![Fresh(m)] =
            [ref |-> 1, size |-> size, array |-> Undef, origin |-> 0, length |-> Len(b),
             runes |-> runes, map |-> MapAfter(NoMap, Len(b), runes),
             bytes |-> memmove(Blank(size), 0, b)]]

\* NewSlice: o itself if it is a slice that nobody else refers to, or Fresh(m)
SliceInPlace(m, o) == is_slice(m, o) /\ m[o].ref = 1
SliceResult(m, o) == IF SliceInPlace(m, o) THEN o ELSE Fresh(m)
NewSlice(m, o, org, length, runes) ==
  IF SliceInPlace(m, o) THEN SetRange(m, o, origin(m, o) + org, length, runes)
  ELSE LET n == [m EXCEPT ![Fresh(m)] =
                      [ref |-> 1, size |-> -1, array |-> array(m, o),
                       origin |-> origin(m, o) + org, length |-> length, runes |-> runes,
                       map |-> MapAfter(NoMap, length, runes), bytes |-> <<>>]]
       IN  dec_ref(inc_ref(n, array(m, o)), o)

\* Uniq: o itself, or a copy of it at Fresh(m)
UniqResult(m, o) == IF is_unique(m, o) THEN o ELSE Fresh(m)
Uniq(m, o) == IF is_unique(m, o) THEN m ELSE dec_ref(NewVal(m, bytes(m, o), m[o].runes), o)

-----------------------------------------------------------------------------
(* StringVal::PutSliceImpl: t, of runes runes, over size bytes from offset *)
(* off on that hold old runes.                                             *)

WriteAt(m, o, off, t) == [m EXCEPT ![array(m, o)].bytes = memmove(@, origin(m, o) + off, t)]

\* the suffix is moved within the bytes of the owner
PutHere(m, o, off, size, t, runes) ==
  LET suffix == SubSeq(bytes(m, o), off + size + 1, m[o].length)
      g == WriteAt(m, o, off, t \o suffix)
  IN  SetRange(g, o, origin(m, o), m[o].length + Len(t) - size, runes)

\* the string becomes a slice, at origin 0, of owner a
Redirect(m, o, a, b, runes) ==
  LET old == IF is_slice(m, o) /\ m[o].array # a THEN dec_ref(m, m[o].array) ELSE m
  IN  SetRange([old EXCEPT ![o].size = -1, ![o].array = a, ![o].bytes = <<>>,
                           ![a].bytes = memmove(@, 0, b)], o, 0, Len(b), runes)

avail_size(m, o) == IF is_slice(m, o) THEN m[m[o].array].size - m[o].origin ELSE m[o].size
at_base(m, o, n) == is_slice(m, o) /\ n <= m[m[o].array].size

PutSliceImpl(m, o, off, size, old, t, new) ==
  LET runes == m[o].runes + new - old
      length == m[o].length + Len(t) - size
      b == SubSeq(bytes(m, o), 1, off) \o t \o SubSeq(bytes(m, o), off + size + 1, m[o].length)
  IN  IF size = Len(t)
      THEN IF size = 1 \/ (old = 1 /\ new = 1) THEN WriteAt(m, o, off, t)
           ELSE SetRange(WriteAt(m, o, off, t), o, origin(m, o), m[o].length, runes)
      ELSE IF length <= avail_size(m, o) THEN PutHere(m, o, off, size, t, runes)
      ELSE IF at_base(m, o, length) THEN Redirect(m, o, m[o].array, b, runes)
      ELSE Redirect(NewVal(m, b, runes), o, Fresh(m), b, runes)

\* StringVal::put
put(m, o, off, r) ==
  LET old == bytes(m, o)[off + 1][1]
  IN  PutSliceImpl(m, o, off, Width[old], 1, Encode(<<r>>), 1)

-----------------------------------------------------------------------------
(* Statements, as the instructions the code generator makes of them.       *)

Room(m) == Live(m) # Objs
\* within its bytes, a string can hold length bytes
Stays(m, o, length) == length <= avail_size(m, o) \/ at_base(m, o, length)

Init ==
  /\ \E lits \in {SetToSeq(Lits)} :
       mem = [i \in Objs |-> IF i > Len(lits) THEN Free ELSE
               LET b == Encode(lits[i]) IN
               [ref |-> ReadOnly, size |-> AmountToAllocate(Len(b)), array |-> Undef,
                origin |-> 0, length |-> Len(b), runes |-> Len(lits[i]),
                map |-> IF Len(b) = Len(lits[i]) THEN ASCIIMap ELSE ResetMap,
                bytes |-> memmove(Blank(AmountToAllocate(Len(b))), 0, b)]]
  /\ var = [x \in Vars |-> Undef] /\ past = {} /\ step = 0 /\ Seen!Init

\* The memory and the variables after a statement.  What no string reads is
\* forgotten: bytes outside of all strings, and the range of an owner that
\* only slices refer to.
Forget(m, held) ==
  [o \in Objs |->
    IF m[o] = Free \/ is_slice(m, o) \/ is_readonly(m, o) THEN m[o]
    ELSE LET read == {p \in Objs : is_slice(m, p) /\ m[p].array = o} \cup ({o} \cap held)
             kept == [i \in DOMAIN m[o].bytes |->
                        IF \E p \in read : i \in origin(m, p) + 1..origin(m, p) + m[p].length
                        THEN m[o].bytes[i] ELSE <<Undef, 1>>]
         IN  IF o \in held THEN [m[o] EXCEPT !.bytes = kept]
             ELSE [m[o] EXCEPT !.bytes = kept, !.length = 0, !.runes = 0, !.map = ASCIIMap]]
Done(m, vr) == mem' = Forget(m, {vr[x] : x \in Vars}) /\ var' = vr

\* storeV of o
Set(m, x, o) == Done(dec_ref(m, var[x]), [var EXCEPT ![x] = o]) /\ UNCHANGED past

\* x = y: loadV and storeV
Assign(x, y) == var[y] # Undef /\ Set(inc_ref(mem, var[y]), x, var[y])

\* x = literal: pushV and storeV
AssignLit(x, o) == is_readonly(mem, o) /\ Set(inc_ref(mem, o), x, o)

\* x = a string that an intrinsic or a conversion makes: Factory::NewString
NewString(x, s) == Room(mem) /\ Set(NewVal(mem, Encode(s), Len(s)), x, Fresh(mem))

\* sloadR: intersect_slice, byte_offset twice, and NewSlice
sloadR(m, o, beg, end) ==
  LET b0 == Max({beg, 0})
      e0 == Min({end, m[o].runes})
      b == IF b0 > e0 THEN 0 ELSE b0
      e == IF b0 > e0 THEN 0 ELSE e0
      g == Sought(m, o, b)
      off == byte_offset(m, o, b)
  IN  NewSlice(Sought(g, o, e), o, off, byte_offset(g, o, e) - off, e - b)

\* x = y[b:e], or a slice of that: loadV, sloadR, storeV
AssignSlice(x, y, b, e) ==
  /\ var[y] # Undef /\ Room(mem)
  /\ Set(sloadR(inc_ref(mem, var[y]), var[y], b, e), x, Fresh(mem))
AssignSliceOfSlice(x, y, b, c) ==
  /\ var[y] # Undef /\ Room(mem)
  /\ \E g \in {sloadR(inc_ref(mem, var[y]), var[y], b, MaxLength)} :
       Set(sloadR(g, Fresh(mem), c, MaxLength), x, Fresh(mem))

\* x = y + z
add_string(x, y, z) ==
  /\ var[y] # Undef /\ var[z] # Undef /\ Room(mem)
  /\ mem[var[y]].runes + mem[var[z]].runes <= MaxLength
  /\ Set(NewVal(mem, bytes(mem, var[y]) \o bytes(mem, var[z]),
                mem[var[y]].runes + mem[var[z]].runes), x, Fresh(mem))

undefine(x) == var[x] # Undef /\ Set(mem, x, Undef)

\* y = x[i] for some other y: xloadR
xloadR(x, i) ==
  /\ var[x] # Undef
  /\ mem' = Sought(mem, var[x], i) /\ UNCHANGED <<var, past>>

\* x[i] = r: loadVu and xstoreR; an index out of range is a trap, and x is
\* undefined
xstoreR(x, i, r) ==
  /\ var[x] # Undef /\ (is_unique(mem, var[x]) \/ Room(mem))
  /\ \E o \in {UniqResult(mem, var[x])}, u \in {Uniq(mem, var[x])} :
       LET g == Sought(u, o, i)
           off == byte_offset(u, o, i)
           legal == legal_index(u, o, off)
       IN  /\ Room(u) \/ ~legal \/ Stays(u, o, u[o].length + Width[r])
           /\ Done(IF legal THEN put(g, o, off, r) ELSE dec_ref(g, o),
                   [var EXCEPT ![x] = IF legal THEN o ELSE Undef])
           /\ UNCHANGED past

\* x[beg:end] = y: loadV, loadVu and sstoreV.  Engine::DoSlice compares the
\* end, an index of a rune, with length(), a number of bytes; then
\* StringVal::PutSlice, and the two assertions of PutSliceImpl on the slice.
\* A failed assertion ends the program.
sstoreV(x, beg, end, y) ==
  /\ var[x] # Undef /\ var[y] # Undef
  /\ \E l \in {inc_ref(mem, var[y])} :
       /\ is_unique(l, var[x]) \/ Room(l)
       /\ \E o \in {UniqResult(l, var[x])}, u \in {Uniq(l, var[x])} :
            LET src == var[y]
                trap == beg < 0 \/ end > u[o].length \/ beg > end
                g == Sought(u, o, beg)
                off == byte_offset(u, o, beg)
                size == byte_offset(g, o, end) - off
                legal == /\ off = 0 \/ legal_index(u, o, off - 1)
                         /\ size = 0 \/ legal_index(u, o, off + size - 1)
            IN  /\ Room(u) \/ trap \/ ~legal \/ Stays(u, o, u[o].length + u[src].length - size)
                /\ trap \/ u[o].runes + u[src].runes <= MaxLength + (end - beg)
                /\ \/ /\ trap /\ UNCHANGED past
                      /\ Done(dec_ref(dec_ref(u, src), o), [var EXCEPT ![x] = Undef])
                   \/ /\ ~trap /\ legal /\ UNCHANGED past
                      /\ Done(dec_ref(PutSliceImpl(Sought(g, o, end), o, off, size, end - beg,
                                                   bytes(u, src), u[src].runes), src),
                              [var EXCEPT ![x] = o])
                   \/ /\ ~trap /\ ~legal /\ UNCHANGED <<mem, var>>
                      /\ past' = {[end |-> end, runes |-> u[o].runes, length |-> u[o].length]}

\* StringForm::Delete of the slices that nobody refers to
Collect ==
  /\ \E unused \in {{o \in Live(mem) : mem[o].ref = 0}} :
       /\ unused # {}
       /\ Done(FoldLeft(LAMBDA m, o : dec_ref([m EXCEPT ![o] = Free], mem[o].array),
                        mem, SetToSeq(unused)), var)
  /\ UNCHANGED past

Indices == -1..MaxLength + 1
Statement ==
  \/ \E x, y \in Vars : Assign(x, y) /\ Seen!Assign(x, y)
  \/ \E x \in Vars, o \in Objs : AssignLit(x, o) /\ Seen!AssignNew(x, Content(mem, o))
  \/ \E x \in Vars, s \in Lits : NewString(x, s) /\ Seen!AssignNew(x, s)
  \/ \E x, y \in Vars, b \in -1..MaxLength - 1, e \in 1..MaxLength + 1 :
       AssignSlice(x, y, b, e) /\ Seen!AssignSlice(x, y, b, e)
  \/ \E x, y \in Vars, b, c \in 0..MaxLength :
       AssignSliceOfSlice(x, y, b, c) /\ Seen!AssignSlice(x, y, b + c, MaxLength)
  \/ \E x, y, z \in Vars : add_string(x, y, z) /\ Seen!AssignSum(x, y, z)
  \/ \E x \in Vars : undefine(x) /\ Seen!Undefine(x)
  \/ \E x \in Vars, i \in Indices : xloadR(x, i) /\ UNCHANGED val
  \/ \E x \in Vars, i \in Indices, r \in Elems : xstoreR(x, i, r) /\ Seen!StoreElem(x, i, r)
  \/ \E x, y \in Vars, b, e \in 0..MaxLength + 1 : sstoreV(x, b, e, y) /\ Seen!StoreSlice(x, b, e, y)
Next ==
  /\ past = {}
  /\ \/ step < MaxSteps /\ step' = step + 1 /\ Statement
     \/ Collect /\ UNCHANGED <<step, val>>

Spec == Init /\ [][Next]_vars

-----------------------------------------------------------------------------
(* Properties.                                                             *)

\* A slice refers to a string that owns its bytes, and lies within them
\* (SetRange, NewSlice, PutSliceImpl).
RangesSound ==
  /\ \A o \in Live(mem) :
       /\ mem[o].ref \in Nat /\ array(mem, o) \in Live(mem)
       /\ ~is_slice(mem, array(mem, o))
       /\ origin(mem, o) + mem[o].length <= mem[array(mem, o)].size
  /\ var \in [Vars -> Live(mem) \cup {Undef}]

\* The strings that the program can reach.
InUse == {var[x] : x \in Vars} \ {Undef}

\* Whatever was written to a string or the strings it shares bytes with, the
\* offset that its OffsetMap remembers is the offset of that rune today, and
\* its number of runes is right (OffsetMap::byte_offset and SetRange).
OffsetsFresh ==
  \A o \in InUse :
    LET b == bytes(mem, o) IN
    /\ b = Encode(Decode(b)) /\ mem[o].runes = Len(Decode(b))
    /\ mem[o].map = ASCIIMap <=> mem[o].runes = mem[o].length
    /\ mem[o].map \notin {ASCIIMap, NoMap} =>
         mem[o].map[2] = Len(Encode(SubSeq(Decode(b), 1, mem[o].map[1])))

\* The count of a string is the number of variables, operands and slices that
\* refer to it (inc_ref and dec_ref in val.h).
CountsExact ==
  \A o \in Live(mem) : ~is_readonly(mem, o) =>
    mem[o].ref = Cardinality({x \in Vars : var[x] = o})
                 + Cardinality({p \in Live(mem) : is_slice(mem, p) /\ mem[p].array = o})

\* A program cannot tell shared and sliced strings from strings of their own:
\* while it is alive its variables hold what ValueVars says (Uniq, NewSlice and
\* PutSliceImpl).
ContentsAgree ==
  past = {} => \A x \in Vars : val[x] = IF var[x] = Undef THEN Undef ELSE Content(mem, var[x])

\* The assertions of PutSliceImpl fail for one kind of store only: its end lies
\* behind the runes of the string but not behind its bytes, so that
\* Engine::DoSlice lets it pass.  Any other store outside of the string traps.
StoreInRange == \A s \in past : s.runes < s.end /\ s.end <= s.length
=============================================================================
