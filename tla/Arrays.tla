------------------------------- MODULE Arrays -------------------------------
(***************************************************************************)
(* Array and bytes values: ArrayVal, BytesVal and their forms (src/src/    *)
(* engine/val.cc, form.cc) under the instructions that use them            *)
(* (engine.cc).  A value owns its slots, or it is a slice that refers to   *)
(* the slots of another one (array_).  The elements of an array are        *)
(* counted values of their own, those of bytes are not.                    *)
(*                                                                         *)
(* An action is a statement of the program.                                *)
(***************************************************************************)
EXTENDS Integers, Sequences, FiniteSets, FiniteSetsExt, SequencesExt

CONSTANTS
  Vars,        \* the variables of the program
  Elems,       \* the elements
  Lits,        \* the composites the program builds: sequences of elements
  Undef,       \* an undefined variable; also an empty slot
  Counted,     \* the elements are counted: arrays, not bytes
  MaxLength,   \* bound: length of an array
  MaxObjs,     \* bound: arrays allocated at a time
  MaxSteps     \* bound: statements of the program

VARIABLES
  mem,   \* the ArrayVals
  count, \* the references that arrays hold to each element
  var,   \* the array in each variable
  past,  \* what has happened to slots that their owner still counts
  step,  \* the statements that have been executed
  val    \* what the program should see

vars == <<mem, count, var, past, step, val>>

Seen == INSTANCE ValueVars

-----------------------------------------------------------------------------
(* Values.  m is the memory with the counts, o an array in it.             *)

Objs == 1..MaxObjs
Free == [ref |-> 0, array |-> Undef, origin |-> 0, length |-> 0, slot |-> <<>>]
Live(m) == {o \in Objs : m.obj[o] # Free}
Room(m) == Live(m) # Objs
Fresh(m) == Min({o \in Objs : m.obj[o] = Free})

is_slice(m, o) == m.obj[o].array # o
\* base()[i]: the slots of array_, from origin() on
Content(m, o) == SubSeq(m.obj[m.obj[o].array].slot, m.obj[o].origin + 1,
                        m.obj[o].origin + m.obj[o].length)

Count(s, e) == Cardinality({i \in 1..Len(s) : s[i] = e})
Refs(m, s, n) ==
  IF Counted THEN [m EXCEPT !.count = [e \in Elems |-> @[e] + n * Count(s, e)]] ELSE m
inc_ref(m, o) == [m EXCEPT !.obj[o].ref = @ + 1]

\* ArrayForm::Delete and BytesForm::Delete of o: a slice gives up its owner,
\* an owner gives up the elements in its range
Delete(m, o) == [(IF is_slice(m, o) THEN m ELSE Refs(m, Content(m, o), -1)) EXCEPT !.obj[o] = Free]
\* An unused owner is gone at once: nobody can tell when it is deleted.  An
\* unused slice holds its owner until it is collected.
dec_ref(m, o) ==
  IF o = Undef THEN m
  ELSE IF m.obj[o].ref = 1 /\ ~is_slice(m, o) THEN Delete(m, o)
  ELSE [m EXCEPT !.obj[o].ref = @ - 1]

\* NewVal at Fresh(m), its slots filled with s
NewVal(m, s) ==
  [m EXCEPT !.obj[Fresh(m)] = [ref |-> 1, array |-> Fresh(m), origin |-> 0,
                               length |-> Len(s), slot |-> s]]

\* Defect: only the count of the array itself is looked at.
is_unique_defect(m, o) == m.obj[o].ref = 1
is_unique(m, o) == m.obj[o].ref = 1 /\ m.obj[m.obj[o].array].ref = 1

\* Defect: the elements that the copy shares are not counted.
ArrayUniqDefect(m, o) == dec_ref(NewVal(m, Content(m, o)), o)
\* the copies that Uniq makes, at Fresh(m)
ArrayUniq(m, o) == dec_ref(Refs(NewVal(m, Content(m, o)), Content(m, o), 1), o)
BytesUniq(m, o) == dec_ref(NewVal(m, Content(m, o)), o)
Uniq(m, o) == IF is_unique(m, o) THEN m ELSE IF Counted THEN ArrayUniq(m, o) ELSE BytesUniq(m, o)
UniqResult(m, o) == IF is_unique(m, o) THEN o ELSE Fresh(m)

\* NewSlice of the elements b + 1 to e: in place, or at Fresh(m)
NewSlice(m, o, b, e) ==
  IF m.obj[o].ref = 1
  THEN [m EXCEPT !.obj[o].origin = @ + b, !.obj[o].length = e - b]
  ELSE LET n == [m EXCEPT !.obj[Fresh(m)] =
                      [ref |-> 1, array |-> m.obj[o].array,
                       origin |-> m.obj[o].origin + b, length |-> e - b, slot |-> <<>>]]
       IN  dec_ref(inc_ref(n, m.obj[o].array), o)
SliceResult(m, o) == IF m.obj[o].ref = 1 THEN o ELSE Fresh(m)

-----------------------------------------------------------------------------
(* PutSlice: s over the elements b + 1 to e; new is the content afterwards *)

\* slots with t written over them from n + 1 on
memmove(slot, n, t) == [i \in 1..Len(slot) |-> IF i \in n + 1..n + Len(t) THEN t[i - n] ELSE slot[i]]
Blank(n) == [i \in 1..Max({0, n}) |-> Undef]
SetRange(m, o, origin, length) ==
  [m EXCEPT !.obj[o].origin = origin, !.obj[o].length = length]
Spliced(m, o, b, e, s) ==
  SubSeq(Content(m, o), 1, b) \o s \o SubSeq(Content(m, o), e + 1, m.obj[o].length)

FitsHere(m, o, n) ==
  n = m.obj[o].length \/ n <= m.obj[m.obj[o].array].length - m.obj[o].origin
FitsAtBase(m, o, n) == is_slice(m, o) /\ n <= m.obj[m.obj[o].array].length

\* slots that become free are cleared in an array
Cleared(n) == IF Counted THEN Blank(n) ELSE <<>>
PutHere(m, o, new) ==
  SetRange([m EXCEPT !.obj[m.obj[o].array].slot =
              memmove(@, m.obj[o].origin, new \o Cleared(m.obj[o].length - Len(new)))],
           o, m.obj[o].origin, Len(new))

\* at the base of the owner; the slots that are cleared are those after
\* the new length at the old place
PutAtBase(m, o, new) ==
  LET a == m.obj[o].array
      vacated == Cleared(m.obj[o].length - Len(new))
  IN  SetRange([m EXCEPT !.obj[a].slot =
                  memmove(memmove(@, m.obj[a].origin, new), m.obj[o].origin + Len(new), vacated)],
               o, 0, Len(new))

\* in a new owner at Fresh(m), of which o becomes a slice
PutElsewhere(m, o, new) ==
  LET a == m.obj[o].array
      old == [m EXCEPT !.obj[a].slot = memmove(@, m.obj[o].origin, Cleared(m.obj[o].length))]
      n == [NewVal(old, new) EXCEPT !.obj[o].array = Fresh(m)]
  IN  SetRange(IF a = o THEN n ELSE dec_ref(n, a), o, 0, Len(new))

Put(m, o, new) ==
  IF FitsHere(m, o, Len(new)) THEN PutHere(m, o, new)
  ELSE IF FitsAtBase(m, o, Len(new)) THEN PutAtBase(m, o, new)
  ELSE PutElsewhere(m, o, new)

\* ArrayVal::PutSlice and BytesVal::PutSlice
ArrayPutSlice(m, o, b, e, s) ==
  Put(Refs(Refs(m, s, 1), SubSeq(Content(m, o), b + 1, e), -1), o, Spliced(m, o, b, e, s))
BytesPutSlice(m, o, b, e, s) == Put(m, o, Spliced(m, o, b, e, s))
PutSlice(m, o, b, e, s) ==
  IF Counted THEN ArrayPutSlice(m, o, b, e, s) ELSE BytesPutSlice(m, o, b, e, s)

\* What a store of n elements does beside the slots of o: it overwrites other
\* slots of the owner, leaves a copy at the old place when it moves to the base
\* of the owner, and moves to slots before the range of a narrowed owner.
Displaced(m, o, n) ==
  LET a == m.obj[o].array
      moves == ~FitsHere(m, o, n) /\ FitsAtBase(m, o, n)
  IN  (IF is_slice(m, o) /\ FitsHere(m, o, n) /\ n > m.obj[o].length THEN {"grown"} ELSE {})
      \cup (IF moves THEN {"moved"} ELSE {})
      \cup (IF moves /\ m.obj[a].origin > 0 THEN {"misplaced"} ELSE {})

-----------------------------------------------------------------------------
(* Statements, as the instructions the code generator makes of them.       *)

Now == [obj |-> mem, count |-> count]
Init ==
  /\ mem = [o \in Objs |-> Free] /\ count = [e \in Elems |-> 0]
  /\ var = [x \in Vars |-> Undef] /\ past = {} /\ step = 0 /\ Seen!Init

Done(m, vr) == mem' = m.obj /\ count' = m.count /\ var' = vr
\* storeV of o
Set(m, x, o) == Done(dec_ref(m, var[x]), [var EXCEPT ![x] = o])

\* x = y: loadV and storeV
Assign(x, y) == var[y] # Undef /\ Set(inc_ref(Now, var[y]), x, var[y]) /\ UNCHANGED past

\* x = { s }: createA, initA and storeV
createA(x, s) == Room(Now) /\ Set(Refs(NewVal(Now, s), s, 1), x, Fresh(Now)) /\ UNCHANGED past

\* intersect_slice and NewSlice
sloadV(m, o, beg, end) ==
  LET b0 == Max({beg, 0})
      e0 == Min({end, m.obj[o].length})
  IN  IF b0 > e0 THEN NewSlice(m, o, 0, 0) ELSE NewSlice(m, o, b0, e0)
\* x = y[b:e]; x = { s }[b:e], which narrows the new array itself
AssignSlice(x, y, b, e) ==
  /\ var[y] # Undef /\ Room(Now)
  /\ Set(sloadV(inc_ref(Now, var[y]), var[y], b, e), x, Fresh(Now))
  /\ UNCHANGED past
AssignFreshSlice(x, s, b, e) ==
  /\ Room(Now)
  /\ Set(sloadV(Refs(NewVal(Now, s), s, 1), Fresh(Now), b, e), x, Fresh(Now))
  /\ past' = past \cup {"narrowed"}

\* x = y + z
add_array(x, y, z) ==
  /\ var[y] # Undef /\ var[z] # Undef /\ Room(Now)
  /\ \E s \in {Content(Now, var[y]) \o Content(Now, var[z])} :
       Len(s) <= MaxLength /\ Set(Refs(NewVal(Now, s), s, 1), x, Fresh(Now))
  /\ UNCHANGED past

undefine(x) == var[x] # Undef /\ Set(Now, x, Undef) /\ UNCHANGED past

\* x[i] = r: loadVu and xstoreV; an index out of range is a trap, and x is
\* undefined
xstoreV(x, i, r) ==
  /\ var[x] # Undef /\ (is_unique(Now, var[x]) \/ Room(Now))
  /\ \E o \in {UniqResult(Now, var[x])}, u \in {Uniq(Now, var[x])} :
       IF i \in 0..u.obj[o].length - 1
       THEN Done([Refs(Refs(u, <<r>>, 1), <<Content(u, o)[i + 1]>>, -1) EXCEPT
                    !.obj[u.obj[o].array].slot[u.obj[o].origin + i + 1] = r],
                 [var EXCEPT ![x] = o])
       ELSE Done(dec_ref(u, o), [var EXCEPT ![x] = Undef])
  /\ UNCHANGED past

\* x[b:e] = y: loadV, loadVu, and Engine::DoSlice with PutSlice
sstoreV(x, b, e, y) ==
  /\ var[x] # Undef /\ var[y] # Undef
  /\ \E l \in {inc_ref(Now, var[y])} :
       /\ is_unique(l, var[x]) \/ Room(l)
       /\ \E o \in {UniqResult(l, var[x])}, u \in {Uniq(l, var[x])} :
            LET s == Content(u, var[y])
                n == u.obj[o].length + Len(s) - (e - b)
                trap == b < 0 \/ e > u.obj[o].length \/ b > e
            IN  /\ Room(u) \/ trap \/ FitsHere(u, o, n) \/ FitsAtBase(u, o, n)
                /\ trap \/ n <= MaxLength
                /\ Done(dec_ref(IF trap THEN dec_ref(u, o) ELSE PutSlice(u, o, b, e, s), var[y]),
                        [var EXCEPT ![x] = IF trap THEN Undef ELSE o])
                /\ past' = IF trap THEN past ELSE past \cup Displaced(u, o, n)

\* Delete of the slices that nobody refers to
Collect ==
  \E unused \in {{o \in Live(Now) : mem[o].ref = 0}} :
    /\ unused # {}
    /\ Done(FoldLeft(LAMBDA m, o : dec_ref(Delete(m, o), mem[o].array), Now, SetToSeq(unused)), var)

Indices == -1..MaxLength + 1
Statement ==
  \/ \E x, y \in Vars : Assign(x, y) /\ Seen!Assign(x, y)
  \/ \E x \in Vars, s \in Lits : createA(x, s) /\ Seen!AssignNew(x, s)
  \/ \E x, y \in Vars, b \in -1..MaxLength - 1, e \in 1..MaxLength + 1 :
       AssignSlice(x, y, b, e) /\ Seen!AssignSlice(x, y, b, e)
  \/ \E x \in Vars, s \in Lits, b \in 1..MaxLength :
       AssignFreshSlice(x, s, b, MaxLength) /\ Seen!AssignNew(x, Seen!Slice(s, b, MaxLength))
  \/ \E x, y, z \in Vars : add_array(x, y, z) /\ Seen!AssignSum(x, y, z)
  \/ \E x \in Vars : undefine(x) /\ Seen!Undefine(x)
  \/ \E x \in Vars, i \in Indices, r \in Elems : xstoreV(x, i, r) /\ Seen!StoreElem(x, i, r)
  \/ \E x, y \in Vars, b, e \in 0..MaxLength + 1 : sstoreV(x, b, e, y) /\ Seen!StoreSlice(x, b, e, y)
Next ==
  \/ step < MaxSteps /\ step' = step + 1 /\ Statement
  \/ Collect /\ UNCHANGED <<past, step, val>>

Spec == Init /\ [][Next]_vars

-----------------------------------------------------------------------------
(* Properties.                                                             *)

\* Every slot that a value reads lies in its owner's range, whose elements
\* AdjustHeapPtrs adjusts when a collection moves them (form.cc).  A slice that
\* PutSlice moves to the base of a narrowed owner is the exception: its new
\* place is counted from the first slot, not from the range of the owner.
SlotsCovered ==
  "misplaced" \notin past => \A o \in {var[x] : x \in Vars} \ {Undef} :
    LET a == mem[o].array
    IN  mem[o].length = 0 \/
        /\ mem[a].origin <= mem[o].origin
        /\ mem[o].origin + mem[o].length <= mem[a].origin + mem[a].length

\* The count of an array is the number of variables and slices that refer to
\* it: none in use is freed, none is kept (inc_ref and dec_ref in val.h).
CountsExact ==
  \A o \in Live(Now) :
    mem[o].ref = Cardinality({x \in Vars : var[x] = o})
                 + Cardinality({p \in Live(Now) \ {o} : mem[p].array = o})

\* A program cannot tell shared and sliced arrays from arrays of their own:
\* its variables hold what ValueVars says (Uniq, NewSlice and PutSlice), until
\* PutSlice moves a slice to the base of a narrowed owner: the elements are
\* written from its range on, and read from its first slot on.
ContentsAgree ==
  "misplaced" \notin past => \A x \in Vars : val[x] = IF var[x] = Undef THEN Undef ELSE Content(Now, var[x])

\* An element has at least as many references as the slots that will give one
\* up when their array is deleted, so that no element is freed too early
\* (ArrayForm::Delete, and the vacated slots of ArrayVal::PutSlice), until
\* PutSlice moves a slice to the base of its owner: it leaves the elements in
\* their old slots too.  It has exactly that many as long as no owner has been
\* narrowed and no slice has grown over the slots behind it, whose elements are
\* never given up.
ElementsCounted ==
  Counted => \A e \in Elems :
    LET slots == FoldLeft(LAMBDA n, o : n + Count(Content(Now, o), e), 0,
                          SetToSeq({o \in Live(Now) : mem[o].array = o}))
    IN  /\ "moved" \notin past => count[e] >= slots
        /\ past = {} => count[e] = slots
=============================================================================
