-------------------------------- MODULE Maps --------------------------------
(***************************************************************************)
(* Map values: Map (src/src/engine/map.cc), MapVal and MapForm under the   *)
(* instructions that use them (engine.cc).  The cells of a map are filled  *)
(* one after the other and threaded onto chains that begin in an array of  *)
(* heads; both are replaced when the cells run out, and both move when the *)
(* heap is compacted.  A pointer to a cell is its address.                 *)
(*                                                                         *)
(* An action is a statement of the program.                                *)
(***************************************************************************)
EXTENDS Integers, Sequences, FiniteSets, FiniteSetsExt, SequencesExt

CONSTANTS
  Vars,          \* the variables of the program
  Keys,          \* the keys
  Hash,          \* the hash of a key
  Values,        \* the values that are stored, integers
  Undef,         \* an undefined variable
  kMinNCell,     \* cells of the smallest map
  kHeadsPerCell, \* heads per cell
  kSlop,         \* cells from which a map is not rounded up to a power of two
  MaxValue,      \* bound: largest value
  MaxObjs,       \* bound: maps allocated at a time
  MaxSteps       \* bound: statements of the program

VARIABLES
  mem,   \* the MapVals with their Maps
  count, \* the references that maps hold to each key
  var,   \* the map in each variable
  step,  \* the statements that have been executed
  val    \* what the program should see: a set of <<key, value>> per variable

vars == <<mem, count, var, step, val>>

-----------------------------------------------------------------------------
(* Map.                                                                    *)

NULL == 0
Size == 10                  \* sizeof(MapCell)
Bases == {1000, 2000}       \* where an array of cells may lie
At(map, p) == (p - map.base) \div Size + 1  \* the cell a pointer refers to
Address(base, i) == base + (i - 1) * Size
HeadOf(space, hash) == (hash % (kHeadsPerCell * space)) + 1

PowerOf2(n) == Min({p \in {2 ^ i : i \in 0..n} : p >= n})
\* the cells that MakeMapMem allocates
Space(space, exact) ==
  IF space <= kMinNCell THEN kMinNCell
  ELSE IF exact THEN space
  ELSE IF space < kSlop THEN PowerOf2(space) ELSE space + kSlop
Empty(space) ==
  [base |-> Min(Bases), space |-> space, cell |-> <<>>,
   head |-> [h \in 1..kHeadsPerCell * space |-> NULL]]
MakeMapMem(space, exact) == Empty(Space(space, exact))

\* The cells are those below occupancy_.
\* Defect: the chain that the cell is put in front of is lost.
ChainDefect(map, cell) ==
  LET h == HeadOf(map.space, cell.hash)
      p == Address(map.base, Len(map.cell) + 1)
  IN  [map EXCEPT !.cell = Append(@, [cell EXCEPT !.next = NULL]), !.head[h] = p]
\* ChainToNewLocation for the next cell
ChainToNewLocation(map, cell) ==
  LET h == HeadOf(map.space, cell.hash)
      p == Address(map.base, Len(map.cell) + 1)
  IN  [map EXCEPT !.cell = Append(@, [cell EXCEPT !.next = map.head[h]]), !.head[h] = p]
CopyCells(to, from) == FoldLeft(ChainToNewLocation, to, from.cell)

Clone(map) == CopyCells(MakeMapMem(map.space, map.space < Len(map.cell)), map)

GrowIfNeeded(map) ==
  IF Len(map.cell) = map.space THEN CopyCells(Empty(2 * map.space), map) ELSE map

\* the pointers of the chain from p on
Chain(map, p) ==
  LET chain[n \in 0..Len(map.cell), q \in {NULL} \cup {Address(map.base, i) : i \in DOMAIN map.cell}] ==
        IF n = 0 \/ q = NULL THEN <<>> ELSE <<q>> \o chain[n - 1, map.cell[At(map, q)].next]
  IN  chain[Len(map.cell), p]
FindLocation(map, key) ==
  LET found == SelectSeq(Chain(map, map.head[HeadOf(map.space, Hash[key])]),
                         LAMBDA ptr : map.cell[At(map, ptr)].key = key)
  IN  IF found = <<>> THEN NULL ELSE found[1]
\* an index from 1 on, 0 for none
Lookup(map, key) ==
  LET p == FindLocation(map, key) IN IF p = NULL THEN 0 ELSE At(map, p)

\* InsertKey: the map with a cell for the key, and SetValue
InsertKey(map, key) ==
  IF Lookup(map, key) # 0 THEN map
  ELSE ChainToNewLocation(GrowIfNeeded(map), [key |-> key, value |-> Undef, next |-> NULL,
                                              hash |-> Hash[key]])
SetValue(map, i, value) == [map EXCEPT !.cell[i].value = value]
IncValue(map, i, delta) == [map EXCEPT !.cell[i].value = @ + delta]

\* AdjustHeapPtrs: the cells are moved to base
AdjustHeapPtrs(map, base) ==
  LET delta == base - map.base
      moved(p) == IF p = NULL THEN NULL ELSE p + delta
  IN  [map EXCEPT !.base = base,
                  !.cell = [i \in DOMAIN @ |-> [@[i] EXCEPT !.next = moved(@)]],
                  !.head = [h \in DOMAIN @ |-> moved(@[h])]]

GetKeys(map) == [i \in DOMAIN map.cell |-> map.cell[i].key]
Pairs(map) == {<<map.cell[i].key, map.cell[i].value>> : i \in DOMAIN map.cell}
\* An exclusive or of fingerprints or hashes is the set of those that occur
\* an odd number of times.
Xor(S, T) == (S \ T) \cup (T \ S)
Fingerprint(map) == FoldLeft(LAMBDA p, c : Xor(p, {<<c.key, c.value>>}), {}, map.cell)
MapHash(map) == FoldLeft(LAMBDA p, c : Xor(p, Xor({<<"key", c.hash>>}, {<<"value", c.value>>})), {}, map.cell)
EqualMap(m1, m2) ==
  /\ Len(m1.cell) = Len(m2.cell)
  /\ \A i \in DOMAIN m1.cell :
       /\ Lookup(m2, m1.cell[i].key) # 0
       /\ m1.cell[i].value = m2.cell[Lookup(m2, m1.cell[i].key)].value

-----------------------------------------------------------------------------
(* MapVal and MapForm.                                                     *)

Objs == 1..MaxObjs
Free == [ref |-> 0, map |-> [base |-> NULL, space |-> 0, cell |-> <<>>, head |-> <<>>]]
Fresh(m) == Min({o \in Objs : m.obj[o] = Free})
Live(m) == {o \in Objs : m.obj[o] # Free}
Room(m) == Live(m) # Objs

Count(s, k) == Cardinality({i \in DOMAIN s : s[i] = k})
Refs(m, keys, n) == [m EXCEPT !.count = [k \in Keys |-> @[k] + n * Count(keys, k)]]
NewVal(m, map) == [m EXCEPT !.obj[Fresh(m)] = [ref |-> 1, map |-> map]]
\* Delete, as soon as nobody refers to it
dec_ref(m, o) ==
  IF o = Undef THEN m
  ELSE IF m.obj[o].ref > 1 THEN [m EXCEPT !.obj[o].ref = @ - 1]
  ELSE [Refs(m, GetKeys(m.obj[o].map), -1) EXCEPT !.obj[o] = Free]

\* Defect: a map that is referred to twice is not copied.
is_unique_defect(m, o) == m.obj[o].ref <= 2
is_unique(m, o) == m.obj[o].ref = 1
\* Uniq: o, or a copy at Fresh(m)
Uniq(m, o) ==
  IF is_unique(m, o) THEN m
  ELSE dec_ref(Refs(NewVal(m, Clone(m.obj[o].map)), GetKeys(m.obj[o].map), 1), o)
UniqResult(m, o) == IF is_unique(m, o) THEN o ELSE Fresh(m)

-----------------------------------------------------------------------------
(* Statements.                                                             *)

Now == [obj |-> mem, count |-> count]
Init ==
  /\ mem = [o \in Objs |-> Free] /\ count = [k \in Keys |-> 0]
  /\ var = [x \in Vars |-> Undef] /\ val = [x \in Vars |-> Undef] /\ step = 0

Set(m, x, o) ==
  \E g \in {dec_ref(m, var[x])} :
    mem' = g.obj /\ count' = g.count /\ var' = [var EXCEPT ![x] = o]
SetVal(x, s) == val' = [val EXCEPT ![x] = s]

\* x = y
Assign(x, y) ==
  /\ var[y] # Undef /\ SetVal(x, val[y])
  /\ Set([Now EXCEPT !.obj[var[y]].ref = @ + 1], x, var[y])

\* a reference moves from the stack to the key's cell; an equal key that was
\* there gives up its own
Insert(m, o, key, value) ==
  LET map == InsertKey(m.obj[o].map, key)
      g == [m EXCEPT !.obj[o].map = SetValue(map, Lookup(map, key), value)]
  IN  IF Lookup(m.obj[o].map, key) = 0 THEN Refs(g, <<key>>, 1) ELSE g

\* x = { k: v, ... }: createM, and initM that pops the pairs from the last on
createM(x, pairs) ==
  /\ Room(Now)
  /\ \E o \in {Fresh(Now)} :
       Set(FoldRight(LAMBDA p, m : Insert(m, o, p[1], p[2]), pairs,
                     NewVal(Now, MakeMapMem(Len(pairs), TRUE))), x, o)
  /\ SetVal(x, {<<k, pairs[Min({i \in DOMAIN pairs : pairs[i][1] = k})][2]>> :
                k \in {pairs[i][1] : i \in DOMAIN pairs}})

\* x = new(map, n)
newM(x, n) == Room(Now) /\ Set(NewVal(Now, MakeMapMem(n, FALSE)), x, Fresh(Now)) /\ SetVal(x, {})

\* x[k] = v: loadVu, minsertV and mstoreV
mstoreV(x, k, v) ==
  /\ var[x] # Undef /\ (is_unique(Now, var[x]) \/ Room(Now))
  /\ \E o \in {UniqResult(Now, var[x])} : \E u \in {Insert(Uniq(Now, var[x]), o, k, v)} :
       mem' = u.obj /\ count' = u.count /\ var' = [var EXCEPT ![x] = o]
  /\ SetVal(x, {p \in val[x] : p[1] # k} \cup {<<k, v>>})

\* x[k]++: loadVu, mloadV and minc64; a key that is missing is a trap, which
\* undefines x
minc64(x, k) ==
  /\ var[x] # Undef /\ (is_unique(Now, var[x]) \/ Room(Now))
  /\ \A p \in val[x] : p[2] < MaxValue
  /\ \E o \in {UniqResult(Now, var[x])}, u \in {Uniq(Now, var[x])} :
       LET i == Lookup(u.obj[o].map, k)
           g == IF i = 0 THEN dec_ref(u, o)
                ELSE [u EXCEPT !.obj[o].map = IncValue(@, i, 1)]
       IN  mem' = g.obj /\ count' = g.count /\ var' = [var EXCEPT ![x] = IF i = 0 THEN Undef ELSE o]
  /\ SetVal(x, IF \E p \in val[x] : p[1] = k
               THEN {IF p[1] = k THEN <<k, p[2] + 1>> ELSE p : p \in val[x]} ELSE Undef)

undefine(x) == var[x] # Undef /\ Set(Now, x, Undef) /\ SetVal(x, Undef)

\* Memory::Compact moves a map
Compact(o) ==
  /\ mem[o] # Free
  /\ \E base \in Bases : base > mem[o].map.base /\
       mem' = [mem EXCEPT ![o].map = AdjustHeapPtrs(@, base)]
  /\ UNCHANGED <<count, var, step, val>>

Composites == UNION {[1..n -> Keys \X Values] : n \in {1, kMinNCell + 1}}
Statement ==
  \/ \E x, y \in Vars : x # y /\ Assign(x, y)
  \/ \E x \in Vars, pairs \in Composites : createM(x, pairs)
  \/ \E x \in Vars, n \in {0, kMinNCell + 2, kSlop} : newM(x, n)
  \/ \E x \in Vars, k \in Keys, v \in Values : mstoreV(x, k, v)
  \/ \E x \in Vars, k \in Keys : minc64(x, k)
  \/ \E x \in Vars : undefine(x)
Next ==
  \/ step < MaxSteps /\ step' = step + 1 /\ Statement
  \/ \E o \in Objs : Compact(o)

Spec == Init /\ [][Next]_vars

-----------------------------------------------------------------------------
(* Properties.                                                             *)

\* Every cell lies on the chain of its hash, once, and chains end: whatever
\* was inserted, copied, grown and moved (ChainToNewLocation, CopyCells,
\* AdjustHeapPtrs).
ChainsSound ==
  \A o \in Live(Now) : LET map == mem[o].map IN
    /\ Len(map.cell) <= map.space
    /\ \A h \in DOMAIN map.head : LET c == Chain(map, map.head[h]) IN
         /\ {At(map, c[i]) : i \in DOMAIN c}
              = {i \in DOMAIN map.cell : HeadOf(map.space, map.cell[i].hash) = h}
         /\ IsInjective(c)

\* A program cannot tell shared maps from maps of its own, and a key is found
\* if and only if it was stored: its variables hold what was assigned to them
\* (Uniq, Clone, InsertKey and Lookup).
ContentsAgree ==
  \A x \in Vars :
    IF var[x] = Undef THEN val[x] = Undef
    ELSE LET map == mem[var[x]].map IN
         /\ Pairs(map) = val[x] /\ Len(map.cell) = Cardinality(val[x])
         /\ \A k \in Keys : Lookup(map, k) # 0 <=> \E p \in val[x] : p[1] = k

\* Maps of equal contents are equal, with equal fingerprints and hashes,
\* however their cells are ordered, and only they are (EqualMap, Fingerprint,
\* MapHash).
EqualAlike ==
  \A x, y \in Vars : var[x] # Undef /\ var[y] # Undef =>
    LET m1 == mem[var[x]].map
        m2 == mem[var[y]].map
    IN  /\ EqualMap(m1, m2) <=> val[x] = val[y]
        /\ val[x] = val[y] => Fingerprint(m1) = Fingerprint(m2) /\ MapHash(m1) = MapHash(m2)

\* A key is counted once for every cell that holds it, and a map once for
\* every variable (InsertKey, CopyCells with inc, Delete).
CountsExact ==
  /\ \A o \in Live(Now) : mem[o].ref = Cardinality({x \in Vars : var[x] = o})
  /\ \A k \in Keys :
       count[k] = Cardinality({o \in Live(Now) : k \in ToSet(GetKeys(mem[o].map))})
=============================================================================
