----------------------------- MODULE SzlEmitter -----------------------------
(***************************************************************************)
(* Aggregating tables at work (src/src/emitvalues/szlemitter.cc).  Each    *)
(* emitter keeps one entry per index.  A complete emit is added to its     *)
(* entry; Flusher turns every entry into a string and starts afresh; the   *)
(* strings of all emitters are merged, in any order, into the entries of   *)
(* any emitter, which may be flushed and merged again (the mappers,        *)
(* combiners and reducers of a map-reduce).                                *)
(*                                                                         *)
(* The table kinds (SzlSum, SzlMaximum, ...) instantiate this module with  *)
(* their entries.  An operation gives the set of its possible outcomes,    *)
(* because some entries draw random numbers.                               *)
(***************************************************************************)
EXTENDS Integers, Bags, TLC, FiniteSetsExt

CONSTANTS
  Emitters, Indices,
  Elems,           \* what a program emits: values, with their weights
  MaxEmits,        \* bound: complete emits
  CreateEntry,     \* SzlTabWriter::CreateEntry: the possible new entries
  AddElem(_, _),   \* SzlTabEntry::AddElem, AddWeightedElem
  Flush(_),        \* SzlTabEntry::Flush: the string, <<>> when empty
  Merge(_, _),     \* SzlTabEntry::Merge: records [ok, entry]
  AfterDisplay(_)  \* SzlTabEntry::FlushForDisplay: what it leaves of an entry

VARIABLES
  table,    \* table_ of each emitter: index -> entry, with the emits in it
  written,  \* what WriteValue put out and nobody merged yet
  emitted,  \* the complete emits so far (history)
  failed    \* a Merge returned MergeError

vars == <<table, written, emitted, failed>>

None == [x \in Elems |-> 0]
Plus(a, b) == [x \in Elems |-> a[x] + b[x]]
One(x) == [None EXCEPT ![x] = 1]
SumOf(f) == MapThenSumSet(LAMBDA x : f[x], DOMAIN f)
Count(a) == SumOf(a)

Init ==
  /\ table = [m \in Emitters |-> <<>>]
  /\ written = EmptyBag
  /\ emitted = [k \in Indices |-> None]
  /\ failed = FALSE

\* the entry of index k, created when the table has none
Lookup(m, k) ==
  IF k \in DOMAIN table[m] THEN {table[m][k]}
  ELSE {[entry |-> e, seen |-> None] : e \in CreateEntry}

Store(m, k, e, s) ==
  [table EXCEPT ![m] = [i \in DOMAIN table[m] \cup {k} |->
                          IF i = k THEN [entry |-> e, seen |-> s] ELSE table[m][i]]]

\* Begin(EMIT) ... End(EMIT)
End(m, k, x) ==
  /\ SumOf([i \in Indices |-> Count(emitted[i])]) < MaxEmits
  /\ \E old \in Lookup(m, k) : \E new \in AddElem(old.entry, x) :
       table' = Store(m, k, new, Plus(old.seen, One(x)))
  /\ emitted' = [emitted EXCEPT ![k] = Plus(@, One(x))]
  /\ UNCHANGED <<written, failed>>

\* an entry whose string is empty is not written
Flusher(m) ==
  /\ DOMAIN table[m] # {}
  /\ written' = written (+)
       SetToBag({[key |-> k, val |-> Flush(table[m][k].entry), seen |-> table[m][k].seen] :
                 k \in {i \in DOMAIN table[m] : Flush(table[m][i].entry) # <<>>}})
  /\ table' = [table EXCEPT ![m] = <<>>]
  /\ UNCHANGED <<emitted, failed>>

MergeInto(m, w) ==
  /\ \E old \in Lookup(m, w.key) : \E r \in Merge(old.entry, w.val) :
       /\ table' = Store(m, w.key, r.entry, IF r.ok THEN Plus(old.seen, w.seen) ELSE old.seen)
       /\ failed' = (failed \/ ~r.ok)
  /\ written' = written (-) SetToBag({w})
  /\ UNCHANGED emitted

DisplayResults(m) ==
  /\ DOMAIN table[m] # {}
  /\ table' = [table EXCEPT ![m] =
                 [k \in DOMAIN table[m] |->
                    [entry |-> AfterDisplay(table[m][k].entry), seen |-> table[m][k].seen]]]
  /\ UNCHANGED <<written, emitted, failed>>

Next ==
  \E m \in Emitters :
    \/ \E k \in Indices, x \in Elems : End(m, k, x)
    \/ Flusher(m) \/ DisplayResults(m)
    \/ \E w \in BagToSet(written) : MergeInto(m, w)

Spec == Init /\ [][Next]_vars

-----------------------------------------------------------------------------
\* the entries of all emitters
Held == UNION {{<<m, k>> : k \in DOMAIN table[m]} : m \in Emitters}

\* the emits of x at index k in the entries of a table, and in written strings
Stored(t, k, x) ==
  [m \in Emitters |-> IF k \in DOMAIN t[m] THEN t[m][k].seen[x] ELSE 0]
Pending(b, k, x) ==
  [w \in BagToSet(b) |-> IF w.key = k THEN b[w] * w.seen[x] ELSE 0]

\* Every complete emit is in exactly one entry or one written string of its
\* index: neither Flusher nor Merge nor the creation of an entry loses or
\* doubles one.
EmitsConserved ==
  \A k \in Indices, x \in Elems :
    emitted[k][x] = SumOf(Stored(table, k, x)) + SumOf(Pending(written, k, x))

\* A string that Flush made is always accepted by Merge (SzlEmitter::Merge
\* returns true, and a reducer does not stop).
MergeAccepts == ~failed
=============================================================================
