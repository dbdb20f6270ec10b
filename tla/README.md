# A TLA+ verification of the Sawzall implementation (szl)

Sawzall programs look at one record at a time and emit values to tables that
aggregate over all records. This directory keeps TLA+ models of that
implementation beside its C++ code, the TLC configurations that check them on
small instances, and theorems that TLAPS proves for instances of any size.
Paths below are relative to `src/src/`. `PROJECT.json` lists components, runs,
hazards, findings and theorems, and maps every definition to the lines it
stands for.

## 1. The system and its parts

| Part | Code | What it does | Here |
| --- | --- | --- | --- |
| Process, Proc | `engine/proc.cc`, `engine/sawzall.cc` | The client interface: set up, run, suspend, resume, call functions, fail, clean up | `Process` |
| Interpreter | `engine/engine.cc`, `engine/frame.h` | Executes byte code on a stack of frames, in slices of `max_steps` instructions | `Process` (control), `Engine` (what instructions compute) |
| Heap | `engine/memory.cc`, `engine/gctrigger.cc` | Chunks with mark and release, reference counts, a free list, compaction | `Heap` |
| Values | `engine/val.*`, `engine/form.cc`, `engine/map.cc` | Reference-counted values, slices, copy on write, hash maps | `Strings`, `Arrays`, `Maps`, `Forms` |
| Compiler | `engine/analyzer.cc` and its passes, `engine/codegen.cc` | Syntax tree to byte code | `Analyzer` and one module per pass, `CodeGen` |
| Front end | `engine/scanner.cc`, `parser.cc`, `symboltable.cc` | Source text to syntax tree | not modelled |
| Table emitter | `emitvalues/szlemitter.cc` | One entry per index; emit, flush, merge, display | `SzlEmitter` |
| Table kinds | `emitters/` | sum, top, maximum, sample, set, unique, ... | one module each |
| Intrinsics | `intrinsics/`, `engine/intrinsic.cc` | Library functions | additional inputs, in `Process` |
| Utilities | `utilities/`, `fmt/` | lzw, varint, random numbers, record I/O, formatted output | not modelled |
| Tools | `app/`, `protoc_plugin/` | The `szl` program, the protocol-buffer compiler plugin | not modelled |

A client creates an `Executable`, which parses and analyzes the source and
generates code, then a `Process` for it. `Process` forwards to `Proc`, which owns
the heap and the interpreter state. It runs the initialization once and then
`$main` for each record, or, in mode `kDoCalls`, single functions. `Mark` and
`Release` of the heap bracket each record or call, so that everything a record
allocated goes at once. Emit statements reach the tables through the emitter
interface. Tables of several processes are combined by flushing their entries to
strings and merging these.

## 2. Modules

### Process, ProcStatus, CallSession

`Process` models `sawzall::Process`, `Proc` and the control of `Engine::Execute`.

* *The client interface*: `status` (`status_`), `callState` (`do_call_state_`),
  `err` (`error_msg() != NULL`), `seenUndef`, `undefs`, and `crashed`, which a
  failing `CHECK` sets. `api` names the client call in progress.
* *The stack*: a frame is its expression-stack height, its static link and
  whether it has a `return_pc`. `bp`, `retPc` and `steps` are the interpreter's
  registers; `startBp` and `callFp` are what `StartCall` and `DoCall` save.
* *The heap as Proc sees it*: whether it is marked, whether anything was
  allocated since, and for each root outside the frames (additional inputs, trap
  messages) whether there is none, it is live, or it dangles.

A client call that runs code is split where the code enters and leaves
`Engine::Execute`: `Execute`, `DoCall`, `StartCall` and `ContinueCall` enter,
`Interpret` takes one step per instruction, and `FinishExecute`, `FinishDoCall`
and `FinishContinueCall` are what follows. Instructions are abstracted to their
effect on the stack. Those that change control are separate actions: `Enter`,
`SetBp`, `Call`, `Ret`, `RetU`, `Terminate`, `Trap`, `Fail`,
`SetAdditionalInput`, and `Suspend` for the step limit.

Two constants say what the client or the program does: `LongCalls` (a `DoCall`
that needs more than `kint32max` steps) and `LookupAnytime` (a lookup between two
calls). They are `FALSE` in the runs; section 5 tells what they stand for. Setting
up a run after a failure and adding an input before `SetupRun` are always possible.

`ProcStatus` is the status diagram in the comment of `proc.h`; `CallSession` is
the protocol of `DoCallState` in `sawzall.h`, with the outcome of a call.
`Process` implements both. The first maps `status` to itself, the second hides a
call in progress until it is over.

### Heap

`Heap` models `Memory` and `GCTrigger`. A chunk maps the offset of every block,
free ones included, to the block; its mark and its top are offsets too. A pointer
to a small block is a chunk and an offset, so moving a block makes a pointer stale
as it does in the code. A value has a reference count and holds at most one
pointer to another one. Actions: `New` (small and large allocation from arena or
free list, with the scans that they trigger), `Drop`, `Copy` and `SetElement`
(`inc_ref`, `dec_ref`), `EndInstr` (a deferred collection with compaction),
`Enter` and `Leave` of the engine, `Mark` and `Release`. What the code compares
with the process size, which only the operating system knows, is a free choice.
`means` and `holds` are history: the object that a slot or a value was set to.

### Values

`Strings`, `Arrays` and `Maps` are programs of a few statements on variables of
one type. An action is a statement: what the interpreter's instructions for it do
to values, reference counts, slices, the cached offset map of a string, the cells
and heads of a map. Between statements unused values are collected, and maps move
as compaction moves them. The history variable `val` holds what the program
should see; for sequences `ValueVars` says how it changes. The history variable
`past` remembers the two kinds of stores to slices that go wrong (section 5): the
properties say what still holds after one.
`Forms` has equality, order, hash and fingerprint of each type of value, and
integers that are tagged words where they fit. `MCLibrary` puts them side by side
with a variable `kind` that never changes.

### Compiler and interpreter

`Ast` has the node classes, with the traversal that the visitors share. A program
is a set of functions and declarations, given as a tree with its types: parser and
type checker are not involved. The passes are operators from a program to a
program: `When` (quantifiers become loops), `ClosureCheck` (escape analysis),
`ConstantFolding`, `PropagateValues`, `FieldReferences` and `RewriteAsserts`;
`Analyzer` runs them in the order of `analyzer.cc`, one action per pass.
`CodeGen` is the recursive visitor of `codegen.cc` unfolded into a list of the
calls still to be made. One action makes the first call and puts those of its body
in its place; what a destructor does (`StackMark`, `TrapHandler`) is a call at the
end of its scope. `Engine` has one action per group of instructions, with the
stack cells, the reference counts and the trap handler. `Compile` composes the
three; `Semantics` is an evaluator over the tree, without stack, references or
code, against which the output is compared.

### Tables

`SzlEmitter` models `szlemitter.cc`: several emitters, each with a table of
entries, and the strings that were written and not merged yet. `End` is a
complete emit, `Flusher` writes all entries of an emitter and drops them,
`MergeInto` merges a written string into any emitter, `DisplayResults` displays
in place. Its parameters are the operations of a table entry; each table module
instantiates it with its own. The history variables say which emits went into an
entry or a string, so properties compare an entry with a specification of its
emits (a sum, the best elements, a set), whatever way these took.

| Module | Code | Entry |
| --- | --- | --- |
| `SzlSum` | `szlsum.cc`, `szlvalue.cc` | Integers with wrap-around, maps added by a sorted merge |
| `SzlMaximum` | `szlmaximum.cc` | A heap of the best elements (`BinHeap`, `szlheap.cc`) |
| `SzlSample` | `szlsample.cc` | A heap by random tags |
| `SzlSet` | `szlset.cc` | A set with overflow |
| `SzlUnique` | `szlunique.cc` | A heap of the smallest hashes, and the estimate |
| `SzlDistinctSample` | `szldistinctsample.cc` and its readers | A list, and a map of positions ordered by the hashes in the list |
| `SzlWeightedSample` | `szlweightedsample*.cc`, `weighted-reservoir-sampler*` | A reservoir by key |
| `SzlQuantile` | `szlquantile.cc` and its readers | Munro-Paterson buffers, collapse and merge |
| `SzlBootstrapsum` | `szlbootstrapsum.cc` | Rows of sums, dice seeded by fingerprints |
| `SzlTop` | `szltop.cc` | Candidates (`TopHeap`, `szltopheap.cc`) and a sketch (`Sketch`, `szlsketch.cc`) |

An encoded string is the record of what `Flush` puts into it. Random numbers are
free choices from a small set; hashes are parameters, chosen so that collisions
and ties happen. `MCTables` puts all kinds side by side: a variable `kind`, which
never changes, says which table the emitters have.

Definitions whose comment starts with "Defect" are variants with a plausible
mistake. No specification uses them: they are there to see that a property
notices the mistake.

## 3. Runs

| Run | What it checks and shows |
| --- | --- |
| `process_run` | Records are run with `kIgnoreUndefs` in slices of two steps. No `CHECK` fails but for two calls that the documentation allows, a setup after a failure and a `SetupRun` after an early input (`ChecksHold`), the heap is marked exactly while a record runs (`MarkBracketsRun`), an undefined value counts once per record (`UndefCountedOnce`), a slice does not exceed its steps (`StepsBounded`), the status diagram holds (`ImplementsProcStatus`) and `Execute` returns (`ExecuteReturns`). |
| `process_calls` | `DoCall` sessions in any order, failed and abandoned ones included. `ChecksHold`, no root dangles (`RootsValid`), the next call finds the frame of `$main` as it needs it (`CallFrameReady`), no instruction runs with a base pointer of another frame (`BasePointerCanonical`), and sessions follow `CallSession` (`ImplementsCallSession`). |
| `process_incremental` | The same with `StartCall` and `ContinueCall`: a client never sees `RUNNING` or `TRAPPED`, a call that failed has a message and one that ended well has none, after the last `ContinueCall` too (`OutcomeReported`), and every `ContinueCall` returns. |
| `heap` | Values in two chunks and malloc blocks through allocation, the free list, compaction, cascading deletion, `Mark` and `Release`, which gives a chunk back: every pointer leads to what it was set to (`PointersValid`), counts cover the pointers (`RefCountsCover`), no block is handed out twice (`FreeListSound`), what was there at `Mark` stays (`PremarkKept`), the `CHECK`s of `Mark` hold (`MarkChecksHold`), a collection leaves no garbage and no hole (`CollectionComplete`). |
| `tables` | Every table kind under any order of emit, display, flush and merge: `MergeAccepts`, `CountsConserved`, `SumsExact`, `KeepsBest`, `OrderKept`, `ResultsAgree`, `SampleSound`, `EstimateSound`. Each is the conjunction over the kinds it concerns, explained in `MCTables` and in the modules of the tables. Where the code falls short the property says by how much: a `maximum` string is refused only when its uninitialized count makes it inconsistent (`MergeAcceptsCounted`), only an overflowed set loses emits (`LostByOverflowOnly`), a merge of top tables moves the weight of a candidate once or not at all (`AdjustedOnce`), and the reader of unique tables refuses every string. |
| `compile` | Nineteen programs that together use every kind of node are analyzed, compiled and run, with and without optimization, dead-code elimination, debug code and `kIgnoreUndefs`, while an emitter may refuse any emit. They emit what `Semantics` says, up to a refused emit (`OutputAgrees`), the assertions of passes, code generator and interpreter hold (`AssertionsHold`), reference counts are exact after every instruction and every trap (`RefCountsExact`), the static link of a frame is the frame of the very activation in which its function was made, recursion included, and that is still there (`ContextAlive`), literals are never written to (`LiteralsConstant`), and everything comes to an end (`Finishes`). |
| `library` | Strings, arrays, bytes and maps: a variable has the value the program gave it, whatever is shared, sliced, copied, collected or moved (`ContentsAgree`), slices, offset maps and chains are sound (`StructureSound`), counts are exact (`CountsExact`), each but for two kinds of stores to slices (section 5). Equal values have equal hashes and fingerprints and the order is total, but for the zeros and NaN of floats, and tagged integers compute what integers do, wrapping as these do (`FunctionsAgree`). |
| `docall_ignore_undefs`, `continue_call_base`, `abandoned_call_roots`, `closure_stack`, `switch_break` | Disagreements between code and documentation, section 5. |

`RootsValid` and `BasePointerCanonical` are checked for `DoCall` only, since
`StartCall` breaks them (section 5).

### Bounds

* Process: two labels of additional inputs, one of them the lock. A limit of two
  steps falls at every place of the sequence `set_bp`, `call`, `enter`, which the
  interpreter must not separate. Three frames (runs) or four (calls) let a call,
  a nested call and a stack overflow happen. Expression stacks of height two hold
  an argument and a temporary.
* Heap: chunks of size 4 and blocks of 2 and 3 leave remainders that can be split
  off, that must be padded, and that are lost. Two chunks are the least for which
  `Release` gives one back and compaction moves the allocating chunk; the
  percentage of chunks to give back is 100, since 30, that of the code, needs more
  chunks to have an effect. The theorems are for any percentage. Two
  interchangeable small values, one large block and one block without a count
  form chains of references and cascades. Counts up to 2 tell shared from unique.
* Tables: two interchangeable emitters are enough for merges in both directions,
  of merged strings too. Entries hold two to four elements, so three to seven
  emits fill them, overflow them and merge full ones. Elements with equal weights,
  hashes or tags are always among them. Integers wrap at 8 (4 in maps); bytes of a
  hash have 2 bits; the sketch has tables of two cells, in which any two elements
  collide somewhere. Some kinds come in further instances. `flat top` has a sketch in
  which nothing collides, so that a moved weight can be followed, `tall top` a
  higher heap of candidates. `low unique` has hashes with more leading zero bytes than the
  estimate expects, zero among them. `wide quantile` has more buffers. The count of a
  new maximum entry starts as 0 or 1, for what its memory held, and wraps at 4.
* Compile: the programs are fixed and the code is deterministic, so a run of a
  program is one behaviour per choice of the flags. What varies is the programs:
  each combines constructs that share state (a trap inside a call inside an
  initialization, a closure over a variable that is assigned, a break out of
  nested switches and loops).
* Library: two variables, values of two or three elements and four statements
  reach a slice of a slice, a store to a shared slice and one that must move.
  Three keys, two with the same hash at times, chain, grow and rehash a map of two
  cells. Words have few bits, so tagged integers overflow.

### Fairness and deadlock

The interpreter loop and the code that follows it run in the thread of the
caller: once entered they go on, so `Process` has weak fairness of `Interpret`
and of `Return`, and `Compile` is scheduled until its program stops. Nothing
obliges a client to call, and nothing has to be emitted, so the other modules
have no fairness and state no liveness, and deadlock is not checked: a client may
stop.

## 4. What is proved

TLAPS proves the theorems below for all modes, client behaviours, sets of labels,
objects, slots, sizes, emitters and elements. The runs of section 3 check the same definitions on small
instances. The only assumptions are those on the constants in `Process`
(`ModeAssumption`, `BoundAssumption`) and `Heap` (`SizesAssumption`,
`ObjsAssumption`: finitely many objects and slots, block sizes between the smallest
block and a chunk, and pointers that tell chunks, malloc blocks and NULL apart), and
where a theorem needs it, what the client does or does not do.

### Process

| Theorem | For clients that | States |
| --- | --- | --- |
| `TypeCorrect` | do anything | No frame is addressed that does not exist, no expression stack is popped below its bottom |
| `StepsBoundedAlways` | do anything | A slice never runs more than `max_steps + 2` instructions |
| `MarkBracketsAlways` | do anything | The heap is marked exactly while a record is run or a call session is open |
| `UndefCountedOnceAlways` | do anything | A record counts at most once among those with undefined values |
| `RootsValidAlways` | do not use `StartCall` | No additional input and no trap message outlives its memory |
| `BasePointerAlways` | do not use `StartCall` | Instructions address the variables of the current frame, unless they follow `set_bp` or `call` |
| `CallFrameReadyAlways` | do not use `StartCall` | The frame of `$main` is alone on the stack, with nothing on its expression stack, whenever a call can be made |
| `OutcomeReportedAlways` | do not look up functions between calls, nor call with `kIgnoreUndefs` | A run or call that failed has a message, one that ended well has none, with `DoCall` and in instalments |
| `ChecksHoldAlways` | do not use `StartCall`, look up functions between calls, nor call with `kIgnoreUndefs` or for more than `kint32max` steps | No `CHECK` of `Process`, `Proc` and `Memory::Mark` fails, except in the two calls of section 5 |
| `ImplementsProcStatusAlways` | run records | Every step is one of the diagram in `proc.h` or leaves the status alone |
| `ImplementsCallSessionAlways` | make calls of at most `kint32max` steps | Every step is one of the protocol in `sawzall.h` or leaves the session alone |

Each restriction is needed: section 5 has the run, or the observation, that shows
what happens without it. `Incremental`, `LookupAnytime`, `LongCalls`, `DoCalls`
and `IgnoreUndefs` are their names in the theorems.

The type invariant is not inductive: that a `ret` finds a frame to return to
depends on which call is in progress. `IInv` (`ProcessProofs`) adds

* `ApiInv`: which client call goes with which call state and status,
* `StackInv`: a current frame exists wherever one is used, it holds the arguments
  of the function to be entered, and a call never returns past its caller,
* `StepInv`: how far the count may be over the limit while `bp` or `return_pc` is
  not canonical.

`InitIInv`, `ClientCallIInv`, `InterpretIInv` and `ReturnIInv` show that it holds
initially and is preserved, with one step per action; lemmas about the stack
(`SetHeightLemma`, `PushLemma`, `PopLemma`), the trap handler and `Cleanup` carry
the common parts. The other theorems are proved relative to `IInv`, each with what
it needs in addition:

* `RootInv`: when the roots are known to be cleared. `UndefInv`: the flag that
  guards the count. `NoInstalments`: a client without `StartCall` continues nothing.
* `SessionInv` and `ErrInv`: which status goes with which
  state of a session, and that there is a message exactly where a failure is told.
  Without the first, a message left by a lookup could not be told from one of the
  call.
* `FramesInv` (`ProcessFrameProofs`): whether `DoCall` finds the frame of `$main`
  again depends on the return address of every frame above it. `LinkInv` says
  that exactly the frames above `Bottom` (the static frame, that of `$main`, or that
  of the called function) have one, `EntryInv` the same of a frame that is about
  to be entered, `DepthInv` how deep the stack is while `$main` runs and
  `CallerInv` what the expression stack of `$main` holds between calls, during one
  and when one has returned.
* `HeapInv` (`ProcessFrameProofs`): what `SetupRun` and `SetupCall` find of the
  heap: nothing above the mark, unless the client has added an input
  (`InputAdded`). `InitCallsInv`: `InitializeDoCalls` comes
  before any session.

The two refinements show that the initial states map to initial states and that
every step maps to a step of the abstract specification or to a stutter, action by
action. Both abstract specifications are safety only.

### Heap

`HeapProofs` states six theorems, without any further hypothesis:

* `PointersValidAlways`: a pointer in a slot or in a value that can still be used
  leads to the object it was set to, through allocation, reuse of free blocks,
  compaction and `Release`.
* `RefCountsAlways`: a count never falls below the number of references, and it is
  exact for what was allocated since `Mark`.
* `FreeListAlways`: the free list has only free blocks above the marks, each once
  and in the list of its size.
* `MarkChecksAlways`: the `CHECK`s of `Mark` hold whenever it can be called.
* `PremarkKeptAlways` (an action property): no step frees, moves or splits what is
  below the marks.
* `CollectionCompleteAlways` (an action property): a collection leaves no hole and
  no counted small value without a reference above the marks.

None of them is inductive alone: that compaction adjusts every pointer needs the
layout of the chunks, that a scan deletes only what nothing refers to needs exact
counts, and that counts of old values need not be exact needs `Mark`'s promise.
`HInv` is their combination:

* `Layout`: blocks of a chunk do not overlap and lie between its data and its top,
  none crosses the mark (`Tidy`), an object sits in one block (`Unique`), and only
  chunks from before the first `Mark` have a mark (`Marks`);
* `Pointing`: slots and values lead to what they were set to, and what has no
  count is referred to by one slot at most;
* `Counting`: counts cover the references, and are exact where they decide;
* `Settled`: after the first `Mark` nothing static or old refers to anything newer,
  and an old object that is referred to at all is referred to by something static
  or old. A local slot is thus never the last reference to an old object, although
  `Release` forgets references without decreasing counts;
* `FreeListOK`: while the free list is in use it lists free blocks of its chunks;
* `Resting`: between runs the allocating chunk is the first and its top is its mark.

The proof is in five modules. `HeapBlockProofs` has what the operations do to a
single chunk and to the free list, the parts of the invariant, and that freeing and
the two scans, with their cascades, keep `Good` (the first five parts) and remove
only what is unused. Three modules extend it: `HeapAllocProofs` with each path of
`Alloc`, `HeapStoreProofs` with what the program does with references, and
`HeapMarkProofs` with compaction, `Mark` and `Release`. `HeapProofs` extends these
three with one step per action and the theorems. Most lemmas are about a single `h`, not about the variable `heap`, so that they apply to every
intermediate state of an action that scans, coalesces, retries and allocates.
The compaction of a chunk maps an offset to the number of live bytes between the
mark and it; that no two live blocks meet is proved with cardinalities of sets of
addresses.

### Sum tables

`SzlSumProofs` states four theorems for any number of emitters, indices, emits and
elements and any width of an integer (`SumAssumption`: emitters and elements are
finite, the width is positive, an emitted integer fits it):

* `MergeAcceptsAlways`: `Merge` refuses no string that `Flush` made.
* `EmitsConservedAlways`: every complete emit is in exactly one entry or one written
  string of its index, however often entries are flushed and strings merged, and in
  whatever order.
* `CountsAndResultsAlways`: `tot_elems_` is the number of emits in the entry, and the
  results reader shows what the entry displays.
* `SumExactAlways` (tables of integers): the sum is that of the emits in the entry,
  modulo the width.

The first three hold of sums of maps as well. The invariant `IInv` says of every
entry and of every written string that its count and (for integers) its sum are
those of the emits recorded with it (`Exact`, `ExactString`), that the bag of
strings is finite with positive counts, and `EmitsConserved`. An entry without emits
flushes to nothing, so that `Flusher` loses no emit is the point where the count has
to be exact. The sums over entries and strings are `MapThenSumSet`; the first part of
the module proves what a change of one value, a new element or a removed one does to
such a sum. Its induction is over the subsets of a finite set, stated for a set of
subsets (`SubsetInduct`) since the prover cannot instantiate a predicate.

### What is only model-checked

* Liveness: `ExecuteReturns` and `Finishes`. The prover has no support for fairness
  and ENABLED.
* Everything that rests on recursive operators, which the prover cannot handle: the
  compiler (`Ast` and all modules that use it, hence the run `compile`), `Forms`
  (run `library`), and `SzlQuantile`, `SzlTop` and `TopHeap` (run `tables`, whose
  module puts all kinds together).
* What folds over sequences compute for every input (the sum of two maps, the other
  tables, the chains of a map of the language): it would take induction over data.

## 5. Where code and documentation disagree

Each of these has a run that ends in a violation and a finding that quotes the
documentation.

* `docall_ignore_undefs`: with `kIgnoreUndefs`, an undefined variable in a called
  function makes the call fail without a message, and the `CHECK` at the end of
  `DoCall` stops the program (`proc.cc:1067`).
* `continue_call_base`: `ContinueCall` resumes with the base pointer of the entry
  of the function instead of the current frame (`proc.cc:664`).
* `abandoned_call_roots`: `FinishCall` of a suspended call releases the heap
  while additional inputs point into it (`proc.cc:709`).
* `closure_stack`: a function that calls a closure uses a slot of the expression
  stack more than its `enter` has checked for (`codegen.cc:1040`).
* `switch_break`: value propagation does not record the values at a `break` out of a
  `switch`, and replaces a variable by the wrong constant
  (`propagatevalues.cc:1337`).

Further observations made while modelling. Those with a name in parentheses are in
the models of the passing runs, and the property of that name states what the code
does; the others have no run.

* `proc.cc:332` checks that the last run terminated; `proc.h:95` allows
  `SetupRun` after `FAILED`. (`ChecksHold`, its case `SetUpAfterFailure`)
* `proc.cc:370` clears the additional inputs that the example in
  `additionalinputintrinsic.cc:36` adds before the run; after the first record the
  input is also above the mark, and the `CHECK` of `Memory::Mark` fails.
  (`ChecksHold`, its case `InputBeforeSetup`)
* A `DoCall` that uses up its steps leaves `SUSPENDED` behind (`proc.cc:566`),
  an outcome that `proc.h:158` does not name. The constant `LongCalls` stands for it.
* A failed `LookupFunction` leaves its message for the call that follows
  (`proc.cc:480`, `proc.h:159`). The constant `LookupAnytime` stands for it.
* `proc.h:189` says `RUNNING` of a `ContinueCall` that is not finished; the
  status is `SUSPENDED` (`proc.cc:674`).
* `FinishCall` of a suspended call leaves the frame of `$main` as it is
  (`proc.cc:707`), which the `assert` of the next `StartCall` (`proc.cc:612`)
  does not expect.
* `HandleTrap` reads `gp_->at(undef_cnt_index_)` before it tests that the index
  is positive (`proc.cc:1009`).
* `memory.h:56` says that the free list is discarded at the next instruction; an
  instruction that traps leaves `Engine::Execute` (`engine.cc:1874`) before
  `CheckForGC`, and the free list stays in use with no collection pending.
  `FreeListAlways` shows that it stays sound.
* The counter of a new maximum entry is not initialized (`szlmaximum.cc:70`), so
  `Merge` may refuse what `Flush` made. (`MergeAccepts`, which says when)
* An overflowed set flushes to the empty string (`szlset.cc:108`), so that who merges
  the others may report a set that is too small. (`CountsConserved`, its part
  `LostByOverflowOnly`)
* `Merge` of the top table walks the heap of candidates while it reorders it
  (`szltop.cc:331`) and may miss some. (`SumsExact`, its part `AdjustedOnce`)
* `SzlUnique` writes hashes of 24 bytes (`szlunique.cc:119`), and the results reader,
  which refers to it for the format (`szluniqueresults.cc:29`), accepts strings with
  hashes of 8 only (lines 33 and 172). (`EstimateSound`)
* `Estimate` unpacks a hash to the first bytes of an array (`szlunique.cc:309`) and
  may read on into those that were never set. The estimate stays within its bounds
  whatever they hold. (`EstimateSound`)
* `szlsample.cc:18` says that the elements with the smallest tags are kept; the
  heap (line 107) keeps those with the largest. The sample is as random.
* The loop at `szlquantile.cc:110` ends with the first `b` that fails the first
  inequality of its comment, and `k` is rounded down (line 113), so the second
  one may fail too.
* `Engine::DoSlice` compares rune indices with a length in bytes
  (`engine.cc:183`), so an end behind the last rune may get past it and fail an
  assertion of `PutSliceImpl` (`val.cc:457`). (`ContentsAgree`, its part
  `StoreInRange`)
* `ArrayVal::PutSlice` on a slice whose owner was narrowed in place moves elements
  to the owner's base without regard to its own range (`val.cc:256`), and the slice
  is read from other slots. (`ContentsAgree` and `StructureSound` exclude what
  follows such a store, `ElementsCounted` what happens to the counts of elements)
* Two floats are equal when they compare equal, and hashed by their bits
  (`form.cc:331`), so `0.0` and `-0.0` are different keys of a map.
  (`FunctionsAgree`)
* The smallest integer divided by -1 is undefined in C++ and not tested for
  (`engine/taggedptrs.h:134`): the program ends or the quotient wraps.
  (`FunctionsAgree`)

## 6. What is not modelled

* Native code: its correctness is a statement about x86 instructions. Resource
  statistics and raw output of `Proc`; instructions on floats, fingerprints and times.
* When a collection is due (a free choice in `Heap`), heap statistics and debug
  checks; the memory estimates of tables (`AddHash` of a unique table has a path
  without a return value, `szlunique.cc:192`, which only feeds one).
* Floating-point error, the distribution of random numbers and the quality of
  hashes: samples and sketches are checked for what holds for every draw.
* The framing of one emit (`Begin`, `Put`, `End`), the encodings below the level
  of a field, and tables that write every value through (collection, text,
  recordio, mrcounter).
* Scanner, parser and type checker: programs start as typed trees.
* Protocol buffers, formatted output, utilities and tools.
