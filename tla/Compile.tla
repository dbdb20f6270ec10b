------------------------------ MODULE Compile ------------------------------
(***************************************************************************)
(* A Sawzall program from its syntax tree to its output: the passes of the *)
(* analyzer, the code generator, and the byte code interpreter that        *)
(* initializes the statics and runs the program once.                      *)
(***************************************************************************)
EXTENDS Analyzer, Engine

CONSTANT Expected       \* for every program, what it is to emit

Init == CompileStart /\ m = EngineInit
Next == \/ AnalyzerStep /\ UNCHANGED m
        \/ CodeGenStep /\ UNCHANGED m
        \/ EngineStep
        \/ Stopped /\ UNCHANGED evars

(* The compiler and the interpreter run in one thread, which is scheduled  *)
(* again and again until the program stops.                                *)
Fairness == []<><<TRUE>>_evars \/ []<>Stopped
Spec == Init /\ [][Next]_evars /\ Fairness

-----------------------------------------------------------------------------
(* No assertion fails: not in the passes and in the code generator, unless *)
(* an error was reported, and not in the interpreter.                      *)
AssertionsHold == (cg.errors = 0 => cg.asserts = {}) /\ m.fatal = {}

(* A value as the numbers it consists of, with the length of each list. *)
RECURSIVE Flat(_)
Flat(v) == CASE v[1] = "int" -> <<v[2]>>
             [] v[1] = "bool" -> <<IF v[2] THEN 1 ELSE 0>>
             [] OTHER -> <<Len(v[2])>> \o FlattenSeq([i \in DOMAIN v[2] |-> Flat(v[2][i])])
Outcome(out, failed) ==
    [out |-> [i \in DOMAIN out |-> FlattenSeq([j \in DOMAIN out[i] |-> Flat(out[i][j])])], failed |-> failed]
ExpectedOutcome(e, ignore) ==
    IF ignore \/ e.stop = -1 THEN [out |-> e.out, failed |-> e.failed]
    ELSE [out |-> SubSeq(e.out, 1, e.stop), failed |-> TRUE]

(* A program that is correct emits what it means, whatever is optimized    *)
(* and whether undefined values are ignored; until the first one that is   *)
(* not ignored it emits the same.  A program with an error is rejected.    *)
(* When an emitter fails, so does the program, and what it emitted until   *)
(* then is the beginning of what it means.                                 *)
OutputAgrees ==
    Stopped => IF Expected[prog].rejected THEN cg.errors > 0
               ELSE LET outcome == Outcome(m.out, m.status = "FAILED")
                        expected == ExpectedOutcome(Expected[prog], flags.ignore_undefs)
                    IN  /\ cg.errors = 0
                        /\ IF m.emitter_error THEN outcome.failed /\ IsPrefix(outcome.out, expected.out)
                           ELSE outcome = expected

(* Between instructions the reference count of an object is the number of  *)
(* the references to it: in the stack, in other objects, and, for a        *)
(* literal, in the code.  Also when a trap unwinds the stack.              *)
Executing == m.phase # "compile" /\ m.status # "FAILED"
Occurrences(list, id) == Cardinality({i \in DOMAIN list : list[i] = Ptr(id)})
RECURSIVE SumOver(_, _, _)
SumOver(heap, ids, id) ==
    IF ids = {} THEN 0
    ELSE LET other == CHOOSE x \in ids : TRUE
         IN  Occurrences(heap[other].e, id) + SumOver(heap, ids \ {other}, id)
RefCountsExact ==
    Executing => \A id \in DOMAIN m.heap :
        m.heap[id].ref = Occurrences(m.stk, id) + SumOver(m.heap, DOMAIN m.heap, id)
                         + (IF id \in DOMAIN cg.lits THEN 1 ELSE 0)

(* No instruction changes a literal of the code, or deletes it: what is    *)
(* changed is always a copy.                                               *)
LiteralsConstant ==
    [][Executing => \A id \in DOMAIN cg.lits :
            id \in DOMAIN m'.heap /\ m'.heap[id].e = cg.lits[id].e]_evars

(* The frames of the stack: where the frame is, its activation and its     *)
(* static link.                                                            *)
RECURSIVE frames(_)
frames(fp) ==
    IF fp <= m.gp THEN {}
    ELSE {[fp |-> fp, act |-> act_of(fp), link |-> m.stk[fp + 1][3]]} \cup frames(m.stk[fp + 1][2])

(* The expression stack of a function never grows higher than "enter" has  *)
(* checked that there is room for.                                         *)
Entered == m.phase = "run" /\ m.status = "RUNNING" /\ m.fp > m.gp /\ Instr[1] # "enter"
StackReserved ==
    Entered => Len(m.stk) - (m.fp + 1) <= cg.code[entry_of(cg.entry[fun_at(m.pc)])][3]

(* The static link of a frame leads to a frame that is still on the stack, *)
(* and to the very activation that the function is nested in: for a        *)
(* function called through a closure the one that was running, or that the *)
(* running one was nested in, when the closure was made, although newer    *)
(* activations of the same function may lie above it.                      *)
ContextAlive ==
    Entered => LET all == frames(m.fp)
               IN  \A frame \in all :
                      LET call == m.acts[frame.act]
                      IN  context_of(call.fun) # "none" =>
                             \E other \in all : /\ other.act = call.outer /\ other.fp = frame.link
                                               /\ other.fp < frame.fp

(* Every compilation comes to an end, and so does every run of these       *)
(* programs.                                                               *)
Finishes == <>Stopped
=============================================================================
