------------------------------ MODULE Analyzer ------------------------------
(***************************************************************************)
(* The passes over the syntax tree, in the order in which Analyzer::analyze*)
(* makes them (engine/analyzer.cc), and how a compilation starts           *)
(* (engine/compiler.cc).                                                   *)
(***************************************************************************)
EXTENDS CodeGen

CONSTANT kMaxFoldedNewLength    \* the longest string made at compile time

CC == INSTANCE ClosureCheck
FR == INSTANCE FieldReferences
PV == INSTANCE PropagateValues
RA == INSTANCE RewriteAsserts
WA == INSTANCE When

(* A pass changes the tree; it may report errors and fail assertions. *)
Pass(new_ast, errors, asserts) ==
    /\ ast' = new_ast
    /\ cg' = [cg EXCEPT !.errors = @ + errors, !.asserts = @ \cup asserts]
    /\ todo' = Tail(todo)
    /\ UNCHANGED <<prog, flags>>

(* Unreachable functions stay if they may be called from outside. *)
CheckAndOptimizeFunctions ==
    /\ Calling("CheckAndOptimizeFunctions")
    /\ \E r \in {CC!CheckAndOptimizeFunctions(P, ~flags.unreturned)} :
          Pass(r.P, Cardinality(r.errors), r.asserts)

SetReferencedFields ==
    /\ Calling("SetReferencedFields")
    /\ \E Q \in {FR!SetReferencedFields(P)} : Pass(Q, 0, {})

PropagateValues ==
    /\ Calling("PropagateValues")
    /\ \E r \in {PV!PropagateValues(P, flags.ignore_undefs)} : Pass(r.P, 0, r.asserts)

RewriteAsserts ==
    /\ Calling("RewriteAsserts")
    /\ \E Q \in {RA!RewriteAsserts(P)} : Pass(Q, 0, {})

(* Nothing is generated for a program with errors. *)
DoCompile == Calling("DoCompile") /\ Do(0, IF cg.errors > 0 THEN <<>> ELSE << <<"Generate">> >>)

AnalyzerStep ==
    \/ CheckAndOptimizeFunctions \/ SetReferencedFields \/ PropagateValues \/ RewriteAsserts
    \/ DoCompile

analyze ==
    << <<"CheckAndOptimizeFunctions">>, <<"SetReferencedFields">> >>
    \o (IF flags.optimize THEN << <<"PropagateValues">>, <<"RewriteAsserts">> >> ELSE <<>>)

(* The parser rewrites when statements as it goes.  Nothing is analyzed    *)
(* when it found errors.                                                   *)
CompileStart ==
    /\ prog \in DOMAIN Programs
    /\ flags \in Flags
    /\ \E r \in {WA!RewriteWhens(Programs[prog])} :
          /\ ast = IF r.errors > 0 THEN r.P ELSE Parsed(r.P)
          /\ todo = IF r.errors > 0 THEN <<>> ELSE analyze \o << <<"DoCompile">> >>
          /\ cg = [CodeGenInit EXCEPT !.errors = r.errors]
=============================================================================
