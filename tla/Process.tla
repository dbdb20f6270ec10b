------------------------------ MODULE Process ------------------------------
(***************************************************************************)
(* The life of one sawzall::Process (src/src/engine/sawzall.cc) and of the *)
(* Proc it owns (src/src/engine/proc.cc): the client calls of the public   *)
(* interface, the interpreter loop they start (src/src/engine/engine.cc,   *)
(* seen at the level of frames, base pointer and expression-stack heights),*)
(* the trap handler, and what the heap's Mark and Release do to the values *)
(* that the Proc keeps outside its frames (additional inputs and trap      *)
(* messages).                                                              *)
(*                                                                         *)
(* Frame numbers stand for Frame*: 0 is NULL, GP is the static frame, MAIN *)
(* the frame of $main.  A client call that runs the interpreter is three   *)
(* parts: the call itself (api says which), one step per instruction, and  *)
(* the part after Engine::Execute has returned.                            *)
(***************************************************************************)
EXTENDS Integers, Sequences

CONSTANTS
  DoCalls,       \* mode bit kDoCalls: functions are called, records are not run
  IgnoreUndefs,  \* mode bit kIgnoreUndefs
  Incremental,   \* the client uses StartCall/ContinueCall rather than DoCall
  LongCalls,     \* a DoCall may need more than max_steps (kint32max) steps
  LookupAnytime, \* the client also looks functions up between SetupCall and the call
  Keys,          \* labels of additional inputs
  Lock,          \* the label that lockadditionalinput() adds
  MaxSteps,      \* max_steps of Execute and ContinueCall
  MaxDepth,      \* frames that fit on the interpreter stack
  MaxHeight      \* bound on the expression stack of one frame

ASSUME ModeAssumption ==
  /\ DoCalls \in BOOLEAN /\ IgnoreUndefs \in BOOLEAN /\ Incremental \in BOOLEAN
  /\ LongCalls \in BOOLEAN /\ LookupAnytime \in BOOLEAN
ASSUME BoundAssumption ==
  /\ Lock \in Keys
  /\ MaxSteps \in Nat \ {0}
  /\ MaxDepth \in Nat
  /\ MaxHeight \in Nat \ {0, 1}

VARIABLES
  status,       \* Proc::status_
  initialized,  \* Proc::initialized_
  callState,    \* Process::do_call_state_
  api,          \* the client call in progress, or "none"
  initCalls,    \* InitializeDoCalls has not returned yet
  err,          \* error_msg() # NULL, that is trap_info_ # NULL
  seenUndef,    \* Proc::seen_undef_
  undefs,       \* what this record added to Proc::undef_cnt_
  crashed       \* a CHECK failed and the program is gone

VARIABLES
  stack,    \* frames: expression-stack height, static link, "has a return_pc"
  bp,       \* the interpreter's base pointer
  bpSet,    \* bp was set by a set_bp or a call in this Engine::Execute
  atEntry,  \* the next instruction is the enter of a function
  retPc,    \* the interpreter's return_pc # NULL
  argc,     \* arguments pushed for the function about to be entered
  retU,     \* the next instruction is the retU of the trapped function
  retVal,   \* the called function has left its result on the stack
  steps,    \* *num_steps
  startBp,  \* start_call_.bp_
  callFp    \* start_call_.fp_ or saved_fp_

VARIABLES
  inputs,    \* additional_input_: "none", "live" or "dangling" for each label
  vti,       \* trap messages held by var_trapinfo_: "none", "live", "dangling"
  clearVti,  \* clear_var_trapinfo_
  marked,    \* Memory::post_mark_
  everMarked,\* Memory::chunks_at_mark_ > 0
  dirty      \* something was allocated above the mark

apiVars   == <<status, initialized, callState, api, initCalls, err, seenUndef, undefs, crashed>>
frameVars == <<stack, bp, bpSet, atEntry, retPc, argc, retU, retVal, steps, startBp, callFp>>
heapVars  == <<inputs, vti, clearVti, marked, everMarked, dirty>>
vars      == <<apiVars, frameVars, heapVars>>

Status    == {"RUNNING", "SUSPENDED", "TRAPPED", "TERMINATED", "FAILED"}
CallState == {"UNINITIALIZED", "ILLEGAL", "INITIALIZED", "SETUP", "CALLED",
              "STARTED", "CONTINUED", "FINISHED"}
Root      == {"none", "live", "dangling"}

GP   == 1
MAIN == 2
fp   == Len(stack)

Frame(height, link, ret) == [h |-> height, sl |-> link, ret |-> ret]

\* The expression stack of the current frame.
Height    == stack[fp].h
SetHeightOff(n) == [stack EXCEPT ![fp].h = n - 1]
SetHeight(n) == [stack EXCEPT ![fp].h = n]

Init ==
  /\ status = "TERMINATED" /\ initialized = FALSE /\ callState = "UNINITIALIZED"
  /\ api = "none" /\ initCalls = FALSE /\ err = FALSE
  /\ seenUndef = FALSE /\ undefs = 0 /\ crashed = FALSE
  /\ stack = <<>> /\ bp = 0 /\ bpSet = FALSE /\ atEntry = FALSE /\ retPc = FALSE
  /\ argc = 0 /\ retU = FALSE /\ retVal = FALSE /\ steps = 0
  /\ startBp = 0 /\ callFp = 0
  /\ inputs = [k \in Keys |-> "none"] /\ vti = "none" /\ clearVti = FALSE
  /\ marked = FALSE /\ everMarked = FALSE /\ dirty = FALSE

-----------------------------------------------------------------------------
(* The heap, as the Proc sees it (Memory is modelled in Heap.tla).         *)

\* Defects: a Release that leaves the chunks as they are, inputs that are not
\* cleared.
ReleaseKeepsChunks(ins, v) ==
  /\ inputs' = ins /\ vti' = v /\ marked' = FALSE /\ UNCHANGED <<dirty, everMarked>>
InputsKept == inputs

\* Memory::Mark checks that nothing was allocated since the last Release;
\* its first call takes everything allocated so far as static.
MarkCheck == everMarked => ~dirty
Mark == /\ marked' = TRUE /\ everMarked' = TRUE /\ dirty' = FALSE

Dangle(r) == IF r = "live" THEN "dangling" ELSE r

\* Memory::Release drops what was allocated above the mark, whoever holds it.
\* Without a Mark there is nothing above it.
Release(ins, v) ==
  /\ inputs' = [k \in Keys |-> IF marked THEN Dangle(ins[k]) ELSE ins[k]]
  /\ vti' = IF marked THEN Dangle(v) ELSE v
  /\ marked' = FALSE /\ dirty' = FALSE
  /\ UNCHANGED everMarked

NoInputs == [k \in Keys |-> "none"]

-----------------------------------------------------------------------------
(* Client calls                                                            *)

Client == api = "none" /\ ~crashed

\* A CHECK that does not hold ends the program.
Die == /\ crashed' = TRUE
       /\ UNCHANGED <<status, initialized, callState, api, initCalls, err,
                      seenUndef, undefs, frameVars, heapVars>>

\* Process::SetupInitialization and Proc::SetupInitialization; as the first
\* part of InitializeDoCalls when the program is there to be called.  A client
\* may come back after an initialization that failed, as proc.h has it.
SetupInitialization ==
  /\ Client
  /\ callState = "UNINITIALIZED" \/ (callState = "ILLEGAL" /\ status = "FAILED" /\ ~initialized)
  /\ IF initialized \/ status # "TERMINATED" THEN Die ELSE
     /\ callState' = "ILLEGAL" /\ initCalls' = DoCalls
     /\ err' = FALSE /\ seenUndef' = FALSE /\ undefs' = 0
     /\ status' = "SUSPENDED"
     /\ stack' = <<>> /\ atEntry' = TRUE /\ argc' = 0
     /\ UNCHANGED <<initialized, api, crashed, bp, bpSet, retPc, retU, retVal,
                    steps, startBp, callFp, heapVars>>

\* What SetupRunOrCall resets, messages of the last record included.
ResetRun ==
  /\ err' = FALSE /\ seenUndef' = FALSE /\ undefs' = 0
  /\ vti' = IF clearVti THEN "none" ELSE vti
  /\ clearVti' = FALSE

\* Process::SetupRun, Proc::SetupRun: the heap is marked unless kDoCalls, key
\* and input are allocated and pushed for $main, and the additional inputs
\* are cleared last.  A client may go on after a run that FAILED, as proc.h has
\* it.
SetupRun ==
  /\ Client /\ initialized /\ callState = "ILLEGAL"
  /\ DoCalls => initCalls
  /\ status \in {"TERMINATED", "FAILED"}
  /\ IF status # "TERMINATED" \/ (~DoCalls /\ ~MarkCheck) THEN Die ELSE
     /\ IF DoCalls THEN UNCHANGED <<marked, everMarked>>
                   ELSE marked' = TRUE /\ everMarked' = TRUE
     /\ dirty' = TRUE
     /\ ResetRun
     /\ status' = "SUSPENDED"
     /\ stack' = <<[stack[GP] EXCEPT !.h = 2]>>
     /\ atEntry' = TRUE /\ argc' = 2
     /\ inputs' = NoInputs
     /\ UNCHANGED <<initialized, callState, api, initCalls, crashed, bp, bpSet,
                    retPc, retU, retVal, steps, startBp, callFp>>

\* Proc::AddInput from the client (SetIdentifier): between SetupRun and the
\* first Execute, or, as the usage example has it, before Run.
AddInput(k) ==
  /\ Client /\ initialized /\ ~DoCalls
  /\ status \in {"TERMINATED", "SUSPENDED"}
  /\ inputs' = [inputs EXCEPT ![k] = "live"]
  /\ dirty' = TRUE
  /\ UNCHANGED <<apiVars, frameVars, vti, clearVti, marked, everMarked>>

\* Process::SetupCall and Proc::SetupCall, which accepts a FAILED Proc.
SetupCall ==
  /\ Client /\ callState \in {"INITIALIZED", "FINISHED"}
  /\ IF ~initialized \/ status \notin {"TERMINATED", "FAILED"} \/ ~MarkCheck THEN Die ELSE
     /\ Mark /\ ResetRun
     /\ status' = "SUSPENDED" /\ callState' = "SETUP"
     /\ UNCHANGED <<initialized, api, initCalls, crashed, frameVars, inputs>>

\* Process::LookupFunction for a name that is no function: it only leaves an
\* error message behind.
LookupFunction ==
  /\ Client
  /\ callState \in {"INITIALIZED", "FINISHED"} \union (IF LookupAnytime THEN {"SETUP"} ELSE {})
  /\ err' = TRUE
  /\ UNCHANGED <<status, initialized, callState, api, initCalls, seenUndef,
                 undefs, crashed, frameVars, heapVars>>

\* The assertions with which DoCall and StartCall begin: the current frame is
\* the one that $main left behind, with an empty expression stack.
CallFrame == /\ fp = MAIN /\ stack[MAIN].sl = GP /\ ~stack[MAIN].ret
             /\ stack[MAIN].h = 0

\* Both calls push the arguments and aim the pc at the function's entry; the
\* context of the closure is the static frame or the frame of $main.
PushCall(n) ==
  /\ stack' = SetHeight(n) /\ argc' = n /\ atEntry' = TRUE
  /\ callFp' = fp /\ retVal' = FALSE /\ dirty' = TRUE

\* Defects: a call that is refused and does not say so; an execution that always
\* starts at the static frame.
WrongArgsUntold ==
  UNCHANGED <<status, err, initialized, api, initCalls, seenUndef, undefs, crashed,
              frameVars, heapVars>>
EnterEngineAtGP(name, base) ==
  /\ api' = name /\ status' = "RUNNING"
  /\ bp' = GP /\ bpSet' = FALSE /\ retPc' = FALSE /\ steps' = 0

\* A call with the wrong number of arguments fails before anything is pushed.
WrongArgs ==
  /\ status' = "FAILED" /\ err' = TRUE
  /\ UNCHANGED <<initialized, api, initCalls, seenUndef, undefs, crashed,
                 frameVars, heapVars>>

EnterEngine(name, base) ==
  /\ api' = name /\ status' = "RUNNING"
  /\ bp' = base /\ bpSet' = FALSE /\ retPc' = FALSE /\ steps' = 0

\* Process::DoCall, Proc::DoCall up to the call of Engine::Execute.
DoCall ==
  /\ Client /\ callState = "SETUP" /\ ~Incremental
  /\ IF ~CallFrame THEN Die ELSE
     \/ callState' = "CALLED" /\ WrongArgs
     \/ \E n \in 0..1, context \in {GP, fp} :
          /\ PushCall(n)
          /\ callState' = "CALLED"
          /\ EnterEngine("DoCall", context)
          /\ UNCHANGED <<initialized, initCalls, err, seenUndef, undefs, crashed,
                         retU, startBp, inputs, vti, clearVti, marked, everMarked>>

\* Process::StartCall, Proc::StartCall.
StartCall ==
  /\ Client /\ callState = "SETUP" /\ Incremental
  /\ IF ~CallFrame THEN Die ELSE
     \/ callState' = "STARTED" /\ WrongArgs
     \/ \E n \in 0..1, context \in {GP, fp} :
          /\ PushCall(n)
          /\ callState' = "STARTED" /\ startBp' = context
          /\ UNCHANGED <<status, initialized, api, initCalls, err, seenUndef, undefs,
                         crashed, bp, bpSet, retPc, retU, steps,
                         inputs, vti, clearVti, marked, everMarked>>

\* Proc::ContinueCall up to the call of Engine::Execute: the base pointer is
\* always the one StartCall found.  The client stops after the call finished.
ContinueCall ==
  /\ Client /\ callState \in {"STARTED", "CONTINUED"}
  /\ \/ /\ status = "SUSPENDED"
        /\ EnterEngine("ContinueCall", startBp)
        /\ UNCHANGED <<callState, initialized, initCalls, err, seenUndef, undefs, crashed,
                       stack, atEntry, argc, retU, retVal, startBp, callFp, heapVars>>
     \/ /\ status = "FAILED" /\ callState = "STARTED"
        /\ callState' = "CONTINUED"
        /\ UNCHANGED <<status, initialized, api, initCalls, err, seenUndef, undefs,
                       crashed, frameVars, heapVars>>

\* Defect: a session that is not told to be finished.
FinishCallKeeps ==
  /\ Client /\ callState \in {"SETUP", "CALLED", "STARTED", "CONTINUED"}
  /\ status' = IF status = "SUSPENDED" THEN "TERMINATED" ELSE status
  /\ Release(inputs, vti)
  /\ UNCHANGED <<callState, initialized, api, initCalls, err, seenUndef, undefs, crashed,
                 frameVars, clearVti>>

\* Process::FinishCall, Proc::FinishCall: legal in every state of a call, one
\* that was set up or started and is not finished included.
FinishCall ==
  /\ Client /\ callState \in {"SETUP", "CALLED", "STARTED", "CONTINUED"}
  /\ callState' = "FINISHED"
  /\ status' = IF status = "SUSPENDED" THEN "TERMINATED" ELSE status
  /\ Release(inputs, vti)
  /\ UNCHANGED <<initialized, api, initCalls, err, seenUndef, undefs, crashed,
                 frameVars, clearVti>>

\* Process::Execute, Proc::Execute up to the call of Engine::Execute.
Execute ==
  /\ Client /\ callState = "ILLEGAL" /\ status = "SUSPENDED"
  /\ EnterEngine("Execute", fp)
  /\ UNCHANGED <<callState, initialized, initCalls, err, seenUndef, undefs, crashed,
                 stack, atEntry, argc, retU, retVal, startBp, callFp, heapVars>>

-----------------------------------------------------------------------------
(* The interpreter: Engine::Execute, one action per kind of instruction.   *)

\* Defects: steps that are not counted, a loop that runs once too often.
CountingNever == FALSE
IterateTooOften == ~(api # "DoCall" \/ LongCalls) \/ steps <= MaxSteps \/ bp # fp \/ retPc

\* Only a DoCall that is allowed to be long counts its steps.
Counting == api # "DoCall" \/ LongCalls

\* The condition of the outer loop: an iteration is also due when bp or
\* return_pc are not in the canonical state that can be restored.
Iterate == ~Counting \/ steps < MaxSteps \/ bp # fp \/ retPc

Step == /\ api # "none" /\ status = "RUNNING" /\ ~crashed /\ Iterate
        /\ steps' = IF Counting THEN steps + 1 ELSE steps
Plain == Step /\ ~atEntry /\ ~retU

KeepApi == UNCHANGED <<initialized, callState, api, initCalls, seenUndef, undefs, crashed>>

\* case enter: the stack overflow check, then the new frame.
Enter ==
  /\ Step /\ atEntry
  /\ IF fp >= MaxDepth
     THEN /\ status' = "FAILED" /\ err' = TRUE
          /\ UNCHANGED <<stack, bp, bpSet, atEntry, retPc, argc>>
     ELSE /\ stack' = Append(IF stack = <<>> THEN stack ELSE SetHeight(Height - argc),
                             Frame(0, bp, retPc))
          /\ bp' = fp + 1 /\ bpSet' = FALSE /\ retPc' = FALSE /\ atEntry' = FALSE
          /\ argc' = 0
          /\ UNCHANGED <<status, err>>
  /\ KeepApi
  /\ UNCHANGED <<retU, retVal, startBp, callFp, heapVars>>

\* An instruction that reads or writes variables at bp and the expression
\* stack, allocating or not; bp is reset after it.
Instr ==
  /\ Plain
  /\ \E n \in {Height - 1, Height, Height + 1} \intersect 0..MaxHeight :
       stack' = SetHeight(n)
  /\ bp' = fp /\ bpSet' = FALSE
  /\ dirty' \in {dirty, TRUE}
  /\ KeepApi
  /\ UNCHANGED <<status, err, atEntry, retPc, argc, retU, retVal, startBp,
                 callFp, inputs, vti, clearVti, marked, everMarked>>

\* case set_bp: bp moves out along the static links and is not reset.
SetBp ==
  /\ Plain /\ ~bpSet /\ bp = fp /\ stack[fp].sl # 0
  /\ bp' = stack[fp].sl /\ bpSet' = TRUE
  /\ KeepApi
  /\ UNCHANGED <<status, err, stack, atEntry, retPc, argc, retU, retVal,
                 startBp, callFp, heapVars>>

\* cases call and calli, with n arguments on the stack: the context is that of
\* the closure, or bp as the set_bp before it left it.
Call ==
  /\ Plain
  /\ \E n \in 0..Height, context \in {GP, bp, fp} \union {f \in {MAIN} : initialized /\ f < fp} :
       /\ argc' = n /\ bp' = context
  /\ bpSet' = TRUE /\ retPc' = TRUE /\ atEntry' = TRUE
  /\ KeepApi
  /\ UNCHANGED <<status, err, stack, retU, retVal, startBp, callFp, heapVars>>

\* cases ret and retV: the frame and its parameters go, a result is pushed;
\* without a return_pc the call (or $main) is over.
Ret ==
  /\ Plain /\ bp = fp /\ fp > GP /\ Height = 0
  /\ ~(DoCalls /\ initialized /\ fp = MAIN)
  /\ \E result \in BOOLEAN :
       LET caller == SubSeq(stack, 1, fp - 1)
           outer  == ~stack[fp].ret
       IN /\ result => (outer => DoCalls) /\ caller[fp - 1].h < MaxHeight
          /\ stack' = [caller EXCEPT ![fp - 1].h = @ + (IF result THEN 1 ELSE 0)]
          /\ bp' = fp - 1
          /\ status' = IF outer THEN "TERMINATED" ELSE status
          /\ retVal' = IF outer THEN result ELSE retVal
  /\ bpSet' = FALSE
  /\ KeepApi
  /\ UNCHANGED <<err, atEntry, retPc, argc, retU, startBp, callFp, heapVars>>

\* case terminate, the end of the initialization code and of a $main that is
\* left unreturned: the frame stays.
Terminate ==
  /\ Plain /\ bp = fp /\ Height = 0 /\ callState = "ILLEGAL"
  /\ fp = IF initialized /\ DoCalls THEN MAIN ELSE GP
  /\ ~initialized \/ DoCalls
  /\ status' = "TERMINATED"
  /\ KeepApi
  /\ UNCHANGED <<err, stack, bp, bpSet, atEntry, retPc, argc, retU, retVal,
                 startBp, callFp, heapVars>>

\* trap_handler: an undefined variable leaves trap_info_ as it is, an error
\* sets it.
Trap ==
  /\ Plain
  /\ status' = "TRAPPED"
  /\ err' \in {err, TRUE}
  /\ KeepApi
  /\ UNCHANGED <<stack, bp, bpSet, atEntry, retPc, argc, retU, retVal, startBp,
                 callFp, heapVars>>

\* case retU: a function whose result is undefined returns into a trap of its
\* caller.
RetU ==
  /\ Step /\ retU
  /\ stack' = SubSeq(stack, 1, fp - 1)
  /\ status' = "TRAPPED" /\ retU' = FALSE
  /\ KeepApi
  /\ UNCHANGED <<err, bp, bpSet, atEntry, retPc, argc, retVal, startBp, callFp, heapVars>>

\* set_error and a message: stop, a failed assert, an emitter error.
Fail ==
  /\ Plain
  /\ status' = "FAILED" /\ err' = TRUE
  /\ KeepApi
  /\ UNCHANGED <<stack, bp, bpSet, atEntry, retPc, argc, retU, retVal, startBp,
                 callFp, heapVars>>

\* setadditionalinput, which a lock of this record disables, and
\* lockadditionalinput.
SetAdditionalInput(k) ==
  /\ Plain
  /\ inputs' = IF k # Lock /\ inputs[Lock] # "none" THEN inputs
                                                   ELSE [inputs EXCEPT ![k] = "live"]
  /\ dirty' = TRUE /\ bp' = fp /\ bpSet' = FALSE
  /\ KeepApi
  /\ UNCHANGED <<status, err, stack, atEntry, retPc, argc, retU, retVal, startBp,
                 callFp, vti, clearVti, marked, everMarked>>

\* The outer loop is left: the steps are used up in a canonical state.
Suspend ==
  /\ api # "none" /\ status = "RUNNING" /\ ~crashed /\ ~Iterate
  /\ status' = "SUSPENDED"
  /\ UNCHANGED <<initialized, callState, api, initCalls, err, seenUndef, undefs,
                 crashed, frameVars, heapVars>>

-----------------------------------------------------------------------------
(* After Engine::Execute: HandleTrap, FinishExecuteOrCall and what the     *)
(* caller does with the outcome.                                           *)

Returned == api # "none" /\ status # "RUNNING" /\ ~crashed

\* A trap is reported unless it is silent; when it is fatal it also has to be
\* explained.
Reported(silent, fatal) == ~silent \/ (fatal /\ ~err)
UndefsIgnored == initialized /\ IgnoreUndefs
Fails(silent, fatal) == fatal \/ (Reported(silent, fatal) /\ ~UndefsIgnored)

\* Defects: a failure without a message, a handled trap that ends the run, an
\* undefined value counted at every trap.
TrapMessageLost(silent, fatal) == IF fatal THEN err ELSE FALSE
TrapStatusEnds(silent, fatal) == IF Fails(silent, fatal) THEN "FAILED" ELSE "TERMINATED"
UndefCountEvery(silent, fatal) == IF Reported(silent, fatal) THEN undefs + 1 ELSE undefs

TrapMessage(silent, fatal) ==
  IF Reported(silent, fatal) /\ ~UndefsIgnored THEN TRUE ELSE IF fatal THEN err ELSE FALSE
TrapStatus(silent, fatal) == IF Fails(silent, fatal) THEN "FAILED" ELSE "SUSPENDED"
UndefCount(silent, fatal) ==
  IF Reported(silent, fatal) /\ ~seenUndef THEN undefs + 1 ELSE undefs

\* HandleTrap: the expression stack is cut to the height n of the handler, the
\* message of the target variable may be allocated, the undefined value is
\* counted once per record.
HandleTrap(silent, fatal, n) ==
  /\ n <= Height
  /\ seenUndef' = (seenUndef \/ Reported(silent, fatal))
  /\ undefs' = UndefCount(silent, fatal)
  /\ status' = TrapStatus(silent, fatal)
  /\ err' = TrapMessage(silent, fatal)

\* Defect: a run that failed keeps its memory.
ReleaseDueIfClean(release) == release /\ initialized /\ status = "TERMINATED"
ReleaseDue(release) == release /\ initialized

\* The resources of a run that is over, at every end of FinishExecuteOrCall.
Cleanup(release) ==
  /\ clearVti' = FALSE
  /\ LET v == IF clearVti \/ status = "TRAPPED" THEN "none" ELSE vti IN
     IF ReleaseDue(release)
     THEN Release(NoInputs, v)
     ELSE /\ inputs' = NoInputs /\ vti' = v
          /\ UNCHANGED <<marked, everMarked, dirty>>

\* Execution goes on at the target of the trap, which may be the retU of a
\* function.
ContinueAfterTrap(n) ==
  /\ stack' = SetHeight(n)
  /\ retU' \in IF n = 0 /\ fp > GP /\ stack[fp].ret THEN BOOLEAN ELSE {FALSE}
  /\ clearVti' = TRUE
  /\ vti' \in {vti, IF vti = "none" THEN "live" ELSE vti}
  /\ dirty' = (dirty \/ vti' # vti)
  /\ UNCHANGED <<inputs, marked, everMarked>>

\* Proc::Execute after Engine::Execute; the last Execute of InitializeDoCalls
\* decides its result.
FinishExecute ==
  /\ Returned /\ api = "Execute" /\ api' = "none"
  /\ \/ /\ status = "SUSPENDED"
        /\ UNCHANGED <<status, initialized, callState, initCalls, err, seenUndef, undefs,
                       stack, retU, heapVars>>
     \/ /\ status = "TRAPPED"
        /\ \E silent \in BOOLEAN, n \in 0..MaxHeight :
             /\ HandleTrap(silent, FALSE, n)
             /\ IF Fails(silent, FALSE) THEN Cleanup(~DoCalls) /\ UNCHANGED <<stack, retU>>
                                       ELSE ContinueAfterTrap(n)
        /\ initCalls' = (initCalls /\ status' # "FAILED")
        /\ UNCHANGED <<initialized, callState>>
     \/ /\ status \in {"TERMINATED", "FAILED"}
        /\ Cleanup(~DoCalls)
        /\ initialized' = (initialized \/ status = "TERMINATED")
        /\ IF initCalls /\ status = "TERMINATED" /\ initialized
           THEN callState' = "INITIALIZED" /\ initCalls' = FALSE
           ELSE UNCHANGED callState /\ initCalls' = (initCalls /\ status # "FAILED")
        /\ UNCHANGED <<status, err, seenUndef, undefs, stack, retU>>
  /\ UNCHANGED <<crashed, bp, bpSet, atEntry, retPc, argc, retVal, steps,
                 startBp, callFp>>

\* Defect: a failed call leaves its frames.
CallerStackKept == stack

\* The stack of the frame in which the call was made.
CallerStack == [SubSeq(stack, 1, callFp) EXCEPT ![callFp].h = 0]

\* The CHECK at the end of DoCall and ContinueCall.
CallOutcome(s, e) == (s = "TERMINATED" /\ ~e) \/ (s = "FAILED" /\ e)

\* FinishExecuteOrCall(false, true) and the rest of DoCall and ContinueCall,
\* for an execution that is over: the result is popped, a failed call leaves
\* the stack as it found it.
FinishCalled ==
  \/ /\ status = "TERMINATED"
     /\ stack' = SetHeight(Height - IF retVal THEN 1 ELSE 0)
     /\ Cleanup(FALSE)
     /\ UNCHANGED <<status, err, seenUndef, undefs, atEntry, retU>>
  \/ /\ status = "FAILED"
     /\ stack' = CallerStack /\ atEntry' = FALSE
     /\ Cleanup(FALSE)
     /\ UNCHANGED <<status, err, seenUndef, undefs, retU>>
  \/ /\ status = "TRAPPED"
     /\ \E silent \in BOOLEAN, n \in 0..MaxHeight : HandleTrap(silent, TRUE, n)
     /\ stack' = CallerStack /\ atEntry' = FALSE /\ retU' = FALSE
     /\ Cleanup(FALSE)

\* Proc::DoCall after Engine::Execute.  Nothing resumes an execution that was
\* suspended: the loop around Engine::Execute waits for RUNNING.
FinishDoCall ==
  /\ Returned /\ api = "DoCall" /\ api' = "none"
  /\ IF status = "SUSPENDED"
     THEN UNCHANGED <<status, err, seenUndef, undefs, stack, atEntry, retU, heapVars>>
     ELSE FinishCalled
  /\ crashed' = ~CallOutcome(status', err')
  /\ UNCHANGED <<initialized, callState, initCalls, bp, bpSet, retPc, argc,
                 retVal, steps, startBp, callFp>>

\* Proc::ContinueCall after Engine::Execute and the rest of
\* Process::ContinueCall.
FinishContinueCall ==
  /\ Returned /\ api = "ContinueCall" /\ api' = "none"
  /\ callState' = "CONTINUED"
  /\ \/ FinishCalled /\ crashed' = ~CallOutcome(status', err')
     \/ /\ status = "SUSPENDED"
        /\ UNCHANGED <<status, err, seenUndef, undefs, crashed, stack, atEntry, retU, heapVars>>
  /\ UNCHANGED <<initialized, initCalls, bp, bpSet, retPc, argc, retVal, steps,
                 startBp, callFp>>

-----------------------------------------------------------------------------
ClientCall ==
  \/ SetupInitialization \/ SetupRun \/ (\E k \in Keys : AddInput(k))
  \/ SetupCall \/ LookupFunction \/ DoCall \/ StartCall \/ ContinueCall
  \/ FinishCall \/ Execute

Interpret ==
  \/ Enter \/ Instr \/ SetBp \/ Call \/ Ret \/ Terminate \/ Trap \/ RetU \/ Fail
  \/ (\E k \in Keys : SetAdditionalInput(k)) \/ Suspend

Return == FinishExecute \/ FinishDoCall \/ FinishContinueCall

Next == ClientCall \/ Interpret \/ Return

\* The interpreter loop runs until it returns, and the code after it follows:
\* there is one thread.  Nothing obliges the client to call.
Spec == Init /\ [][Next]_vars /\ WF_vars(Interpret) /\ WF_vars(Return)

-----------------------------------------------------------------------------
(* Properties *)

FrameSet == [h : 0..MaxHeight, sl : Nat, ret : BOOLEAN]

ApiTypes ==
  /\ status \in Status /\ initialized \in BOOLEAN /\ callState \in CallState
  /\ api \in {"none", "Execute", "DoCall", "ContinueCall"}
  /\ initCalls \in BOOLEAN /\ err \in BOOLEAN /\ seenUndef \in BOOLEAN
  /\ undefs \in Nat /\ crashed \in BOOLEAN
FrameTypes ==
  /\ stack \in Seq(FrameSet)
  /\ bp \in Nat /\ bpSet \in BOOLEAN /\ atEntry \in BOOLEAN /\ retPc \in BOOLEAN
  /\ argc \in Nat /\ retU \in BOOLEAN /\ retVal \in BOOLEAN /\ steps \in Nat
  /\ startBp \in Nat /\ callFp \in Nat
HeapTypes ==
  /\ inputs \in [Keys -> Root] /\ vti \in Root /\ clearVti \in BOOLEAN
  /\ marked \in BOOLEAN /\ everMarked \in BOOLEAN /\ dirty \in BOOLEAN

\* Every variable of Process, Proc and the interpreter has a value the C++
\* declarations allow.
TypeOK == ApiTypes /\ FrameTypes /\ HeapTypes

\* The two calls that a client may make by the documentation and that abort the
\* program: a setup after a failure, which the diagram of proc.h allows and the
\* CHECK of SetupRunOrCall does not; and a SetupRun that finds the input which
\* the client added before it, between two records, above the mark.
SetUpAfterFailure == callState = "ILLEGAL" /\ api = "none" /\ status = "FAILED"
InputBeforeSetup  == /\ ~DoCalls /\ api = "none" /\ status = "TERMINATED"
                     /\ everMarked /\ \E k \in Keys : inputs[k] = "live"

\* A CHECK of Process, Proc or Memory::Mark fails only in these two: whatever
\* the program did in the records and calls before, every other call of a
\* client that follows sawzall.h and proc.h finds the state it CHECKs.
ChecksHold == crashed => SetUpAfterFailure \/ InputBeforeSetup

\* No additional input and no trap message refers to memory that the heap has
\* taken back: Release comes after the roots of the run were cleared.
RootsValid == vti # "dangling" /\ \A k \in Keys : inputs[k] # "dangling"

\* Whenever a call can be made, the current frame is the one that $main left
\* behind and its expression stack is empty, whatever became of the calls
\* before (the assertions of DoCall and StartCall).
CallFrameReady == callState = "SETUP" => CallFrame

\* The status a client sees is never RUNNING or TRAPPED, and error_msg() tells
\* the outcome as sawzall.h says: there is a message when a run or a call has
\* failed, and none when a run, a DoCall or the last ContinueCall ended well.
OutcomeReported ==
  api = "none" =>
    /\ status \notin {"RUNNING", "TRAPPED"}
    /\ status = "FAILED" => err
    /\ status = "TERMINATED" /\ callState \in {"ILLEGAL", "CALLED", "CONTINUED"} => ~err

\* The heap is marked exactly while a record is run or a call is open: what they
\* allocate is above the mark, what outlives them is below it.
MarkBracketsRun ==
  ~crashed =>
    IF DoCalls
    THEN marked <=> callState \in {"SETUP", "CALLED", "STARTED", "CONTINUED"}
    ELSE marked <=> initialized /\ (status = "SUSPENDED" \/ api # "none")

\* Between instructions bp is the frame pointer, except right after a set_bp or
\* a call and at the entry of a function: local variables are looked up in the
\* frame of the function that runs.
BasePointerCanonical ==
  status = "RUNNING" => bp = fp \/ bpSet \/ atEntry

\* At most one undefined value is counted per record, however many traps.
UndefCountedOnce == undefs <= 1

\* Execute and ContinueCall overrun max_steps by at most the set_bp, call and
\* enter that belong together.
StepsBounded == steps <= MaxSteps + 2

\* Every Execute and every ContinueCall returns to the client, traps, retU and
\* a step limit reached between call and enter included.
ExecuteReturns == api \in {"Execute", "ContinueCall"} ~> api = "none"

\* Process keeps the status diagram of proc.h when it runs records.
ProcStatusSpec == INSTANCE ProcStatus
ImplementsProcStatus == ProcStatusSpec!Spec

\* The call session that the client sees: InitializeDoCalls and DoCall happen
\* when they return.
PhaseSeen ==
  IF initCalls THEN "UNINITIALIZED" ELSE IF api = "DoCall" THEN "SETUP" ELSE callState
OutcomeSeen ==
  IF api # "none" \/ callState \notin {"CALLED", "STARTED", "CONTINUED"} THEN "none"
  ELSE IF status = "TERMINATED" THEN "result"
  ELSE IF status = "FAILED" THEN "error" ELSE "none"

\* Process keeps the call protocol of sawzall.h.
CallSessionSpec == INSTANCE CallSession WITH phase <- PhaseSeen, outcome <- OutcomeSeen
ImplementsCallSession == CallSessionSpec!Spec
=============================================================================
