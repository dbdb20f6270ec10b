--------------------------- MODULE ProcessProofs ---------------------------
(***************************************************************************)
(* Theorems about Process, for every mode, client behaviour, label set and *)
(* bound.                                                                  *)
(***************************************************************************)
EXTENDS Process, SequenceTheorems, TLAPS

\* Which client call is in progress in which call state.
ApiInv ==
  /\ api = "Execute" => callState = "ILLEGAL"
  /\ api = "DoCall" => callState = "CALLED"
  /\ api = "ContinueCall" => callState \in {"STARTED", "CONTINUED"}
  /\ api = "none" => status \notin {"RUNNING", "TRAPPED"}
  /\ initCalls => DoCalls
  /\ callState \notin {"UNINITIALIZED", "ILLEGAL"} => DoCalls /\ initialized
  /\ callState = "UNINITIALIZED" => api = "none" /\ ~initialized /\ status = "TERMINATED"

\* There is a current frame wherever one is used, it holds the arguments of
\* the function to be entered, and a call never returns past its caller.
StackInv ==
  /\ initialized => stack # <<>>
  /\ ~atEntry /\ (api # "none" \/ status = "SUSPENDED") => stack # <<>>
  /\ atEntry /\ stack # <<>> => argc <= Height
  /\ status = "TRAPPED" \/ (status = "TERMINATED" /\ api # "none") => ~atEntry
  /\ retU => /\ ~atEntry /\ Len(stack) > 1 /\ callState = "ILLEGAL"
             /\ status \in {"SUSPENDED", "RUNNING"}
  /\ callState \in {"CALLED", "STARTED", "CONTINUED"} /\ (api # "none" \/ status = "SUSPENDED")
       => callFp = MAIN /\ Len(stack) >= MAIN
  /\ status = "TERMINATED" /\ api \in {"DoCall", "ContinueCall"} /\ retVal => Height > 0

\* What is left of the steps when bp and return_pc are out of the canonical state.
StepInv ==
  /\ status = "RUNNING" /\ retPc => atEntry
  /\ steps <= MaxSteps + 2
  /\ status = "RUNNING" /\ ~Counting => steps = 0
  /\ status = "RUNNING" /\ steps > MaxSteps => (bp = Len(stack) /\ ~retPc) \/ (steps = MaxSteps + 1 /\ retPc)

IInv == TypeOK /\ ApiInv /\ StackInv /\ StepInv

-----------------------------------------------------------------------------
(* The stack operations keep the sequence of frames well formed.           *)

\* SetHeight changes the height of the top frame and nothing else.
LEMMA SetHeightLemma ==
  ASSUME stack \in Seq(FrameSet), stack # <<>>, NEW n \in 0..MaxHeight
  PROVE  /\ SetHeight(n) \in Seq(FrameSet)
         /\ SetHeight(n) # <<>>
         /\ Len(SetHeight(n)) = Len(stack)
         /\ SetHeight(n)[Len(stack)].h = n
<1> DEFINE f == [stack[Len(stack)] EXCEPT !.h = n]
<1>1. Len(stack) \in 1..Len(stack)
  BY EmptySeq, LenProperties
<1>2. stack[Len(stack)] \in FrameSet
  BY Zenon, <1>1, LenProperties
<1>3. f \in FrameSet /\ f.h = n
  BY Zenon, <1>2 DEF FrameSet
<1>4. SetHeight(n) = [stack EXCEPT ![Len(stack)] = f]
  BY Zenon DEF SetHeight, fp
<1> HIDE DEF f
<1>5. QED
  BY <1>1, <1>3, <1>4, ExceptSeq

\* A frame pushed on the stack is the current one.
LEMMA PushLemma ==
  ASSUME NEW s \in Seq(FrameSet), NEW link \in Nat, NEW ret \in BOOLEAN, MaxHeight \in Nat
  PROVE  /\ Append(s, Frame(0, link, ret)) \in Seq(FrameSet)
         /\ Append(s, Frame(0, link, ret)) # <<>>
         /\ Len(Append(s, Frame(0, link, ret))) = Len(s) + 1
<1>1. Frame(0, link, ret) \in FrameSet
  BY DEF Frame, FrameSet
<1>2. QED
  BY Zenon, <1>1, AppendProperties

\* The frames below the current one.
LEMMA PopLemma ==
  ASSUME stack \in Seq(FrameSet), NEW n \in 1..Len(stack)
  PROVE  /\ SubSeq(stack, 1, n) \in Seq(FrameSet)
         /\ SubSeq(stack, 1, n) # <<>>
         /\ Len(SubSeq(stack, 1, n)) = n
         /\ \A i \in 1..n : SubSeq(stack, 1, n)[i] = stack[i]
<1>1. n \in Nat /\ n >= 1 /\ Len(stack) \in Nat
  BY LenProperties
<1>2. \A i \in 1..n : stack[i] \in FrameSet
  BY <1>1, LenProperties
<1>3. /\ SubSeq(stack, 1, n) \in Seq(FrameSet)
      /\ Len(SubSeq(stack, 1, n)) = IF 1 <= n THEN n - 1 + 1 ELSE 0
      /\ \A i \in 1..(n - 1 + 1) : SubSeq(stack, 1, n)[i] = stack[1 + i - 1]
  BY <1>1, <1>2, SubSeqProperties
<1>4. QED
  BY <1>1, <1>3

-----------------------------------------------------------------------------
(* The inductive invariant                                                 *)

LEMMA InitIInv == Init => IInv
<1> SUFFICES ASSUME Init PROVE IInv
  BY Zenon
<1> USE ModeAssumption, BoundAssumption DEF Init
<1>1. TypeOK
  BY EmptySeq, Zenon DEF TypeOK, ApiTypes, FrameTypes, HeapTypes, Status, CallState, Root
<1>2. ApiInv
  BY Zenon DEF ApiInv
<1>3. StackInv
  BY Zenon DEF StackInv
<1>4. StepInv
  BY EmptySeq DEF StepInv, Counting
<1>5. QED
  BY Zenon, <1>1, <1>2, <1>3, <1>4 DEF IInv

\* The calls that the client makes keep it.
LEMMA ClientCallIInv == IInv /\ ClientCall => IInv'
<1> SUFFICES ASSUME IInv, ClientCall PROVE IInv'
  BY Zenon
<1> USE ModeAssumption, BoundAssumption DEF IInv, Client
<1>a. CASE Client /\ Die
  <2>1. TypeOK'
    <3>1. ApiTypes' BY Zenon, <1>a DEF TypeOK, ApiTypes, Die, frameVars, heapVars
    <3>2. FrameTypes' BY Zenon, <1>a DEF TypeOK, FrameTypes, Die, frameVars, heapVars
    <3>3. HeapTypes' BY Zenon, <1>a DEF TypeOK, HeapTypes, Die, frameVars, heapVars
    <3>4. QED BY Zenon, <3>1, <3>2, <3>3 DEF TypeOK
  <2>2. ApiInv' BY Zenon, <1>a DEF ApiInv, Die, frameVars, heapVars
  <2>3. StackInv' BY Zenon, <1>a DEF StackInv, Die, frameVars, heapVars, Height, fp
  <2>4. StepInv' BY Zenon, <1>a DEF Counting, StepInv, Die, frameVars, heapVars
  <2>5. QED BY Zenon, <2>1, <2>2, <2>3, <2>4
<1>1. CASE SetupInitialization
  <2>1. CASE ~(initialized \/ status # "TERMINATED")
    <3>1. TypeOK'
      <4>1. ApiTypes'
        <5>1. undefs' \in Nat BY <1>1, <2>1 DEF SetupInitialization
        <5>2. QED BY <1>1, <2>1, <5>1, Zenon DEF TypeOK, ApiTypes, SetupInitialization, Status, CallState
      <4>2. FrameTypes' BY <1>1, <2>1, EmptySeq DEF TypeOK, FrameTypes, SetupInitialization, Status, CallState, heapVars
      <4>3. HeapTypes' BY Zenon, <1>1, <2>1, EmptySeq DEF TypeOK, HeapTypes, SetupInitialization, Status, CallState, heapVars
      <4>4. QED BY Zenon, <4>1, <4>2, <4>3 DEF TypeOK
    <3>2. ApiInv' BY Zenon, <1>1, <2>1 DEF SetupInitialization, ApiInv, TypeOK, ApiTypes
    <3>3. StackInv' BY Zenon, <1>1, <2>1 DEF SetupInitialization, StackInv, ApiInv, TypeOK, ApiTypes
    <3>4. StepInv' BY Zenon, <1>1, <2>1 DEF Counting, SetupInitialization, StepInv
    <3>5. QED BY Zenon, <3>1, <3>2, <3>3, <3>4
  <2>2. QED BY Zenon, <1>1, <1>a, <2>1 DEF SetupInitialization
<1>2. CASE SetupRun
  <2>1. CASE ~(status # "TERMINATED" \/ (~DoCalls /\ ~MarkCheck))
    <3> DEFINE f == [stack[1] EXCEPT !.h = 2]
    <3>1. Len(stack) \in Nat /\ Len(stack) >= 1 /\ stack[1] \in FrameSet
      BY <1>2, EmptySeq, LenProperties DEF SetupRun, StackInv, TypeOK, FrameTypes
    <3>2. f \in FrameSet /\ f.h = 2
      BY <3>1 DEF FrameSet
    <3>3. stack' = <<f>>
      BY Zenon, <1>2, <2>1 DEF SetupRun, GP
    <3> HIDE DEF f
    <3>4. stack' \in Seq(FrameSet) /\ stack' # <<>> /\ Len(stack') = 1 /\ stack'[Len(stack')].h = 2
      BY <3>2, <3>3
    <3>5. TypeOK'
      <4>1. ApiTypes'
        <5>1. undefs' \in Nat BY <1>2, <2>1 DEF SetupRun, ResetRun
        <5>2. QED BY <1>2, <2>1, <5>1, Zenon DEF TypeOK, ApiTypes, SetupRun, ResetRun, Status
      <4>2. FrameTypes' BY <1>2, <2>1, <3>4 DEF TypeOK, FrameTypes, SetupRun, ResetRun, NoInputs, Root, Status
      <4>3. HeapTypes' BY <1>2, <2>1, <3>4, Zenon DEF TypeOK, HeapTypes, SetupRun, ResetRun, NoInputs, Root, Status
      <4>4. QED BY Zenon, <4>1, <4>2, <4>3 DEF TypeOK
    <3>6. ApiInv' BY Zenon, <1>2, <2>1 DEF SetupRun, ResetRun, ApiInv
    <3>7. StackInv' BY <1>2, <2>1, <3>4 DEF SetupRun, ResetRun, StackInv, ApiInv, Height, fp, TypeOK, ApiTypes, FrameTypes
    <3>8. StepInv' BY Zenon, <1>2, <2>1 DEF Counting, SetupRun, StepInv
    <3>9. QED BY Zenon, <3>5, <3>6, <3>7, <3>8
  <2>2. QED BY <1>2, <1>a, <2>1, Zenon DEF SetupRun
<1>3. ASSUME NEW k \in Keys, AddInput(k) PROVE IInv'
  <2>1. TypeOK'
    <3>1. ApiTypes' BY Zenon, <1>3 DEF TypeOK, ApiTypes, AddInput, Root, apiVars, frameVars
    <3>2. FrameTypes' BY Zenon, <1>3 DEF TypeOK, FrameTypes, AddInput, Root, apiVars, frameVars
    <3>3. HeapTypes' BY Zenon, <1>3 DEF TypeOK, HeapTypes, AddInput, Root, apiVars, frameVars
    <3>4. QED BY Zenon, <3>1, <3>2, <3>3 DEF TypeOK
  <2>2. ApiInv' BY Zenon, <1>3 DEF AddInput, ApiInv, apiVars, frameVars
  <2>3. StackInv' BY Zenon, <1>3 DEF AddInput, StackInv, apiVars, frameVars, Height, fp
  <2>4. StepInv' BY Zenon, <1>3 DEF Counting, AddInput, StepInv, apiVars, frameVars
  <2>5. QED BY Zenon, <2>1, <2>2, <2>3, <2>4
<1>4. CASE SetupCall
  <2>1. CASE ~(~initialized \/ status \notin {"TERMINATED", "FAILED"} \/ ~MarkCheck)
    <3>1. TypeOK'
      <4>1. ApiTypes'
        <5>1. undefs' \in Nat BY <1>4, <2>1 DEF SetupCall, ResetRun
        <5>2. QED BY <1>4, <2>1, <5>1, Zenon DEF TypeOK, ApiTypes, SetupCall, ResetRun, Status, CallState
      <4>2. FrameTypes' BY Zenon, <1>4, <2>1 DEF TypeOK, FrameTypes, SetupCall, Mark, ResetRun, Status, CallState, Root, frameVars
      <4>3. HeapTypes' BY <1>4, <2>1, Zenon DEF TypeOK, HeapTypes, SetupCall, Mark, ResetRun, Status, CallState, Root, frameVars
      <4>4. QED BY Zenon, <4>1, <4>2, <4>3 DEF TypeOK
    <3>2. ApiInv' BY Zenon, <1>4, <2>1 DEF SetupCall, ResetRun, ApiInv
    <3>3. StackInv' BY Zenon, <1>4, <2>1 DEF SetupCall, ResetRun, StackInv, frameVars, Height, fp
    <3>4. StepInv' BY Zenon, <1>4, <2>1 DEF Counting, SetupCall, StepInv, frameVars
    <3>5. QED BY Zenon, <3>1, <3>2, <3>3, <3>4
  <2>2. QED BY Zenon, <1>4, <1>a, <2>1 DEF SetupCall
<1>5. CASE LookupFunction
  <2>1. TypeOK'
    <3>1. ApiTypes' BY Zenon, <1>5 DEF TypeOK, ApiTypes, LookupFunction, frameVars, heapVars
    <3>2. FrameTypes' BY Zenon, <1>5 DEF TypeOK, FrameTypes, LookupFunction, frameVars, heapVars
    <3>3. HeapTypes' BY Zenon, <1>5 DEF TypeOK, HeapTypes, LookupFunction, frameVars, heapVars
    <3>4. QED BY Zenon, <3>1, <3>2, <3>3 DEF TypeOK
  <2>2. ApiInv' BY Zenon, <1>5 DEF LookupFunction, ApiInv
  <2>3. StackInv' BY Zenon, <1>5 DEF LookupFunction, StackInv, frameVars, Height, fp
  <2>4. StepInv' BY Zenon, <1>5 DEF Counting, LookupFunction, StepInv, frameVars
  <2>5. QED BY Zenon, <2>1, <2>2, <2>3, <2>4
<1>6. CASE DoCall
  <2>1. ASSUME CallFrame, callState' = "CALLED", WrongArgs PROVE IInv'
    <3>1. TypeOK'
      <4>1. ApiTypes' BY Zenon, <1>6, <2>1 DEF TypeOK, ApiTypes, DoCall, WrongArgs, Status, CallState, frameVars, heapVars
      <4>2. FrameTypes' BY Zenon, <1>6, <2>1 DEF TypeOK, FrameTypes, DoCall, WrongArgs, Status, CallState, frameVars, heapVars
      <4>3. HeapTypes' BY Zenon, <1>6, <2>1 DEF TypeOK, HeapTypes, DoCall, WrongArgs, Status, CallState, frameVars, heapVars
      <4>4. QED BY Zenon, <4>1, <4>2, <4>3 DEF TypeOK
    <3>2. ApiInv' BY Zenon, <1>6, <2>1 DEF DoCall, WrongArgs, ApiInv
    <3>3. StackInv' BY Zenon, <1>6, <2>1 DEF DoCall, WrongArgs, StackInv, frameVars, Height, fp
    <3>4. StepInv' BY Zenon, <1>6, <2>1 DEF Counting, DoCall, WrongArgs, StepInv, frameVars
    <3>5. QED BY Zenon, <3>1, <3>2, <3>3, <3>4
  <2>2. ASSUME CallFrame, NEW n \in 0..1, NEW context \in {GP, fp},
               PushCall(n), callState' = "CALLED", EnterEngine("DoCall", context),
               UNCHANGED <<initialized, initCalls, err, seenUndef, undefs, crashed,
                           retU, startBp, inputs, vti, clearVti, marked, everMarked>>
        PROVE IInv'
    <3>0. Len(stack) = 2 /\ stack \in Seq(FrameSet)
      BY Zenon, <2>2 DEF CallFrame, fp, MAIN, TypeOK, FrameTypes
    <3>1. /\ n \in Nat /\ n \in 0..MaxHeight /\ context \in Nat
          /\ Len(stack) = 2 /\ stack \in Seq(FrameSet) /\ stack # <<>>
      <4>1. stack # <<>> BY <3>0, EmptySeq
      <4>2. context \in {1, 2} BY Zenon, <2>2, <3>0 DEF fp, GP
      <4>3. QED BY <3>0, <4>1, <4>2
    <3>2. /\ stack' \in Seq(FrameSet) /\ stack' # <<>> /\ Len(stack') = 2
          /\ stack'[Len(stack')].h = n
      BY Zenon, <2>2, <3>1, SetHeightLemma DEF PushCall
    <3>3. TypeOK'
      <4>1. ApiTypes' BY Zenon, <1>6, <2>2, <3>1, <3>2 DEF TypeOK, ApiTypes, Status, CallState, EnterEngine, PushCall, fp
      <4>2. FrameTypes'
        <5>1. bp' \in Nat /\ argc' \in Nat /\ steps' \in Nat /\ startBp' \in Nat /\ callFp' \in Nat
          BY <2>2, <3>1 DEF TypeOK, FrameTypes, EnterEngine, PushCall, fp
        <5>2. QED BY <2>2, <3>2, <5>1, Zenon DEF TypeOK, FrameTypes, EnterEngine, PushCall
      <4>3. HeapTypes' BY Zenon, <1>6, <2>2, <3>1, <3>2 DEF TypeOK, HeapTypes, Status, CallState, EnterEngine, PushCall, fp
      <4>4. QED BY Zenon, <4>1, <4>2, <4>3 DEF TypeOK
    <3>4. ApiInv' BY Zenon, <1>6, <2>2 DEF DoCall, EnterEngine, ApiInv
    <3>5. StackInv' BY <1>6, <2>2, <3>1, <3>2 DEF DoCall, EnterEngine, PushCall, StackInv, Height, fp, MAIN, ApiInv
    <3>6. StepInv' BY <2>2 DEF EnterEngine, StepInv, Counting
    <3>7. QED BY Zenon, <3>3, <3>4, <3>5, <3>6
  <2>3. CASE ~CallFrame
    BY Zenon, <1>6, <1>a, <2>3 DEF DoCall
  <2>4. QED BY Zenon, <1>6, <2>1, <2>2, <2>3 DEF DoCall
<1>7. CASE StartCall
  <2>1. ASSUME CallFrame, callState' = "STARTED", WrongArgs PROVE IInv'
    <3>1. TypeOK'
      <4>1. ApiTypes' BY Zenon, <1>7, <2>1 DEF TypeOK, ApiTypes, StartCall, WrongArgs, Status, CallState, frameVars, heapVars
      <4>2. FrameTypes' BY Zenon, <1>7, <2>1 DEF TypeOK, FrameTypes, StartCall, WrongArgs, Status, CallState, frameVars, heapVars
      <4>3. HeapTypes' BY Zenon, <1>7, <2>1 DEF TypeOK, HeapTypes, StartCall, WrongArgs, Status, CallState, frameVars, heapVars
      <4>4. QED BY Zenon, <4>1, <4>2, <4>3 DEF TypeOK
    <3>2. ApiInv' BY Zenon, <1>7, <2>1 DEF StartCall, WrongArgs, ApiInv
    <3>3. StackInv' BY Zenon, <1>7, <2>1 DEF StartCall, WrongArgs, StackInv, frameVars, Height, fp
    <3>4. StepInv' BY Zenon, <1>7, <2>1 DEF Counting, StartCall, WrongArgs, StepInv, frameVars
    <3>5. QED BY Zenon, <3>1, <3>2, <3>3, <3>4
  <2>2. ASSUME CallFrame, NEW n \in 0..1, NEW context \in {GP, fp},
               PushCall(n), callState' = "STARTED", startBp' = context,
               UNCHANGED <<status, initialized, api, initCalls, err, seenUndef, undefs,
                           crashed, bp, bpSet, retPc, retU, steps,
                           inputs, vti, clearVti, marked, everMarked>>
        PROVE IInv'
    <3>0. Len(stack) = 2 /\ stack \in Seq(FrameSet)
      BY Zenon, <2>2 DEF CallFrame, fp, MAIN, TypeOK, FrameTypes
    <3>1. /\ n \in Nat /\ n \in 0..MaxHeight /\ context \in Nat
          /\ Len(stack) = 2 /\ stack \in Seq(FrameSet) /\ stack # <<>>
      <4>1. stack # <<>> BY <3>0, EmptySeq
      <4>2. context \in {1, 2} BY <2>2, <3>0, SMTT(30) DEF fp, GP
      <4>3. QED BY <3>0, <4>1, <4>2
    <3>2. /\ stack' \in Seq(FrameSet) /\ stack' # <<>> /\ Len(stack') = 2
          /\ stack'[Len(stack')].h = n
      BY Zenon, <2>2, <3>1, SetHeightLemma DEF PushCall
    <3>3. TypeOK'
      <4>1. ApiTypes' BY Zenon, <1>7, <2>2, <3>1, <3>2 DEF TypeOK, ApiTypes, CallState, PushCall, fp
      <4>2. FrameTypes'
        <5>1. bp' \in Nat /\ argc' \in Nat /\ steps' \in Nat /\ startBp' \in Nat /\ callFp' \in Nat
          BY <2>2, <3>1 DEF TypeOK, FrameTypes, PushCall, fp
        <5>2. QED BY <2>2, <3>2, <5>1, Zenon DEF TypeOK, FrameTypes, PushCall
      <4>3. HeapTypes' BY Zenon, <1>7, <2>2, <3>1, <3>2 DEF TypeOK, HeapTypes, CallState, PushCall, fp
      <4>4. QED BY Zenon, <4>1, <4>2, <4>3 DEF TypeOK
    <3>4. ApiInv' BY Zenon, <1>7, <2>2 DEF StartCall, ApiInv
    <3>5. StackInv' BY <1>7, <2>2, <3>1, <3>2 DEF StartCall, PushCall, StackInv, Height, fp, MAIN, ApiInv, TypeOK, ApiTypes
    <3>6. StepInv' BY Zenon, <1>7, <2>2, <3>1, <3>2 DEF Counting, StartCall, PushCall, StepInv
    <3>7. QED BY Zenon, <3>3, <3>4, <3>5, <3>6
  <2>3. CASE ~CallFrame
    BY Zenon, <1>7, <1>a, <2>3 DEF StartCall
  <2>4. QED BY Zenon, <1>7, <2>1, <2>2, <2>3 DEF StartCall
<1>8. CASE ContinueCall
  <2>1. TypeOK'
    <3>1. ApiTypes' BY Zenon, <1>8 DEF TypeOK, ApiTypes, ContinueCall, EnterEngine, Status, CallState, frameVars, heapVars
    <3>2. FrameTypes'
      <4>1. bp' \in Nat /\ steps' \in Nat
        BY <1>8 DEF TypeOK, FrameTypes, ContinueCall, EnterEngine, frameVars
      <4>2. QED BY <1>8, <4>1, Zenon DEF TypeOK, FrameTypes, ContinueCall, EnterEngine, frameVars
    <3>3. HeapTypes' BY Zenon, <1>8 DEF TypeOK, HeapTypes, ContinueCall, EnterEngine, Status, CallState, frameVars, heapVars
    <3>4. QED BY Zenon, <3>1, <3>2, <3>3 DEF TypeOK
  <2>2. ApiInv' BY <1>8 DEF ContinueCall, EnterEngine, ApiInv
  <2>3. StackInv' BY <1>8 DEF ContinueCall, EnterEngine, StackInv, frameVars, Height, fp
  <2>4. StepInv' BY <1>8 DEF Counting, ContinueCall, EnterEngine, StepInv, frameVars
  <2>5. QED BY Zenon, <2>1, <2>2, <2>3, <2>4
<1>9. CASE FinishCall
  <2>1. TypeOK'
    <3>1. ApiTypes' BY Zenon, <1>9 DEF TypeOK, ApiTypes, FinishCall, Release, Dangle, Status, CallState, Root, frameVars
    <3>2. FrameTypes' BY Zenon, <1>9 DEF TypeOK, FrameTypes, FinishCall, Release, Dangle, Status, CallState, Root, frameVars
    <3>3. HeapTypes' BY <1>9, Zenon DEF TypeOK, HeapTypes, FinishCall, Release, Dangle, Status, CallState, Root, frameVars
    <3>4. QED BY Zenon, <3>1, <3>2, <3>3 DEF TypeOK
  <2>2. ApiInv' BY Zenon, <1>9 DEF FinishCall, ApiInv
  <2>3. StackInv' BY Zenon, <1>9 DEF FinishCall, StackInv, frameVars, Height, fp
  <2>4. StepInv' BY Zenon, <1>9 DEF Counting, FinishCall, StepInv, frameVars
  <2>5. QED BY Zenon, <2>1, <2>2, <2>3, <2>4
<1>10. CASE Execute
  <2>1. Len(stack) \in Nat BY Zenon, LenProperties DEF TypeOK, FrameTypes
  <2>2. TypeOK'
    <3>1. ApiTypes' BY Zenon, <1>10, <2>1 DEF TypeOK, ApiTypes, Execute, EnterEngine, Status, CallState, heapVars, fp
    <3>2. FrameTypes' BY <1>10, <2>1, Zenon DEF TypeOK, FrameTypes, Execute, EnterEngine, Status, CallState, heapVars, fp
    <3>3. HeapTypes' BY Zenon, <1>10, <2>1 DEF TypeOK, HeapTypes, Execute, EnterEngine, Status, CallState, heapVars, fp
    <3>4. QED BY Zenon, <3>1, <3>2, <3>3 DEF TypeOK
  <2>3. ApiInv' BY Zenon, <1>10 DEF Execute, EnterEngine, ApiInv
  <2>4. StackInv' BY Zenon, <1>10 DEF Execute, EnterEngine, StackInv, Height, fp
  <2>5. StepInv' BY <1>10 DEF Counting, Execute, EnterEngine, StepInv
  <2>6. QED BY Zenon, <2>2, <2>3, <2>4, <2>5
<1>11. QED
  BY Zenon, <1>1, <1>2, <1>3, <1>4, <1>5, <1>6, <1>7, <1>8, <1>9, <1>10 DEF ClientCall

\* The instructions of the interpreter keep it.
LEMMA InterpretIInv == IInv /\ Interpret => IInv'
<1> SUFFICES ASSUME IInv, Interpret PROVE IInv'
  BY Zenon
<1> USE ModeAssumption, BoundAssumption DEF IInv
\* In every instruction but enter there is a current frame.
<1>a. ASSUME Step PROVE /\ api # "none" /\ status = "RUNNING" /\ steps' \in Nat
                        /\ steps' = steps \/ steps' = steps + 1
  BY <1>a DEF Step, TypeOK, FrameTypes
<1>b. ASSUME Step, ~atEntry PROVE /\ stack \in Seq(FrameSet) /\ stack # <<>>
                                  /\ Len(stack) \in Nat /\ Len(stack) > 0
                                  /\ stack[Len(stack)] \in FrameSet
  <2>1. stack \in Seq(FrameSet) /\ stack # <<>>
    BY Zenon, <1>a, <1>b DEF StackInv, TypeOK, FrameTypes
  <2>2. QED BY <2>1, EmptySeq, LenProperties
\* An instruction that leaves the loop with a new status and keeps the stack.
<1>c. ASSUME Plain, status' \in {"TERMINATED", "TRAPPED", "FAILED"}, err' \in BOOLEAN, KeepApi,
             status' = "TERMINATED" => callState = "ILLEGAL",
             UNCHANGED <<stack, bp, bpSet, atEntry, retPc, argc, retU, retVal,
                         startBp, callFp, heapVars>>
      PROVE  IInv'
  <2>1. TypeOK'
    <3>1. ApiTypes' BY Zenon, <1>c DEF TypeOK, ApiTypes, KeepApi, Status
    <3>2. FrameTypes' BY <1>a, <1>c, Zenon DEF TypeOK, FrameTypes, Plain
    <3>3. HeapTypes' BY Zenon, <1>c DEF TypeOK, HeapTypes, heapVars
    <3>4. QED BY Zenon, <3>1, <3>2, <3>3 DEF TypeOK
  <2>2. ApiInv' BY Zenon, <1>c, <1>a DEF ApiInv, KeepApi, Plain
  <2>3. StackInv' BY Zenon, <1>c, <1>a, <1>b DEF StackInv, ApiInv, KeepApi, Height, fp, Plain
  <2>4. StepInv' BY <1>c DEF Counting, KeepApi, StepInv, Step, Iterate, fp, TypeOK, FrameTypes, Plain
  <2>5. QED BY Zenon, <2>1, <2>2, <2>3, <2>4
<1>1. CASE Enter
  <2>1. CASE fp >= MaxDepth
    <3>1. TypeOK'
      <4>1. ApiTypes' BY Zenon, <1>1, <2>1 DEF Enter, TypeOK, ApiTypes, KeepApi, Status
      <4>2. FrameTypes' BY <1>a, <1>1, <2>1, Zenon DEF Enter, TypeOK, FrameTypes
      <4>3. HeapTypes' BY Zenon, <1>1 DEF Enter, TypeOK, HeapTypes, heapVars
      <4>4. QED BY Zenon, <4>1, <4>2, <4>3 DEF TypeOK
    <3>2. ApiInv' BY Zenon, <1>1, <1>a, <2>1 DEF Enter, ApiInv, KeepApi
    <3>3. StackInv' BY Zenon, <1>1, <1>a, <2>1 DEF Enter, StackInv, KeepApi, Height, fp
    <3>4. StepInv' BY <1>1, <2>1 DEF Counting, KeepApi, Enter, StepInv, Step, Iterate, fp, TypeOK, FrameTypes
    <3>5. QED BY Zenon, <3>1, <3>2, <3>3, <3>4
  <2>2. CASE ~(fp >= MaxDepth)
    <3> DEFINE s == IF stack = <<>> THEN stack ELSE SetHeight(Height - argc)
    <3>1. s \in Seq(FrameSet) /\ Len(s) = Len(stack)
      <4>1. CASE stack = <<>> BY Zenon, <4>1, EmptySeq
      <4>2. CASE stack # <<>>
        <5>1. stack \in Seq(FrameSet) /\ argc \in Nat /\ argc <= Height
          BY Zenon, <4>2, <1>1 DEF Enter, StackInv, TypeOK, FrameTypes
        <5>2. Height \in 0..MaxHeight
          <6>1. Len(stack) \in 1..Len(stack) BY <4>2, <5>1, EmptySeq, LenProperties
          <6>2. stack[Len(stack)] \in FrameSet BY Zenon, <5>1, <6>1, LenProperties
          <6>3. QED BY Zenon, <6>2 DEF Height, fp, FrameSet
        <5>3. Height - argc \in 0..MaxHeight
          BY <5>1, <5>2
        <5>4. QED BY Zenon, <4>2, <5>1, <5>3, SetHeightLemma
      <4>3. QED BY Zenon, <4>1, <4>2
    <3>2. bp \in Nat /\ retPc \in BOOLEAN
      BY Zenon DEF TypeOK, FrameTypes
    <3>3. stack' = Append(s, Frame(0, bp, retPc))
      BY Zenon, <1>1, <2>2 DEF Enter
    <3> HIDE DEF s
    <3>4. stack' \in Seq(FrameSet) /\ stack' # <<>> /\ Len(stack') = Len(stack) + 1 /\ Len(stack) \in Nat
      BY Zenon, <3>1, <3>2, <3>3, PushLemma, LenProperties
    <3>5. /\ api # "none" /\ status' = "RUNNING" /\ status = "RUNNING" /\ ~atEntry' /\ ~retPc' /\ atEntry
          /\ bp' = Len(stack') /\ argc' = 0
      BY Zenon, <1>1, <1>a, <2>2, <3>4 DEF Enter, fp
    <3>6. TypeOK'
      <4>1. ApiTypes' BY Zenon, <1>1, <2>2 DEF Enter, TypeOK, ApiTypes, KeepApi
      <4>2. bp' \in Nat /\ argc' \in Nat BY <3>4, <3>5
      <4>3. FrameTypes' BY <1>a, <1>1, <2>2, <3>4, <4>2, Zenon DEF Enter, TypeOK, FrameTypes
      <4>4. HeapTypes' BY Zenon, <1>1 DEF Enter, TypeOK, HeapTypes, heapVars
      <4>5. QED BY Zenon, <4>1, <4>3, <4>4 DEF TypeOK
    <3>7. ApiInv' BY Zenon, <1>1, <3>5, <2>2 DEF Enter, ApiInv, KeepApi
    <3>8. StackInv' BY <1>1, <3>4, <3>5 DEF Enter, StackInv, KeepApi, MAIN
    <3>9. StepInv' BY <1>1, <3>5 DEF Counting, KeepApi, Enter, StepInv, Step, Iterate, fp, TypeOK, FrameTypes
    <3>10. QED BY Zenon, <3>6, <3>7, <3>8, <3>9
  <2>3. QED BY Zenon, <2>1, <2>2
<1>2. CASE Instr
  <2>1. PICK n \in 0..MaxHeight : stack' = SetHeight(n)
    BY Zenon, <1>2 DEF Instr
  <2>2. stack' \in Seq(FrameSet) /\ stack' # <<>> /\ Len(stack') = Len(stack)
    BY Zenon, <1>2, <1>b, <2>1, SetHeightLemma DEF Instr, Plain
  <2>3. TypeOK'
    <3>1. ApiTypes' BY Zenon, <1>2 DEF Instr, TypeOK, ApiTypes, KeepApi
    <3>2. bp' \in Nat BY Zenon, <1>2, <1>b DEF Instr, Plain, fp
    <3>3. FrameTypes' BY <1>2, <1>a, <2>2, <3>2, Zenon DEF Instr, Plain, TypeOK, FrameTypes
    <3>4. HeapTypes' BY <1>2, Zenon DEF Instr, TypeOK, HeapTypes
    <3>5. QED BY Zenon, <3>1, <3>3, <3>4 DEF TypeOK
  <2>4. ApiInv' BY Zenon, <1>2 DEF Instr, ApiInv, KeepApi
  <2>5. StackInv' BY Zenon, <1>2, <1>a, <2>2 DEF Instr, Plain, StackInv, KeepApi
  <2>6. StepInv' BY <1>2, <2>2, SMTT(30) DEF Counting, KeepApi, Instr, Plain, StepInv, Step, Iterate, fp, TypeOK, FrameTypes
  <2>7. QED BY Zenon, <2>3, <2>4, <2>5, <2>6
<1>3. CASE SetBp
  <2>1. TypeOK'
    <3>1. ApiTypes' BY Zenon, <1>3 DEF SetBp, TypeOK, ApiTypes, KeepApi
    <3>2. bp' \in Nat BY Zenon, <1>3, <1>b DEF SetBp, Plain, fp, FrameSet
    <3>3. FrameTypes' BY <1>3, <1>a, <3>2, Zenon DEF SetBp, Plain, TypeOK, FrameTypes
    <3>4. HeapTypes' BY Zenon, <1>3 DEF SetBp, TypeOK, HeapTypes, heapVars
    <3>5. QED BY Zenon, <3>1, <3>3, <3>4 DEF TypeOK
  <2>2. ApiInv' BY Zenon, <1>3 DEF SetBp, ApiInv, KeepApi
  <2>3. StackInv' BY Zenon, <1>3, <1>a DEF SetBp, Plain, StackInv, KeepApi, Height, fp
  <2>4. StepInv' BY <1>3 DEF Counting, KeepApi, SetBp, Plain, StepInv, Step, Iterate, fp, TypeOK, FrameTypes
  <2>5. QED BY Zenon, <2>1, <2>2, <2>3, <2>4
<1>4. CASE Call
  <2>0. Height \in 0..MaxHeight
    BY Zenon, <1>4, <1>b DEF Call, Plain, Height, fp, FrameSet
  <2>1. argc' \in Nat /\ argc' <= Height /\ bp' \in Nat
    BY <1>4, <1>b, <2>0 DEF Call, Plain, fp, GP, MAIN, TypeOK, FrameTypes
  <2>2. TypeOK'
    <3>1. ApiTypes' BY Zenon, <1>4 DEF Call, TypeOK, ApiTypes, KeepApi
    <3>2. FrameTypes' BY <1>4, <1>a, <2>1, Zenon DEF Call, Plain, TypeOK, FrameTypes
    <3>3. HeapTypes' BY Zenon, <1>4 DEF Call, TypeOK, HeapTypes, heapVars
    <3>4. QED BY Zenon, <3>1, <3>2, <3>3 DEF TypeOK
  <2>3. ApiInv' BY Zenon, <1>4 DEF Call, ApiInv, KeepApi
  <2>4. StackInv' BY Zenon, <1>4, <1>a, <2>1 DEF Call, Plain, StackInv, KeepApi, Height, fp
  <2>5. StepInv' BY <1>4 DEF Counting, KeepApi, Call, Plain, StepInv, Step, Iterate, fp, TypeOK, FrameTypes
  <2>6. QED BY Zenon, <2>2, <2>3, <2>4, <2>5
<1>5. CASE Ret
  <2> DEFINE n == Len(stack) - 1
             c == SubSeq(stack, 1, n)
  <2>0. /\ stack \in Seq(FrameSet) /\ Len(stack) \in Nat /\ Len(stack) > 1 /\ stack[Len(stack)] \in FrameSet
        /\ ~atEntry /\ api # "none" /\ status = "RUNNING" /\ ~retU
    BY Zenon, <1>5, <1>a, <1>b DEF Ret, Plain, fp, GP
  <2>1. n \in 1..Len(stack) /\ n \in Nat /\ n >= 1
    BY <2>0
  <2>2. /\ c \in Seq(FrameSet) /\ Len(c) = n /\ c # <<>>
        /\ \A i \in 1..n : c[i] = stack[i]
    BY <2>0, <2>1, PopLemma, Zenon
  <2>3. c[n] \in FrameSet /\ n \in 1..Len(c)
    BY <2>1, <2>2, LenProperties
  <2>4. PICK result \in BOOLEAN :
          /\ result => (~stack[Len(stack)].ret => DoCalls) /\ c[n].h < MaxHeight
          /\ stack' = [c EXCEPT ![n].h = @ + (IF result THEN 1 ELSE 0)]
          /\ bp' = n
          /\ status' = IF ~stack[Len(stack)].ret THEN "TERMINATED" ELSE status
          /\ retVal' = IF ~stack[Len(stack)].ret THEN result ELSE retVal
    BY <1>5, Zenon DEF Ret, fp
  <2> DEFINE f == [c[n] EXCEPT !.h = @ + (IF result THEN 1 ELSE 0)]
  <2>5. f \in FrameSet /\ f.h = c[n].h + (IF result THEN 1 ELSE 0) /\ c[n].h \in Nat
    BY <2>3, <2>4, SMTT(30) DEF FrameSet
  <2>6. stack' = [c EXCEPT ![n] = f]
    BY Zenon, <2>4
  <2> HIDE DEF f, c
  <2>7. stack' \in Seq(FrameSet) /\ Len(stack') = n /\ stack'[n] = f
    BY <2>2, <2>3, <2>5, <2>6, ExceptSeq
  <2>8. stack' # <<>>
    BY <2>1, <2>7, EmptySeq
  <2>9. UNCHANGED <<initialized, callState, api, initCalls, seenUndef, undefs, crashed, err,
                    atEntry, retPc, argc, retU, startBp, callFp>> /\ status' \in {status, "TERMINATED"}
    BY Zenon, <1>5, <2>4 DEF Ret, KeepApi
  <2>10. status' = "TERMINATED" => retVal' = result
    BY Zenon, <2>0, <2>4
  <2>11. TypeOK'
    <3>1. ApiTypes' BY Zenon, <2>9 DEF TypeOK, ApiTypes, Status
    <3>2. bp' \in Nat BY Zenon, <2>1, <2>4
    <3>3. retVal' \in BOOLEAN BY <2>4, Zenon DEF TypeOK, FrameTypes
    <3>4. FrameTypes' BY <1>5, <1>a, <2>7, <2>9, <3>2, <3>3, Zenon DEF Ret, Plain, TypeOK, FrameTypes
    <3>5. HeapTypes' BY Zenon, <1>5 DEF Ret, TypeOK, HeapTypes, heapVars
    <3>6. QED BY Zenon, <3>1, <3>4, <3>5 DEF TypeOK
  <2>12. ApiInv' BY Zenon, <2>0, <2>9 DEF ApiInv
  <2>13. StackInv'
    <3>1. callState \in {"CALLED", "STARTED", "CONTINUED"} => n >= MAIN
      BY <1>5, <2>0 DEF Ret, StackInv, ApiInv, fp, MAIN
    <3>2. status' = "TERMINATED" /\ api \in {"DoCall", "ContinueCall"} /\ retVal' => stack'[n].h > 0
      <4>1. result => f.h > 0 BY <2>5
      <4>2. result => stack'[n].h > 0 BY Zenon, <2>7, <4>1
      <4>3. QED BY <2>10, <4>2, Zenon
    <3>3. QED
      BY Zenon, <2>0, <2>7, <2>8, <2>9, <3>1, <3>2 DEF StackInv, Height, fp
  <2>14. StepInv'
    BY <1>5, <2>0, <2>4, <2>7, <2>9 DEF Counting, Ret, Plain, StepInv, Step, Iterate, fp, TypeOK, FrameTypes
  <2>15. QED BY Zenon, <2>11, <2>12, <2>13, <2>14
<1>6. CASE Terminate
  BY Zenon, <1>6, <1>c DEF Terminate, TypeOK, ApiTypes
<1>7. CASE Trap
  BY <1>7, <1>c, Zenon DEF Trap, TypeOK, ApiTypes
<1>8. CASE RetU
  <2>1. /\ stack \in Seq(FrameSet) /\ Len(stack) > 1 /\ Len(stack) \in Nat /\ ~atEntry /\ callState = "ILLEGAL"
        /\ api # "none" /\ status = "RUNNING"
    BY Zenon, <1>8, <1>a, <1>b DEF RetU, StackInv
  <2>2. Len(stack) - 1 \in 1..Len(stack)
    BY <2>1
  <2>3. stack' \in Seq(FrameSet) /\ stack' # <<>> /\ Len(stack') = Len(stack) - 1
    BY <1>8, <2>1, <2>2, PopLemma, Zenon DEF RetU, fp
  <2>4. TypeOK'
    <3>1. ApiTypes' BY Zenon, <1>8 DEF RetU, TypeOK, ApiTypes, KeepApi, Status
    <3>2. FrameTypes' BY <1>8, <1>a, <2>3, Zenon DEF RetU, TypeOK, FrameTypes
    <3>3. HeapTypes' BY Zenon, <1>8 DEF RetU, TypeOK, HeapTypes, heapVars
    <3>4. QED BY Zenon, <3>1, <3>2, <3>3 DEF TypeOK
  <2>5. ApiInv' BY Zenon, <1>8, <2>1 DEF RetU, ApiInv, KeepApi
  <2>6. StackInv' BY Zenon, <1>8, <2>1, <2>3 DEF RetU, StackInv, KeepApi
  <2>7. StepInv' BY <1>8 DEF Counting, KeepApi, RetU, StepInv, Step, Iterate, fp, TypeOK, FrameTypes
  <2>8. QED BY Zenon, <2>4, <2>5, <2>6, <2>7
<1>9. CASE Fail
  BY Zenon, <1>9, <1>c DEF Fail
<1>10. ASSUME NEW k \in Keys, SetAdditionalInput(k) PROVE IInv'
  <2>1. TypeOK'
    <3>1. ApiTypes' BY Zenon, <1>10 DEF SetAdditionalInput, TypeOK, ApiTypes, KeepApi
    <3>2. bp' \in Nat BY Zenon, <1>10, <1>b DEF SetAdditionalInput, Plain, fp
    <3>3. FrameTypes' BY <1>10, <1>a, <3>2, Zenon DEF SetAdditionalInput, Plain, TypeOK, FrameTypes
    <3>4. inputs' \in [Keys -> Root] BY Zenon, <1>10 DEF SetAdditionalInput, TypeOK, HeapTypes, Root
    <3>5. HeapTypes' BY <1>10, <3>4, Zenon DEF SetAdditionalInput, TypeOK, HeapTypes
    <3>6. QED BY Zenon, <3>1, <3>3, <3>5 DEF TypeOK
  <2>2. ApiInv' BY Zenon, <1>10 DEF SetAdditionalInput, ApiInv, KeepApi
  <2>3. StackInv' BY Zenon, <1>10, <1>a DEF SetAdditionalInput, Plain, StackInv, KeepApi, Height, fp
  <2>4. StepInv' BY <1>10 DEF Counting, KeepApi, SetAdditionalInput, Plain, StepInv, Step, Iterate, fp, TypeOK, FrameTypes
  <2>5. QED BY Zenon, <2>1, <2>2, <2>3, <2>4
<1>11. CASE Suspend
  <2>1. TypeOK'
    <3>1. ApiTypes' BY Zenon, <1>11 DEF Suspend, TypeOK, ApiTypes, Status
    <3>2. FrameTypes' BY Zenon, <1>11 DEF Suspend, TypeOK, FrameTypes, frameVars
    <3>3. HeapTypes' BY Zenon, <1>11 DEF Suspend, TypeOK, HeapTypes, heapVars
    <3>4. QED BY Zenon, <3>1, <3>2, <3>3 DEF TypeOK
  <2>2. ApiInv' BY <1>11, SMTT(30) DEF Suspend, ApiInv
  <2>3. StackInv' BY Zenon, <1>11 DEF Suspend, StackInv, frameVars, Height, fp
  <2>4. StepInv' BY Zenon, <1>11 DEF Suspend, StepInv, frameVars
  <2>5. QED BY Zenon, <2>1, <2>2, <2>3, <2>4
<1>12. QED
  BY Zenon, <1>1, <1>2, <1>3, <1>4, <1>5, <1>6, <1>7, <1>8, <1>9, <1>10, <1>11 DEF Interpret

\* Cleanup and the trap handler keep the types of what they change.
LEMMA CleanupLemma ==
  ASSUME TypeOK, NEW release \in BOOLEAN, Cleanup(release)
  PROVE  HeapTypes'
<1>1. \A r \in Root : Dangle(r) \in Root
  BY Zenon DEF Root, Dangle
<1>2. NoInputs \in [Keys -> Root]
  BY Zenon DEF NoInputs, Root
<1> DEFINE v == IF clearVti \/ status = "TRAPPED" THEN "none" ELSE vti
<1>3. v \in Root
  BY Zenon DEF Root, TypeOK, HeapTypes
<1>4. CASE ReleaseDue(release)
  <2>1. Release(NoInputs, v) /\ clearVti' = FALSE BY Zenon, <1>4 DEF Cleanup
  <2>2. inputs' \in [Keys -> Root] /\ vti' \in Root
    BY Zenon, <1>1, <1>2, <1>3, <2>1 DEF Release
  <2>3. QED BY <2>1, <2>2, Zenon DEF Release, TypeOK, HeapTypes
<1>5. CASE ~ReleaseDue(release)
  <2>1. inputs' = NoInputs /\ vti' = v /\ UNCHANGED <<marked, everMarked, dirty>> /\ clearVti' = FALSE
    BY Zenon, <1>5 DEF Cleanup
  <2>2. QED BY <1>2, <1>3, <2>1, Zenon DEF TypeOK, HeapTypes
<1>6. QED BY Zenon, <1>4, <1>5

LEMMA HandleTrapLemma ==
  ASSUME TypeOK, NEW silent \in BOOLEAN, NEW fatal \in BOOLEAN, NEW n \in 0..MaxHeight,
         HandleTrap(silent, fatal, n)
  PROVE  /\ status' \in {"FAILED", "SUSPENDED"} /\ (status' = "FAILED" <=> Fails(silent, fatal))
         /\ seenUndef' \in BOOLEAN /\ err' \in BOOLEAN /\ undefs' \in Nat
<1>1. undefs' \in Nat
  BY DEF HandleTrap, UndefCount, TypeOK, ApiTypes
<1>2. status' \in {"FAILED", "SUSPENDED"} /\ (status' = "FAILED" <=> Fails(silent, fatal))
  BY Zenon DEF HandleTrap, TrapStatus
<1>3. seenUndef' \in BOOLEAN /\ err' \in BOOLEAN
  BY Zenon DEF HandleTrap, TrapMessage, TypeOK, ApiTypes
<1>4. QED BY Zenon, <1>1, <1>2, <1>3

\* What follows Engine::Execute keeps it.
LEMMA ReturnIInv == IInv /\ Return => IInv'
<1> SUFFICES ASSUME IInv, Return PROVE IInv'
  BY Zenon
<1> USE ModeAssumption, BoundAssumption DEF IInv
<1>1. CASE FinishExecute
  <2>0. callState = "ILLEGAL" /\ api = "Execute" /\ api' = "none" /\ status # "RUNNING" /\ (status = "TRAPPED" => ~atEntry)
    BY Zenon, <1>1 DEF FinishExecute, Returned, ApiInv, StackInv
  <2>a. UNCHANGED <<crashed, bp, bpSet, atEntry, retPc, argc, retVal, steps, startBp, callFp>>
    BY Zenon, <1>1 DEF FinishExecute
  <2>1. CASE status = "SUSPENDED"
    <3>0. UNCHANGED <<status, initialized, callState, initCalls, err, seenUndef, undefs,
                       stack, retU, heapVars>>
      BY Zenon, <1>1, <2>1 DEF FinishExecute
    <3>1. TypeOK'
      <4>1. ApiTypes' BY Zenon, <2>0, <2>a, <3>0 DEF TypeOK, ApiTypes
      <4>2. FrameTypes' BY Zenon, <2>a, <3>0 DEF TypeOK, FrameTypes
      <4>3. HeapTypes' BY Zenon, <3>0 DEF TypeOK, HeapTypes, heapVars
      <4>4. QED BY Zenon, <4>1, <4>2, <4>3 DEF TypeOK
    <3>2. ApiInv' BY Zenon, <2>0, <2>1, <3>0 DEF ApiInv
    <3>3. StackInv' BY Zenon, <2>0, <2>1, <2>a, <3>0 DEF StackInv, Height, fp
    <3>4. StepInv' BY Zenon, <2>0, <2>1, <2>a, <3>0 DEF StepInv
    <3>5. QED BY Zenon, <3>1, <3>2, <3>3, <3>4
  <2>2. CASE status = "TRAPPED"
    <3>0. PICK silent \in BOOLEAN, n \in 0..MaxHeight :
            /\ HandleTrap(silent, FALSE, n)
            /\ IF Fails(silent, FALSE) THEN Cleanup(~DoCalls) /\ UNCHANGED <<stack, retU>>
                                      ELSE ContinueAfterTrap(n)
      BY <1>1, <2>2, Zenon DEF FinishExecute
    <3>a. /\ status' \in {"FAILED", "SUSPENDED"} /\ (status' = "FAILED" <=> Fails(silent, FALSE))
          /\ seenUndef' \in BOOLEAN /\ err' \in BOOLEAN /\ undefs' \in Nat
      BY <3>0, HandleTrapLemma, Zenon
    <3>b. UNCHANGED <<initialized, callState>> /\ initCalls' = (initCalls /\ status' # "FAILED")
      BY Zenon, <1>1, <2>2 DEF FinishExecute
    <3>c. stack \in Seq(FrameSet) /\ stack # <<>> /\ ~retU
      BY Zenon, <2>0, <2>2 DEF StackInv, TypeOK, FrameTypes
    <3>d. initCalls' \in BOOLEAN /\ (initCalls' => initCalls)
      BY <3>b, Zenon DEF TypeOK, ApiTypes
    <3>1. ApiTypes'
      <4>1. status' \in Status BY Zenon, <3>a DEF Status
      <4>2. api' \in {"none", "Execute", "DoCall", "ContinueCall"} BY Zenon, <2>0
      <4>3. QED BY <2>a, <3>a, <3>b, <3>d, <4>1, <4>2, Zenon DEF TypeOK, ApiTypes
    <3>2. ApiInv' BY Zenon, <2>0, <3>a, <3>b, <3>d DEF ApiInv
    <3>3. StepInv' BY Zenon, <2>0, <2>a, <3>a DEF StepInv
    <3>4. CASE Fails(silent, FALSE)
      <4>1. Cleanup(~DoCalls) /\ UNCHANGED <<stack, retU>> BY Zenon, <3>0, <3>4
      <4>2. HeapTypes' BY <4>1, CleanupLemma, Zenon
      <4>3. FrameTypes' BY Zenon, <2>a, <4>1 DEF TypeOK, FrameTypes
      <4>4. StackInv' BY Zenon, <2>0, <2>2, <2>a, <3>a, <3>b, <3>c, <3>4, <4>1 DEF StackInv, Height, fp
      <4>5. QED BY Zenon, <3>1, <3>2, <3>3, <4>2, <4>3, <4>4 DEF TypeOK
    <3>5. CASE ~Fails(silent, FALSE)
      <4>1. ContinueAfterTrap(n) BY Zenon, <3>0, <3>5
      <4>2. stack' \in Seq(FrameSet) /\ stack' # <<>> /\ Len(stack') = Len(stack)
        BY Zenon, <3>c, <4>1, SetHeightLemma DEF ContinueAfterTrap
      <4>3. retU' \in BOOLEAN /\ (retU' => Len(stack) > 1)
        BY <4>1, Zenon DEF ContinueAfterTrap, fp, GP
      <4>4. HeapTypes'
        <5>1. vti' \in Root BY Zenon, <4>1 DEF ContinueAfterTrap, TypeOK, HeapTypes, Root
        <5>2. QED BY <4>1, <5>1, Zenon DEF ContinueAfterTrap, TypeOK, HeapTypes
      <4>5. FrameTypes' BY <2>a, <4>2, <4>3, Zenon DEF TypeOK, FrameTypes
      <4>6. StackInv' BY <2>0, <2>2, <2>a, <3>a, <3>b, <3>5, <4>2, <4>3, Zenon DEF StackInv
      <4>7. QED BY Zenon, <3>1, <3>2, <3>3, <4>4, <4>5, <4>6 DEF TypeOK
    <3>6. QED BY <3>4, <3>5, Zenon
  <2>3. CASE status \in {"TERMINATED", "FAILED"}
    <3>0. /\ Cleanup(~DoCalls)
          /\ initialized' = (initialized \/ status = "TERMINATED")
          /\ \/ /\ initCalls /\ status = "TERMINATED" /\ initialized
                /\ callState' = "INITIALIZED" /\ initCalls' = FALSE
             \/ callState' = callState /\ initCalls' = (initCalls /\ status # "FAILED")
          /\ UNCHANGED <<status, err, seenUndef, undefs, stack, retU>>
      BY <1>1, <2>3, Zenon DEF FinishExecute
    <3>1. ApiTypes'
      <4>1. api' \in {"none", "Execute", "DoCall", "ContinueCall"} BY Zenon, <2>0
      <4>2. callState' \in CallState BY Zenon, <3>0 DEF TypeOK, ApiTypes, CallState
      <4>3. QED BY <2>a, <3>0, <4>1, <4>2, Zenon DEF TypeOK, ApiTypes
    <3>2. FrameTypes' BY Zenon, <2>a, <3>0 DEF TypeOK, FrameTypes
    <3>3. HeapTypes' BY <3>0, CleanupLemma, Zenon
    <3>4. ApiInv' BY Zenon, <2>0, <2>3, <3>0 DEF ApiInv
    <3>5. StackInv' BY <2>0, <2>3, <2>a, <3>0, Zenon DEF StackInv, Height, fp
    <3>6. StepInv' BY Zenon, <2>0, <2>3, <2>a, <3>0 DEF StepInv
    <3>7. QED BY Zenon, <3>1, <3>2, <3>3, <3>4, <3>5, <3>6 DEF TypeOK
  <2>4. QED BY <1>1, <2>1, <2>2, <2>3, Zenon DEF FinishExecute
\* The common part of DoCall and ContinueCall leaves a current frame.
<1>2. ASSUME Returned, api \in {"DoCall", "ContinueCall"}, FinishCalled
      PROVE  /\ stack' \in Seq(FrameSet) /\ stack' # <<>> /\ status' \in {"TERMINATED", "FAILED", "SUSPENDED"}
             /\ err' \in BOOLEAN /\ seenUndef' \in BOOLEAN /\ undefs' \in Nat
             /\ atEntry' \in BOOLEAN /\ (atEntry' => stack' = stack /\ atEntry) /\ retU' = FALSE
             /\ HeapTypes' /\ (status' = "SUSPENDED" => FALSE)
  <2>0. /\ callState \in {"CALLED", "STARTED", "CONTINUED"} /\ ~retU /\ callFp = MAIN /\ Len(stack) >= MAIN
        /\ stack \in Seq(FrameSet) /\ initialized /\ stack # <<>> /\ api # "none"
    BY Zenon, <1>2 DEF ApiInv, StackInv, TypeOK, FrameTypes
  <2>a. Len(stack) \in Nat /\ Len(stack) \in 1..Len(stack) /\ MAIN \in 1..Len(stack)
    BY <2>0, LenProperties, EmptySeq DEF MAIN
  <2>b. stack[Len(stack)] \in FrameSet
    BY Zenon, <2>0, <2>a, LenProperties
  <2>c. CallerStack \in Seq(FrameSet) /\ CallerStack # <<>>
    <3> DEFINE s == SubSeq(stack, 1, MAIN)
               f == [s[MAIN] EXCEPT !.h = 0]
    <3>1. s \in Seq(FrameSet) /\ s # <<>> /\ Len(s) = MAIN
      BY Zenon, <2>0, <2>a, PopLemma
    <3>2. MAIN \in 1..Len(s) /\ s[MAIN] \in FrameSet
      BY <3>1, LenProperties DEF MAIN
    <3>3. f \in FrameSet
      BY <3>2 DEF FrameSet
    <3>4. CallerStack = [s EXCEPT ![MAIN] = f]
      BY Zenon, <2>0 DEF CallerStack
    <3> HIDE DEF s, f
    <3>5. CallerStack \in Seq(FrameSet) /\ Len(CallerStack) = MAIN
      BY <3>1, <3>2, <3>3, <3>4, ExceptSeq
    <3>6. Len(CallerStack) = 2 BY Zenon, <3>5 DEF MAIN
    <3>7. CallerStack # <<>> BY <3>6, EmptySeq
    <3>8. QED BY Zenon, <3>5, <3>7
  <2>1. CASE status = "TERMINATED"
    <3>0. /\ stack' = SetHeight(Height - IF retVal THEN 1 ELSE 0) /\ Cleanup(FALSE)
          /\ UNCHANGED <<status, err, seenUndef, undefs, atEntry, retU>>
      BY <1>2, <2>1, Zenon DEF FinishCalled
    <3>1. Height \in 0..MaxHeight BY Zenon, <2>b DEF Height, fp, FrameSet
    <3>2. retVal => Height > 0 BY Zenon, <1>2, <2>1 DEF StackInv
    <3>3. Height - (IF retVal THEN 1 ELSE 0) \in 0..MaxHeight BY <3>1, <3>2
    <3>4. stack' \in Seq(FrameSet) /\ stack' # <<>> BY Zenon, <2>0, <3>0, <3>3, SetHeightLemma
    <3>5. ~atEntry BY Zenon, <2>0, <2>1 DEF StackInv
    <3>6. HeapTypes' BY <3>0, CleanupLemma, Zenon
    <3>7. QED BY <2>0, <2>1, <3>0, <3>4, <3>5, <3>6, Zenon DEF TypeOK, ApiTypes, FrameTypes
  <2>2. CASE status = "FAILED"
    <3>0. /\ stack' = CallerStack /\ atEntry' = FALSE /\ Cleanup(FALSE)
          /\ UNCHANGED <<status, err, seenUndef, undefs, retU>>
      BY <1>2, <2>2, Zenon DEF FinishCalled
    <3>1. HeapTypes' BY <3>0, CleanupLemma, Zenon
    <3>2. QED BY <2>0, <2>2, <2>c, <3>0, <3>1, Zenon DEF TypeOK, ApiTypes, FrameTypes
  <2>3. CASE status = "TRAPPED"
    <3>0. /\ stack' = CallerStack /\ atEntry' = FALSE /\ retU' = FALSE /\ Cleanup(FALSE)
      BY <1>2, <2>3, Zenon DEF FinishCalled
    <3>1. PICK silent \in BOOLEAN, n \in 0..MaxHeight : HandleTrap(silent, TRUE, n)
      BY <1>2, <2>3, Zenon DEF FinishCalled
    <3>2. /\ status' = "FAILED" /\ seenUndef' \in BOOLEAN /\ err' \in BOOLEAN /\ undefs' \in Nat
      BY <3>1, HandleTrapLemma, Zenon DEF Fails
    <3>3. HeapTypes' BY <3>0, CleanupLemma, Zenon
    <3>4. QED BY <2>c, <3>0, <3>2, <3>3, Zenon
  <2>4. QED BY <1>2, <2>1, <2>2, <2>3, Zenon DEF FinishCalled
<1>3. CASE FinishDoCall
  <2>0. /\ Returned /\ api = "DoCall" /\ api' = "none" /\ callState = "CALLED" /\ DoCalls /\ initialized
        /\ status # "RUNNING" /\ crashed' \in BOOLEAN /\ ~retU
        /\ UNCHANGED <<initialized, callState, initCalls, bp, bpSet, retPc, argc, retVal, steps, startBp, callFp>>
    BY Zenon, <1>3 DEF FinishDoCall, Returned, ApiInv, StackInv
  <2>1. CASE status = "SUSPENDED"
    <3>0. UNCHANGED <<status, err, seenUndef, undefs, stack, atEntry, retU, heapVars>>
      BY Zenon, <1>3, <2>1 DEF FinishDoCall
    <3>1. ApiTypes' BY <2>0, <3>0, Zenon DEF TypeOK, ApiTypes
    <3>2. FrameTypes' BY Zenon, <2>0, <3>0 DEF TypeOK, FrameTypes
    <3>3. HeapTypes' BY Zenon, <3>0 DEF TypeOK, HeapTypes, heapVars
    <3>4. ApiInv' BY <2>0, <2>1, <3>0, SMTT(30) DEF ApiInv
    <3>5. StackInv' BY Zenon, <2>0, <2>1, <3>0 DEF StackInv, Height, fp
    <3>6. StepInv' BY Zenon, <2>0, <2>1, <3>0 DEF StepInv
    <3>7. QED BY Zenon, <3>1, <3>2, <3>3, <3>4, <3>5, <3>6 DEF TypeOK
  <2>2. CASE status # "SUSPENDED"
    <3>0. /\ stack' \in Seq(FrameSet) /\ stack' # <<>> /\ status' \in {"TERMINATED", "FAILED"}
          /\ err' \in BOOLEAN /\ seenUndef' \in BOOLEAN /\ undefs' \in Nat
          /\ atEntry' \in BOOLEAN /\ (atEntry' => stack' = stack /\ atEntry) /\ retU' = FALSE
          /\ HeapTypes'
      BY Zenon, <1>2, <1>3, <2>0, <2>2 DEF FinishDoCall
    <3>1. ApiTypes'
      <4>1. status' \in Status BY Zenon, <3>0 DEF Status
      <4>2. api' \in {"none", "Execute", "DoCall", "ContinueCall"} BY Zenon, <2>0
      <4>3. QED BY <2>0, <3>0, <4>1, <4>2, Zenon DEF TypeOK, ApiTypes
    <3>2. FrameTypes' BY <2>0, <3>0, Zenon DEF TypeOK, FrameTypes
    <3>3. ApiInv' BY <2>0, <3>0, SMTT(30) DEF ApiInv
    <3>4. StackInv' BY Zenon, <2>0, <3>0 DEF StackInv, Height, fp
    <3>5. StepInv' BY Zenon, <2>0, <3>0 DEF StepInv
    <3>6. QED BY <3>0, <3>1, <3>2, <3>3, <3>4, <3>5, SMTT(30) DEF TypeOK
  <2>3. QED BY Zenon, <2>1, <2>2
<1>4. CASE FinishContinueCall
  <2>0. /\ Returned /\ api = "ContinueCall" /\ api' = "none" /\ callState \in {"STARTED", "CONTINUED"}
        /\ callState' = "CONTINUED" /\ DoCalls /\ initialized /\ status # "RUNNING" /\ crashed' \in BOOLEAN /\ ~retU
        /\ UNCHANGED <<initialized, initCalls, bp, bpSet, retPc, argc, retVal, steps, startBp, callFp>>
    BY Zenon, <1>4 DEF FinishContinueCall, Returned, ApiInv, StackInv, TypeOK, ApiTypes
  <2>1. CASE /\ status = "SUSPENDED"
             /\ UNCHANGED <<status, err, seenUndef, undefs, crashed, stack, atEntry, retU, heapVars>>
    <3>1. ApiTypes' BY <2>0, <2>1, Zenon DEF TypeOK, ApiTypes, CallState
    <3>2. FrameTypes' BY Zenon, <2>0, <2>1 DEF TypeOK, FrameTypes
    <3>3. HeapTypes' BY Zenon, <2>1 DEF TypeOK, HeapTypes, heapVars
    <3>4. ApiInv' BY <2>0, <2>1, SMTT(30) DEF ApiInv
    <3>5. StackInv' BY Zenon, <2>0, <2>1 DEF StackInv, Height, fp
    <3>6. StepInv' BY Zenon, <2>0, <2>1 DEF StepInv
    <3>7. QED BY Zenon, <3>1, <3>2, <3>3, <3>4, <3>5, <3>6 DEF TypeOK
  <2>2. CASE FinishCalled
    <3>0. /\ stack' \in Seq(FrameSet) /\ stack' # <<>> /\ status' \in {"TERMINATED", "FAILED"}
          /\ err' \in BOOLEAN /\ seenUndef' \in BOOLEAN /\ undefs' \in Nat
          /\ atEntry' \in BOOLEAN /\ (atEntry' => stack' = stack /\ atEntry) /\ retU' = FALSE
          /\ HeapTypes'
      BY Zenon, <1>2, <2>0, <2>2
    <3>1. ApiTypes'
      <4>1. status' \in Status /\ callState' \in CallState BY Zenon, <2>0, <3>0 DEF Status, CallState
      <4>2. api' \in {"none", "Execute", "DoCall", "ContinueCall"} BY Zenon, <2>0
      <4>3. QED BY <2>0, <3>0, <4>1, <4>2, Zenon DEF TypeOK, ApiTypes
    <3>2. FrameTypes' BY <2>0, <3>0, Zenon DEF TypeOK, FrameTypes
    <3>3. ApiInv' BY <2>0, <3>0, SMTT(30) DEF ApiInv
    <3>4. StackInv' BY Zenon, <2>0, <3>0 DEF StackInv, Height, fp
    <3>5. StepInv' BY Zenon, <2>0, <3>0 DEF StepInv
    <3>6. QED BY Zenon, <3>0, <3>1, <3>2, <3>3, <3>4, <3>5 DEF TypeOK
  <2>3. QED BY <1>4, <2>1, <2>2, SMTT(30) DEF FinishContinueCall
<1>5. QED BY <1>1, <1>3, <1>4, SMTT(30) DEF Return

LEMMA NextIInv == IInv /\ [Next]_vars => IInv'
<1> SUFFICES ASSUME IInv, [Next]_vars PROVE IInv'
  BY Zenon
<1>1. CASE UNCHANGED vars
  <2> USE <1>1 DEF IInv, vars, apiVars, frameVars, heapVars
  <2>1. ApiTypes' BY Zenon DEF TypeOK, ApiTypes
  <2>2. FrameTypes' BY Zenon DEF TypeOK, FrameTypes
  <2>3. HeapTypes' BY Zenon DEF TypeOK, HeapTypes
  <2>4. ApiInv' BY SMTT(30) DEF ApiInv
  <2>5. StackInv' BY Zenon DEF StackInv, Height, fp
  <2>6. StepInv' BY Zenon DEF StepInv, Counting
  <2>7. QED BY Zenon, <2>1, <2>2, <2>3, <2>4, <2>5, <2>6 DEF TypeOK
<1>2. QED
  BY Zenon, <1>1, ClientCallIInv, InterpretIInv, ReturnIInv DEF Next

\* IInv is an invariant of Process.
LEMMA IInvInvariant == Spec => []IInv
<1>1. QED
  BY InitIInv, NextIInv, PTL DEF Spec

\* Every variable of Process, Proc and the interpreter keeps its type: no frame
\* is addressed that does not exist and no expression stack is popped below its
\* bottom, in whatever order the client calls and the interpreter runs.
THEOREM TypeCorrect == Spec => []TypeOK
<1>1. IInv => TypeOK
  BY Zenon DEF IInv
<1>2. QED
  BY <1>1, IInvInvariant, PTL

\* Execute and ContinueCall never execute more than max_steps instructions plus
\* the call and the enter that must not be separated (engine.cc, outer loop).
THEOREM StepsBoundedAlways == Spec => []StepsBounded
<1>1. IInv => StepsBounded
  BY SMTT(30) DEF IInv, StepInv, StepsBounded
<1>2. QED
  BY <1>1, IInvInvariant, PTL

-----------------------------------------------------------------------------
(* The heap protocol                                                       *)

LEMMA MarkBracketsStep == IInv /\ MarkBracketsRun /\ [Next]_vars => MarkBracketsRun'
<1> SUFFICES ASSUME IInv, MarkBracketsRun, [Next]_vars PROVE MarkBracketsRun'
  BY SMTT(30)
<1> USE ModeAssumption DEF IInv, MarkBracketsRun, TypeOK, ApiTypes, HeapTypes, Client
<1>1. CASE UNCHANGED vars
  BY <1>1, SMTT(30) DEF vars, apiVars, heapVars
<1>2. CASE SetupInitialization
  BY Zenon, <1>2 DEF SetupInitialization, Die, ApiInv, heapVars
<1>3. CASE SetupRun
  BY <1>3, Zenon DEF SetupRun, Die, ApiInv
<1>4. ASSUME NEW k \in Keys, AddInput(k) PROVE MarkBracketsRun'
  BY Zenon, <1>4 DEF AddInput, apiVars
<1>5. CASE SetupCall
  BY Zenon, <1>5 DEF SetupCall, Mark, Die, ApiInv
<1>6. CASE LookupFunction
  BY Zenon, <1>6 DEF LookupFunction, heapVars
<1>7. CASE DoCall
  BY <1>7, Zenon DEF DoCall, WrongArgs, EnterEngine, Die, ApiInv, heapVars
<1>8. CASE StartCall
  BY <1>8, Zenon DEF StartCall, WrongArgs, Die, ApiInv, heapVars
<1>9. CASE ContinueCall
  BY <1>9 DEF ContinueCall, EnterEngine, ApiInv, heapVars
<1>10. CASE FinishCall
  BY Zenon, <1>10 DEF FinishCall, Release, ApiInv
<1>11. CASE Execute
  BY Zenon, <1>11 DEF Execute, EnterEngine, heapVars
<1>12. CASE Interpret
  <2>1. api # "none" /\ UNCHANGED <<initialized, callState, api, crashed, marked>>
    BY <1>12, Zenon DEF Interpret, Enter, Instr, SetBp, Call, Ret, Terminate, Trap, RetU, Fail,
                 SetAdditionalInput, Suspend, Plain, Step, KeepApi, heapVars
  <2>2. QED BY <2>1, SMTT(30)
<1>13. CASE FinishExecute
  <2>1. CASE status = "SUSPENDED"
    BY <1>13, <2>1 DEF FinishExecute, heapVars
  <2>2. CASE status = "TRAPPED"
    <3>0. PICK silent \in BOOLEAN, n \in 0..MaxHeight :
            /\ HandleTrap(silent, FALSE, n)
            /\ IF Fails(silent, FALSE) THEN Cleanup(~DoCalls) ELSE ContinueAfterTrap(n)
      BY <1>13, <2>2, Zenon DEF FinishExecute
    <3>1. /\ status' = IF Fails(silent, FALSE) THEN "FAILED" ELSE "SUSPENDED"
          /\ UNCHANGED <<initialized, callState, crashed>> /\ api' = "none" /\ api # "none" /\ callState = "ILLEGAL"
      BY Zenon, <1>13, <2>2, <3>0 DEF FinishExecute, HandleTrap, TrapStatus, ApiInv
    <3>2. CASE Fails(silent, FALSE)
      <4>1. Cleanup(~DoCalls) BY Zenon, <3>0, <3>2
      <4>2. marked' = IF ~DoCalls /\ initialized THEN FALSE ELSE marked
        BY <4>1, Zenon DEF Cleanup, ReleaseDue, Release
      <4>3. QED BY Zenon, <3>1, <3>2, <4>2
    <3>3. CASE ~Fails(silent, FALSE)
      BY Zenon, <3>0, <3>1, <3>3 DEF ContinueAfterTrap
    <3>4. QED BY <3>2, <3>3, Zenon
  <2>3. CASE status \in {"TERMINATED", "FAILED"}
    <3>1. marked' = IF ~DoCalls /\ initialized THEN FALSE ELSE marked
      BY <1>13, <2>3, Zenon DEF FinishExecute, Cleanup, ReleaseDue, Release
    <3>2. QED BY <1>13, <2>3, <3>1, Zenon DEF FinishExecute, ApiInv
  <2>4. QED BY <1>13, <2>1, <2>2, <2>3, Zenon DEF FinishExecute
<1>14. CASE FinishDoCall
  <2>1. marked' = marked
    <3>1. Cleanup(FALSE) => marked' = marked BY Zenon DEF Cleanup, ReleaseDue
    <3>2. QED BY <1>14, <3>1, Zenon DEF FinishDoCall, FinishCalled, heapVars
  <2>2. DoCalls /\ ~crashed /\ callState = "CALLED" /\ callState' = "CALLED"
    BY Zenon, <1>14 DEF FinishDoCall, Returned, ApiInv
  <2>3. QED BY Zenon, <2>1, <2>2
<1>15. CASE FinishContinueCall
  <2>1. marked' = marked
    <3>1. Cleanup(FALSE) => marked' = marked BY Zenon DEF Cleanup, ReleaseDue
    <3>2. QED BY <1>15, <3>1, Zenon DEF FinishContinueCall, FinishCalled, heapVars
  <2>2. DoCalls /\ ~crashed /\ callState \in {"STARTED", "CONTINUED"} /\ callState' = "CONTINUED"
    BY Zenon, <1>15 DEF FinishContinueCall, Returned, ApiInv
  <2>3. QED BY Zenon, <2>1, <2>2
<1>16. QED
  BY <1>1, <1>2, <1>3, <1>4, <1>5, <1>6, <1>7, <1>8, <1>9, <1>10, <1>11, <1>12, <1>13, <1>14, <1>15, Zenon
     DEF Next, ClientCall, Return

\* The heap is marked exactly while a record is run or a call is open, also when
\* the run or the call fails or is abandoned: SetupRun and SetupCall mark it,
\* FinishExecuteOrCall and FinishCall release it, and nothing else does.
THEOREM MarkBracketsAlways == Spec => []MarkBracketsRun
<1>1. Init => MarkBracketsRun
  BY Zenon, ModeAssumption DEF Init, MarkBracketsRun
<1>2. QED
  BY <1>1, MarkBracketsStep, IInvInvariant, PTL DEF Spec

\* The values held outside the frames, when calls are made with DoCall.
RootInv ==
  /\ callState \notin {"STARTED", "CONTINUED"}
  /\ RootsValid
  /\ vti # "none" => clearVti
  /\ ~crashed /\ api = "none" /\ callState \in {"INITIALIZED", "SETUP", "CALLED", "FINISHED"}
       => inputs = NoInputs /\ vti = "none"

LEMMA CleanupRoots ==
  ASSUME TypeOK, RootInv, NEW release \in BOOLEAN, Cleanup(release)
  PROVE  inputs' = NoInputs /\ vti' = "none"
<1>1. (IF clearVti \/ status = "TRAPPED" THEN "none" ELSE vti) = "none"
  BY Zenon DEF RootInv
<1>2. QED BY Zenon, <1>1 DEF Cleanup, Release, NoInputs, Dangle

LEMMA RootStep == ~Incremental /\ IInv /\ RootInv /\ [Next]_vars => RootInv'
<1> SUFFICES ASSUME ~Incremental, IInv, RootInv, [Next]_vars PROVE RootInv'
  BY Zenon
<1> USE DEF IInv, RootsValid, TypeOK, HeapTypes, Client
<1>1. CASE UNCHANGED vars
  BY <1>1, SMTT(30) DEF RootInv, vars, apiVars, heapVars
<1>2. CASE SetupInitialization
  BY Zenon, <1>2 DEF RootInv, SetupInitialization, Die, ApiInv, heapVars
<1>3. CASE SetupRun
  BY <1>3, Zenon DEF RootInv, SetupRun, ResetRun, NoInputs, Die, heapVars
<1>4. ASSUME NEW k \in Keys, AddInput(k) PROVE RootInv'
  BY Zenon, <1>4 DEF RootInv, AddInput, apiVars, ApiInv
<1>5. CASE SetupCall
  BY Zenon, <1>5 DEF RootInv, SetupCall, ResetRun, Die, heapVars
<1>6. CASE LookupFunction
  BY Zenon, <1>6 DEF RootInv, LookupFunction, heapVars
<1>7. CASE DoCall
  BY Zenon, <1>7 DEF RootInv, DoCall, WrongArgs, EnterEngine, Die, heapVars
<1>8. CASE StartCall
  BY <1>8, SMTT(30) DEF StartCall
<1>9. CASE ContinueCall
  BY <1>9, Zenon DEF ContinueCall, RootInv
<1>10. CASE FinishCall
  <2>1. inputs = NoInputs /\ vti = "none"
    BY Zenon, <1>10 DEF FinishCall, RootInv
  <2>2. inputs' = NoInputs /\ vti' = "none"
    BY Zenon, <1>10, <2>1 DEF FinishCall, Release, NoInputs, Dangle
  <2>3. QED BY Zenon, <1>10, <2>2 DEF FinishCall, RootInv, NoInputs
<1>11. CASE Execute
  BY Zenon, <1>11 DEF RootInv, Execute, EnterEngine, heapVars
<1>12. CASE Interpret
  <2>1. api # "none" /\ UNCHANGED <<callState, api, vti, clearVti>>
    BY <1>12, Zenon DEF Interpret, Enter, Instr, SetBp, Call, Ret, Terminate, Trap, RetU, Fail,
                 SetAdditionalInput, Suspend, Plain, Step, KeepApi, heapVars
  <2>2. inputs' = inputs \/ \E k \in Keys : inputs' = [inputs EXCEPT ![k] = "live"]
    BY <1>12, Zenon DEF Interpret, Enter, Instr, SetBp, Call, Ret, Terminate, Trap, RetU, Fail,
                 SetAdditionalInput, Suspend, heapVars
  <2>3. QED BY <2>1, <2>2, SMTT(30) DEF RootInv
<1>13. CASE FinishExecute
  <2>0. callState = "ILLEGAL" /\ api' = "none"
    BY Zenon, <1>13 DEF FinishExecute, ApiInv
  <2>1. CASE status = "SUSPENDED"
    BY <1>13, <2>0, <2>1 DEF RootInv, FinishExecute, heapVars
  <2>2. CASE status = "TRAPPED"
    <3>0. PICK silent \in BOOLEAN, n \in 0..MaxHeight :
            IF Fails(silent, FALSE) THEN Cleanup(~DoCalls) ELSE ContinueAfterTrap(n)
      BY <1>13, <2>2, Zenon DEF FinishExecute
    <3>1. callState' = "ILLEGAL"
      BY Zenon, <1>13, <2>0, <2>2 DEF FinishExecute
    <3>2. CASE Fails(silent, FALSE)
      <4>1. inputs' = NoInputs /\ vti' = "none" BY <3>0, <3>2, CleanupRoots, Zenon
      <4>2. QED BY Zenon, <3>1, <4>1 DEF RootInv, NoInputs
    <3>3. CASE ~Fails(silent, FALSE)
      BY Zenon, <3>0, <3>1, <3>3 DEF RootInv, ContinueAfterTrap
    <3>4. QED BY <3>2, <3>3, Zenon
  <2>3. CASE status \in {"TERMINATED", "FAILED"}
    <3>1. inputs' = NoInputs /\ vti' = "none"
      BY <1>13, <2>3, CleanupRoots, Zenon DEF FinishExecute
    <3>2. QED BY <1>13, <2>0, <2>3, <3>1, Zenon DEF RootInv, FinishExecute, NoInputs
  <2>4. QED BY <1>13, <2>1, <2>2, <2>3, Zenon DEF FinishExecute
<1>14. CASE FinishDoCall
  <2>1. CASE status = "SUSPENDED"
    <3>1. crashed' /\ UNCHANGED <<callState, heapVars>>
      BY <1>14, <2>1, Zenon DEF FinishDoCall, CallOutcome
    <3>2. QED BY Zenon, <3>1 DEF RootInv, heapVars
  <2>2. CASE status # "SUSPENDED"
    <3>1. Cleanup(FALSE) /\ UNCHANGED callState
      BY <1>14, <2>2, Zenon DEF FinishDoCall, FinishCalled
    <3>2. inputs' = NoInputs /\ vti' = "none"
      BY <3>1, CleanupRoots, Zenon
    <3>3. QED BY Zenon, <3>1, <3>2 DEF RootInv, NoInputs
  <2>3. QED BY Zenon, <2>1, <2>2
<1>15. CASE FinishContinueCall
  BY Zenon, <1>15 DEF FinishContinueCall, ApiInv, RootInv
<1>16. QED
  BY Zenon, <1>1, <1>2, <1>3, <1>4, <1>5, <1>6, <1>7, <1>8, <1>9, <1>10, <1>11, <1>12, <1>13, <1>14, <1>15
     DEF Next, ClientCall, Return

\* When calls are made with DoCall, no additional input and no trap message ever
\* outlives the memory it is in: Cleanup clears them before every Release, and
\* FinishCall finds them cleared.
THEOREM RootsValidAlways ==
  ASSUME ~Incremental
  PROVE  Spec => []RootsValid
<1>1. Init => RootInv
  BY Zenon DEF Init, RootInv, RootsValid
<1>2. IInv /\ RootInv /\ [Next]_vars => RootInv'
  BY Zenon, RootStep
<1>3. RootInv => RootsValid
  BY Zenon DEF RootInv
<1>4. QED
  BY <1>1, <1>2, <1>3, IInvInvariant, PTL DEF Spec

-----------------------------------------------------------------------------
(* What a client of Process is told: the count of undefined values, the    *)
(* status and the error message, and the base pointer                      *)

\* What every instruction leaves alone, and where it can be executed.
LEMMA InterpretKeeps ==
  ASSUME Interpret
  PROVE  /\ api # "none" /\ status = "RUNNING" /\ ~crashed
         /\ UNCHANGED <<initialized, callState, api, initCalls, seenUndef, undefs, crashed>>
         /\ UNCHANGED <<startBp, callFp, vti, clearVti, marked, everMarked>>
<1>1. /\ api # "none" /\ status = "RUNNING" /\ ~crashed
      /\ UNCHANGED <<initialized, callState, api, initCalls, seenUndef, undefs, crashed>>
  BY Zenon DEF Interpret, Enter, Instr, SetBp, Call, Ret, Terminate, Trap, RetU, Fail,
     SetAdditionalInput, Suspend, Plain, Step, KeepApi
<1>2. UNCHANGED <<startBp, callFp, vti, clearVti, marked, everMarked>>
  BY Zenon DEF Interpret, Enter, Instr, SetBp, Call, Ret, Terminate, Trap, RetU, Fail,
     SetAdditionalInput, Suspend, frameVars, heapVars
<1>3. QED BY Zenon, <1>1, <1>2

\* A client call is made when no other one is in progress.
LEMMA ClientCallIdle == ClientCall => Client
BY Zenon DEF ClientCall, SetupInitialization, SetupRun, AddInput, SetupCall, LookupFunction,
   DoCall, StartCall, ContinueCall, FinishCall, Execute

-----------------------------------------------------------------------------
(* What the instructions do to the frames                                  *)

\* A new height leaves the links and the other frames as they are.
LEMMA HeightFrames ==
  ASSUME stack \in Seq(FrameSet), stack # <<>>, NEW n \in 0..MaxHeight
  PROVE  /\ SetHeight(n) \in Seq(FrameSet) /\ Len(SetHeight(n)) = Len(stack)
         /\ \A i \in 1..Len(stack) : /\ SetHeight(n)[i].ret = stack[i].ret
                                     /\ SetHeight(n)[i].sl = stack[i].sl
                                     /\ SetHeight(n)[i].h = IF i = Len(stack) THEN n ELSE stack[i].h
<1> DEFINE f == [stack[Len(stack)] EXCEPT !.h = n]
<1>1. Len(stack) \in 1..Len(stack) /\ Len(stack) \in Nat
  BY EmptySeq, LenProperties
<1>2. stack[Len(stack)] \in FrameSet
  BY Zenon, <1>1, LenProperties
<1>3. f \in FrameSet /\ f.h = n /\ f.ret = stack[Len(stack)].ret /\ f.sl = stack[Len(stack)].sl
  BY Zenon, <1>2 DEF FrameSet
<1>4. SetHeight(n) = [stack EXCEPT ![Len(stack)] = f]
  BY Zenon DEF SetHeight, fp
<1> HIDE DEF f
<1>5. /\ SetHeight(n) \in Seq(FrameSet) /\ Len(SetHeight(n)) = Len(stack)
      /\ \A i \in 1..Len(stack) : SetHeight(n)[i] = IF i = Len(stack) THEN f ELSE stack[i]
  BY <1>1, <1>3, <1>4, ExceptSeq
<1>6. QED
  BY Zenon, <1>3, <1>5

\* enter takes the arguments off the caller's stack and pushes a frame.
LEMMA EnterFrames ==
  ASSUME IInv, Enter, ~(fp >= MaxDepth)
  PROVE  /\ Len(stack) \in Nat /\ Len(stack') = Len(stack) + 1
         /\ stack'[Len(stack) + 1] = Frame(0, bp, retPc)
         /\ \A i \in 1..Len(stack) : /\ stack'[i].ret = stack[i].ret /\ stack'[i].sl = stack[i].sl
                                     /\ stack'[i].h = IF i = Len(stack) THEN Height - argc ELSE stack[i].h
<1> DEFINE s == IF stack = <<>> THEN stack ELSE SetHeight(Height - argc)
<1>0. stack \in Seq(FrameSet) /\ Len(stack) \in Nat /\ Len(<<>>) = 0
  BY Zenon, EmptySeq, LenProperties DEF IInv, TypeOK, FrameTypes
<1>1. /\ s \in Seq(FrameSet) /\ Len(s) = Len(stack)
      /\ \A i \in 1..Len(stack) : /\ s[i].ret = stack[i].ret /\ s[i].sl = stack[i].sl
                                  /\ s[i].h = IF i = Len(stack) THEN Height - argc ELSE stack[i].h
  <2>1. CASE stack = <<>>
    BY <1>0, <2>1
  <2>2. CASE stack # <<>>
    <3>1. argc \in Nat /\ argc <= Height
      BY Zenon, <2>2 DEF Enter, IInv, StackInv, TypeOK, FrameTypes
    <3>2. Len(stack) \in 1..Len(stack) BY <1>0, <2>2, EmptySeq
    <3>3. stack[Len(stack)] \in FrameSet BY Zenon, <1>0, <3>2, LenProperties
    <3>4. Height \in 0..MaxHeight BY Zenon, <3>3 DEF Height, fp, FrameSet
    <3>5. Height - argc \in 0..MaxHeight BY <3>1, <3>4, BoundAssumption
    <3>6. QED BY <1>0, <2>2, <3>5, HeightFrames
  <2>3. QED BY Zenon, <2>1, <2>2
<1>2. stack' = Append(s, Frame(0, bp, retPc))
  BY Zenon DEF Enter
<1> HIDE DEF s
<1>3. Frame(0, bp, retPc) \in FrameSet
  BY BoundAssumption DEF Frame, FrameSet, IInv, TypeOK, FrameTypes
<1>4. /\ Len(stack') = Len(s) + 1 /\ stack'[Len(s) + 1] = Frame(0, bp, retPc)
      /\ \A i \in 1..Len(s) : stack'[i] = s[i]
  BY <1>1, <1>2, <1>3, AppendProperties
<1>5. QED BY <1>0, <1>1, <1>4

\* ret and retV pop a frame; without a return_pc they end the execution.
LEMMA RetFrames ==
  ASSUME IInv, Ret
  PROVE  /\ Len(stack) \in Nat /\ Len(stack) > 1 /\ Len(stack') = Len(stack) - 1 /\ bp' = Len(stack) - 1
         /\ \A i \in 1..Len(stack) - 1 : stack'[i].ret = stack[i].ret /\ stack'[i].sl = stack[i].sl
         /\ \A i \in 1..Len(stack) - 2 : stack'[i].h = stack[i].h
         /\ status' = IF stack[Len(stack)].ret THEN status ELSE "TERMINATED"
         /\ ~stack[Len(stack)].ret =>
               stack'[Len(stack) - 1].h = stack[Len(stack) - 1].h + (IF retVal' THEN 1 ELSE 0)
<1> DEFINE n == Len(stack) - 1
           c == SubSeq(stack, 1, n)
<1>0. /\ stack \in Seq(FrameSet) /\ Len(stack) \in Nat /\ Len(stack) > 1
  BY Zenon, LenProperties DEF Ret, Plain, fp, GP, IInv, TypeOK, FrameTypes
<1>1. n \in 1..Len(stack) /\ n \in Nat /\ n >= 1
  BY <1>0
<1>2. /\ c \in Seq(FrameSet) /\ Len(c) = n
      /\ \A i \in 1..n : c[i] = stack[i]
  BY <1>0, <1>1, PopLemma, Zenon
<1>3. c[n] \in FrameSet /\ n \in 1..Len(c)
  BY <1>1, <1>2, LenProperties
<1>4. PICK result \in BOOLEAN :
        /\ result => (~stack[Len(stack)].ret => DoCalls) /\ c[n].h < MaxHeight
        /\ stack' = [c EXCEPT ![n].h = @ + (IF result THEN 1 ELSE 0)]
        /\ bp' = n
        /\ status' = IF ~stack[Len(stack)].ret THEN "TERMINATED" ELSE status
        /\ retVal' = IF ~stack[Len(stack)].ret THEN result ELSE retVal
  BY Zenon DEF Ret, fp
<1> DEFINE h == c[n].h + (IF result THEN 1 ELSE 0)
           f == [c[n] EXCEPT !.h = h]
<1>5. /\ f \in FrameSet /\ f.h = c[n].h + (IF result THEN 1 ELSE 0)
      /\ f.ret = c[n].ret /\ f.sl = c[n].sl
  <2>1. h \in 0..MaxHeight
    BY <1>3, <1>4, BoundAssumption, SMTT(30) DEF FrameSet
  <2>2. h = c[n].h + (IF result THEN 1 ELSE 0)
    BY Zenon
  <2> HIDE DEF h, c
  <2>3. f \in FrameSet /\ f.h = h /\ f.ret = c[n].ret /\ f.sl = c[n].sl
    BY Zenon, <1>3, <2>1 DEF FrameSet
  <2>4. QED BY Zenon, <2>2, <2>3
<1>6. stack' = [c EXCEPT ![n] = f]
  BY Zenon, <1>4
<1> HIDE DEF h, f, c
<1>7. Len(stack') = n /\ \A i \in 1..n : stack'[i] = IF i = n THEN f ELSE c[i]
  BY <1>2, <1>3, <1>5, <1>6, ExceptSeq
<1>8. \A i \in 1..n : stack'[i].ret = stack[i].ret /\ stack'[i].sl = stack[i].sl
  BY Zenon, <1>1, <1>2, <1>5, <1>7
<1>9. \A i \in 1..n - 1 : stack'[i].h = stack[i].h
  BY <1>1, <1>2, <1>7
<1>10. ~stack[Len(stack)].ret => stack'[n].h = stack[n].h + (IF retVal' THEN 1 ELSE 0)
  BY <1>1, <1>2, <1>4, <1>5, <1>7
<1>11. QED BY <1>0, <1>1, <1>4, <1>7, <1>8, <1>9, <1>10

-----------------------------------------------------------------------------
(* Undefined values                                                        *)

\* The count and the flag that guards it.
UndefInv == undefs \in 0..1 /\ (~seenUndef => undefs = 0)

LEMMA HandleTrapUndef ==
  ASSUME TypeOK, UndefInv, NEW silent \in BOOLEAN, NEW fatal \in BOOLEAN, NEW n \in 0..MaxHeight,
         HandleTrap(silent, fatal, n)
  PROVE  UndefInv'
<1> DEFINE r == Reported(silent, fatal)
<1>1. seenUndef \in BOOLEAN BY Zenon DEF TypeOK, ApiTypes
<1>2. seenUndef' = (seenUndef \/ r) /\ undefs' = IF r /\ ~seenUndef THEN undefs + 1 ELSE undefs
  BY Zenon DEF HandleTrap, UndefCount
<1> HIDE DEF r
<1>3. CASE r /\ ~seenUndef
  <2>1. seenUndef' BY <1>2, <1>3, Zenon
  <2>2. undefs' = undefs + 1 BY <1>2, <1>3, Zenon
  <2>3. undefs = 0 BY Zenon, <1>3 DEF UndefInv
  <2>4. QED BY <2>1, <2>2, <2>3 DEF UndefInv
<1>4. CASE ~(r /\ ~seenUndef)
  BY Zenon, <1>1, <1>2, <1>4 DEF UndefInv
<1>5. QED BY Zenon, <1>3, <1>4

LEMMA UndefStep == IInv /\ UndefInv /\ [Next]_vars => UndefInv'
<1> SUFFICES ASSUME IInv, UndefInv, [Next]_vars PROVE UndefInv'
  BY Zenon
<1>k. UNCHANGED <<seenUndef, undefs>> => UndefInv'
  BY DEF UndefInv
<1>z. undefs' = 0 => UndefInv'
  BY DEF UndefInv
<1>1. CASE UNCHANGED vars
  BY Zenon, <1>1, <1>k DEF vars, apiVars
<1>2. CASE ClientCall
  <2>1. UNCHANGED <<seenUndef, undefs>> \/ undefs' = 0
    BY <1>2, Zenon DEF ClientCall, SetupInitialization, SetupRun, AddInput, SetupCall, LookupFunction,
       DoCall, StartCall, ContinueCall, FinishCall, Execute, Die, ResetRun, WrongArgs, apiVars
  <2>2. QED BY Zenon, <2>1, <1>k, <1>z
<1>3. CASE Interpret
  BY Zenon, <1>3, <1>k, InterpretKeeps
<1>4. CASE Return
  <2>1. \/ UNCHANGED <<seenUndef, undefs>>
        \/ \E silent, fatal \in BOOLEAN, n \in 0..MaxHeight : HandleTrap(silent, fatal, n)
    BY <1>4, Zenon DEF Return, FinishExecute, FinishDoCall, FinishContinueCall, FinishCalled
  <2>2. QED BY Zenon, <2>1, <1>k, HandleTrapUndef DEF IInv
<1>5. QED BY Zenon, <1>1, <1>2, <1>3, <1>4 DEF Next

\* However many traps a record or a call meets, undef_cnt_ grows by one at most
\* (Proc::HandleTrap and seen_undef_).
THEOREM UndefCountedOnceAlways == Spec => []UndefCountedOnce
<1>1. Init => UndefInv
  BY DEF Init, UndefInv
<1>2. UndefInv => UndefCountedOnce
  BY DEF UndefInv, UndefCountedOnce
<1>3. QED
  BY <1>1, <1>2, UndefStep, IInvInvariant, PTL DEF Spec

-----------------------------------------------------------------------------
(* The base pointer                                                        *)

\* A client that makes its calls with DoCall continues none.
NoInstalments == callState \notin {"STARTED", "CONTINUED"}

LEMMA NoInstalmentsAlways ==
  ASSUME ~Incremental
  PROVE  Spec => []NoInstalments
<1> USE DEF NoInstalments
<1>1. Init => NoInstalments
  BY Zenon DEF Init
<1>2. IInv /\ NoInstalments /\ [Next]_vars => NoInstalments'
  <2> SUFFICES ASSUME IInv, NoInstalments, [Next]_vars PROVE NoInstalments'
    BY Zenon
  <2>1. CASE UNCHANGED vars
    BY Zenon, <2>1 DEF vars, apiVars
  <2>2. CASE ClientCall
    <3>1. callState' = callState \/ callState' \in {"ILLEGAL", "SETUP", "CALLED", "FINISHED"}
      BY <2>2, Zenon DEF ClientCall, SetupInitialization, SetupRun, AddInput, SetupCall, LookupFunction,
         DoCall, StartCall, ContinueCall, FinishCall, Execute, Die, apiVars
    <3>2. QED BY Zenon, <3>1
  <2>3. CASE Interpret
    BY Zenon, <2>3, InterpretKeeps
  <2>4. CASE Return
    <3>1. api # "ContinueCall" BY Zenon DEF IInv, ApiInv
    <3>2. callState' \in {callState, "INITIALIZED"}
      BY <2>4, <3>1, Zenon DEF Return, FinishExecute, FinishDoCall, FinishContinueCall
    <3>3. QED BY Zenon, <3>2
  <2>5. QED BY Zenon, <2>1, <2>2, <2>3, <2>4 DEF Next
<1>3. QED
  BY <1>1, <1>2, IInvInvariant, PTL DEF Spec

LEMMA BaseStep == NoInstalments /\ IInv /\ BasePointerCanonical /\ [Next]_vars => BasePointerCanonical'
<1> SUFFICES ASSUME NoInstalments, IInv, BasePointerCanonical, [Next]_vars PROVE BasePointerCanonical'
  BY Zenon
<1> USE DEF BasePointerCanonical, fp
<1>1. CASE UNCHANGED vars
  BY Zenon, <1>1 DEF vars, apiVars, frameVars
<1>2. CASE ClientCall
  <2>0. api = "none" /\ status # "RUNNING"
    BY Zenon, <1>2, ClientCallIdle DEF Client, IInv, ApiInv
  <2>1. CASE Execute
    BY Zenon, <2>1 DEF Execute, EnterEngine
  <2>2. CASE DoCall
    BY <2>0, <2>2, Zenon DEF DoCall, PushCall, WrongArgs, Die
  <2>3. CASE ~Execute /\ ~DoCall
    <3>1. ~ContinueCall
      BY Zenon DEF ContinueCall, NoInstalments
    <3>2. status' # "RUNNING"
      BY <1>2, <2>0, <2>3, <3>1, Zenon DEF ClientCall, SetupInitialization, SetupRun, AddInput, SetupCall, LookupFunction,
         StartCall, FinishCall, Die, ResetRun, WrongArgs, apiVars
    <3>3. QED BY Zenon, <3>2
  <2>4. QED BY Zenon, <2>1, <2>2, <2>3
<1>3. CASE Interpret
  <2>0. stack \in Seq(FrameSet) /\ Len(stack) \in Nat /\ status = "RUNNING" /\ api # "none"
    BY Zenon, <1>3, InterpretKeeps, LenProperties DEF IInv, TypeOK, FrameTypes
  <2>1. CASE Enter
    <3>1. CASE fp >= MaxDepth
      BY Zenon, <2>1, <3>1 DEF Enter
    <3>2. CASE ~(fp >= MaxDepth)
      <4>1. bp' = Len(stack) + 1 BY Zenon, <2>1, <3>2 DEF Enter
      <4>2. QED BY Zenon, <2>1, <3>2, <4>1, EnterFrames
    <3>3. QED BY Zenon, <3>1, <3>2
  <2>2. CASE Instr
    <3>1. stack # <<>> BY Zenon, <2>0, <2>2 DEF Instr, Plain, IInv, StackInv
    <3>2. PICK n \in 0..MaxHeight : stack' = SetHeight(n)
      BY Zenon, <2>2 DEF Instr
    <3>3. Len(stack') = Len(stack) BY Zenon, <2>0, <3>1, <3>2, SetHeightLemma
    <3>4. bp' = Len(stack) BY Zenon, <2>2 DEF Instr
    <3>5. QED BY Zenon, <3>3, <3>4
  <2>3. CASE SetBp
    BY Zenon, <2>3 DEF SetBp
  <2>4. CASE Call
    BY Zenon, <2>4 DEF Call
  <2>5. CASE Ret
    BY Zenon, <2>5, RetFrames
  <2>6. ASSUME NEW k \in Keys, SetAdditionalInput(k) PROVE BasePointerCanonical'
    BY Zenon, <2>6 DEF SetAdditionalInput
  <2>7. CASE Terminate \/ Trap \/ RetU \/ Fail \/ Suspend
    BY <2>7, Zenon DEF Terminate, Trap, RetU, Fail, Suspend
  <2>8. QED
    BY Zenon, <1>3, <2>1, <2>2, <2>3, <2>4, <2>5, <2>6, <2>7 DEF Interpret
<1>4. CASE Return
  <2>1. status # "RUNNING"
    BY Zenon, <1>4 DEF Return, FinishExecute, FinishDoCall, FinishContinueCall, Returned
  <2>2. status' = status \/ status' \in {"FAILED", "SUSPENDED"}
    BY <1>4, Zenon DEF Return, FinishExecute, FinishDoCall, FinishContinueCall, FinishCalled,
       HandleTrap, TrapStatus
  <2>3. QED BY Zenon, <2>1, <2>2
<1>5. QED BY Zenon, <1>1, <1>2, <1>3, <1>4 DEF Next

\* Unless calls are continued in instalments, local variables are always looked
\* up in the frame of the function that runs: Execute resumes with bp = fp, a
\* return restores it, and only a set_bp or a call moves it for one instruction.
THEOREM BasePointerAlways ==
  ASSUME ~Incremental
  PROVE  Spec => []BasePointerCanonical
<1>1. Init => BasePointerCanonical
  BY Zenon DEF Init, BasePointerCanonical
<1>2. Spec => []NoInstalments
  BY Zenon, NoInstalmentsAlways
<1>3. QED
  BY <1>1, <1>2, BaseStep, IInvInvariant, PTL DEF Spec

-----------------------------------------------------------------------------
(* Status and error message                                                *)

\* Which status goes with which state of the call session.
SessionInv ==
  /\ callState = "SETUP" => status = "SUSPENDED"
  /\ callState \in {"INITIALIZED", "FINISHED"} => status \in {"TERMINATED", "FAILED"}
  /\ api = "DoCall" /\ status = "SUSPENDED" => LongCalls

LEMMA SessionStep == IInv /\ SessionInv /\ [Next]_vars => SessionInv'
<1> SUFFICES ASSUME IInv, SessionInv, [Next]_vars PROVE SessionInv'
  BY Zenon
<1> USE DEF SessionInv, IInv
<1>1. CASE UNCHANGED vars
  BY Zenon, <1>1 DEF vars, apiVars
<1>2. CASE ClientCall
  <2>0. api = "none" /\ status \in {"SUSPENDED", "TERMINATED", "FAILED"}
    BY Zenon, <1>2, ClientCallIdle DEF Client, ApiInv, TypeOK, ApiTypes, Status
  <2>1. CASE SetupInitialization
    BY Zenon, <2>0, <2>1 DEF SetupInitialization, Die
  <2>2. CASE SetupRun
    BY <2>0, <2>2, Zenon DEF SetupRun, Die
  <2>3. ASSUME NEW k \in Keys, AddInput(k) PROVE SessionInv'
    BY Zenon, <2>3 DEF AddInput, apiVars
  <2>4. CASE SetupCall
    BY Zenon, <2>0, <2>4 DEF SetupCall, Die
  <2>5. CASE LookupFunction
    BY Zenon, <2>0, <2>5 DEF LookupFunction
  <2>6. CASE DoCall
    <3>1. \/ UNCHANGED <<status, callState, api>>
          \/ callState' = "CALLED" /\ status' \in {"FAILED", "RUNNING"}
      BY <2>6, Zenon DEF DoCall, WrongArgs, EnterEngine, Die
    <3>2. QED BY Zenon, <2>0, <3>1
  <2>7. CASE StartCall
    <3>1. \/ UNCHANGED <<status, callState, api>>
          \/ callState' = "STARTED" /\ api' = api
      BY <2>7, Zenon DEF StartCall, WrongArgs, Die
    <3>2. QED BY Zenon, <2>0, <3>1
  <2>8. CASE ContinueCall
    BY Zenon, <2>0, <2>8 DEF ContinueCall, EnterEngine
  <2>9. CASE FinishCall
    BY Zenon, <2>0, <2>9 DEF FinishCall
  <2>10. CASE Execute
    BY Zenon, <2>10 DEF Execute, EnterEngine
  <2>11. QED
    BY Zenon, <1>2, <2>1, <2>2, <2>3, <2>4, <2>5, <2>6, <2>7, <2>8, <2>9, <2>10 DEF ClientCall
<1>3. CASE Interpret
  <2>1. api # "none" /\ UNCHANGED <<callState, api>>
    BY Zenon, <1>3, InterpretKeeps
  <2>2. callState \notin {"SETUP", "INITIALIZED", "FINISHED"}
    BY Zenon, <2>1 DEF ApiInv, TypeOK, ApiTypes
  <2>3. status' = "SUSPENDED" => Suspend
    BY Zenon, <1>3, InterpretKeeps DEF Interpret, Enter, Instr, SetBp, Call, Ret, Terminate, Trap, RetU, Fail,
                 SetAdditionalInput
  <2>4. api = "DoCall" /\ Suspend => LongCalls
    BY Zenon DEF Suspend, Iterate, Counting
  <2>5. QED BY Zenon, <2>1, <2>2, <2>3, <2>4
<1>4. CASE Return
  <2>0. status # "RUNNING" /\ api # "none" /\ api' = "none"
    BY Zenon, <1>4 DEF Return, FinishExecute, FinishDoCall, FinishContinueCall, Returned
  <2>1. callState \notin {"SETUP", "INITIALIZED", "FINISHED"}
    BY Zenon, <2>0 DEF ApiInv, TypeOK, ApiTypes
  <2>2. \/ callState' = callState \/ callState' = "CONTINUED"
        \/ callState' = "INITIALIZED" /\ status' = "TERMINATED"
    BY <1>4, Zenon DEF Return, FinishExecute, FinishDoCall, FinishContinueCall
  <2>3. QED BY Zenon, <2>0, <2>1, <2>2
<1>5. QED BY Zenon, <1>1, <1>2, <1>3, <1>4 DEF Next

LEMMA SessionAlways == Spec => []SessionInv
<1>1. Init => SessionInv
  BY Zenon DEF Init, SessionInv
<1>2. QED
  BY <1>1, SessionStep, IInvInvariant, PTL DEF Spec

\* There is a message exactly where a failure is told, or where a lookup left one.
ErrInv ==
  /\ status = "FAILED" => err
  /\ status \in {"RUNNING", "SUSPENDED", "TERMINATED"} /\ callState \notin {"INITIALIZED", "FINISHED"}
       => ~err

\* A trap that fails is explained, one that is handled leaves no message.
LEMMA HandleTrapErr ==
  ASSUME TypeOK, NEW silent \in BOOLEAN, NEW fatal \in BOOLEAN, NEW n \in 0..MaxHeight,
         HandleTrap(silent, fatal, n), fatal => ~UndefsIgnored
  PROVE  /\ status' \in {"FAILED", "SUSPENDED"}
         /\ status' = "FAILED" => err'
         /\ status' = "SUSPENDED" => ~err'
<1>0. err \in BOOLEAN BY Zenon DEF TypeOK, ApiTypes
<1> DEFINE r == Reported(silent, fatal)
           u == UndefsIgnored
<1>1. /\ status' = IF fatal \/ (r /\ ~u) THEN "FAILED" ELSE "SUSPENDED"
      /\ err' = IF r /\ ~u THEN TRUE ELSE IF fatal THEN err ELSE FALSE
  BY Zenon DEF HandleTrap, TrapStatus, Fails, TrapMessage
<1>2. fatal /\ ~r => err
  BY Zenon, <1>0 DEF Reported
<1>3. fatal => ~u BY Zenon
<1> HIDE DEF r, u
<1>4. CASE r /\ ~u BY Zenon, <1>1, <1>4
<1>5. CASE ~(r /\ ~u) /\ fatal BY Zenon, <1>1, <1>2, <1>3, <1>5
<1>6. CASE ~(r /\ ~u) /\ ~fatal BY Zenon, <1>1, <1>6
<1>7. QED BY Zenon, <1>4, <1>5, <1>6

LEMMA ErrStep ==
  ASSUME ~LookupAnytime, ~(DoCalls /\ IgnoreUndefs), IInv, SessionInv, ErrInv, [Next]_vars
  PROVE  ErrInv'
<1> USE DEF ErrInv, IInv
<1>1. CASE UNCHANGED vars
  BY Zenon, <1>1 DEF vars, apiVars
<1>2. CASE ClientCall
  <2>0. api = "none" /\ status \in {"SUSPENDED", "TERMINATED", "FAILED"}
    BY Zenon, <1>2, ClientCallIdle DEF Client, ApiInv, TypeOK, ApiTypes, Status
  <2>1. CASE SetupInitialization
    BY Zenon, <2>0, <2>1 DEF SetupInitialization, Die
  <2>2. CASE SetupRun
    BY <2>0, <2>2, Zenon DEF SetupRun, ResetRun, Die
  <2>3. ASSUME NEW k \in Keys, AddInput(k) PROVE ErrInv'
    BY Zenon, <2>3 DEF AddInput, apiVars
  <2>4. CASE SetupCall
    BY Zenon, <2>0, <2>4 DEF SetupCall, ResetRun, Die
  <2>5. CASE LookupFunction
    BY Zenon, <2>0, <2>5 DEF LookupFunction
  <2>6. CASE DoCall
    <3>1. \/ UNCHANGED <<status, callState, err>>
          \/ status' = "FAILED" /\ err' = TRUE
          \/ status' = "RUNNING" /\ err' = err /\ status = "SUSPENDED" /\ callState = "SETUP"
      BY <2>6, Zenon DEF DoCall, WrongArgs, EnterEngine, Die, SessionInv
    <3>2. QED BY <2>0, <3>1
  <2>7. CASE StartCall
    <3>1. \/ UNCHANGED <<status, callState, err>>
          \/ status' = "FAILED" /\ err' = TRUE
          \/ status' = status /\ err' = err /\ status = "SUSPENDED" /\ callState = "SETUP"
      BY <2>7, Zenon DEF StartCall, WrongArgs, Die, SessionInv
    <3>2. QED BY <2>0, <3>1
  <2>8. CASE ContinueCall
    BY <2>0, <2>8 DEF ContinueCall, EnterEngine
  <2>9. CASE FinishCall
    BY Zenon, <2>0, <2>9 DEF FinishCall
  <2>10. CASE Execute
    BY Zenon, <2>10 DEF Execute, EnterEngine
  <2>11. QED
    BY Zenon, <1>2, <2>1, <2>2, <2>3, <2>4, <2>5, <2>6, <2>7, <2>8, <2>9, <2>10 DEF ClientCall
<1>3. CASE Interpret
  <2>1. api # "none" /\ UNCHANGED <<callState, api>> /\ status = "RUNNING"
    BY Zenon, <1>3, InterpretKeeps
  <2>2. callState \notin {"SETUP", "INITIALIZED", "FINISHED"}
    BY Zenon, <2>1 DEF ApiInv, TypeOK, ApiTypes
  <2>3. \/ status' = "FAILED" /\ err' = TRUE
        \/ status' = "TRAPPED"
        \/ status' \in {"RUNNING", "TERMINATED", "SUSPENDED"} /\ err' = err
    BY Zenon, <1>3, <2>1 DEF Interpret, Enter, Instr, SetBp, Call, Ret, Terminate, Trap, RetU, Fail,
                 SetAdditionalInput, Suspend
  <2>4. QED BY <2>1, <2>2, <2>3
<1>4. CASE Return
  <2>0. status # "RUNNING" /\ api # "none" /\ api' = "none"
    BY Zenon, <1>4 DEF Return, FinishExecute, FinishDoCall, FinishContinueCall, Returned
  <2>1. callState \notin {"SETUP", "INITIALIZED", "FINISHED"}
    BY Zenon, <2>0 DEF ApiInv, TypeOK, ApiTypes
  <2>2. CASE UNCHANGED <<status, err>> /\ status # "TRAPPED"
    BY Zenon, <2>0, <2>1, <2>2
  <2>3. ASSUME NEW silent \in BOOLEAN, NEW fatal \in BOOLEAN, NEW n \in 0..MaxHeight,
               HandleTrap(silent, fatal, n), fatal => api # "Execute"
        PROVE  ErrInv'
    <3>1. fatal => ~UndefsIgnored
      BY Zenon, <2>0, <2>3 DEF UndefsIgnored, ApiInv, TypeOK, ApiTypes
    <3>2. QED BY Zenon, <2>3, <3>1, HandleTrapErr
  <2>4. \/ UNCHANGED <<status, err>> /\ status # "TRAPPED"
        \/ \E silent, fatal \in BOOLEAN, n \in 0..MaxHeight :
             HandleTrap(silent, fatal, n) /\ (fatal => api # "Execute")
    BY Zenon, <1>4 DEF Return, FinishExecute, FinishDoCall, FinishContinueCall, FinishCalled
  <2>5. QED BY Zenon, <2>2, <2>3, <2>4
<1>5. QED BY Zenon, <1>1, <1>2, <1>3, <1>4 DEF Next

\* When control is back at the client, a FAILED status comes with a message and
\* a run or call that ended well with none, whatever traps, limits and wrong
\* arguments were met (Proc::HandleTrap, FinishExecuteOrCall, FatalError); for a
\* client that looks functions up before SetupCall and does not ask for calls
\* that ignore undefined values.
THEOREM OutcomeReportedAlways ==
  ASSUME ~LookupAnytime, ~(DoCalls /\ IgnoreUndefs)
  PROVE  Spec => []OutcomeReported
<1>1. Init => ErrInv
  BY Zenon DEF Init, ErrInv
<1>2. IInv /\ SessionInv /\ ErrInv /\ [Next]_vars => ErrInv'
  BY Zenon, ErrStep
<1>3. IInv /\ ErrInv => OutcomeReported
  BY Zenon DEF ErrInv, OutcomeReported, IInv, ApiInv
<1>4. QED
  BY <1>1, <1>2, <1>3, SessionAlways, IInvInvariant, PTL DEF Spec
=============================================================================
