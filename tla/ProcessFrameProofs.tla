------------------------- MODULE ProcessFrameProofs -------------------------
(***************************************************************************)
(* The frames of a Process whose functions are called with DoCall, and that*)
(* no CHECK fails when the client keeps to the documented protocol.        *)
(***************************************************************************)
EXTENDS ProcessProofs

\* The last frame that is left without a return_pc: the initialization code's,
\* that of $main, or that of the function which was called.
Bottom == IF ~initialized THEN GP ELSE IF callState = "ILLEGAL" THEN MAIN ELSE MAIN + 1

\* Exactly the frames above Bottom have a return_pc, and $main was entered from
\* the static frame.
LinkInv ==
  /\ \A i \in 1..Len(stack) : stack[i].ret <=> i > Bottom
  /\ initialized /\ Len(stack) >= MAIN => stack[MAIN].sl = GP

\* What the frame that is about to be entered will have for a return_pc and a
\* static link.
EntryInv ==
  /\ atEntry /\ status = "RUNNING" => (retPc <=> Len(stack) >= Bottom)
  /\ atEntry /\ status = "SUSPENDED" /\ callState = "ILLEGAL" => Len(stack) < Bottom
  /\ initialized /\ callState = "ILLEGAL" /\ atEntry /\ status = "RUNNING" /\ Len(stack) = GP => bp = GP

\* How deep the stack is while the initialization code and $main run.
DepthInv ==
  /\ initialized /\ callState = "ILLEGAL" /\ ~atEntry /\ (api # "none" \/ status = "SUSPENDED")
       => Len(stack) >= MAIN
  /\ retU => Len(stack) > Bottom
  /\ status = "TERMINATED" /\ api = "Execute"
       => IF initialized THEN Len(stack) = MAIN /\ stack[MAIN].h = 0 ELSE Len(stack) = GP

\* The expression stack of $main between the calls and during one.
CallerInv ==
  /\ callState \in {"INITIALIZED", "SETUP", "FINISHED"} \/ (api = "none" /\ callState = "CALLED" /\ ~crashed)
       => Len(stack) = MAIN /\ stack[MAIN].h = 0
  /\ api = "DoCall" =>
       /\ Len(stack) > MAIN => stack[MAIN].h = 0 /\ status # "TERMINATED"
       /\ Len(stack) = MAIN => \/ atEntry /\ stack[MAIN].h = argc /\ status # "TERMINATED"
                               \/ status = "TERMINATED" /\ stack[MAIN].h = IF retVal THEN 1 ELSE 0

FrameParts == LinkInv /\ EntryInv /\ DepthInv /\ CallerInv
FramesInv == DoCalls => FrameParts

\* What SetupRun and SetupCall find of the heap: nothing but an input that the
\* client added is above the mark.
InputAdded == ~DoCalls /\ \E k \in Keys : inputs[k] = "live"
HeapInv ==
  /\ everMarked => initialized
  /\ DoCalls /\ callState \in {"UNINITIALIZED", "ILLEGAL", "INITIALIZED"} => ~everMarked
  /\ everMarked /\ ~marked => ~dirty \/ InputAdded

-----------------------------------------------------------------------------
(* The frames                                                              *)

\* A step that leaves the frames and the session alone.
LEMMA FramesKept ==
  ASSUME FrameParts, crashed => crashed',
         UNCHANGED <<status, initialized, callState, api, stack, bp, atEntry, retPc, argc, retU, retVal>>
  PROVE  FrameParts'
<1>1. LinkInv' BY Zenon DEF FrameParts, LinkInv, Bottom
<1>2. EntryInv' BY Zenon DEF FrameParts, EntryInv, Bottom
<1>3. DepthInv' BY Zenon DEF FrameParts, DepthInv, Bottom
<1>4. CallerInv' BY Zenon DEF FrameParts, CallerInv
<1>5. QED BY Zenon, <1>1, <1>2, <1>3, <1>4 DEF FrameParts

\* The stack of a failed call is that of its caller, emptied.
LEMMA CallerFrames ==
  ASSUME stack \in Seq(FrameSet), Len(stack) >= MAIN, callFp = MAIN
  PROVE  /\ Len(CallerStack) = MAIN /\ CallerStack[MAIN].h = 0
         /\ CallerStack[GP] = stack[GP] /\ CallerStack[MAIN].sl = stack[MAIN].sl
         /\ CallerStack[MAIN].ret = stack[MAIN].ret
<1> DEFINE c == SubSeq(stack, 1, MAIN)
           f == [c[MAIN] EXCEPT !.h = 0]
<1>1. MAIN \in 1..Len(stack) /\ MAIN = 2 /\ GP = 1
  BY LenProperties DEF MAIN, GP
<1>2. c \in Seq(FrameSet) /\ Len(c) = MAIN /\ \A i \in 1..MAIN : c[i] = stack[i]
  BY <1>1, PopLemma, Zenon
<1>3. c[MAIN] \in FrameSet
  BY <1>1, <1>2, LenProperties
<1>4. CallerStack = [c EXCEPT ![MAIN] = f]
  BY Zenon DEF CallerStack
<1> HIDE DEF c
<1> DEFINE z == 0
<1>z. z \in 0..MaxHeight /\ z = 0 /\ f = [c[MAIN] EXCEPT !.h = z]
  BY BoundAssumption
<1> HIDE DEF z
<1>5. f \in FrameSet /\ f.h = z /\ f.sl = c[MAIN].sl /\ f.ret = c[MAIN].ret
  BY Zenon, <1>3, <1>z DEF FrameSet
<1> HIDE DEF f
<1>6. Len(CallerStack) = MAIN /\ \A i \in 1..MAIN : CallerStack[i] = IF i = MAIN THEN f ELSE c[i]
  BY <1>1, <1>2, <1>4, <1>5, ExceptSeq
<1>7. CallerStack[GP] = stack[GP] /\ CallerStack[MAIN] = f
  BY <1>1, <1>2, <1>6
<1>8. c[MAIN] = stack[MAIN]
  BY <1>1, <1>2
<1>9. QED BY Zenon, <1>5, <1>6, <1>7, <1>8, <1>z

\* The calls that the client makes.
LEMMA ClientFrames ==
  ASSUME DoCalls, IInv, NoInstalments, FrameParts, ClientCall
  PROVE  FrameParts'
<1> USE DEF GP, MAIN
<1>0. /\ api = "none" /\ status \in {"SUSPENDED", "TERMINATED", "FAILED"} /\ ~crashed
      /\ stack \in Seq(FrameSet) /\ Len(stack) \in Nat /\ Len(<<>>) = 0
  BY Zenon, ClientCallIdle, LenProperties, EmptySeq DEF Client, IInv, ApiInv, TypeOK, ApiTypes, FrameTypes, Status
<1>a. CASE Die
  BY Zenon, <1>a, FramesKept DEF Die, frameVars
<1>1. CASE SetupInitialization /\ ~Die
  <2>1. /\ callState' = "ILLEGAL" /\ status' = "SUSPENDED" /\ stack' = <<>> /\ atEntry'
        /\ ~initialized' /\ api' = "none" /\ UNCHANGED retU
    BY <1>0, <1>1, Zenon DEF SetupInitialization
  <2>2. ~retU
    BY Zenon, <1>0, <1>1 DEF SetupInitialization, IInv, StackInv
  <2>3. LinkInv' BY <1>0, <2>1 DEF LinkInv
  <2>4. EntryInv' BY <1>0, <2>1 DEF EntryInv, Bottom
  <2>5. DepthInv' BY Zenon, <1>0, <2>1, <2>2 DEF DepthInv
  <2>6. CallerInv' BY Zenon, <1>0, <2>1 DEF CallerInv
  <2>7. QED BY Zenon, <2>3, <2>4, <2>5, <2>6 DEF FrameParts
<1>2. CASE SetupRun /\ ~Die
  <2> DEFINE f == [stack[GP] EXCEPT !.h = 2]
  <2>1. /\ callState = "ILLEGAL" /\ callState' = "ILLEGAL" /\ status' = "SUSPENDED" /\ stack' = <<f>>
        /\ atEntry' /\ initialized /\ initialized' /\ api' = "none" /\ UNCHANGED retU
        /\ status = "TERMINATED"
    BY <1>0, <1>2, Zenon DEF SetupRun
  <2>2. ~retU
    BY Zenon, <2>1 DEF IInv, StackInv
  <2>3. Len(stack) >= 1 /\ stack[GP] \in FrameSet
    BY <1>0, <2>1, EmptySeq, LenProperties DEF IInv, StackInv
  <2>4. f.ret = stack[GP].ret
    BY Zenon, <2>3 DEF FrameSet
  <2>5. ~stack[GP].ret
    BY <2>1, <2>3, <1>0 DEF FrameParts, LinkInv, Bottom
  <2> HIDE DEF f
  <2>6. Len(stack') = 1 /\ ~stack'[1].ret
    BY Zenon, <2>1, <2>4, <2>5
  <2>7. LinkInv' BY <2>1, <2>6 DEF LinkInv, Bottom
  <2>8. EntryInv' BY <2>1, <2>6 DEF EntryInv, Bottom
  <2>9. DepthInv' BY Zenon, <2>1, <2>2, <2>6 DEF DepthInv
  <2>10. CallerInv' BY Zenon, <2>1 DEF CallerInv
  <2>11. QED BY Zenon, <2>7, <2>8, <2>9, <2>10 DEF FrameParts
<1>3. ASSUME NEW k \in Keys, AddInput(k) PROVE FrameParts'
  BY Zenon, <1>3 DEF AddInput
<1>4. CASE SetupCall /\ ~Die
  <2>1. /\ callState \in {"INITIALIZED", "FINISHED"} /\ callState' = "SETUP" /\ status' = "SUSPENDED"
        /\ UNCHANGED <<initialized, api, crashed, frameVars>>
    BY <1>0, <1>4, Zenon DEF SetupCall
  <2>2. ~retU BY Zenon, <2>1 DEF IInv, StackInv
  <2>3. LinkInv' BY Zenon, <2>1 DEF FrameParts, LinkInv, Bottom, frameVars
  <2>4. EntryInv' BY Zenon, <2>1 DEF EntryInv
  <2>5. DepthInv' BY Zenon, <1>0, <2>1, <2>2 DEF DepthInv, frameVars
  <2>6. CallerInv' BY Zenon, <1>0, <2>1 DEF FrameParts, CallerInv, frameVars
  <2>7. QED BY Zenon, <2>3, <2>4, <2>5, <2>6 DEF FrameParts
<1>5. CASE LookupFunction
  BY Zenon, <1>5, FramesKept DEF LookupFunction, frameVars
<1>6. CASE DoCall /\ ~Die
  <2>0. callState = "SETUP" /\ Len(stack) = MAIN /\ stack[MAIN].h = 0 /\ stack # <<>>
    <3>1. callState = "SETUP" BY Zenon, <1>6 DEF DoCall
    <3>2. Len(stack) = MAIN /\ stack[MAIN].h = 0 BY Zenon, <3>1 DEF FrameParts, CallerInv
    <3>3. stack # <<>> BY <1>0, <3>2
    <3>4. QED BY Zenon, <3>1, <3>2, <3>3
  <2>1. ~retU BY Zenon, <2>0 DEF IInv, StackInv
  <2>2. CASE callState' = "CALLED" /\ WrongArgs
    <3>1. /\ callState' = "CALLED" /\ status' = "FAILED"
          /\ UNCHANGED <<initialized, api, crashed, frameVars>>
      BY Zenon, <2>2 DEF WrongArgs
    <3>2. LinkInv' BY Zenon, <2>0, <3>1 DEF FrameParts, LinkInv, Bottom, frameVars
    <3>3. EntryInv' BY Zenon, <3>1 DEF EntryInv
    <3>4. DepthInv' BY Zenon, <1>0, <3>1, <2>1 DEF DepthInv, frameVars
    <3>5. CallerInv' BY Zenon, <1>0, <2>0, <3>1 DEF FrameParts, CallerInv, frameVars
    <3>6. QED BY Zenon, <3>2, <3>3, <3>4, <3>5 DEF FrameParts
  <2>3. ASSUME NEW n \in 0..1, NEW context \in {GP, fp}, PushCall(n), callState' = "CALLED",
               EnterEngine("DoCall", context), UNCHANGED <<initialized, crashed, retU>>
        PROVE  FrameParts'
    <3>1. n \in 0..MaxHeight /\ n \in Nat BY BoundAssumption
    <3>2. /\ Len(stack') = MAIN /\ stack'[MAIN].h = n
          /\ \A i \in 1..MAIN : stack'[i].ret = stack[i].ret /\ stack'[i].sl = stack[i].sl
      BY <1>0, <2>0, <2>3, <3>1, HeightFrames DEF PushCall
    <3>3. argc' = n /\ atEntry' /\ api' = "DoCall" /\ status' = "RUNNING" /\ ~retPc'
      BY Zenon, <2>3 DEF PushCall, EnterEngine
    <3>4. initialized BY Zenon, <2>0 DEF IInv, ApiInv
    <3>5. LinkInv' BY <2>0, <2>3, <3>2, <3>4 DEF FrameParts, LinkInv, Bottom
    <3>6. EntryInv' BY <2>3, <3>2, <3>3, <3>4 DEF EntryInv, Bottom
    <3>7. DepthInv' BY Zenon, <2>1, <2>3, <3>3 DEF DepthInv
    <3>8. CallerInv' BY <2>3, <3>2, <3>3 DEF CallerInv
    <3>9. QED BY Zenon, <3>5, <3>6, <3>7, <3>8 DEF FrameParts
  <2>4. QED BY Zenon, <1>6, <2>2, <2>3 DEF DoCall
<1>7. CASE StartCall /\ ~Die
  <2>0. callState = "SETUP" /\ Len(stack) = MAIN /\ stack[MAIN].h = 0 /\ stack # <<>>
    <3>1. callState = "SETUP" BY Zenon, <1>7 DEF StartCall
    <3>2. Len(stack) = MAIN /\ stack[MAIN].h = 0 BY Zenon, <3>1 DEF FrameParts, CallerInv
    <3>3. stack # <<>> BY <1>0, <3>2
    <3>4. QED BY Zenon, <3>1, <3>2, <3>3
  <2>1. ~retU BY Zenon, <2>0 DEF IInv, StackInv
  <2>2. CASE callState' = "STARTED" /\ WrongArgs
    <3>1. /\ callState' = "STARTED" /\ status' = "FAILED"
          /\ UNCHANGED <<initialized, api, crashed, frameVars>>
      BY Zenon, <2>2 DEF WrongArgs
    <3>2. LinkInv' BY Zenon, <2>0, <3>1 DEF FrameParts, LinkInv, Bottom, frameVars
    <3>3. EntryInv' BY Zenon, <3>1 DEF EntryInv
    <3>4. DepthInv' BY Zenon, <1>0, <3>1, <2>1 DEF DepthInv, frameVars
    <3>5. CallerInv' BY Zenon, <1>0, <2>0, <3>1 DEF FrameParts, CallerInv, frameVars
    <3>6. QED BY Zenon, <3>2, <3>3, <3>4, <3>5 DEF FrameParts
  <2>3. ASSUME NEW n \in 0..1, PushCall(n), callState' = "STARTED",
               UNCHANGED <<status, api, initialized, crashed, retU>>
        PROVE  FrameParts'
    <3>1. n \in 0..MaxHeight /\ n \in Nat BY BoundAssumption
    <3>2. /\ Len(stack') = MAIN
          /\ \A i \in 1..MAIN : stack'[i].ret = stack[i].ret /\ stack'[i].sl = stack[i].sl
      BY <1>0, <2>0, <2>3, <3>1, HeightFrames DEF PushCall
    <3>4. initialized BY Zenon, <2>0 DEF IInv, ApiInv
    <3>5. LinkInv' BY <2>0, <2>3, <3>2, <3>4 DEF FrameParts, LinkInv, Bottom
    <3>6. EntryInv' BY Zenon, <1>0, <2>3 DEF EntryInv
    <3>7. DepthInv' BY Zenon, <1>0, <2>1, <2>3 DEF DepthInv
    <3>8. CallerInv' BY Zenon, <1>0, <2>3 DEF CallerInv
    <3>9. QED BY Zenon, <3>5, <3>6, <3>7, <3>8 DEF FrameParts
  <2>4. QED BY Zenon, <1>7, <2>2, <2>3 DEF StartCall
<1>8. CASE ContinueCall
  BY Zenon, <1>8 DEF ContinueCall, NoInstalments
<1>9. CASE FinishCall
  <2>1. /\ callState \in {"SETUP", "CALLED"} /\ callState' = "FINISHED" /\ status' # "SUSPENDED"
        /\ status' # "RUNNING" /\ UNCHANGED <<initialized, api, crashed, frameVars>>
    BY Zenon, <1>0, <1>9 DEF FinishCall, NoInstalments
  <2>2. ~retU BY Zenon, <2>1 DEF IInv, StackInv
  <2>3. LinkInv' BY Zenon, <2>1 DEF FrameParts, LinkInv, Bottom, frameVars
  <2>4. EntryInv' BY Zenon, <2>1 DEF EntryInv
  <2>5. DepthInv' BY Zenon, <1>0, <2>1, <2>2 DEF DepthInv, frameVars
  <2>6. CallerInv' BY Zenon, <1>0, <2>1 DEF FrameParts, CallerInv, frameVars
  <2>7. QED BY Zenon, <2>3, <2>4, <2>5, <2>6 DEF FrameParts
<1>10. CASE Execute
  <2>1. /\ callState = "ILLEGAL" /\ status = "SUSPENDED" /\ status' = "RUNNING" /\ api' = "Execute"
        /\ bp' = Len(stack) /\ ~retPc'
        /\ UNCHANGED <<callState, initialized, crashed, stack, atEntry, argc, retU, retVal>>
    BY Zenon, <1>10 DEF Execute, EnterEngine, fp
  <2>3. LinkInv' BY Zenon, <2>1 DEF FrameParts, LinkInv, Bottom
  <2>4. EntryInv' BY <1>0, <2>1 DEF FrameParts, EntryInv, Bottom
  <2>5. DepthInv' BY Zenon, <1>0, <2>1 DEF FrameParts, DepthInv, Bottom
  <2>6. CallerInv' BY Zenon, <2>1 DEF CallerInv
  <2>7. QED BY Zenon, <2>3, <2>4, <2>5, <2>6 DEF FrameParts
<1>11. QED
  BY Zenon, <1>a, <1>1, <1>2, <1>3, <1>4, <1>5, <1>6, <1>7, <1>8, <1>9, <1>10 DEF ClientCall

\* The depths that are told apart: the static frame, $main's, the called
\* function's.
LEMMA MainOrDeeper == \A n \in Nat : n >= 2 => n > 2 \/ n = 2
OBVIOUS
LEMMA DeeperNotMain == \A n \in Nat : n > 2 => n # 2
OBVIOUS
LEMMA CalledOrDeeper == \A n \in Nat : n > 2 => n > 2 + 1 \/ n = 2 + 1
OBVIOUS
LEMMA OntoMain == \A n \in Nat : n + 1 >= 2 => n >= 2 \/ n = 1
OBVIOUS
LEMMA MainNotStatic == \A n \in Nat : n >= 2 => n # 1
OBVIOUS

\* The instructions of the interpreter.
LEMMA InterpretFrames ==
  ASSUME DoCalls, IInv, NoInstalments, FrameParts, Interpret
  PROVE  FrameParts'
<1> USE DEF GP, MAIN
<1>0. /\ api \in {"Execute", "DoCall"} /\ status = "RUNNING" /\ ~crashed
      /\ UNCHANGED <<initialized, callState, api, crashed>>
      /\ stack \in Seq(FrameSet) /\ Len(stack) \in Nat
  BY Zenon, InterpretKeeps, LenProperties DEF NoInstalments, IInv, ApiInv, TypeOK, ApiTypes, FrameTypes
<1>b. /\ api = "Execute" => callState = "ILLEGAL"
      /\ api = "DoCall" => callState = "CALLED" /\ initialized
  BY Zenon DEF IInv, ApiInv
\* Past the entry, the frame of the code that runs is there.
<1>d. ASSUME ~atEntry PROVE /\ Len(stack) >= 1 /\ Len(stack) >= Bottom /\ stack # <<>>
                            /\ initialized => Len(stack) >= MAIN
                            /\ api = "DoCall" => Len(stack) > MAIN
  <2>1. stack # <<>> BY Zenon, <1>0, <1>d DEF IInv, StackInv
  <2>2. Len(stack) >= 1 BY <1>0, <2>1, EmptySeq
  <2>3. api = "DoCall" => Len(stack) > MAIN
    <3>1. api = "DoCall" => Len(stack) >= MAIN /\ Len(stack) # MAIN
      BY Zenon, <1>0, <1>b, <1>d DEF IInv, StackInv, FrameParts, CallerInv
    <3>2. Len(stack) \in Nat BY Zenon, <1>0
    <3>3. QED BY Zenon, <3>1, <3>2, MainOrDeeper
  <2>4. initialized => Len(stack) >= MAIN
    BY <1>0, <1>b, <1>d, <2>3 DEF FrameParts, DepthInv
  <2>5. QED BY <1>0, <1>b, <2>1, <2>2, <2>3, <2>4 DEF Bottom
\* An instruction past the entry that keeps the frames.
<1>k. ASSUME ~atEntry, UNCHANGED <<stack, atEntry, retU, argc, retVal>>,
             status' \in {"RUNNING", "TRAPPED", "FAILED"}
      PROVE  FrameParts'
  <2>1. LinkInv' BY Zenon, <1>0, <1>k DEF FrameParts, LinkInv, Bottom
  <2>2. EntryInv' BY Zenon, <1>k DEF EntryInv
  <2>3. DepthInv' BY Zenon, <1>0, <1>k DEF FrameParts, DepthInv, Bottom
  <2>4. CallerInv' BY Zenon, <1>0, <1>b, <1>d, <1>k DEF FrameParts, CallerInv
  <2>5. QED BY Zenon, <2>1, <2>2, <2>3, <2>4 DEF FrameParts
<1>1. CASE Enter
  <2>0. atEntry /\ retU' = retU /\ retVal' = retVal
    BY Zenon, <1>1 DEF Enter
  <2>1. CASE fp >= MaxDepth
    <3>1. status' = "FAILED" /\ UNCHANGED <<stack, bp, atEntry, retPc, argc>>
      BY Zenon, <1>1, <2>1 DEF Enter
    <3>2. LinkInv' BY Zenon, <1>0, <3>1 DEF FrameParts, LinkInv, Bottom
    <3>3. EntryInv' BY Zenon, <3>1 DEF EntryInv
    <3>4. DepthInv' BY Zenon, <1>0, <2>0, <3>1 DEF FrameParts, DepthInv, Bottom
    <3>5. CallerInv' BY Zenon, <1>0, <1>b, <2>0, <3>1 DEF FrameParts, CallerInv
    <3>6. QED BY Zenon, <3>2, <3>3, <3>4, <3>5 DEF FrameParts
  <2>2. CASE ~(fp >= MaxDepth)
    <3>1. ~atEntry' /\ status' = "RUNNING"
      BY Zenon, <1>0, <1>1, <2>2 DEF Enter
    <3>2. /\ Len(stack') = Len(stack) + 1 /\ stack'[Len(stack) + 1] = Frame(0, bp, retPc)
          /\ \A i \in 1..Len(stack) : /\ stack'[i].ret = stack[i].ret /\ stack'[i].sl = stack[i].sl
                                      /\ stack'[i].h = IF i = Len(stack) THEN Height - argc ELSE stack[i].h
      BY Zenon, <1>1, <2>2, EnterFrames
    <3>3. stack'[Len(stack) + 1].ret = retPc /\ stack'[Len(stack) + 1].sl = bp
      BY <3>2 DEF Frame
    <3>4. retPc <=> Len(stack) >= Bottom
      BY Zenon, <1>0, <2>0 DEF FrameParts, EntryInv
    <3>5. Bottom' = Bottom /\ Bottom \in Nat
      BY <1>0 DEF Bottom
    <3>6. ~retU BY Zenon, <2>0 DEF IInv, StackInv
    <3>7. LinkInv'
      <4>1. \A i \in 1..Len(stack') : stack'[i].ret <=> i > Bottom
        <5>1. \A i \in 1..Len(stack) : stack'[i].ret <=> i > Bottom
          BY Zenon, <3>2 DEF FrameParts, LinkInv
        <5>2. stack'[Len(stack) + 1].ret <=> Len(stack) + 1 > Bottom
          BY <1>0, <3>3, <3>4, <3>5
        <5>3. \A i \in 1..Len(stack') : i \in 1..Len(stack) \/ i = Len(stack) + 1
          BY <1>0, <3>2
        <5>4. QED BY Zenon, <5>1, <5>2, <5>3
      <4>2. initialized /\ Len(stack') >= MAIN => stack'[MAIN].sl = GP
        <5>1. CASE Len(stack) >= MAIN
          BY <1>0, <3>2, <5>1 DEF FrameParts, LinkInv
        <5>2. CASE Len(stack) = GP /\ initialized
          <6>1. callState = "ILLEGAL"
            BY <1>0, <1>b, <5>2 DEF IInv, StackInv
          <6>2. bp = GP BY Zenon, <1>0, <2>0, <5>2, <6>1 DEF FrameParts, EntryInv
          <6>3. QED BY <3>3, <5>2, <6>2
        <5>3. Len(stack) \in Nat /\ Len(stack') = Len(stack) + 1 BY Zenon, <1>0, <3>2
        <5>4. Len(stack') >= MAIN => Len(stack) >= MAIN \/ Len(stack) = GP BY Zenon, <5>3, OntoMain
        <5>5. QED BY Zenon, <5>1, <5>2, <5>4
      <4>3. QED BY Zenon, <1>0, <3>5, <4>1, <4>2 DEF LinkInv
    <3>8. EntryInv' BY Zenon, <3>1 DEF EntryInv
    <3>9. DepthInv'
      <4>1. initialized /\ callState = "ILLEGAL" => Len(stack') >= MAIN
        <5>1. initialized => Len(stack) >= 1
          BY <1>0, EmptySeq DEF IInv, StackInv
        <5>2. QED BY <1>0, <3>2, <5>1
      <4>2. QED BY Zenon, <1>0, <2>0, <3>1, <3>6, <4>1 DEF DepthInv
    <3>10. CallerInv'
      <4>1. ASSUME api = "DoCall" PROVE stack'[MAIN].h = 0 /\ Len(stack') > MAIN
        <5>1. Len(stack) >= MAIN BY Zenon, <1>0, <1>b, <4>1 DEF IInv, StackInv
        <5>2. CASE Len(stack) > MAIN
          BY <1>0, <3>2, <4>1, <5>2 DEF FrameParts, CallerInv
        <5>3. CASE Len(stack) = MAIN
          <6>1. stack[MAIN].h = argc
            BY Zenon, <1>0, <4>1, <5>3 DEF FrameParts, CallerInv
          <6>2. stack'[MAIN].h = argc - argc
            BY <3>2, <5>3, <6>1 DEF Height, fp
          <6>3. argc \in Nat BY Zenon DEF IInv, TypeOK, FrameTypes
          <6>4. QED BY <3>2, <5>3, <6>2, <6>3
        <5>4. Len(stack) \in Nat BY Zenon, <1>0
        <5>5. Len(stack) > MAIN \/ Len(stack) = MAIN BY Zenon, <5>1, <5>4, MainOrDeeper
        <5>6. QED BY Zenon, <5>2, <5>3, <5>5
      <4>2. Len(stack') \in Nat BY <1>0, <3>2
      <4>3. ~(Len(stack') > MAIN /\ Len(stack') = MAIN) BY Zenon, <4>2, DeeperNotMain
      <4>4. QED BY Zenon, <1>0, <1>b, <3>1, <4>1, <4>3 DEF CallerInv
    <3>11. QED BY Zenon, <3>7, <3>8, <3>9, <3>10 DEF FrameParts
  <2>3. QED BY Zenon, <2>1, <2>2
<1>2. CASE Instr
  <2>1. ~atEntry /\ ~atEntry' /\ UNCHANGED <<status, retU>>
    BY Zenon, <1>2 DEF Instr, Plain
  <2>2. PICK n \in 0..MaxHeight : stack' = SetHeight(n)
    BY Zenon, <1>2 DEF Instr
  <2>3. /\ Len(stack') = Len(stack)
        /\ \A i \in 1..Len(stack) : stack'[i].ret = stack[i].ret /\ stack'[i].sl = stack[i].sl
        /\ \A i \in 1..Len(stack) : i # Len(stack) => stack'[i].h = stack[i].h
    BY Zenon, <1>0, <1>d, <2>1, <2>2, HeightFrames
  <2>4. LinkInv' BY <1>0, <2>3 DEF FrameParts, LinkInv, Bottom
  <2>5. EntryInv' BY Zenon, <2>1 DEF EntryInv
  <2>6. DepthInv' BY Zenon, <1>0, <2>1, <2>3 DEF FrameParts, DepthInv, Bottom
  <2>7. CallerInv' BY <1>0, <1>b, <1>d, <2>1, <2>3 DEF FrameParts, CallerInv
  <2>8. QED BY Zenon, <2>4, <2>5, <2>6, <2>7 DEF FrameParts
<1>3. CASE SetBp
  BY Zenon, <1>0, <1>3, <1>k DEF SetBp, Plain
<1>4. CASE Call
  <2>1. ~atEntry /\ atEntry' /\ retPc' /\ UNCHANGED <<status, stack, retU>> /\ ~retU
    BY Zenon, <1>4 DEF Call, Plain
  <2>2. LinkInv' BY Zenon, <1>0, <2>1 DEF FrameParts, LinkInv, Bottom
  <2>3. EntryInv'
    <3>1. Bottom' = Bottom BY Zenon, <1>0 DEF Bottom
    <3>2. ~(initialized /\ callState = "ILLEGAL" /\ Len(stack) = GP)
      <4>1. Len(stack) \in Nat BY Zenon, <1>0
      <4>2. initialized => Len(stack) >= MAIN BY Zenon, <1>d, <2>1
      <4>3. QED BY Zenon, <4>1, <4>2, MainNotStatic
    <3>3. QED BY Zenon, <1>0, <1>d, <2>1, <3>1, <3>2 DEF EntryInv
  <2>4. DepthInv' BY Zenon, <1>0, <2>1 DEF DepthInv
  <2>5. CallerInv' BY Zenon, <1>0, <1>b, <1>d, <2>1 DEF FrameParts, CallerInv
  <2>6. QED BY Zenon, <2>2, <2>3, <2>4, <2>5 DEF FrameParts
<1>5. CASE Ret
  <2>1. ~atEntry /\ ~atEntry' /\ ~retU /\ ~retU' /\ ~(initialized /\ Len(stack) = MAIN)
    BY Zenon, <1>5 DEF Ret, Plain, fp
  <2>2. /\ Len(stack) > 1 /\ Len(stack') = Len(stack) - 1
        /\ \A i \in 1..Len(stack) - 1 : stack'[i].ret = stack[i].ret /\ stack'[i].sl = stack[i].sl
        /\ \A i \in 1..Len(stack) - 2 : stack'[i].h = stack[i].h
        /\ status' = IF stack[Len(stack)].ret THEN status ELSE "TERMINATED"
        /\ ~stack[Len(stack)].ret =>
              stack'[Len(stack) - 1].h = stack[Len(stack) - 1].h + (IF retVal' THEN 1 ELSE 0)
    BY Zenon, <1>5, RetFrames
  <2>3. stack[Len(stack)].ret <=> Len(stack) > Bottom
    BY <1>0, <2>2 DEF FrameParts, LinkInv
  <2>4. initialized => Len(stack) > MAIN
    <3>1. Len(stack) \in Nat BY Zenon, <1>0
    <3>2. initialized => Len(stack) >= MAIN /\ Len(stack) # MAIN BY Zenon, <1>d, <2>1
    <3>3. QED BY Zenon, <3>1, <3>2, MainOrDeeper
  <2>5. LinkInv'
    <3>1. \A i \in 1..Len(stack') : stack'[i].ret <=> i > Bottom
      BY <1>0, <2>2 DEF FrameParts, LinkInv
    <3>2. initialized => stack'[MAIN].sl = GP
      BY <1>0, <2>2, <2>4 DEF FrameParts, LinkInv
    <3>3. QED BY Zenon, <1>0, <3>1, <3>2 DEF LinkInv, Bottom
  <2>6. EntryInv' BY Zenon, <2>1 DEF EntryInv
  <2>7. api = "Execute" => status' = "RUNNING"
    BY Zenon, <1>0, <1>b, <2>2, <2>3, <2>4 DEF Bottom
  <2>8. DepthInv'
    BY <1>0, <2>1, <2>2, <2>4, <2>7 DEF DepthInv
  <2>9. CallerInv'
    <3>1. CASE api = "Execute"
      BY Zenon, <1>0, <1>b, <3>1 DEF CallerInv
    <3>2. CASE api = "DoCall" /\ Len(stack) > MAIN + 1
      <4>1. stack[MAIN].h = 0 BY <1>0, <3>2 DEF FrameParts, CallerInv
      <4>2. stack'[MAIN].h = 0 /\ Len(stack') > MAIN BY <1>0, <2>2, <3>2, <4>1
      <4>3. status' = "RUNNING" BY Zenon, <1>0, <1>b, <2>2, <2>3, <3>2 DEF Bottom
      <4>4. Len(stack') \in Nat BY <1>0, <2>2
      <4>5. ~(Len(stack') > MAIN /\ Len(stack') = MAIN) BY Zenon, <4>4, DeeperNotMain
      <4>6. QED BY Zenon, <1>0, <1>b, <3>2, <4>2, <4>3, <4>5 DEF CallerInv
    <3>3. CASE api = "DoCall" /\ Len(stack) = MAIN + 1
      <4>1. stack[MAIN].h = 0 BY <1>0, <3>3 DEF FrameParts, CallerInv
      <4>2. status' = "TERMINATED" /\ Len(stack') = MAIN
        BY <1>0, <1>b, <2>2, <2>3, <3>3 DEF Bottom
      <4>3. stack'[MAIN].h = IF retVal' THEN 1 ELSE 0
        BY <1>0, <1>b, <2>2, <2>3, <3>3, <4>1 DEF Bottom
      <4>4. QED BY <1>0, <1>b, <3>3, <4>2, <4>3 DEF CallerInv
    <3>4. Len(stack) \in Nat BY Zenon, <1>0
    <3>5. Len(stack) > MAIN => Len(stack) > MAIN + 1 \/ Len(stack) = MAIN + 1 BY Zenon, <3>4, CalledOrDeeper
    <3>6. QED BY Zenon, <1>0, <1>b, <2>4, <3>1, <3>2, <3>3, <3>5
  <2>10. QED BY Zenon, <2>5, <2>6, <2>8, <2>9 DEF FrameParts
<1>6. CASE Terminate
  <2>1. /\ callState = "ILLEGAL" /\ ~atEntry /\ status' = "TERMINATED" /\ Height = 0 /\ ~retU
        /\ UNCHANGED <<stack, atEntry, retU>>
        /\ Len(stack) = IF initialized THEN MAIN ELSE GP
    BY Zenon, <1>6 DEF Terminate, Plain, fp
  <2>2. initialized => stack[MAIN].h = 0
    BY Zenon, <2>1 DEF Height, fp
  <2>3. LinkInv' BY Zenon, <1>0, <2>1 DEF FrameParts, LinkInv, Bottom
  <2>4. EntryInv' BY Zenon, <2>1 DEF EntryInv
  <2>5. DepthInv' BY <1>0, <2>1, <2>2 DEF DepthInv
  <2>6. CallerInv' BY Zenon, <1>0, <1>b, <2>1 DEF CallerInv
  <2>7. QED BY Zenon, <2>3, <2>4, <2>5, <2>6 DEF FrameParts
<1>7. CASE Trap \/ Fail
  BY Zenon, <1>7, <1>k DEF Trap, Fail, Plain
<1>8. CASE RetU
  <2>1. /\ retU /\ ~retU' /\ status' = "TRAPPED" /\ UNCHANGED atEntry
        /\ stack' = SubSeq(stack, 1, Len(stack) - 1)
    BY Zenon, <1>8 DEF RetU, fp
  <2>2. ~atEntry /\ callState = "ILLEGAL" /\ Len(stack) > 1
    BY Zenon, <2>1 DEF IInv, StackInv
  <2>3. /\ Len(stack') = Len(stack) - 1 /\ \A i \in 1..Len(stack) - 1 : stack'[i] = stack[i]
    BY <1>0, <2>1, <2>2, PopLemma
  <2>4. Len(stack) > Bottom
    BY Zenon, <2>1 DEF FrameParts, DepthInv
  <2>5. LinkInv' BY <1>0, <2>3 DEF FrameParts, LinkInv, Bottom
  <2>6. EntryInv' BY Zenon, <2>1 DEF EntryInv
  <2>7. DepthInv' BY <1>0, <2>1, <2>2, <2>3, <2>4 DEF DepthInv, Bottom
  <2>8. CallerInv' BY Zenon, <1>0, <1>b, <2>2 DEF CallerInv
  <2>9. QED BY Zenon, <2>5, <2>6, <2>7, <2>8 DEF FrameParts
<1>9. ASSUME NEW k \in Keys, SetAdditionalInput(k) PROVE FrameParts'
  BY Zenon, <1>0, <1>9, <1>k DEF SetAdditionalInput, Plain
<1>10. CASE Suspend
  <2>1. status' = "SUSPENDED" /\ ~retPc /\ UNCHANGED frameVars
    BY Zenon, <1>10, <1>0 DEF Suspend, Iterate
  <2>2. LinkInv' BY Zenon, <1>0, <2>1 DEF FrameParts, LinkInv, Bottom, frameVars
  <2>3. EntryInv' BY <1>0, <2>1 DEF FrameParts, EntryInv, Bottom, frameVars
  <2>4. DepthInv' BY Zenon, <1>0, <2>1 DEF FrameParts, DepthInv, Bottom, frameVars
  <2>5. CallerInv' BY Zenon, <1>0, <1>b, <2>1 DEF FrameParts, CallerInv, frameVars
  <2>6. QED BY Zenon, <2>2, <2>3, <2>4, <2>5 DEF FrameParts
<1>11. QED
  BY Zenon, <1>1, <1>2, <1>3, <1>4, <1>5, <1>6, <1>7, <1>8, <1>9, <1>10 DEF Interpret

\* What follows the interpreter loop.
LEMMA ReturnFrames ==
  ASSUME DoCalls, IInv, NoInstalments, FrameParts, Return
  PROVE  FrameParts'
<1> USE DEF GP, MAIN
<1>0. /\ api \in {"Execute", "DoCall"} /\ status # "RUNNING" /\ api' = "none"
      /\ status \in {"SUSPENDED", "TRAPPED", "TERMINATED", "FAILED"}
      /\ stack \in Seq(FrameSet) /\ Len(stack) \in Nat
  <2>1. api # "none" /\ status # "RUNNING" /\ api' = "none"
    BY Zenon DEF Return, FinishExecute, FinishDoCall, FinishContinueCall, Returned
  <2>2. QED
    BY Zenon, <2>1, LenProperties DEF NoInstalments, IInv, ApiInv, TypeOK, ApiTypes, FrameTypes, Status
<1>b. /\ api = "Execute" => callState = "ILLEGAL"
      /\ api = "DoCall" => callState = "CALLED" /\ initialized
  BY Zenon DEF IInv, ApiInv
<1>1. CASE FinishExecute
  <2>0. api = "Execute" /\ callState = "ILLEGAL" /\ UNCHANGED <<bp, atEntry, retPc>>
    BY Zenon, <1>1, <1>b DEF FinishExecute
  <2>1. CASE status = "SUSPENDED"
    <3>1. UNCHANGED <<status, initialized, callState, stack, retU>>
      BY Zenon, <1>1, <2>1 DEF FinishExecute
    <3>2. LinkInv' BY Zenon, <3>1 DEF FrameParts, LinkInv, Bottom
    <3>3. EntryInv' BY Zenon, <2>0, <2>1, <3>1 DEF FrameParts, EntryInv, Bottom
    <3>4. DepthInv' BY Zenon, <1>0, <2>0, <3>1 DEF FrameParts, DepthInv, Bottom
    <3>5. CallerInv' BY Zenon, <1>0, <2>0, <3>1 DEF CallerInv
    <3>6. QED BY Zenon, <3>2, <3>3, <3>4, <3>5 DEF FrameParts
  <2>2. CASE status = "TRAPPED"
    <3>1. PICK silent \in BOOLEAN, n \in 0..MaxHeight :
            /\ HandleTrap(silent, FALSE, n)
            /\ IF Fails(silent, FALSE) THEN Cleanup(~DoCalls) /\ UNCHANGED <<stack, retU>>
                                      ELSE ContinueAfterTrap(n)
      BY Zenon, <1>1, <2>2 DEF FinishExecute
    <3>2. UNCHANGED <<initialized, callState>>
      BY Zenon, <1>1, <2>2 DEF FinishExecute
    <3>3. ~atEntry /\ ~retU /\ stack # <<>>
      BY Zenon, <2>0, <2>2 DEF IInv, StackInv
    <3>4. Len(stack) >= 1
      BY <1>0, <3>3, EmptySeq
    <3>5. /\ Len(stack') = Len(stack)
          /\ \A i \in 1..Len(stack) : stack'[i].ret = stack[i].ret /\ stack'[i].sl = stack[i].sl
      <4>1. CASE stack' = stack BY Zenon, <4>1
      <4>2. CASE stack' = SetHeight(n) BY Zenon, <1>0, <3>3, <4>2, HeightFrames
      <4>3. QED BY Zenon, <3>1, <4>1, <4>2 DEF ContinueAfterTrap
    <3>6. retU' => Len(stack) > Bottom
      <4>1. retU' => stack[Len(stack)].ret
        BY <3>1, <3>3, Zenon DEF ContinueAfterTrap, fp
      <4>2. stack[Len(stack)].ret <=> Len(stack) > Bottom
        BY <1>0, <3>4 DEF FrameParts, LinkInv
      <4>3. QED BY Zenon, <4>1, <4>2
    <3>7. initialized => Len(stack) >= MAIN
      BY Zenon, <2>0, <3>3 DEF FrameParts, DepthInv
    <3>8. LinkInv' BY <1>0, <3>2, <3>5 DEF FrameParts, LinkInv, Bottom
    <3>9. EntryInv' BY Zenon, <2>0, <3>3 DEF EntryInv
    <3>10. DepthInv' BY Zenon, <1>0, <2>0, <3>2, <3>5, <3>6, <3>7 DEF DepthInv, Bottom
    <3>11. CallerInv' BY Zenon, <1>0, <2>0, <3>2 DEF CallerInv
    <3>12. QED BY Zenon, <3>8, <3>9, <3>10, <3>11 DEF FrameParts
  <2>3. CASE status \in {"TERMINATED", "FAILED"}
    <3>1. /\ UNCHANGED <<status, stack, retU>> /\ initialized' = (initialized \/ status = "TERMINATED")
          /\ \/ callState' = callState
             \/ callState' = "INITIALIZED" /\ initialized /\ status = "TERMINATED"
      BY <1>1, <2>3, Zenon DEF FinishExecute
    <3>2. ~retU BY Zenon, <2>3 DEF IInv, StackInv
    <3>3. CASE status = "FAILED"
      <4>1. initialized' = initialized /\ callState' = callState
        BY Zenon, <3>1, <3>3 DEF IInv, TypeOK, ApiTypes
      <4>2. LinkInv' BY <3>1, <4>1 DEF FrameParts, LinkInv, Bottom
      <4>3. EntryInv' BY Zenon, <3>1, <3>3 DEF EntryInv
      <4>4. DepthInv' BY Zenon, <1>0, <3>1, <3>2, <3>3 DEF DepthInv
      <4>5. CallerInv' BY Zenon, <1>0, <2>0, <4>1 DEF CallerInv
      <4>6. QED BY Zenon, <4>2, <4>3, <4>4, <4>5 DEF FrameParts
    <3>4. CASE status = "TERMINATED"
      <4>1. initialized' = TRUE BY Zenon, <3>1, <3>4
      <4>2. IF initialized THEN Len(stack) = MAIN /\ stack[MAIN].h = 0 ELSE Len(stack) = GP
        BY Zenon, <2>0, <3>4 DEF FrameParts, DepthInv
      <4>3. LinkInv'
        <5>1. CASE initialized
          <6>1. \A i \in 1..2 : ~stack[i].ret
            BY <2>0, <4>2, <5>1 DEF FrameParts, LinkInv, Bottom
          <6>2. stack[MAIN].sl = GP
            BY <4>2, <5>1 DEF FrameParts, LinkInv
          <6>3. Bottom' >= MAIN BY <4>1 DEF Bottom
          <6>4. Bottom' \in Nat BY DEF Bottom
          <6>5. \A i \in 1..2 : ~(i > Bottom') BY <6>3, <6>4
          <6>6. Len(stack') = 2 /\ stack' = stack BY Zenon, <3>1, <4>2, <5>1
          <6>7. QED BY Zenon, <6>1, <6>2, <6>5, <6>6 DEF LinkInv
        <5>2. CASE ~initialized
          <6>1. ~stack[1].ret
            BY <4>2, <5>2 DEF FrameParts, LinkInv, Bottom
          <6>2. Bottom' >= MAIN /\ Bottom' \in Nat BY <4>1 DEF Bottom
          <6>3. Len(stack') = 1 /\ stack' = stack BY Zenon, <3>1, <4>2, <5>2
          <6>4. QED BY <6>1, <6>2, <6>3 DEF LinkInv
        <5>3. QED BY Zenon, <5>1, <5>2
      <4>4. EntryInv' BY Zenon, <3>1, <3>4 DEF EntryInv
      <4>5. DepthInv' BY Zenon, <1>0, <3>1, <3>2, <3>4 DEF DepthInv
      <4>6. CallerInv' BY Zenon, <1>0, <2>0, <3>1, <4>2 DEF CallerInv
      <4>7. QED BY Zenon, <4>3, <4>4, <4>5, <4>6 DEF FrameParts
    <3>5. QED BY Zenon, <2>3, <3>3, <3>4
  <2>4. QED BY Zenon, <1>0, <2>1, <2>2, <2>3
<1>2. CASE FinishDoCall
  <2>0. /\ callState = "CALLED" /\ api = "DoCall" /\ initialized
        /\ UNCHANGED <<callState, initialized>>
    BY Zenon, <1>2, <1>b DEF FinishDoCall
  <2>1. ~retU BY Zenon, <2>0 DEF IInv, StackInv
  <2>2. Len(stack) >= MAIN /\ callFp = MAIN BY Zenon, <2>0 DEF IInv, StackInv
  <2>3. ~retU'
    BY <1>2, <2>1, Zenon DEF FinishDoCall, FinishCalled
  <2>d. DepthInv' BY Zenon, <1>0, <2>0, <2>3 DEF DepthInv
  <2>4. CASE status = "SUSPENDED"
    <3>1. UNCHANGED <<status, stack, atEntry>> /\ crashed'
      BY Zenon, <1>2, <2>4 DEF FinishDoCall, CallOutcome
    <3>2. LinkInv' BY Zenon, <2>0, <3>1 DEF FrameParts, LinkInv, Bottom
    <3>3. EntryInv' BY Zenon, <2>0, <2>4, <3>1 DEF EntryInv
    <3>4. CallerInv' BY Zenon, <1>0, <2>0, <3>1 DEF CallerInv
    <3>5. QED BY Zenon, <2>d, <3>2, <3>3, <3>4 DEF FrameParts
  <2>5. CASE stack' = CallerStack /\ status' = "FAILED"
    <3>1. /\ Len(stack') = MAIN /\ stack'[MAIN].h = 0 /\ stack'[GP] = stack[GP]
          /\ stack'[MAIN].sl = stack[MAIN].sl /\ stack'[MAIN].ret = stack[MAIN].ret
      BY Zenon, <1>0, <2>2, <2>5, CallerFrames
    <3>2. \A i \in 1..2 : i = 1 \/ i = 2 OBVIOUS
    <3>3. 1 \in 1..Len(stack) /\ 2 \in 1..Len(stack) BY <1>0, <2>2
    <3>4. LinkInv' BY Zenon, <2>0, <2>2, <3>1, <3>2, <3>3 DEF FrameParts, LinkInv, Bottom
    <3>5. EntryInv' BY Zenon, <2>5 DEF EntryInv
    <3>6. CallerInv' BY Zenon, <1>0, <2>0, <3>1 DEF CallerInv
    <3>7. QED BY Zenon, <2>d, <3>4, <3>5, <3>6 DEF FrameParts
  <2>6. CASE status = "TERMINATED"
    <3>1. stack' = SetHeight(Height - IF retVal THEN 1 ELSE 0) /\ status' = status
      BY Zenon, <1>2, <2>6 DEF FinishDoCall, FinishCalled
    <3>2. Len(stack) = MAIN
      BY Zenon, <1>0, <2>0, <2>2, <2>6, MainOrDeeper DEF FrameParts, CallerInv
    <3>3. stack[MAIN].h = IF retVal THEN 1 ELSE 0
      BY Zenon, <2>0, <2>6, <3>2 DEF FrameParts, CallerInv
    <3>4. Height - (IF retVal THEN 1 ELSE 0) = 0
      BY <3>2, <3>3 DEF Height, fp
    <3>5. 0 \in 0..MaxHeight BY BoundAssumption
    <3>6. stack # <<>> BY <3>2, EmptySeq
    <3>7. /\ Len(stack') = MAIN /\ stack'[MAIN].h = 0
          /\ \A i \in 1..MAIN : stack'[i].ret = stack[i].ret /\ stack'[i].sl = stack[i].sl
      BY <1>0, <3>1, <3>2, <3>4, <3>5, <3>6, HeightFrames
    <3>8. LinkInv' BY <2>0, <3>2, <3>7 DEF FrameParts, LinkInv, Bottom
    <3>9. EntryInv' BY Zenon, <2>6, <3>1 DEF EntryInv
    <3>10. CallerInv' BY Zenon, <1>0, <2>0, <3>7 DEF CallerInv
    <3>11. QED BY Zenon, <2>d, <3>8, <3>9, <3>10 DEF FrameParts
  <2>7. CASE status = "FAILED"
    <3>1. stack' = CallerStack /\ status' = "FAILED"
      BY Zenon, <1>2, <2>7 DEF FinishDoCall, FinishCalled
    <3>2. QED BY Zenon, <2>5, <3>1
  <2>8. CASE status = "TRAPPED"
    <3>1. stack' = CallerStack /\ status' = "FAILED"
      BY Zenon, <1>2, <2>8 DEF FinishDoCall, FinishCalled, HandleTrap, TrapStatus, Fails
    <3>2. QED BY Zenon, <2>5, <3>1
  <2>9. QED BY Zenon, <1>0, <2>4, <2>6, <2>7, <2>8
<1>3. CASE FinishContinueCall
  BY Zenon, <1>0, <1>3 DEF FinishContinueCall
<1>4. QED BY Zenon, <1>1, <1>2, <1>3 DEF Return

LEMMA FramesStep == IInv /\ NoInstalments /\ FramesInv /\ [Next]_vars => FramesInv'
<1> SUFFICES ASSUME IInv, NoInstalments, FramesInv, [Next]_vars, DoCalls PROVE FrameParts'
  BY Zenon DEF FramesInv
<1>0. FrameParts BY Zenon DEF FramesInv
<1>1. CASE UNCHANGED vars
  BY Zenon, <1>0, <1>1, FramesKept DEF vars, apiVars, frameVars
<1>2. QED
  BY Zenon, <1>0, <1>1, ClientFrames, InterpretFrames, ReturnFrames DEF Next

LEMMA FramesAlways ==
  ASSUME ~Incremental
  PROVE  Spec => []FramesInv
<1>1. Init => FramesInv
  <2> SUFFICES ASSUME Init PROVE FrameParts
    BY Zenon DEF FramesInv
  <2>1. Len(<<>>) = 0 BY Zenon, EmptySeq
  <2>2. LinkInv BY <2>1 DEF Init, LinkInv, MAIN
  <2>3. EntryInv BY Zenon DEF Init, EntryInv
  <2>4. DepthInv BY Zenon DEF Init, DepthInv
  <2>5. CallerInv BY Zenon DEF Init, CallerInv
  <2>6. QED BY Zenon, <2>2, <2>3, <2>4, <2>5 DEF FrameParts
<1>2. Spec => []NoInstalments
  BY Zenon, NoInstalmentsAlways
<1>3. QED
  BY <1>1, <1>2, FramesStep, IInvInvariant, PTL DEF Spec

LEMMA CallFrameHolds == IInv /\ FramesInv => CallFrameReady
<1> SUFFICES ASSUME IInv, FramesInv, callState = "SETUP" PROVE CallFrame
  BY Zenon DEF CallFrameReady
<1>1. DoCalls /\ initialized BY Zenon DEF IInv, ApiInv
<1>2. LinkInv /\ CallerInv BY Zenon, <1>1 DEF FramesInv, FrameParts
<1>3. Len(stack) = MAIN /\ stack[MAIN].h = 0 BY Zenon, <1>2 DEF CallerInv
<1>4. ~stack[MAIN].ret /\ stack[MAIN].sl = GP BY <1>1, <1>2, <1>3 DEF LinkInv, Bottom, MAIN
<1>5. QED BY Zenon, <1>3, <1>4 DEF CallFrame, fp

\* Whenever DoCall may be called, the assertions it begins with hold: the
\* current frame is the one that $main left, entered from the static frame,
\* with nothing on its expression stack, whether the calls before returned a
\* result, failed in mid-expression or any number of frames deep, or were
\* abandoned (Proc::DoCall, FinishExecuteOrCall).
THEOREM CallFrameReadyAlways ==
  ASSUME ~Incremental
  PROVE  Spec => []CallFrameReady
<1>1. Spec => []FramesInv
  BY Zenon, FramesAlways
<1>2. QED
  BY <1>1, CallFrameHolds, IInvInvariant, PTL

-----------------------------------------------------------------------------
(* The CHECKs                                                              *)

\* What is known of every state of a client that keeps to the protocol.
Known == IInv /\ NoInstalments /\ FramesInv /\ SessionInv /\ ErrInv /\ MarkBracketsRun

\* While instructions are executed, the heap is marked unless it never was.
LEMMA RunsMarked == Known /\ HeapInv /\ ~crashed /\ api # "none" => marked \/ ~everMarked
BY Zenon DEF Known, IInv, ApiInv, TypeOK, ApiTypes, MarkBracketsRun, HeapInv

\* Nothing but an added input is above the mark of a heap that was released.
LEMMA HeapStep ==
  ASSUME Known, HeapInv, [Next]_vars
  PROVE  HeapInv'
<1> USE DEF HeapInv
<1>1. CASE UNCHANGED vars
  BY Zenon, <1>1 DEF vars, apiVars, heapVars, InputAdded
<1>2. CASE ClientCall
  <2>0. api = "none" /\ ~crashed
    BY Zenon, <1>2, ClientCallIdle DEF Client
  <2>a. CASE UNCHANGED <<initialized, callState, marked, everMarked, dirty, inputs>>
    BY Zenon, <2>a DEF InputAdded
  <2>1. CASE SetupInitialization
    BY Zenon, <2>1, <2>a DEF SetupInitialization, Die, heapVars
  <2>2. CASE SetupRun
    <3>1. initialized /\ callState = "ILLEGAL" BY Zenon, <2>2 DEF SetupRun
    <3>2. \/ UNCHANGED <<initialized, callState, marked, everMarked, dirty, inputs>>
          \/ /\ UNCHANGED <<initialized, callState>>
             /\ IF DoCalls THEN UNCHANGED <<marked, everMarked>> ELSE marked' = TRUE /\ everMarked' = TRUE
      BY <2>2, Zenon DEF SetupRun, Die, heapVars
    <3>3. QED BY Zenon, <2>a, <3>1, <3>2
  <2>3. ASSUME NEW k \in Keys, AddInput(k) PROVE HeapInv'
    <3>1. /\ initialized /\ ~DoCalls
          /\ UNCHANGED <<initialized, callState, marked, everMarked>>
          /\ inputs' = [inputs EXCEPT ![k] = "live"]
      BY Zenon, <2>3 DEF AddInput, apiVars
    <3>2. inputs \in [Keys -> Root] BY Zenon DEF Known, IInv, TypeOK, HeapTypes
    <3>3. InputAdded' BY Zenon, <2>3, <3>1, <3>2 DEF InputAdded
    <3>4. QED BY Zenon, <3>1, <3>3
  <2>4. CASE SetupCall
    <3>1. initialized BY Zenon, <2>4 DEF SetupCall, Known, IInv, ApiInv
    <3>2. \/ UNCHANGED <<initialized, callState, marked, everMarked, dirty, inputs>>
          \/ callState' = "SETUP" /\ initialized' = initialized /\ marked' = TRUE
      BY <2>4, Zenon DEF SetupCall, Mark, Die, heapVars
    <3>3. QED BY Zenon, <2>a, <3>1, <3>2
  <2>5. CASE LookupFunction
    BY Zenon, <2>5, <2>a DEF LookupFunction, heapVars
  <2>6. CASE DoCall \/ StartCall
    <3>1. callState = "SETUP" /\ DoCalls
      BY Zenon, <2>6 DEF DoCall, StartCall, Known, IInv, ApiInv
    <3>2. marked BY Zenon, <2>0, <3>1 DEF Known, MarkBracketsRun
    <3>3. UNCHANGED <<initialized, marked, everMarked>> /\ callState' \in {callState, "CALLED", "STARTED"}
      BY <2>6, Zenon DEF DoCall, StartCall, Die, WrongArgs, heapVars
    <3>4. QED BY Zenon, <3>1, <3>2, <3>3
  <2>7. CASE ContinueCall
    BY Zenon, <2>7 DEF ContinueCall, Known, NoInstalments
  <2>8. CASE FinishCall
    BY Zenon, <2>8 DEF FinishCall, Release
  <2>9. CASE Execute
    BY Zenon, <2>9, <2>a DEF Execute, heapVars
  <2>10. QED
    BY Zenon, <1>2, <2>1, <2>2, <2>3, <2>4, <2>5, <2>6, <2>7, <2>8, <2>9 DEF ClientCall
<1>3. CASE Interpret
  <2>1. UNCHANGED <<initialized, callState, marked, everMarked>> /\ api # "none" /\ ~crashed
    BY Zenon, <1>3, InterpretKeeps
  <2>2. QED BY Zenon, <2>1, RunsMarked
<1>4. CASE Return
  <2>0. api # "none" /\ ~crashed
    BY Zenon, <1>4 DEF Return, FinishExecute, FinishDoCall, FinishContinueCall, Returned
  <2>1. /\ everMarked' = everMarked
        /\ initialized => initialized'
        /\ callState' \in {"INITIALIZED", "CONTINUED"} => callState \in {"ILLEGAL", "STARTED", "CONTINUED"}
        /\ callState' \in {callState, "INITIALIZED", "CONTINUED"}
    <3>1. everMarked' = everMarked
      BY <1>4, Zenon DEF Return, FinishExecute, FinishDoCall, FinishContinueCall, FinishCalled, Cleanup,
         ContinueAfterTrap, Release, heapVars
    <3>2. initialized => initialized'
      BY <1>4, Zenon DEF Return, FinishExecute, FinishDoCall, FinishContinueCall
    <3>3. CASE FinishExecute
      <4>1. callState = "ILLEGAL" BY Zenon, <3>3 DEF FinishExecute, Known, IInv, ApiInv
      <4>2. callState' \in {callState, "INITIALIZED"} BY <3>3, Zenon DEF FinishExecute
      <4>3. QED BY Zenon, <3>1, <3>2, <4>1, <4>2
    <3>4. CASE FinishDoCall
      <4>1. callState = "CALLED" /\ callState' = callState BY Zenon, <3>4 DEF FinishDoCall, Known, IInv, ApiInv
      <4>2. QED BY Zenon, <3>1, <3>2, <4>1
    <3>5. CASE FinishContinueCall
      BY Zenon, <3>5 DEF FinishContinueCall, Known, IInv, ApiInv, NoInstalments
    <3>6. QED BY Zenon, <1>4, <3>3, <3>4, <3>5 DEF Return
  <2>2. dirty' = FALSE \/ marked' = marked
    BY <1>4, Zenon DEF Return, FinishExecute, FinishDoCall, FinishContinueCall, FinishCalled, Cleanup,
       ContinueAfterTrap, Release, heapVars
  <2>3. marked \/ ~everMarked BY Zenon, <2>0, RunsMarked
  <2>4. everMarked' /\ ~marked' => ~dirty'
    <3>1. CASE dirty' = FALSE BY Zenon, <3>1
    <3>2. CASE marked' = marked
      <4>1. everMarked' = everMarked BY Zenon, <2>1
      <4>2. QED BY Zenon, <2>3, <3>2, <4>1
    <3>3. QED BY Zenon, <2>2, <3>1, <3>2
  <2>5. everMarked' => initialized' BY Zenon, <2>1
  <2>6. DoCalls /\ callState' \in {"UNINITIALIZED", "ILLEGAL", "INITIALIZED"} => ~everMarked'
    BY Zenon, <2>1 DEF Known, NoInstalments
  <2>7. QED BY Zenon, <2>4, <2>5, <2>6
<1>5. QED BY Zenon, <1>1, <1>2, <1>3, <1>4 DEF Next

\* The CHECKs of the calls that the client makes.
LEMMA ClientChecks ==
  ASSUME Known, HeapInv, ClientCall
  PROVE  ChecksHold'
<1>0. Client /\ ~crashed /\ api = "none"
  BY Zenon, ClientCallIdle DEF Client
<1>a. ~crashed' => ChecksHold'
  BY Zenon DEF ChecksHold
<1>b. Die /\ (SetUpAfterFailure \/ InputBeforeSetup) => ChecksHold'
  <2>1. Die => UNCHANGED <<callState, api, status, everMarked, inputs>>
    BY Zenon DEF Die, heapVars
  <2>2. Die /\ SetUpAfterFailure => SetUpAfterFailure'
    BY Zenon, <2>1 DEF SetUpAfterFailure
  <2>3. Die /\ InputBeforeSetup => InputBeforeSetup'
    BY Zenon, <2>1 DEF InputBeforeSetup
  <2>4. QED BY Zenon, <2>2, <2>3 DEF ChecksHold
<1>1. CASE SetupInitialization
  <2>1. CASE callState = "UNINITIALIZED"
    <3>1. ~initialized /\ status = "TERMINATED" BY Zenon, <2>1 DEF Known, IInv, ApiInv
    <3>2. ~crashed' BY Zenon, <1>0, <1>1, <3>1 DEF SetupInitialization
    <3>3. QED BY Zenon, <1>a, <3>2
  <2>2. CASE callState = "ILLEGAL" /\ status = "FAILED"
    <3>1. SetUpAfterFailure BY Zenon, <1>0, <2>2 DEF SetUpAfterFailure
    <3>2. Die BY Zenon, <1>1, <2>2 DEF SetupInitialization
    <3>3. QED BY Zenon, <1>b, <3>1, <3>2
  <2>3. QED BY Zenon, <1>1, <2>1, <2>2 DEF SetupInitialization
<1>2. CASE SetupRun
  <2>1. initialized /\ callState = "ILLEGAL" /\ status \in {"TERMINATED", "FAILED"}
    BY Zenon, <1>2 DEF SetupRun
  <2>2. CASE Die /\ status = "FAILED"
    BY Zenon, <1>0, <1>b, <2>1, <2>2 DEF SetUpAfterFailure
  <2>3. CASE Die /\ status = "TERMINATED" /\ ~DoCalls /\ ~MarkCheck
    <3>1. ~marked BY Zenon, <1>0, <2>3 DEF Known, MarkBracketsRun
    <3>2. everMarked /\ InputAdded BY Zenon, <2>3, <3>1 DEF MarkCheck, HeapInv
    <3>3. InputBeforeSetup BY Zenon, <1>0, <2>3, <3>2 DEF InputBeforeSetup, InputAdded
    <3>4. QED BY Zenon, <1>b, <2>3, <3>3
  <2>4. \/ Die /\ (status # "TERMINATED" \/ (~DoCalls /\ ~MarkCheck))
        \/ crashed' = crashed
    BY <1>2, Zenon DEF SetupRun
  <2>5. QED BY Zenon, <1>0, <1>a, <2>1, <2>2, <2>3, <2>4
<1>3. ASSUME NEW k \in Keys, AddInput(k) PROVE ChecksHold'
  BY Zenon, <1>0, <1>a, <1>3 DEF AddInput, apiVars
<1>4. CASE SetupCall
  <2>1. callState \in {"INITIALIZED", "FINISHED"} BY Zenon, <1>4 DEF SetupCall
  <2>2. initialized /\ DoCalls BY Zenon, <2>1 DEF Known, IInv, ApiInv
  <2>3. status \in {"TERMINATED", "FAILED"} BY Zenon, <2>1 DEF Known, SessionInv
  <2>4. MarkCheck BY Zenon, <1>0, <2>1, <2>2 DEF MarkCheck, HeapInv, InputAdded, Known, MarkBracketsRun
  <2>5. ~crashed' BY <1>0, <1>4, <2>2, <2>3, <2>4, Zenon DEF SetupCall
  <2>6. QED BY Zenon, <1>a, <2>5
<1>5. CASE LookupFunction
  BY Zenon, <1>0, <1>a, <1>5 DEF LookupFunction
<1>6. CASE DoCall \/ StartCall
  <2>1. CallFrame
    BY Zenon, <1>6, CallFrameHolds DEF DoCall, StartCall, Known, CallFrameReady
  <2>2. ~crashed' BY <1>0, <1>6, <2>1, Zenon DEF DoCall, StartCall, WrongArgs
  <2>3. QED BY Zenon, <1>a, <2>2
<1>7. CASE ContinueCall \/ FinishCall \/ Execute
  <2>1. ~crashed' BY <1>0, <1>7, Zenon DEF ContinueCall, FinishCall, Execute
  <2>2. QED BY Zenon, <1>a, <2>1
<1>8. QED
  BY Zenon, <1>1, <1>2, <1>3, <1>4, <1>5, <1>6, <1>7 DEF ClientCall

\* The CHECK at the end of DoCall.
LEMMA ReturnChecks ==
  ASSUME ~LongCalls, Known, ErrInv', Return
  PROVE  ~crashed'
<1>1. CASE FinishExecute
  BY Zenon, <1>1 DEF FinishExecute, Returned
<1>2. CASE FinishDoCall
  <2>1. status \in {"TERMINATED", "FAILED", "TRAPPED"} /\ callState' = "CALLED"
    BY Zenon, <1>2 DEF FinishDoCall, Returned, Known, SessionInv, IInv, ApiInv, TypeOK, ApiTypes, Status
  <2>2. FinishCalled /\ crashed' = ~CallOutcome(status', err')
    BY Zenon, <1>2, <2>1 DEF FinishDoCall
  <2>3. status' \in {"TERMINATED", "FAILED"}
    BY Zenon, <2>2 DEF FinishCalled, HandleTrap, TrapStatus, Fails
  <2>4. CallOutcome(status', err')
    BY Zenon, <2>1, <2>3 DEF ErrInv, CallOutcome
  <2>5. QED BY Zenon, <2>2, <2>4
<1>3. CASE FinishContinueCall
  BY Zenon, <1>3 DEF FinishContinueCall, Known, IInv, ApiInv, NoInstalments
<1>4. QED BY Zenon, <1>1, <1>2, <1>3 DEF Return

\* The CHECKs of Process, Proc and Memory::Mark hold for a client that keeps to
\* the documented protocol, but for a setup after a failure and for an input
\* added before SetupRun: when it looks functions up before SetupCall, makes
\* its calls with DoCall, which end within max_steps, and does not ask for
\* calls that ignore undefined values.  SetupRun and SetupCall then find a heap
\* that was released, DoCall finds the frame of $main, and what DoCall returns
\* is a result or an error with a message.
THEOREM ChecksHoldAlways ==
  ASSUME ~LongCalls, ~LookupAnytime, ~Incremental, ~(DoCalls /\ IgnoreUndefs)
  PROVE  Spec => []ChecksHold
<1> DEFINE Inv == HeapInv /\ ChecksHold
<1>1. Init => Inv /\ ErrInv
  BY Zenon DEF Init, HeapInv, ChecksHold, ErrInv
<1>2. Spec => []FramesInv /\ []NoInstalments
  <2>1. Spec => []FramesInv BY Zenon, FramesAlways
  <2>2. Spec => []NoInstalments BY Zenon, NoInstalmentsAlways
  <2>3. QED BY <2>1, <2>2, PTL
<1>3. IInv /\ SessionInv /\ ErrInv /\ [Next]_vars => ErrInv'
  BY Zenon, ErrStep
<1>4. Spec => []Known
  <2>1. IInv /\ NoInstalments /\ FramesInv /\ SessionInv /\ ErrInv /\ MarkBracketsRun => Known
    BY Zenon DEF Known
  <2>2. QED
    BY <1>1, <1>2, <1>3, <2>1, IInvInvariant, SessionAlways, MarkBracketsAlways, PTL DEF Spec
<1>5. Known /\ Known' /\ Inv /\ [Next]_vars => Inv'
  <2> SUFFICES ASSUME Known, Known', Inv, [Next]_vars PROVE Inv'
    BY Zenon
  <2>1. HeapInv' BY Zenon, HeapStep
  <2>2. CASE UNCHANGED vars BY Zenon, <2>1, <2>2 DEF vars, apiVars, heapVars, ChecksHold,
    SetUpAfterFailure, InputBeforeSetup
  <2>3. CASE ClientCall BY Zenon, <2>1, <2>3, ClientChecks
  <2>4. CASE Interpret BY <2>1, <2>4, InterpretKeeps DEF ChecksHold
  <2>5. CASE Return
    <3>1. ErrInv' BY Zenon DEF Known
    <3>2. QED BY Zenon, <2>1, <2>5, <3>1, ReturnChecks DEF ChecksHold
  <2>6. QED BY Zenon, <2>2, <2>3, <2>4, <2>5 DEF Next
<1>6. QED
  BY <1>1, <1>4, <1>5, PTL DEF Spec

-----------------------------------------------------------------------------
(* The status diagram                                                      *)

LEMMA ProcStatusStep ==
  ASSUME ~DoCalls, IInv, [Next]_vars
  PROVE  [ProcStatusSpec!Next]_status
<1> USE DEF ProcStatusSpec!Next
<1>0. callState \in {"UNINITIALIZED", "ILLEGAL"} /\ api \in {"none", "Execute"}
  BY Zenon DEF IInv, ApiInv, TypeOK, ApiTypes, CallState
<1>1. CASE UNCHANGED vars
  BY Zenon, <1>1 DEF vars, apiVars
<1>2. CASE ClientCall
  <2>1. CASE SetupInitialization
    BY Zenon, <2>1 DEF SetupInitialization, Die, ProcStatusSpec!Setup
  <2>2. CASE SetupRun
    <3>1. \/ status' = status
          \/ status = "TERMINATED" /\ status' = "SUSPENDED"
      BY <2>2, Zenon DEF SetupRun, Die
    <3>2. QED BY Zenon, <3>1 DEF ProcStatusSpec!Setup
  <2>3. ASSUME NEW k \in Keys, AddInput(k) PROVE status' = status
    BY Zenon, <2>3 DEF AddInput, apiVars
  <2>4. CASE Execute
    BY Zenon, <2>4 DEF Execute, EnterEngine, ProcStatusSpec!Resume
  <2>5. ~(SetupCall \/ LookupFunction \/ DoCall \/ StartCall \/ ContinueCall \/ FinishCall)
    BY Zenon, <1>0 DEF SetupCall, LookupFunction, DoCall, StartCall, ContinueCall, FinishCall
  <2>6. QED BY Zenon, <1>2, <2>1, <2>2, <2>3, <2>4, <2>5 DEF ClientCall
<1>3. CASE Interpret
  <2>1. status = "RUNNING" BY Zenon, <1>3, InterpretKeeps
  <2>2. status' \in {"RUNNING", "SUSPENDED", "TRAPPED", "TERMINATED", "FAILED"}
    BY Zenon, <1>3, InterpretIInv DEF IInv, TypeOK, ApiTypes, Status
  <2>3. QED BY Zenon, <2>1, <2>2 DEF ProcStatusSpec!Leave
<1>4. CASE Return
  <2>1. FinishExecute
    BY Zenon, <1>0, <1>4 DEF Return, FinishDoCall, FinishContinueCall
  <2>2. status' = status \/ (status = "TRAPPED" /\ status' \in {"SUSPENDED", "FAILED"})
    BY <2>1, Zenon DEF FinishExecute, HandleTrap, TrapStatus
  <2>3. QED BY Zenon, <2>2 DEF ProcStatusSpec!Handle
<1>5. QED BY Zenon, <1>1, <1>2, <1>3, <1>4 DEF Next

\* A Process that runs records changes its status only along the edges of the
\* diagram of enum Status (proc.h), whatever the program, the step limit and the
\* client do: Execute alone leaves SUSPENDED, the trap handler alone leaves
\* TRAPPED, and only a setup leaves TERMINATED.
THEOREM ImplementsProcStatusAlways ==
  ASSUME ~DoCalls
  PROVE  Spec => ImplementsProcStatus
<1>1. Init => ProcStatusSpec!Init
  BY Zenon DEF Init, ProcStatusSpec!Init
<1>2. IInv /\ [Next]_vars => [ProcStatusSpec!Next]_status
  BY Zenon, ProcStatusStep
<1>3. QED
  BY <1>1, <1>2, IInvInvariant, PTL DEF Spec, ImplementsProcStatus, ProcStatusSpec!Spec

-----------------------------------------------------------------------------
(* The call session                                                        *)

\* InitializeDoCalls is in progress only before there is a session.
InitCallsInv == initCalls => callState = "ILLEGAL"

LEMMA InitCallsStep == IInv /\ InitCallsInv /\ [Next]_vars => InitCallsInv'
<1> SUFFICES ASSUME IInv, InitCallsInv, [Next]_vars PROVE InitCallsInv'
  BY Zenon
<1> USE DEF InitCallsInv
<1>1. CASE UNCHANGED vars
  BY Zenon, <1>1 DEF vars, apiVars
<1>2. CASE ClientCall
  <2>1. \/ UNCHANGED <<initCalls, callState>>
        \/ callState' = "ILLEGAL"
        \/ initCalls' = initCalls /\ callState # "ILLEGAL"
    BY <1>2, Zenon DEF ClientCall, SetupInitialization, SetupRun, AddInput, SetupCall, LookupFunction,
       DoCall, StartCall, ContinueCall, FinishCall, Execute, Die, WrongArgs, apiVars
  <2>2. QED BY Zenon, <2>1
<1>3. CASE Interpret
  BY Zenon, <1>3, InterpretKeeps
<1>4. CASE Return
  <2>1. CASE FinishExecute
    <3>1. \/ initCalls' = FALSE
          \/ UNCHANGED callState
      BY <2>1, Zenon DEF FinishExecute
    <3>2. callState = "ILLEGAL" BY Zenon, <2>1 DEF FinishExecute, IInv, ApiInv
    <3>3. QED BY Zenon, <3>1, <3>2
  <2>2. CASE FinishDoCall
    BY Zenon, <2>2 DEF FinishDoCall
  <2>3. CASE FinishContinueCall
    BY Zenon, <2>3 DEF FinishContinueCall, IInv, ApiInv
  <2>4. QED BY Zenon, <1>4, <2>1, <2>2, <2>3 DEF Return
<1>5. QED BY Zenon, <1>1, <1>2, <1>3, <1>4 DEF Next

CallSessionVars == <<PhaseSeen, OutcomeSeen>>

\* A step that shows the client nothing new.
LEMMA CallSessionStutter ==
  ASSUME UNCHANGED <<initCalls, callState, api>>,
         api # "none" \/ callState \notin {"CALLED", "STARTED", "CONTINUED"} \/ status' = status
  PROVE  UNCHANGED CallSessionVars
BY Zenon DEF CallSessionVars, PhaseSeen, OutcomeSeen

\* The calls that the client makes.
LEMMA ClientCallSession ==
  ASSUME IInv, SessionInv, InitCallsInv, ClientCall
  PROVE  [CallSessionSpec!Next]_CallSessionVars
<1> USE DEF CallSessionSpec!Next
<1>0. api = "none" /\ initCalls \in BOOLEAN /\ DoCalls \in BOOLEAN
  BY Zenon, ClientCallIdle, ModeAssumption DEF Client, IInv, TypeOK, ApiTypes
<1>a. CASE Die
  BY Zenon, <1>a, CallSessionStutter DEF Die
<1>1. CASE SetupInitialization /\ ~Die
  <2>1. /\ callState' = "ILLEGAL" /\ initCalls' = DoCalls /\ api' = api
        /\ ~initialized /\ status = "TERMINATED"
    BY Zenon, <1>1 DEF SetupInitialization, IInv, TypeOK, ApiTypes
  <2>2. callState = "UNINITIALIZED"
    BY Zenon, <1>1, <2>1 DEF SetupInitialization
  <2>3. PhaseSeen = "UNINITIALIZED" /\ OutcomeSeen = "none"
    BY Zenon, <1>0, <2>2 DEF PhaseSeen, OutcomeSeen
  <2>4. PhaseSeen' = (IF DoCalls THEN "UNINITIALIZED" ELSE "ILLEGAL") /\ OutcomeSeen' = "none"
    BY Zenon, <1>0, <2>1 DEF PhaseSeen, OutcomeSeen
  <2>5. QED BY Zenon, <1>0, <2>3, <2>4 DEF CallSessionSpec!SetupInitialization, CallSessionVars
<1>2. CASE SetupRun /\ ~Die
  <2>1. callState = "ILLEGAL" /\ UNCHANGED <<initCalls, callState, api>>
    BY <1>2, Zenon DEF SetupRun
  <2>2. QED BY Zenon, <2>1, CallSessionStutter
<1>3. ASSUME NEW k \in Keys, AddInput(k) PROVE UNCHANGED CallSessionVars
  BY Zenon, <1>3, CallSessionStutter DEF AddInput, apiVars
<1>4. CASE SetupCall /\ ~Die
  <2>1. /\ callState \in {"INITIALIZED", "FINISHED"} /\ callState' = "SETUP"
        /\ UNCHANGED <<initCalls, api>>
    BY <1>4, Zenon DEF SetupCall
  <2>2. ~initCalls BY Zenon, <2>1 DEF InitCallsInv
  <2>3. /\ PhaseSeen \in {"INITIALIZED", "FINISHED"} /\ PhaseSeen' = "SETUP" /\ OutcomeSeen' = "none"
    BY Zenon, <1>0, <2>1, <2>2 DEF PhaseSeen, OutcomeSeen
  <2>4. QED BY Zenon, <2>3 DEF CallSessionSpec!SetupCall
<1>5. CASE LookupFunction
  BY Zenon, <1>5, CallSessionStutter DEF LookupFunction
<1>6. CASE (DoCall \/ StartCall) /\ ~Die
  <2>1. callState = "SETUP" /\ ~initCalls
    BY Zenon, <1>6 DEF DoCall, StartCall, InitCallsInv
  <2>2. PhaseSeen = "SETUP" /\ OutcomeSeen = "none" /\ status = "SUSPENDED"
    BY Zenon, <1>0, <2>1 DEF PhaseSeen, OutcomeSeen, SessionInv
  <2>3. initCalls' = initCalls
    BY <1>6, Zenon DEF DoCall, StartCall, WrongArgs
  <2>4. \/ callState' = "CALLED" /\ api' = "none" /\ status' = "FAILED"
        \/ callState' = "CALLED" /\ api' = "DoCall"
        \/ callState' = "STARTED" /\ api' = "none" /\ status' \in {"FAILED", "SUSPENDED"}
    BY Zenon, <1>0, <1>6, <2>2 DEF DoCall, StartCall, WrongArgs, EnterEngine
  <2>5. \/ PhaseSeen' = "CALLED" /\ OutcomeSeen' = "error"
        \/ PhaseSeen' = "SETUP" /\ OutcomeSeen' = "none"
        \/ PhaseSeen' = "STARTED" /\ OutcomeSeen' \in {"error", "none"}
    BY Zenon, <2>1, <2>3, <2>4 DEF PhaseSeen, OutcomeSeen
  <2>6. QED BY Zenon, <2>2, <2>5 DEF CallSessionSpec!DoCall, CallSessionSpec!StartCall, CallSessionVars
<1>7. CASE ContinueCall
  <2>1. callState \in {"STARTED", "CONTINUED"} /\ ~initCalls
    BY Zenon, <1>7 DEF ContinueCall, InitCallsInv
  <2>2. CASE status = "SUSPENDED"
    <3>1. api' = "ContinueCall" /\ UNCHANGED <<callState, initCalls>>
      BY Zenon, <1>7, <2>2 DEF ContinueCall, EnterEngine
    <3>2. QED BY Zenon, <1>0, <2>1, <2>2, <3>1 DEF PhaseSeen, OutcomeSeen, CallSessionVars
  <2>3. CASE status = "FAILED"
    <3>1. callState' = "CONTINUED" /\ UNCHANGED <<status, api, initCalls>>
      BY Zenon, <1>7, <2>3 DEF ContinueCall
    <3>2. /\ PhaseSeen \in {"STARTED", "CONTINUED"} /\ PhaseSeen' = "CONTINUED"
          /\ OutcomeSeen = "error" /\ OutcomeSeen' = "error"
      BY Zenon, <1>0, <2>1, <2>3, <3>1 DEF PhaseSeen, OutcomeSeen
    <3>3. QED BY Zenon, <3>2 DEF CallSessionSpec!ContinueCall
  <2>4. QED BY Zenon, <1>7, <2>2, <2>3 DEF ContinueCall
<1>8. CASE FinishCall
  <2>1. /\ callState \in {"SETUP", "CALLED", "STARTED", "CONTINUED"} /\ callState' = "FINISHED"
        /\ UNCHANGED <<initCalls, api>>
    BY Zenon, <1>8 DEF FinishCall
  <2>2. ~initCalls BY Zenon, <2>1 DEF InitCallsInv
  <2>3. /\ PhaseSeen \in {"SETUP", "CALLED", "STARTED", "CONTINUED"}
        /\ PhaseSeen' = "FINISHED" /\ OutcomeSeen' = "none"
    BY Zenon, <1>0, <2>1, <2>2 DEF PhaseSeen, OutcomeSeen
  <2>4. QED BY Zenon, <2>3 DEF CallSessionSpec!FinishCall
<1>9. CASE Execute
  <2>1. callState = "ILLEGAL" /\ api' = "Execute" /\ UNCHANGED <<callState, initCalls>>
    BY Zenon, <1>9 DEF Execute, EnterEngine
  <2>2. QED BY Zenon, <1>0, <2>1 DEF PhaseSeen, OutcomeSeen, CallSessionVars
<1>10. QED
  BY Zenon, <1>a, <1>1, <1>2, <1>3, <1>4, <1>5, <1>6, <1>7, <1>8, <1>9 DEF ClientCall

\* What follows the interpreter loop.
LEMMA ReturnSession ==
  ASSUME ~LongCalls, IInv, SessionInv, InitCallsInv, Return
  PROVE  [CallSessionSpec!Next]_CallSessionVars
<1> USE DEF CallSessionSpec!Next
<1>0. /\ api # "none" /\ api' = "none" /\ status # "RUNNING"
      /\ status \in {"SUSPENDED", "TRAPPED", "TERMINATED", "FAILED"}
      /\ initCalls \in BOOLEAN
  <2>1. api # "none" /\ api' = "none" /\ status # "RUNNING"
    BY Zenon DEF Return, FinishExecute, FinishDoCall, FinishContinueCall, Returned
  <2>2. QED BY Zenon, <2>1 DEF IInv, TypeOK, ApiTypes, Status
<1>t. FinishCalled => /\ status' \in {"TERMINATED", "FAILED"} /\ status # "SUSPENDED"
  BY Zenon DEF FinishCalled, HandleTrap, TrapStatus, Fails
<1>1. CASE FinishExecute
  <2>1. callState = "ILLEGAL" /\ api = "Execute"
    BY Zenon, <1>1 DEF FinishExecute, IInv, ApiInv
  <2>2. OutcomeSeen = "none" /\ PhaseSeen = IF initCalls THEN "UNINITIALIZED" ELSE "ILLEGAL"
    BY Zenon, <2>1 DEF PhaseSeen, OutcomeSeen
  <2>3. \/ callState' = "ILLEGAL" /\ (initCalls' => initCalls)
        \/ callState' = "INITIALIZED" /\ initCalls /\ ~initCalls'
    BY <1>1, <2>1, Zenon DEF FinishExecute
  <2>4. OutcomeSeen' = "none" /\ PhaseSeen' = IF initCalls' THEN "UNINITIALIZED" ELSE callState'
    BY Zenon, <1>0, <2>3 DEF PhaseSeen, OutcomeSeen
  <2>5. CASE callState' = "ILLEGAL" /\ initCalls /\ ~initCalls'
    BY Zenon, <2>2, <2>4, <2>5 DEF CallSessionSpec!SetupInitialization
  <2>6. CASE callState' = "INITIALIZED" /\ initCalls /\ ~initCalls'
    BY Zenon, <2>2, <2>4, <2>6 DEF CallSessionSpec!InitializeDoCalls
  <2>7. CASE callState' = "ILLEGAL" /\ initCalls /\ initCalls'
    BY Zenon, <2>2, <2>4, <2>7 DEF CallSessionVars
  <2>8. CASE callState' = "ILLEGAL" /\ ~initCalls /\ ~initCalls'
    BY Zenon, <2>2, <2>4, <2>8 DEF CallSessionVars
  <2>9. QED BY Zenon, <2>3, <2>5, <2>6, <2>7, <2>8
<1>2. CASE FinishDoCall
  <2>1. callState = "CALLED" /\ api = "DoCall" /\ UNCHANGED <<callState, initCalls>>
    BY Zenon, <1>2 DEF FinishDoCall, IInv, ApiInv
  <2>2. ~initCalls BY Zenon, <2>1 DEF InitCallsInv
  <2>3. status' \in {"TERMINATED", "FAILED"}
    BY Zenon, <1>2, <1>t, <2>1 DEF FinishDoCall, SessionInv
  <2>4. PhaseSeen = "SETUP" /\ PhaseSeen' = "CALLED" /\ OutcomeSeen' \in {"result", "error"}
    BY Zenon, <1>0, <2>1, <2>2, <2>3 DEF PhaseSeen, OutcomeSeen
  <2>5. QED BY Zenon, <2>4 DEF CallSessionSpec!DoCall
<1>3. CASE FinishContinueCall
  <2>1. /\ callState \in {"STARTED", "CONTINUED"} /\ api = "ContinueCall" /\ callState' = "CONTINUED"
        /\ UNCHANGED initCalls
    BY Zenon, <1>3 DEF FinishContinueCall, IInv, ApiInv
  <2>2. ~initCalls BY Zenon, <2>1 DEF InitCallsInv
  <2>3. status' \in {"TERMINATED", "FAILED", "SUSPENDED"}
    BY Zenon, <1>3, <1>t DEF FinishContinueCall
  <2>4. /\ PhaseSeen \in {"STARTED", "CONTINUED"} /\ OutcomeSeen = "none"
        /\ PhaseSeen' = "CONTINUED" /\ OutcomeSeen' \in {"none", "result", "error"}
    BY Zenon, <1>0, <2>1, <2>2, <2>3 DEF PhaseSeen, OutcomeSeen
  <2>5. QED BY Zenon, <2>4 DEF CallSessionSpec!ContinueCall
<1>4. QED BY Zenon, <1>1, <1>2, <1>3 DEF Return

\* The client of a Process sees the call session that sawzall.h documents, with
\* InitializeDoCalls and DoCall as single steps: a call has exactly one outcome,
\* a result or an error, it keeps it until FinishCall, and the next session
\* starts without one.  This holds for calls in instalments as well; the only
\* assumption is that a DoCall needs no more than max_steps (kint32max) steps.
THEOREM ImplementsCallSessionAlways ==
  ASSUME ~LongCalls
  PROVE  Spec => ImplementsCallSession
<1>1. Init => CallSessionSpec!Init /\ InitCallsInv
  BY Zenon DEF Init, CallSessionSpec!Init, PhaseSeen, OutcomeSeen, InitCallsInv
<1>2. IInv /\ SessionInv /\ InitCallsInv /\ [Next]_vars => [CallSessionSpec!Next]_CallSessionVars
  <2> SUFFICES ASSUME IInv, SessionInv, InitCallsInv, [Next]_vars
               PROVE  [CallSessionSpec!Next]_CallSessionVars
    BY Zenon
  <2>1. CASE UNCHANGED vars
    BY Zenon, <2>1, CallSessionStutter DEF vars, apiVars
  <2>2. CASE Interpret
    BY Zenon, <2>2, InterpretKeeps, CallSessionStutter
  <2>3. QED BY Zenon, <2>1, <2>2, ClientCallSession, ReturnSession DEF Next
<1>3. QED
  BY <1>1, <1>2, InitCallsStep, SessionAlways, IInvInvariant, PTL
     DEF Spec, ImplementsCallSession, CallSessionSpec!Spec, CallSessionVars
=============================================================================
