--------------------------- MODULE Interrupts_proofs ---------------------------
(***************************************************************************)
(* Proofs about the delivery of interrupts, for any number of producers,   *)
(* any order of the flags and any nesting of Execute68k, with and without  *)
(* atomic updates of spcflags, and about the stack they end up on.         *)
(***************************************************************************)
EXTENDS InterruptsHistory, FiniteSetTheorems, SequenceTheorems, TLAPS

InterruptSpec == Init /\ [][Next]_<<setup, vars>>

\* The word asks for a look at InterruptFlags, or the CPU is about to take one
\* (intlev) or to ask for it (setdoint).
Asks(word) == "INT" \in word \/ "DOINT" \in word
Looks == {"intlev", "setdoint"}

\* An interrupt is there for the CPU to take.
Due == InterruptFlags # {} /\ intmask = 0 /\ ProducersDone

\* Where the CPU thread executes an EMUL_OP, which ends by asking.
InOp == {"idle", "waiting", "native", "emulop_end", "irq", "service", "irq_calls"}

NoCalls == \A i \in DOMAIN stack : stack[i].kind # "call"

\* A request to leave the execution loop that was cleared and has come back through a
\* producer's store has brought a request for interrupts with it.
Stale(word, next) ==
  "BRK" \in word => "INT" \in word \/ next = "setdoint" \/ (next = "brk" /\ "DOINT" \in word)

\* With updates that are a load and a store: what counts is the word to be stored.
WordOK ==
  ~Exclusive =>
    /\ pc = "execloop" => ("BRK" \in spcflags => "INT" \in spcflags)
    /\ pc = "store" /\ cont = "execloop" => "BRK" \notin creg
    /\ NoCalls /\ pc = "store" => (Asks(creg) \/ cont \in Looks) /\ Stale(creg, cont)
    /\ NoCalls /\ pc # "store" => Stale(spcflags, pc)
    /\ NoCalls /\ pc # "store" /\ Due => Asks(spcflags) \/ pc \in Looks \cup InOp

\* With atomic updates: nothing is lost.
AtomicOK ==
  Exclusive =>
    /\ pc # "store" /\ \A s \in Sources : ppc[s] # "loaded"
    /\ Due => Asks(spcflags) \/ pc \in Looks

\* Only code called by an interrupt, or in a call, can be masked if the program does
\* not mask interrupts.
MaskOK ==
  Masks \subseteq {0} =>
    /\ intmask # 0 /\ pc \notin InOp => stack # <<>>
    /\ op.sr # 0 => stack # <<>>
    /\ pc \notin InOp => op.sr = 0
    /\ \A i \in DOMAIN stack : stack[i].op.sr # 0 => i > 1

Types ==
  /\ setup \in Setups
  /\ intmask \in 0 .. 1 /\ quit_program \in BOOLEAN
  /\ ppc \in [Sources -> {"idle", "posted", "flagged", "resumed", "loaded"}]
  /\ cont \notin {"store", "service"} /\ (pc = "service" => op.todo # <<>>)
  /\ stack \in Seq(Frames) /\ op \in Ops

InterruptInv == Types /\ WordOK /\ AtomicOK /\ MaskOK
-----------------------------------------------------------------------------
\* What EMUL_OPs and frames are made of.
LEMMA OpFacts ==
  /\ NoOp \in Ops /\ NoOp.sr = 0
  /\ \A m \in 0 .. 1 : [todo |-> <<>>, sr |-> m] \in Ops /\ [todo |-> Order, sr |-> m] \in Ops
  /\ \A o \in Ops : o.todo # <<>> =>
       [o EXCEPT !.todo = Tail(@)] \in Ops /\ [o EXCEPT !.todo = Tail(@)].sr = o.sr
<1>1. <<>> \in Seq(Sources) /\ Order \in Seq(Sources)
  BY InterruptsAssumption
<1>2. NoOp \in Ops /\ NoOp.sr = 0
  BY <1>1 DEF NoOp, Ops
<1>3. \A t \in Seq(Sources), m \in 0 .. 1 : [todo |-> t, sr |-> m] \in Ops
  BY DEF Ops
<1>4. ASSUME NEW o \in Ops, o.todo # <<>>
      PROVE  [o EXCEPT !.todo = Tail(@)] \in Ops /\ [o EXCEPT !.todo = Tail(@)].sr = o.sr
  <2>1. Tail(o.todo) \in Seq(Sources)
    BY <1>4, HeadTailProperties DEF Ops
  <2> QED BY <2>1 DEF Ops
<1> QED BY <1>1, <1>2, <1>3, <1>4

IrqFrame == [kind |-> "irq", op |-> NoOp, served |-> FALSE]
CallFrame(o) == [kind |-> "call", op |-> o, served |-> FALSE]

\* A frame of an interrupt, of a call, and one that was served.
LEMMA FrameFacts ==
  /\ IrqFrame \in Frames /\ IrqFrame.kind = "irq" /\ IrqFrame.op = NoOp
  /\ \A o \in Ops : CallFrame(o) \in Frames /\ CallFrame(o).kind = "call" /\ CallFrame(o).op = o
  /\ \A f \in Frames : LET g == [f EXCEPT !.served = TRUE] IN
       g \in Frames /\ g.kind = f.kind /\ g.op = f.op
<1>1. IrqFrame \in Frames /\ IrqFrame.kind = "irq" /\ IrqFrame.op = NoOp
  BY OpFacts DEF IrqFrame, Frames
<1>2. \A o \in Ops :
        CallFrame(o) \in Frames /\ CallFrame(o).kind = "call" /\ CallFrame(o).op = o
  BY DEF CallFrame, Frames
<1>3. \A f \in Frames : LET g == [f EXCEPT !.served = TRUE] IN
        g \in Frames /\ g.kind = f.kind /\ g.op = f.op
  BY DEF Frames
<1> QED BY <1>1, <1>2, <1>3

\* One more frame on the stack,
LEMMA PushFacts ==
  ASSUME NEW s \in Seq(Frames), NEW f \in Frames
  PROVE  /\ Append(s, f) \in Seq(Frames) /\ Append(s, f) # <<>>
         /\ \A i \in DOMAIN Append(s, f) :
              \/ i \in DOMAIN s /\ Append(s, f)[i] = s[i]
              \/ i = Len(s) + 1 /\ Append(s, f)[i] = f
BY AppendProperties

\* ... the first n frames of a stack,
LEMMA PopFacts ==
  ASSUME NEW s \in Seq(Frames), NEW n \in 0 .. Len(s)
  PROVE  /\ SubSeq(s, 1, n) \in Seq(Frames)
         /\ SubSeq(s, 1, n) = <<>> <=> n = 0
         /\ \A i \in DOMAIN SubSeq(s, 1, n) : i \in DOMAIN s /\ SubSeq(s, 1, n)[i] = s[i]
<1>1. \A i \in 1 .. n : s[i] \in Frames
  OBVIOUS
<1>2. /\ SubSeq(s, 1, n) \in Seq(Frames)
      /\ Len(SubSeq(s, 1, n)) = n
      /\ \A i \in 1 .. n : SubSeq(s, 1, n)[i] = s[i]
  BY <1>1, SubSeqProperties
<1> QED BY <1>2

\* ... and a stack of which the top was served.
LEMMA ServedFacts ==
  ASSUME NEW s \in Seq(Frames), s # <<>>
  PROVE  LET t == [s EXCEPT ![Len(s)] = [s[Len(s)] EXCEPT !.served = TRUE]] IN
         /\ t \in Seq(Frames) /\ t # <<>> /\ DOMAIN t = DOMAIN s
         /\ \A i \in DOMAIN s : t[i].kind = s[i].kind /\ t[i].op = s[i].op
<1>1. Len(s) \in 1 .. Len(s) /\ s[Len(s)] \in Frames
  OBVIOUS
<1> QED BY <1>1, FrameFacts, ExceptSeq

\* What each step does to the types,
LEMMA TypesStep == ASSUME InterruptInv, Step, UNCHANGED setup PROVE Types'
<1> USE DEF InterruptInv, Exclusive, cpuvars, prodvars, Types
<1>1. ASSUME NEW s \in Sources, Post(s) PROVE Types'
  BY <1>1 DEF Post
<1>2. ASSUME NEW s \in Sources, SetInterruptFlag(s) PROVE Types'
  BY <1>2 DEF SetInterruptFlag
<1>3. ASSUME NEW s \in Sources, idle_resume(s) PROVE Types'
  BY <1>3 DEF idle_resume
<1>4. ASSUME NEW s \in Sources, TriggerSet(s) PROVE Types'
  BY <1>4 DEF TriggerSet
<1>5. ASSUME NEW s \in Sources, TriggerLoad(s) PROVE Types'
  BY <1>5 DEF TriggerLoad
<1>6. ASSUME NEW s \in Sources, TriggerStore(s) PROVE Types'
  BY <1>6 DEF TriggerStore
<1>7. CASE Instruction
  BY <1>7 DEF Instruction, Goto, Executes
<1>8. ASSUME NEW m \in Masks, SetMask(m) PROVE Types'
  <2>1. m \in 0 .. 1
    BY InterruptsAssumption DEF Masks
  <2> QED BY <1>8, <2>1 DEF SetMask, Update, ProgramRuns, Executes
<1>9. CASE IdleTime
  BY <1>9, OpFacts DEF IdleTime, Goto, ProgramRuns, Executes
<1>10. CASE EmulOp
  BY <1>10, OpFacts DEF EmulOp, Goto, ProgramRuns, Executes
<1>11. CASE ExecReturn
  BY <1>11 DEF ExecReturn, Update, Executes, Level
<1>12. CASE IrqOp
  <2>1. /\ stack # <<>> /\ op' = [todo |-> Order, sr |-> intmask]
        /\ stack' = [stack EXCEPT ![Len(stack)] = [stack[Len(stack)] EXCEPT !.served = TRUE]]
    BY <1>12 DEF IrqOp, Goto, Executes, Level, Served
  <2>2. stack' \in Seq(Frames) /\ op' \in Ops
    BY <1>12, <2>1, ServedFacts, OpFacts DEF IrqOp
  <2> QED BY <1>12, <2>2 DEF IrqOp, Goto, Executes, Level, Served
<1>13. CASE Rte
  <2>1. /\ Len(stack) - 1 \in 0 .. Len(stack) /\ UNCHANGED op
        /\ stack' = SubSeq(stack, 1, Len(stack) - 1)
    BY <1>13 DEF Rte, Update, Executes, Level, Served
  <2>2. stack' \in Seq(Frames) /\ op' \in Ops
    BY <1>13, <2>1, PopFacts DEF Rte
  <2> QED BY <1>13, <2>2 DEF Rte, Update, Executes, Level, Served
<1>14. CASE Store
  BY <1>14 DEF Store
<1>15. CASE Test
  BY <1>15 DEF Test, Goto
<1>16. CASE DoInt
  BY <1>16 DEF DoInt, Update, Goto
<1>17. CASE IntLev
  <2>1. \/ UNCHANGED <<stack, op>>
        \/ stack' = Append(stack, IrqFrame) /\ op' = op
    BY <1>17 DEF IntLev, Update, Goto, IrqFrame
  <2>2. IrqFrame \in Frames
    BY FrameFacts
  <2>3. stack' \in Seq(Frames) /\ op' \in Ops
    BY <1>17, <2>1, <2>2, PushFacts, OpFacts DEF IntLev
  <2> QED BY <1>17, <2>3 DEF IntLev, Update, Goto
<1>18. CASE TakeInt
  BY <1>18 DEF TakeInt, Update, Goto
<1>19. CASE SetDoInt
  BY <1>19 DEF SetDoInt, Update
<1>20. CASE Brk
  BY <1>20 DEF Brk, Update, Goto
<1>21. CASE ExecLoop
  <2>1. \/ UNCHANGED <<stack, op>>
        \/ \E i \in DOMAIN stack : op' = stack[i].op /\ stack' = SubSeq(stack, 1, i - 1)
    BY <1>21 DEF ExecLoop, Goto
  <2>2. \A i \in DOMAIN stack : i - 1 \in 0 .. Len(stack) /\ stack[i].op \in Ops
    <3>1. DOMAIN stack = 1 .. Len(stack) /\ \A i \in DOMAIN stack : stack[i] \in Frames
      OBVIOUS
    <3> QED BY <3>1 DEF Frames
  <2>3. stack' \in Seq(Frames) /\ op' \in Ops
    BY <1>21, <2>1, <2>2, PopFacts DEF ExecLoop
  <2> QED BY <1>21, <2>3 DEF ExecLoop, Goto
<1>22. CASE idle_wait
  BY <1>22 DEF idle_wait, Goto
<1>23. CASE NativeCalls
  <2>1. \/ UNCHANGED <<stack, op>>
        \/ stack' = Append(stack, CallFrame(op)) /\ op' = NoOp
    BY <1>23 DEF NativeCalls, Goto, Execute68k, CallFrame
  <2>2. CallFrame(op) \in Frames
    BY FrameFacts
  <2>3. stack' \in Seq(Frames) /\ op' \in Ops
    BY <1>23, <2>1, <2>2, PushFacts, OpFacts DEF NativeCalls
  <2> QED BY <1>23, <2>3 DEF NativeCalls, Goto, Execute68k
<1>24. CASE NativeReturns
  BY <1>24 DEF NativeReturns, Goto
<1>25. CASE EmulOpEnd
  <2>1. op.sr \in 0 .. 1
    BY DEF Ops
  <2> QED BY <1>25, <2>1, OpFacts DEF EmulOpEnd, Update
<1>26. CASE ClearInterruptFlag
  <2>1. stack' \in Seq(Frames) /\ op' \in Ops
    BY <1>26, OpFacts DEF ClearInterruptFlag
  <2> QED BY <1>26, <2>1 DEF ClearInterruptFlag
<1>27. CASE Service
  <2>1. stack' \in Seq(Frames) /\ op' \in Ops
    BY <1>27, OpFacts DEF Service
  <2> QED BY <1>27, <2>1 DEF Service
<1>28. CASE ServiceCalls
  <2>1. \/ UNCHANGED <<stack, op>>
        \/ stack' = Append(stack, CallFrame(op)) /\ op' = NoOp
    BY <1>28 DEF ServiceCalls, Goto, Execute68k, CallFrame
  <2>2. CallFrame(op) \in Frames
    BY FrameFacts
  <2>3. stack' \in Seq(Frames) /\ op' \in Ops
    BY <1>28, <2>1, <2>2, PushFacts, OpFacts DEF ServiceCalls
  <2> QED BY <1>28, <2>3 DEF ServiceCalls, Goto, Execute68k
<1>29. CASE IrqOpDone
  BY <1>29 DEF IrqOpDone, Goto
<1>30. CASE SpuriousWakeup
  BY <1>30 DEF SpuriousWakeup, Goto
<1> QED
  BY <1>1, <1>2, <1>3, <1>4, <1>5, <1>6, <1>7, <1>8, <1>9, <1>10, <1>11, <1>12,
     <1>13, <1>14, <1>15, <1>16, <1>17, <1>18, <1>19, <1>20, <1>21, <1>22, <1>23, <1>24,
     <1>25, <1>26, <1>27, <1>28, <1>29, <1>30
  DEF Step, Trigger, Program, Handler, Emulator

\* ... to the word, whether its updates are atomic or not,
LEMMA WordStep == ASSUME InterruptInv, Step, UNCHANGED setup PROVE WordOK'
<1> USE DEF InterruptInv, Exclusive, cpuvars, prodvars, WordOK, Types, Stale, Due, Asks,
            Looks, InOp, NoCalls, ProducersDone
<1>1. ASSUME NEW s \in Sources, Post(s) PROVE WordOK'
  BY <1>1 DEF Post
<1>2. ASSUME NEW s \in Sources, SetInterruptFlag(s) PROVE WordOK'
  BY <1>2 DEF SetInterruptFlag
<1>3. ASSUME NEW s \in Sources, idle_resume(s) PROVE WordOK'
  BY <1>3 DEF idle_resume
<1>4. ASSUME NEW s \in Sources, TriggerSet(s) PROVE WordOK'
  BY <1>4 DEF TriggerSet
<1>5. ASSUME NEW s \in Sources, TriggerLoad(s) PROVE WordOK'
  BY <1>5 DEF TriggerLoad
<1>6. ASSUME NEW s \in Sources, TriggerStore(s) PROVE WordOK'
  BY <1>6 DEF TriggerStore
<1>7. CASE Instruction
  BY <1>7 DEF Instruction, Goto, Executes
<1>8. ASSUME NEW m \in Masks, SetMask(m) PROVE WordOK'
  BY <1>8 DEF SetMask, Update, ProgramRuns, Executes
<1>9. CASE IdleTime
  BY <1>9 DEF IdleTime, Goto, ProgramRuns, Executes
<1>10. CASE EmulOp
  BY <1>10 DEF EmulOp, Goto, ProgramRuns, Executes
<1>11. CASE ExecReturn
  BY <1>11 DEF ExecReturn, Update, Executes, Level
<1>12. CASE IrqOp
  BY <1>12 DEF IrqOp, Goto, Executes, Level, Served
<1>13. CASE Rte
  BY <1>13 DEF Rte, Update, Executes, Level, Served
<1>14. CASE Store
  BY <1>14 DEF Store
<1>15. CASE Test
  BY <1>15 DEF Test, Goto
<1>16. CASE DoInt
  BY <1>16 DEF DoInt, Update, Goto
<1>17. CASE IntLev
  BY <1>17 DEF IntLev, Update, Goto
<1>18. CASE TakeInt
  BY <1>18 DEF TakeInt, Update, Goto
<1>19. CASE SetDoInt
  BY <1>19 DEF SetDoInt, Update
<1>20. CASE Brk
  BY <1>20 DEF Brk, Update, Goto
<1>21. CASE ExecLoop
  BY <1>21 DEF ExecLoop, Goto
<1>22. CASE idle_wait
  BY <1>22 DEF idle_wait, Goto
<1>23. CASE NativeCalls
  BY <1>23 DEF NativeCalls, Goto, Execute68k
<1>24. CASE NativeReturns
  BY <1>24 DEF NativeReturns, Goto
<1>25. CASE EmulOpEnd
  BY <1>25 DEF EmulOpEnd, Update
<1>26. CASE ClearInterruptFlag
  BY <1>26 DEF ClearInterruptFlag
<1>27. CASE Service
  BY <1>27 DEF Service
<1>28. CASE ServiceCalls
  BY <1>28 DEF ServiceCalls, Goto, Execute68k
<1>29. CASE IrqOpDone
  BY <1>29 DEF IrqOpDone, Goto
<1>30. CASE SpuriousWakeup
  BY <1>30 DEF SpuriousWakeup, Goto
<1> QED
  BY <1>1, <1>2, <1>3, <1>4, <1>5, <1>6, <1>7, <1>8, <1>9, <1>10, <1>11, <1>12,
     <1>13, <1>14, <1>15, <1>16, <1>17, <1>18, <1>19, <1>20, <1>21, <1>22, <1>23, <1>24,
     <1>25, <1>26, <1>27, <1>28, <1>29, <1>30
  DEF Step, Trigger, Program, Handler, Emulator

\* ... if they are,
LEMMA AtomicStep == ASSUME InterruptInv, Step, UNCHANGED setup PROVE AtomicOK'
<1> USE DEF InterruptInv, Exclusive, cpuvars, prodvars, AtomicOK, Types, Due, Asks,
            Looks, ProducersDone
<1>1. ASSUME NEW s \in Sources, Post(s) PROVE AtomicOK'
  BY <1>1 DEF Post
<1>2. ASSUME NEW s \in Sources, SetInterruptFlag(s) PROVE AtomicOK'
  BY <1>2 DEF SetInterruptFlag
<1>3. ASSUME NEW s \in Sources, idle_resume(s) PROVE AtomicOK'
  BY <1>3 DEF idle_resume
<1>4. ASSUME NEW s \in Sources, TriggerSet(s) PROVE AtomicOK'
  BY <1>4 DEF TriggerSet
<1>5. ASSUME NEW s \in Sources, TriggerLoad(s) PROVE AtomicOK'
  BY <1>5 DEF TriggerLoad
<1>6. ASSUME NEW s \in Sources, TriggerStore(s) PROVE AtomicOK'
  BY <1>6 DEF TriggerStore
<1>7. CASE Instruction
  BY <1>7 DEF Instruction, Goto, Executes
<1>8. ASSUME NEW m \in Masks, SetMask(m) PROVE AtomicOK'
  BY <1>8 DEF SetMask, Update, ProgramRuns, Executes
<1>9. CASE IdleTime
  BY <1>9 DEF IdleTime, Goto, ProgramRuns, Executes
<1>10. CASE EmulOp
  BY <1>10 DEF EmulOp, Goto, ProgramRuns, Executes
<1>11. CASE ExecReturn
  BY <1>11 DEF ExecReturn, Update, Executes, Level
<1>12. CASE IrqOp
  BY <1>12 DEF IrqOp, Goto, Executes, Level, Served
<1>13. CASE Rte
  BY <1>13 DEF Rte, Update, Executes, Level, Served
<1>14. CASE Store
  BY <1>14 DEF Store
<1>15. CASE Test
  BY <1>15 DEF Test, Goto
<1>16. CASE DoInt
  BY <1>16 DEF DoInt, Update, Goto
<1>17. CASE IntLev
  BY <1>17 DEF IntLev, Update, Goto
<1>18. CASE TakeInt
  BY <1>18 DEF TakeInt, Update, Goto
<1>19. CASE SetDoInt
  BY <1>19 DEF SetDoInt, Update
<1>20. CASE Brk
  BY <1>20 DEF Brk, Update, Goto
<1>21. CASE ExecLoop
  BY <1>21 DEF ExecLoop, Goto
<1>22. CASE idle_wait
  BY <1>22 DEF idle_wait, Goto
<1>23. CASE NativeCalls
  BY <1>23 DEF NativeCalls, Goto, Execute68k
<1>24. CASE NativeReturns
  BY <1>24 DEF NativeReturns, Goto
<1>25. CASE EmulOpEnd
  BY <1>25 DEF EmulOpEnd, Update
<1>26. CASE ClearInterruptFlag
  BY <1>26 DEF ClearInterruptFlag
<1>27. CASE Service
  BY <1>27 DEF Service
<1>28. CASE ServiceCalls
  BY <1>28 DEF ServiceCalls, Goto, Execute68k
<1>29. CASE IrqOpDone
  BY <1>29 DEF IrqOpDone, Goto
<1>30. CASE SpuriousWakeup
  BY <1>30 DEF SpuriousWakeup, Goto
<1> QED
  BY <1>1, <1>2, <1>3, <1>4, <1>5, <1>6, <1>7, <1>8, <1>9, <1>10, <1>11, <1>12,
     <1>13, <1>14, <1>15, <1>16, <1>17, <1>18, <1>19, <1>20, <1>21, <1>22, <1>23, <1>24,
     <1>25, <1>26, <1>27, <1>28, <1>29, <1>30
  DEF Step, Trigger, Program, Handler, Emulator

\* ... and to the mask.
LEMMA MaskStep == ASSUME InterruptInv, Step, UNCHANGED setup PROVE MaskOK'
<1> USE DEF InterruptInv, Exclusive, cpuvars, prodvars, MaskOK, Types, Masks, InOp
<1>1. ASSUME NEW s \in Sources, Post(s) PROVE MaskOK'
  BY <1>1 DEF Post, NoOp, Frames, Ops
<1>2. ASSUME NEW s \in Sources, SetInterruptFlag(s) PROVE MaskOK'
  BY <1>2 DEF SetInterruptFlag, NoOp, Frames, Ops
<1>3. ASSUME NEW s \in Sources, idle_resume(s) PROVE MaskOK'
  BY <1>3 DEF idle_resume, NoOp, Frames, Ops
<1>4. ASSUME NEW s \in Sources, TriggerSet(s) PROVE MaskOK'
  BY <1>4 DEF TriggerSet, NoOp, Frames, Ops
<1>5. ASSUME NEW s \in Sources, TriggerLoad(s) PROVE MaskOK'
  BY <1>5 DEF TriggerLoad, NoOp, Frames, Ops
<1>6. ASSUME NEW s \in Sources, TriggerStore(s) PROVE MaskOK'
  BY <1>6 DEF TriggerStore, NoOp, Frames, Ops
<1>7. CASE Instruction
  BY <1>7 DEF Instruction, Goto, Executes, NoOp, Frames, Ops
<1>8. ASSUME NEW m \in Masks, SetMask(m) PROVE MaskOK'
  BY <1>8 DEF SetMask, Update, ProgramRuns, Executes, NoOp, Frames, Ops
<1>9. CASE IdleTime
  BY <1>9 DEF IdleTime, Goto, ProgramRuns, Executes, NoOp, Frames, Ops
<1>10. CASE EmulOp
  BY <1>10 DEF EmulOp, Goto, ProgramRuns, Executes, NoOp, Frames, Ops
<1>11. CASE ExecReturn
  BY <1>11 DEF ExecReturn, Update, Executes, Level, NoOp, Frames, Ops
<1>12. CASE IrqOp
  <2>1. /\ stack # <<>> /\ op' = [todo |-> Order, sr |-> intmask]
        /\ stack' = [stack EXCEPT ![Len(stack)] = [stack[Len(stack)] EXCEPT !.served = TRUE]]
    BY <1>12 DEF IrqOp, Goto, Executes, Level, Served
  <2> QED BY <1>12, <2>1, ServedFacts, OpFacts DEF IrqOp, Goto, Executes, Level, Served
<1>13. CASE Rte
  <2>1. /\ Len(stack) - 1 \in 0 .. Len(stack) /\ UNCHANGED op
        /\ stack' = SubSeq(stack, 1, Len(stack) - 1)
    BY <1>13 DEF Rte, Update, Executes, Level, Served
  <2> QED BY <1>13, <2>1, PopFacts DEF Rte, Update, Executes, Level, Served
<1>14. CASE Store
  BY <1>14 DEF Store, NoOp, Frames, Ops
<1>15. CASE Test
  BY <1>15 DEF Test, Goto, NoOp, Frames, Ops
<1>16. CASE DoInt
  BY <1>16 DEF DoInt, Update, Goto, NoOp, Frames, Ops
<1>17. CASE IntLev
  <2>1. \/ UNCHANGED <<stack, op>>
        \/ stack' = Append(stack, IrqFrame) /\ op' = op
    BY <1>17 DEF IntLev, Update, Goto, IrqFrame
  <2>2. IrqFrame \in Frames
    BY FrameFacts
  <2>3. pc \notin InOp /\ pc' \notin InOp
    BY <1>17 DEF IntLev, Update, Goto
  <2>4. CASE stack' = stack
    <3>1. intmask' = intmask /\ op' = op /\ Masks' = Masks
      BY <1>17, <2>1, <2>2, <2>4, PushFacts DEF IntLev, Update, Goto
    <3> QED BY <2>3, <2>4, <3>1
  <2>5. CASE stack' = Append(stack, IrqFrame) /\ op' = op
    <3>1. stack \in Seq(Frames) /\ Masks' = Masks /\ IrqFrame.op.sr = 0
      BY <1>17, FrameFacts, OpFacts
    <3>2. stack' # <<>>
      BY <2>2, <2>5, <3>1, PushFacts
    <3>3. ASSUME Masks \subseteq {0}, NEW i \in DOMAIN stack', stack'[i].op.sr # 0
          PROVE  i > 1
      BY <2>2, <2>5, <3>1, <3>3, PushFacts
    <3> HIDE DEF InOp, Masks
    <3> QED BY <2>3, <2>5, <3>1, <3>2, <3>3
  <2> QED BY <2>1, <2>4, <2>5
<1>18. CASE TakeInt
  BY <1>18 DEF TakeInt, Update, Goto, NoOp, Frames, Ops
<1>19. CASE SetDoInt
  BY <1>19 DEF SetDoInt, Update, NoOp, Frames, Ops
<1>20. CASE Brk
  BY <1>20 DEF Brk, Update, Goto, NoOp, Frames, Ops
<1>21. CASE ExecLoop
  <2>1. \A i \in DOMAIN stack : i - 1 \in 0 .. Len(stack) /\ stack[i].op \in Ops
    <3>1. DOMAIN stack = 1 .. Len(stack) /\ \A i \in DOMAIN stack : stack[i] \in Frames
      OBVIOUS
    <3> QED BY <3>1 DEF Frames
  <2>2. CASE quit_program
    <3>1. PICK i \in DOMAIN stack : op' = stack[i].op /\ stack' = SubSeq(stack, 1, i - 1)
      BY <1>21, <2>2 DEF ExecLoop
    <3>2. pc' \in InOp
      BY <1>21, <2>2 DEF ExecLoop, Goto
    <3> QED BY <2>1, <3>1, <3>2, PopFacts
  <2>3. CASE ~quit_program
    BY <1>21, <2>3 DEF ExecLoop, Goto
  <2> QED BY <2>2, <2>3
<1>22. CASE idle_wait
  BY <1>22 DEF idle_wait, Goto, NoOp, Frames, Ops
<1>23. CASE NativeCalls
  <2>1. \/ UNCHANGED <<stack, op>>
        \/ stack' = Append(stack, CallFrame(op)) /\ op' = NoOp
    BY <1>23 DEF NativeCalls, Goto, Execute68k, CallFrame
  <2>2. CallFrame(op) \in Frames
    BY FrameFacts
  <2> QED BY <1>23, <2>1, <2>2, PushFacts, OpFacts, FrameFacts
      DEF NativeCalls, Goto, Execute68k
<1>24. CASE NativeReturns
  BY <1>24 DEF NativeReturns, Goto, NoOp, Frames, Ops
<1>25. CASE EmulOpEnd
  BY <1>25 DEF EmulOpEnd, Update, NoOp, Frames, Ops
<1>26. CASE ClearInterruptFlag
  BY <1>26 DEF ClearInterruptFlag, NoOp, Frames, Ops
<1>27. CASE Service
  BY <1>27 DEF Service, NoOp, Frames, Ops
<1>28. CASE ServiceCalls
  <2>1. \/ UNCHANGED <<stack, op>>
        \/ stack' = Append(stack, CallFrame(op)) /\ op' = NoOp
    BY <1>28 DEF ServiceCalls, Goto, Execute68k, CallFrame
  <2>2. CallFrame(op) \in Frames
    BY FrameFacts
  <2> QED BY <1>28, <2>1, <2>2, PushFacts, OpFacts, FrameFacts
      DEF ServiceCalls, Goto, Execute68k
<1>29. CASE IrqOpDone
  BY <1>29 DEF IrqOpDone, Goto, NoOp, Frames, Ops
<1>30. CASE SpuriousWakeup
  BY <1>30 DEF SpuriousWakeup, Goto, NoOp, Frames, Ops
<1> QED
  BY <1>1, <1>2, <1>3, <1>4, <1>5, <1>6, <1>7, <1>8, <1>9, <1>10, <1>11, <1>12,
     <1>13, <1>14, <1>15, <1>16, <1>17, <1>18, <1>19, <1>20, <1>21, <1>22, <1>23, <1>24,
     <1>25, <1>26, <1>27, <1>28, <1>29, <1>30
  DEF Step, Trigger, Program, Handler, Emulator

\* The invariant holds at first,
LEMMA InterruptInitInv == Init => InterruptInv
<1> SUFFICES ASSUME Init PROVE InterruptInv
  OBVIOUS
<1>1. Types
  <2>1. <<>> \in Seq(Frames) /\ NoOp \in Ops
    BY OpFacts
  <2>2. ppc \in [Sources -> {"idle", "posted", "flagged", "resumed", "loaded"}]
    BY DEF Init
  <2>3. cont \notin {"store", "service"} /\ pc # "service"
    BY DEF Init
  <2>4. setup \in Setups /\ intmask \in 0 .. 1
    BY DEF Init
  <2>5. quit_program \in BOOLEAN
    BY Zenon DEF Init
  <2>6. stack \in Seq(Frames) /\ op \in Ops
    BY <2>1 DEF Init
  <2> QED BY <2>2, <2>3, <2>4, <2>5, <2>6 DEF Types
<1>2. WordOK /\ AtomicOK
  BY DEF Init, WordOK, AtomicOK, Stale, Due
<1>3. MaskOK
  BY OpFacts DEF Init, MaskOK
<1> QED BY <1>1, <1>2, <1>3 DEF InterruptInv

\* ... every step keeps it,
LEMMA InterruptStep == InterruptInv /\ [Next]_<<setup, vars>> => InterruptInv'
<1> SUFFICES ASSUME InterruptInv, [Next]_<<setup, vars>> PROVE InterruptInv'
  OBVIOUS
<1>1. CASE UNCHANGED <<setup, vars>>
  BY <1>1 DEF InterruptInv, Types, WordOK, AtomicOK, MaskOK, vars, cpuvars, prodvars, Exclusive,
     Masks, NoCalls, Due, ProducersDone
<1>2. CASE Next
  BY <1>2, TypesStep, WordStep, AtomicStep, MaskStep DEF Next, InterruptInv
<1> QED BY <1>1, <1>2

\* ... and so it always holds.
LEMMA InterruptAlways == InterruptSpec => []InterruptInv
BY InterruptInitInv, InterruptStep, PTL DEF InterruptSpec
-----------------------------------------------------------------------------
\* With no call in progress, none is on the stack.
LEMMA NoneIsNoCalls == ASSUME Types, Calls = 0 PROVE NoCalls
<1> DEFINE C == {i \in DOMAIN stack : stack[i].kind = "call"}
<1>1. IsFiniteSet(DOMAIN stack)
  <2>1. Len(stack) \in Nat /\ DOMAIN stack = 1 .. Len(stack)
    BY DEF Types
  <2> QED BY <2>1, FS_Interval
<1>2. IsFiniteSet(C)
  BY <1>1, FS_Subset
<1>3. C = {}
  BY <1>2, FS_EmptySet DEF Calls
<1> QED BY <1>3 DEF NoCalls

\* No interrupt is forgotten, not even if the threads undo each other's updates of
\* spcflags (spcflags.h:66), however the program nests its calls and masks.
THEOREM NoneForgotten == InterruptSpec => []NoForgottenInterrupt
<1>1. InterruptInv => NoForgottenInterrupt
  <2> SUFFICES ASSUME InterruptInv, Due, pc = "run", Exclusive \/ Calls = 0
               PROVE  Asks(spcflags)
    BY DEF NoForgottenInterrupt, Due, Asks
  <2>1. CASE Exclusive
    BY <2>1 DEF InterruptInv, AtomicOK, Looks
  <2>2. CASE ~Exclusive
    BY <2>2, NoneIsNoCalls DEF InterruptInv, WordOK, Looks, InOp
  <2> QED BY <2>1, <2>2
<1> QED BY <1>1, InterruptAlways, PTL

\* Where the CPU thread is on its way from the end of a routine to the test of
\* quit_program.
OnTheWay == {"test", "doint", "intlev", "int", "setdoint", "brk"}

\* The request to leave the routine is in the word, or in the word that the CPU is about
\* to store, until the CPU has answered it.
CallOK ==
  quit_program /\ ~undone =>
    \/ pc = "execloop"
    \/ pc = "store" /\ (cont = "execloop" \/ (cont \in OnTheWay /\ "BRK" \in creg))
    \/ pc \in OnTheWay /\ "BRK" \in spcflags

HInterruptSpec == HInit /\ [][HNext]_hvars

\* Steps of a producer: its update does no harm unless it counts as one that undoes the
\* request.
LEMMA CallProducer ==
  ASSUME Types, CallOK, HNext, NEW s \in Sources, Post(s) \/ Trigger(s)
  PROVE  CallOK'
<1>0. UNCHANGED <<quit_program, creg, cont>> /\ (pc' = pc \/ pc = "waiting")
  BY DEF Post, Trigger, SetInterruptFlag, idle_resume, TriggerSet, TriggerLoad, TriggerStore,
         cpuvars
<1>1. CASE TriggerStore(s)
  <2>1. pc' = pc /\ ppc[s] = "loaded" /\ ppc'[s] = "idle" /\ spcflags' = preg[s] \cup {"INT"}
    BY <1>1 DEF TriggerStore, cpuvars, Types
  <2>2. quit_program' /\ ~undone' => ~undone /\ ("BRK" \in spcflags => "BRK" \in spcflags')
    BY <2>1 DEF HNext, StoresOver
  <2> QED BY <1>0, <2>1, <2>2 DEF CallOK
<1>2. CASE ~TriggerStore(s)
  <2>1. "BRK" \in spcflags => "BRK" \in spcflags'
    BY <1>2 DEF Post, Trigger, SetInterruptFlag, idle_resume, TriggerSet, TriggerLoad
  <2>2. quit_program' /\ ~undone' => ~undone
    BY DEF HNext
  <2> QED BY <1>0, <2>1, <2>2 DEF CallOK, OnTheWay
<1> QED BY <1>1, <1>2

\* Steps of the CPU thread: it does not execute before it has tested quit_program, and
\* none of its updates on the way drops the request.
LEMMA CallCpu ==
  ASSUME CallOK, HNext, Program \/ Handler \/ Emulator \/ SpuriousWakeup
  PROVE  CallOK'
<1>0. quit_program' /\ ~undone' => ~undone
  BY DEF HNext
<1> USE DEF CallOK, OnTheWay
<1>1. CASE ExecReturn
  BY <1>1 DEF ExecReturn, Update
<1>2. CASE Instruction \/ (\E m \in Masks : SetMask(m)) \/ IdleTime \/ EmulOp \/ IrqOp \/ Rte
  <2>1. ~quit_program /\ UNCHANGED quit_program
    BY <1>2 DEF Instruction, SetMask, IdleTime, EmulOp, IrqOp, Rte, ProgramRuns, Executes
  <2> QED BY <2>1
<1>3. CASE NativeCalls \/ ExecLoop
  <2>1. ~quit_program'
    BY <1>3 DEF NativeCalls, Execute68k, ExecLoop
  <2> QED BY <2>1
<1>4. CASE \/ idle_wait \/ NativeReturns \/ EmulOpEnd \/ SpuriousWakeup
           \/ ClearInterruptFlag \/ Service \/ ServiceCalls \/ IrqOpDone
  <2>1. pc \in InOp /\ (UNCHANGED quit_program \/ ~quit_program')
    BY <1>4 DEF idle_wait, NativeReturns, EmulOpEnd, SpuriousWakeup, ClearInterruptFlag,
                Service, ServiceCalls, Execute68k, IrqOpDone, InOp
  <2> QED BY <1>0, <2>1 DEF InOp
<1>5. CASE Store
  BY <1>0, <1>5 DEF Store
<1>6. CASE Test
  BY <1>0, <1>6 DEF Test, Goto
<1>7. CASE DoInt
  BY <1>0, <1>7 DEF DoInt, Update, Goto
<1>8. CASE IntLev
  BY <1>0, <1>8 DEF IntLev, Update, Goto
<1>9. CASE TakeInt
  BY <1>0, <1>9 DEF TakeInt, Update, Goto
<1>10. CASE SetDoInt
  BY <1>0, <1>10 DEF SetDoInt, Update
<1>11. CASE Brk
  BY <1>0, <1>11 DEF Brk, Update, Goto
<1> QED BY <1>1, <1>2, <1>3, <1>4, <1>5, <1>6, <1>7, <1>8, <1>9, <1>10, <1>11
        DEF Program, Handler, Emulator

\* A routine called by Execute68k is left where it ends (basilisk_glue.cpp:257), with
\* and without atomic updates of spcflags, whatever interrupts and calls come at that
\* moment, unless another thread stores over the request a word that it had loaded
\* before (spcflags.h:66).
THEOREM CallsAreLeft == HInterruptSpec => []CallsReturn
<1>1. HInit => CallOK
  BY DEF HInit, Init, CallOK
<1>2. InterruptInv /\ CallOK /\ [HNext]_hvars => CallOK'
  <2> SUFFICES ASSUME InterruptInv, CallOK, [HNext]_hvars PROVE CallOK'
    OBVIOUS
  <2>1. CASE UNCHANGED hvars
    BY <2>1 DEF hvars, vars, cpuvars, CallOK
  <2>2. CASE HNext
    <3>1. Types /\ Step
      BY <2>2 DEF InterruptInv, HNext, Next
    <3> QED BY <2>2, <3>1, CallProducer, CallCpu DEF Step
  <2> QED BY <2>1, <2>2
<1>3. CallOK => CallsReturn
  BY DEF CallOK, OnTheWay, CallsReturn, ReturnsToCaller
<1>4. HInterruptSpec => InterruptSpec
  <2>1. [HNext]_hvars => [Next]_<<setup, vars>>
    BY DEF HNext, hvars
  <2> QED BY <2>1, PTL DEF HInterruptSpec, InterruptSpec, HInit
<1> QED BY <1>1, <1>2, <1>3, <1>4, InterruptAlways, PTL DEF HInterruptSpec

\* A program that does not mask interrupts is never left with interrupts masked, though
\* a call that ends while an interrupt is taken forgets the frame (newcpu.cpp:1266).
THEOREM MainHearsInterrupts == InterruptSpec => []MainIsInterruptible
<1>1. InterruptInv => MainIsInterruptible
  BY DEF InterruptInv, MaskOK, MainIsInterruptible, InOp
<1> QED BY <1>1, InterruptAlways, PTL
-----------------------------------------------------------------------------
\* The variables that the invariant says nothing of.
WidthOK ==
  /\ InterruptFlags \subseteq Sources /\ work \subseteq Sources
  /\ spcflags \subseteq Spc /\ creg \subseteq Spc /\ preg \in [Sources -> SUBSET Spc]
  /\ pc \in CpuLocations /\ cont \in CpuLocations \ (InOp \cup {"store"})

HasIrq(s)  == \E i \in DOMAIN s : s[i].kind = "irq"
CallsIn(s) == {i \in DOMAIN s : s[i].kind = "call"}

\* Interrupts do not nest: there is one frame at most, and what was called above it
\* has saved that interrupts are masked.
NotNested(s) ==
  \A i \in DOMAIN s : s[i].kind = "irq" =>
    \A j \in DOMAIN s : /\ s[j].kind = "irq" => i = j
                        /\ i < j => s[j].op.sr = 1

\* While the handler runs they are masked, and an EMUL_OP will leave them masked.
\* There are no more calls than the program makes.
NestOK ==
  /\ NotNested(stack)
  /\ HasIrq(stack) => intmask = 1 /\ (pc \in InOp => op.sr = 1)
  /\ Cardinality(CallsIn(stack)) <= setup.calls

\* What each step does to these variables.
LEMMA WidthStep == ASSUME InterruptInv, WidthOK, Step, UNCHANGED setup PROVE WidthOK'
<1> USE DEF WidthOK, Exclusive, cpuvars, prodvars, Spc, CpuLocations, InOp
<1>1. ASSUME NEW s \in Sources, Post(s) PROVE WidthOK'
  BY <1>1 DEF Post
<1>2. ASSUME NEW s \in Sources, SetInterruptFlag(s) PROVE WidthOK'
  BY <1>2 DEF SetInterruptFlag
<1>3. ASSUME NEW s \in Sources, idle_resume(s) PROVE WidthOK'
  BY <1>3 DEF idle_resume
<1>4. ASSUME NEW s \in Sources, TriggerSet(s) PROVE WidthOK'
  BY <1>4 DEF TriggerSet
<1>5. ASSUME NEW s \in Sources, TriggerLoad(s) PROVE WidthOK'
  BY <1>5 DEF TriggerLoad
<1>6. ASSUME NEW s \in Sources, TriggerStore(s) PROVE WidthOK'
  BY <1>6 DEF TriggerStore
<1>7. CASE Instruction
  BY <1>7 DEF Instruction, Goto, Executes
<1>8. ASSUME NEW m \in Masks, SetMask(m) PROVE WidthOK'
  BY <1>8 DEF SetMask, Update, ProgramRuns, Executes
<1>9. CASE IdleTime
  BY <1>9 DEF IdleTime, Goto, ProgramRuns, Executes
<1>10. CASE EmulOp
  BY <1>10 DEF EmulOp, Goto, ProgramRuns, Executes
<1>11. CASE ExecReturn
  BY <1>11 DEF ExecReturn, Update, Executes
<1>12. CASE IrqOp
  BY <1>12 DEF IrqOp, Goto, Executes
<1>13. CASE Rte
  BY <1>13 DEF Rte, Update, Executes
<1>14. CASE Store
  BY <1>14 DEF Store
<1>15. CASE Test
  BY <1>15 DEF Test, Goto
<1>16. CASE DoInt
  BY <1>16 DEF DoInt, Goto, Update
<1>17. CASE IntLev
  BY <1>17 DEF IntLev, Goto, Update
<1>18. CASE TakeInt
  BY <1>18 DEF TakeInt, Goto, Update
<1>19. CASE SetDoInt
  BY <1>19 DEF SetDoInt, Update
<1>20. CASE Brk
  BY <1>20 DEF Brk, Goto, Update
<1>21. CASE ExecLoop
  BY <1>21 DEF ExecLoop, Goto
<1>22. CASE idle_wait
  BY <1>22 DEF idle_wait, Goto
<1>23. CASE NativeCalls
  BY <1>23 DEF NativeCalls, Goto, Execute68k
<1>24. CASE NativeReturns
  BY <1>24 DEF NativeReturns, Goto
<1>25. CASE EmulOpEnd
  BY <1>25 DEF EmulOpEnd, Update
<1>26. CASE ClearInterruptFlag
  BY <1>26 DEF ClearInterruptFlag
<1>27. CASE Service
  BY <1>27 DEF Service
<1>28. CASE ServiceCalls
  BY <1>28 DEF ServiceCalls, Goto, Execute68k
<1>29. CASE IrqOpDone
  BY <1>29 DEF IrqOpDone, Goto
<1>30. CASE SpuriousWakeup
  BY <1>30 DEF SpuriousWakeup, Goto
<1> QED
  BY <1>1, <1>2, <1>3, <1>4, <1>5, <1>6, <1>7, <1>8, <1>9, <1>10, <1>11, <1>12,
     <1>13, <1>14, <1>15, <1>16, <1>17, <1>18, <1>19, <1>20, <1>21, <1>22, <1>23, <1>24,
     <1>25, <1>26, <1>27, <1>28, <1>29, <1>30
  DEF Step, Trigger, Program, Handler, Emulator

\* A set with one more element has at most one element more.
LEMMA OneMore ==
  ASSUME NEW S, IsFiniteSet(S), NEW x
  PROVE  IsFiniteSet(S \cup {x}) /\ Cardinality(S \cup {x}) <= Cardinality(S) + 1
<1>1. Cardinality(S) \in Nat
  BY FS_CardinalityType
<1>2. CASE x \in S
  <2>1. S \cup {x} = S
    BY <1>2
  <2>2. IsFiniteSet(S \cup {x}) /\ Cardinality(S \cup {x}) = Cardinality(S)
    BY <2>1, Zenon
  <2> QED BY <1>1, <2>2
<1>3. CASE x \notin S
  <2>1. IsFiniteSet(S \cup {x}) /\ Cardinality(S \cup {x}) = Cardinality(S) + 1
    BY <1>3, FS_AddElement
  <2> QED BY <1>1, <2>1
<1> QED BY <1>2, <1>3

\* The calls on a stack are finitely many.
LEMMA CallsFinite ==
  ASSUME NEW s \in Seq(Frames)
  PROVE  IsFiniteSet(CallsIn(s)) /\ Cardinality(CallsIn(s)) \in Nat
<1>1. Len(s) \in Nat /\ DOMAIN s = 1 .. Len(s)
  OBVIOUS
<1>2. IsFiniteSet(DOMAIN s) /\ CallsIn(s) \subseteq DOMAIN s
  BY <1>1, FS_Interval DEF CallsIn
<1> QED BY <1>2, FS_Subset, FS_CardinalityType

\* A stack of which the calls are also calls of another has no more of them.
LEMMA FewerCalls ==
  ASSUME NEW s \in Seq(Frames), NEW t \in Seq(Frames), CallsIn(t) \subseteq CallsIn(s)
  PROVE  Cardinality(CallsIn(t)) <= Cardinality(CallsIn(s))
BY CallsFinite, FS_Subset

\* An interrupt that is taken while none is on the stack.
LEMMA IrqNests ==
  ASSUME NEW s \in Seq(Frames), ~HasIrq(s)
  PROVE  /\ NotNested(Append(s, IrqFrame))
         /\ Cardinality(CallsIn(Append(s, IrqFrame))) <= Cardinality(CallsIn(s))
<1> DEFINE t == Append(s, IrqFrame)
<1>1. /\ t \in Seq(Frames) /\ Len(s) \in Nat
      /\ DOMAIN s = 1 .. Len(s) /\ DOMAIN t = 1 .. Len(s) + 1
      /\ \A i \in DOMAIN s : t[i] = s[i]
      /\ t[Len(s) + 1].kind = "irq"
  BY FrameFacts, AppendProperties
<1> HIDE DEF t
<1>2. NotNested(t)
  BY <1>1 DEF NotNested, HasIrq
<1>3. CallsIn(t) \subseteq CallsIn(s)
  BY <1>1 DEF CallsIn
<1> QED BY <1>1, <1>2, <1>3, FewerCalls DEF t

\* A call saves the mask with the EMUL_OP that makes it.
LEMMA CallNests ==
  ASSUME NEW s \in Seq(Frames), NEW o \in Ops, NotNested(s), HasIrq(s) => o.sr = 1
  PROVE  /\ NotNested(Append(s, CallFrame(o)))
         /\ HasIrq(Append(s, CallFrame(o))) => HasIrq(s)
         /\ Cardinality(CallsIn(Append(s, CallFrame(o)))) <= Cardinality(CallsIn(s)) + 1
<1> DEFINE t == Append(s, CallFrame(o))
<1>1. /\ t \in Seq(Frames) /\ Len(s) \in Nat
      /\ DOMAIN s = 1 .. Len(s) /\ DOMAIN t = 1 .. Len(s) + 1
      /\ \A i \in DOMAIN s : t[i] = s[i]
      /\ t[Len(s) + 1].kind = "call" /\ t[Len(s) + 1].op = o
  BY FrameFacts, AppendProperties
<1> HIDE DEF t
<1>2. \A i \in DOMAIN t : t[i].kind = "irq" => i \in DOMAIN s /\ s[i].kind = "irq"
  BY <1>1
<1>3. NotNested(t)
  BY <1>1, <1>2 DEF NotNested, HasIrq
<1>4. HasIrq(t) => HasIrq(s)
  BY <1>2 DEF HasIrq
<1>5. CallsIn(t) = CallsIn(s) \cup {Len(s) + 1}
  BY <1>1 DEF CallsIn
<1>6. Cardinality(CallsIn(t)) <= Cardinality(CallsIn(s)) + 1
  BY <1>5, CallsFinite, OneMore
<1> QED BY <1>3, <1>4, <1>6 DEF t

\* What a return leaves was there before.
LEMMA ReturnNests ==
  ASSUME NEW s \in Seq(Frames), NEW n \in 0 .. Len(s), NotNested(s)
  PROVE  LET t == SubSeq(s, 1, n) IN
         /\ NotNested(t)
         /\ HasIrq(t) => \E i \in 1 .. n : s[i].kind = "irq"
         /\ Cardinality(CallsIn(t)) <= Cardinality(CallsIn(s))
<1> DEFINE t == SubSeq(s, 1, n)
<1>1. /\ t \in Seq(Frames)
      /\ \A i \in DOMAIN t : i \in DOMAIN s /\ t[i] = s[i]
  BY PopFacts
<1>2. DOMAIN t = 1 .. n
  BY SubSeqProperties
<1> HIDE DEF t
<1>3. NotNested(t)
  BY <1>1 DEF NotNested
<1>4. HasIrq(t) => \E i \in 1 .. n : s[i].kind = "irq"
  BY <1>1, <1>2 DEF HasIrq
<1>5. CallsIn(t) \subseteq CallsIn(s)
  BY <1>1 DEF CallsIn
<1> QED BY <1>1, <1>3, <1>4, <1>5, FewerCalls DEF t

\* The mark that the flags were served.
LEMMA ServedNests ==
  ASSUME NEW s \in Seq(Frames), s # <<>>, NotNested(s)
  PROVE  LET t == [s EXCEPT ![Len(s)] = [s[Len(s)] EXCEPT !.served = TRUE]] IN
         /\ NotNested(t) /\ HasIrq(t) = HasIrq(s)
         /\ Cardinality(CallsIn(t)) = Cardinality(CallsIn(s))
<1> DEFINE t == [s EXCEPT ![Len(s)] = [s[Len(s)] EXCEPT !.served = TRUE]]
<1>1. /\ DOMAIN t = DOMAIN s
      /\ \A i \in DOMAIN s : t[i].kind = s[i].kind /\ t[i].op = s[i].op
  BY ServedFacts
<1> HIDE DEF t
<1>2. NotNested(t)
  BY <1>1 DEF NotNested
<1>3. HasIrq(t) = HasIrq(s)
  BY <1>1 DEF HasIrq
<1>4. CallsIn(t) = CallsIn(s)
  BY <1>1 DEF CallsIn
<1> QED BY <1>2, <1>3, <1>4 DEF t

\* A step that leaves the stack alone.
StackStays ==
  /\ UNCHANGED stack
  /\ HasIrq(stack) => intmask' = 1 /\ (pc' \in InOp => op'.sr = 1)

\* No step nests interrupts or lets one come while the handler runs, and none makes a
\* call that is one too many.
LEMMA NestStep ==
  ASSUME InterruptInv, WidthOK, NestOK, Step, UNCHANGED setup PROVE NestOK'
<1>0. /\ stack \in Seq(Frames) /\ op \in Ops /\ setup.calls \in Nat
      /\ DOMAIN stack = 1 .. Len(stack) /\ Len(stack) \in Nat
      /\ Cardinality(CallsIn(stack)) \in Nat
  <2>1. stack \in Seq(Frames) /\ op \in Ops /\ setup \in Setups
    BY DEF InterruptInv, Types
  <2>2. setup.calls \in Nat
    BY <2>1, InterruptsAssumption
  <2> QED BY <2>1, <2>2, CallsFinite
<1> DEFINE Room == Cardinality(CallsIn(stack)) + 1 <= setup.calls
<1>1. CASE StackStays
  BY <1>1 DEF StackStays, NestOK
<1>2. CASE stack' = Append(stack, CallFrame(op)) /\ Room /\ pc \in InOp /\ pc' \notin InOp
           /\ UNCHANGED intmask
  <2> DEFINE t == Append(stack, CallFrame(op))
  <2>1. /\ NotNested(t)
        /\ HasIrq(t) => HasIrq(stack)
        /\ Cardinality(CallsIn(t)) <= Cardinality(CallsIn(stack)) + 1
    BY <1>0, <1>2, CallNests DEF NestOK
  <2>2. Cardinality(CallsIn(t)) \in Nat
    BY <1>0, FrameFacts, PushFacts, CallsFinite
  <2>3. Cardinality(CallsIn(t)) <= setup.calls
    <3> HIDE DEF t
    <3> QED BY <1>0, <1>2, <2>1, <2>2
  <2>4. stack' = t
    BY <1>2
  <2> HIDE DEF t
  <2> QED BY <1>2, <2>1, <2>3, <2>4 DEF NestOK
<1> HIDE DEF Room
<1>3. CASE IntLev
  <2>1. CASE UNCHANGED <<stack, intmask>>
    BY <1>1, <1>3, <2>1 DEF IntLev, Update, Goto, StackStays, NestOK, InOp
  <2>2. CASE stack' = Append(stack, IrqFrame) /\ intmask = 0 /\ intmask' = 1
    <3> DEFINE t == Append(stack, IrqFrame)
    <3>1. ~HasIrq(stack)
      BY <2>2 DEF NestOK
    <3>2. NotNested(t) /\ Cardinality(CallsIn(t)) <= Cardinality(CallsIn(stack))
      BY <1>0, <3>1, IrqNests
    <3>3. Cardinality(CallsIn(t)) \in Nat
      BY <1>0, FrameFacts, PushFacts, CallsFinite
    <3>4. pc' \notin InOp
      BY <1>3 DEF IntLev, Update, Goto, InOp
    <3>5. Cardinality(CallsIn(t)) <= setup.calls
      <4> HIDE DEF t
      <4> QED BY <1>0, <3>2, <3>3 DEF NestOK
    <3>6. stack' = t
      BY <2>2
    <3> HIDE DEF t
    <3> QED BY <2>2, <3>2, <3>4, <3>5, <3>6 DEF NestOK
  <2> QED BY <1>3, <2>1, <2>2 DEF IntLev, IrqFrame
<1>4. CASE Rte
  <2> DEFINE t == SubSeq(stack, 1, Len(stack) - 1)
  <2>1. stack # <<>> /\ stack[Len(stack)].kind = "irq" /\ stack' = t
    BY <1>4 DEF Rte, Level
  <2>2. Len(stack) - 1 \in 0 .. Len(stack) /\ Len(stack) \in DOMAIN stack
    BY <1>0, <2>1
  <2>3. /\ NotNested(t)
        /\ HasIrq(t) => \E i \in 1 .. Len(stack) - 1 : stack[i].kind = "irq"
        /\ Cardinality(CallsIn(t)) <= Cardinality(CallsIn(stack))
    BY <1>0, <2>2, ReturnNests DEF NestOK
  <2>4. ~HasIrq(t)
    <3> HIDE DEF t
    <3> QED BY <1>0, <2>1, <2>2, <2>3 DEF NestOK, NotNested
  <2>5. Cardinality(CallsIn(t)) \in Nat
    BY <1>0, <2>2, PopFacts, CallsFinite
  <2> HIDE DEF t
  <2> QED BY <1>0, <2>1, <2>3, <2>4, <2>5 DEF NestOK
<1>5. CASE ExecLoop
  <2>1. CASE quit_program
    <3>1. PICK i \in DOMAIN stack : op' = stack[i].op /\ stack' = SubSeq(stack, 1, i - 1)
      BY <1>5, <2>1 DEF ExecLoop
    <3> DEFINE t == SubSeq(stack, 1, i - 1)
    <3>2. i - 1 \in 0 .. Len(stack)
      BY <1>0
    <3>3. /\ NotNested(t)
          /\ HasIrq(t) => \E j \in 1 .. i - 1 : stack[j].kind = "irq"
          /\ Cardinality(CallsIn(t)) <= Cardinality(CallsIn(stack))
      BY <1>0, <3>2, ReturnNests DEF NestOK
    <3>4. Cardinality(CallsIn(t)) \in Nat
      BY <1>0, <3>2, PopFacts, CallsFinite
    <3>5. stack' = t
      BY <3>1
    <3> HIDE DEF t
    <3>6. ASSUME HasIrq(t) PROVE HasIrq(stack) /\ op'.sr = 1
      <4>1. PICK j \in DOMAIN stack : stack[j].kind = "irq" /\ j < i
        BY <1>0, <3>3, <3>6
      <4>2. stack[i].op.sr = 1
        BY <4>1 DEF NestOK, NotNested
      <4> QED BY <3>1, <4>1, <4>2 DEF HasIrq
    <3> QED BY <1>0, <1>5, <3>3, <3>4, <3>5, <3>6 DEF NestOK, ExecLoop
  <2>2. CASE ~quit_program
    BY <1>1, <1>5, <2>2 DEF ExecLoop, Goto, StackStays, NestOK, InOp
  <2> QED BY <2>1, <2>2
<1>6. CASE IrqOp
  <2> DEFINE t == [stack EXCEPT ![Len(stack)] = [stack[Len(stack)] EXCEPT !.served = TRUE]]
  <2>1. stack # <<>> /\ op' = [todo |-> Order, sr |-> intmask] /\ stack' = t
    BY <1>6 DEF IrqOp, Level
  <2>2. /\ NotNested(t) /\ HasIrq(t) = HasIrq(stack)
        /\ Cardinality(CallsIn(t)) = Cardinality(CallsIn(stack))
    BY <1>0, <2>1, ServedNests DEF NestOK
  <2> HIDE DEF t
  <2>3. op'.sr = intmask
    BY <2>1
  <2> QED BY <1>6, <2>1, <2>2, <2>3 DEF IrqOp, NestOK
<1>7. CASE NativeCalls
  BY <1>2, <1>7, <1>0 DEF NativeCalls, Execute68k, Goto, CallFrame, InOp, Room, Calls, CallsIn
<1>8. CASE ServiceCalls
  <2>1. CASE Calls < setup.calls
    BY <1>2, <1>8, <1>0, <2>1
       DEF ServiceCalls, Execute68k, Goto, CallFrame, InOp, Room, Calls, CallsIn
  <2>2. CASE ~(Calls < setup.calls)
    BY <1>1, <1>8, <2>2 DEF ServiceCalls, Goto, StackStays, NestOK, InOp
  <2> QED BY <2>1, <2>2
<1>9. ASSUME NEW s \in Sources, Post(s) \/ Trigger(s) PROVE NestOK'
  <2>1. UNCHANGED <<stack, intmask, op>> /\ (pc' \in InOp => pc \in InOp)
    BY <1>9 DEF Post, Trigger, SetInterruptFlag, idle_resume, TriggerSet, TriggerLoad,
                TriggerStore, cpuvars, InOp
  <2> QED BY <1>1, <2>1 DEF StackStays, NestOK
<1>10. ASSUME NEW m \in Masks, SetMask(m) PROVE NestOK'
  <2>1. ~HasIrq(stack) /\ UNCHANGED stack
    BY <1>10 DEF SetMask, HasIrq, InHandler
  <2> QED BY <1>1, <2>1 DEF StackStays
<1>11. CASE IdleTime \/ EmulOp
  <2>1. op' = [todo |-> <<>>, sr |-> intmask] /\ UNCHANGED <<stack, intmask>>
    BY <1>11 DEF IdleTime, EmulOp
  <2>2. op'.sr = intmask
    BY <2>1
  <2> QED BY <1>1, <2>1, <2>2 DEF StackStays, NestOK
<1>12. CASE EmulOpEnd
  <2>1. pc \in InOp /\ pc' \notin InOp /\ intmask' = op.sr /\ UNCHANGED stack
    BY <1>12 DEF EmulOpEnd, Update, InOp
  <2> QED BY <1>1, <2>1 DEF StackStays, NestOK
<1>13. CASE Store
  <2>1. pc' \notin InOp /\ UNCHANGED <<stack, intmask>>
    BY <1>13 DEF Store, WidthOK
  <2> QED BY <1>1, <2>1 DEF StackStays, NestOK
<1>14. CASE ClearInterruptFlag \/ Service
  <2>1. pc \in InOp /\ UNCHANGED <<stack, intmask>>
    BY <1>14 DEF ClearInterruptFlag, Service, InOp
  <2>2. op' = op \/ (op.todo # <<>> /\ op' = [op EXCEPT !.todo = Tail(@)])
    BY <1>14 DEF ClearInterruptFlag, Service, InterruptInv, Types
  <2>3. op'.sr = op.sr
    BY <1>0, <2>2, OpFacts
  <2> QED BY <1>1, <2>1, <2>3 DEF StackStays, NestOK
<1>15. CASE idle_wait \/ NativeReturns \/ IrqOpDone \/ SpuriousWakeup
  <2>1. pc \in InOp /\ UNCHANGED <<stack, intmask, op>>
    BY <1>15 DEF idle_wait, NativeReturns, IrqOpDone, SpuriousWakeup, InOp
  <2> QED BY <1>1, <2>1 DEF StackStays, NestOK
<1>16. CASE Instruction \/ ExecReturn \/ Test \/ DoInt \/ TakeInt \/ SetDoInt \/ Brk
  <2>1. pc' \notin InOp /\ UNCHANGED <<stack, intmask>>
    BY <1>16 DEF Instruction, ExecReturn, Test, DoInt, TakeInt, SetDoInt, Brk, Update, Goto, InOp
  <2> QED BY <1>1, <2>1 DEF StackStays, NestOK
<1> QED
  BY <1>3, <1>4, <1>5, <1>6, <1>7, <1>8, <1>9, <1>10, <1>11, <1>12, <1>13, <1>14, <1>15, <1>16
  DEF Step, Program, Handler, Emulator

\* A stack that is not nested has room for its calls and one frame.
LEMMA StackBound ==
  ASSUME NEW s \in Seq(Frames), NotNested(s) PROVE Len(s) <= Cardinality(CallsIn(s)) + 1
<1> DEFINE I == {i \in DOMAIN s : s[i].kind = "irq"}
<1>1. /\ Len(s) \in Nat /\ DOMAIN s = 1 .. Len(s)
      /\ \A i \in DOMAIN s : s[i].kind \in {"call", "irq"}
  <2>1. \A i \in DOMAIN s : s[i] \in Frames
    OBVIOUS
  <2> QED BY <2>1 DEF Frames
<1>2. DOMAIN s = CallsIn(s) \cup I
  BY <1>1 DEF CallsIn
<1>3. PICK k : I \subseteq {k}
  <2>1. CASE I = {}
    BY <2>1
  <2>2. CASE \E k \in DOMAIN s : s[k].kind = "irq"
    BY <2>2 DEF NotNested
  <2> QED BY <2>1, <2>2
<1>4. IsFiniteSet(CallsIn(s) \cup {k})
      /\ Cardinality(CallsIn(s) \cup {k}) <= Cardinality(CallsIn(s)) + 1
  BY CallsFinite, OneMore
<1>5. Cardinality(DOMAIN s) <= Cardinality(CallsIn(s) \cup {k})
  BY <1>2, <1>3, <1>4, FS_Subset
<1>6. Cardinality(DOMAIN s) = Len(s)
  BY <1>1, FS_Interval
<1>7. Cardinality(CallsIn(s) \cup {k}) \in Nat /\ Cardinality(CallsIn(s)) \in Nat
  BY <1>4, CallsFinite, FS_CardinalityType
<1> QED BY <1>1, <1>4, <1>5, <1>6, <1>7

\* The types, and the bound of the stack: the emulated CPU never takes an interrupt
\* within another, however calls are nested and left (newcpu.cpp:1266).
THEOREM StackIsBounded == InterruptSpec => []TypeOK
<1>1. Init => WidthOK /\ NestOK
  <2> SUFFICES ASSUME Init PROVE WidthOK /\ NestOK
    OBVIOUS
  <2>1. WidthOK
    BY DEF Init, WidthOK, Spc, CpuLocations, InOp
  <2>2. stack = <<>> /\ CallsIn(stack) = {} /\ ~HasIrq(stack) /\ NotNested(stack)
    <3>1. stack = <<>> /\ DOMAIN stack = {}
      BY DEF Init
    <3> QED BY <3>1 DEF CallsIn, HasIrq, NotNested
  <2>3. Cardinality(CallsIn(stack)) = 0 /\ setup.calls \in Nat
    <3>1. setup \in Setups
      BY DEF Init
    <3>2. setup.calls \in Nat
      BY <3>1, InterruptsAssumption
    <3> QED BY <2>2, <3>2, FS_EmptySet
  <2> QED BY <2>1, <2>2, <2>3 DEF NestOK
<1>2. InterruptInv /\ WidthOK /\ NestOK /\ [Next]_<<setup, vars>> => WidthOK' /\ NestOK'
  <2>1. ASSUME UNCHANGED <<setup, vars>>, WidthOK, NestOK PROVE WidthOK' /\ NestOK'
    BY <2>1 DEF vars, cpuvars, prodvars, WidthOK, NestOK
  <2> QED BY <2>1, WidthStep, NestStep DEF Next
<1>3. InterruptInv /\ WidthOK /\ NestOK => TypeOK
  <2> SUFFICES ASSUME InterruptInv, WidthOK, NestOK PROVE TypeOK
    OBVIOUS
  <2>1. setup \in Setups /\ stack \in Seq(Frames)
    BY DEF InterruptInv, Types
  <2>2. Len(stack) <= setup.calls + 1
    <3>1. setup.calls \in Nat /\ Len(stack) \in Nat /\ Cardinality(CallsIn(stack)) \in Nat
      BY <2>1, InterruptsAssumption, CallsFinite
    <3> QED BY <2>1, <3>1, StackBound DEF NestOK
  <2> QED BY <2>1, <2>2 DEF InterruptInv, Types, WidthOK, TypeOK, CpuLocations
<1> QED BY <1>1, <1>2, <1>3, InterruptAlways, InterruptInitInv, InterruptStep, PTL
       DEF InterruptSpec
=============================================================================
