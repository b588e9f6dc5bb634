------------------------------ MODULE Interrupts ------------------------------
(***************************************************************************)
(* How an event of the host becomes a level 1 interrupt of the emulated    *)
(* CPU.  A producer thread (the 60Hz tick thread, the network, audio or UI *)
(* thread) posts work, sets its bit of InterruptFlags under a mutex and    *)
(* calls TriggerInterrupt, which wakes an idling CPU and sets SPCFLAG_INT. *)
(* The CPU thread looks at its spcflags between two instructions, takes    *)
(* the interrupt and ends up in the M68K_EMUL_OP_IRQ opcode, which clears  *)
(* and serves one flag after the other and may run 68k code, nested, while *)
(* it does.                                                                *)
(*                                                                         *)
(* spcflags is a plain word: unless ENABLE_EXCLUSIVE_SPCFLAGS is defined,  *)
(* SPCFLAGS_SET and SPCFLAGS_CLEAR are a load and a store, and two threads *)
(* can undo each other's update.  The Mac has started (HasMacStarted), it  *)
(* does not trace or STOP the CPU, and code called from the interrupt      *)
(* handler does not lower the interrupt mask.                              *)
(***************************************************************************)
EXTENDS Integers, Sequences, FiniteSets

CONSTANTS
  Sources,    \* the interrupt flags in use, one producer thread for each
  Tick,       \* the flag of the tick thread, INTFLAG_60HZ
  Order,      \* the sequence in which M68K_EMUL_OP_IRQ looks at the flags
  MaxCalls,   \* bound: how many calls of Execute68k may be nested
  Setups      \* what is considered: how the emulator is built and what the
              \* program does

ASSUME InterruptsAssumption ==
  /\ Tick \in Sources
  /\ Order \in Seq(Sources) /\ \A s \in Sources : \E i \in DOMAIN Order : Order[i] = s
  /\ MaxCalls \in Nat
  /\ Setups \subseteq [exclusive : BOOLEAN, masks : SUBSET {0, 1}, calls : 0 .. MaxCalls,
                      sources : SUBSET Sources]

VARIABLES
  setup,           \* one of Setups, for good
  InterruptFlags,  \* the flags that are set
  work,            \* sources that have posted work which was not served yet
  spcflags,        \* the CPU's special flags, of "INT", "DOINT", "BRK"
  ppc, preg,       \* where each producer is, and the word it loaded
  pc, creg, cont,  \* where the CPU thread is, the word it loaded, and where it
                   \* goes on after the store
  intmask,         \* regs.intmask, 0 or 1
  quit_program,
  stack,           \* exception frames and calls of Execute68k in progress
  op               \* the EMUL_OP being executed: the flags M68K_EMUL_OP_IRQ has
                   \* yet to look at, and the saved r.sr

cpuvars  == <<pc, creg, cont, intmask, quit_program, stack, op>>
prodvars == <<ppc, preg>>
vars == <<InterruptFlags, work, spcflags, prodvars, cpuvars>>

Exclusive == setup.exclusive  \* ENABLE_EXCLUSIVE_SPCFLAGS
Masks     == setup.masks      \* the interrupt masks the program sets on its own

Spc == {"INT", "DOINT", "BRK"}

NoOp == [todo |-> <<>>, sr |-> 0]

Init ==
  /\ setup \in Setups
  /\ InterruptFlags = {} /\ work = {} /\ spcflags = {}
  /\ ppc = [s \in Sources |-> "idle"] /\ preg = [s \in Sources |-> {}]
  /\ pc = "run" /\ creg = {} /\ cont = "run"
  /\ intmask = 0 /\ quit_program = FALSE
  /\ stack = <<>>
  /\ op = NoOp

-----------------------------------------------------------------------------
\* The producers.

Post(s) ==
  /\ s \in setup.sources
  /\ ppc[s] = "idle"
  /\ work' = work \cup {s}
  /\ ppc' = [ppc EXCEPT ![s] = "posted"]
  /\ UNCHANGED <<InterruptFlags, spcflags, preg, cpuvars>>

SetInterruptFlag(s) ==
  /\ ppc[s] = "posted"
  /\ InterruptFlags' = InterruptFlags \cup {s}
  /\ ppc' = [ppc EXCEPT ![s] = "flagged"]
  /\ UNCHANGED <<work, spcflags, preg, cpuvars>>

\* TriggerInterrupt, first half: the condition is signalled without the mutex,
\* and the signal is lost if the CPU thread is not waiting.
idle_resume(s) ==
  /\ ppc[s] = "flagged"
  /\ ppc' = [ppc EXCEPT ![s] = "resumed"]
  /\ pc' = IF pc = "waiting" THEN "emulop_end" ELSE pc
  /\ UNCHANGED <<InterruptFlags, work, spcflags, preg, creg, cont, intmask,
                 quit_program, stack, op>>

\* TriggerInterrupt, second half: SPCFLAGS_SET(SPCFLAG_INT).
TriggerSet(s) ==
  /\ Exclusive
  /\ ppc[s] = "resumed"
  /\ spcflags' = spcflags \cup {"INT"}
  /\ ppc' = [ppc EXCEPT ![s] = "idle"]
  /\ UNCHANGED <<InterruptFlags, work, preg, cpuvars>>

TriggerLoad(s) ==
  /\ ~Exclusive
  /\ ppc[s] = "resumed"
  /\ preg' = [preg EXCEPT ![s] = spcflags]
  /\ ppc' = [ppc EXCEPT ![s] = "loaded"]
  /\ UNCHANGED <<InterruptFlags, work, spcflags, cpuvars>>

TriggerStore(s) ==
  /\ ppc[s] = "loaded"
  /\ spcflags' = preg[s] \cup {"INT"}
  /\ preg' = [preg EXCEPT ![s] = {}]
  /\ ppc' = [ppc EXCEPT ![s] = "idle"]
  /\ UNCHANGED <<InterruptFlags, work, cpuvars>>

Trigger(s) ==
  SetInterruptFlag(s) \/ idle_resume(s) \/ TriggerSet(s) \/ TriggerLoad(s) \/ TriggerStore(s)

-----------------------------------------------------------------------------
\* The CPU thread's own SPCFLAGS_CLEAR(del) or SPCFLAGS_SET(add), and then next.
Update(del, add, next) ==
  /\ IF Exclusive
       THEN /\ spcflags' = (spcflags \ del) \cup add
            /\ pc' = next
            /\ UNCHANGED <<creg, cont>>
       ELSE /\ creg' = (spcflags \ del) \cup add
            /\ cont' = next
            /\ pc' = "store"
            /\ UNCHANGED spcflags
  /\ UNCHANGED <<InterruptFlags, work, prodvars>>

Store ==
  /\ pc = "store"
  /\ spcflags' = creg
  /\ pc' = cont
  /\ creg' = {} /\ cont' = "run"
  /\ UNCHANGED <<InterruptFlags, work, prodvars, intmask, quit_program, stack, op>>

Goto(next) ==
  /\ pc' = next
  /\ UNCHANGED <<InterruptFlags, work, spcflags, prodvars, creg, cont>>

Level == IF stack = <<>> THEN "main" ELSE stack[Len(stack)].kind
Served == stack[Len(stack)].served
InHandler == \E i \in DOMAIN stack : stack[i].kind = "irq"
Calls == Cardinality({i \in DOMAIN stack : stack[i].kind = "call"})

\* The CPU executes one instruction; while quit_program is set it should not.
Executes == pc = "run" /\ ~quit_program

\* The program, and not the interrupt handler, decides what comes next.
ProgramRuns == Executes /\ Level # "irq"

\* An instruction of the program or of the Mac's interrupt handler.
Instruction ==
  /\ Executes
  /\ Goto("test")
  /\ UNCHANGED <<intmask, quit_program, stack, op>>

\* An instruction that writes SR (MakeFromSR) in order to mask interrupts or to
\* allow them again.
SetMask(m) ==
  /\ ProgramRuns
  /\ ~InHandler
  /\ intmask' = m
  /\ Update({}, {"INT"}, "test")
  /\ UNCHANGED <<quit_program, stack, op>>

\* M68K_EMUL_OP_IDLE_TIME, when no Mac event is waiting.
IdleTime ==
  /\ ProgramRuns
  /\ op' = [todo |-> <<>>, sr |-> intmask]
  /\ Goto("idle")
  /\ UNCHANGED <<intmask, quit_program, stack>>

idle_wait ==
  /\ pc = "idle"
  /\ Goto("waiting")
  /\ UNCHANGED <<intmask, quit_program, stack, op>>

\* Any other EMUL_OP whose handler may call Execute68k.
EmulOp ==
  /\ ProgramRuns
  /\ Calls < setup.calls
  /\ op' = [todo |-> <<>>, sr |-> intmask]
  /\ Goto("native")
  /\ UNCHANGED <<intmask, quit_program, stack>>

Execute68k ==
  /\ Calls < setup.calls
  /\ stack' = Append(stack, [kind |-> "call", op |-> op, served |-> FALSE])
  /\ op' = NoOp
  /\ quit_program' = FALSE
  /\ UNCHANGED intmask

NativeCalls ==
  /\ pc = "native"
  /\ Execute68k
  /\ Goto("run")

NativeReturns ==
  /\ pc = "native"
  /\ Goto("emulop_end")
  /\ UNCHANGED <<intmask, quit_program, stack, op>>

\* Mutated form: m68k_emulop does not write the saved SR back.
EmulOpEndKeepsMask ==
  /\ pc = "emulop_end"
  /\ op' = NoOp
  /\ Update({}, {"INT"}, "test")
  /\ UNCHANGED <<intmask, quit_program, stack>>

\* m68k_emulop restores the registers it saved, SR among them.
EmulOpEnd ==
  /\ pc = "emulop_end"
  /\ intmask' = op.sr
  /\ op' = NoOp
  /\ Update({}, {"INT"}, "test")
  /\ UNCHANGED <<quit_program, stack>>

\* M68K_EXEC_RETURN, on which the routine called by Execute68k ends.
ExecReturn ==
  /\ Executes
  /\ Level = "call"
  /\ quit_program' = TRUE
  /\ Update({}, {"BRK"}, "test")
  /\ UNCHANGED <<intmask, stack, op>>

-----------------------------------------------------------------------------
\* The interrupt handler: M68K_EMUL_OP_IRQ, then RTE.

IrqOp ==
  /\ Executes
  /\ Level = "irq" /\ ~Served
  /\ stack' = [stack EXCEPT ![Len(stack)].served = TRUE]
  /\ op' = [todo |-> Order, sr |-> intmask]
  /\ Goto("irq")
  /\ UNCHANGED <<intmask, quit_program>>

\* Mutated form: the whole word is cleared with the flag.
ClearInterruptFlagAll ==
  /\ pc = "irq" /\ op.todo # <<>>
  /\ LET s == Head(op.todo) IN
     IF s \in InterruptFlags
       THEN /\ InterruptFlags' = {}
            /\ pc' = "service"
            /\ UNCHANGED op
       ELSE /\ op' = [op EXCEPT !.todo = Tail(@)]
            /\ UNCHANGED <<InterruptFlags, pc>>
  /\ UNCHANGED <<work, spcflags, prodvars, creg, cont, intmask, quit_program, stack>>

\* The next flag is looked at, without the mutex, and cleared if it is set.
ClearInterruptFlag ==
  /\ pc = "irq" /\ op.todo # <<>>
  /\ LET s == Head(op.todo) IN
     IF s \in InterruptFlags
       THEN /\ InterruptFlags' = InterruptFlags \ {s}
            /\ pc' = "service"
            /\ UNCHANGED op
       ELSE /\ op' = [op EXCEPT !.todo = Tail(@)]
            /\ UNCHANGED <<InterruptFlags, pc>>
  /\ UNCHANGED <<work, spcflags, prodvars, creg, cont, intmask, quit_program, stack>>

\* TimerInterrupt, EtherInterrupt, ...: the work is done, and then 68k code may be
\* called (a Time Manager task, a protocol handler).
Service ==
  /\ pc = "service"
  /\ work' = work \ {Head(op.todo)}
  /\ op' = [op EXCEPT !.todo = Tail(@)]
  /\ pc' \in {"irq", "irq_calls"}
  /\ UNCHANGED <<InterruptFlags, spcflags, prodvars, creg, cont, intmask, quit_program, stack>>

ServiceCalls ==
  /\ pc = "irq_calls"
  /\ IF Calls < setup.calls
       THEN Execute68k /\ Goto("run")
       ELSE Goto("irq") /\ UNCHANGED <<intmask, quit_program, stack, op>>

IrqOpDone ==
  /\ pc = "irq" /\ op.todo = <<>>
  /\ Goto("emulop_end")
  /\ UNCHANGED <<intmask, quit_program, stack, op>>

\* Mutated form: SR is written without another look at the interrupts.
RteNoCheck ==
  /\ Executes
  /\ Level = "irq" /\ Served
  /\ stack' = SubSeq(stack, 1, Len(stack) - 1)
  /\ intmask' = 0
  /\ Goto("test")
  /\ UNCHANGED <<quit_program, op>>

\* RTE writes SR, which MakeFromSR answers with SPCFLAG_INT.
Rte ==
  /\ Executes
  /\ Level = "irq" /\ Served
  /\ stack' = SubSeq(stack, 1, Len(stack) - 1)
  /\ intmask' = 0
  /\ Update({}, {"INT"}, "test")
  /\ UNCHANGED <<quit_program, op>>

-----------------------------------------------------------------------------
\* m68k_do_specialties, entered after an instruction if any flag is set.

Test ==
  /\ pc = "test"
  /\ Goto(IF spcflags = {} THEN "run" ELSE "doint")
  /\ UNCHANGED <<intmask, quit_program, stack, op>>

\* Mutated form: the request to leave the execution loop is cleared as well.
DoIntClearsBrk ==
  /\ pc = "doint"
  /\ IF "DOINT" \in spcflags THEN Update({"DOINT", "BRK"}, {}, "intlev") ELSE Goto("int")
  /\ UNCHANGED <<intmask, quit_program, stack, op>>

DoInt ==
  /\ pc = "doint"
  /\ IF "DOINT" \in spcflags THEN Update({"DOINT"}, {}, "intlev") ELSE Goto("int")
  /\ UNCHANGED <<intmask, quit_program, stack, op>>

\* Mutated form: the interrupt mask is not looked at.
IntLevIgnoresMask ==
  /\ pc = "intlev"
  /\ IF InterruptFlags # {}
       THEN /\ intmask' = 1
            /\ stack' = Append(stack, [kind |-> "irq", op |-> NoOp, served |-> FALSE])
            /\ Update({}, {"INT"}, "int")
       ELSE /\ Goto("int")
            /\ UNCHANGED <<intmask, stack>>
  /\ UNCHANGED <<quit_program, op>>

\* Interrupt(1) pushes an exception frame, raises the mask and sets SPCFLAG_INT.
IntLev ==
  /\ pc = "intlev"
  /\ IF InterruptFlags # {} /\ intmask = 0
       THEN /\ intmask' = 1
            /\ stack' = Append(stack, [kind |-> "irq", op |-> NoOp, served |-> FALSE])
            /\ Update({}, {"INT"}, "int")
       ELSE /\ Goto("int")
            /\ UNCHANGED <<intmask, stack>>
  /\ UNCHANGED <<quit_program, op>>

TakeInt ==
  /\ pc = "int"
  /\ IF "INT" \in spcflags THEN Update({"INT"}, {}, "setdoint") ELSE Goto("brk")
  /\ UNCHANGED <<intmask, quit_program, stack, op>>

SetDoInt ==
  /\ pc = "setdoint"
  /\ Update({}, {"DOINT"}, "brk")
  /\ UNCHANGED <<intmask, quit_program, stack, op>>

Brk ==
  /\ pc = "brk"
  /\ IF "BRK" \in spcflags THEN Update({"BRK"}, {}, "execloop") ELSE Goto("run")
  /\ UNCHANGED <<intmask, quit_program, stack, op>>

\* m68k_execute tests quit_program.  If it is set, Execute68k returns into the
\* EMUL_OP that called it; an exception frame above the call is forgotten.
ExecLoop ==
  /\ pc = "execloop"
  /\ \/ /\ quit_program
        /\ \E i \in DOMAIN stack :
             /\ stack[i].kind = "call"
             /\ \A j \in DOMAIN stack : stack[j].kind = "call" => j <= i
             /\ op' = stack[i].op
             /\ stack' = SubSeq(stack, 1, i - 1)
             /\ Goto(IF i > 1 /\ stack[i - 1].kind = "irq" THEN "irq" ELSE "native")
        /\ quit_program' = FALSE
     \/ /\ ~quit_program
        /\ Goto("run")
        /\ UNCHANGED <<op, stack, quit_program>>
  /\ UNCHANGED intmask

\* pthread_cond_wait may wake up without a signal.
SpuriousWakeup ==
  /\ pc = "waiting"
  /\ Goto("emulop_end")
  /\ UNCHANGED <<intmask, quit_program, stack, op>>

-----------------------------------------------------------------------------
Program == Instruction \/ (\E m \in Masks : SetMask(m)) \/ IdleTime \/ EmulOp \/ ExecReturn

\* What the CPU thread does once the program has chosen its instruction.
Emulator ==
  \/ Store \/ Test \/ DoInt \/ IntLev \/ TakeInt \/ SetDoInt \/ Brk \/ ExecLoop
  \/ idle_wait \/ NativeCalls \/ NativeReturns \/ EmulOpEnd
  \/ ClearInterruptFlag \/ Service \/ ServiceCalls \/ IrqOpDone

Handler == IrqOp \/ Rte

Step ==
  \/ \E s \in Sources : Post(s) \/ Trigger(s)
  \/ Program
  \/ Handler
  \/ Emulator
  \/ SpuriousWakeup

Next == Step /\ UNCHANGED setup

Unmasked == Instruction /\ intmask = 0

\* The tick thread never stops.  A thread that has begun to trigger an interrupt
\* finishes, and so does an opcode of the emulator.  The program goes on from
\* instruction to instruction, its routines, the EMUL_OPs in them and the Mac's
\* interrupt handler come to their end, and it does not keep interrupts masked for
\* ever, not even by masking them again in every instruction that follows one which
\* unmasks them.
Fairness ==
  /\ \A s \in Sources : WF_vars(Trigger(s))
  /\ WF_vars(Post(Tick))
  /\ WF_vars(Emulator)
  /\ WF_vars(Program)
  /\ SF_vars(Handler)
  /\ \A n \in 1 .. MaxCalls : SF_vars(ExecReturn /\ Calls = n)
  /\ \A n \in 1 .. MaxCalls - 1 : SF_vars(NativeReturns /\ Calls = n)
  /\ SF_vars(SetMask(0))
  /\ SF_vars(Unmasked)

Spec == Init /\ [][Next]_<<setup, vars>> /\ Fairness

-----------------------------------------------------------------------------
CpuLocations ==
  {"run", "test", "doint", "intlev", "int", "setdoint", "brk", "execloop", "store",
   "idle", "waiting", "native", "emulop_end", "irq", "service", "irq_calls"}

Ops == [todo : Seq(Sources), sr : 0 .. 1]
Frames == [kind : {"call", "irq"}, op : Ops, served : BOOLEAN]

\* Besides the types: interrupts do not nest, so the calls in progress and a single
\* exception frame are all that is ever on the stack, whatever is called from the
\* handler and wherever a call is left with an interrupt pending.
TypeOK ==
  /\ setup \in Setups
  /\ InterruptFlags \subseteq Sources /\ work \subseteq Sources
  /\ spcflags \subseteq Spc
  /\ ppc \in [Sources -> {"idle", "posted", "flagged", "resumed", "loaded"}]
  /\ preg \in [Sources -> SUBSET Spc]
  /\ pc \in CpuLocations /\ cont \in CpuLocations \ {"store"} /\ creg \subseteq Spc
  /\ intmask \in 0 .. 1
  /\ quit_program \in BOOLEAN
  /\ stack \in Seq(Frames) /\ Len(stack) <= setup.calls + 1
  /\ op \in Ops

\* An interrupt is never forgotten: while a flag is set and the CPU may be
\* interrupted, the word the CPU looks at between two instructions still tells it
\* so, once the threads that set flags are through.  Outside of the routines that
\* Execute68k calls this is so even if the threads overwrite each other's update
\* of the word (spcflags.h:66), because every place where the CPU clears the
\* request is followed by a look at InterruptFlags, and every change of the mask
\* by a new request.
ProducersDone == \A s \in Sources : ppc[s] \in {"idle", "posted"}

NoForgottenInterrupt ==
  InterruptFlags # {} /\ intmask = 0 /\ ProducersDone /\ pc = "run" /\ (Exclusive \/ Calls = 0)
    => spcflags \cap {"INT", "DOINT"} # {}

\* A routine called by Execute68k that reaches its end is left there: the CPU
\* never executes another instruction once quit_program is set (TECH:209, "after
\* the call has returned").
ReturnsToCaller == pc = "run" => ~quit_program

\* Two threads are between the load and the store of an update of spcflags.
Overlap ==
  \E s \in Sources :
    /\ ppc[s] = "loaded"
    /\ pc = "store" \/ \E t \in Sources \ {s} : ppc[t] = "loaded"

\* Work that a thread posts is served in the end ("the MacOS thread will
\* eventually end up in the level 1 interrupt handler", TECH:244), although the
\* wakeup of an idling CPU can be lost, and whatever updates that overlapped have
\* left of spcflags.  Two things end the promise: that threads overlap again, and a
\* CPU that has run past the end of a call.  So work waits for ever only if every
\* look of the CPU at its flags is undone by another overlap, or in a runaway.
WorkIsServed ==
  \A s \in Sources : s \in work ~> s \notin work \/ Overlap \/ ~ReturnsToCaller

\* An interrupt taken on the very instruction that ends a routine called by
\* Execute68k loses its frame.  The mask it leaves behind is gone when the program
\* continues: a program that does not mask interrupts itself is never left deaf.
MainIsInterruptible ==
  Masks \subseteq {0} /\ stack = <<>> /\ pc = "run" => intmask = 0
=============================================================================
