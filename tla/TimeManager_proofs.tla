-------------------------- MODULE TimeManager_proofs --------------------------
(***************************************************************************)
(* TimeManager for every number of tasks and every size of the table: its  *)
(* type invariant, the uniqueness of descriptors, the refinement of        *)
(* Timers, and what TimeManagerHistory says of the schedules of tasks and  *)
(* of a pass of the interrupt.                                             *)
(***************************************************************************)
EXTENDS TimeManagerHistory, FiniteSetTheorems, FunctionTheorems, WellFoundedInduction, TLAPS

Less == {p \in Nat \X Nat : p[1] < p[2]}

\* The loops over the table return its first match: First is the least element.
LEMMA FirstIsLeast ==
  ASSUME NEW S \in SUBSET Nat, S # {}
  PROVE  First(S) \in S /\ \A j \in S : First(S) <= j
<1>1. IsWellFoundedOn(Less, Nat)
  BY NatLessThanWellFounded, Zenon DEF OpToRel, Less
<1>2. PICK x \in S : \A y \in S : <<y, x>> \notin Less
  BY <1>1, WFMin
<1>3. ASSUME NEW y \in S PROVE x <= y
  <2>1. \A u, v \in Nat : u < v => <<u, v>> \in Less
    BY DEF Less
  <2>2. x \in Nat /\ y \in Nat /\ ~(y < x)
    BY <1>2, <2>1
  <2> QED BY <2>2
<1> QED BY <1>3 DEF First

\* find_desc returns a descriptor of the task it is asked for, alloc_desc a free one.
LEMMA FoundSlots ==
  /\ \A t \in Tasks : Installed(t) => find_desc(t) \in SlotsOf(t)
  /\ FreeSlots # {} => First(FreeSlots) \in FreeSlots
<1>1. Slots \subseteq Nat
  BY TimeManagerAssumption DEF Slots
<1>2. FreeSlots \in SUBSET Nat
  BY <1>1 DEF FreeSlots
<1>3. ASSUME NEW t \in Tasks PROVE SlotsOf(t) \in SUBSET Nat
  BY <1>1 DEF SlotsOf
<1> QED BY <1>2, <1>3, FirstIsLeast DEF Installed, find_desc

\* Both hold of an empty table.
LEMMA InitInv == Init => TypeOK /\ UniqueDesc
BY TimeManagerAssumption DEF Init, TypeOK, UniqueDesc, NoPass, Slots

\* Every step keeps the table well typed.
LEMMA TypeStep == TypeOK /\ [Next]_vars => TypeOK'
<1> SUFFICES ASSUME TypeOK, [Next]_vars PROVE TypeOK'
  OBVIOUS
<1> USE TimeManagerAssumption DEF TypeOK, Slots
<1>0. NextSlot \in [pc : {"idle", "scan", "call"}, i : 0 .. NumDescs, now : Nat]
      /\ (NextSlot.pc # "idle" => NextSlot.i \in Slots) /\ NextSlot.now <= clock
  <2>1. CASE pass.i < NumDescs
    <3>1. NextSlot = [pc |-> "scan", i |-> pass.i + 1, now |-> pass.now]
      BY <2>1 DEF NextSlot
    <3>2. pass.i + 1 \in 1 .. NumDescs
      BY <2>1
    <3> QED BY <3>1, <3>2
  <2>2. CASE ~(pass.i < NumDescs)
    BY <2>2 DEF NextSlot, NoPass
  <2> QED BY <2>1, <2>2
<1>1. ASSUME NEW t \in Tasks, NEW x \in BOOLEAN, InsTime(t, x) PROVE TypeOK'
  <2>1. CASE FreeSlots = {} \/ Installed(t)
    BY <1>1, <2>1 DEF InsTime, alloc_desc
  <2>2. CASE FreeSlots # {} /\ ~Installed(t)
    <3>1. PICK i \in Slots :
            desc' = [desc EXCEPT ![i] = [desc[i] EXCEPT !.task = t, !.in_use = TRUE]]
      BY <1>1, <2>2, FoundSlots DEF FreeSlots, InsTime, alloc_desc
    <3>2. /\ desc'[i].task = t
          /\ \A j \in Slots \ {i} : desc'[j] = desc[j]
      BY <3>1
    <3>3. desc' \in [Slots -> [task : Tasks \cup {NoTask}, wakeup : Nat, in_use : BOOLEAN]]
      BY ZenonT(40), <3>1
    <3>4. ASSUME NEW j \in Slots, desc'[j].in_use PROVE desc'[j].task \in Tasks
      <4>1. CASE j = i
        BY <3>2, <4>1
      <4>2. CASE j # i
        BY <3>2, <3>4, <4>2
      <4> QED BY <4>1, <4>2
    <3>5. /\ active' \subseteq Tasks /\ extended' \subseteq Tasks
          /\ tmWakeUp' = tmWakeUp /\ clock' = clock /\ pass' = pass
      BY <1>1 DEF InsTime
    <3> QED BY <3>3, <3>4, <3>5
  <2> QED BY <2>1, <2>2
<1>2. ASSUME NEW t \in Tasks, RmvTime(t) PROVE TypeOK'
  <2>1. find_desc(t) \in Slots
    BY <1>2, FoundSlots DEF RmvTime, SlotsOf
  <2> QED BY ZenonT(40), <1>2, <2>1 DEF RmvTime, free_desc
<1>3. ASSUME NEW t \in Tasks, NEW d \in Delays, PrimeTime(t, d) PROVE TypeOK'
  <2>1. find_desc(t) \in Slots
    BY <1>3, FoundSlots DEF PrimeTime, SlotsOf
  <2>2. PrimedWakeup(t, d) \in Nat
    BY <2>1 DEF PrimedWakeup, Wakeup
  <2> QED BY <1>3, <2>1, <2>2 DEF PrimeTime
<1>4. ASSUME NEW t \in Tasks, ClearWakeUp(t) PROVE TypeOK'
  BY <1>4 DEF ClearWakeUp
<1>5. CASE TimerReset
  BY ZenonT(40), <1>5 DEF TimerReset
<1>6. CASE TimerInterrupt
  BY <1>6 DEF TimerInterrupt
<1>7. CASE ScanSlot
  BY <1>0, <1>7 DEF ScanSlot
<1>8. CASE HandlerReturns
  BY <1>0, <1>8 DEF HandlerReturns
<1>9. CASE Tick
  BY <1>9 DEF Tick
<1>10. CASE UNCHANGED vars
  BY <1>10 DEF vars
<1> QED
  BY <1>1, <1>2, <1>3, <1>4, <1>5, <1>6, <1>7, <1>8, <1>9, <1>10 DEF Next, Program

\* The state of the Time Manager is well typed, for every table and program.
THEOREM TypeCorrect == Spec => []TypeOK
<1>1. Init => TypeOK
  BY InitInv
<1> QED BY <1>1, TypeStep, PTL DEF Spec
-----------------------------------------------------------------------------
\* Every step keeps the descriptors of different slots for different tasks: a
\* slot is filled only for a task that has none.
LEMMA UniqueStep == TypeOK /\ UniqueDesc /\ [Next]_vars => UniqueDesc'
<1> SUFFICES ASSUME TypeOK, UniqueDesc, [Next]_vars PROVE UniqueDesc'
  OBVIOUS
<1> USE TimeManagerAssumption DEF TypeOK, UniqueDesc
<1>1. ASSUME NEW t \in Tasks, NEW x \in BOOLEAN, InsTime(t, x) PROVE UniqueDesc'
  <2>1. CASE FreeSlots = {} \/ Installed(t)
    BY <1>1, <2>1 DEF InsTime, alloc_desc
  <2>2. CASE FreeSlots # {} /\ ~Installed(t)
    <3> DEFINE i == First(FreeSlots)
    <3>1. i \in Slots /\ ~desc[i].in_use
      BY <2>2, FoundSlots DEF FreeSlots
    <3>2. desc' = [desc EXCEPT ![i] = [desc[i] EXCEPT !.task = t, !.in_use = TRUE]]
      BY <1>1, <2>2 DEF InsTime, alloc_desc
    <3>3. \A j \in Slots : desc[j].in_use => desc[j].task # t
      BY <2>2 DEF Installed, SlotsOf
    <3>4. desc'[i].task = t /\ \A j \in Slots \ {i} : desc'[j] = desc[j]
      BY <3>1, <3>2
    <3> QED BY <3>1, <3>3, <3>4
  <2> QED BY <2>1, <2>2
<1>2. ASSUME NEW t \in Tasks, RmvTime(t) PROVE UniqueDesc'
  <2>1. find_desc(t) \in Slots
    BY <1>2, FoundSlots DEF RmvTime, SlotsOf
  <2> QED BY <1>2, <2>1 DEF RmvTime, free_desc
<1>3. ASSUME NEW t \in Tasks, NEW d \in Delays, PrimeTime(t, d) PROVE UniqueDesc'
  <2>1. find_desc(t) \in Slots
    BY <1>3, FoundSlots DEF PrimeTime, SlotsOf
  <2> QED BY <1>3, <2>1 DEF PrimeTime
<1>4. CASE TimerReset
  BY <1>4 DEF TimerReset
<1>5. CASE UNCHANGED desc
  BY <1>5
<1> QED
  BY <1>1, <1>2, <1>3, <1>4, <1>5
     DEF Next, Program, ClearWakeUp, TimerInterrupt, ScanSlot, HandlerReturns, Tick, vars

\* A task never has two descriptors.
THEOREM UniqueDescriptors == Spec => []UniqueDesc
<1>1. TypeOK /\ UniqueDesc /\ [Next]_vars => (TypeOK /\ UniqueDesc)'
  BY TypeStep, UniqueStep
<1> QED BY InitInv, <1>1, PTL DEF Spec

-----------------------------------------------------------------------------
\* With unique descriptors, any slot that holds a task is the one find_desc finds.
LEMMA FindIsUnique ==
  UniqueDesc => \A i \in Slots : desc[i].in_use /\ desc[i].task \in Tasks =>
                  /\ Installed(desc[i].task)
                  /\ find_desc(desc[i].task) = i
<1> SUFFICES ASSUME UniqueDesc, NEW i \in Slots, desc[i].in_use, desc[i].task \in Tasks
             PROVE  Installed(desc[i].task) /\ find_desc(desc[i].task) = i
  OBVIOUS
<1>1. Installed(desc[i].task)
  BY DEF Installed, SlotsOf
<1>2. find_desc(desc[i].task) \in SlotsOf(desc[i].task)
  BY <1>1, FoundSlots
<1> QED BY <1>1, <1>2 DEF SlotsOf, UniqueDesc

\* The table is full exactly when as many tasks are installed as it has slots.
LEMMA FullTable ==
  TypeOK /\ UniqueDesc => (Cardinality(InstalledTasks) < NumDescs <=> FreeSlots # {})
<1> SUFFICES ASSUME TypeOK, UniqueDesc
             PROVE  Cardinality(InstalledTasks) < NumDescs <=> FreeSlots # {}
  OBVIOUS
<1> DEFINE Used == {i \in Slots : desc[i].in_use}
           f == [i \in Used |-> desc[i].task]
<1>1. IsFiniteSet(Slots) /\ Cardinality(Slots) = NumDescs
  BY FS_Interval, TimeManagerAssumption DEF Slots
<1>2. /\ IsFiniteSet(Used) /\ Cardinality(Used) <= NumDescs
      /\ Cardinality(Used) = NumDescs => Used = Slots
      /\ Cardinality(Used) \in Nat
  BY <1>1, FS_Subset, FS_CardinalityType
<1>3. f \in [Used -> InstalledTasks]
  BY DEF InstalledTasks, Installed, SlotsOf, TypeOK
<1>4. f \in Injection(Used, InstalledTasks)
  BY <1>3, Fun_IsInj DEF UniqueDesc
<1>5. f \in Surjection(Used, InstalledTasks)
  BY <1>3, Fun_IsSurj DEF InstalledTasks, Installed, SlotsOf
<1>6. Cardinality(Used) = Cardinality(InstalledTasks)
  BY <1>2, <1>4, <1>5, FS_Surjection
<1>7. FreeSlots = {} <=> Used = Slots
  BY DEF FreeSlots
<1> QED BY <1>1, <1>2, <1>6, <1>7, TimeManagerAssumption
-----------------------------------------------------------------------------
\* A task keeps its place in Timers when its descriptor and active bit do not change.
LEMMA Frame ==
  ASSUME NEW u \in Tasks,
         SlotsOf(u)' = SlotsOf(u),
         \A i \in SlotsOf(u) : desc'[i].wakeup = desc[i].wakeup,
         u \in active' <=> u \in active
  PROVE  (Installed(u)' <=> Installed(u)) /\ Deadlines'[u] = Deadlines[u]
<1>1. find_desc(u)' = find_desc(u) /\ (Installed(u)' <=> Installed(u))
  BY DEF find_desc, Installed
<1>2. CASE Installed(u)
  BY <1>1, <1>2, FoundSlots DEF Deadlines, Wakeup
<1>3. CASE ~Installed(u)
  BY <1>1, <1>3 DEF Deadlines
<1> QED BY <1>1, <1>2, <1>3

\* A step that leaves the other tasks alone is seen by Timers only at task t.
LEMMA OneTask ==
  ASSUME NEW t \in Tasks,
         \A u \in Tasks \ {t} : (Installed(u)' <=> Installed(u)) /\ Deadlines'[u] = Deadlines[u]
  PROVE  /\ Deadlines' = [Deadlines EXCEPT ![t] = Deadlines'[t]]
         /\ InstalledTasks' = IF Installed(t)' THEN InstalledTasks \cup {t}
                                               ELSE InstalledTasks \ {t}
<1>1. Deadlines' = [u \in Tasks |-> Deadlines'[u]] /\ Deadlines = [u \in Tasks |-> Deadlines[u]]
  BY Zenon DEF Deadlines
<1>2. Deadlines' = [Deadlines EXCEPT ![t] = Deadlines'[t]]
  BY <1>1
<1> QED BY <1>2 DEF InstalledTasks

\* The instance of Timers counts with the same Cardinality.
LEMMA SameCount == Abs!Cardinality(InstalledTasks) = Cardinality(InstalledTasks)
BY Zenon DEF Abs!Cardinality, Cardinality

\* InsTime installs the task unless the table is full, and disarms it.
LEMMA InstallRefines ==
  ASSUME TypeOK, UniqueDesc, NEW t \in Tasks, NEW x \in BOOLEAN, InsTime(t, x)
  PROVE  Abs!Install(t)
<1> USE TimeManagerAssumption DEF TypeOK
<1>1. CASE FreeSlots = {} \/ Installed(t)
  <2>1. desc' = desc /\ active' = active \ {t} /\ clock' = clock
    BY <1>1 DEF InsTime, alloc_desc
  <2>2. \A u \in Tasks : SlotsOf(u)' = SlotsOf(u)
    BY <2>1 DEF SlotsOf
  <2>3. \A u \in Tasks \ {t} : (Installed(u)' <=> Installed(u)) /\ Deadlines'[u] = Deadlines[u]
    BY <2>1, <2>2, Frame
  <2>4. Deadlines'[t] = -1
    BY <2>1 DEF Deadlines
  <2>5. Installed(t)' <=> Installed(t)
    BY <2>2 DEF Installed
  <2>6. CASE Installed(t)
    BY <2>1, <2>3, <2>4, <2>5, <2>6, OneTask DEF Abs!Install, Abs!Never, InstalledTasks
  <2>7. CASE ~Installed(t)
    <3>1. ~(Cardinality(InstalledTasks) < NumDescs)
      BY <1>1, <2>7, FullTable
    <3>2. t \notin InstalledTasks
      BY <2>7 DEF InstalledTasks
    <3>3. InstalledTasks' = InstalledTasks /\ Deadlines' = [Deadlines EXCEPT ![t] = -1]
      <4>1. /\ Deadlines' = [Deadlines EXCEPT ![t] = Deadlines'[t]]
            /\ InstalledTasks' = IF Installed(t)' THEN InstalledTasks \cup {t}
                                                  ELSE InstalledTasks \ {t}
        BY <2>3, OneTask
      <4> QED BY <2>4, <2>5, <2>7, <3>2, <4>1
    <3> QED BY <2>1, <3>1, <3>2, <3>3, SameCount DEF Abs!Install, Abs!Never
  <2> QED BY <2>6, <2>7
<1>2. CASE FreeSlots # {} /\ ~Installed(t)
  <2> DEFINE i == First(FreeSlots)
  <2>1. i \in Slots /\ ~desc[i].in_use
    BY <1>2, FoundSlots DEF FreeSlots
  <2>2. desc' = [desc EXCEPT ![i] = [desc[i] EXCEPT !.task = t, !.in_use = TRUE]]
    BY <1>2 DEF InsTime, alloc_desc
  <2>3. desc'[i].task = t /\ desc'[i].in_use /\ \A j \in Slots \ {i} : desc'[j] = desc[j]
    BY <2>1, <2>2
  <2>4. \A u \in Tasks \ {t} : SlotsOf(u)' = SlotsOf(u)
    BY <2>1, <2>3 DEF SlotsOf
  <2>5. \A u \in Tasks \ {t} : \A j \in SlotsOf(u) : desc'[j].wakeup = desc[j].wakeup
    BY <2>1, <2>3 DEF SlotsOf
  <2>6. active' = active \ {t} /\ clock' = clock
    BY DEF InsTime
  <2>7. \A u \in Tasks \ {t} : (Installed(u)' <=> Installed(u)) /\ Deadlines'[u] = Deadlines[u]
    BY <2>4, <2>5, <2>6, Frame
  <2>8. Installed(t)' /\ Deadlines'[t] = -1
    BY <2>1, <2>3, <2>6 DEF Installed, SlotsOf, Deadlines
  <2>9. Cardinality(InstalledTasks) < NumDescs
    BY <1>2, FullTable
  <2> QED BY <2>6, <2>7, <2>8, <2>9, SameCount, OneTask DEF Abs!Install, Abs!Never
<1> QED BY <1>1, <1>2

\* RmvTime removes the task and no other.
LEMMA RemoveRefines ==
  ASSUME TypeOK, UniqueDesc, NEW t \in Tasks, RmvTime(t)
  PROVE  Abs!Remove(t)
<1> USE DEF TypeOK
<1> DEFINE i == find_desc(t)
<1>1. i \in Slots /\ desc[i].in_use /\ desc[i].task = t
  BY FoundSlots DEF RmvTime, SlotsOf
<1>2. desc' = [desc EXCEPT ![i].in_use = FALSE] /\ active' = active \ {t} /\ clock' = clock
  BY DEF RmvTime, free_desc
<1>3. \A u \in Tasks \ {t} : SlotsOf(u)' = SlotsOf(u)
  BY <1>1, <1>2 DEF SlotsOf
<1>4. \A j \in Slots : desc'[j].wakeup = desc[j].wakeup
  BY <1>1, <1>2
<1>5. \A u \in Tasks \ {t} : (Installed(u)' <=> Installed(u)) /\ Deadlines'[u] = Deadlines[u]
  BY <1>2, <1>3, <1>4, Frame DEF SlotsOf
<1>6. SlotsOf(t) = {i}
  BY <1>1 DEF SlotsOf, UniqueDesc
<1>7. \A j \in Slots : desc'[j].in_use => desc[j].in_use /\ j # i /\ desc'[j].task = desc[j].task
  BY <1>1, <1>2
<1>8. SlotsOf(t)' = {}
  BY <1>6, <1>7 DEF SlotsOf
<1>9. ~Installed(t)' /\ Deadlines'[t] = -1
  BY <1>8 DEF Installed, Deadlines
<1> QED BY <1>2, <1>5, <1>9, OneTask DEF Abs!Remove, Abs!Never

\* PrimeTime sets the deadline of its task and no other.
LEMMA PrimeRefines ==
  ASSUME TypeOK, UniqueDesc, NEW t \in Tasks, NEW d \in Delays, PrimeTime(t, d)
  PROVE  \E w \in 0 .. MaxWakeup : Abs!Prime(t, w)
<1> USE TimeManagerAssumption DEF TypeOK
<1> DEFINE i == find_desc(t)
           w == PrimedWakeup(t, d)
<1>1. i \in Slots /\ desc[i].in_use /\ desc[i].task = t /\ Installed(t)
  BY FoundSlots DEF PrimeTime, SlotsOf
<1>2. w \in 0 .. MaxWakeup
  BY <1>1 DEF PrimedWakeup, Wakeup, PrimeTime
<1>3. desc' = [desc EXCEPT ![i].wakeup = w] /\ active' = active \cup {t} /\ clock' = clock
  BY DEF PrimeTime
<1>4. \A u \in Tasks : SlotsOf(u)' = SlotsOf(u)
  BY <1>1, <1>3 DEF SlotsOf
<1>5. \A j \in Slots \ {i} : desc'[j].wakeup = desc[j].wakeup
  BY <1>1, <1>3
<1>6. \A u \in Tasks \ {t} : \A j \in SlotsOf(u) : desc'[j].wakeup = desc[j].wakeup
  BY <1>1, <1>5 DEF SlotsOf
<1>7. \A u \in Tasks \ {t} : (Installed(u)' <=> Installed(u)) /\ Deadlines'[u] = Deadlines[u]
  BY <1>3, <1>4, <1>6, Frame
<1>8. find_desc(t)' = i /\ Installed(t)'
  BY <1>1, <1>4 DEF find_desc, Installed
<1>9. desc'[i].wakeup = w
  BY <1>1, <1>3
<1>10. Deadlines'[t] = w
  BY <1>3, <1>8, <1>9 DEF Deadlines, Wakeup
<1>11. Abs!Prime(t, w)
  BY <1>1, <1>3, <1>7, <1>8, <1>10, OneTask DEF Abs!Prime, InstalledTasks
<1> QED BY <1>2, <1>11
\* The scan disarms a task only once its deadline has passed.
LEMMA ScanRefines ==
  ASSUME TypeOK, UniqueDesc, ScanSlot
  PROVE  (\E t \in Tasks : Abs!Expire(t)) \/ UNCHANGED Abs!vars
<1> USE DEF TypeOK
<1>1. \A u \in Tasks : SlotsOf(u)' = SlotsOf(u)
  BY DEF ScanSlot, SlotsOf
<1>2. desc' = desc /\ clock' = clock
  BY DEF ScanSlot
<1>3. CASE Due(pass.i)
  <2>1. pass.i \in Slots /\ desc[pass.i].task \in Tasks /\ desc[pass.i].task \in active
    BY <1>3 DEF Due, ScanSlot
  <2> PICK t \in Tasks : t = desc[pass.i].task
    BY <2>1
  <2>2. Installed(t) /\ find_desc(t) = pass.i
    BY <1>3, <2>1, FindIsUnique DEF Due
  <2>3. Deadlines[t] = desc[pass.i].wakeup /\ Deadlines[t] \in Nat /\ Deadlines[t] < clock
    BY <1>3, <2>1, <2>2 DEF Deadlines, Wakeup, Due
  <2>4. active' = active \ {t}
    BY <1>3 DEF ScanSlot
  <2>5. \A u \in Tasks \ {t} : (Installed(u)' <=> Installed(u)) /\ Deadlines'[u] = Deadlines[u]
    BY <1>1, <1>2, <2>4, Frame
  <2>6. Installed(t)' /\ Deadlines'[t] = -1
    BY <1>1, <2>1, <2>2, <2>4 DEF Installed, Deadlines
  <2>7. InstalledTasks' = InstalledTasks /\ Deadlines' = [Deadlines EXCEPT ![t] = -1]
    <3>1. t \in InstalledTasks
      BY <2>1, <2>2 DEF InstalledTasks
    <3>2. /\ Deadlines' = [Deadlines EXCEPT ![t] = Deadlines'[t]]
          /\ InstalledTasks' = IF Installed(t)' THEN InstalledTasks \cup {t}
                                                ELSE InstalledTasks \ {t}
      BY <2>1, <2>5, OneTask
    <3> QED BY <2>6, <3>1, <3>2
  <2>8. Abs!Expire(t)
    BY <1>2, <2>3, <2>7 DEF Abs!Expire, Abs!Never
  <2> QED BY <2>1, <2>8
<1>4. CASE ~Due(pass.i)
  BY <1>1, <1>2, <1>4
     DEF ScanSlot, Abs!vars, InstalledTasks, Deadlines, Installed, find_desc, Wakeup, SlotsOf
<1> QED BY <1>3, <1>4

\* A reset removes every task.
LEMMA ResetRefines ==
  ASSUME TypeOK, TimerReset
  PROVE  Abs!Reset
<1>1. \A i \in Slots : ~desc'[i].in_use
  BY DEF TimerReset, TypeOK
<1>2. \A t \in Tasks : ~Installed(t)'
  BY <1>1 DEF Installed, SlotsOf
<1> QED BY <1>2 DEF Abs!Reset, Abs!Never, InstalledTasks, Deadlines, TimerReset

\* A step of the table is a step of the timers, or none.
LEMMA StepRefines ==
  TypeOK /\ UniqueDesc /\ [Next]_vars => [Abs!Next]_(Abs!vars)
<1> SUFFICES ASSUME TypeOK, UniqueDesc, [Next]_vars PROVE [Abs!Next]_(Abs!vars)
  OBVIOUS
<1>1. ASSUME NEW t \in Tasks, NEW x \in BOOLEAN, InsTime(t, x) PROVE Abs!Next
  BY <1>1, InstallRefines DEF Abs!Next
<1>2. ASSUME NEW t \in Tasks, RmvTime(t) PROVE Abs!Next
  BY <1>2, RemoveRefines DEF Abs!Next
<1>3. ASSUME NEW t \in Tasks, NEW d \in Delays, PrimeTime(t, d) PROVE Abs!Next
  BY <1>3, PrimeRefines DEF Abs!Next
<1>4. CASE TimerReset
  BY <1>4, ResetRefines DEF Abs!Next
<1>5. CASE ScanSlot
  BY <1>5, ScanRefines DEF Abs!Next
<1>6. ASSUME UNCHANGED <<desc, active>>
      PROVE  UNCHANGED <<InstalledTasks, Deadlines>>
  BY <1>6 DEF InstalledTasks, Deadlines, Installed, find_desc, Wakeup, SlotsOf
<1>7. CASE Tick
  BY <1>6, <1>7 DEF Tick, Abs!Next, Abs!Tick
<1>8. CASE UNCHANGED <<desc, active, clock>>
  BY <1>6, <1>8 DEF Abs!vars
<1> QED
  BY <1>1, <1>2, <1>3, <1>4, <1>5, <1>7, <1>8
     DEF Next, Program, ClearWakeUp, TimerInterrupt, HandlerReturns, vars

\* The table of descriptors implements one independent deadline per task: no
\* operation on a task, reuse of a slot or re-entrant handler disturbs another
\* task's timer, an installation fails only when the table is full, and a
\* handler is called only for a task whose deadline has passed.
THEOREM Refinement == Spec => ImplementsTimers
<1>1. Init => Abs!Init
  <2> SUFFICES ASSUME Init PROVE Abs!Init
    OBVIOUS
  <2>1. \A t \in Tasks : ~Installed(t)
    BY DEF Init, Installed, SlotsOf
  <2> QED BY <2>1 DEF Init, Abs!Init, Abs!Never, InstalledTasks, Deadlines
<1>2. Spec => [](TypeOK /\ UniqueDesc)
  BY TypeCorrect, UniqueDescriptors, PTL
<1> QED BY <1>1, <1>2, StepRefines, PTL DEF Spec, ImplementsTimers, Abs!Spec
-----------------------------------------------------------------------------
\* The histories restrict the Time Manager and do not change it.
LEMMA HistoryAndTable == [HNext]_hvars => [Next]_vars
BY DEF HNext, HInsTime, HPrimeTime, HScanSlot, HTimerInterrupt, Next, Program, hvars, vars

\* The slot of a task that runs, or that PrimeTime would count from, has the task's own
\* schedule in it.
ScheduleKept ==
  /\ due \in [Tasks -> Nat]
  /\ \A i \in Slots : desc[i].in_use /\ desc[i].task \in active \cup tmWakeUp =>
       desc[i].wakeup = due[desc[i].task]

\* A plain task that a pass has called and that runs again is due after the pass began.
CalledIsLater ==
  \A i \in Slots : /\ pass.pc # "idle"
                   /\ desc[i].in_use /\ desc[i].task \in (called \ extended) \cap active
    => pass.now <= desc[i].wakeup

HistoryInv == TypeOK /\ UniqueDesc /\ CalledIsLater /\ (Disciplined => ScheduleKept)

\* What PrimeTime does to the one slot that holds the task.
LEMMA PrimedSlot ==
  ASSUME TypeOK, UniqueDesc, NEW t \in Tasks, NEW d \in Delays, PrimeTime(t, d)
  PROVE  /\ find_desc(t) \in Slots /\ desc[find_desc(t)].in_use
         /\ desc[find_desc(t)].task = t
         /\ PrimedWakeup(t, d) \in Nat
         /\ \A i \in Slots :
              /\ desc'[i].in_use = desc[i].in_use /\ desc'[i].task = desc[i].task
              /\ desc[i].in_use /\ desc[i].task = t => desc'[i].wakeup = PrimedWakeup(t, d)
              /\ ~(desc[i].in_use /\ desc[i].task = t) => desc'[i].wakeup = desc[i].wakeup
<1>1. /\ find_desc(t) \in Slots /\ desc[find_desc(t)].in_use
      /\ desc[find_desc(t)].task = t
  BY FoundSlots DEF PrimeTime, SlotsOf
<1>2. PrimedWakeup(t, d) \in Nat
  BY <1>1, TimeManagerAssumption DEF PrimedWakeup, Wakeup, TypeOK
<1>3. desc' = [desc EXCEPT ![find_desc(t)].wakeup = PrimedWakeup(t, d)]
  BY DEF PrimeTime
<1>4. \A i \in Slots : desc[i].in_use /\ desc[i].task = t => i = find_desc(t)
  BY <1>1 DEF UniqueDesc
<1> QED BY <1>1, <1>2, <1>3, <1>4 DEF TypeOK

\* A new slot for a task leaves the others as they are.
LEMMA InsertedSlot ==
  ASSUME TypeOK, NEW t \in Tasks, NEW x \in BOOLEAN, InsTime(t, x)
  PROVE  \A i \in Slots : desc'[i].in_use =>
           \/ desc'[i] = desc[i]
           \/ desc'[i].task = t /\ ~Installed(t)
<1>1. CASE FreeSlots = {} \/ Installed(t)
  BY <1>1 DEF InsTime, alloc_desc
<1>2. CASE FreeSlots # {} /\ ~Installed(t)
  <2>1. First(FreeSlots) \in Slots
    BY <1>2, FoundSlots DEF FreeSlots
  <2>2. desc' = [desc EXCEPT ![First(FreeSlots)] =
                   [desc[First(FreeSlots)] EXCEPT !.task = t, !.in_use = TRUE]]
    BY <1>2 DEF InsTime, alloc_desc
  <2> QED BY <1>2, <2>1, <2>2 DEF TypeOK
<1> QED BY <1>1, <1>2

\* Every step keeps the schedules of the tasks, if the program clears tmWakeUp first.
LEMMA ScheduleStep ==
  ASSUME TypeOK, UniqueDesc, Disciplined, ScheduleKept, [HNext]_hvars
  PROVE  ScheduleKept'
<1>1. ASSUME NEW t \in Tasks, NEW x \in BOOLEAN, HInsTime(t, x) PROVE ScheduleKept'
  <2>1. /\ InsTime(t, x) /\ due' = due /\ active' = active \ {t} /\ tmWakeUp' = tmWakeUp
        /\ ~Installed(t) => t \notin tmWakeUp
    BY <1>1 DEF HInsTime, InsTime
  <2> QED BY <2>1, InsertedSlot DEF ScheduleKept
<1>2. ASSUME NEW t \in Tasks, RmvTime(t), UNCHANGED due PROVE ScheduleKept'
  <2>1. find_desc(t) \in Slots
    BY <1>2, FoundSlots DEF RmvTime, SlotsOf
  <2> QED BY <1>2, <2>1 DEF RmvTime, free_desc, ScheduleKept, TypeOK
<1>3. ASSUME NEW t \in Tasks, NEW d \in Delays, HPrimeTime(t, d) PROVE ScheduleKept'
  <2>1. /\ PrimeTime(t, d) /\ due' = [due EXCEPT ![t] = OwnDue(t, d)]
        /\ active' = active \cup {t} /\ tmWakeUp' \subseteq tmWakeUp \cup {t}
    BY <1>3 DEF HPrimeTime, PrimeTime
  <2>2. PrimedWakeup(t, d) = OwnDue(t, d)
    BY <2>1, PrimedSlot DEF PrimedWakeup, OwnDue, ScheduleKept, Wakeup
  <2> QED BY <2>1, <2>2, PrimedSlot DEF ScheduleKept
<1>4. CASE /\ UNCHANGED due /\ UNCHANGED desc
           /\ active' \subseteq active /\ tmWakeUp' \subseteq tmWakeUp
  BY <1>4 DEF ScheduleKept
<1>5. CASE TimerReset /\ UNCHANGED due
  BY <1>5 DEF TimerReset, ScheduleKept, TypeOK
<1> QED
  BY <1>1, <1>2, <1>3, <1>4, <1>5 DEF HNext, ClearWakeUp, HScanSlot, ScanSlot, HTimerInterrupt,
    TimerInterrupt, HandlerReturns, Tick, hvars

\* The clock is read once for a pass.
LEMMA NextSlotKeepsNow == TypeOK /\ NextSlot.pc # "idle" => NextSlot.now = pass.now
BY DEF TypeOK, NextSlot, NoPass

\* Every step keeps what was called within the pass from being due again in it.
LEMMA CalledStep ==
  ASSUME TypeOK, UniqueDesc, CalledIsLater, [HNext]_hvars
  PROVE  CalledIsLater'
<1>1. ASSUME NEW t \in Tasks, NEW x \in BOOLEAN, HInsTime(t, x) PROVE CalledIsLater'
  <2>1. /\ InsTime(t, x) /\ called' = called /\ active' = active \ {t} /\ pass' = pass
        /\ \A u \in extended : u # t => u \in extended'
    BY <1>1 DEF HInsTime, InsTime
  <2> QED BY <2>1, InsertedSlot DEF CalledIsLater
<1>2. ASSUME NEW t \in Tasks, RmvTime(t), UNCHANGED called PROVE CalledIsLater'
  <2>1. find_desc(t) \in Slots
    BY <1>2, FoundSlots DEF RmvTime, SlotsOf
  <2> QED BY <1>2, <2>1 DEF RmvTime, free_desc, CalledIsLater, TypeOK
<1>3. ASSUME NEW t \in Tasks, NEW d \in Delays, HPrimeTime(t, d) PROVE CalledIsLater'
  <2>1. /\ PrimeTime(t, d) /\ active' = active \cup {t}
        /\ UNCHANGED <<extended, pass, called>>
    BY <1>3 DEF HPrimeTime, PrimeTime
  <2>2. ASSUME t \notin extended PROVE pass.now <= PrimedWakeup(t, d)
    BY <2>2, TimeManagerAssumption DEF PrimedWakeup, TypeOK
  <2> QED BY <2>1, <2>2, PrimedSlot DEF CalledIsLater
<1>4. CASE HScanSlot
  <2>1. /\ desc' = desc /\ extended' = extended
        /\ pass'.pc # "idle" => pass'.now = pass.now /\ pass.pc # "idle"
    <3>1. /\ desc' = desc /\ extended' = extended /\ pass.pc = "scan"
          /\ pass' = [pass EXCEPT !.pc = "call"] \/ pass' = NextSlot
      BY <1>4 DEF HScanSlot, ScanSlot
    <3>2. [pass EXCEPT !.pc = "call"].now = pass.now
      BY DEF TypeOK
    <3> QED BY <3>1, <3>2, NextSlotKeepsNow
  <2>2. /\ active' \subseteq active
        /\ called' = called \/ (called' = called \cup {desc[pass.i].task}
                                /\ desc[pass.i].task \notin active')
    BY <1>4 DEF HScanSlot, ScanSlot
  <2> QED BY <2>1, <2>2 DEF CalledIsLater
<1>5. CASE HTimerInterrupt
  BY <1>5 DEF HTimerInterrupt, TimerInterrupt, CalledIsLater
<1>6. CASE TimerReset /\ UNCHANGED called
  BY <1>6 DEF TimerReset, CalledIsLater, TypeOK
<1>7. CASE HandlerReturns /\ UNCHANGED called
  <2>1. /\ UNCHANGED <<desc, active, extended>>
        /\ pass'.pc # "idle" => pass'.now = pass.now /\ pass.pc # "idle"
    BY <1>7, NextSlotKeepsNow DEF HandlerReturns
  <2> QED BY <1>7, <2>1 DEF CalledIsLater
<1>8. CASE UNCHANGED <<desc, active, extended, pass, called>>
  BY <1>8 DEF CalledIsLater
<1> QED
  BY <1>1, <1>2, <1>3, <1>4, <1>5, <1>6, <1>7, <1>8 DEF HNext, ClearWakeUp, Tick, hvars

\* What is known of the histories is kept by every step,
LEMMA HistoryStep == HistoryInv /\ [HNext]_hvars => HistoryInv'
<1> SUFFICES ASSUME HistoryInv, [HNext]_hvars PROVE HistoryInv'
  OBVIOUS
<1>1. TypeOK' /\ UniqueDesc'
  BY HistoryAndTable, TypeStep, UniqueStep DEF HistoryInv
<1>2. CalledIsLater'
  BY CalledStep DEF HistoryInv
<1>3. Disciplined => ScheduleKept'
  BY ScheduleStep DEF HistoryInv
<1> QED BY <1>1, <1>2, <1>3 DEF HistoryInv

\* ... and holds at first.
LEMMA HistoryInitInv == HInit => HistoryInv
<1> SUFFICES ASSUME HInit PROVE HistoryInv
  OBVIOUS
<1>1. TypeOK /\ UniqueDesc
  BY InitInv DEF HInit
<1>2. CalledIsLater /\ ScheduleKept
  BY <1>1 DEF HInit, Init, CalledIsLater, ScheduleKept
<1> QED BY <1>1, <1>2 DEF HistoryInv

\* A periodic task keeps its own schedule (timer.cpp:256), whatever slots it is moved
\* to, for every program that clears tmWakeUp before it installs a task.
THEOREM SchedulesAreOwn ==
  ASSUME Disciplined
  PROVE  HSpec => []OwnSchedule
<1>1. HistoryInv => OwnSchedule
  BY FoundSlots DEF HistoryInv, ScheduleKept, OwnSchedule, Wakeup, SlotsOf, TypeOK
<1> QED BY HistoryInitInv, HistoryStep, <1>1, PTL DEF HSpec

\* A pass calls a plain task once at most, whatever its handler does to the table.
THEOREM CalledOnce == HSpec => []OncePerPass
<1>1. HistoryInv => OncePerPass
  <2> SUFFICES ASSUME HistoryInv, pass.pc = "scan", Due(pass.i),
                      desc[pass.i].task \notin extended, desc[pass.i].task \in called
               PROVE  FALSE
    BY DEF OncePerPass
  <2>1. /\ pass.i \in Slots /\ pass.now \in Nat /\ desc[pass.i].wakeup \in Nat
        /\ pass.now <= desc[pass.i].wakeup /\ desc[pass.i].wakeup < pass.now
    BY DEF HistoryInv, TypeOK, CalledIsLater, Due
  <2> QED BY <2>1
<1> QED BY HistoryInitInv, HistoryStep, <1>1, PTL DEF HSpec
=============================================================================
