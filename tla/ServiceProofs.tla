---------------------------- MODULE ServiceProofs ----------------------------
(***************************************************************************)
(* Proofs about the task table of Cluster.tla: where a late result can     *)
(* land, what a client is told, and that the server implements             *)
(* TaskService, for any number of workers, clients, slots, tasks and       *)
(* environment events.                                                     *)
(***************************************************************************)
EXTENDS ClusterProofs

(* What a worker keeps while another process takes a step.                  *)
SameLocals(n) ==
  /\ wpc'[n] = wpc[n] /\ wtask'[n] = wtask[n] /\ wslot'[n] = wslot[n]
  /\ wtext'[n] = wtext[n] /\ current_db'[n] = current_db[n]

(* A worker goes on by a step of its own, or stays, or starts afresh.       *)
LEMMA LocalSteps ==
  ASSUME TypeOK, [Next]_vars, NEW n \in Nodes
  PROVE  WorkerStep(n) \/ SameLocals(n) \/ wpc'[n] \in {"idle", "dead"}
<1> USE DEF SameLocals
<1>0. /\ wpc \in [Nodes -> WorkerStates] /\ wtask \in [Nodes -> Task]
      /\ wslot \in [Nodes -> Slots] /\ wtext \in [Nodes -> Text]
      /\ current_db \in [Nodes -> DbName] /\ hb \in Nodes
  BY DEF TypeOK, TypeWorker, TypeMaster
<1>1. ASSUME NEW m \in Nodes, NEW s \in {"idle", "dead"}, ForgetLocals(m, s),
             current_db' = [current_db EXCEPT ![m] = NoDb]
      PROVE  SameLocals(n) \/ wpc'[n] \in {"idle", "dead"}
  BY <1>0, <1>1 DEF ForgetLocals
<1>2. CASE UNCHANGED workerVars
  BY <1>2 DEF workerVars
<1>3. CASE MasterStep
  <2>1. CASE Shutdown
    BY <2>1 DEF Shutdown
  <2>2. CASE HeartbeatRestart
    BY <1>0, <1>1, <2>2 DEF HeartbeatRestart, ForkFails, Spawn, Dies
  <2> QED
    BY <1>2, <1>3, <2>1, <2>2
    DEF MasterStep, Poll, HeartbeatOk, ServeCheck, ServeQuery, AwaitReady,
        FillBuffers, PostTask, BatchServed
<1>4. ASSUME NEW m \in Nodes, WorkerStep(m), m # n PROVE SameLocals(n)
  <2>1. CASE RunStatement(m)
    <3>1. /\ \E s : wpc' = [wpc EXCEPT ![m] = s]
          /\ \E t : wtext' = [wtext EXCEPT ![m] = t]
          /\ \E d : current_db' = [current_db EXCEPT ![m] = d]
          /\ UNCHANGED <<wtask, wslot>>
      BY <2>1, RunFrame
    <3> QED  BY <1>0, <1>4, <3>1
  <2>2. CASE LoadSession(m)
    BY <1>0, <1>4, <2>2 DEF LoadSession, Dies, ForgetLocals
  <2>3. CASE LocateSlot(m)
    BY <1>0, <1>4, <2>3 DEF LocateSlot
  <2>4. CASE PostReady(m) \/ ReadBuffers(m) \/ TakeTask(m)
    BY <1>0, <1>4, <2>4 DEF PostReady, ForgetLocals, ReadBuffers, TakeTask
  <2>5. CASE MarkCompleted(m) \/ StoreBegin(m) \/ StoreEnd(m) \/ WriteBackSession(m)
             \/ UseDone(m) \/ SessionWritten(m) \/ Release(m)
    BY <1>0, <1>4, <2>5
    DEF MarkCompleted, StoreBegin, StoreEnd, StoreText, WriteBackSession, BeginCall,
        UseDone, ResultReady, SessionWritten, Release
  <2> QED  BY <1>4, <2>1, <2>2, <2>3, <2>4, <2>5 DEF WorkerStep
<1>5. CASE \E c \in Clients : ClientStep(c)
  BY <1>2, <1>5, ClientFrame
<1>6. CASE Environment
  BY <1>0, <1>1, <1>2, <1>6
  DEF Environment, WorkerDies, Dies, StopSignal, ReceiveTimesOut
<1>7. CASE UNCHANGED vars
  BY <1>2, <1>7 DEF vars
<1> QED  BY <1>3, <1>4, <1>5, <1>6, <1>7 DEF Next

(* A change of the table: a registration, which takes the slot              *)
(* find_free_slot returns, or the completion of a task by a worker, which   *)
(* writes the status or the text of one slot.                               *)
Registers(i) ==
  /\ i \in Slots /\ IsFreeSlot(tasks, last_overwritten, i)
  /\ tasks' = [tasks EXCEPT ![i] = FreshSlot(taskCount + 1)]
  /\ last_overwritten' = IF Unused(tasks) = {} THEN i ELSE last_overwritten
  /\ taskCount' = taskCount + 1

Completes(n) == MarkCompleted(n) \/ StoreBegin(n) \/ StoreEnd(n)

LEMMA TableSteps ==
  ASSUME TypeOK, [Next]_vars
  PROVE  \/ \E c \in Clients : ServeQuery(c)
         \/ /\ UNCHANGED <<last_overwritten, taskCount>>
            /\ UNCHANGED tasks \/ \E n \in Nodes : Completes(n)
<1>1. CASE MasterStep
  BY <1>1
  DEF MasterStep, Poll, Shutdown, HeartbeatOk, HeartbeatRestart, ServeCheck,
      AwaitReady, FillBuffers, PostTask, BatchServed, tableVars
<1>2. ASSUME NEW n \in Nodes, WorkerStep(n)
      PROVE  /\ UNCHANGED <<last_overwritten, taskCount>>
             /\ UNCHANGED tasks \/ Completes(n)
  BY <1>2, WorkerFrame, RunFrame
  DEF WorkerStep, TakeTask, ReadBuffers, LoadSession, UseDone, LocateSlot,
      WriteBackSession, SessionWritten, Release, PostReady, tableVars, Completes
<1>3. CASE (\E c \in Clients : ClientStep(c)) \/ Environment \/ UNCHANGED vars
  BY <1>3, ClientFrame, EnvironmentFrame DEF vars, tableVars
<1> QED  BY <1>1, <1>2, <1>3 DEF Next

LEMMA CompletesOneSlot ==
  ASSUME TypeOK, NEW n \in Nodes, Completes(n)
  PROVE  /\ \A i \in Slots : tasks'[i].guid = tasks[i].guid
         /\ \A i \in Slots : i # wslot[n] => tasks'[i] = tasks[i]
<1>1. tasks \in [Slots -> Slot] /\ wslot[n] \in Slots
  BY DEF TypeOK, TypeTable, TypeWorker
<1> QED  BY <1>1 DEF Completes, MarkCompleted, StoreBegin, StoreEnd, StoreText, Slot

LEMMA RegistersSlot ==
  ASSUME NEW c \in Clients, ServeQuery(c)
  PROVE  \E i : Registers(i)
  BY DEF ServeQuery, Registers

LEMMA GuidSteps ==
  ASSUME TypeOK, [Next]_vars
  PROVE  \/ \E i : Registers(i)
         \/ /\ UNCHANGED <<last_overwritten, taskCount>>
            /\ \A i \in Slots : tasks'[i].guid = tasks[i].guid
  BY TableSteps, CompletesOneSlot, RegistersSlot

-----------------------------------------------------------------------------
(* The order in which slots are given away.  The table fills from the first *)
(* slot on; then the slots are overwritten in turn, beginning with the      *)
(* second one, so a guid that is about to be overwritten is an old one.     *)
Distinct(tb) ==
  \A i, j \in Slots : tb[i].guid # 0 /\ tb[i].guid = tb[j].guid => i = j

Registered == \A i \in Slots : tasks[i].guid \in 0 .. taskCount

FilledInOrder ==
  taskCount <= NSlots =>
    /\ last_overwritten = 0
    /\ \A i \in Slots : tasks[i].guid = IF i < taskCount THEN i + 1 ELSE 0

(* How many registrations until the slot is overwritten.                    *)
Ahead(i) ==
  IF i > last_overwritten THEN i - last_overwritten
  ELSE i - last_overwritten + NSlots

OverwrittenInTurn ==
  taskCount >= NSlots =>
    \A i \in Slots : /\ tasks[i].guid # 0
                     /\ tasks[i].guid <= taskCount - NSlots + 1 + Ahead(i)

TableInOrder ==
  Distinct(tasks) /\ Registered /\ FilledInOrder /\ OverwrittenInTurn

LEMMA TableInOrderInit == Init => TableInOrder
  BY NSlotsAssumption
  DEF Init, TableInOrder, Distinct, Registered, FilledInOrder, OverwrittenInTurn,
      FreeSlot, Slots

(* The slot of a registration: the next one of a table that is not full,    *)
(* else the one after the slot overwritten last, whose task is an old one.  *)
LEMMA FreeSlotInOrder ==
  ASSUME TypeOK, TableInOrder, NEW i, Registers(i)
  PROVE  /\ taskCount < NSlots => i = taskCount /\ Unused(tasks) # {}
         /\ taskCount >= NSlots => /\ Unused(tasks) = {}
                                   /\ i = NextOverwritten(last_overwritten)
                                   /\ Ahead(i) = 1
<1>1. taskCount \in Nat /\ last_overwritten \in Slots /\ NSlots \in Nat \ {0}
  BY NSlotsAssumption DEF TypeOK, TypeTable
<1>2. CASE taskCount < NSlots
  <2>1. \A j \in Slots : j \in Unused(tasks) <=> j >= taskCount
    BY <1>1, <1>2 DEF TableInOrder, FilledInOrder, Unused, Slots
  <2>2. taskCount \in Unused(tasks)
    BY <1>1, <1>2, <2>1 DEF Slots
  <2>3. i \in Unused(tasks) /\ \A j \in Unused(tasks) : i <= j
    BY <2>2 DEF Registers, IsFreeSlot
  <2>4. i >= taskCount /\ i <= taskCount /\ i \in Slots
    BY <2>1, <2>2, <2>3 DEF Unused
  <2> QED  BY <1>1, <1>2, <2>2, <2>4 DEF Slots
<1>3. CASE taskCount >= NSlots
  <2>1. Unused(tasks) = {}
    BY <1>3 DEF TableInOrder, OverwrittenInTurn, Unused
  <2>2. i = NextOverwritten(last_overwritten)
    BY <2>1 DEF Registers, IsFreeSlot
  <2>3. Ahead(i) = 1
    BY <1>1, <2>2 DEF Ahead, NextOverwritten, Slots
  <2> QED  BY <1>1, <1>3, <2>1, <2>2, <2>3
<1> QED  BY <1>1, <1>2, <1>3

LEMMA TableInOrderStep == TypeOK /\ TableInOrder /\ [Next]_vars => TableInOrder'
<1> SUFFICES ASSUME TypeOK, TableInOrder, [Next]_vars PROVE TableInOrder'
  OBVIOUS
<1>1. /\ taskCount \in Nat /\ last_overwritten \in Slots /\ NSlots \in Nat \ {0}
      /\ tasks \in [Slots -> Slot] /\ \A i \in Slots : tasks[i].guid \in Nat
  BY NSlotsAssumption DEF TypeOK, TypeTable, Slot
<1>2. ASSUME NEW i, Registers(i) PROVE TableInOrder'
  <2>1. /\ i \in Slots /\ taskCount' = taskCount + 1
        /\ \A j \in Slots : tasks'[j].guid = IF j = i THEN taskCount + 1
                                             ELSE tasks[j].guid
    BY <1>1, <1>2 DEF Registers, FreshSlot
  <2>2. /\ taskCount < NSlots =>
             i = taskCount /\ last_overwritten' = last_overwritten
        /\ taskCount >= NSlots =>
             /\ i = NextOverwritten(last_overwritten) /\ last_overwritten' = i
             /\ Ahead(i) = 1
    BY <1>2, FreeSlotInOrder DEF Registers
  <2>3. Distinct(tasks)'
    BY <1>1, <2>1 DEF TableInOrder, Distinct, Registered
  <2>4. Registered'
    BY <1>1, <2>1 DEF TableInOrder, Registered
  <2>5. FilledInOrder'
    <3>1. CASE taskCount < NSlots
      BY <1>1, <2>1, <2>2, <3>1 DEF TableInOrder, FilledInOrder, Slots
    <3>2. CASE taskCount >= NSlots
      BY <1>1, <2>1, <3>2 DEF FilledInOrder
    <3> QED  BY <1>1, <3>1, <3>2
  <2>6. OverwrittenInTurn'
    <3>1. CASE taskCount < NSlots
      <4>1. CASE taskCount' >= NSlots
        <5>1. taskCount' = NSlots /\ last_overwritten' = 0
          BY <1>1, <2>1, <2>2, <3>1, <4>1 DEF TableInOrder, FilledInOrder
        <5>2. \A j \in Slots : tasks'[j].guid = j + 1
          BY <1>1, <2>5, <5>1 DEF FilledInOrder, Slots
        <5> QED  BY <1>1, <5>1, <5>2 DEF OverwrittenInTurn, Ahead, Slots
      <4> QED  BY <4>1 DEF OverwrittenInTurn
    <3>2. CASE taskCount >= NSlots
      <4> SUFFICES ASSUME NEW j \in Slots
                   PROVE  /\ tasks'[j].guid # 0
                          /\ tasks'[j].guid <= taskCount' - NSlots + 1 + Ahead(j)'
        BY DEF OverwrittenInTurn
      <4>1. /\ tasks[j].guid # 0
            /\ tasks[j].guid <= taskCount - NSlots + 1 + Ahead(j)
        BY <3>2 DEF TableInOrder, OverwrittenInTurn
      <4>2. CASE j = i
        <5>1. Ahead(j)' = NSlots
          BY <1>1, <2>1, <2>2, <3>2, <4>2 DEF Ahead, Slots
        <5> QED  BY <1>1, <2>1, <4>2, <5>1
      <4>3. CASE j # i
        <5>1. Ahead(j)' = Ahead(j) - 1
          BY <1>1, <2>1, <2>2, <3>2, <4>3 DEF Ahead, NextOverwritten, Slots
        <5>2. Ahead(j) \in Int
          BY <1>1 DEF Ahead, Slots
        <5> QED  BY <1>1, <2>1, <4>1, <4>3, <5>1, <5>2
      <4> QED  BY <4>2, <4>3
    <3> QED  BY <1>1, <3>1, <3>2
  <2> QED  BY <2>3, <2>4, <2>5, <2>6 DEF TableInOrder
<1>3. ASSUME UNCHANGED <<last_overwritten, taskCount>>,
             \A i \in Slots : tasks'[i].guid = tasks[i].guid
      PROVE  TableInOrder'
  BY <1>3
  DEF TableInOrder, Distinct, Registered, FilledInOrder, OverwrittenInTurn, Ahead
<1> QED  BY <1>2, <1>3, GuidSteps

-----------------------------------------------------------------------------
(* Executing a statement.  It is counted once, and a worker past it has it  *)
(* counted.                                                                 *)
LEMMA OnceInvStep == OnceInv /\ [Next]_vars => OnceInv'
  BY IntactInvStep, OnceStep DEF OnceInv

LEMMA OnceTypes ==
  ASSUME OnceInv
  PROVE  /\ TypeOK /\ taskCount \in Nat /\ taskCount <= MaxTasks /\ MaxTasks \in Nat
         /\ runs \in [1 .. MaxTasks -> Nat] /\ wtask \in [Nodes -> Task]
         /\ \A n \in Nodes : Holds(n) /\ wpc[n] # "taken" =>
              wtask[n].guid \in 1 .. taskCount
  BY TasksInBound, MaxTasksAssumption
  DEF OnceInv, IntactInv, HandshakeInv, TypeOK, TypeSession, TypeWorker, TaskIntact,
      Intact

Runs(n) ==
  /\ RunStatement(n) /\ wtask[n].guid \in 1 .. taskCount
  /\ runs[wtask[n].guid] = 0
  /\ runs' = [runs EXCEPT ![wtask[n].guid] = 1]

LEMMA RunsOnce ==
  ASSUME OnceInv, NEW n \in Nodes, RunStatement(n)
  PROVE  Runs(n)
<1>1. wpc[n] = "run" /\ runs' = [runs EXCEPT ![wtask[n].guid] = runs[wtask[n].guid] + 1]
  BY RunFrame
<1>2. wtask[n].guid \in 1 .. taskCount /\ Carries(n, wtask[n].guid)
  BY <1>1, OnceTypes DEF Carries, Holds
<1>3. runs[wtask[n].guid] = 0
  BY <1>2 DEF OnceInv, CarriedOnce
<1> QED  BY <1>1, <1>2, <1>3 DEF Runs

LEMMA RunsSteps ==
  ASSUME OnceInv, [Next]_vars
  PROVE  UNCHANGED runs \/ \E n \in Nodes : Runs(n)
<1>1. UNCHANGED runs \/ \E n \in Nodes : RunStatement(n)
  BY MasterFrame, ClientFrame, EnvironmentFrame
  DEF Next, vars, sessionVars, WorkerStep, TakeTask, ReadBuffers, LoadSession, UseDone,
      LocateSlot, MarkCompleted, StoreBegin, StoreEnd, StoreText, WriteBackSession,
      SessionWritten, Release, PostReady
<1> QED  BY <1>1, RunsOnce

(* What was executed once stays executed once.                              *)
LEMMA RunsStable ==
  ASSUME OnceInv, [Next]_vars, NEW g \in 1 .. taskCount, runs[g] = 1
  PROVE  runs'[g] = 1 /\ g \in 1 .. taskCount'
<1>1. runs'[g] = 1
  BY RunsSteps, OnceTypes DEF Runs
<1>2. taskCount' = taskCount \/ taskCount' = taskCount + 1
  BY GuidSteps, OnceTypes DEF Registers
<1> QED  BY <1>1, <1>2, OnceTypes

Past(n) ==
  wpc[n] \in {"set", "locate", "mark", "store", "flush", "writeback", "rewrite",
             "release", "post"}

Executed == \A n \in Nodes : Past(n) => runs[wtask[n].guid] = 1

LEMMA ExecutedStep == OnceInv /\ Executed /\ [Next]_vars => Executed'
<1> SUFFICES ASSUME OnceInv, Executed, [Next]_vars, NEW n \in Nodes, Past(n)'
             PROVE  runs'[wtask'[n].guid] = 1
  BY DEF Executed
<1>1. TypeOK /\ wpc \in [Nodes -> WorkerStates]
  BY OnceTypes DEF TypeOK, TypeWorker
<1>2. ASSUME Past(n), wtask'[n] = wtask[n] PROVE runs'[wtask'[n].guid] = 1
  <2>1. wtask[n].guid \in 1 .. taskCount /\ runs[wtask[n].guid] = 1
    BY <1>2, OnceTypes DEF Past, Holds, Executed
  <2> QED  BY <1>2, <2>1, RunsStable
<1>3. CASE WorkerStep(n)
  <2>1. CASE RunStatement(n)
    <3>1. Runs(n) /\ wtask' = wtask
      BY <2>1, RunsOnce, RunFrame
    <3> QED  BY <3>1, OnceTypes DEF Runs
  <2>2. CASE TakeTask(n) \/ ReadBuffers(n) \/ LoadSession(n) \/ PostReady(n)
    BY <1>1, <2>2
    DEF TakeTask, ReadBuffers, LoadSession, Dies, PostReady, ForgetLocals, Past
  <2>3. CASE \/ UseDone(n) \/ LocateSlot(n) \/ Completes(n) \/ WriteBackSession(n)
             \/ SessionWritten(n) \/ Release(n)
    <3>1. Past(n) /\ wtask' = wtask
      BY <2>3
      DEF UseDone, LocateSlot, Completes, MarkCompleted, StoreBegin, StoreEnd,
          StoreText, WriteBackSession, SessionWritten, Release, Past
    <3> QED  BY <1>2, <3>1
  <2> QED  BY <1>3, <2>1, <2>2, <2>3 DEF WorkerStep, Completes
<1>4. CASE SameLocals(n)
  BY <1>2, <1>4 DEF SameLocals, Past
<1>5. CASE wpc'[n] \in {"idle", "dead"}
  BY <1>5 DEF Past
<1> QED  BY <1>1, <1>3, <1>4, <1>5, LocalSteps

-----------------------------------------------------------------------------
(* Late results.  A slot that a worker has found holds its task until it is *)
(* overwritten; by then NSlots - 1 later tasks have been registered.        *)
Writing(n) == wpc[n] \in {"mark", "store", "flush"}

Late(n) == taskCount > NSlots /\ taskCount - wtask[n].guid >= NSlots - 1

InOwnSlot ==
  \A n \in Nodes : Writing(n) =>
    /\ tasks[wslot[n]].guid # 0
    /\ tasks[wslot[n]].guid = wtask[n].guid \/ Late(n)

TableInv == OnceInv /\ Executed /\ TableInOrder /\ InOwnSlot

LEMMA InOwnSlotStep == TableInv /\ [Next]_vars => InOwnSlot'
<1> SUFFICES ASSUME TableInv, [Next]_vars, NEW n \in Nodes, Writing(n)'
             PROVE  /\ tasks'[wslot'[n]].guid # 0
                    /\ tasks'[wslot'[n]].guid = wtask'[n].guid \/ Late(n)'
  BY DEF InOwnSlot
<1>1. /\ OnceInv /\ TypeOK /\ TableInOrder /\ wpc \in [Nodes -> WorkerStates]
      /\ taskCount \in Nat /\ wtask[n].guid \in Nat /\ wslot[n] \in Slots
      /\ NSlots \in Nat \ {0} /\ tasks \in [Slots -> Slot]
      /\ wslot \in [Nodes -> Slots] /\ \A i \in Slots : tasks[i].guid \in Nat
  BY OnceTypes, NSlotsAssumption DEF TableInv, TypeOK, TypeTable, TypeWorker, Task, Slot
<1>2. Writing(n) => /\ tasks[wslot[n]].guid # 0
                    /\ tasks[wslot[n]].guid = wtask[n].guid \/ Late(n)
  BY DEF TableInv, InOwnSlot
<1>3. CASE WorkerStep(n)
  <2>1. CASE LocateSlot(n)
    <3>1. wpc[n] = "locate" /\ UNCHANGED <<tasks, wtask>>
      BY <2>1 DEF LocateSlot, tableVars
    <3>2. PICK i \in Found(n) : wslot' = [wslot EXCEPT ![n] = i]
      BY <1>1, <2>1 DEF LocateSlot, Writing
    <3>3. wtask[n].guid \in 1 .. taskCount
      BY <1>1, <3>1, OnceTypes DEF Holds
    <3> QED  BY <1>1, <3>1, <3>2, <3>3 DEF Found, Holding
  <2>2. CASE Completes(n)
    <3>1. /\ Writing(n) /\ UNCHANGED <<wtask, wslot, taskCount>>
      BY <2>2
      DEF Completes, MarkCompleted, StoreBegin, StoreEnd, StoreText, Writing
    <3>2. tasks'[wslot[n]].guid = tasks[wslot[n]].guid
      BY <1>1, <2>2, CompletesOneSlot
    <3> QED  BY <1>2, <3>1, <3>2 DEF Late
  <2>3. CASE ~LocateSlot(n) /\ ~Completes(n)
    BY <1>1, <1>3, <2>3, RunFrame
    DEF WorkerStep, Completes, TakeTask, ReadBuffers, LoadSession, Dies, UseDone,
        ResultReady, WriteBackSession, BeginCall, SessionWritten, Release, PostReady,
        ForgetLocals, Writing
  <2> QED  BY <2>1, <2>2, <2>3
<1>4. CASE SameLocals(n)
  <2>1. Writing(n) /\ wslot'[n] = wslot[n] /\ wtask'[n] = wtask[n]
    BY <1>4 DEF SameLocals, Writing
  <2>2. ASSUME NEW i, Registers(i)
        PROVE  /\ tasks'[wslot[n]].guid # 0
               /\ tasks'[wslot[n]].guid = wtask[n].guid \/ Late(n)'
    <3>1. /\ taskCount' = taskCount + 1 /\ i \in Slots
          /\ \A j \in Slots : tasks'[j].guid = IF j = i THEN taskCount + 1
                                               ELSE tasks[j].guid
      BY <1>1, <2>2 DEF Registers, FreshSlot
    <3>2. Late(n) => Late(n)'
      BY <1>1, <2>1, <3>1 DEF Late
    <3>3. CASE wslot[n] # i
      BY <1>1, <1>2, <2>1, <3>1, <3>2, <3>3
    <3>4. CASE wslot[n] = i
      <4>1. taskCount >= NSlots /\ Ahead(i) = 1
        BY <1>1, <1>2, <2>1, <2>2, <3>4, FreeSlotInOrder
        DEF TableInOrder, FilledInOrder, Slots
      <4>2. tasks[i].guid <= taskCount - NSlots + 2
        BY <1>1, <3>1, <4>1 DEF TableInOrder, OverwrittenInTurn
      <4>3. tasks[i].guid = wtask[n].guid => Late(n)'
        BY <1>1, <2>1, <3>1, <4>1, <4>2 DEF Late
      <4> QED  BY <1>1, <1>2, <2>1, <3>1, <3>2, <3>4, <4>3
    <3> QED  BY <3>3, <3>4
  <2>3. ASSUME UNCHANGED taskCount, \A i \in Slots : tasks'[i].guid = tasks[i].guid
        PROVE  /\ tasks'[wslot[n]].guid # 0
               /\ tasks'[wslot[n]].guid = wtask[n].guid \/ Late(n)'
    BY <1>1, <1>2, <2>1, <2>3 DEF Late
  <2> QED  BY <1>1, <2>1, <2>2, <2>3, GuidSteps
<1>5. CASE wpc'[n] \in {"idle", "dead"}
  BY <1>5 DEF Writing
<1> QED  BY <1>1, <1>3, <1>4, <1>5, LocalSteps

LEMMA TableInvInit == Init => TableInv
<1> SUFFICES ASSUME Init PROVE TableInv
  OBVIOUS
<1>1. Executed /\ InOwnSlot
  BY DEF Init, Executed, Past, InOwnSlot, Writing
<1> QED  BY <1>1, OnceInit, TableInOrderInit DEF TableInv

LEMMA TableInvStep == TableInv /\ [Next]_vars => TableInv'
<1>1. TableInv => TypeOK
  BY OnceTypes DEF TableInv
<1> QED
  BY <1>1, OnceInvStep, ExecutedStep, TableInOrderStep, InOwnSlotStep DEF TableInv

(* A result is written into the slot of another task only if NSlots - 1     *)
(* tasks were registered since the one it is of.                            *)
THEOREM LateWriteCorrect == Spec => []LateWrite
<1>1. TableInv => LateWrite
  BY DEF TableInv, InOwnSlot, LateWrite, Writing, Late
<1> QED  BY <1>1, TableInvInit, TableInvStep, PTL DEF Spec

-----------------------------------------------------------------------------
(* What a client is told.  While no slot has been overwritten, a slot holds *)
(* the result of its own task, and a result only once the task was executed.*)
ResultOwn(t) ==
  /\ t.guid # 0 /\ (t.status = "COMPLETED" \/ t.data.kind # "none") => runs[t.guid] = 1
  /\ t.data.kind \in {"none", "torn", "whole"}
  /\ t.data.kind = "whole" => t.data.task = t.guid

ResultsOwn == taskCount <= NSlots => \A i \in Slots : ResultOwn(tasks[i])

(* The text a worker is about to store is the result of its task.           *)
TextOwn ==
  \A n \in Nodes : wpc[n] \in {"set", "locate"} \/ Writing(n) =>
    wtext[n].kind = "whole" /\ wtext[n].task = wtask[n].guid

(* A client whose receive failed has the empty string.                      *)
GaveUpEmpty ==
  \A c \in Clients : gaveUp[c] =>
    cstate[c] \in {"sent", "taken", "checking"} /\ answer[c].kind = "empty"

(* A client that polls knows the guid of its task.                          *)
KnowsGuid ==
  \A c \in Clients :
    /\ cguid[c] \in 0 .. taskCount
    /\ cstate[c] \in {"taken", "polling", "checking"} => cguid[c] # 0

AnswerInv ==
  TableInv /\ ResultsOwn /\ TextOwn /\ GaveUpEmpty /\ KnowsGuid /\ AnswerIsOwn

LEMMA AnswerInit == Init => AnswerInv
<1> SUFFICES ASSUME Init PROVE AnswerInv
  OBVIOUS
<1>1. ResultsOwn /\ TextOwn /\ GaveUpEmpty /\ KnowsGuid /\ AnswerIsOwn
  BY DEF Init, ResultsOwn, ResultOwn, FreeSlot, Plain, TextOwn, Writing, GaveUpEmpty,
         KnowsGuid, AnswerIsOwn
<1> QED  BY <1>1, TableInvInit DEF AnswerInv

LEMMA TableTypes ==
  ASSUME TableInv
  PROVE  /\ OnceInv /\ TypeOK /\ TableInOrder /\ taskCount \in Nat
         /\ NSlots \in Nat \ {0} /\ tasks \in [Slots -> Slot]
         /\ wtask \in [Nodes -> Task] /\ wpc \in [Nodes -> WorkerStates]
         /\ wtext \in [Nodes -> Text] /\ wslot \in [Nodes -> Slots]
         /\ \A i \in Slots : tasks[i].guid \in 0 .. taskCount
  BY OnceTypes, NSlotsAssumption
  DEF TableInv, TypeOK, TypeTable, TypeWorker, TableInOrder, Registered

LEMMA TextOwnStep == TableInv /\ TextOwn /\ [Next]_vars => TextOwn'
<1> DEFINE Has(n) == wpc[n] \in {"set", "locate"} \/ Writing(n)
<1> SUFFICES ASSUME TableInv, TextOwn, [Next]_vars, NEW n \in Nodes, Has(n)'
             PROVE  wtext'[n].kind = "whole" /\ wtext'[n].task = wtask'[n].guid
  BY DEF TextOwn
<1> USE DEF Writing
<1>1. ASSUME Has(n), wtext'[n] = wtext[n], wtask'[n] = wtask[n]
      PROVE  wtext'[n].kind = "whole" /\ wtext'[n].task = wtask'[n].guid
  BY <1>1 DEF TextOwn
<1>2. CASE WorkerStep(n)
  <2>1. CASE RunStatement(n)
    <3>1. wtask' = wtask /\ \E d : wtext' = [wtext EXCEPT ![n] = Whole(wtask[n].guid, d)]
      BY <2>1, RunFrame
    <3> QED  BY <3>1, TableTypes DEF Whole
  <2>2. CASE LocateSlot(n) \/ Completes(n)
    BY <1>1, <2>2
    DEF LocateSlot, Completes, MarkCompleted, StoreBegin, StoreEnd, StoreText
  <2>3. CASE UseDone(n)
    BY <1>1, <2>3 DEF UseDone
  <2>4. CASE ~RunStatement(n) /\ ~LocateSlot(n) /\ ~Completes(n) /\ ~UseDone(n)
    BY <1>2, <2>4, TableTypes
    DEF WorkerStep, Completes, TakeTask, ReadBuffers, LoadSession, Dies,
        WriteBackSession, BeginCall, SessionWritten, Release, PostReady, ForgetLocals
  <2> QED  BY <2>1, <2>2, <2>3, <2>4
<1>3. CASE SameLocals(n)
  BY <1>1, <1>3 DEF SameLocals
<1>4. CASE wpc'[n] \in {"idle", "dead"}
  BY <1>4
<1> QED  BY <1>2, <1>3, <1>4, LocalSteps, TableTypes

LEMMA ResultsOwnStep ==
  TableInv /\ TextOwn /\ ResultsOwn /\ [Next]_vars => ResultsOwn'
<1> SUFFICES ASSUME TableInv, TextOwn, ResultsOwn, [Next]_vars, taskCount' <= NSlots,
                    NEW i \in Slots
             PROVE  ResultOwn(tasks[i])'
  BY DEF ResultsOwn
<1>0. TypeOK /\ OnceInv
  BY TableTypes
<1>1. taskCount <= NSlots
  BY <1>0, GuidSteps, TableTypes DEF Registers
<1>2. ResultOwn(tasks[i])
  BY <1>1 DEF ResultsOwn
<1>3. tasks[i].guid # 0 /\ runs[tasks[i].guid] = 1 => runs'[tasks[i].guid] = 1
  BY <1>0, RunsStable, TableTypes
<1>4. CASE tasks'[i] = tasks[i]
  BY <1>2, <1>3, <1>4 DEF ResultOwn
<1>5. ASSUME NEW k, Registers(k) PROVE ResultOwn(tasks[i])'
  <2>1. tasks'[i] = tasks[i] \/ tasks'[i] = FreshSlot(taskCount + 1)
    BY <1>5, TableTypes DEF Registers
  <2> QED  BY <1>4, <2>1 DEF ResultOwn, FreshSlot, Plain
<1>6. ASSUME NEW n \in Nodes, Completes(n), i = wslot[n] PROVE ResultOwn(tasks[i])'
  <2>1. Writing(n)
    BY <1>6 DEF Completes, MarkCompleted, StoreBegin, StoreEnd, StoreText, Writing
  <2>2. tasks[i].guid = wtask[n].guid
    BY <1>1, <1>6, <2>1, TableTypes DEF TableInv, InOwnSlot, Late
  <2>3. runs[tasks[i].guid] = 1
    BY <2>1, <2>2 DEF TableInv, Executed, Past, Writing
  <2>4. tasks'[i].guid = tasks[i].guid /\ tasks[i].guid # 0
    BY <1>0, <1>6, <2>1, CompletesOneSlot DEF TableInv, InOwnSlot
  <2>5. wtext[n].kind = "whole" /\ wtext[n].task = wtask[n].guid
    BY <2>1 DEF TextOwn
  <2>6. tasks'[i].data \in {tasks[i].data, Plain("torn"), wtext[n]}
    BY <1>6, TableTypes
    DEF Completes, MarkCompleted, StoreBegin, StoreEnd, StoreText, Slot
  <2> QED  BY <1>2, <1>3, <2>2, <2>3, <2>4, <2>5, <2>6 DEF ResultOwn, Plain
<1>7. CASE (UNCHANGED tasks) \/ \E n \in Nodes : Completes(n)
  BY <1>0, <1>4, <1>6, <1>7, CompletesOneSlot
<1> QED  BY <1>0, <1>5, <1>7, TableSteps, RegistersSlot

(* A client's state changes by a reply or a registration of the master, by  *)
(* a step of its own, or by a timeout.                                      *)
SameClient(c) ==
  /\ cstate'[c] = cstate[c] /\ cguid'[c] = cguid[c]
  /\ answer'[c] = answer[c] /\ gaveUp'[c] = gaveUp[c]

LEMMA ClientSteps ==
  ASSUME TypeOK, [Next]_vars, NEW c \in Clients
  PROVE  \/ SameClient(c) \/ ServeCheck(c) \/ ServeQuery(c)
         \/ PostTask /\ serving = c
         \/ ClientStep(c) \/ ReceiveTimesOut(c)
<1> USE DEF SameClient
<1>0. /\ cstate \in [Clients -> ClientStates] /\ cguid \in [Clients -> Nat]
      /\ answer \in [Clients -> Text] /\ gaveUp \in [Clients -> BOOLEAN]
  BY DEF TypeOK, TypeClient
<1>1. CASE UNCHANGED clientVars
  BY <1>1 DEF clientVars
<1>2. CASE MasterStep
  <2>1. ASSUME NEW d \in Clients, d # c, ServeCheck(d) PROVE SameClient(c)
    BY <1>0, <2>1 DEF ServeCheck, Reply
  <2>2. ASSUME NEW d \in Clients, d # c, ServeQuery(d) PROVE SameClient(c)
    BY <1>0, <2>2 DEF ServeQuery
  <2>3. CASE PostTask /\ serving # c
    BY <1>0, <2>3 DEF PostTask, Reply
  <2> QED
    BY <1>1, <1>2, <2>1, <2>2, <2>3
    DEF MasterStep, Poll, Shutdown, HeartbeatOk, HeartbeatRestart, AwaitReady,
        FillBuffers, BatchServed
<1>3. CASE \E n \in Nodes : WorkerStep(n)
  BY <1>1, <1>3, WorkerFrame
<1>4. ASSUME NEW d \in Clients, d # c, ClientStep(d) PROVE SameClient(c)
  BY <1>0, <1>4 DEF ClientStep, Submit, Check, ConnectionLost
<1>5. CASE Environment
  <2>1. ASSUME NEW d \in Clients, d # c, ReceiveTimesOut(d) PROVE SameClient(c)
    BY <1>0, <2>1 DEF ReceiveTimesOut
  <2> QED  BY <1>1, <1>5, <2>1 DEF Environment, WorkerDies, StopSignal
<1>6. CASE UNCHANGED vars
  BY <1>1, <1>6 DEF vars
<1> QED  BY <1>2, <1>3, <1>4, <1>5, <1>6 DEF Next

LEMMA ClientTypes ==
  ASSUME TypeOK
  PROVE  /\ cstate \in [Clients -> ClientStates] /\ cguid \in [Clients -> Nat]
         /\ answer \in [Clients -> Text] /\ gaveUp \in [Clients -> BOOLEAN]
         /\ taskCount \in Nat /\ serving \in Clients
  BY DEF TypeOK, TypeClient, TypeTable, TypeMaster

LEMMA CountGrows ==
  ASSUME TypeOK, [Next]_vars
  PROVE  taskCount' \in Nat /\ taskCount' >= taskCount
  BY GuidSteps, ClientTypes DEF Registers

LEMMA KnowsGuidStep == TableInv /\ KnowsGuid /\ [Next]_vars => KnowsGuid'
<1> SUFFICES ASSUME TableInv, KnowsGuid, [Next]_vars, NEW c \in Clients
             PROVE  /\ cguid'[c] \in 0 .. taskCount'
                    /\ cstate'[c] \in {"taken", "polling", "checking"} => cguid'[c] # 0
  BY DEF KnowsGuid
<1>0. TypeOK /\ ServingTaken
  BY TableTypes DEF OnceInv, IntactInv, HandshakeInv
<1>1. /\ cguid[c] \in 0 .. taskCount
      /\ cstate[c] \in {"taken", "polling", "checking"} => cguid[c] # 0
  BY DEF KnowsGuid
<1>2. ASSUME cguid'[c] = cguid[c],
             cstate'[c] \in {"taken", "polling", "checking"} =>
               cstate[c] \in {"taken", "polling", "checking"}
      PROVE  /\ cguid'[c] \in 0 .. taskCount'
             /\ cstate'[c] \in {"taken", "polling", "checking"} => cguid'[c] # 0
  BY <1>1, <1>2, <1>0, CountGrows, ClientTypes
<1>3. CASE SameClient(c)
  BY <1>2, <1>3 DEF SameClient
<1>4. CASE ServeCheck(c)
  BY <1>2, <1>4 DEF ServeCheck
<1>5. CASE ServeQuery(c)
  BY <1>0, <1>5, ClientTypes DEF ServeQuery
<1>6. CASE PostTask /\ serving = c
  BY <1>0, <1>2, <1>6 DEF PostTask, ServingTaken, Dispatching
<1>7. CASE ClientStep(c)
  BY <1>2, <1>0, <1>7, ClientTypes DEF ClientStep, Submit, Check, ConnectionLost
<1>8. CASE ReceiveTimesOut(c)
  BY <1>2, <1>8 DEF ReceiveTimesOut
<1> QED  BY <1>3, <1>4, <1>5, <1>6, <1>7, <1>8, <1>0, ClientSteps

LEMMA GaveUpEmptyStep == TypeOK /\ GaveUpEmpty /\ [Next]_vars => GaveUpEmpty'
<1> SUFFICES ASSUME TypeOK, GaveUpEmpty, [Next]_vars, NEW c \in Clients, gaveUp'[c]
             PROVE  /\ cstate'[c] \in {"sent", "taken", "checking"}
                    /\ answer'[c].kind = "empty"
  BY DEF GaveUpEmpty
<1>1. gaveUp[c] => cstate[c] \in {"sent", "taken", "checking"} /\ answer[c].kind = "empty"
  BY DEF GaveUpEmpty
<1>2. CASE SameClient(c)
  BY <1>1, <1>2 DEF SameClient
<1>3. CASE ServeCheck(c) \/ (PostTask /\ serving = c)
  BY <1>3, ClientTypes DEF ServeCheck, PostTask, Reply
<1>4. CASE ServeQuery(c)
  BY <1>1, <1>4, ClientTypes DEF ServeQuery
<1>5. CASE ClientStep(c)
  BY <1>1, <1>5, ClientTypes DEF ClientStep, Submit, Check, ConnectionLost
<1>6. CASE ReceiveTimesOut(c)
  BY <1>6, ClientTypes DEF ReceiveTimesOut, Plain
<1> QED  BY <1>2, <1>3, <1>4, <1>5, <1>6, ClientSteps

(* A CHECK of a task that is not pending, while no slot has been            *)
(* overwritten, reads the result of that task.                              *)
LEMMA FetchedOwn ==
  ASSUME TableInv, ResultsOwn, taskCount <= NSlots, NEW g \in 1 .. taskCount,
         ~IsPending(tasks, g)
  PROVE  /\ runs[g] = 1
         /\ FetchedText(tasks, g).kind \in {"none", "torn", "whole"}
         /\ FetchedText(tasks, g).kind = "whole" => FetchedText(tasks, g).task = g
<1>1. g - 1 \in Slots /\ tasks[g - 1].guid = g
  BY TableTypes DEF TableInOrder, FilledInOrder, Slots
<1>2. Holding(tasks, g) # {}
  BY <1>1 DEF Holding
<1> DEFINE k == CHOOSE i \in Holding(tasks, g) : TRUE
<1>3. k \in Slots /\ tasks[k].guid = g /\ k \in Holding(tasks, g)
  BY <1>2 DEF Holding
<1>4. FetchedText(tasks, g) = tasks[k].data
  BY <1>2 DEF FetchedText
<1> HIDE DEF k
<1>5. tasks[k].status = "COMPLETED"
  BY <1>3, TableTypes DEF IsPending, Slot, Status
<1>6. ResultOwn(tasks[k])
  BY <1>3 DEF ResultsOwn
<1> QED  BY <1>3, <1>4, <1>5, <1>6 DEF ResultOwn

LEMMA AnswerIsOwnStep == AnswerInv /\ [Next]_vars => AnswerIsOwn'
<1> DEFINE Own(c) == /\ runs[cguid[c]] = 1
                     /\ answer[c].kind # "missing"
                     /\ answer[c].kind = "whole" => answer[c].task = cguid[c]
           Told(c) == cstate[c] = "idle" /\ cguid[c] > 0 /\ answer[c].kind # "empty"
<1> SUFFICES ASSUME AnswerInv, [Next]_vars, taskCount' <= NSlots,
                    NEW c \in Clients, Told(c)'
             PROVE  Own(c)'
  BY DEF AnswerIsOwn
<1>0. /\ TableInv /\ TypeOK /\ OnceInv /\ ResultsOwn /\ cguid[c] \in 0 .. taskCount
      /\ taskCount \in Nat /\ NSlots \in Nat
  BY TableTypes DEF AnswerInv, KnowsGuid
<1>1. taskCount <= NSlots
  BY <1>0, CountGrows
<1>2. Told(c) => Own(c)
  BY <1>1 DEF AnswerInv, AnswerIsOwn
<1>3. cguid[c] > 0 /\ runs[cguid[c]] = 1 => runs'[cguid[c]] = 1
  BY <1>0, RunsStable
<1>4. gaveUp[c] => answer[c].kind = "empty"
  BY DEF AnswerInv, GaveUpEmpty
<1>5. CASE SameClient(c)
  BY <1>2, <1>3, <1>5 DEF SameClient
<1>6. CASE ServeCheck(c)
  <2>1. cguid' = cguid
    BY <1>6 DEF ServeCheck
  <2>2. /\ ~IsPending(tasks, cguid[c])
        /\ answer'[c] = FetchedText(tasks, cguid[c])
    BY <1>0, <1>4, <1>6, ClientTypes DEF ServeCheck, Reply
  <2>3. cguid[c] \in 1 .. taskCount
    BY <1>0, <2>1
  <2> QED  BY <1>0, <1>1, <1>3, <2>1, <2>2, <2>3, FetchedOwn
<1>7. CASE PostTask /\ serving = c
  BY <1>0, <1>4, <1>7, ClientTypes DEF PostTask, Reply
<1>8. CASE ServeQuery(c)
  BY <1>0, <1>8, ClientTypes DEF ServeQuery
<1>9. CASE ClientStep(c)
  BY <1>0, <1>9, ClientTypes DEF ClientStep, Submit, Check, ConnectionLost, Plain
<1>10. CASE ReceiveTimesOut(c)
  BY <1>0, <1>10, ClientTypes DEF ReceiveTimesOut, Plain
<1> QED  BY <1>0, <1>5, <1>6, <1>7, <1>8, <1>9, <1>10, ClientSteps

(* Until a slot is overwritten a client that is told anything is told of    *)
(* its own task, after the task was executed: the lookups of fetch_result   *)
(* and update_task meet in the slot of one guid.                            *)
THEOREM AnswerIsOwnCorrect == Spec => []AnswerIsOwn
<1>1. AnswerInv => TableInv /\ TypeOK
  BY TableTypes DEF AnswerInv
<1>2. AnswerInv /\ [Next]_vars => AnswerInv'
  BY <1>1, TableInvStep, ResultsOwnStep, TextOwnStep, GaveUpEmptyStep, KnowsGuidStep,
     AnswerIsOwnStep
  DEF AnswerInv
<1>3. AnswerInv => AnswerIsOwn
  BY DEF AnswerInv
<1> QED  BY AnswerInit, <1>2, <1>3, PTL DEF Spec

-----------------------------------------------------------------------------
(* The refinement of TaskService.  The state of a guid, with the table as a *)
(* parameter: what is shown of it holds before and after a step.            *)
StateIn(tb, count, g) ==
  IF g > count THEN "none"
  ELSE IF Holding(tb, g) = {} THEN "forgotten"
  ELSE tb[CHOOSE i \in Holding(tb, g) : TRUE].status

LEMMA TaskStateIn ==
  ASSUME NEW g
  PROVE  /\ TaskState(g) = StateIn(tasks, taskCount, g)
         /\ TaskState(g)' = StateIn(tasks', taskCount', g)
  BY DEF TaskState, StateIn

(* A guid is in one slot at most, so its state is that slot's status.       *)
LEMMA HeldState ==
  ASSUME NEW tb, NEW count \in Nat, Distinct(tb), NEW i \in Slots,
         tb[i].guid \in 1 .. count
  PROVE  StateIn(tb, count, tb[i].guid) = tb[i].status
<1>1. Holding(tb, tb[i].guid) = {i}
  BY DEF Distinct, Holding
<1> QED  BY <1>1 DEF StateIn

LEMMA ForgottenState ==
  ASSUME NEW tb, NEW count \in Nat, NEW g \in 1 .. count,
         \A i \in Slots : tb[i].guid # g
  PROVE  StateIn(tb, count, g) = "forgotten"
  BY DEF StateIn, Holding

LEMMA SlotStates ==
  ASSUME TableInv, NEW g \in Nat
  PROVE  /\ g > taskCount => TaskState(g) = "none"
         /\ \A i \in Slots : g # 0 /\ tasks[i].guid = g => TaskState(g) = tasks[i].status
         /\ g \in 1 .. taskCount /\ (\A i \in Slots : tasks[i].guid # g)
              => TaskState(g) = "forgotten"
<1>1. taskCount \in Nat /\ Distinct(tasks) /\ \A i \in Slots : tasks[i].guid \in 0 .. taskCount
  BY TableTypes DEF TableInOrder
<1>2. ASSUME NEW i \in Slots, g # 0, tasks[i].guid = g
      PROVE  TaskState(g) = tasks[i].status
  <2>1. StateIn(tasks, taskCount, tasks[i].guid) = tasks[i].status
    BY <1>1, <1>2, HeldState
  <2> QED  BY <1>2, <2>1, TaskStateIn
<1>3. ASSUME g \in 1 .. taskCount, \A i \in Slots : tasks[i].guid # g
      PROVE  TaskState(g) = "forgotten"
  BY <1>1, <1>3, ForgottenState, TaskStateIn
<1>4. g > taskCount => TaskState(g) = "none"
  BY DEF TaskState
<1> QED  BY <1>2, <1>3, <1>4

(* The statuses of the slots are all that the states depend on.             *)
LEMMA SameStates ==
  ASSUME UNCHANGED taskCount,
         \A i \in Slots : /\ tasks'[i].guid = tasks[i].guid
                          /\ tasks'[i].status = tasks[i].status
  PROVE  \A g : TaskState(g)' = TaskState(g)
<1> TAKE g
<1>1. Holding(tasks, g)' = Holding(tasks, g)
  BY DEF Holding
<1>2. CASE Holding(tasks, g) = {}
  BY <1>1, <1>2 DEF TaskState
<1>3. CASE Holding(tasks, g) # {}
  <2> DEFINE i == CHOOSE i \in Holding(tasks, g) : TRUE
  <2>1. i \in Slots
    BY <1>3 DEF Holding
  <2>2. TaskState(g) = IF g > taskCount THEN "none" ELSE tasks[i].status
    BY <1>3 DEF TaskState
  <2>3. TaskState(g)' = IF g > taskCount' THEN "none" ELSE tasks'[i].status
    BY <1>1, <1>3 DEF TaskState
  <2> HIDE DEF i
  <2> QED  BY <2>1, <2>2, <2>3
<1> QED  BY <1>2, <1>3

LEMMA KnownIsRegistered ==
  ASSUME TableInv
  PROVE  Service!Known = 1 .. taskCount
<1>1. taskCount \in Nat /\ taskCount <= MaxTasks /\ MaxTasks \in Nat
  BY OnceTypes DEF TableInv
<1>2. \A g \in 1 .. MaxTasks : TaskState(g) # "none" <=> g <= taskCount
  <2> SUFFICES ASSUME NEW g \in 1 .. MaxTasks
               PROVE  TaskState(g) # "none" <=> g <= taskCount
    OBVIOUS
  <2>1. CASE g > taskCount
    BY <1>1, <2>1 DEF TaskState
  <2>2. CASE g <= taskCount
    <3>1. CASE \E i \in Slots : tasks[i].guid = g
      BY <1>1, <2>2, <3>1, SlotStates, TableTypes DEF Slot, Status
    <3>2. CASE \A i \in Slots : tasks[i].guid # g
      BY <1>1, <2>2, <3>2, SlotStates
    <3> QED  BY <2>2, <3>1, <3>2
  <2> QED  BY <1>1, <2>1, <2>2
<1> QED  BY <1>1, <1>2 DEF Service!Known, Service!Tasks

(* The tasks the service retains are those in the slots: all there are,     *)
(* until the table is full, then as many as there are slots.                *)
LEMMA RetainedInSlots ==
  ASSUME TableInv
  PROVE  Service!Retained = { tasks[i].guid : i \in { j \in Slots : tasks[j].guid # 0 } }
<1>1. /\ taskCount \in Nat /\ taskCount <= MaxTasks /\ MaxTasks \in Nat
      /\ \A i \in Slots : tasks[i].guid \in 0 .. taskCount /\ tasks[i].status \in Status
  BY OnceTypes, TableTypes DEF TableInv, Slot
<1>2. ASSUME NEW i \in Slots, tasks[i].guid # 0
      PROVE  /\ tasks[i].guid \in 1 .. MaxTasks
             /\ TaskState(tasks[i].guid) \in {"PENDING", "COMPLETED"}
  BY <1>1, <1>2, SlotStates DEF Status
<1>3. ASSUME NEW g \in 1 .. MaxTasks, TaskState(g) \in {"PENDING", "COMPLETED"}
      PROVE  \E i \in Slots : tasks[i].guid = g /\ tasks[i].guid # 0
  BY <1>1, <1>3, SlotStates
<1> QED  BY <1>2, <1>3 DEF Service!Retained, Service!Tasks

LEMMA RetainedCount ==
  ASSUME TableInv
  PROVE  /\ taskCount < NSlots => Service!Cardinality(Service!Retained) < NSlots
         /\ taskCount >= NSlots => Service!Cardinality(Service!Retained) = NSlots
<1>0. \A S : Service!Cardinality(S) = Cardinality(S)
  BY DEF Service!Cardinality, Cardinality
<1> DEFINE R == Service!Retained
<1>1. R = { tasks[i].guid : i \in { j \in Slots : tasks[j].guid # 0 } }
  BY RetainedInSlots
<1> HIDE DEF R
<1>2. taskCount \in Nat /\ NSlots \in Nat \ {0}
  BY TableTypes
<1>3. CASE taskCount < NSlots
  <2>1. \A i \in Slots : tasks[i].guid = IF i < taskCount THEN i + 1 ELSE 0
    BY <1>2, <1>3 DEF TableInv, TableInOrder, FilledInOrder
  <2>2. R \subseteq 1 .. taskCount
    BY <1>1, <1>2, <2>1 DEF Slots
  <2>3. IsFiniteSet(1 .. taskCount) /\ Cardinality(1 .. taskCount) = taskCount
    BY <1>2, FS_Interval
  <2>4. Cardinality(R) <= taskCount /\ Cardinality(R) \in Nat
    BY <2>2, <2>3, FS_Subset, FS_CardinalityType
  <2> QED  BY <1>0, <1>2, <1>3, <2>4 DEF R
<1>4. CASE taskCount >= NSlots
  <2> DEFINE f == [i \in Slots |-> tasks[i].guid]
  <2>1. \A i \in Slots : tasks[i].guid # 0
    BY <1>4 DEF TableInv, TableInOrder, OverwrittenInTurn
  <2>2. R = { tasks[i].guid : i \in Slots }
    BY <1>1, <2>1
  <2>3. f \in Bijection(Slots, R)
    <3>1. f \in [Slots -> R] /\ \A r \in R : \E i \in Slots : f[i] = r
      BY <2>2
    <3>2. \A i, j \in Slots : f[i] = f[j] => i = j
      BY <2>1 DEF TableInv, TableInOrder, Distinct
    <3> HIDE DEF f
    <3> QED  BY <3>1, <3>2 DEF Bijection, Injection, Surjection, IsInjective
  <2>4. IsFiniteSet(Slots) /\ Cardinality(Slots) = NSlots
    BY <1>2, FS_Interval DEF Slots
  <2>5. Cardinality(R) = NSlots
    BY <2>3, <2>4, FS_Bijection DEF ExistsBijection
  <2> QED  BY <1>0, <1>2, <1>4, <2>5 DEF R
<1> QED  BY <1>2, <1>3, <1>4

States == [g \in 1 .. MaxTasks |-> TaskState(g)]

LEMMA ServiceInit == Init => Service!Init
<1> SUFFICES ASSUME Init PROVE Service!Init
  OBVIOUS
<1>1. \A g \in 1 .. MaxTasks : TaskState(g) = "none"
  BY DEF Init, TaskState
<1> QED  BY <1>1 DEF Init, Service!Init, Service!Tasks

InBound == taskCount <= MaxTasks

LEMMA CountInBound == TableInv => InBound
  BY OnceTypes DEF TableInv, InBound

LEMMA CountStaysInBound == TableInv' => InBound'
  BY CountInBound, PTL

(* register_task registers a task; a slot that is overwritten is one task   *)
(* forgotten, and an old one.                                               *)
LEMMA RegisterImplements ==
  ASSUME TableInv, TableInv', NEW i, Registers(i), UNCHANGED runs
  PROVE  Service!Next
<1>0. PICK g : g = taskCount + 1
  OBVIOUS
<1>1. /\ taskCount \in Nat /\ NSlots \in Nat \ {0} /\ tasks \in [Slots -> Slot]
      /\ TypeOK /\ TableInOrder /\ Distinct(tasks) /\ Distinct(tasks')
      /\ \A j \in Slots : tasks[j].guid \in 0 .. taskCount
  BY TableTypes DEF TableInv, TableInOrder
<1>2. taskCount' = g /\ g <= MaxTasks /\ g \in 1 .. MaxTasks /\ MaxTasks \in Nat
  <2>1. taskCount' <= MaxTasks
    BY CountStaysInBound DEF InBound
  <2> QED  BY <1>0, <1>1, <2>1, MaxTasksAssumption DEF Registers
<1>3. /\ i \in Slots
      /\ \A j \in Slots : tasks'[j] = IF j = i THEN FreshSlot(g) ELSE tasks[j]
  BY <1>0, <1>1 DEF Registers
<1>4. TaskState(g)' = "PENDING"
  <2>1. tasks'[i].guid = g /\ tasks'[i].status = "PENDING"
    BY <1>3 DEF FreshSlot
  <2>2. StateIn(tasks', taskCount', g) = "PENDING"
    BY <1>1, <1>2, <1>3, <2>1, HeldState
  <2> QED  BY <2>2, TaskStateIn
<1>5. ASSUME NEW h \in 1 .. MaxTasks, h # g, h # tasks[i].guid
      PROVE  TaskState(h)' = TaskState(h)
  <2>1. CASE h > g
    BY <1>0, <1>1, <1>2, <2>1 DEF TaskState
  <2>2. CASE h <= g
    <3>1. h \in 1 .. taskCount /\ h \in 1 .. taskCount'
      BY <1>0, <1>1, <1>2, <1>5, <2>2
    <3>2. ASSUME NEW j \in Slots, tasks[j].guid = h PROVE TaskState(h)' = TaskState(h)
      <4>1. tasks'[j] = tasks[j]
        BY <1>3, <1>5, <3>2
      <4>2. StateIn(tasks', taskCount', h) = tasks[j].status
        BY <1>1, <1>2, <3>1, <3>2, <4>1, HeldState
      <4>3. TaskState(h) = tasks[j].status
        BY <3>1, <3>2, SlotStates
      <4> QED  BY <4>2, <4>3, TaskStateIn
    <3>3. ASSUME \A j \in Slots : tasks[j].guid # h PROVE TaskState(h)' = TaskState(h)
      <4>1. \A j \in Slots : tasks'[j].guid # h
        BY <1>3, <1>5, <3>3 DEF FreshSlot
      <4>2. StateIn(tasks', taskCount', h) = "forgotten"
        BY <1>1, <1>2, <3>1, <4>1, ForgottenState
      <4>3. TaskState(h) = "forgotten"
        BY <3>1, <3>3, SlotStates
      <4> QED  BY <4>2, <4>3, TaskStateIn
    <3> QED  BY <3>2, <3>3
  <2> QED  BY <1>0, <1>1, <1>2, <2>1, <2>2
<1>6. Service!Known = 1 .. g - 1
  BY <1>0, <1>1, KnownIsRegistered
<1>7. CASE taskCount < NSlots
  <2>1. tasks[i].guid = 0
    BY <1>1, <1>3, <1>7, FreeSlotInOrder DEF TableInOrder, FilledInOrder
  <2>2. States' = [States EXCEPT ![g] = "PENDING"]
    <3>1. \A h \in 1 .. MaxTasks : h # g => TaskState(h)' = TaskState(h)
      BY <1>5, <2>1
    <3> QED  BY <1>2, <1>4, <3>1 DEF States
  <2>3. Service!Register(g)
    BY <1>2, <1>6, <1>7, <2>2, RetainedCount DEF Service!Register, States
  <2> QED  BY <1>2, <2>3 DEF Service!Next, Service!Tasks
<1>8. CASE taskCount >= NSlots
  <2>0. PICK f : f = tasks[i].guid
    OBVIOUS
  <2>1. f # 0 /\ f \in 1 .. taskCount /\ f \in 1 .. MaxTasks /\ f # g
    BY <1>0, <2>0, <1>1, <1>2, <1>3, <1>8 DEF TableInOrder, OverwrittenInTurn
  <2>2. f <= g - NSlots + 1
    BY <1>0, <2>0, <1>1, <1>3, <1>8, FreeSlotInOrder DEF TableInOrder, OverwrittenInTurn
  <2>3. f \in Service!Retained
    BY <2>0, <1>3, <2>1, RetainedInSlots
  <2>4. TaskState(f)' = "forgotten"
    <3>1. \A j \in Slots : tasks'[j].guid # f
      BY <2>0, <1>1, <1>3, <2>1 DEF Distinct, FreshSlot
    <3>2. f \in 1 .. taskCount' /\ taskCount' \in Nat
      BY <1>0, <2>0, <1>1, <1>2, <2>1
    <3>3. StateIn(tasks', taskCount', f) = "forgotten"
      BY <3>1, <3>2, ForgottenState
    <3> QED  BY <3>3, TaskStateIn
  <2>5. States' = [States EXCEPT ![f] = "forgotten", ![g] = "PENDING"]
    BY <2>0, <1>2, <1>4, <1>5, <2>1, <2>4 DEF States
  <2>6. Service!Register(g)
    BY <1>2, <1>6, <1>8, <2>2, <2>3, <2>5, RetainedCount DEF Service!Register, States
  <2> QED  BY <1>2, <2>6 DEF Service!Next, Service!Tasks
<1> QED  BY <1>1, <1>7, <1>8

(* process executes a task, for the first time.                             *)
LEMMA ExecuteImplements ==
  ASSUME TableInv, NEW n \in Nodes, Runs(n)
  PROVE  Service!Next
<1>1. /\ wtask[n].guid \in 1 .. taskCount /\ runs[wtask[n].guid] = 0
      /\ runs' = [runs EXCEPT ![wtask[n].guid] = 1]
      /\ UNCHANGED <<tasks, taskCount>>
  BY DEF Runs, RunStatement, tableVars
<1>2. wtask[n].guid \in 1 .. MaxTasks
  BY <1>1, OnceTypes DEF TableInv
<1>3. States' = States
  BY <1>1, SameStates DEF States
<1>4. Service!Execute(wtask[n].guid)
  BY <1>1, <1>3, KnownIsRegistered DEF Service!Execute, States
<1> QED  BY <1>2, <1>4 DEF Service!Next, Service!Tasks

(* update_task completes the task in the slot it found, if it was pending:  *)
(* its own, which has been executed, or once slots are overwritten the one  *)
(* that took its place.                                                     *)
LEMMA CompleteImplements ==
  ASSUME TableInv, NEW n \in Nodes, Completes(n)
  PROVE  Service!Next \/ UNCHANGED Service!vars
<1>0. PICK s, h : s = wslot[n] /\ h = tasks[s].guid
  OBVIOUS
<1>1. /\ TypeOK /\ OnceInv /\ s \in Slots /\ tasks \in [Slots -> Slot]
      /\ taskCount \in Nat /\ MaxTasks \in Nat /\ taskCount <= MaxTasks
      /\ NSlots \in Nat
  BY <1>0, TableTypes, OnceTypes
<1>2. UNCHANGED <<taskCount, runs>>
  BY <1>0 DEF Completes, MarkCompleted, StoreBegin, StoreEnd, StoreText, sessionVars
<1>3. /\ Writing(n)
      /\ h # 0 /\ h \in 1 .. taskCount /\ h \in 1 .. MaxTasks
      /\ h = wtask[n].guid \/ Late(n)
  <2>1. Writing(n)
    BY <1>0 DEF Completes, MarkCompleted, StoreBegin, StoreEnd, StoreText, Writing
  <2> QED  BY <1>0, <1>1, <2>1, TableTypes DEF TableInv, InOwnSlot
<1>4. /\ \A i \in Slots : tasks'[i].guid = tasks[i].guid
      /\ \A i \in Slots : i # s => tasks'[i] = tasks[i]
  BY <1>0, <1>1, CompletesOneSlot
<1>5. CASE tasks'[s].status = tasks[s].status
  <2>1. States' = States
    BY <1>0, <1>2, <1>4, <1>5, SameStates DEF States
  <2> QED  BY <1>0, <1>2, <2>1 DEF Service!vars, States
<1>6. CASE tasks'[s].status # tasks[s].status
  <2>1. tasks[s].status = "PENDING" /\ tasks'[s].status = "COMPLETED"
    BY <1>0, <1>1, <1>6
    DEF Completes, MarkCompleted, StoreBegin, StoreEnd, StoreText, Slot, Status
  <2>2. TaskState(h) = "PENDING"
    BY <1>0, <1>3, <1>1, <2>1, SlotStates
  <2>3. Distinct(tasks) /\ Distinct(tasks')
    BY <1>0, <1>4, TableTypes DEF TableInOrder, Distinct
  <2>4. TaskState(h)' = "COMPLETED"
    <3>1. StateIn(tasks', taskCount', tasks'[s].guid) = tasks'[s].status
      BY <1>0, <1>1, <1>2, <1>3, <1>4, <2>3, HeldState
    <3>2. tasks'[s].guid = h
      BY <1>0, <1>1, <1>4
    <3> QED  BY <1>0, <2>1, <3>1, <3>2, TaskStateIn
  <2>5. ASSUME NEW g \in 1 .. MaxTasks, g # h PROVE TaskState(g)' = TaskState(g)
    <3>1. Holding(tasks, g)' = Holding(tasks, g)
      BY <1>0, <1>4 DEF Holding
    <3>2. s \notin Holding(tasks, g)
      BY <1>0, <2>5 DEF Holding
    <3>3. CASE Holding(tasks, g) = {}
      BY <1>0, <1>2, <3>1, <3>3 DEF TaskState
    <3>4. CASE Holding(tasks, g) # {}
      <4> DEFINE i == CHOOSE i \in Holding(tasks, g) : TRUE
      <4>1. i \in Slots /\ i # s
        BY <3>2, <3>4 DEF Holding
      <4>2. TaskState(g) = IF g > taskCount THEN "none" ELSE tasks[i].status
        BY <3>4 DEF TaskState
      <4>3. TaskState(g)' = IF g > taskCount' THEN "none" ELSE tasks'[i].status
        BY <3>1, <3>4 DEF TaskState
      <4> HIDE DEF i
      <4> QED  BY <1>0, <1>2, <1>4, <4>1, <4>2, <4>3
    <3> QED  BY <3>3, <3>4
  <2>6. runs[h] = 1 \/ Service!Cardinality(Service!Known) > NSlots
    <3>1. CASE h = wtask[n].guid
      BY <1>0, <1>3, <3>1 DEF TableInv, Executed, Past, Writing
    <3>2. CASE Late(n)
      <4>1. Service!Cardinality(Service!Known) = Cardinality(1 .. taskCount)
        BY KnownIsRegistered DEF Service!Cardinality, Cardinality
      <4>2. Cardinality(1 .. taskCount) = taskCount
        BY <1>1, FS_Interval
      <4> QED  BY <1>1, <3>2, <4>1, <4>2 DEF Late
    <3> QED  BY <1>0, <1>3, <3>1, <3>2
  <2>7. States' = [States EXCEPT ![h] = "COMPLETED"]
    BY <1>0, <1>3, <2>4, <2>5 DEF States
  <2>8. Service!Complete(h)
    BY <1>0, <1>2, <1>3, <2>2, <2>6, <2>7 DEF Service!Complete, States
  <2> QED  BY <1>0, <1>3, <2>8 DEF Service!Next, Service!Tasks
<1> QED  BY <1>0, <1>5, <1>6

LEMMA ServiceStep ==
  ASSUME TableInv, TableInv', [Next]_vars
  PROVE  [Service!Next]_Service!vars
<1>1. TypeOK /\ OnceInv
  BY TableTypes
<1>2. ASSUME NEW c \in Clients, ServeQuery(c) PROVE Service!Next
  <2>1. UNCHANGED runs
    BY <1>2 DEF ServeQuery, sessionVars
  <2> QED  BY <1>2, <2>1, RegistersSlot, RegisterImplements
<1>3. CASE \E n \in Nodes : Runs(n)
  BY <1>3, ExecuteImplements
<1>4. CASE UNCHANGED <<tasks, taskCount, runs>>
  <2>1. States' = States
    BY <1>4, SameStates DEF States
  <2> QED  BY <1>4, <2>1 DEF Service!vars, States
<1>5. CASE \E n \in Nodes : Completes(n)
  BY <1>5, CompleteImplements
<1> QED  BY <1>1, <1>2, <1>3, <1>4, <1>5, TableSteps, RunsSteps

(* The server does what TaskService promises of the tasks of its clients:   *)
(* each step of master and workers registers, executes or completes a task  *)
(* as it allows, or is none of its business.                                *)
THEOREM ServiceCorrect == Spec => ImplementsService
<1>1. TableInv /\ TableInv' /\ [Next]_vars => [Service!Next]_Service!vars
  BY ServiceStep
<1>2. Spec => []TableInv
  BY TableInvInit, TableInvStep, PTL DEF Spec
<1>3. Spec => Service!Init /\ [][Service!Next]_Service!vars
  BY ServiceInit, <1>1, <1>2, PTL DEF Spec
<1> QED  BY <1>3 DEF ImplementsService, Service!Spec
=============================================================================
