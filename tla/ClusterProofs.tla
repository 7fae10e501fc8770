---------------------------- MODULE ClusterProofs ----------------------------
(***************************************************************************)
(* Proofs about the database server of Cluster.tla, for any number of      *)
(* workers, clients, slots, tasks and environment events.                  *)
(***************************************************************************)
EXTENDS ClusterProperties, FiniteSetTheorems, TLAPS

(* The nodes include the one queries without a table go to.                 *)
LEMMA ZeroIsANode == 0 \in Nodes
  BY NNodesAssumption DEF Nodes

LEMMA ZeroIsASlot == 0 \in Slots
  BY NSlotsAssumption DEF Slots

LEMMA PlainIsText ==
  \A k \in {"none", "torn", "whole", "missing", "empty"} : Plain(k) \in Text
  BY DEF Plain, Text, DbName

LEMMA WholeIsText ==
  \A g \in Nat, d \in DbName : Whole(g, d) \in Text
  BY DEF Whole, Text

LEMMA NoRequestType == NoTask \in Task /\ NoRequest \in Query
  BY DEF NoTask, Task, Query

(* The slot find_free_slot returns is one of the table's.                   *)
LEMMA FreshIsSlot ==
  \A g \in Nat : FreshSlot(g) \in Slot
  BY PlainIsText DEF FreshSlot, Slot, Status

(* What a CHECK reads is a text.                                            *)
LEMMA FetchedIsText ==
  ASSUME tasks \in [Slots -> Slot], NEW g \in Nat
  PROVE  FetchedText(tasks, g) \in Text
<1>1. CASE Holding(tasks, g) = {}
  BY <1>1, PlainIsText DEF FetchedText
<1>2. CASE Holding(tasks, g) # {}
  <2> DEFINE i == CHOOSE i \in Holding(tasks, g) : TRUE
  <2>1. i \in Slots
    BY <1>2 DEF Holding
  <2>2. tasks[i].data \in Text
    BY <2>1 DEF Slot
  <2> QED  BY <1>2, <2>2 DEF FetchedText
<1> QED  BY <1>1, <1>2

-----------------------------------------------------------------------------
(* Type correctness.                                                        *)

LEMMA TypeInit == Init => TypeOK
<1> SUFFICES ASSUME Init PROVE TypeOK
  OBVIOUS
<1> USE DEF Init
<1>1. TypeMaster
  BY ZeroIsANode DEF TypeMaster, MasterStates
<1>2. TypeTable
  BY ZeroIsASlot, PlainIsText, NoRequestType DEF TypeTable, FreeSlot, Slot, Status
<1>3. TypeNode
  BY NoRequestType DEF TypeNode
<1>4. TypeWorker
  BY NoRequestType, ZeroIsASlot, PlainIsText DEF TypeWorker, WorkerStates, DbName
<1>5. TypeClient
  BY PlainIsText, NoRequestType DEF TypeClient, ClientStates
<1>6. TypeSession
  BY OnDiskAssumption DEF TypeSession, DbName
<1>7. TypeBound
  BY DEF TypeBound
<1> QED  BY <1>1, <1>2, <1>3, <1>4, <1>5, <1>6, <1>7 DEF TypeOK

(* What each process leaves alone.                                          *)
LEMMA MasterFrame ==
  MasterStep => /\ UNCHANGED <<clashed, dirs, runs, lastUse>>
                /\ UNCHANGED sessionVars \/ (HeartbeatRestart /\ LeavesCall(hb))
  BY DEF MasterStep, Poll, Shutdown, HeartbeatOk, HeartbeatRestart, ServeCheck,
         ServeQuery, AwaitReady, FillBuffers, PostTask, BatchServed, sessionVars,
         arrayVars

(* What every statement leaves alone, and where its worker goes.            *)
LEMMA RunFrame ==
  ASSUME NEW n, RunStatement(n)
  PROVE  /\ wpc[n] = "run"
         /\ \E s \in {"set", "locate"} : wpc' = [wpc EXCEPT ![n] = s]
         /\ runs' = [runs EXCEPT ![wtask[n].guid] = runs[wtask[n].guid] + 1]
         /\ \E d : wtext' = [wtext EXCEPT ![n] = Whole(wtask[n].guid, d)]
         /\ \E d : current_db' = [current_db EXCEPT ![n] = d]
         /\ UNCHANGED <<masterVars, tableVars, nodeVars, wtask, wslot, clientVars,
                        sessions, torn, lostSlots, lastUse, boundVars>>
  BY DEF RunStatement, Use, CreateDatabase, DropDatabase, TableStatement, Refused,
         ResultReady, BeginCall

LEMMA WorkerFrame ==
  ASSUME NEW n \in Nodes, WorkerStep(n)
  PROVE  UNCHANGED <<masterVars, clientVars, boundVars, buffer,
                     last_overwritten, taskCount, log>>
  BY RunFrame DEF WorkerStep, TakeTask, ReadBuffers, LoadSession, RunStatement, LocateSlot,
         MarkCompleted, StoreBegin, StoreEnd, StoreText, WriteBackSession,
         SessionWritten, UseDone, ResultReady, BeginCall, Release, PostReady,
         tableVars, nodeVars

LEMMA ClientFrame ==
  ASSUME NEW c \in Clients, ClientStep(c)
  PROVE  UNCHANGED <<masterVars, tableVars, nodeVars, workerVars, sessionVars,
                     boundVars>>
  BY DEF ClientStep, Submit, Check, ConnectionLost

LEMMA EnvironmentFrame ==
  Environment => /\ UNCHANGED <<tableVars, nodeVars, mpc, hb, batch, serving, cstate,
                                creq, cguid, restarts, clashed, dirs, runs, lastUse>>
                 /\ UNCHANGED sessionVars
                    \/ \E n \in Nodes : Dies(n) /\ LeavesCall(n)
  BY DEF Environment, WorkerDies, StopSignal, ReceiveTimesOut, Event, masterVars,
         clientVars, sessionVars, arrayVars

(* The master's variables.                                                  *)
LEMMA TypeMasterStep == TypeOK /\ [Next]_vars => TypeMaster'
<1> SUFFICES ASSUME TypeOK, [Next]_vars PROVE TypeMaster'
  OBVIOUS
<1> USE DEF TypeOK
<1>1. CASE MasterStep
  <2>1. hb' \in Nodes /\ mpc' \in MasterStates
    <3>1. NextNode => hb' \in Nodes /\ mpc' \in MasterStates
      BY ZeroIsANode, NNodesAssumption DEF NextNode, TypeMaster, Nodes, MasterStates
    <3> QED
      BY <1>1, <3>1, ZeroIsANode
      DEF MasterStep, Poll, Shutdown, HeartbeatOk, HeartbeatRestart, ServeCheck,
          ServeQuery, AwaitReady, FillBuffers, PostTask, BatchServed, TypeMaster,
          MasterStates
  <2>2. batch' \in SUBSET Clients /\ serving' \in Clients /\ stopping' \in BOOLEAN
    BY <1>1
    DEF MasterStep, Poll, Shutdown, HeartbeatOk, HeartbeatRestart, ServeCheck,
        ServeQuery, AwaitReady, FillBuffers, PostTask, BatchServed, TypeMaster
  <2> QED  BY <2>1, <2>2 DEF TypeMaster
<1>2. CASE \E n \in Nodes : WorkerStep(n)
  BY <1>2, WorkerFrame DEF TypeMaster, masterVars
<1>3. CASE \E c \in Clients : ClientStep(c)
  BY <1>3, ClientFrame DEF TypeMaster, masterVars
<1>4. CASE Environment
  BY <1>4, EnvironmentFrame
  DEF Environment, WorkerDies, StopSignal, ReceiveTimesOut, TypeMaster, masterVars
<1>5. CASE UNCHANGED vars
  BY <1>5 DEF vars, masterVars, TypeMaster
<1> QED  BY <1>1, <1>2, <1>3, <1>4, <1>5 DEF Next

(* The task table.                                                          *)
LEMMA TypeTableStep == TypeOK /\ [Next]_vars => TypeTable'
<1> SUFFICES ASSUME TypeOK, [Next]_vars PROVE TypeTable'
  OBVIOUS
<1> USE DEF TypeOK
<1>1. CASE MasterStep
  <2>1. ASSUME NEW c \in Clients, ServeQuery(c) PROVE TypeTable'
    <3>1. PICK i \in Slots :
            /\ tasks' = [tasks EXCEPT ![i] = FreshSlot(taskCount + 1)]
            /\ last_overwritten' = IF Unused(tasks) = {} THEN i ELSE last_overwritten
      BY <2>1 DEF ServeQuery
    <3>2. tasks' \in [Slots -> Slot] /\ last_overwritten' \in Slots
      BY <3>1, FreshIsSlot DEF TypeTable
    <3>3. taskCount' \in Nat /\ log' \in [1 .. MaxTasks -> Query]
      <4>1. /\ taskCount' = taskCount + 1
            /\ log' = [log EXCEPT ![taskCount + 1] = creq[c]]
        BY <2>1 DEF ServeQuery
      <4>2. creq[c] \in Query
        BY DEF TypeClient
      <4>3. log \in [1 .. MaxTasks -> Query] /\ taskCount \in Nat
        BY DEF TypeTable
      <4>4. log' \in [1 .. MaxTasks -> Query]
        BY <4>1, <4>2, <4>3
      <4> QED  BY <4>1, <4>3, <4>4
    <3> QED  BY <3>2, <3>3 DEF TypeTable
  <2> QED
    BY <1>1, <2>1
    DEF MasterStep, Poll, Shutdown, HeartbeatOk, HeartbeatRestart, ServeCheck,
        AwaitReady, FillBuffers, PostTask, BatchServed, TypeTable, tableVars
<1>2. ASSUME NEW n \in Nodes, WorkerStep(n) PROVE TypeTable'
  <2>1. wslot[n] \in Slots /\ wtext[n] \in Text /\ Plain("torn") \in Text
    BY PlainIsText DEF TypeWorker
  <2>2. tasks' \in [Slots -> Slot]
    <3>1. ASSUME NEW t \in Text, NEW from, NEW to, StoreText(n, t, from, to)
          PROVE  tasks' \in [Slots -> Slot]
      BY <3>1, <2>1 DEF StoreText, TypeTable, Slot
    <3>2. CASE MarkCompleted(n)
      BY <3>2, <2>1 DEF MarkCompleted, TypeTable, Slot, Status
    <3> QED
      BY <1>2, <2>1, <3>1, <3>2, RunFrame
      DEF WorkerStep, TakeTask, ReadBuffers, LoadSession, RunStatement, LocateSlot,
          StoreBegin, StoreEnd, WriteBackSession, SessionWritten, UseDone,
          ResultReady, BeginCall, Release, PostReady, tableVars, TypeTable
  <2> QED  BY <1>2, <2>2, WorkerFrame DEF TypeTable
<1>3. CASE \E c \in Clients : ClientStep(c)
  BY <1>3, ClientFrame DEF TypeTable, tableVars
<1>4. CASE Environment
  BY <1>4, EnvironmentFrame DEF TypeTable, tableVars
<1>5. CASE UNCHANGED vars
  BY <1>5 DEF vars, tableVars, TypeTable
<1> QED  BY <1>1, <1>2, <1>3, <1>4, <1>5 DEF Next

(* The semaphores and buffers.                                              *)
LEMMA TypeNodeStep == TypeOK /\ [Next]_vars => TypeNode'
<1> SUFFICES ASSUME TypeOK, [Next]_vars PROVE TypeNode'
  OBVIOUS
<1> USE DEF TypeOK
<1>1. CASE MasterStep
  <2>1. CASE HeartbeatRestart
    <3>1. ReinitSemaphores(hb) /\ UNCHANGED buffer
      BY <2>1 DEF HeartbeatRestart
    <3>2. is_busy' = is_busy \/ is_busy' = [is_busy EXCEPT ![hb] = FALSE]
      BY <2>1 DEF HeartbeatRestart, ForkFails, Spawn
    <3> QED  BY <3>1, <3>2 DEF ReinitSemaphores, TypeNode
  <2>2. CASE AwaitReady
    <3>1. sem_ready \in [Nodes -> Nat]
      BY DEF TypeNode
    <3>2. /\ sem_ready' = [sem_ready EXCEPT ![Target] = sem_ready[Target] - 1]
          /\ sem_ready[Target] > 0
          /\ UNCHANGED <<sem_task, buffer, is_busy>>
      BY <2>2 DEF AwaitReady
    <3>3. sem_ready' \in [Nodes -> Nat]
      <4> DEFINE x == Target
      <4>1. \A n \in Nodes : n = x => sem_ready[n] - 1 \in Nat
        BY <3>1, <3>2
      <4> QED  BY <3>1, <3>2, <4>1
    <3> QED  BY <3>2, <3>3 DEF TypeNode
  <2>3. CASE FillBuffers
    <3>1. Filled(serving) \in Task
      BY DEF Filled, Task, TypeClient, TypeMaster
    <3>2. /\ buffer' = [buffer EXCEPT ![Target] = Filled(serving)]
          /\ is_busy' = [is_busy EXCEPT ![Target] = TRUE]
          /\ UNCHANGED <<sem_task, sem_ready>>
      BY <2>3 DEF FillBuffers
    <3> QED  BY <3>1, <3>2 DEF TypeNode
  <2>4. CASE PostTask
    <3>1. sem_task \in [Nodes -> Nat]
      BY DEF TypeNode
    <3>2. /\ sem_task' = [sem_task EXCEPT ![Target] = sem_task[Target] + 1]
          /\ UNCHANGED <<sem_ready, buffer, is_busy>>
      BY <2>4 DEF PostTask, PostSemTask
    <3>3. sem_task' \in [Nodes -> Nat]
      <4> DEFINE x == Target
      <4>1. \A n \in Nodes : n = x => sem_task[n] + 1 \in Nat
        BY <3>1
      <4> QED  BY <3>1, <3>2, <4>1
    <3> QED  BY <3>2, <3>3 DEF TypeNode
  <2> QED
    BY <1>1, <2>1, <2>2, <2>3, <2>4
    DEF MasterStep, Poll, Shutdown, HeartbeatOk, ServeCheck, ServeQuery, BatchServed,
        nodeVars, TypeNode
<1>2. ASSUME NEW n \in Nodes, WorkerStep(n) PROVE TypeNode'
  <2>1. sem_task[n] \in Nat /\ sem_ready[n] \in Nat
    BY DEF TypeNode
  <2>2. CASE TakeTask(n)
    BY <2>1, <2>2 DEF TakeTask, TypeNode
  <2>3. CASE PostReady(n)
    BY <2>1, <2>3 DEF PostReady, TypeNode
  <2>4. CASE Release(n)
    BY <2>4 DEF Release, TypeNode
  <2> QED
    BY <1>2, <2>2, <2>3, <2>4, RunFrame
    DEF WorkerStep, ReadBuffers, LoadSession, RunStatement, LocateSlot,
        MarkCompleted, StoreBegin, StoreEnd, StoreText, WriteBackSession,
        SessionWritten, UseDone, ResultReady, BeginCall, nodeVars, TypeNode
<1>3. CASE \E c \in Clients : ClientStep(c)
  BY <1>3, ClientFrame DEF TypeNode, nodeVars
<1>4. CASE Environment
  BY <1>4, EnvironmentFrame DEF TypeNode, nodeVars
<1>5. CASE UNCHANGED vars
  BY <1>5 DEF vars, nodeVars, TypeNode
<1> QED  BY <1>1, <1>2, <1>3, <1>4, <1>5 DEF Next

(* The clients.                                                             *)
LEMMA TypeClientStep == TypeOK /\ [Next]_vars => TypeClient'
<1> SUFFICES ASSUME TypeOK, [Next]_vars PROVE TypeClient'
  OBVIOUS
<1> USE DEF TypeOK
<1>0. ASSUME NEW c \in Clients, NEW state \in ClientStates, NEW text \in Text,
             Reply(c, state, text)
      PROVE  /\ cstate' \in [Clients -> ClientStates]
             /\ answer' \in [Clients -> Text]
             /\ gaveUp' \in [Clients -> BOOLEAN]
  <2>1. "idle" \in ClientStates
    BY DEF ClientStates
  <2>2. /\ cstate \in [Clients -> ClientStates] /\ answer \in [Clients -> Text]
        /\ gaveUp \in [Clients -> BOOLEAN]
    BY DEF TypeClient
  <2> QED  BY <1>0, <2>1, <2>2 DEF Reply
<1>1. CASE MasterStep
  <2>1. ASSUME NEW c \in Clients, ServeCheck(c) PROVE TypeClient'
    <3>1. UNCHANGED <<creq, cguid>>
      BY <2>1 DEF ServeCheck
    <3>2. FetchedText(tasks, cguid[c]) \in Text /\ answer[c] \in Text
      BY FetchedIsText DEF TypeTable, TypeClient
    <3>3. "polling" \in ClientStates /\ "idle" \in ClientStates
      BY DEF ClientStates
    <3>4. \/ Reply(c, "polling", answer[c])
          \/ Reply(c, "idle", FetchedText(tasks, cguid[c]))
      BY <2>1 DEF ServeCheck
    <3> QED  BY <1>0, <3>1, <3>2, <3>3, <3>4 DEF TypeClient
  <2>2. ASSUME NEW c \in Clients, ServeQuery(c) PROVE TypeClient'
    <3>1. /\ cguid' = [cguid EXCEPT ![c] = taskCount + 1]
          /\ cstate' = [cstate EXCEPT ![c] = "taken"]
          /\ UNCHANGED <<creq, answer, gaveUp>>
      BY <2>2 DEF ServeQuery
    <3>2. taskCount + 1 \in Nat /\ "taken" \in ClientStates
      BY DEF TypeTable, ClientStates
    <3> QED  BY <3>1, <3>2 DEF TypeClient
  <2>3. CASE PostTask
    <3>1. UNCHANGED <<creq, cguid>> /\ Reply(serving, "polling", answer[serving])
      BY <2>3 DEF PostTask
    <3>2. serving \in Clients /\ answer[serving] \in Text /\ "polling" \in ClientStates
      BY DEF TypeMaster, TypeClient, ClientStates
    <3> QED  BY <1>0, <3>1, <3>2 DEF TypeClient
  <2> QED
    BY <1>1, <2>1, <2>2, <2>3
    DEF MasterStep, Poll, Shutdown, HeartbeatOk, HeartbeatRestart, AwaitReady,
        FillBuffers, BatchServed, clientVars, TypeClient
<1>2. CASE \E n \in Nodes : WorkerStep(n)
  BY <1>2, WorkerFrame DEF TypeClient, clientVars
<1>3. ASSUME NEW c \in Clients, ClientStep(c) PROVE TypeClient'
  <2>1. Plain("none") \in Text /\ Plain("empty") \in Text
    BY PlainIsText
  <2>2. Workload[c] \subseteq Query
    BY WorkloadAssumption DEF Query
  <2>3. CASE Submit(c)
    <3>1. PICK r \in Workload[c] : creq' = [creq EXCEPT ![c] = r]
      BY <2>3 DEF Submit
    <3>2. /\ cstate' = [cstate EXCEPT ![c] = "sent"]
          /\ answer' = [answer EXCEPT ![c] = Plain("none")]
          /\ UNCHANGED <<cguid, gaveUp>>
      BY <2>3 DEF Submit
    <3>3. "sent" \in ClientStates
      BY DEF ClientStates
    <3> QED  BY <2>1, <2>2, <3>1, <3>2, <3>3 DEF TypeClient
  <2>4. CASE Check(c)
    BY <2>4 DEF Check, TypeClient, ClientStates
  <2>5. CASE ConnectionLost(c)
    <3>1. /\ cstate' = [cstate EXCEPT ![c] = "idle"]
          /\ answer' = [answer EXCEPT ![c] = Plain("empty")]
          /\ gaveUp' = [gaveUp EXCEPT ![c] = FALSE]
          /\ UNCHANGED <<creq, cguid>>
      BY <2>5 DEF ConnectionLost
    <3>2. "idle" \in ClientStates
      BY DEF ClientStates
    <3> QED  BY <2>1, <3>1, <3>2 DEF TypeClient
  <2> QED  BY <1>3, <2>3, <2>4, <2>5 DEF ClientStep
<1>4. CASE Environment
  <2>1. ASSUME NEW c \in Clients, ReceiveTimesOut(c) PROVE TypeClient'
    BY <2>1, PlainIsText DEF ReceiveTimesOut, TypeClient
  <2> QED
    BY <1>4, <2>1 DEF Environment, WorkerDies, StopSignal, TypeClient, clientVars
<1>5. CASE UNCHANGED vars
  BY <1>5 DEF vars, clientVars, TypeClient
<1> QED  BY <1>1, <1>2, <1>3, <1>4, <1>5 DEF Next

(* The current database a statement starts with, and its query.             *)
Current(n, db) == IF db # NoDb /\ db \in dirs[-1] THEN db ELSE current_db[n]

(* What a statement does, its current database given.                       *)
Statement(n, cur) ==
  \/ Use(n, wtask[n].req, cur)
  \/ CreateDatabase(n, wtask[n].req, cur)
  \/ DropDatabase(n, wtask[n].req, cur)
  \/ TableStatement(n, wtask[n].req, cur)
  \/ Refused(n, wtask[n].req, cur)

LEMMA RunsStatement ==
  ASSUME NEW n, RunStatement(n)
  PROVE  \E db \in SessionDbs(Token(n)) : Statement(n, Current(n, db))
  BY DEF RunStatement, Statement, Current

LEMMA StatementTypes ==
  ASSUME TypeWorker, TypeSession, NEW n \in Nodes
  PROVE  /\ wtask[n].guid \in Nat /\ wtask[n].req \in Query
         /\ wtask[n].req.db \in DbName
         /\ wtask[n].req.op \in {"use", "create", "drop"} => wtask[n].req.db # NoDb
         /\ Token(n) \in Tokens \cup {NoToken}
         /\ \A db : Current(n, db) \in DbName
<1>1. wtask[n] \in Task
  BY DEF TypeWorker
<1>2. wtask[n].guid \in Nat /\ wtask[n].req \in Query
  BY <1>1 DEF Task
<1>3. /\ wtask[n].req.db \in DbName
      /\ wtask[n].req.op \in {"use", "create", "drop"} => wtask[n].req.db # NoDb
      /\ wtask[n].req.token \in Tokens \cup {NoToken}
  BY <1>2 DEF Query, Request, NoRequest, DbName
<1>4. ASSUME NEW db \in dirs[-1] PROVE db \in DbName
  BY DEF TypeSession, Roots, DbName
<1>5. current_db[n] \in DbName
  BY DEF TypeWorker
<1> QED  BY <1>2, <1>3, <1>4, <1>5 DEF Current, Token

(* The array after the end of a call, and after the death of a worker.      *)
LEMMA SetSessionType ==
  ASSUME sessions \in [Tokens -> DbName], torn \in SUBSET Tokens,
         NEW t, NEW d \in DbName, SetSession(t, d)
  PROVE  sessions' \in [Tokens -> DbName] /\ torn' \in SUBSET Tokens
<1>1. sessions' = [sessions EXCEPT ![t] = d] \/ sessions' = sessions
  BY DEF SetSession
<1> QED  BY <1>1 DEF SetSession

LEMMA LeavesCallType ==
  ASSUME TypeWorker, TypeSession, NEW n \in Nodes, LeavesCall(n)
  PROVE  /\ sessions' \in [Tokens -> DbName] /\ torn' \in SUBSET Tokens
         /\ lostSlots' \in Nat /\ disturbed' \in SUBSET Tokens
<1>1. Token(n) \in Tokens \cup {NoToken} /\ current_db[n] \in DbName
  BY StatementTypes DEF TypeWorker
<1>2. InCall(n) => Token(n) \in Tokens
  BY <1>1 DEF InCall
<1> QED  BY <1>1, <1>2 DEF LeavesCall, TypeSession

(* The workers.                                                             *)
LEMMA TypeWorkerStep == TypeOK /\ [Next]_vars => TypeWorker'
<1> SUFFICES ASSUME TypeOK, [Next]_vars PROVE TypeWorker'
  OBVIOUS
<1> USE DEF TypeOK
<1>0. ASSUME NEW n \in Nodes, NEW s \in WorkerStates, ForgetLocals(n, s)
      PROVE  /\ wpc' \in [Nodes -> WorkerStates] /\ wtask' \in [Nodes -> Task]
             /\ wslot' \in [Nodes -> Slots] /\ wtext' \in [Nodes -> Text]
  <2>1. Plain("none") \in Text /\ NoTask \in Task /\ 0 \in Slots
    BY PlainIsText, NoRequestType, ZeroIsASlot
  <2> QED  BY <1>0, <2>1 DEF ForgetLocals, TypeWorker
<1>a. NoDb \in DbName
  BY DEF DbName
<1>b. {"idle", "taken", "load", "run", "set", "locate", "mark", "store", "flush",
       "writeback", "rewrite", "release", "post", "dead"} = WorkerStates
  BY DEF WorkerStates
<1>c. ASSUME NEW n \in Nodes, Dies(n) PROVE TypeWorker'
  <2>1. ForgetLocals(n, "dead") /\ current_db' \in [Nodes -> DbName]
    BY <1>c, <1>a DEF Dies, TypeWorker
  <2> QED  BY <2>1, <1>0, <1>b DEF TypeWorker
<1>1. CASE MasterStep
  <2>1. CASE Shutdown
    <3>1. Plain("none") \in Text /\ NoTask \in Task /\ 0 \in Slots
      BY PlainIsText, NoRequestType, ZeroIsASlot
    <3> QED  BY <2>1, <3>1, <1>a, <1>b DEF Shutdown, TypeWorker
  <2>2. CASE HeartbeatRestart
    <3>1. ForkFails(hb) \/ Spawn(hb)
      BY <2>2 DEF HeartbeatRestart
    <3>2. hb \in Nodes
      BY DEF TypeMaster
    <3>3. CASE ForkFails(hb)
      BY <3>2, <3>3, <1>c DEF ForkFails
    <3>4. CASE Spawn(hb)
      <4>1. ForgetLocals(hb, "idle") /\ current_db' \in [Nodes -> DbName]
        BY <3>4, <1>a DEF Spawn, TypeWorker
      <4> QED  BY <3>2, <4>1, <1>0, <1>b DEF TypeWorker
    <3> QED  BY <3>1, <3>3, <3>4
  <2> QED
    BY <1>1, <2>1, <2>2
    DEF MasterStep, Poll, HeartbeatOk, ServeCheck, ServeQuery, AwaitReady,
        FillBuffers, PostTask, BatchServed, workerVars, TypeWorker
<1>2. ASSUME NEW n \in Nodes, WorkerStep(n) PROVE TypeWorker'
  <2>1. CASE ReadBuffers(n)
    <3>1. buffer[n] \in Task
      BY DEF TypeNode
    <3> QED  BY <2>1, <3>1, <1>b DEF ReadBuffers, TypeWorker
  <2>2. CASE LoadSession(n)
    <3>1. ASSUME NEW db \in dirs[-1] PROVE db \in DbName
      BY DEF TypeSession, Roots, DbName
    <3>2. CASE Dies(n)
      BY <3>2, <1>c
    <3>3. CASE ~Dies(n)
      <4>1. /\ wpc' = [wpc EXCEPT ![n] = "run"]
            /\ \/ current_db' = current_db
               \/ \E db \in dirs[-1] : current_db' = [current_db EXCEPT ![n] = db]
            /\ UNCHANGED <<wtask, wslot, wtext>>
        BY <2>2, <3>3 DEF LoadSession
      <4> QED  BY <4>1, <3>1, <1>b DEF TypeWorker
    <3> QED  BY <3>2, <3>3
  <2>3. CASE RunStatement(n)
    <3>0. PICK db \in SessionDbs(Token(n)) : Statement(n, Current(n, db))
      BY <2>3, RunsStatement
    <3> DEFINE cur == Current(n, db)
    <3>1. /\ wpc' \in [Nodes -> WorkerStates]
          /\ UNCHANGED <<wtask, wslot>>
      BY <2>3, <1>b, RunFrame DEF TypeWorker
    <3>2. \E d, e \in DbName : /\ current_db' = [current_db EXCEPT ![n] = d]
                               /\ wtext' = [wtext EXCEPT ![n] = Whole(wtask[n].guid, e)]
      <4> HIDE DEF TypeOK
      <4>1. /\ cur \in DbName /\ wtask[n].req.db \in DbName /\ NoDb \in DbName
        BY StatementTypes, <1>a DEF TypeOK
      <4> HIDE DEF cur
      <4>2. CASE Use(n, wtask[n].req, cur)
        BY <4>1, <4>2 DEF Use
      <4>3. CASE CreateDatabase(n, wtask[n].req, cur)
        BY <4>1, <4>3 DEF CreateDatabase
      <4>4. CASE DropDatabase(n, wtask[n].req, cur)
        BY <4>1, <4>4 DEF DropDatabase
      <4>5. CASE TableStatement(n, wtask[n].req, cur)
        BY <4>1, <4>5 DEF TableStatement
      <4>6. CASE Refused(n, wtask[n].req, cur)
        BY <4>1, <4>6 DEF Refused
      <4> QED  BY <3>0, <4>2, <4>3, <4>4, <4>5, <4>6 DEF Statement, cur
    <3>3. PICK d \in DbName, e \in DbName :
            /\ current_db' = [current_db EXCEPT ![n] = d]
            /\ wtext' = [wtext EXCEPT ![n] = Whole(wtask[n].guid, e)]
      BY <3>2
    <3>4. Whole(wtask[n].guid, e) \in Text
      BY StatementTypes, WholeIsText
    <3>5. wpc' \in [Nodes -> WorkerStates] /\ wtask' \in [Nodes -> Task]
          /\ wslot' \in [Nodes -> Slots]
      BY <3>1 DEF TypeWorker
    <3>6. wtext' \in [Nodes -> Text] /\ current_db' \in [Nodes -> DbName]
      BY <3>3, <3>4 DEF TypeWorker
    <3> QED  BY <3>5, <3>6 DEF TypeWorker
  <2>4. CASE LocateSlot(n)
    <3>1. Found(n) \subseteq Slots
      BY DEF Found, Holding
    <3> QED  BY <2>4, <3>1, <1>b DEF LocateSlot, TypeWorker
  <2>5. CASE PostReady(n)
    BY <2>5, <1>0, <1>b DEF PostReady, TypeWorker
  <2>6. CASE TakeTask(n) \/ UseDone(n) \/ WriteBackSession(n) \/ SessionWritten(n)
             \/ Release(n)
    BY <2>6, <1>b DEF TakeTask, WriteBackSession, SessionWritten, UseDone,
             ResultReady, BeginCall, Release, TypeWorker
  <2>7. CASE MarkCompleted(n) \/ StoreBegin(n) \/ StoreEnd(n)
    BY <2>7, <1>b DEF MarkCompleted, StoreBegin, StoreEnd, StoreText, TypeWorker
  <2> QED
    BY <1>2, <2>1, <2>2, <2>3, <2>4, <2>5, <2>6, <2>7 DEF WorkerStep
<1>3. CASE \E c \in Clients : ClientStep(c)
  BY <1>3, ClientFrame DEF TypeWorker, workerVars
<1>4. CASE Environment
  BY <1>4, <1>c
  DEF Environment, WorkerDies, StopSignal, ReceiveTimesOut, TypeWorker, workerVars
<1>5. CASE UNCHANGED vars
  BY <1>5 DEF vars, workerVars, TypeWorker
<1> QED  BY <1>1, <1>2, <1>3, <1>4, <1>5 DEF Next

(* The sessions and the database directories.                               *)
LEMMA TypeSessionStep == TypeOK /\ [Next]_vars => TypeSession'
<1> SUFFICES ASSUME TypeOK, [Next]_vars PROVE TypeSession'
  OBVIOUS
<1>0. TypeWorker /\ TypeSession /\ TypeMaster
  BY DEF TypeOK
<1>a. UNCHANGED sessionVars => TypeSession'
  BY <1>0 DEF TypeSession, sessionVars, arrayVars
<1>b. ASSUME NEW n \in Nodes, LeavesCall(n),
             UNCHANGED <<clashed, dirs, runs, lastUse>>
      PROVE  TypeSession'
  <2>1. /\ sessions' \in [Tokens -> DbName] /\ torn' \in SUBSET Tokens
        /\ lostSlots' \in Nat /\ disturbed' \in SUBSET Tokens
    BY <1>0, <1>b, LeavesCallType
  <2> QED  BY <1>0, <1>b, <2>1 DEF TypeSession
<1>1. CASE MasterStep
  <2>1. hb \in Nodes
    BY <1>0 DEF TypeMaster
  <2> QED  BY <1>1, <1>a, <1>b, <2>1, MasterFrame
<1>2. ASSUME NEW n \in Nodes, WorkerStep(n) PROVE TypeSession'
  <2>1. CASE RunStatement(n)
    <3> DEFINE r == wtask[n].req
    <3>1. /\ runs' = [runs EXCEPT ![wtask[n].guid] = runs[wtask[n].guid] + 1]
          /\ UNCHANGED <<sessions, torn, lostSlots, lastUse>>
      BY <2>1, RunFrame
    <3>2. runs' \in [1 .. MaxTasks -> Nat]
      <4> DEFINE x == wtask[n].guid
      <4>1. runs \in [1 .. MaxTasks -> Nat]
        BY <1>0 DEF TypeSession
      <4>2. \A g \in 1 .. MaxTasks : g = x => runs[g] + 1 \in Nat
        BY <4>1
      <4>3. runs' = [runs EXCEPT ![x] = runs[x] + 1]
        BY <3>1
      <4> HIDE DEF x
      <4> QED  BY <4>1, <4>2, <4>3
    <3>3. PICK cur \in DbName : Statement(n, cur)
      BY <1>0, <2>1, RunsStatement, StatementTypes
    <3>4. /\ r.db \in DbName
          /\ r.op \in {"use", "create", "drop"} => r.db \in Databases
      BY <1>0, StatementTypes DEF DbName
    <3> HIDE DEF r
    <3>5. clashed' \in BOOLEAN /\ disturbed' \in SUBSET Tokens
      BY <1>0, <3>3
      DEF Statement, Use, CreateDatabase, DropDatabase, TableStatement, Refused,
          ResultReady, BeginCall, TypeSession
    <3>6. dirs' \in [Roots -> SUBSET Databases]
      <4>1. CASE Use(n, r, cur) \/ Refused(n, r, cur)
        BY <1>0, <4>1 DEF Use, Refused, TypeSession
      <4>2. CASE CreateDatabase(n, r, cur)
        <5>1. dirs' = [x \in Roots |-> dirs[x] \cup {r.db}] /\ r.db \in Databases
          BY <3>4, <4>2 DEF CreateDatabase
        <5> QED  BY <1>0, <5>1 DEF TypeSession
      <4>3. CASE DropDatabase(n, r, cur)
        <5>1. dirs' = [x \in Roots |-> dirs[x] \ {r.db}]
          BY <4>3 DEF DropDatabase
        <5> QED  BY <1>0, <5>1 DEF TypeSession
      <4>4. CASE TableStatement(n, r, cur)
        <5> DEFINE db == IF r.db # NoDb THEN r.db ELSE cur
        <5>1. dirs' = IF db = NoDb THEN dirs
                      ELSE [dirs EXCEPT ![n] = dirs[n] \cup {db}]
          BY <4>4 DEF TableStatement
        <5>2. db # NoDb => db \in Databases
          BY <3>4 DEF DbName
        <5> HIDE DEF db
        <5> QED  BY <1>0, <5>1, <5>2 DEF TypeSession
      <4> QED  BY <3>3, <4>1, <4>2, <4>3, <4>4 DEF Statement, r
    <3> QED  BY <1>0, <3>1, <3>2, <3>5, <3>6 DEF TypeSession
  <2>2. CASE UseDone(n) \/ SessionWritten(n)
    <3>1. current_db[n] \in DbName
      BY <1>0 DEF TypeWorker
    <3>2. /\ SetSession(Token(n), current_db[n])
          /\ UNCHANGED <<lostSlots, clashed, dirs, runs, disturbed>>
          /\ \/ lastUse' = lastUse
             \/ lastUse' = [lastUse EXCEPT ![Token(n)] = current_db[n]]
      BY <2>2 DEF UseDone, SessionWritten, ResultReady
    <3>3. sessions' \in [Tokens -> DbName] /\ torn' \in SUBSET Tokens
      BY <1>0, <3>1, <3>2, SetSessionType DEF TypeSession
    <3> QED  BY <1>0, <3>1, <3>2, <3>3 DEF TypeSession
  <2>3. CASE WriteBackSession(n)
    BY <1>0, <2>3 DEF WriteBackSession, BeginCall, TypeSession
  <2>4. CASE LoadSession(n)
    <3>1. Token(n) \in Tokens \cup {NoToken}
      BY <1>0, StatementTypes
    <3>2. /\ UNCHANGED <<sessions, torn, lostSlots, clashed, dirs, runs, lastUse>>
          /\ disturbed' = disturbed \cup
               { t \in Tokens \cap {Token(n)} :
                   \E m \in Nodes : wpc[m] = "set" /\ Token(m) = t }
      BY <2>4, <3>1 DEF LoadSession, arrayVars
    <3> QED  BY <1>0, <3>2 DEF TypeSession
  <2> QED
    BY <1>2, <1>a, <2>1, <2>2, <2>3, <2>4
    DEF WorkerStep, TakeTask, ReadBuffers, LocateSlot, MarkCompleted, StoreBegin,
        StoreEnd, StoreText, Release, PostReady
<1>3. CASE \E c \in Clients : ClientStep(c)
  BY <1>3, <1>a, ClientFrame
<1>4. CASE Environment
  BY <1>4, <1>a, <1>b, EnvironmentFrame
<1>5. CASE UNCHANGED vars
  BY <1>5, <1>a DEF vars
<1> QED  BY <1>1, <1>2, <1>3, <1>4, <1>5 DEF Next

(* The counters.                                                            *)
LEMMA TypeBoundStep == TypeOK /\ [Next]_vars => TypeBound'
<1> SUFFICES ASSUME TypeOK, [Next]_vars PROVE TypeBound'
  OBVIOUS
<1> USE DEF TypeOK
<1>1. CASE MasterStep
  <2>1. CASE HeartbeatRestart
    <3>1. \E a, b \in {0, 1} : events' = events + (a + b)
      BY <2>1 DEF HeartbeatRestart
    <3> QED  BY <2>1, <3>1 DEF HeartbeatRestart, TypeBound
  <2> QED
    BY <1>1, <2>1
    DEF MasterStep, Poll, Shutdown, HeartbeatOk, ServeCheck, ServeQuery, AwaitReady,
        FillBuffers, PostTask, BatchServed, boundVars, TypeBound
<1>2. CASE \E n \in Nodes : WorkerStep(n)
  BY <1>2, WorkerFrame DEF TypeBound, boundVars
<1>3. CASE \E c \in Clients : ClientStep(c)
  BY <1>3, ClientFrame DEF TypeBound, boundVars
<1>4. CASE Environment
  BY <1>4
  DEF Environment, WorkerDies, StopSignal, ReceiveTimesOut, Event, TypeBound
<1>5. CASE UNCHANGED vars
  BY <1>5 DEF vars, boundVars, TypeBound
<1> QED  BY <1>1, <1>2, <1>3, <1>4, <1>5 DEF Next

LEMMA TypeStep == TypeOK /\ [Next]_vars => TypeOK'
<1> SUFFICES ASSUME TypeOK, [Next]_vars PROVE TypeOK'
  OBVIOUS
<1>1. TypeMaster' /\ TypeTable' /\ TypeNode' /\ TypeWorker'
  BY TypeMasterStep, TypeTableStep, TypeNodeStep, TypeWorkerStep
<1>2. TypeClient' /\ TypeSession' /\ TypeBound'
  BY TypeClientStep, TypeSessionStep, TypeBoundStep
<1> QED  BY <1>1, <1>2 DEF TypeOK

(* Every variable keeps its type: no semaphore is decremented below zero,   *)
(* no buffer, slot or session is left half written.                         *)
THEOREM TypeCorrect == Spec => []TypeOK
<1> QED  BY TypeInit, TypeStep, PTL DEF Spec

-----------------------------------------------------------------------------
(* The handshake.  While the master dispatches a query its client waits, so *)
(* the node it dispatches to does not change under it.                      *)
Dispatching  == mpc \in {"await", "fill", "post"}
ServingTaken == Dispatching => cstate[serving] = "taken"

HandshakeInv == TypeOK /\ ServingTaken /\ Handshake

LEMMA HandshakeInit == Init => HandshakeInv
<1> SUFFICES ASSUME Init PROVE HandshakeInv
  OBVIOUS
<1>1. TypeOK
  BY TypeInit
<1>2. ServingTaken
  BY DEF Init, ServingTaken, Dispatching
<1>3. Handshake
  BY DEF Init, Handshake, Turns, Holds, Filling, Count
<1> QED  BY <1>1, <1>2, <1>3 DEF HandshakeInv

LEMMA ServingTakenStep == TypeOK /\ ServingTaken /\ [Next]_vars => ServingTaken'
<1> SUFFICES ASSUME TypeOK, ServingTaken, [Next]_vars, Dispatching'
             PROVE  cstate'[serving'] = "taken"
  BY DEF ServingTaken
<1> USE DEF Dispatching
<1>0. cstate \in [Clients -> ClientStates] /\ serving \in Clients
  BY DEF TypeOK, TypeClient, TypeMaster
<1>1. CASE MasterStep
  <2>1. CASE \E c \in Clients : ServeQuery(c)
    BY <1>0, <2>1 DEF ServeQuery
  <2>2. CASE AwaitReady \/ FillBuffers
    BY <2>2 DEF AwaitReady, FillBuffers, ServingTaken, clientVars
  <2> QED
    BY <1>1, <2>1, <2>2
    DEF MasterStep, Poll, Shutdown, HeartbeatOk, HeartbeatRestart, NextNode,
        ServeCheck, PostTask, BatchServed
<1>2. CASE \E n \in Nodes : WorkerStep(n)
  BY <1>2, WorkerFrame DEF ServingTaken, masterVars, clientVars
<1>3. ASSUME NEW c \in Clients, ClientStep(c) PROVE cstate'[serving'] = "taken"
  <2>1. UNCHANGED <<mpc, serving>>
    BY <1>3, ClientFrame DEF masterVars
  <2>2. cstate[serving] = "taken"
    BY <2>1 DEF ServingTaken
  <2>3. c # serving
    BY <1>3, <2>1, <2>2 DEF ClientStep, Submit, Check, ConnectionLost
  <2>4. cstate'[serving] = cstate[serving]
    BY <1>0, <1>3, <2>3 DEF ClientStep, Submit, Check, ConnectionLost
  <2> QED  BY <2>1, <2>2, <2>4
<1>4. CASE Environment
  BY <1>4, EnvironmentFrame DEF ServingTaken
<1>5. CASE UNCHANGED vars
  BY <1>5 DEF vars, masterVars, clientVars, ServingTaken
<1> QED  BY <1>1, <1>2, <1>3, <1>4, <1>5 DEF Next

(* The node a query is dispatched to stays the same through the dispatch.   *)
LEMMA TargetStable ==
  ASSUME TypeOK, ServingTaken, [Next]_vars, ~MasterStep, Dispatching
  PROVE  Target' = Target /\ UNCHANGED <<mpc, serving>>
<1>0. creq \in [Clients -> Query] /\ serving \in Clients
  BY DEF TypeOK, TypeClient, TypeMaster
<1>1. ASSUME NEW n \in Nodes, WorkerStep(n)
      PROVE  UNCHANGED <<mpc, serving, creq>>
  BY <1>1, WorkerFrame DEF masterVars, clientVars
<1>2. ASSUME NEW c \in Clients, ClientStep(c)
      PROVE  UNCHANGED <<mpc, serving>> /\ creq'[serving] = creq[serving]
  <2>1. UNCHANGED <<mpc, serving>>
    BY <1>2, ClientFrame DEF masterVars
  <2>2. cstate[serving] = "taken"
    BY DEF ServingTaken
  <2>3. CASE Submit(c)
    <3>1. c # serving
      BY <2>2, <2>3 DEF Submit
    <3>2. PICK r : creq' = [creq EXCEPT ![c] = r]
      BY <2>3 DEF Submit
    <3> QED  BY <1>0, <2>1, <3>1, <3>2
  <2> QED  BY <1>2, <2>1, <2>3 DEF ClientStep, Check, ConnectionLost
<1>3. CASE Environment
  BY <1>3, EnvironmentFrame DEF Target
<1>4. CASE UNCHANGED vars
  BY <1>4 DEF vars, masterVars, clientVars, Target
<1> QED  BY <1>1, <1>2, <1>3, <1>4 DEF Next, Target

LEMMA HandshakeStep == HandshakeInv /\ [Next]_vars => Handshake'
<1> SUFFICES ASSUME HandshakeInv, [Next]_vars, NEW n \in Nodes
             PROVE  IF wpc'[n] = "dead" THEN Turns(n)' <= 1 ELSE Turns(n)' = 1
  BY DEF Handshake
<1> USE DEF Turns, Holds, Count
<1>1. /\ sem_task \in [Nodes -> Nat] /\ sem_ready \in [Nodes -> Nat]
      /\ wpc \in [Nodes -> WorkerStates] /\ hb \in Nodes
  BY DEF HandshakeInv, TypeOK, TypeNode, TypeWorker, TypeMaster
<1>2. IF wpc[n] = "dead" THEN Turns(n) <= 1 ELSE Turns(n) = 1
  BY DEF HandshakeInv, Handshake
<1>3. Dispatching /\ ~MasterStep => Filling(n)' = Filling(n)
  BY TargetStable DEF HandshakeInv, Filling
<1>4. CASE MasterStep
  <2>1. CASE Poll \/ HeartbeatOk \/ BatchServed
             \/ \E c \in Clients : ServeCheck(c) \/ ServeQuery(c)
    <3>1. ~Filling(n)' /\ ~Filling(n) /\ UNCHANGED <<sem_task, sem_ready, wpc>>
      BY <2>1
      DEF Poll, HeartbeatOk, NextNode, BatchServed, ServeCheck, ServeQuery, Filling,
          nodeVars, workerVars
    <3> QED  BY <1>2, <3>1
  <2>2. CASE Shutdown
    <3>1. /\ ~Filling(n)' /\ ~Filling(n) /\ UNCHANGED <<sem_task, sem_ready>>
          /\ wpc'[n] = "dead"
      BY <2>2 DEF Shutdown, Filling, nodeVars
    <3> QED  BY <1>1, <1>2, <3>1
  <2>3. CASE HeartbeatRestart
    <3>1. ~Filling(n)' /\ ~Filling(n) /\ ReinitSemaphores(hb)
      BY <2>3 DEF HeartbeatRestart, NextNode, Filling
    <3>2. PICK s \in {"idle", "dead"} : wpc' = [wpc EXCEPT ![hb] = s]
      BY <2>3 DEF HeartbeatRestart, ForkFails, Spawn, Dies, ForgetLocals
    <3>3. CASE n = hb
      BY <1>1, <3>1, <3>2, <3>3 DEF ReinitSemaphores
    <3>4. CASE n # hb
      BY <1>1, <1>2, <3>1, <3>2, <3>4 DEF ReinitSemaphores
    <3> QED  BY <3>3, <3>4
  <2>4. CASE AwaitReady
    <3>1. /\ Target' = Target /\ UNCHANGED <<sem_task, wpc>> /\ sem_ready[Target] > 0
          /\ sem_ready' = [sem_ready EXCEPT ![Target] = sem_ready[Target] - 1]
          /\ mpc = "await" /\ mpc' = "fill"
      BY <2>4 DEF AwaitReady, Target, clientVars, workerVars
    <3>2. CASE n = Target
      BY <1>1, <1>2, <3>1, <3>2 DEF Filling
    <3>3. CASE n # Target
      BY <1>1, <1>2, <3>1, <3>3 DEF Filling
    <3> QED  BY <3>2, <3>3
  <2>5. CASE FillBuffers
    <3>1. Filling(n)' = Filling(n) /\ UNCHANGED <<sem_task, sem_ready, wpc>>
      BY <2>5 DEF FillBuffers, Filling, Target, clientVars, workerVars
    <3> QED  BY <1>2, <3>1
  <2>6. CASE PostTask
    <3>1. /\ UNCHANGED <<sem_ready, wpc>> /\ mpc = "post" /\ mpc' = "serve"
          /\ sem_task' = [sem_task EXCEPT ![Target] = sem_task[Target] + 1]
      BY <2>6 DEF PostTask, PostSemTask, workerVars
    <3>2. CASE n = Target
      BY <1>1, <1>2, <3>1, <3>2 DEF Filling
    <3>3. CASE n # Target
      BY <1>1, <1>2, <3>1, <3>3 DEF Filling
    <3> QED  BY <3>2, <3>3
  <2> QED  BY <1>4, <2>1, <2>2, <2>3, <2>4, <2>5, <2>6 DEF MasterStep
<1>5. CASE ~MasterStep
  <2>1. Filling(n)' = Filling(n)
    <3>1. CASE Dispatching
      BY <1>3, <1>5, <3>1
    <3>2. CASE ~Dispatching
      <4>1. UNCHANGED mpc
        BY <1>5, WorkerFrame, ClientFrame, EnvironmentFrame
        DEF Next, vars, masterVars
      <4> QED  BY <3>2, <4>1 DEF Dispatching, Filling
    <3> QED  BY <3>1, <3>2
  <2>2. ASSUME NEW m \in Nodes, WorkerStep(m)
        PROVE  IF wpc'[n] = "dead" THEN Turns(n)' <= 1 ELSE Turns(n)' = 1
    <3>1. CASE TakeTask(m)
      BY <1>1, <1>2, <2>1, <3>1 DEF TakeTask
    <3>2. CASE PostReady(m)
      BY <1>1, <1>2, <2>1, <3>2 DEF PostReady, ForgetLocals
    <3>3. CASE LoadSession(m)
      <4>1. /\ UNCHANGED <<sem_task, sem_ready>> /\ wpc[m] = "load"
            /\ wpc' = [wpc EXCEPT ![m] = "run"] \/ wpc' = [wpc EXCEPT ![m] = "dead"]
        BY <3>3 DEF LoadSession, Dies, ForgetLocals, nodeVars
      <4> QED  BY <1>1, <1>2, <2>1, <4>1
    <3>4. CASE ~TakeTask(m) /\ ~PostReady(m) /\ ~LoadSession(m)
      <4>1. /\ UNCHANGED <<sem_task, sem_ready>> /\ wpc[m] \notin {"idle", "dead"}
            /\ \E s \in {"load", "set", "locate", "mark", "store", "flush", "writeback",
                          "rewrite",
                         "release", "post"} : wpc' = [wpc EXCEPT ![m] = s]
        BY <2>2, <3>4, RunFrame
        DEF WorkerStep, ReadBuffers, RunStatement, LocateSlot, MarkCompleted,
            StoreBegin, StoreEnd, StoreText, WriteBackSession, SessionWritten,
            UseDone, ResultReady, BeginCall, Release, nodeVars
      <4> QED  BY <1>1, <1>2, <2>1, <4>1
    <3> QED  BY <3>1, <3>2, <3>3, <3>4
  <2>3. CASE \E c \in Clients : ClientStep(c)
    BY <1>2, <2>1, <2>3, ClientFrame DEF nodeVars, workerVars
  <2>4. CASE Environment
    <3>1. UNCHANGED <<sem_task, sem_ready>>
      BY <2>4, EnvironmentFrame DEF nodeVars
    <3>2. wpc' = wpc \/ \E m \in Nodes : wpc' = [wpc EXCEPT ![m] = "dead"]
      BY <2>4
      DEF Environment, WorkerDies, Dies, ForgetLocals, StopSignal, ReceiveTimesOut,
          workerVars
    <3> QED  BY <1>1, <1>2, <2>1, <3>1, <3>2
  <2>5. CASE UNCHANGED vars
    BY <1>2, <2>1, <2>5 DEF vars, nodeVars, workerVars
  <2> QED  BY <1>5, <2>2, <2>3, <2>4, <2>5 DEF Next
<1> QED  BY <1>4, <1>5

LEMMA HandshakeInvStep == HandshakeInv /\ [Next]_vars => HandshakeInv'
  BY TypeStep, ServingTakenStep, HandshakeStep DEF HandshakeInv

(* One turn per node: the semaphores never let the master and a worker into *)
(* the node's buffers at the same time, whatever crashes and is restarted.  *)
THEOREM HandshakeCorrect == Spec => []Handshake
<1>1. Spec => []HandshakeInv
  BY HandshakeInit, HandshakeInvStep, PTL DEF Spec
<1>2. HandshakeInv => Handshake
  BY DEF HandshakeInv
<1> QED  BY <1>1, <1>2, PTL

-----------------------------------------------------------------------------
(* The busy flag.  It is set before the turn is posted and cleared by the   *)
(* holder of the turn, so the handshake keeps the two writers apart.        *)
MarkedBeforePost == mpc = "post" => is_busy[Target]

BusyInv == HandshakeInv /\ MarkedBeforePost /\ BusyWhileWorking

LEMMA BusyInit == Init => BusyInv
<1> SUFFICES ASSUME Init PROVE BusyInv
  OBVIOUS
<1>1. MarkedBeforePost /\ BusyWhileWorking
  BY DEF Init, MarkedBeforePost, BusyWhileWorking, Holds
<1> QED  BY <1>1, HandshakeInit DEF BusyInv

(* A worker that holds the turn has nothing posted and the master is not    *)
(* filling its buffers.                                                     *)
LEMMA HolderIsAlone ==
  ASSUME HandshakeInv, NEW n \in Nodes, Holds(n)
  PROVE  sem_task[n] = 0 /\ sem_ready[n] = 0 /\ ~Filling(n)
<1>1. sem_task[n] \in Nat /\ sem_ready[n] \in Nat
  BY DEF HandshakeInv, TypeOK, TypeNode
<1>2. Turns(n) = 1
  BY DEF HandshakeInv, Handshake, Holds
<1> QED  BY <1>1, <1>2 DEF Turns, Count

(* While the master fills a node's buffers nothing is posted and no worker  *)
(* holds the turn.                                                          *)
LEMMA FillerIsAlone ==
  ASSUME HandshakeInv, NEW n \in Nodes, Filling(n)
  PROVE  sem_task[n] = 0 /\ sem_ready[n] = 0 /\ ~Holds(n)
<1>1. sem_task[n] \in Nat /\ sem_ready[n] \in Nat
  BY DEF HandshakeInv, TypeOK, TypeNode
<1>2. Turns(n) <= 1
  BY DEF HandshakeInv, Handshake
<1> QED  BY <1>1, <1>2 DEF Turns, Count

LEMMA MarkedBeforePostStep == BusyInv /\ [Next]_vars => MarkedBeforePost'
<1> SUFFICES ASSUME BusyInv, [Next]_vars, mpc' = "post" PROVE is_busy'[Target']
  BY DEF MarkedBeforePost
<1>1. /\ is_busy \in [Nodes -> BOOLEAN] /\ serving \in Clients
      /\ creq \in [Clients -> Query] /\ ServingTaken /\ TypeOK /\ HandshakeInv
  BY DEF BusyInv, HandshakeInv, TypeOK, TypeNode, TypeMaster, TypeClient
<1>2. \A q \in Query : q.node \in Nodes
  BY ZeroIsANode DEF Query, Request, NoRequest
<1>3. Target \in Nodes
  BY <1>1, <1>2 DEF Target
<1>4. CASE MasterStep
  <2>1. FillBuffers
    BY <1>4
    DEF MasterStep, Poll, Shutdown, HeartbeatOk, HeartbeatRestart, NextNode,
        ServeCheck, ServeQuery, AwaitReady, PostTask, BatchServed
  <2>2. Target' = Target /\ is_busy' = [is_busy EXCEPT ![Target] = TRUE]
    BY <2>1 DEF FillBuffers, Target, clientVars
  <2> QED  BY <1>1, <1>3, <2>2
<1>5. CASE ~MasterStep
  <2>1. mpc = "post"
    BY <1>5, WorkerFrame, ClientFrame, EnvironmentFrame DEF Next, vars, masterVars
  <2>2. Target' = Target
    BY <1>1, <1>5, <2>1, TargetStable DEF Dispatching
  <2>3. is_busy[Target] /\ Filling(Target)
    BY <2>1 DEF BusyInv, MarkedBeforePost, Filling
  <2>4. ASSUME NEW m \in Nodes, WorkerStep(m) PROVE is_busy'[Target]
    <3>1. CASE Release(m)
      <4>1. m # Target
        BY <1>1, <1>3, <2>3, <3>1, FillerIsAlone DEF Release, Holds
      <4> QED  BY <1>1, <2>3, <3>1, <4>1 DEF Release
    <3>2. CASE ~Release(m)
      BY <2>3, <2>4, <3>2, RunFrame
      DEF WorkerStep, TakeTask, ReadBuffers, LoadSession, RunStatement, LocateSlot,
          MarkCompleted, StoreBegin, StoreEnd, StoreText, WriteBackSession,
          SessionWritten, UseDone, ResultReady, BeginCall, PostReady, nodeVars
    <3> QED  BY <3>1, <3>2
  <2>5. CASE (\E c \in Clients : ClientStep(c)) \/ Environment \/ UNCHANGED vars
    <3>1. UNCHANGED is_busy
      BY <2>5, ClientFrame, EnvironmentFrame DEF vars, nodeVars
    <3> QED  BY <2>2, <2>3, <3>1
  <2> QED  BY <1>5, <2>2, <2>4, <2>5 DEF Next
<1> QED  BY <1>4, <1>5

LEMMA BusyStep == BusyInv /\ [Next]_vars => BusyWhileWorking'
<1> DEFINE Work(n) == sem_task[n] > 0 \/ (Holds(n) /\ wpc[n] # "post")
<1> SUFFICES ASSUME BusyInv, [Next]_vars, NEW n \in Nodes, Work(n)'
             PROVE  is_busy'[n]
  BY DEF BusyWhileWorking
<1>1. /\ sem_task \in [Nodes -> Nat] /\ wpc \in [Nodes -> WorkerStates]
      /\ is_busy \in [Nodes -> BOOLEAN] /\ hb \in Nodes /\ HandshakeInv
  BY DEF BusyInv, HandshakeInv, TypeOK, TypeNode, TypeWorker, TypeMaster
<1>2. Work(n) => is_busy[n]
  BY DEF BusyInv, BusyWhileWorking
<1>3. CASE MasterStep
  <2>1. CASE Shutdown
    BY <1>2, <2>1 DEF Shutdown, Holds, nodeVars
  <2>2. CASE HeartbeatRestart
    <3>1. ReinitSemaphores(hb)
      BY <2>2 DEF HeartbeatRestart
    <3>2. PICK s \in {"idle", "dead"} :
            /\ wpc' = [wpc EXCEPT ![hb] = s]
            /\ is_busy' = is_busy \/ is_busy' = [is_busy EXCEPT ![hb] = FALSE]
      BY <2>2 DEF HeartbeatRestart, ForkFails, Spawn, Dies, ForgetLocals
    <3>3. n # hb
      BY <1>1, <3>1, <3>2 DEF ReinitSemaphores, Holds
    <3> QED  BY <1>1, <1>2, <3>1, <3>2, <3>3 DEF ReinitSemaphores, Holds
  <2>3. CASE FillBuffers
    BY <1>1, <1>2, <2>3 DEF FillBuffers, Holds, workerVars
  <2>4. CASE PostTask
    <3>1. /\ sem_task' = [sem_task EXCEPT ![Target] = sem_task[Target] + 1]
          /\ UNCHANGED <<wpc, is_busy>> /\ is_busy[Target]
      BY <2>4
      DEF PostTask, PostSemTask, workerVars, BusyInv, MarkedBeforePost
    <3> QED  BY <1>1, <1>2, <3>1 DEF Holds
  <2> QED
    BY <1>2, <1>3, <2>1, <2>2, <2>3, <2>4
    DEF MasterStep, Poll, HeartbeatOk, ServeCheck, ServeQuery, AwaitReady,
        BatchServed, Holds, nodeVars, workerVars
<1>4. ASSUME NEW m \in Nodes, WorkerStep(m) PROVE is_busy'[n]
  <2>1. CASE TakeTask(m)
    BY <1>1, <1>2, <2>1 DEF TakeTask, Holds
  <2>2. CASE Release(m)
    <3>1. sem_task[m] = 0
      BY <1>1, <2>2, HolderIsAlone DEF Release, Holds
    <3> QED  BY <1>1, <1>2, <2>2, <3>1 DEF Release, Holds
  <2>3. CASE PostReady(m)
    BY <1>1, <1>2, <2>3 DEF PostReady, ForgetLocals, Holds
  <2>4. CASE LoadSession(m)
    <3>1. /\ UNCHANGED <<sem_task, is_busy>> /\ wpc[m] = "load"
          /\ wpc' = [wpc EXCEPT ![m] = "run"] \/ wpc' = [wpc EXCEPT ![m] = "dead"]
      BY <2>4 DEF LoadSession, Dies, ForgetLocals, nodeVars
    <3> QED  BY <1>1, <1>2, <3>1 DEF Holds
  <2>5. CASE ~TakeTask(m) /\ ~Release(m) /\ ~PostReady(m) /\ ~LoadSession(m)
    <3>1. /\ UNCHANGED <<sem_task, is_busy>> /\ wpc[m] \notin {"idle", "dead", "post"}
          /\ \E s \in {"load", "set", "locate", "mark", "store", "flush", "writeback", "rewrite",
                       "release"} : wpc' = [wpc EXCEPT ![m] = s]
      BY <1>4, <2>5, RunFrame
      DEF WorkerStep, ReadBuffers, RunStatement, LocateSlot, MarkCompleted,
          StoreBegin, StoreEnd, StoreText, WriteBackSession, SessionWritten,
          UseDone, ResultReady, BeginCall, nodeVars
    <3> QED  BY <1>1, <1>2, <3>1 DEF Holds
  <2> QED  BY <2>1, <2>2, <2>3, <2>4, <2>5
<1>5. CASE \E c \in Clients : ClientStep(c)
  BY <1>2, <1>5, ClientFrame DEF nodeVars, workerVars, Holds
<1>6. CASE Environment
  <2>1. UNCHANGED <<sem_task, is_busy>>
    BY <1>6, EnvironmentFrame DEF nodeVars
  <2>2. wpc' = wpc \/ \E m \in Nodes : wpc' = [wpc EXCEPT ![m] = "dead"]
    BY <1>6
    DEF Environment, WorkerDies, Dies, ForgetLocals, StopSignal, ReceiveTimesOut,
        workerVars
  <2> QED  BY <1>1, <1>2, <2>1, <2>2 DEF Holds
<1>7. CASE UNCHANGED vars
  BY <1>2, <1>7 DEF vars, nodeVars, workerVars, Holds
<1> QED  BY <1>3, <1>4, <1>5, <1>6, <1>7 DEF Next

(* A node with work is marked busy: the heartbeat can tell a worker that    *)
(* hangs from one that has nothing to do.                                   *)
THEOREM BusyCorrect == Spec => []BusyWhileWorking
<1>1. BusyInv /\ [Next]_vars => BusyInv'
  BY HandshakeInvStep, MarkedBeforePostStep, BusyStep DEF BusyInv
<1>2. Spec => []BusyInv
  BY BusyInit, <1>1, PTL DEF Spec
<1>3. BusyInv => BusyWhileWorking
  BY DEF BusyInv
<1> QED  BY <1>2, <1>3, PTL

-----------------------------------------------------------------------------
(* The task a worker is given.  The bound on the number of tasks leaves room*)
(* for every query that waits; the guid and the query the master copies are *)
(* those it has just registered.                                            *)
Room              == taskCount + Cardinality(Outstanding) <= MaxTasks
ServingRegistered == Dispatching => Intact(Filled(serving))
BufferFilled      == mpc = "post" => buffer[Target] = Filled(serving)

IntactInv ==
  HandshakeInv /\ Room /\ ServingRegistered /\ BufferFilled /\ TaskIntact

LEMMA OutstandingFinite ==
  IsFiniteSet(Outstanding) /\ Cardinality(Outstanding) \in Nat
<1>1. Outstanding \subseteq Clients
  BY DEF Outstanding
<1> QED  BY <1>1, ClientsAssumption, FS_Subset, FS_CardinalityType

LEMMA IntactInit == Init => IntactInv
<1> SUFFICES ASSUME Init PROVE IntactInv
  OBVIOUS
<1>1. Outstanding = {} /\ taskCount = 0
  BY DEF Init, Outstanding
<1>2. Room
  BY <1>1, FS_EmptySet, MaxTasksAssumption DEF Room
<1>3. ServingRegistered /\ BufferFilled /\ TaskIntact
  BY DEF Init, ServingRegistered, Dispatching, BufferFilled, TaskIntact, Holds
<1> QED  BY <1>2, <1>3, HandshakeInit DEF IntactInv

(* A query waits from Submit until it is registered, or lost with the server.*)
LEMMA OutstandingSteps ==
  ASSUME TypeOK, [Next]_vars
  PROVE  \/ UNCHANGED taskCount /\ Outstanding' \subseteq Outstanding
         \/ /\ UNCHANGED taskCount
            /\ taskCount + Cardinality(Outstanding) < MaxTasks
            /\ \E c \in Clients : c \notin Outstanding
                                  /\ Outstanding' = Outstanding \cup {c}
         \/ /\ taskCount' = taskCount + 1
            /\ \E c \in Outstanding : Outstanding' = Outstanding \ {c}
<1>0. cstate \in [Clients -> ClientStates] /\ serving \in Clients
  BY DEF TypeOK, TypeClient, TypeMaster
<1> USE DEF Outstanding
<1>1. CASE MasterStep
  <2>1. ASSUME NEW c \in Clients, ServeCheck(c)
        PROVE  UNCHANGED taskCount /\ Outstanding' \subseteq Outstanding
    <3>1. \E s \in {"polling", "idle"} : cstate' = [cstate EXCEPT ![c] = s]
      BY <2>1 DEF ServeCheck, Reply
    <3> QED  BY <1>0, <2>1, <3>1 DEF ServeCheck, tableVars
  <2>2. ASSUME NEW c \in Clients, ServeQuery(c)
        PROVE  /\ taskCount' = taskCount + 1
               /\ c \in Outstanding /\ Outstanding' = Outstanding \ {c}
    <3>1. cstate' = [cstate EXCEPT ![c] = "taken"] /\ cstate[c] = "sent"
          /\ taskCount' = taskCount + 1
      BY <2>2 DEF ServeQuery
    <3> QED  BY <1>0, <3>1
  <2>3. CASE PostTask
    <3>1. \E s \in {"polling", "idle"} : cstate' = [cstate EXCEPT ![serving] = s]
      BY <2>3 DEF PostTask, Reply
    <3> QED  BY <1>0, <2>3, <3>1 DEF PostTask, tableVars
  <2>4. CASE ~PostTask /\ ~(\E c \in Clients : ServeCheck(c) \/ ServeQuery(c))
    BY <1>1, <2>4
    DEF MasterStep, Poll, Shutdown, HeartbeatOk, HeartbeatRestart, AwaitReady,
        FillBuffers, BatchServed, clientVars, tableVars
  <2> QED  BY <2>1, <2>2, <2>3, <2>4
<1>2. CASE \E n \in Nodes : WorkerStep(n)
  BY <1>2, WorkerFrame DEF clientVars
<1>3. ASSUME NEW c \in Clients, ClientStep(c)
      PROVE  \/ UNCHANGED taskCount /\ Outstanding' \subseteq Outstanding
             \/ /\ UNCHANGED taskCount
                /\ taskCount + Cardinality(Outstanding) < MaxTasks
                /\ c \notin Outstanding /\ Outstanding' = Outstanding \cup {c}
  <2>1. UNCHANGED taskCount
    BY <1>3, ClientFrame DEF tableVars
  <2>2. CASE Submit(c)
    <3>1. /\ taskCount + Cardinality(Outstanding) < MaxTasks
          /\ cstate[c] = "idle" /\ cstate' = [cstate EXCEPT ![c] = "sent"]
      BY <2>2 DEF Submit
    <3> QED  BY <1>0, <2>1, <3>1
  <2>3. CASE Check(c) \/ ConnectionLost(c)
    <3>1. \E s \in {"checking", "idle"} : cstate' = [cstate EXCEPT ![c] = s]
      BY <2>3 DEF Check, ConnectionLost
    <3> QED  BY <1>0, <2>1, <3>1
  <2> QED  BY <1>3, <2>2, <2>3 DEF ClientStep
<1>4. CASE Environment
  BY <1>4, EnvironmentFrame DEF tableVars
<1>5. CASE UNCHANGED vars
  BY <1>5 DEF vars, clientVars, tableVars
<1> QED  BY <1>1, <1>2, <1>3, <1>4, <1>5 DEF Next

LEMMA RoomStep == TypeOK /\ Room /\ [Next]_vars => Room'
<1> SUFFICES ASSUME TypeOK, Room, [Next]_vars PROVE Room'
  OBVIOUS
<1>1. taskCount \in Nat /\ MaxTasks \in Nat
  BY MaxTasksAssumption DEF TypeOK, TypeTable
<1>2. IsFiniteSet(Outstanding) /\ Cardinality(Outstanding) \in Nat
  BY OutstandingFinite
<1>3. CASE UNCHANGED taskCount /\ Outstanding' \subseteq Outstanding
  <2>1. Cardinality(Outstanding') <= Cardinality(Outstanding)
        /\ Cardinality(Outstanding') \in Nat
    BY <1>2, <1>3, FS_Subset, FS_CardinalityType
  <2> QED  BY <1>1, <1>2, <1>3, <2>1 DEF Room
<1>4. ASSUME UNCHANGED taskCount, taskCount + Cardinality(Outstanding) < MaxTasks,
             NEW c \in Clients, c \notin Outstanding, Outstanding' = Outstanding \cup {c}
      PROVE  Room'
  <2>1. Cardinality(Outstanding') = Cardinality(Outstanding) + 1
    BY <1>2, <1>4, FS_AddElement
  <2> QED  BY <1>1, <1>2, <1>4, <2>1 DEF Room
<1>5. ASSUME taskCount' = taskCount + 1, NEW c \in Outstanding,
             Outstanding' = Outstanding \ {c}
      PROVE  Room'
  <2>1. Cardinality(Outstanding') = Cardinality(Outstanding) - 1
    BY <1>2, <1>5, FS_RemoveElement
  <2> QED  BY <1>1, <1>2, <1>5, <2>1 DEF Room
<1> QED  BY <1>3, <1>4, <1>5, OutstandingSteps

(* A registration is never changed by a later one.                          *)
LEMMA RegistrationStable ==
  ASSUME TypeOK, [Next]_vars
  PROVE  \A t : Intact(t) => t.guid \in 1 .. taskCount' /\ t.req = log'[t.guid]
<1>1. taskCount \in Nat /\ log \in [1 .. MaxTasks -> Query]
  BY DEF TypeOK, TypeTable
<1>2. CASE UNCHANGED <<taskCount, log>>
  BY <1>2 DEF Intact
<1>3. ASSUME NEW c \in Clients, ServeQuery(c)
      PROVE  \A t : Intact(t) => t.guid \in 1 .. taskCount' /\ t.req = log'[t.guid]
  <2>1. taskCount' = taskCount + 1
        /\ log' = [log EXCEPT ![taskCount + 1] = creq[c]]
    BY <1>3 DEF ServeQuery
  <2>2. \A g \in 1 .. taskCount : log'[g] = log[g] /\ g \in 1 .. taskCount'
    BY <1>1, <2>1
  <2> QED  BY <2>2 DEF Intact
<1>4. CASE MasterStep
  BY <1>2, <1>3, <1>4
  DEF MasterStep, Poll, Shutdown, HeartbeatOk, HeartbeatRestart, ServeCheck,
      AwaitReady, FillBuffers, PostTask, BatchServed, tableVars
<1>5. CASE ~MasterStep
  BY <1>2, <1>5, WorkerFrame, ClientFrame, EnvironmentFrame
  DEF Next, vars, tableVars
<1> QED  BY <1>4, <1>5

(* What the master copies stays the same through the dispatch.              *)
LEMMA FilledStable ==
  ASSUME TypeOK, ServingTaken, [Next]_vars, ~MasterStep, Dispatching
  PROVE  Filled(serving)' = Filled(serving)
<1>0. creq \in [Clients -> Query] /\ serving \in Clients
  BY DEF TypeOK, TypeClient, TypeMaster
<1>1. ASSUME NEW n \in Nodes, WorkerStep(n)
      PROVE  UNCHANGED <<serving, creq, cguid>>
  BY <1>1, WorkerFrame DEF masterVars, clientVars
<1>2. ASSUME NEW c \in Clients, ClientStep(c)
      PROVE  UNCHANGED <<serving, cguid>> /\ creq'[serving] = creq[serving]
  <2>1. UNCHANGED <<serving, cguid>>
    BY <1>2, ClientFrame DEF masterVars, ClientStep, Submit, Check, ConnectionLost
  <2>2. cstate[serving] = "taken"
    BY DEF ServingTaken
  <2>3. CASE Submit(c)
    <3>1. c # serving
      BY <2>2, <2>3 DEF Submit
    <3>2. PICK r : creq' = [creq EXCEPT ![c] = r]
      BY <2>3 DEF Submit
    <3> QED  BY <1>0, <2>1, <3>1, <3>2
  <2> QED  BY <1>2, <2>1, <2>3 DEF ClientStep, Check, ConnectionLost
<1>3. CASE Environment
  BY <1>3, EnvironmentFrame DEF Filled
<1>4. CASE UNCHANGED vars
  BY <1>4 DEF vars, masterVars, clientVars, Filled
<1> QED  BY <1>1, <1>2, <1>3, <1>4 DEF Next, Filled

LEMMA ServingRegisteredStep == IntactInv /\ [Next]_vars => ServingRegistered'
<1> SUFFICES ASSUME IntactInv, [Next]_vars, Dispatching'
             PROVE  Intact(Filled(serving))'
  BY DEF ServingRegistered
<1>0. TypeOK /\ ServingTaken
  BY DEF IntactInv, HandshakeInv
<1>1. ASSUME Dispatching, Filled(serving)' = Filled(serving)
      PROVE  Intact(Filled(serving))'
  <2>1. Intact(Filled(serving))
    BY <1>1 DEF IntactInv, ServingRegistered
  <2> QED  BY <1>0, <1>1, <2>1, RegistrationStable DEF Intact
<1>2. ASSUME NEW c \in Clients, ServeQuery(c) PROVE Intact(Filled(serving))'
  <2>1. /\ serving' = c /\ creq' = creq /\ c \in Outstanding
        /\ cguid' = [cguid EXCEPT ![c] = taskCount + 1]
        /\ taskCount' = taskCount + 1
        /\ log' = [log EXCEPT ![taskCount + 1] = creq[c]]
    BY <1>2 DEF ServeQuery, Outstanding
  <2>2. /\ taskCount \in Nat /\ log \in [1 .. MaxTasks -> Query]
        /\ cguid \in [Clients -> Nat]
    BY <1>0 DEF TypeOK, TypeTable, TypeClient
  <2>3. taskCount + 1 \in 1 .. MaxTasks
    <3>1. Cardinality(Outstanding) # 0
      BY <2>1, OutstandingFinite, FS_EmptySet
    <3> QED  BY <2>2, <3>1, OutstandingFinite, MaxTasksAssumption DEF IntactInv, Room
  <2>4. cguid'[c] = taskCount + 1 /\ log'[taskCount + 1] = creq[c]
    BY <2>1, <2>2, <2>3
  <2>5. Filled(serving)' = [guid |-> taskCount + 1, req |-> creq[c]]
    BY <2>1, <2>4 DEF Filled
  <2>6. taskCount + 1 \in 1 .. taskCount'
    BY <2>1, <2>2
  <2> QED  BY <2>4, <2>5, <2>6 DEF Intact
<1>3. CASE AwaitReady \/ FillBuffers
  BY <1>1, <1>3 DEF AwaitReady, FillBuffers, Dispatching, Filled, clientVars
<1>4. CASE MasterStep
  BY <1>2, <1>3, <1>4
  DEF MasterStep, Poll, Shutdown, HeartbeatOk, HeartbeatRestart, NextNode, ServeCheck,
      PostTask, BatchServed, Dispatching
<1>5. CASE ~MasterStep
  <2>1. Dispatching
    BY <1>5, WorkerFrame, ClientFrame, EnvironmentFrame
    DEF Next, vars, masterVars, Dispatching
  <2> QED  BY <1>0, <1>1, <1>5, <2>1, FilledStable
<1> QED  BY <1>4, <1>5

LEMMA BufferFilledStep == IntactInv /\ [Next]_vars => BufferFilled'
<1> SUFFICES ASSUME IntactInv, [Next]_vars, mpc' = "post"
             PROVE  buffer'[Target'] = Filled(serving)'
  BY DEF BufferFilled
<1>0. /\ TypeOK /\ ServingTaken /\ buffer \in [Nodes -> Task]
      /\ serving \in Clients /\ creq \in [Clients -> Query]
  BY DEF IntactInv, HandshakeInv, TypeOK, TypeNode, TypeMaster, TypeClient
<1>1. CASE MasterStep
  <2>1. FillBuffers
    BY <1>1
    DEF MasterStep, Poll, Shutdown, HeartbeatOk, HeartbeatRestart, NextNode,
        ServeCheck, ServeQuery, AwaitReady, PostTask, BatchServed
  <2>2. /\ Target' = Target /\ Filled(serving)' = Filled(serving)
        /\ buffer' = [buffer EXCEPT ![Target] = Filled(serving)]
    BY <2>1 DEF FillBuffers, Target, Filled, clientVars
  <2>3. Target \in Nodes
    BY <1>0, ZeroIsANode DEF Target, Query, Request, NoRequest
  <2> QED  BY <1>0, <2>2, <2>3
<1>2. CASE ~MasterStep
  <2>1. mpc = "post" /\ buffer' = buffer
    BY <1>2, WorkerFrame, ClientFrame, EnvironmentFrame
    DEF Next, vars, masterVars, nodeVars
  <2>2. Target' = Target /\ Filled(serving)' = Filled(serving)
    BY <1>0, <1>2, <2>1, TargetStable, FilledStable DEF Dispatching
  <2> QED  BY <2>1, <2>2 DEF IntactInv, BufferFilled
<1> QED  BY <1>1, <1>2

LEMMA TaskIntactStep == IntactInv /\ [Next]_vars => TaskIntact'
<1> DEFINE Reads(n)  == sem_task[n] > 0 \/ wpc[n] = "taken"
           Works(n)  == Holds(n) /\ wpc[n] # "taken"
           Good(n)   == (Reads(n) => Intact(buffer[n])) /\ (Works(n) => Intact(wtask[n]))
<1> SUFFICES ASSUME IntactInv, [Next]_vars, NEW n \in Nodes PROVE Good(n)'
  BY DEF TaskIntact
<1>1. /\ sem_task \in [Nodes -> Nat] /\ wpc \in [Nodes -> WorkerStates]
      /\ wtask \in [Nodes -> Task] /\ buffer \in [Nodes -> Task] /\ hb \in Nodes
      /\ HandshakeInv /\ TypeOK
  BY DEF IntactInv, HandshakeInv, TypeOK, TypeNode, TypeWorker, TypeMaster
<1>2. Good(n)
  BY DEF IntactInv, TaskIntact
<1>3. /\ Intact(buffer[n]) /\ buffer'[n] = buffer[n] => Intact(buffer[n])'
      /\ Intact(wtask[n]) /\ wtask'[n] = wtask[n] => Intact(wtask[n])'
      /\ Intact(buffer[n]) /\ wtask'[n] = buffer[n] => Intact(wtask[n])'
  BY <1>1, RegistrationStable DEF Intact
<1>4. ASSUME UNCHANGED <<sem_task, wpc, wtask, buffer>> PROVE Good(n)'
  BY <1>2, <1>3, <1>4 DEF Holds
<1>5. CASE MasterStep
  <2>1. CASE Shutdown
    BY <1>2, <1>3, <2>1 DEF Shutdown, Holds, nodeVars
  <2>2. CASE HeartbeatRestart
    <3>1. ReinitSemaphores(hb) /\ UNCHANGED buffer
      BY <2>2 DEF HeartbeatRestart
    <3>2. PICK s \in {"idle", "dead"} : /\ wpc' = [wpc EXCEPT ![hb] = s]
                                        /\ wtask' = [wtask EXCEPT ![hb] = NoTask]
      BY <2>2 DEF HeartbeatRestart, ForkFails, Spawn, Dies, ForgetLocals
    <3>3. CASE n = hb
      BY <1>1, <3>1, <3>2, <3>3 DEF ReinitSemaphores, Holds
    <3>4. CASE n # hb
      BY <1>1, <1>2, <1>3, <3>1, <3>2, <3>4 DEF ReinitSemaphores, Holds
    <3> QED  BY <3>3, <3>4
  <2>3. CASE FillBuffers
    <3>1. /\ UNCHANGED <<sem_task, wpc, wtask>> /\ mpc = "fill"
          /\ buffer' = [buffer EXCEPT ![Target] = Filled(serving)]
      BY <2>3 DEF FillBuffers, workerVars
    <3>2. CASE n = Target
      <4>1. sem_task[n] = 0 /\ ~Holds(n)
        BY <1>1, <3>1, <3>2, FillerIsAlone DEF Filling
      <4> QED  BY <1>2, <1>3, <3>1, <4>1 DEF Holds
    <3>3. CASE n # Target
      BY <1>1, <1>2, <1>3, <3>1, <3>3 DEF Holds
    <3> QED  BY <3>2, <3>3
  <2>4. CASE PostTask
    <3>1. /\ UNCHANGED <<wpc, wtask, buffer>> /\ mpc = "post"
          /\ sem_task' = [sem_task EXCEPT ![Target] = sem_task[Target] + 1]
      BY <2>4 DEF PostTask, PostSemTask, workerVars
    <3>2. CASE n = Target
      <4>1. Intact(buffer[n])
        BY <3>1, <3>2
        DEF IntactInv, BufferFilled, ServingRegistered, Dispatching
      <4> QED  BY <1>2, <1>3, <3>1, <4>1 DEF Holds
    <3>3. CASE n # Target
      BY <1>1, <1>2, <1>3, <3>1, <3>3 DEF Holds
    <3> QED  BY <3>2, <3>3
  <2> QED
    BY <1>4, <1>5, <2>1, <2>2, <2>3, <2>4
    DEF MasterStep, Poll, HeartbeatOk, ServeCheck, ServeQuery, AwaitReady,
        BatchServed, nodeVars, workerVars
<1>6. ASSUME NEW m \in Nodes, WorkerStep(m) PROVE Good(n)'
  <2>0. buffer' = buffer
    BY <1>6, WorkerFrame
  <2>1. CASE TakeTask(m)
    BY <1>1, <1>2, <1>3, <2>0, <2>1 DEF TakeTask, Holds
  <2>2. CASE ReadBuffers(m)
    BY <1>1, <1>2, <1>3, <2>0, <2>2 DEF ReadBuffers, Holds, nodeVars
  <2>3. CASE PostReady(m) \/ (LoadSession(m) /\ Dies(m))
    <3>1. sem_task' = sem_task
      BY <2>3 DEF PostReady, LoadSession, nodeVars
    <3>2. PICK s \in {"idle", "dead"} : /\ wpc' = [wpc EXCEPT ![m] = s]
                                        /\ wtask' = [wtask EXCEPT ![m] = NoTask]
      BY <2>3 DEF PostReady, Dies, ForgetLocals
    <3> QED  BY <1>1, <1>2, <1>3, <2>0, <3>1, <3>2 DEF Holds
  <2>4. CASE ~TakeTask(m) /\ ~ReadBuffers(m) /\ ~PostReady(m)
            /\ ~(LoadSession(m) /\ Dies(m))
    <3>1. /\ UNCHANGED <<sem_task, wtask>> /\ wpc[m] \notin {"idle", "dead", "taken"}
          /\ \E s \in {"run", "set", "locate", "mark", "store", "flush", "writeback", "rewrite",
                       "release", "post"} : wpc' = [wpc EXCEPT ![m] = s]
      BY <1>6, <2>4, RunFrame
      DEF WorkerStep, LoadSession, RunStatement, LocateSlot, MarkCompleted,
          StoreBegin, StoreEnd, StoreText, WriteBackSession, SessionWritten,
          UseDone, ResultReady, BeginCall, Release, nodeVars
    <3> QED  BY <1>1, <1>2, <1>3, <2>0, <3>1 DEF Holds
  <2> QED  BY <2>1, <2>2, <2>3, <2>4
<1>7. CASE \E c \in Clients : ClientStep(c)
  BY <1>4, <1>7, ClientFrame DEF nodeVars, workerVars
<1>8. CASE Environment
  <2>1. UNCHANGED <<sem_task, buffer>>
    BY <1>8, EnvironmentFrame DEF nodeVars
  <2>2. \/ UNCHANGED <<wpc, wtask>>
        \/ \E m \in Nodes : /\ wpc' = [wpc EXCEPT ![m] = "dead"]
                            /\ wtask' = [wtask EXCEPT ![m] = NoTask]
    BY <1>8
    DEF Environment, WorkerDies, Dies, ForgetLocals, StopSignal, ReceiveTimesOut,
        workerVars
  <2> QED  BY <1>1, <1>2, <1>3, <2>1, <2>2 DEF Holds
<1>9. CASE UNCHANGED vars
  BY <1>4, <1>9 DEF vars, nodeVars, workerVars
<1> QED  BY <1>5, <1>6, <1>7, <1>8, <1>9 DEF Next

LEMMA IntactInvStep == IntactInv /\ [Next]_vars => IntactInv'
  BY HandshakeInvStep, RoomStep, ServingRegisteredStep, BufferFilledStep,
     TaskIntactStep
  DEF IntactInv, HandshakeInv

(* A worker never pairs the guid of one task with the query of another.     *)
THEOREM TaskIntactCorrect == Spec => []TaskIntact
<1>1. Spec => []IntactInv
  BY IntactInit, IntactInvStep, PTL DEF Spec
<1>2. IntactInv => TaskIntact
  BY DEF IntactInv
<1> QED  BY <1>1, <1>2, PTL

-----------------------------------------------------------------------------
(* Executing a task.  Before it is executed a task is in one place: with the*)
(* master that dispatches it, or with one node.                             *)
CarriedOnce ==
  \A n \in Nodes : \A g \in 1 .. taskCount :
    Carries(n, g) => runs[g] = 0 /\ \A m \in Nodes : Carries(m, g) => m = n

ServingFresh ==
  Dispatching => /\ runs[cguid[serving]] = 0
                 /\ \A n \in Nodes : ~Carries(n, cguid[serving])

NotYetRun == \A g \in 1 .. MaxTasks : g > taskCount => runs[g] = 0

OnceInv == IntactInv /\ CarriedOnce /\ ServingFresh /\ NotYetRun /\ AtMostOnce

LEMMA OnceInit == Init => OnceInv
<1> SUFFICES ASSUME Init PROVE OnceInv
  OBVIOUS
<1>1. CarriedOnce /\ ServingFresh /\ NotYetRun /\ AtMostOnce
  BY DEF Init, CarriedOnce, ServingFresh, Dispatching, NotYetRun, AtMostOnce
<1> QED  BY <1>1, IntactInit DEF OnceInv

LEMMA TasksInBound ==
  ASSUME IntactInv
  PROVE  taskCount \in Nat /\ taskCount <= MaxTasks
<1>1. taskCount \in Nat /\ taskCount + Cardinality(Outstanding) <= MaxTasks
  BY DEF IntactInv, Room, HandshakeInv, TypeOK, TypeTable
<1> QED  BY <1>1, OutstandingFinite, MaxTasksAssumption

(* What a node carries is registered.                                       *)
LEMMA CarriedIsRegistered ==
  ASSUME IntactInv, NEW n \in Nodes, NEW g, Carries(n, g)
  PROVE  g \in 1 .. taskCount
  BY DEF IntactInv, TaskIntact, Intact, Carries, Holds

(* Only the post of a task gives a node something to carry.                 *)
LEMMA CarriesShrinks ==
  ASSUME IntactInv, [Next]_vars, ~PostTask, NEW n \in Nodes, NEW g, Carries(n, g)'
  PROVE  Carries(n, g)
<1> USE DEF Carries
<1>1. /\ sem_task \in [Nodes -> Nat] /\ wpc \in [Nodes -> WorkerStates]
      /\ wtask \in [Nodes -> Task] /\ buffer \in [Nodes -> Task] /\ hb \in Nodes
      /\ HandshakeInv
  BY DEF IntactInv, HandshakeInv, TypeOK, TypeNode, TypeWorker, TypeMaster
<1>2. ASSUME UNCHANGED <<sem_task, wpc, wtask, buffer>> PROVE Carries(n, g)
  BY <1>2
<1>3. CASE MasterStep
  <2>1. CASE Shutdown
    BY <2>1 DEF Shutdown, nodeVars
  <2>2. CASE HeartbeatRestart
    <3>1. ReinitSemaphores(hb) /\ UNCHANGED buffer
      BY <2>2 DEF HeartbeatRestart
    <3>2. PICK s \in {"idle", "dead"} : /\ wpc' = [wpc EXCEPT ![hb] = s]
                                        /\ wtask' = [wtask EXCEPT ![hb] = NoTask]
      BY <2>2 DEF HeartbeatRestart, ForkFails, Spawn, Dies, ForgetLocals
    <3>3. n # hb
      BY <1>1, <3>1, <3>2 DEF ReinitSemaphores
    <3> QED  BY <1>1, <3>1, <3>2, <3>3 DEF ReinitSemaphores
  <2>3. CASE FillBuffers
    <3>1. /\ UNCHANGED <<sem_task, wpc, wtask>> /\ mpc = "fill"
          /\ buffer' = [buffer EXCEPT ![Target] = Filled(serving)]
      BY <2>3 DEF FillBuffers, workerVars
    <3>2. CASE n = Target
      <4>1. sem_task[n] = 0 /\ ~Holds(n)
        BY <1>1, <3>1, <3>2, FillerIsAlone DEF Filling
      <4> QED  BY <3>1, <4>1 DEF Holds
    <3>3. CASE n # Target
      BY <1>1, <3>1, <3>3
    <3> QED  BY <3>2, <3>3
  <2> QED
    BY <1>2, <1>3, <2>1, <2>2, <2>3
    DEF MasterStep, Poll, HeartbeatOk, ServeCheck, ServeQuery, AwaitReady,
        BatchServed, nodeVars, workerVars
<1>4. ASSUME NEW m \in Nodes, WorkerStep(m) PROVE Carries(n, g)
  <2>0. buffer' = buffer
    BY <1>4, WorkerFrame
  <2>1. CASE TakeTask(m)
    BY <1>1, <2>0, <2>1 DEF TakeTask
  <2>2. CASE ReadBuffers(m)
    BY <1>1, <2>0, <2>2 DEF ReadBuffers, nodeVars
  <2>3. CASE LoadSession(m)
    <3>1. /\ sem_task' = sem_task /\ wpc[m] = "load"
          /\ \/ wpc' = [wpc EXCEPT ![m] = "run"] /\ wtask' = wtask
             \/ wpc' = [wpc EXCEPT ![m] = "dead"]
                /\ wtask' = [wtask EXCEPT ![m] = NoTask]
      BY <2>3 DEF LoadSession, Dies, ForgetLocals, nodeVars
    <3> QED  BY <1>1, <2>0, <3>1
  <2>4. CASE PostReady(m)
    BY <1>1, <2>0, <2>4 DEF PostReady, ForgetLocals
  <2>5. CASE ~TakeTask(m) /\ ~ReadBuffers(m) /\ ~LoadSession(m) /\ ~PostReady(m)
    <3>1. /\ UNCHANGED <<sem_task, wtask>>
          /\ \E s \in {"set", "locate", "mark", "store", "flush", "writeback", "rewrite",
                       "release", "post"} : wpc' = [wpc EXCEPT ![m] = s]
      BY <1>4, <2>5, RunFrame
      DEF WorkerStep, RunStatement, LocateSlot, MarkCompleted, StoreBegin, StoreEnd,
          StoreText, WriteBackSession, SessionWritten, UseDone, ResultReady,
          BeginCall, Release, nodeVars
    <3> QED  BY <1>1, <2>0, <3>1
  <2> QED  BY <2>1, <2>2, <2>3, <2>4, <2>5
<1>5. CASE \E c \in Clients : ClientStep(c)
  BY <1>2, <1>5, ClientFrame DEF nodeVars, workerVars
<1>6. CASE Environment
  <2>1. UNCHANGED <<sem_task, buffer>>
    BY <1>6, EnvironmentFrame DEF nodeVars
  <2>2. \/ UNCHANGED <<wpc, wtask>>
        \/ \E m \in Nodes : /\ wpc' = [wpc EXCEPT ![m] = "dead"]
                            /\ wtask' = [wtask EXCEPT ![m] = NoTask]
    BY <1>6
    DEF Environment, WorkerDies, Dies, ForgetLocals, StopSignal, ReceiveTimesOut,
        workerVars
  <2> QED  BY <1>1, <2>1, <2>2
<1>7. CASE UNCHANGED vars
  BY <1>2, <1>7 DEF vars, nodeVars, workerVars
<1> QED  BY <1>3, <1>4, <1>5, <1>6, <1>7 DEF Next

(* What the master dispatches, or has just registered, stays the same.      *)
LEMMA ServingStable ==
  ASSUME IntactInv, [Next]_vars, Dispatching',
         \A c \in Clients : ~ServeQuery(c)
  PROVE  Dispatching /\ cguid'[serving'] = cguid[serving]
<1>0. TypeOK /\ ServingTaken
  BY DEF IntactInv, HandshakeInv
<1>1. CASE MasterStep
  <2>1. AwaitReady \/ FillBuffers
    BY <1>1
    DEF MasterStep, Poll, Shutdown, HeartbeatOk, HeartbeatRestart, NextNode,
        ServeCheck, PostTask, BatchServed, Dispatching
  <2> QED  BY <2>1 DEF AwaitReady, FillBuffers, clientVars, Dispatching
<1>2. CASE ~MasterStep
  <2>1. Dispatching
    BY <1>2, WorkerFrame, ClientFrame, EnvironmentFrame
    DEF Next, vars, masterVars, Dispatching
  <2>2. Filled(serving)' = Filled(serving)
    BY <1>0, <1>2, <2>1, FilledStable
  <2> QED  BY <2>1, <2>2 DEF Filled
<1> QED  BY <1>1, <1>2

LEMMA OnceStep ==
  OnceInv /\ [Next]_vars => (CarriedOnce /\ ServingFresh /\ NotYetRun /\ AtMostOnce)'
<1> SUFFICES ASSUME OnceInv, [Next]_vars
             PROVE  (CarriedOnce /\ ServingFresh /\ NotYetRun /\ AtMostOnce)'
  OBVIOUS
<1>0. /\ IntactInv /\ CarriedOnce /\ ServingFresh /\ NotYetRun /\ AtMostOnce
      /\ taskCount \in Nat /\ taskCount <= MaxTasks /\ MaxTasks \in Nat
  BY TasksInBound, MaxTasksAssumption DEF OnceInv
<1>1. runs \in [1 .. MaxTasks -> Nat]
  BY <1>0 DEF IntactInv, HandshakeInv, TypeOK, TypeSession
<1>2. taskCount' \in Nat /\ taskCount' >= taskCount
  <2>1. taskCount' = taskCount \/ taskCount' = taskCount + 1
    BY <1>0, OutstandingSteps DEF IntactInv, HandshakeInv
  <2> QED  BY <1>0, <2>1
<1>3. ASSUME NEW n \in Nodes, NEW g, Carries(n, g) PROVE g \in 1 .. taskCount
  BY <1>0, <1>3, CarriedIsRegistered
<1>4. ASSUME NEW m \in Nodes, RunStatement(m)
      PROVE  (CarriedOnce /\ ServingFresh /\ NotYetRun /\ AtMostOnce)'
  <2> DEFINE h == wtask[m].guid
  <2>1. /\ wpc[m] = "run" /\ \E s \in {"set", "locate"} : wpc' = [wpc EXCEPT ![m] = s]
        /\ runs' = [runs EXCEPT ![h] = runs[h] + 1]
        /\ UNCHANGED <<masterVars, clientVars, taskCount, sem_task, wtask>>
    BY <1>4, RunFrame DEF tableVars, nodeVars
  <2>2. Carries(m, h) /\ h \in 1 .. taskCount /\ h \in 1 .. MaxTasks
    <3>1. Carries(m, h)
      BY <2>1 DEF Carries
    <3> QED  BY <1>0, <1>3, <3>1
  <2>3. runs[h] = 0 /\ \A n \in Nodes : Carries(n, h) => n = m
    BY <1>0, <2>2 DEF CarriedOnce
  <2>4. ASSUME NEW g PROVE ~Carries(m, g)'
    <3>1. sem_task[m] = 0
      BY <1>0, <2>1, HolderIsAlone DEF IntactInv, Holds
    <3>2. wpc'[m] \in {"set", "locate"}
      BY <1>0, <2>1 DEF IntactInv, HandshakeInv, TypeOK, TypeWorker
    <3> QED  BY <2>1, <3>1, <3>2 DEF Carries
  <2>5. ASSUME NEW n \in Nodes, NEW g, Carries(n, g)' PROVE Carries(n, g) /\ g # h
    <3>1. ~PostTask
      BY <2>1 DEF PostTask, masterVars
    <3>2. Carries(n, g)
      BY <1>0, <2>5, <3>1, CarriesShrinks
    <3> QED  BY <2>3, <2>4, <2>5, <3>2
  <2>6. \A g \in 1 .. MaxTasks : runs'[g] = IF g = h THEN 1 ELSE runs[g]
    BY <1>1, <2>1, <2>2, <2>3
  <2> HIDE DEF h
  <2>7. CarriedOnce'
    BY <1>0, <1>3, <2>1, <2>5, <2>6 DEF CarriedOnce
  <2>8. ServingFresh'
    <3>1. CASE Dispatching
      <4>1. runs[cguid[serving]] = 0 /\ cguid[serving] # h
            /\ \A n \in Nodes : ~Carries(n, cguid[serving])
        BY <1>0, <2>2, <3>1 DEF ServingFresh
      <4>2. cguid[serving] \in 1 .. MaxTasks
        BY <1>0, <3>1 DEF IntactInv, ServingRegistered, Intact, Filled
      <4> QED
        BY <2>1, <2>5, <2>6, <4>1, <4>2
        DEF ServingFresh, masterVars, clientVars
    <3>2. CASE ~Dispatching
      BY <2>1, <3>2 DEF ServingFresh, Dispatching, masterVars
    <3> QED  BY <3>1, <3>2
  <2>9. NotYetRun'
    BY <1>0, <2>1, <2>2, <2>6 DEF NotYetRun
  <2>10. AtMostOnce'
    BY <1>0, <2>6 DEF AtMostOnce
  <2> QED  BY <2>7, <2>8, <2>9, <2>10
<1>5. ASSUME UNCHANGED runs
      PROVE  NotYetRun' /\ AtMostOnce'
  BY <1>0, <1>2, <1>5 DEF NotYetRun, AtMostOnce
<1>6. ASSUME NEW c \in Clients, ServeQuery(c)
      PROVE  (CarriedOnce /\ ServingFresh /\ NotYetRun /\ AtMostOnce)'
  <2>1. /\ serving' = c /\ cguid' = [cguid EXCEPT ![c] = taskCount + 1]
        /\ taskCount' = taskCount + 1 /\ c \in Outstanding
        /\ UNCHANGED <<runs, sem_task, buffer, wpc, wtask>>
    BY <1>6 DEF ServeQuery, Outstanding, nodeVars, workerVars, sessionVars
  <2>2. cguid'[serving'] = taskCount + 1
    BY <1>0, <2>1 DEF IntactInv, HandshakeInv, TypeOK, TypeClient
  <2>3. taskCount + 1 \in 1 .. MaxTasks
    <3>1. Cardinality(Outstanding) # 0
      BY <2>1, OutstandingFinite, FS_EmptySet
    <3> QED  BY <1>0, <3>1, OutstandingFinite DEF IntactInv, Room
  <2>4. \A n \in Nodes : \A g : Carries(n, g)' <=> Carries(n, g)
    BY <2>1 DEF Carries
  <2>5. CarriedOnce'
    BY <1>0, <1>3, <2>1, <2>4 DEF CarriedOnce
  <2>6. ServingFresh'
    <3>1. runs[taskCount + 1] = 0
      BY <1>0, <2>3 DEF NotYetRun
    <3>2. \A n \in Nodes : ~Carries(n, taskCount + 1)
      BY <1>0, <1>3
    <3> QED  BY <2>1, <2>2, <2>4, <3>1, <3>2 DEF ServingFresh
  <2> QED  BY <1>5, <2>1, <2>5, <2>6
<1>7. CASE PostTask
  <2> DEFINE h == cguid[serving]
  <2>1. /\ mpc = "post" /\ mpc' = "serve"
        /\ sem_task' = [sem_task EXCEPT ![Target] = sem_task[Target] + 1]
        /\ UNCHANGED <<taskCount, buffer, wpc, wtask, runs>>
    BY <1>7 DEF PostTask, PostSemTask, tableVars, workerVars, sessionVars
  <2>2. /\ runs[h] = 0 /\ \A n \in Nodes : ~Carries(n, h)
        /\ buffer[Target].guid = h
    BY <1>0, <2>1 DEF ServingFresh, Dispatching, IntactInv, BufferFilled, Filled
  <2>3. ASSUME NEW n \in Nodes, NEW g, Carries(n, g)'
        PROVE  Carries(n, g) \/ (n = Target /\ g = h)
    BY <1>0, <2>1, <2>2, <2>3
    DEF Carries, IntactInv, HandshakeInv, TypeOK, TypeNode
  <2> HIDE DEF h
  <2>4. CarriedOnce'
    BY <1>0, <1>3, <2>1, <2>2, <2>3 DEF CarriedOnce
  <2>5. ServingFresh'
    BY <2>1 DEF ServingFresh, Dispatching
  <2> QED  BY <1>5, <2>1, <2>4, <2>5
<1>8. CASE /\ ~PostTask /\ \A c \in Clients : ~ServeQuery(c)
           /\ \A m \in Nodes : ~RunStatement(m)
  <2>1. UNCHANGED runs
    BY <1>8, MasterFrame, ClientFrame, EnvironmentFrame
    DEF Next, vars, sessionVars, WorkerStep, TakeTask, ReadBuffers, LoadSession,
        LocateSlot, MarkCompleted, StoreBegin, StoreEnd, StoreText,
        WriteBackSession, SessionWritten, UseDone, ResultReady, BeginCall, Release,
        PostReady
  <2>2. ASSUME NEW n \in Nodes, NEW g, Carries(n, g)' PROVE Carries(n, g)
    BY <1>0, <1>8, <2>2, CarriesShrinks
  <2>3. CarriedOnce'
    BY <1>0, <1>3, <2>1, <2>2 DEF CarriedOnce
  <2>4. ServingFresh'
    <3>1. Dispatching' => Dispatching /\ cguid'[serving'] = cguid[serving]
      BY <1>0, <1>8, ServingStable
    <3> QED  BY <1>0, <2>1, <2>2, <3>1 DEF ServingFresh
  <2> QED  BY <1>5, <2>1, <2>3, <2>4
<1> QED  BY <1>4, <1>6, <1>7, <1>8

(* No statement is executed twice: a worker's death can lose the task it    *)
(* carried, never hand it to two workers.                                   *)
THEOREM AtMostOnceCorrect == Spec => []AtMostOnce
<1>1. OnceInv /\ [Next]_vars => OnceInv'
  BY IntactInvStep, OnceStep DEF OnceInv
<1>2. Spec => []OnceInv
  BY OnceInit, <1>1, PTL DEF Spec
<1>3. OnceInv => AtMostOnce
  BY DEF OnceInv
<1> QED  BY <1>2, <1>3, PTL
=============================================================================
