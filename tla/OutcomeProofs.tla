---------------------------- MODULE OutcomeProofs ----------------------------
(***************************************************************************)
(* Proofs about what faults and other sessions can do in Cluster.tla: how  *)
(* many tasks are lost with the workers, and which database a session's    *)
(* statements run against, for any number of workers, clients, slots,      *)
(* tokens, tasks and environment events.                                   *)
(***************************************************************************)
EXTENDS ServiceProofs

-----------------------------------------------------------------------------
(* Lost tasks.  A node carries one task at most.                            *)
GuidOf(n) == IF wpc[n] \in {"load", "run"} THEN wtask[n].guid ELSE buffer[n].guid

LEMMA CarriesOne ==
  ASSUME OnceInv, NEW n \in Nodes, NEW g, Carries(n, g)
  PROVE  g = GuidOf(n)
<1>1. HandshakeInv
  BY DEF OnceInv, IntactInv
<1>2. wpc[n] \in {"load", "run"} => sem_task[n] = 0
  BY <1>1, HolderIsAlone DEF Holds
<1> QED  BY <1>2 DEF Carries, GuidOf

LEMMA LossTypes ==
  ASSUME OnceInv
  PROVE  /\ HandshakeInv /\ TypeOK /\ IntactInv
         /\ sem_task \in [Nodes -> Nat] /\ sem_ready \in [Nodes -> Nat]
         /\ wpc \in [Nodes -> WorkerStates] /\ wtask \in [Nodes -> Task]
         /\ buffer \in [Nodes -> Task] /\ hb \in Nodes /\ restarts \in Nat
  BY DEF OnceInv, IntactInv, HandshakeInv, TypeOK, TypeNode, TypeWorker, TypeMaster,
         TypeBound

(* A node stops carrying a task when the worker executes it, dies with it   *)
(* in its hands, or is restarted.                                           *)
LEMMA CarriesKept ==
  ASSUME OnceInv, [Next]_vars, NEW n \in Nodes, NEW g, Carries(n, g)
  PROVE  \/ Carries(n, g)' \/ RunStatement(n)
         \/ Holds(n) /\ wpc'[n] = "dead"
         \/ HeartbeatRestart /\ n = hb
<1> USE DEF Carries, Holds
<1>1. ASSUME UNCHANGED <<sem_task, wpc, wtask, buffer>> PROVE Carries(n, g)'
  BY <1>1
<1>2. CASE MasterStep
  <2>1. CASE Shutdown
    BY <2>1 DEF Shutdown, nodeVars
  <2>2. CASE HeartbeatRestart /\ n # hb
    BY <2>2, LossTypes
    DEF HeartbeatRestart, ReinitSemaphores, ForkFails, Spawn, Dies, ForgetLocals
  <2>3. CASE FillBuffers
    <3>1. /\ UNCHANGED <<sem_task, wpc, wtask>> /\ mpc = "fill"
          /\ buffer' = [buffer EXCEPT ![Target] = Filled(serving)]
      BY <2>3 DEF FillBuffers, workerVars
    <3>2. n # Target
      BY <3>1, FillerIsAlone, LossTypes DEF Filling
    <3> QED  BY <3>1, <3>2, LossTypes
  <2>4. CASE PostTask
    BY <2>4, LossTypes DEF PostTask, PostSemTask, workerVars
  <2> QED
    BY <1>1, <1>2, <2>1, <2>2, <2>3, <2>4
    DEF MasterStep, Poll, HeartbeatOk, ServeCheck, ServeQuery, AwaitReady,
        BatchServed, nodeVars, workerVars
<1>3. ASSUME NEW m \in Nodes, WorkerStep(m), ~RunStatement(n)
      PROVE  Carries(n, g)' \/ (Holds(n) /\ wpc'[n] = "dead")
  <2>0. buffer' = buffer
    BY <1>3, WorkerFrame
  <2>1. CASE TakeTask(m)
    BY <2>0, <2>1, LossTypes DEF TakeTask
  <2>2. CASE ReadBuffers(m)
    BY <2>0, <2>2, LossTypes, HolderIsAlone DEF ReadBuffers, nodeVars
  <2>3. CASE LoadSession(m)
    <3>1. /\ sem_task' = sem_task /\ wpc[m] = "load"
          /\ \/ wpc' = [wpc EXCEPT ![m] = "run"] /\ wtask' = wtask
             \/ wpc' = [wpc EXCEPT ![m] = "dead"]
                /\ wtask' = [wtask EXCEPT ![m] = NoTask]
      BY <2>3 DEF LoadSession, Dies, ForgetLocals, nodeVars
    <3> QED  BY <2>0, <3>1, LossTypes
  <2>4. CASE PostReady(m)
    BY <2>0, <2>4, LossTypes DEF PostReady, ForgetLocals
  <2>5. CASE ~TakeTask(m) /\ ~ReadBuffers(m) /\ ~LoadSession(m) /\ ~PostReady(m)
    <3>1. /\ UNCHANGED <<sem_task, wtask>>
          /\ wpc[m] \notin {"load", "taken"} /\ (wpc[m] = "run" => RunStatement(m))
          /\ \E s \in {"set", "locate", "mark", "store", "flush", "writeback",
                       "rewrite", "release", "post"} : wpc' = [wpc EXCEPT ![m] = s]
      BY <1>3, <2>5, RunFrame
      DEF WorkerStep, UseDone, ResultReady, LocateSlot, MarkCompleted, StoreBegin,
          StoreEnd, StoreText, WriteBackSession, BeginCall, SessionWritten, Release,
          nodeVars
    <3> QED  BY <1>3, <2>0, <3>1, LossTypes
  <2> QED  BY <2>1, <2>2, <2>3, <2>4, <2>5
<1>4. CASE \E c \in Clients : ClientStep(c)
  BY <1>1, <1>4, ClientFrame DEF nodeVars, workerVars
<1>5. CASE Environment
  <2>1. UNCHANGED <<sem_task, buffer>>
    BY <1>5, EnvironmentFrame DEF nodeVars
  <2>2. \/ UNCHANGED <<wpc, wtask>>
        \/ \E m \in Nodes : /\ wpc' = [wpc EXCEPT ![m] = "dead"]
                            /\ wtask' = [wtask EXCEPT ![m] = NoTask]
    BY <1>5
    DEF Environment, WorkerDies, Dies, ForgetLocals, StopSignal, ReceiveTimesOut,
        workerVars
  <2> QED  BY <2>1, <2>2, LossTypes
<1>6. CASE UNCHANGED vars
  BY <1>1, <1>6 DEF vars, nodeVars, workerVars
<1> QED  BY <1>2, <1>3, <1>4, <1>5, <1>6 DEF Next

(* A node whose worker is dead, or dies, without a turn left gets neither   *)
(* until it is restarted.                                                   *)
Turnless(n) == sem_task[n] = 0 /\ sem_ready[n] = 0 /\ ~Filling(n)

LEMMA TurnlessStays ==
  ASSUME OnceInv, [Next]_vars, ~HeartbeatRestart, NEW n \in Nodes, Turnless(n),
         wpc[n] = "dead" \/ wpc'[n] = "dead"
  PROVE  Turnless(n)' /\ wpc'[n] = "dead"
<1>1. ServingTaken
  BY LossTypes DEF HandshakeInv
<1>2. CASE MasterStep
  <2>1. CASE Poll \/ HeartbeatOk \/ BatchServed
             \/ \E c \in Clients : ServeCheck(c) \/ ServeQuery(c)
    BY <2>1
    DEF Poll, HeartbeatOk, NextNode, BatchServed, ServeCheck, ServeQuery, Filling,
        Turnless, nodeVars, workerVars
  <2>2. CASE Shutdown
    BY <2>2 DEF Shutdown, Filling, Turnless, nodeVars
  <2>3. CASE AwaitReady
    <3>1. /\ Target' = Target /\ UNCHANGED <<sem_task, wpc>> /\ sem_ready[Target] > 0
          /\ sem_ready' = [sem_ready EXCEPT ![Target] = sem_ready[Target] - 1]
      BY <2>3 DEF AwaitReady, Target, clientVars, workerVars
    <3>2. n # Target
      BY <3>1, LossTypes DEF Turnless
    <3> QED  BY <3>1, <3>2, LossTypes DEF Turnless, Filling
  <2>4. CASE FillBuffers
    BY <2>4 DEF FillBuffers, Filling, Target, Turnless, clientVars, workerVars
  <2>5. CASE PostTask
    <3>1. /\ UNCHANGED <<sem_ready, wpc>> /\ mpc = "post" /\ mpc' = "serve"
          /\ sem_task' = [sem_task EXCEPT ![Target] = sem_task[Target] + 1]
      BY <2>5 DEF PostTask, PostSemTask, workerVars
    <3>2. n # Target
      BY <3>1 DEF Turnless, Filling
    <3> QED  BY <3>1, <3>2, LossTypes DEF Turnless, Filling
  <2> QED  BY <1>2, <2>1, <2>2, <2>3, <2>4, <2>5 DEF MasterStep
<1>3. CASE ~MasterStep
  <2>1. ~Filling(n)'
    <3>1. mpc' = mpc
      BY <1>3, WorkerFrame, ClientFrame, EnvironmentFrame DEF Next, vars, masterVars
    <3>2. Dispatching => Target' = Target
      BY <1>1, <1>3, TargetStable, LossTypes
    <3> QED  BY <3>1, <3>2 DEF Turnless, Filling, Dispatching
  <2>2. ASSUME NEW m \in Nodes, WorkerStep(m)
        PROVE  sem_task'[n] = 0 /\ sem_ready'[n] = 0 /\ wpc'[n] = "dead"
    <3>1. CASE TakeTask(m)
      BY <2>2, <3>1, LossTypes DEF TakeTask, Turnless
    <3>2. CASE PostReady(m)
      BY <2>2, <3>2, LossTypes DEF PostReady, ForgetLocals, Turnless
    <3>3. CASE LoadSession(m)
      BY <2>2, <3>3, LossTypes DEF LoadSession, Dies, ForgetLocals, Turnless, nodeVars
    <3>4. CASE ~TakeTask(m) /\ ~PostReady(m) /\ ~LoadSession(m)
      <4>1. /\ UNCHANGED <<sem_task, sem_ready>> /\ wpc[m] # "dead"
            /\ \E s \in {"load", "set", "locate", "mark", "store", "flush",
                         "writeback", "rewrite", "release", "post"} :
                 wpc' = [wpc EXCEPT ![m] = s]
        BY <2>2, <3>4, RunFrame
        DEF WorkerStep, ReadBuffers, UseDone, ResultReady, LocateSlot, MarkCompleted,
            StoreBegin, StoreEnd, StoreText, WriteBackSession, BeginCall,
            SessionWritten, Release, nodeVars
      <4> QED  BY <4>1, LossTypes DEF Turnless
    <3> QED  BY <3>1, <3>2, <3>3, <3>4
  <2>3. CASE (\E c \in Clients : ClientStep(c)) \/ UNCHANGED vars
    BY <2>1, <2>3, ClientFrame DEF vars, nodeVars, workerVars, Turnless
  <2>4. CASE Environment
    <3>1. UNCHANGED <<sem_task, sem_ready>>
      BY <2>4, EnvironmentFrame DEF nodeVars
    <3>2. wpc' = wpc \/ \E m \in Nodes : wpc' = [wpc EXCEPT ![m] = "dead"]
      BY <2>4
      DEF Environment, WorkerDies, Dies, ForgetLocals, StopSignal, ReceiveTimesOut,
          workerVars
    <3> QED  BY <2>1, <3>1, <3>2, LossTypes DEF Turnless
  <2> QED  BY <1>3, <2>1, <2>2, <2>3, <2>4 DEF Next, Turnless
<1> QED  BY <1>2, <1>3

(* A task is lost only by the death or the restart of the node that carries *)
(* it.                                                                      *)
LEMMA NewlyLost ==
  ASSUME OnceInv, [Next]_vars, NEW g \in Lost', g \notin Lost
  PROVE  \E n \in Nodes :
           /\ Carries(n, g)
           /\ (Holds(n) /\ wpc'[n] = "dead") \/ (HeartbeatRestart /\ n = hb)
<1>1. g \in 1 .. taskCount' /\ runs'[g] = 0 /\ ~InFlight(g)'
  BY DEF Lost
<1>2. IntactInv /\ taskCount \in Nat /\ MaxTasks \in Nat /\ taskCount <= MaxTasks
  BY OnceTypes, LossTypes
<1>3. ASSUME NEW c \in Clients, ServeQuery(c), g = taskCount + 1 PROVE FALSE
  <2>1. mpc' = "await" /\ serving' = c /\ cguid' = [cguid EXCEPT ![c] = taskCount + 1]
    BY <1>3 DEF ServeQuery
  <2>2. cguid'[serving'] = g
    BY <1>3, <2>1, LossTypes DEF TypeOK, TypeClient
  <2> QED  BY <1>1, <2>1, <2>2 DEF InFlight
<1>4. g \in 1 .. taskCount /\ runs[g] = 0
  <2>1. taskCount' = taskCount \/ \E c \in Clients : ServeQuery(c)
    BY TableSteps, LossTypes
  <2>2. g \in 1 .. taskCount
    BY <1>1, <1>2, <1>3, <2>1 DEF ServeQuery
  <2> QED  BY <1>1, <1>2, <2>2, RunsStable, OnceTypes DEF OnceInv, AtMostOnce
<1>5. InFlight(g)
  BY <1>4 DEF Lost
<1>6. ASSUME Dispatching, cguid[serving] = g PROVE FALSE
  <2>1. ~Dispatching'
    <3>1. \A c \in Clients : ~ServeQuery(c)
      BY <1>6 DEF ServeQuery, Dispatching
    <3> QED  BY <1>1, <1>2, <1>6, <3>1, ServingStable DEF InFlight, Dispatching
  <2>2. PostTask
    <3>1. MasterStep
      BY <1>6, <2>1, TargetStable, LossTypes DEF Dispatching, HandshakeInv
    <3> QED
      BY <1>6, <2>1, <3>1
      DEF MasterStep, Poll, Shutdown, HeartbeatOk, HeartbeatRestart, ServeCheck,
          ServeQuery, AwaitReady, FillBuffers, BatchServed, Dispatching
  <2>3. /\ mpc = "post" /\ buffer' = buffer
        /\ sem_task' = [sem_task EXCEPT ![Target] = sem_task[Target] + 1]
    BY <2>2 DEF PostTask, PostSemTask
  <2>4. Target \in Nodes
    BY LossTypes, ZeroIsANode
    DEF TypeOK, TypeClient, TypeMaster, Target, Query, Request, NoRequest
  <2>5. buffer[Target].guid = g
    BY <1>2, <1>6, <2>3 DEF IntactInv, BufferFilled, Filled
  <2>6. PICK n \in Nodes : n = Target
    BY <2>4
  <2>7. Carries(n, g)'
    BY <2>3, <2>5, <2>6, LossTypes DEF Carries
  <2> QED  BY <1>1, <2>7 DEF InFlight
<1>7. ASSUME NEW n \in Nodes, Carries(n, g)
      PROVE  (Holds(n) /\ wpc'[n] = "dead") \/ (HeartbeatRestart /\ n = hb)
  <2>1. ~Carries(n, g)'
    BY <1>1 DEF InFlight
  <2>2. ~RunStatement(n)
    <3>1. ASSUME RunStatement(n) PROVE FALSE
      <4>1. wtask[n].guid = g
        BY <1>2, <1>7, <3>1, LossTypes, HolderIsAlone, RunFrame DEF Carries, Holds
      <4>2. runs' = [runs EXCEPT ![g] = 1]
        BY <3>1, <4>1, RunsOnce DEF Runs
      <4> QED  BY <1>1, <1>2, <1>4, <4>2, OnceTypes
    <3> QED  BY <3>1
  <2> QED  BY <1>7, <2>1, <2>2, CarriesKept
<1> QED  BY <1>5, <1>6, <1>7 DEF InFlight, Dispatching

(* A dead node without a turn is one whose worker took its turn, and with   *)
(* it a task, when it died: a dead node that is charged with a task pays for*)
(* it until it is restarted, a restart pays afterwards.                     *)
Charged   == { n \in Nodes : wpc[n] = "dead" /\ Turnless(n) }
LossBound == Cardinality(Lost) <= restarts + Cardinality(Charged)

LEMMA NodesFinite == \A S \in SUBSET Nodes :
                       IsFiniteSet(S) /\ Cardinality(S) \in Nat
<1>1. IsFiniteSet(Nodes)
  BY NNodesAssumption, FS_Interval DEF Nodes
<1> QED  BY <1>1, FS_Subset, FS_CardinalityType

LEMMA LostFinite ==
  ASSUME OnceInv
  PROVE  IsFiniteSet(Lost) /\ Cardinality(Lost) \in Nat
<1>1. IsFiniteSet(1 .. taskCount) /\ Lost \in SUBSET (1 .. taskCount)
  BY OnceTypes, FS_Interval DEF Lost
<1> QED  BY <1>1, FS_Subset, FS_CardinalityType

LEMMA ImageFinite ==
  ASSUME NEW f, IsFiniteSet(DOMAIN f), NEW T, T = { f[x] : x \in DOMAIN f }
  PROVE  /\ IsFiniteSet(T) /\ Cardinality(T) \in Nat
         /\ Cardinality(T) <= Cardinality(DOMAIN f)
<1> DEFINE h == [x \in DOMAIN f |-> f[x]]
<1>1. h \in Surjection(DOMAIN f, T)
  BY DEF Surjection
<1> HIDE DEF h
<1>2. IsFiniteSet(T) /\ Cardinality(T) <= Cardinality(DOMAIN f)
  BY <1>1, FS_Surjection
<1> QED  BY <1>2, FS_CardinalityType

LEMMA RestartsSteps ==
  ASSUME [Next]_vars, ~HeartbeatRestart
  PROVE  restarts' = restarts
<1>1. ASSUME Environment PROVE restarts' = restarts
  BY <1>1, EnvironmentFrame
<1>2. ASSUME NEW n \in Nodes, WorkerStep(n) PROVE restarts' = restarts
  BY <1>2, WorkerFrame DEF boundVars
<1>3. ASSUME NEW c \in Clients, ClientStep(c) PROVE restarts' = restarts
  BY <1>3, ClientFrame DEF boundVars
<1>4. ASSUME MasterStep PROVE restarts' = restarts
  BY <1>4
  DEF MasterStep, Poll, Shutdown, HeartbeatOk, ServeCheck, ServeQuery, AwaitReady,
      FillBuffers, PostTask, BatchServed, boundVars
<1> QED  BY <1>1, <1>2, <1>3, <1>4 DEF Next, vars, boundVars

(* A node that carries a task has a turn.                                   *)
LEMMA CarrierHasTurn ==
  ASSUME OnceInv, NEW n \in Nodes, NEW g, Carries(n, g)
  PROVE  n \notin Charged
  BY LossTypes DEF Carries, Charged, Turnless

(* The workers killed in a step account for the tasks lost in it.           *)
LEMMA DeathsPay ==
  ASSUME OnceInv, [Next]_vars, ~HeartbeatRestart, LossBound
  PROVE  LossBound'
<1>1. PICK K : K = { n \in Nodes : Holds(n) /\ wpc'[n] = "dead" }
  OBVIOUS
<1>2. PICK f : f = [n \in K |-> GuidOf(n)]
  OBVIOUS
<1>3. PICK T : T = { f[n] : n \in DOMAIN f }
  OBVIOUS
<1>4. /\ IsFiniteSet(T) /\ Cardinality(T) \in Nat /\ Cardinality(K) \in Nat
      /\ Cardinality(T) <= Cardinality(K)
  <2>1. DOMAIN f = K /\ K \in SUBSET Nodes
    BY <1>1, <1>2
  <2> QED  BY <1>3, <2>1, NodesFinite, ImageFinite
<1>5. Lost' \subseteq Lost \cup T
  <2>1. ASSUME NEW g \in Lost', g \notin Lost PROVE g \in T
    <3>1. PICK n \in Nodes : Carries(n, g) /\ Holds(n) /\ wpc'[n] = "dead"
      BY <2>1, NewlyLost
    <3>2. n \in K /\ f[n] = g
      BY <1>1, <1>2, <3>1, CarriesOne
    <3> QED  BY <1>2, <1>3, <3>2
  <2> QED  BY <2>1
<1>6. Cardinality(Lost') <= Cardinality(Lost) + Cardinality(K) /\ Cardinality(Lost') \in Nat
  <2>1. PICK U : U = Lost \cup T
    OBVIOUS
  <2>2. IsFiniteSet(U) /\ Cardinality(U) \in Nat
        /\ Cardinality(U) <= Cardinality(Lost) + Cardinality(T)
    <3>1. IsFiniteSet(Lost \cap T) /\ Cardinality(Lost \cap T) \in Nat
      BY LostFinite, FS_Subset, FS_CardinalityType
    <3>2. /\ IsFiniteSet(U)
          /\ Cardinality(U)
             = Cardinality(Lost) + Cardinality(T) - Cardinality(Lost \cap T)
      BY <1>4, <2>1, LostFinite, FS_Union
    <3>3. Cardinality(U) \in Nat
      BY <3>2, FS_CardinalityType
    <3> QED  BY <1>4, <3>1, <3>2, <3>3, LostFinite
  <2>3. Lost' \in SUBSET U
    BY <1>5, <2>1
  <2>4. Cardinality(Lost') <= Cardinality(U) /\ Cardinality(Lost') \in Nat
    BY <2>2, <2>3, FS_Subset, FS_CardinalityType
  <2> QED  BY <1>4, <2>2, <2>4, LostFinite
<1>7. Charged \cup K \subseteq Charged' /\ Charged \cap K = {}
  <2>1. ASSUME NEW n \in Charged \cup K PROVE n \in Charged'
    <3>1. n \in Nodes /\ (wpc[n] = "dead" \/ wpc'[n] = "dead")
      BY <1>1, <2>1 DEF Charged
    <3>2. Turnless(n)
      BY <1>1, <2>1, LossTypes, HolderIsAlone DEF Charged, Turnless
    <3> QED  BY <3>1, <3>2, TurnlessStays DEF Charged
  <2> QED  BY <1>1, <2>1 DEF Charged, Holds
<1>8. Cardinality(Charged) + Cardinality(K) <= Cardinality(Charged')
      /\ Cardinality(Charged) \in Nat /\ Cardinality(Charged') \in Nat
  <2>1. PICK U : U = Charged \cup K
    OBVIOUS
  <2>2. Charged \in SUBSET Nodes /\ K \in SUBSET Nodes /\ Charged' \in SUBSET Nodes
    BY <1>1 DEF Charged
  <2>3. Cardinality(U) = Cardinality(Charged) + Cardinality(K)
    <3>1. Cardinality(U)
          = Cardinality(Charged) + Cardinality(K) - Cardinality(Charged \cap K)
      BY <2>1, <2>2, NodesFinite, FS_Union
    <3>2. Cardinality(Charged \cap K) = 0
      BY <1>7, FS_EmptySet
    <3> QED  BY <2>2, <3>1, <3>2, NodesFinite
  <2>4. Cardinality(U) <= Cardinality(Charged')
    BY <1>7, <2>1, <2>2, NodesFinite, FS_Subset
  <2> QED  BY <2>2, <2>3, <2>4, NodesFinite
<1>9. restarts' = restarts /\ restarts \in Nat
  BY RestartsSteps, LossTypes
<1> QED  BY <1>4, <1>6, <1>8, <1>9, LostFinite DEF LossBound

(* A restart pays for the task the heartbeat takes from a worker, or for    *)
(* the one the dead worker was charged with.                                *)
LEMMA RestartPays ==
  ASSUME OnceInv, [Next]_vars, HeartbeatRestart, LossBound
  PROVE  LossBound'
<1>1. /\ restarts' = restarts + 1 /\ restarts \in Nat /\ hb \in Nodes
      /\ Cardinality(Lost) \in Nat
  BY LossTypes, LostFinite DEF HeartbeatRestart
<1>2. /\ Charged \in SUBSET Nodes /\ Charged' \in SUBSET Nodes
      /\ Charged \ {hb} \in SUBSET Nodes
  BY DEF Charged
<1>3. Cardinality(Charged) \in Nat /\ Cardinality(Charged') \in Nat
  BY <1>2, NodesFinite
<1>4. \A n \in Nodes : n # hb => /\ wpc'[n] = wpc[n]
                                 /\ Turnless(n) => Turnless(n)'
  BY LossTypes
  DEF HeartbeatRestart, NextNode, ReinitSemaphores, ForkFails, Spawn, Dies,
      ForgetLocals, Turnless, Filling
<1>5. Cardinality(Charged \ {hb}) <= Cardinality(Charged')
  <2>1. Charged \ {hb} \subseteq Charged'
    BY <1>4 DEF Charged
  <2> QED  BY <1>2, <2>1, NodesFinite, FS_Subset
<1>6. Lost' \subseteq Lost \cup {GuidOf(hb)} /\ (hb \in Charged => Lost' \subseteq Lost)
  <2>1. ASSUME NEW g \in Lost', g \notin Lost PROVE Carries(hb, g)
    BY <1>4, <2>1, NewlyLost DEF Holds
  <2> QED  BY <1>1, <2>1, CarriesOne, CarrierHasTurn
<1>7. CASE hb \in Charged
  <2>1. Cardinality(Lost') <= Cardinality(Lost) /\ Cardinality(Lost') \in Nat
    BY <1>6, <1>7, LostFinite, FS_Subset, FS_CardinalityType
  <2>2. Cardinality(Charged \ {hb}) = Cardinality(Charged) - 1
    BY <1>2, <1>7, NodesFinite, FS_RemoveElement
  <2> QED  BY <1>1, <1>3, <1>5, <2>1, <2>2 DEF LossBound
<1>8. CASE hb \notin Charged
  <2>1. PICK U : U = Lost \cup {GuidOf(hb)}
    OBVIOUS
  <2>2. IsFiniteSet(U) /\ Cardinality(U) \in Nat
        /\ Cardinality(U) <= Cardinality(Lost) + 1
    <3>1. IsFiniteSet(U) /\ (Cardinality(U) = Cardinality(Lost)
                             \/ Cardinality(U) = Cardinality(Lost) + 1)
      BY <2>1, LostFinite, FS_AddElement
    <3> QED  BY <1>1, <3>1
  <2>3. Cardinality(Lost') <= Cardinality(U) /\ Cardinality(Lost') \in Nat
    BY <1>6, <2>1, <2>2, FS_Subset, FS_CardinalityType
  <2>4. Charged \ {hb} = Charged
    BY <1>8
  <2> QED  BY <1>1, <1>3, <1>5, <2>2, <2>3, <2>4 DEF LossBound
<1> QED  BY <1>7, <1>8

LEMMA LossInit == Init => OnceInv /\ LossBound
<1> SUFFICES ASSUME Init PROVE LossBound
  BY OnceInit
<1>1. Lost = {} /\ restarts = 0
  BY DEF Init, Lost
<1>2. Charged \in SUBSET Nodes
  BY DEF Charged
<1> QED  BY <1>1, <1>2, NodesFinite, FS_EmptySet DEF LossBound

(* As many tasks are lost as workers were restarted or are dead.            *)
THEOREM OneLostPerWorkerCorrect == Spec => []OneLostPerWorker
<1>1. OnceInv /\ LossBound /\ [Next]_vars => (OnceInv /\ LossBound)'
  BY OnceInvStep, DeathsPay, RestartPays
<1>2. OnceInv /\ LossBound => OneLostPerWorker
  <2> SUFFICES ASSUME OnceInv, LossBound PROVE OneLostPerWorker
    OBVIOUS
  <2>1. PICK D : D = { n \in Nodes : wpc[n] = "dead" }
    OBVIOUS
  <2>2. Cardinality(Charged) <= Cardinality(D)
        /\ Cardinality(Charged) \in Nat /\ Cardinality(D) \in Nat
    <3>1. D \in SUBSET Nodes /\ Charged \in SUBSET D /\ Charged \in SUBSET Nodes
      BY <2>1 DEF Charged
    <3> QED  BY <3>1, NodesFinite, FS_Subset
  <2> QED  BY <2>1, <2>2, LossTypes, LostFinite DEF LossBound, OneLostPerWorker
<1> QED  BY <1>1, <1>2, LossInit, PTL DEF Spec

-----------------------------------------------------------------------------
(* The database of a session.                                               *)

(* A session whose last USE counts: none of the provisos of                 *)
(* SessionFollowsUse holds.                                                 *)
Chosen(t) ==
  /\ ~clashed /\ t \in Tokens \ disturbed
  /\ lastUse[t] # NoDb /\ HasRoom(t)

(* Where a worker is between the execution of a statement and the end of    *)
(* the write-back; in a USE, it is in "set" before that.                    *)
Stored(n) ==
  wpc[n] \in {"locate", "mark", "store", "flush", "writeback", "rewrite"}

SessionChosen == \A t \in Tokens : Chosen(t) => sessions[t] = lastUse[t]

(* A worker that executes a statement of the session has its database as the*)
(* current one; afterwards it has that one or none.                         *)
ProcessChosen ==
  \A n \in Nodes : \A t \in Tokens : Chosen(t) /\ Token(n) = t =>
    /\ wpc[n] = "run" => current_db[n] = lastUse[t]
    /\ Stored(n) => current_db[n] \in {lastUse[t], NoDb}

(* A USE that nothing disturbs is alone with its session.                   *)
Inside(n) == wpc[n] \in {"run", "set"} \/ Stored(n)

UseAlone ==
  \A m, n \in Nodes : \A t \in Tokens \ disturbed :
    wpc[m] = "set" /\ Token(m) = t /\ n # m /\ Token(n) = t => ~Inside(n)

(* A call has a name to write, the write-back a token.                      *)
CallsInOrder ==
  /\ torn \subseteq disturbed
  /\ \A n \in Nodes :
       /\ wpc[n] \in {"set", "rewrite"} => current_db[n] # NoDb
       /\ wpc[n] = "rewrite" => Token(n) \in Tokens

UseInv ==
  /\ TypeOK /\ IsFiniteSet(Used) /\ CallsInOrder
  /\ UseAlone /\ SessionChosen /\ ProcessChosen

LEMMA UseInit == Init => UseInv
<1> SUFFICES ASSUME Init PROVE UseInv
  OBVIOUS
<1>1. Used = {} /\ SessionChosen /\ ProcessChosen
  BY DEF Init, Used, SessionChosen, ProcessChosen, Chosen
<1>2. CallsInOrder /\ UseAlone
  BY DEF Init, CallsInOrder, UseAlone
<1> QED  BY <1>1, <1>2, TypeInit, FS_EmptySet DEF UseInv

LEMMA UseTypes ==
  ASSUME TypeOK
  PROVE  /\ sessions \in [Tokens -> DbName] /\ lastUse \in [Tokens -> DbName]
         /\ current_db \in [Nodes -> DbName] /\ wpc \in [Nodes -> WorkerStates]
         /\ wtask \in [Nodes -> Task] /\ clashed \in BOOLEAN /\ lostSlots \in Nat
         /\ \A n \in Nodes : /\ Token(n) \in Tokens \cup {NoToken}
                             /\ wtask[n].req.db \in DbName
                             /\ wtask[n].req.op = "use" => wtask[n].req.db # NoDb
         /\ NoToken \notin Tokens /\ MaxSessions \in Nat
<1>1. TypeWorker /\ TypeSession
  BY DEF TypeOK
<1>2. \A n \in Nodes : /\ Token(n) \in Tokens \cup {NoToken}
                       /\ wtask[n].req.db \in DbName
                       /\ wtask[n].req.op = "use" => wtask[n].req.db # NoDb
  BY <1>1, StatementTypes
<1> QED
  BY <1>1, <1>2, NoTokenAssumption, MaxSessionsAssumption DEF TypeWorker, TypeSession

(* set_session_db: what it was given, or nothing, and then the array has no *)
(* slot for the session.                                                    *)
LEMMA SetSessionSteps ==
  ASSUME TypeOK, IsFiniteSet(Used), NEW u \in Tokens \cup {NoToken},
         NEW d \in DbName \ {NoDb}, SetSession(u, d)
  PROVE  /\ \/ sessions' = sessions /\ (u \in Tokens => ~HasRoom(u))
            \/ u \in Tokens /\ HasRoom(u) /\ sessions' = [sessions EXCEPT ![u] = d]
         /\ IsFiniteSet(Used') /\ Used \subseteq Used' /\ torn' \subseteq torn
<1>1. sessions \in [Tokens -> DbName] /\ NoToken \notin Tokens
  BY UseTypes
<1>2. \/ sessions' = sessions /\ (u \in Tokens => ~HasRoom(u))
      \/ u \in Tokens /\ HasRoom(u) /\ sessions' = [sessions EXCEPT ![u] = d]
  BY <1>1 DEF SetSession
<1>3. Used \subseteq Used' /\ Used' \in SUBSET (Used \cup {u})
  BY <1>1, <1>2 DEF Used
<1>4. IsFiniteSet(Used')
  BY <1>3, FS_AddElement, FS_Subset
<1> QED  BY <1>2, <1>3, <1>4 DEF SetSession

(* What a step does to the sessions: nothing, the end of a USE or of a      *)
(* write-back, or the death of a worker.                                    *)
SessionsKept == UNCHANGED <<sessions, torn, lostSlots, lastUse>>

Killed(n) == LeavesCall(n) /\ UNCHANGED <<clashed, lastUse>>

LEMMA SessionSteps ==
  ASSUME TypeOK, [Next]_vars
  PROVE  /\ \/ SessionsKept
            \/ \E n \in Nodes : UseDone(n) \/ SessionWritten(n) \/ Killed(n)
         /\ clashed => clashed'
         /\ disturbed \subseteq disturbed'
<1>1. CASE MasterStep
  <2>1. hb \in Nodes
    BY DEF TypeOK, TypeMaster
  <2>2. (SessionsKept /\ UNCHANGED <<clashed, disturbed>>) \/ Killed(hb)
    BY <1>1, MasterFrame DEF sessionVars, arrayVars, SessionsKept, Killed
  <2> QED  BY <2>1, <2>2 DEF Killed, LeavesCall, SessionsKept
<1>2. ASSUME NEW n \in Nodes, WorkerStep(n)
      PROVE  /\ SessionsKept \/ UseDone(n) \/ SessionWritten(n)
             /\ clashed => clashed'
             /\ disturbed \subseteq disturbed'
  <2>1. CASE RunStatement(n)
    <3>1. SessionsKept
      BY <2>1, RunFrame DEF SessionsKept
    <3>2. PICK cur : Statement(n, cur)
      BY <2>1, RunsStatement
    <3>3. disturbed \subseteq disturbed'
      BY <3>2
      DEF Statement, Use, CreateDatabase, DropDatabase, TableStatement, Refused
    <3>4. BeginCall(n, "set") \/ clashed' = clashed
      BY <3>2
      DEF Statement, Use, CreateDatabase, DropDatabase, TableStatement, Refused,
          ResultReady
    <3>5. clashed => clashed'
      BY <3>4, Zenon DEF BeginCall
    <3> QED  BY <3>1, <3>3, <3>5
  <2>2. CASE LoadSession(n) \/ WriteBackSession(n)
    BY <2>2 DEF LoadSession, WriteBackSession, BeginCall, arrayVars, SessionsKept
  <2>3. CASE UseDone(n) \/ SessionWritten(n)
    BY <2>3 DEF UseDone, ResultReady, SessionWritten
  <2>4. CASE ~RunStatement(n) /\ ~LoadSession(n) /\ ~WriteBackSession(n) /\ ~UseDone(n)
             /\ ~SessionWritten(n)
    BY <1>2, <2>4
    DEF WorkerStep, TakeTask, ReadBuffers, LocateSlot, MarkCompleted,
        StoreBegin, StoreEnd, StoreText, Release, PostReady, sessionVars, arrayVars,
        SessionsKept
  <2> QED  BY <2>1, <2>2, <2>3, <2>4
<1>3. CASE (\E c \in Clients : ClientStep(c)) \/ UNCHANGED vars
  BY <1>3, ClientFrame DEF vars, sessionVars, arrayVars, SessionsKept
<1>4. CASE Environment
  <2>1. (SessionsKept /\ UNCHANGED <<clashed, disturbed>>) \/ \E n \in Nodes : Killed(n)
    BY <1>4, EnvironmentFrame DEF sessionVars, arrayVars, SessionsKept, Killed
  <2> QED  BY <2>1 DEF Killed, LeavesCall, SessionsKept
<1> QED  BY <1>1, <1>2, <1>3, <1>4 DEF Next

(* A worker that dies in a call leaves the array as it was, with a slot     *)
(* less, or with a name that is not to be trusted.                          *)
LEMMA KilledSteps ==
  ASSUME UseInv, NEW n \in Nodes, Killed(n)
  PROVE  /\ \/ UNCHANGED <<sessions, torn, lostSlots>>
            \/ UNCHANGED <<sessions, torn>> /\ lostSlots' = lostSlots + 1
            \/ \E u \in Tokens, d \in DbName \ {NoDb} :
                 /\ HasRoom(u) /\ sessions' = [sessions EXCEPT ![u] = d]
                 /\ torn' = torn \cup {u} /\ u \in disturbed'
                 /\ UNCHANGED lostSlots
         /\ IsFiniteSet(Used') /\ Used \subseteq Used'
         /\ torn' \subseteq disturbed'
<1>1. TypeOK /\ IsFiniteSet(Used) /\ CallsInOrder
  BY DEF UseInv
<1>2. CASE UNCHANGED <<sessions, torn>>
      /\ (UNCHANGED lostSlots \/ lostSlots' = lostSlots + 1)
  <2>1. Used' = Used /\ disturbed \subseteq disturbed'
    BY <1>2 DEF Used, Killed, LeavesCall
  <2> QED  BY <1>1, <1>2, <2>1 DEF CallsInOrder
<1>3. CASE /\ InCall(n) /\ HasRoom(Token(n))
           /\ sessions' = [sessions EXCEPT ![Token(n)] = current_db[n]]
           /\ torn' = torn \cup {Token(n)}
           /\ disturbed' = disturbed \cup {Token(n)}
           /\ UNCHANGED lostSlots
  <2>1. PICK u, d : u = Token(n) /\ d = current_db[n]
    OBVIOUS
  <2>2. u \in Tokens /\ d \in DbName \ {NoDb}
    BY <1>1, <1>3, <2>1, UseTypes DEF InCall, CallsInOrder
  <2>3. sessions' = [sessions EXCEPT ![u] = d] /\ sessions \in [Tokens -> DbName]
    BY <1>1, <1>3, <2>1, UseTypes
  <2>4. Used \subseteq Used' /\ Used' \in SUBSET (Used \cup {u})
    BY <2>2, <2>3 DEF Used
  <2>5. IsFiniteSet(Used')
    BY <1>1, <2>4, FS_AddElement, FS_Subset
  <2>6. HasRoom(u) /\ torn' = torn \cup {u} /\ u \in disturbed'
        /\ torn' \subseteq disturbed' /\ UNCHANGED lostSlots
    BY <1>1, <1>3, <2>1 DEF CallsInOrder
  <2> QED  BY <2>2, <2>3, <2>4, <2>5, <2>6
<1> QED  BY <1>2, <1>3 DEF Killed, LeavesCall

(* Nobody leaves the array, so a session that found it full finds it full   *)
(* for ever.                                                                *)
LEMMA UsedGrows ==
  ASSUME UseInv, [Next]_vars
  PROVE  /\ IsFiniteSet(Used')
         /\ \A t \in Tokens : HasRoom(t)' => HasRoom(t)
<1>1. /\ TypeOK /\ IsFiniteSet(Used) /\ CallsInOrder
      /\ sessions \in [Tokens -> DbName] /\ lostSlots \in Nat /\ MaxSessions \in Nat
  BY UseTypes DEF UseInv
<1>2. CASE SessionsKept
  <2>1. Used' = Used
    BY <1>2 DEF SessionsKept, Used
  <2> QED  BY <1>1, <1>2, <2>1 DEF SessionsKept, HasRoom
<1>3. ASSUME IsFiniteSet(Used'), Used \in SUBSET Used',
             lostSlots' \in Nat, lostSlots <= lostSlots',
             \A t \in Tokens : ~HasRoom(t) => sessions'[t] = sessions[t]
      PROVE  \A t \in Tokens : HasRoom(t)' => HasRoom(t)
  <2>1. Cardinality(Used) <= Cardinality(Used')
        /\ Cardinality(Used) \in Nat /\ Cardinality(Used') \in Nat
    BY <1>1, <1>3, FS_Subset, FS_CardinalityType
  <2> QED  BY <1>1, <1>3, <2>1 DEF HasRoom
<1>4. ASSUME NEW n \in Nodes, UseDone(n) \/ SessionWritten(n)
      PROVE  /\ IsFiniteSet(Used') /\ Used \in SUBSET Used' /\ lostSlots' = lostSlots
             /\ \A t \in Tokens : ~HasRoom(t) => sessions'[t] = sessions[t]
  <2>1. PICK u \in Tokens \cup {NoToken}, d \in DbName \ {NoDb} :
          u = Token(n) /\ d = current_db[n]
    BY <1>1, <1>4, UseTypes DEF UseDone, SessionWritten, CallsInOrder
  <2>2. SetSession(u, d) /\ lostSlots' = lostSlots
    BY <1>4, <2>1 DEF UseDone, SessionWritten
  <2> QED  BY <1>1, <2>2, SetSessionSteps
<1>5. ASSUME NEW n \in Nodes, Killed(n)
      PROVE  /\ IsFiniteSet(Used') /\ Used \in SUBSET Used'
             /\ lostSlots' \in Nat /\ lostSlots <= lostSlots'
             /\ \A t \in Tokens : ~HasRoom(t) => sessions'[t] = sessions[t]
  BY <1>1, <1>5, KilledSteps
<1> QED  BY <1>1, <1>2, <1>3, <1>4, <1>5, SessionSteps

(* A session whose last USE counts had it count before, unless this step is *)
(* the end of its USE.                                                      *)
LEMMA ChosenBefore ==
  ASSUME UseInv, [Next]_vars, NEW t \in Tokens, Chosen(t)'
  PROVE  /\ HasRoom(t) /\ ~clashed /\ t \notin disturbed
         /\ \/ Chosen(t) /\ lastUse'[t] = lastUse[t]
            \/ \E n \in Nodes : UseDone(n) /\ Token(n) = t
<1>1. TypeOK
  BY DEF UseInv
<1>2. HasRoom(t) /\ ~clashed /\ t \notin disturbed
  BY <1>1, UsedGrows, SessionSteps DEF Chosen
<1>3. CASE SessionsKept \/ \E n \in Nodes : SessionWritten(n) \/ Killed(n)
  BY <1>2, <1>3 DEF SessionsKept, SessionWritten, Killed, Chosen
<1>4. ASSUME NEW n \in Nodes, UseDone(n), Token(n) # t
      PROVE  Chosen(t) /\ lastUse'[t] = lastUse[t]
  BY <1>1, <1>2, <1>4, UseTypes DEF UseDone, Chosen
<1> QED  BY <1>1, <1>2, <1>3, <1>4, SessionSteps

LEMMA SessionChosenStep == UseInv /\ [Next]_vars => SessionChosen'
<1> SUFFICES ASSUME UseInv, [Next]_vars, NEW t \in Tokens, Chosen(t)'
             PROVE  sessions'[t] = lastUse'[t]
  BY DEF SessionChosen
<1>1. /\ TypeOK /\ IsFiniteSet(Used) /\ CallsInOrder /\ SessionChosen /\ ProcessChosen
      /\ HasRoom(t)
  BY ChosenBefore DEF UseInv
<1>2. ASSUME NEW n \in Nodes, UseDone(n), Token(n) = t
      PROVE  sessions'[t] = lastUse'[t]
  <2>1. PICK d \in DbName \ {NoDb} : d = current_db[n]
    BY <1>1, <1>2, UseTypes DEF UseDone, CallsInOrder
  <2>2. SetSession(t, d) /\ lastUse'[t] = d
    BY <1>1, <1>2, <2>1, UseTypes DEF UseDone
  <2> QED  BY <1>1, <2>2, SetSessionSteps, UseTypes
<1>3. ASSUME Chosen(t), lastUse'[t] = lastUse[t],
             ~\E n \in Nodes : UseDone(n) /\ Token(n) = t
      PROVE  sessions'[t] = lastUse'[t]
  <2>1. sessions[t] = lastUse'[t]
    BY <1>1, <1>3 DEF SessionChosen
  <2>2. ASSUME NEW n \in Nodes, UseDone(n) \/ SessionWritten(n)
        PROVE  sessions'[t] = sessions[t]
    <3>1. PICK u \in Tokens \cup {NoToken}, d \in DbName \ {NoDb} :
            u = Token(n) /\ d = current_db[n]
      BY <1>1, <2>2, UseTypes DEF UseDone, SessionWritten, CallsInOrder
    <3>2. SetSession(u, d)
      BY <2>2, <3>1 DEF UseDone, SessionWritten
    <3>3. u = t => sessions[t] = d
      BY <1>1, <1>3, <2>1, <2>2, <3>1 DEF SessionWritten, ProcessChosen, Stored
    <3> QED  BY <1>1, <3>2, <3>3, SetSessionSteps, UseTypes
  <2>3. ASSUME NEW n \in Nodes, Killed(n) PROVE sessions'[t] = sessions[t]
    <3>1. t \notin disturbed'
      BY DEF Chosen
    <3> QED  BY <1>1, <2>3, <3>1, KilledSteps, UseTypes
  <2>4. SessionsKept => sessions'[t] = sessions[t]
    BY DEF SessionsKept
  <2> QED  BY <1>1, <2>1, <2>2, <2>3, <2>4, SessionSteps
<1> QED  BY <1>2, <1>3, ChosenBefore

(* What get_session_db returns to a statement of such a session.            *)
LEMMA ReadsChosen ==
  ASSUME UseInv, NEW t \in Tokens, Chosen(t),
         \A m \in Nodes : Token(m) = t => wpc[m] # "set"
  PROVE  SessionDbs(t) = {lastUse[t]} /\ sessions[t] = lastUse[t]
<1>1. TypeOK /\ CallsInOrder /\ SessionChosen /\ ProcessChosen
  BY DEF UseInv
<1>2. sessions[t] = lastUse[t] /\ t \notin torn /\ ~clashed
  BY <1>1 DEF SessionChosen, CallsInOrder, Chosen
<1>3. ASSUME NEW m \in Nodes, InCall(m), Token(m) = t PROVE current_db[m] = sessions[t]
  BY <1>1, <1>2, <1>3 DEF InCall, CallsInOrder, ProcessChosen, Stored
<1> QED  BY <1>1, <1>2, <1>3, UseTypes DEF SessionDbs

(* The database a worker starts a statement with.                           *)
LEMMA CurrentChosen ==
  ASSUME UseInv, NEW n \in Nodes, wpc[n] = "run", NEW t \in Tokens,
         Token(n) = t, Chosen(t), NEW db \in SessionDbs(t)
  PROVE  Current(n, db) = lastUse[t]
<1>1. UseAlone /\ ProcessChosen
  BY DEF UseInv
<1>2. \A m \in Nodes : Token(m) = t => wpc[m] # "set"
  BY <1>1 DEF UseAlone, Inside, Chosen
<1>3. db = lastUse[t] /\ current_db[n] = lastUse[t]
  BY <1>1, <1>2, ReadsChosen DEF ProcessChosen
<1> QED  BY <1>3 DEF Current

-----------------------------------------------------------------------------
LEMMA ProcessChosenStep == UseInv /\ [Next]_vars => ProcessChosen'
<1> SUFFICES ASSUME UseInv, [Next]_vars, NEW n \in Nodes, NEW t \in Tokens,
                    Chosen(t)', Token(n)' = t
             PROVE  /\ wpc'[n] = "run" => current_db'[n] = lastUse'[t]
                    /\ Stored(n)' => current_db'[n] \in {lastUse'[t], NoDb}
  BY DEF ProcessChosen
<1> DEFINE Goal == /\ wpc'[n] = "run" => current_db'[n] = lastUse'[t]
                   /\ Stored(n)' => current_db'[n] \in {lastUse'[t], NoDb}
<1>1. /\ TypeOK /\ SessionChosen /\ ProcessChosen /\ UseAlone
      /\ wpc \in [Nodes -> WorkerStates] /\ current_db \in [Nodes -> DbName]
      /\ ~clashed /\ t \notin disturbed /\ t \notin disturbed'
  BY UseTypes, ChosenBefore DEF UseInv, Chosen
<1>2. CASE SameLocals(n)
  <2>1. Token(n) = t /\ (Stored(n)' <=> Stored(n))
    BY <1>2 DEF SameLocals, Token, Stored
  <2>2. CASE Chosen(t) /\ lastUse'[t] = lastUse[t]
    BY <1>1, <1>2, <2>1, <2>2 DEF SameLocals, ProcessChosen
  <2>3. ASSUME NEW m \in Nodes, UseDone(m), Token(m) = t
        PROVE  wpc[n] # "run" /\ ~Stored(n)
    <3>1. wpc[m] = "set" /\ wpc' = [wpc EXCEPT ![m] = "locate"]
      BY <2>3 DEF UseDone, ResultReady
    <3>2. m # n
      BY <1>1, <1>2, <3>1 DEF SameLocals
    <3> QED  BY <1>1, <2>1, <2>3, <3>1, <3>2 DEF UseAlone, Inside
  <2> QED  BY <1>2, <2>1, <2>2, <2>3, ChosenBefore DEF SameLocals
<1>3. CASE RunStatement(n)
  <2>1. wpc[n] = "run" /\ Token(n) = t /\ lastUse' = lastUse
    BY <1>3, RunFrame DEF Token
  <2>2. Chosen(t)
    BY <2>1, ChosenBefore DEF Chosen
  <2>3. PICK db \in SessionDbs(Token(n)) : Statement(n, Current(n, db))
    BY <1>3, RunsStatement
  <2>4. PICK cur : cur = Current(n, db)
    OBVIOUS
  <2>5. cur = lastUse[t]
    <3>1. db \in SessionDbs(t)
      BY <2>1, <2>3
    <3> QED  BY <2>1, <2>2, <2>4, <3>1, CurrentChosen
  <2>6. \/ wpc' = [wpc EXCEPT ![n] = "set"]
        \/ /\ wpc' = [wpc EXCEPT ![n] = "locate"]
           /\ current_db' = [current_db EXCEPT ![n] = cur]
              \/ current_db' = [current_db EXCEPT ![n] = NoDb]
    BY <2>3, <2>4
    DEF Statement, Use, CreateDatabase, DropDatabase, TableStatement, Refused,
        BeginCall, ResultReady
  <2> QED  BY <1>1, <2>1, <2>5, <2>6 DEF Stored
<1>4. CASE WorkerStep(n) /\ ~RunStatement(n)
  <2>1. CASE UseDone(n)
    <3>1. /\ wpc' = [wpc EXCEPT ![n] = "locate"] /\ UNCHANGED <<wtask, current_db>>
          /\ lastUse' = [lastUse EXCEPT ![Token(n)] = current_db[n]]
      BY <2>1 DEF UseDone, ResultReady
    <3>2. Token(n) = t
      BY <3>1 DEF Token
    <3> QED  BY <1>1, <3>1, <3>2, UseTypes
  <2>2. TakeTask(n) \/ ReadBuffers(n) \/ SessionWritten(n) \/ Release(n) \/ PostReady(n)
        => ~Stored(n)' /\ wpc'[n] # "run"
    BY <1>1
    DEF TakeTask, ReadBuffers, SessionWritten, Release, PostReady, ForgetLocals, Stored
  <2>3. ASSUME LoadSession(n), wpc'[n] \notin {"idle", "dead"} PROVE Goal
    <3>1. /\ wtask' = wtask /\ wpc' = [wpc EXCEPT ![n] = "run"] /\ lastUse' = lastUse
          /\ wpc[n] = "load"
          /\ \E db \in SessionDbs(Token(n)) :
               db # NoDb => current_db' = [current_db EXCEPT ![n] = db]
          /\ disturbed' = disturbed \cup
               { u \in Tokens \cap {Token(n)} :
                   \E m \in Nodes : wpc[m] = "set" /\ Token(m) = u }
      BY <1>1, <2>3 DEF LoadSession, Dies, ForgetLocals
    <3>2. Token(n) = t
      BY <3>1 DEF Token
    <3>3. Chosen(t)
      BY <3>1, ChosenBefore DEF Chosen
    <3>4. \A m \in Nodes : Token(m) = t => wpc[m] # "set"
      BY <1>1, <3>1, <3>2
    <3>5. SessionDbs(t) = {lastUse[t]} /\ lastUse[t] # NoDb
      BY <3>3, <3>4, ReadsChosen DEF Chosen
    <3>6. current_db'[n] = lastUse'[t] /\ wpc'[n] = "run"
      BY <1>1, <3>1, <3>2, <3>5
    <3> QED  BY <3>6 DEF Stored
  <2>4. ASSUME LocateSlot(n) \/ MarkCompleted(n) \/ StoreBegin(n) \/ StoreEnd(n)
               \/ WriteBackSession(n)
        PROVE  Goal
    <3>1. /\ UNCHANGED <<wtask, current_db, lastUse>> /\ Stored(n)
          /\ \E s \in {"writeback", "mark", "store", "flush", "rewrite", "release"} :
               wpc' = [wpc EXCEPT ![n] = s]
      BY <2>4
      DEF LocateSlot, MarkCompleted, StoreBegin, StoreEnd, StoreText,
          WriteBackSession, BeginCall, sessionVars, Stored
    <3>2. Token(n) = t /\ Chosen(t)
      BY <2>4, <3>1, ChosenBefore
      DEF Token, UseDone, LocateSlot, MarkCompleted, StoreBegin, StoreEnd, StoreText,
          WriteBackSession, Chosen
    <3>3. current_db[n] \in {lastUse[t], NoDb}
      BY <1>1, <3>1, <3>2 DEF ProcessChosen
    <3> QED  BY <1>1, <3>1, <3>3
  <2> QED  BY <1>4, <2>1, <2>2, <2>3, <2>4 DEF WorkerStep, Stored
<1>5. CASE wpc'[n] \in {"idle", "dead"}
  BY <1>5 DEF Stored
<1> QED  BY <1>1, <1>2, <1>3, <1>4, <1>5, LocalSteps

(* A worker gets between the two only by LoadSession, and into a USE only   *)
(* by RunStatement, which sees the workers that are there.                  *)
LEMMA InsideSteps ==
  ASSUME TypeOK, [Next]_vars, NEW n \in Nodes, Inside(n)'
  PROVE  Token(n)' = Token(n) /\ (Inside(n) \/ LoadSession(n))
<1>1. wpc \in [Nodes -> WorkerStates]
  BY UseTypes
<1>2. CASE SameLocals(n)
  BY <1>2 DEF SameLocals, Inside, Stored, Token
<1>3. CASE WorkerStep(n)
  <2>1. CASE RunStatement(n)
    BY <2>1, RunFrame DEF Inside, Token
  <2>2. CASE UseDone(n)
    BY <2>2 DEF UseDone, Inside, Token
  <2>3. CASE LoadSession(n)
    <3>1. wtask' = wtask \/ wpc' = [wpc EXCEPT ![n] = "dead"]
      BY <2>3 DEF LoadSession, Dies, ForgetLocals
    <3> QED  BY <1>1, <2>3, <3>1 DEF Inside, Stored, Token
  <2>4. CASE LocateSlot(n) \/ Completes(n) \/ WriteBackSession(n)
    BY <2>4
    DEF LocateSlot, Completes, MarkCompleted, StoreBegin, StoreEnd, StoreText,
        WriteBackSession, Inside, Stored, Token
  <2>5. TakeTask(n) \/ ReadBuffers(n) \/ SessionWritten(n) \/ Release(n) \/ PostReady(n)
        => ~Inside(n)'
    BY <1>1
    DEF TakeTask, ReadBuffers, SessionWritten, Release, PostReady, ForgetLocals,
        Inside, Stored
  <2> QED  BY <1>3, <2>1, <2>2, <2>3, <2>4, <2>5 DEF WorkerStep, Completes
<1>4. CASE wpc'[n] \in {"idle", "dead"}
  BY <1>4 DEF Inside, Stored
<1> QED  BY <1>2, <1>3, <1>4, LocalSteps

LEMMA SetSteps ==
  ASSUME TypeOK, [Next]_vars, NEW m \in Nodes, wpc'[m] = "set"
  PROVE  Token(m)' = Token(m) /\ (wpc[m] = "set" \/ RunStatement(m))
<1>1. wpc \in [Nodes -> WorkerStates]
  BY UseTypes
<1>2. CASE SameLocals(m)
  BY <1>2 DEF SameLocals, Token
<1>3. CASE WorkerStep(m)
  <2>1. RunStatement(m)
    BY <1>1, <1>3
    DEF WorkerStep, TakeTask, ReadBuffers, LoadSession, Dies, UseDone, ResultReady,
        LocateSlot, MarkCompleted, StoreBegin, StoreEnd, StoreText, WriteBackSession,
        BeginCall, SessionWritten, Release, PostReady, ForgetLocals
  <2> QED  BY <2>1, RunFrame DEF Token
<1>4. CASE wpc'[m] \in {"idle", "dead"}
  BY <1>4
<1> QED  BY <1>2, <1>3, <1>4, LocalSteps

LEMMA UseAloneStep == UseInv /\ [Next]_vars => UseAlone'
<1> SUFFICES ASSUME UseInv, [Next]_vars, NEW m \in Nodes, NEW n \in Nodes,
                    NEW t \in Tokens, t \notin disturbed', wpc'[m] = "set",
                    Token(m)' = t, n # m, Token(n)' = t, Inside(n)'
             PROVE  FALSE
  BY DEF UseAlone
<1>1. /\ TypeOK /\ UseAlone /\ t \notin disturbed /\ wpc \in [Nodes -> WorkerStates]
  BY SessionSteps, UseTypes DEF UseInv
<1>2. Token(m) = t /\ Token(n) = t
  BY <1>1, SetSteps, InsideSteps
<1>3. CASE wpc[m] = "set" /\ Inside(n)
  BY <1>1, <1>2, <1>3 DEF UseAlone
<1>4. CASE wpc[m] = "set" /\ LoadSession(n)
  <2>1. disturbed' = disturbed \cup
          { u \in Tokens \cap {Token(n)} :
              \E k \in Nodes : wpc[k] = "set" /\ Token(k) = u }
    BY <1>4 DEF LoadSession
  <2> QED  BY <1>2, <1>4, <2>1
<1>5. CASE RunStatement(m) /\ Inside(n)
  <2>1. Overlaps(m, t)
    BY <1>2, <1>5 DEF Overlaps, Inside, Stored
  <2>2. disturbed' = disturbed \cup { u \in Tokens \cap {Token(m)} : Overlaps(m, u) }
    <3>1. PICK cur : Statement(m, cur)
      BY <1>5, RunsStatement
    <3> QED
      BY <1>1, <3>1
      DEF Statement, Use, CreateDatabase, DropDatabase, TableStatement, Refused,
          ResultReady, Token
  <2> QED  BY <1>2, <2>1, <2>2
<1>6. CASE RunStatement(m) /\ LoadSession(n)
  <2>1. wpc[m] = "run" /\ wpc' = [wpc EXCEPT ![m] = wpc'[m]]
    BY <1>1, <1>6, RunFrame
  <2>2. wpc[n] = "load" /\ wpc'[n] # "load"
    BY <1>1, <1>6 DEF LoadSession, Dies, ForgetLocals
  <2> QED  BY <1>1, <2>1, <2>2
<1> QED  BY <1>1, <1>3, <1>4, <1>5, <1>6, SetSteps, InsideSteps

LEMMA CallsInOrderStep == UseInv /\ [Next]_vars => CallsInOrder'
<1> SUFFICES ASSUME UseInv, [Next]_vars PROVE CallsInOrder'
  OBVIOUS
<1>1. /\ TypeOK /\ IsFiniteSet(Used) /\ CallsInOrder /\ wpc \in [Nodes -> WorkerStates]
      /\ current_db \in [Nodes -> DbName]
  BY UseTypes DEF UseInv
<1>2. torn' \subseteq disturbed'
  <2>1. ASSUME NEW n \in Nodes, UseDone(n) \/ SessionWritten(n)
        PROVE  torn' \subseteq torn
    BY <2>1 DEF UseDone, SessionWritten, SetSession
  <2>2. ASSUME NEW n \in Nodes, Killed(n) PROVE torn' \subseteq disturbed'
    BY <2>2, KilledSteps
  <2> QED  BY <1>1, <2>1, <2>2, SessionSteps DEF CallsInOrder, SessionsKept
<1>3. ASSUME NEW n \in Nodes, wpc'[n] = "set" PROVE current_db'[n] # NoDb
  <2>1. CASE RunStatement(n)
    <3>1. PICK cur : Statement(n, cur)
      BY <2>1, RunsStatement
    <3>2. wtask[n].req.op = "use" => wtask[n].req.db # NoDb
      BY <1>1, UseTypes
    <3> QED
      BY <1>1, <1>3, <3>1, <3>2
      DEF Statement, Use, CreateDatabase, DropDatabase, TableStatement, Refused,
          ResultReady
  <2>2. CASE wpc[n] = "set" /\ ~RunStatement(n)
    <3>1. SameLocals(n)
      <4>1. ~WorkerStep(n)
        BY <1>1, <1>3, <2>2
        DEF WorkerStep, TakeTask, ReadBuffers, LoadSession, UseDone, ResultReady,
            LocateSlot, MarkCompleted, StoreBegin, StoreEnd, StoreText,
            WriteBackSession, SessionWritten, Release, PostReady
      <4> QED  BY <1>1, <1>3, <4>1, LocalSteps
    <3> QED  BY <1>1, <2>2, <3>1 DEF SameLocals, CallsInOrder
  <2> QED  BY <1>1, <1>3, <2>1, <2>2, SetSteps
<1>4. ASSUME NEW n \in Nodes, wpc'[n] = "rewrite"
      PROVE  current_db'[n] # NoDb /\ Token(n)' \in Tokens
  <2>1. CASE SameLocals(n)
    BY <1>1, <1>4, <2>1 DEF SameLocals, CallsInOrder, Token
  <2>2. CASE WorkerStep(n)
    <3>1. WriteBackSession(n)
      BY <1>1, <1>4, <2>2, RunFrame
      DEF WorkerStep, TakeTask, ReadBuffers, LoadSession, Dies, UseDone, ResultReady,
          LocateSlot, MarkCompleted, StoreBegin, StoreEnd, StoreText,
          SessionWritten, Release, PostReady, ForgetLocals
    <3>2. current_db[n] # NoDb /\ Token(n) # NoToken /\ UNCHANGED <<wtask, current_db>>
      BY <1>1, <1>4, <3>1 DEF WriteBackSession
    <3> QED  BY <1>1, <3>2, UseTypes DEF Token
  <2> QED  BY <1>4, <2>1, <2>2, LocalSteps, <1>1
<1> QED  BY <1>2, <1>3, <1>4 DEF CallsInOrder

LEMMA UseInvStep == UseInv /\ [Next]_vars => UseInv'
<1>1. UseInv => TypeOK
  BY DEF UseInv
<1> QED
  BY <1>1, TypeStep, UsedGrows, CallsInOrderStep, UseAloneStep, SessionChosenStep,
     ProcessChosenStep
  DEF UseInv

(* A session's database is the one it selected last, while no two calls of  *)
(* set_session_db clash, unless the array is full, another statement of the *)
(* session ran during the USE, or a worker died while it wrote the name.    *)
THEOREM SessionFollowsUseCorrect == Spec => []SessionFollowsUse
<1>1. UseInv => SessionFollowsUse
  BY DEF UseInv, SessionChosen, Chosen, SessionFollowsUse, TurnedAway
<1> QED  BY <1>1, UseInit, UseInvStep, PTL DEF Spec

(* What a table statement without a prefix may be resolved to.              *)
ResolvedStep ==
  \A n \in Nodes :
    LET r == wtask[n].req IN
    wpc[n] = "run" /\ wpc'[n] = "locate" /\ r.op = "table" /\ r.db = NoDb
    /\ r.token \in Tokens \ disturbed /\ ~clashed
    => lastUse[r.token] = NoDb \/ TurnedAway(r.token)
       \/ wtext'[n].db \in {NoDb, lastUse[r.token]}

LEMMA ResolvedSteps == UseInv /\ [Next]_vars => ResolvedStep
<1> SUFFICES ASSUME UseInv, [Next]_vars, NEW n \in Nodes, NEW t \in Tokens,
                    wpc[n] = "run", wpc'[n] = "locate", wtask[n].req.op = "table",
                    wtask[n].req.db = NoDb, Token(n) = t, Chosen(t)
             PROVE  wtext'[n].db \in {NoDb, lastUse[t]}
  BY DEF ResolvedStep, Token, Chosen, TurnedAway
<1>1. TypeOK /\ wtext \in [Nodes -> Text] /\ wpc \in [Nodes -> WorkerStates]
  BY DEF UseInv, TypeOK, TypeWorker
<1>2. RunStatement(n)
  <2>1. WorkerStep(n)
    BY <1>1, LocalSteps DEF SameLocals
  <2> QED
    BY <1>1, <2>1
    DEF WorkerStep, TakeTask, ReadBuffers, LoadSession, UseDone, LocateSlot,
        MarkCompleted, StoreBegin, StoreEnd, StoreText, WriteBackSession,
        SessionWritten, Release, PostReady
<1>3. PICK db \in SessionDbs(t) : Statement(n, Current(n, db))
  BY <1>2, RunsStatement
<1>4. PICK cur : cur = Current(n, db)
  OBVIOUS
<1>5. cur = lastUse[t]
  BY <1>3, <1>4, CurrentChosen
<1>6. \E d \in {NoDb, cur} : wtext' = [wtext EXCEPT ![n] = Whole(wtask[n].guid, d)]
  BY <1>3, <1>4
  DEF Statement, Use, CreateDatabase, DropDatabase, TableStatement, Refused
<1> QED  BY <1>1, <1>5, <1>6 DEF Whole

(* A statement without a prefix is executed against the database its        *)
(* session selected last, or refused, under the same provisos.              *)
THEOREM ResolvedCorrect == Spec => ResolvedAgainstOwnUse
<1>1. UseInv /\ [Next]_vars => [ResolvedStep]_vars
  BY ResolvedSteps
<1>2. Spec => [][ResolvedStep]_vars
  BY <1>1, UseInit, UseInvStep, PTL DEF Spec
<1> QED  BY <1>2 DEF ResolvedAgainstOwnUse, ResolvedStep
=============================================================================
