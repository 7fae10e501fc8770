------------------------- MODULE ClusterProperties -------------------------
(***************************************************************************)
(* What must hold of the database server of Cluster.tla.                   *)
(***************************************************************************)
EXTENDS Cluster

TypeMaster ==
  /\ mpc \in MasterStates /\ hb \in Nodes /\ batch \in SUBSET Clients
  /\ serving \in Clients /\ stopping \in BOOLEAN

TypeTable ==
  /\ tasks \in [Slots -> Slot] /\ last_overwritten \in Slots
  /\ taskCount \in Nat
  /\ log \in [1 .. MaxTasks -> Query]

TypeNode ==
  /\ sem_task \in [Nodes -> Nat] /\ sem_ready \in [Nodes -> Nat]
  /\ buffer \in [Nodes -> Task] /\ is_busy \in [Nodes -> BOOLEAN]

TypeWorker ==
  /\ wpc \in [Nodes -> WorkerStates] /\ wtask \in [Nodes -> Task]
  /\ wslot \in [Nodes -> Slots] /\ wtext \in [Nodes -> Text]
  /\ current_db \in [Nodes -> DbName]

TypeClient ==
  /\ cstate \in [Clients -> ClientStates]
  /\ creq \in [Clients -> Query]
  /\ cguid \in [Clients -> Nat] /\ answer \in [Clients -> Text]
  /\ gaveUp \in [Clients -> BOOLEAN]

TypeSession ==
  /\ sessions \in [Tokens -> DbName]
  /\ torn \in SUBSET Tokens /\ lostSlots \in Nat /\ clashed \in BOOLEAN
  /\ dirs \in [Roots -> SUBSET Databases]
  /\ runs \in [1 .. MaxTasks -> Nat]
  /\ lastUse \in [Tokens -> DbName]
  /\ disturbed \in SUBSET Tokens

TypeBound == restarts \in Nat /\ events \in Nat

(* Every variable has its type: the master and the workers are at a point   *)
(* of their loops, the heartbeat looks at a node that exists, and the       *)
(* semaphores never go below zero.                                          *)
TypeOK ==
  /\ TypeMaster /\ TypeTable /\ TypeNode /\ TypeWorker
  /\ TypeClient /\ TypeSession /\ TypeBound

-----------------------------------------------------------------------------
Holds(n)    == wpc[n] \notin {"idle", "dead"}
Filling(n)  == mpc \in {"fill", "post"} /\ Target = n
Count(b)    == IF b THEN 1 ELSE 0
Turns(n)    == sem_ready[n] + sem_task[n] + Count(Holds(n)) + Count(Filling(n))

(* The two semaphores of a node pass one turn around: it is in sem_ready,   *)
(* with the master filling the buffers, in sem_task, or with the worker.    *)
(* It is never duplicated, across crashes and restarts, and is lost only    *)
(* with the worker that held it; so the master never writes the buffers of  *)
(* a node whose worker still has to read them (ServerApp.cpp:92-136,        *)
(* 229-232, 293-308).                                                       *)
Handshake ==
  \A n \in Nodes : IF wpc[n] = "dead" THEN Turns(n) <= 1 ELSE Turns(n) = 1

(* A guid and a query that belong to the same registration.                 *)
Intact(t) == t.guid \in 1 .. taskCount /\ t.req = log[t.guid]

(* The guid and the query a worker works on, or will read, are those of one *)
(* and the same registration, although the two are written and read field   *)
(* by field with no lock (ServerApp.cpp:98-107, 298-303).                   *)
TaskIntact ==
  \A n \in Nodes :
    /\ sem_task[n] > 0 \/ wpc[n] = "taken" => Intact(buffer[n])
    /\ Holds(n) /\ wpc[n] # "taken" => Intact(wtask[n])

(* While a node has work its worker is marked busy, from before the turn is *)
(* posted until after the result is stored: the heartbeat can always tell a *)
(* worker that hangs (ServerApp.cpp:133-136, 220-221, 305-308).             *)
BusyWhileWorking ==
  \A n \in Nodes :
    sem_task[n] > 0 \/ (Holds(n) /\ wpc[n] # "post") => is_busy[n]

(* No statement is executed twice, whatever dies and is restarted           *)
(* (ServerApp.cpp:119, 229-234).                                            *)
AtMostOnce == \A g \in 1 .. MaxTasks : runs[g] <= 1

(* A node that will still execute the task of a guid: posted, or in the     *)
(* hands of its worker before process().                                    *)
Carries(n, g) ==
  \/ (sem_task[n] > 0 \/ wpc[n] = "taken") /\ buffer[n].guid = g
  \/ wpc[n] \in {"load", "run"} /\ wtask[n].guid = g

InFlight(g) ==
  \/ mpc \in {"await", "fill", "post"} /\ cguid[serving] = g
  \/ \E n \in Nodes : Carries(n, g)

Lost == { g \in 1 .. taskCount : runs[g] = 0 /\ ~InFlight(g) }

(* A task that will never be executed was lost with a worker, and a worker  *)
(* takes at most one task with it: as many tasks are lost as workers were   *)
(* restarted or are dead, never more (ServerApp.cpp:229-234, 280-308).      *)
OneLostPerWorker ==
  Cardinality(Lost) <= restarts + Cardinality({ n \in Nodes : wpc[n] = "dead" })

(* A worker that found its task's slot can only write into the slot of      *)
(* another task after NSlots - 1 later registrations                        *)
(* (AsyncManager.cpp:88-98, 103-110).                                       *)
LateWrite ==
  \A n \in Nodes :
    /\ wpc[n] \in {"mark", "store", "flush"}
    /\ tasks[wslot[n]].guid # wtask[n].guid
    => taskCount - wtask[n].guid >= NSlots - 1

(* Until the table has to overwrite a slot, a client that is told anything  *)
(* but "Processing..." is told of its own task, after it was executed; only *)
(* a client whose receive failed is left with the empty string              *)
(* (ServerApp.cpp:264-278, ClientApp.cpp:72-99).                            *)
AnswerIsOwn ==
  taskCount <= NSlots =>
    \A c \in Clients :
      cstate[c] = "idle" /\ cguid[c] > 0 /\ answer[c].kind # "empty" =>
        /\ runs[cguid[c]] = 1
        /\ answer[c].kind # "missing"
        /\ answer[c].kind = "whole" => answer[c].task = cguid[c]

(* A session that set_session_db has no slot for: the array is full of      *)
(* others and of slots lost with a worker, and no session ever leaves it.   *)
TurnedAway(t) == ~HasRoom(t)

(* After a successful USE a session's database is the one last selected by  *)
(* that session, with two workers reading and writing the array at once and *)
(* workers killed while they write it, unless: two calls of set_session_db  *)
(* clashed; the full array turned the session away; a USE of the session    *)
(* ran while another worker was executing a statement of it, whose          *)
(* write-back then undoes it; or a worker died while it wrote the session's *)
(* name (ServerApp.cpp:109-111, 126-129, Statements.h:78-83,                *)
(* AsyncManager.cpp:138-160).                                               *)
SessionFollowsUse ==
  ~clashed =>
    \A t \in Tokens \ disturbed :
      lastUse[t] # NoDb => sessions[t] = lastUse[t] \/ TurnedAway(t)

(* A statement without a prefix, of a session that has selected a database, *)
(* is executed against that one or refused, although its worker keeps the   *)
(* database of the session it served before; under the same provisos        *)
(* (HierarchyManager.cpp:96-103).                                           *)
ResolvedAgainstOwnUse ==
  [][\A n \in Nodes :
       LET r == wtask[n].req IN
       wpc[n] = "run" /\ wpc'[n] = "locate" /\ r.op = "table" /\ r.db = NoDb
       /\ r.token \in Tokens \ disturbed /\ ~clashed
       => lastUse[r.token] = NoDb \/ TurnedAway(r.token)
          \/ wtext'[n].db \in {NoDb, lastUse[r.token]}]_vars

(* A client's final answer from the server is the whole result of a task:   *)
(* a task read as COMPLETED has its result (db_tests.cpp:375-377).          *)
CompletedHasResult ==
  \A c \in Clients :
    cstate[c] = "idle" /\ cguid[c] > 0 => answer[c].kind \notin {"none", "torn"}

(* Every query is answered, unless a worker dies, a receive fails or the    *)
(* server is stopped (ServerApp.cpp:204-317, ClientApp.cpp:65-106).         *)
EveryQueryAnswered ==
  \A c \in Clients : cstate[c] = "sent" ~> cstate[c] = "idle" \/ events > 0

(* A dead worker is restarted, unless the server stops or the master is     *)
(* itself waiting for a dead worker (ServerApp.cpp:212-237, 293-296).       *)
MasterStuck == mpc = "await" /\ wpc[Target] = "dead" /\ sem_ready[Target] = 0

DeadRestartedOrStuck ==
  \A n \in Nodes :
    wpc[n] = "dead" ~> wpc[n] # "dead" \/ mpc = "down" \/ MasterStuck

(* The master waits for ever only for a worker that is dead: a live one     *)
(* posts sem_ready again, a new one starts with it posted                   *)
(* (ServerApp.cpp:136, 232, 293-296).                                       *)
AwaitEnds == mpc = "await" ~> mpc # "await" \/ MasterStuck

(* The heartbeat restarts an unresponsive worker (ServerApp.cpp:201-202,    *)
(* 223-225).                                                                *)
DeadWorkerRestarted ==
  \A n \in Nodes : wpc[n] = "dead" ~> wpc[n] # "dead" \/ mpc = "down"

(* The server does what TaskService promises: the task of a guid is in the  *)
(* state its slot says, forgotten once no slot holds it.                    *)
TaskState(g) ==
  IF g > taskCount THEN "none"
  ELSE IF Holding(tasks, g) = {} THEN "forgotten"
  ELSE tasks[CHOOSE i \in Holding(tasks, g) : TRUE].status

Service == INSTANCE TaskService WITH
             Capacity <- NSlots, state <- [g \in 1 .. MaxTasks |-> TaskState(g)]

ImplementsService == Service!Spec
=============================================================================
