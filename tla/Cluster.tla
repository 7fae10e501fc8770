------------------------------- MODULE Cluster -------------------------------
(***************************************************************************)
(* The database server: one master process that polls the client sockets,  *)
(* registers each query in the shared task table and hands it to one of    *)
(* NNodes worker processes through a pair of semaphores and a buffer per   *)
(* node (modules/api/src/ServerApp.cpp); the workers, which execute the    *)
(* query, store its result in the task table and write the session's       *)
(* database back (ServerApp.cpp, AsyncManager.cpp, HierarchyManager.cpp);  *)
(* and the clients, which submit a query and poll for its result           *)
(* (modules/api/src/ClientApp.cpp).                                        *)
(*                                                                         *)
(* A step of this module is one access to shared memory, to a semaphore or *)
(* to a socket.  The environment may kill a worker, make it look overdue,  *)
(* make fork fail, make a client's receive time out or ask the master to   *)
(* stop, MaxEvents times in all.                                           *)
(*                                                                         *)
(* Texts are taken to fit their fields: a query that strncpy would cut off *)
(* after NODE_QUERY_BUFFER - 1 bytes (ServerApp.cpp:298-300) and a name it *)
(* would cut off after MAX_NAME_LEN - 1 bytes (AsyncManager.cpp:143-146,   *)
(* 153-158) are outside of this model.                                     *)
(***************************************************************************)
EXTENDS TaskTable, FiniteSets

CONSTANTS
  NNodes,        (* N_NODES, the number of workers                          *)
  Clients,       (* client programs                                         *)
  Tokens,        (* session tokens                                          *)
  NoToken,       (* the empty token of a client that has not logged in      *)
  OnDisk,        (* the databases on disk when the server starts            *)
  Garbled,       (* a half-copied name, which is that of no database        *)
  MaxSessions,   (* MAX_SESSIONS, the length of the session array           *)
  Workload,      (* the queries each client may submit                      *)
  MaxTasks,      (* bound: queries submitted in a behaviour                 *)
  MaxEvents      (* bound: environment events in a behaviour                *)

Nodes == 0 .. NNodes - 1

(* A query: its token, its operation, the database it names (NoDb for a     *)
(* table without a prefix) and the node its table name is hashed to.        *)
(* extract_table_name finds no table in USE, CREATE DATABASE and DROP       *)
(* DATABASE, and shard_node sends those to node 0.                          *)
Request ==
  { r \in [token: Tokens \cup {NoToken}, op: {"use", "create", "drop", "table"},
           db: DbName, node: Nodes] :
      r.op # "table" => r.node = 0 /\ r.db # NoDb }

NoRequest == [token |-> NoToken, op |-> "none", db |-> NoDb, node |-> 0]

Query  == Request \cup {NoRequest}
Task   == [guid: Nat, req: Query]
NoTask == [guid |-> 0, req |-> NoRequest]

ASSUME NNodesAssumption      == NNodes \in Nat \ {0}
ASSUME NoTokenAssumption     == NoToken \notin Tokens
ASSUME OnDiskAssumption      == OnDisk \subseteq Databases
ASSUME GarbledAssumption     == Garbled \notin DbName
ASSUME MaxSessionsAssumption == MaxSessions \in Nat
ASSUME WorkloadAssumption    == Workload \in [Clients -> SUBSET Request]
ASSUME MaxTasksAssumption    == MaxTasks \in Nat
ASSUME MaxEventsAssumption   == MaxEvents \in Nat
ASSUME ClientsAssumption     == Clients # {} /\ IsFiniteSet(Clients)

VARIABLES
  (* the master process *)
  mpc,              (* where it is in its loop                              *)
  hb,               (* the node its heartbeat pass looks at next            *)
  batch,            (* the clients poll reported ready, not yet served      *)
  serving,          (* the client whose query it is dispatching             *)
  stopping,         (* ~g_keep_running                                      *)
  (* shared memory *)
  tasks,            (* SharedMemoryLayout::tasks                            *)
  last_overwritten, (* the static of find_free_slot                         *)
  sessions,         (* SharedMemoryLayout::sessions, NoDb when none         *)
  torn,             (* tokens whose name in it is half copied               *)
  lostSlots,        (* slots of it that a worker claimed and died           *)
  clashed,          (* two calls that write to it got in each other's way   *)
  sem_task, sem_ready, buffer, is_busy,   (* SharedMemoryLayout::nodes      *)
  (* the worker processes *)
  wpc,              (* where each worker is in its loop, or "dead"          *)
  wtask,            (* its copy of the guid and the query                   *)
  wslot,            (* the slot update_task found                           *)
  wtext,            (* its result_buf                                       *)
  current_db,       (* HierarchyManager::current_db                         *)
  (* the file system *)
  dirs,             (* the database directories under each root; -1 is the  *)
                    (* main root, which node_root(-1) names                 *)
  (* the clients *)
  cstate, creq, cguid, answer, gaveUp,
  (* history and bounds *)
  taskCount,        (* tasks registered so far                              *)
  log,              (* the query each task was registered for               *)
  runs,             (* how often each task's statement was executed         *)
  lastUse,          (* the database of each token's last successful USE     *)
  disturbed,        (* tokens whose USE overlapped another statement, or    *)
                    (* whose worker died while it wrote their name          *)
  restarts,         (* workers replaced by the heartbeat                    *)
  events            (* environment events so far                            *)

masterVars  == <<mpc, hb, batch, serving, stopping>>
tableVars   == <<tasks, last_overwritten, taskCount, log>>
nodeVars    == <<sem_task, sem_ready, buffer, is_busy>>
workerVars  == <<wpc, wtask, wslot, wtext, current_db>>
clientVars  == <<cstate, creq, cguid, answer, gaveUp>>
arrayVars   == <<sessions, torn, lostSlots, clashed>>
sessionVars == <<arrayVars, dirs, runs, lastUse, disturbed>>
boundVars   == <<restarts, events>>

vars == <<masterVars, tableVars, nodeVars, workerVars, clientVars,
          sessionVars, boundVars>>

Roots == Nodes \cup {-1}

MasterStates == {"poll", "heartbeat", "serve", "await", "fill", "post", "down"}
WorkerStates == {"idle", "taken", "load", "run", "set", "locate", "mark", "store",
                 "flush", "writeback", "rewrite", "release", "post", "dead"}
ClientStates == {"idle", "sent", "taken", "polling", "checking"}

-----------------------------------------------------------------------------
(* AsyncManager's constructor and the start of main: the workers run and    *)
(* the session array is empty.                                              *)

Init ==
  /\ mpc = "poll" /\ hb = 0 /\ batch = {} /\ stopping = FALSE
  /\ serving \in Clients
  /\ tasks = [i \in Slots |-> FreeSlot]
  /\ last_overwritten = 0
  /\ sessions = [t \in Tokens |-> NoDb]
  /\ torn = {} /\ lostSlots = 0 /\ clashed = FALSE
  /\ sem_task  = [n \in Nodes |-> 0]
  /\ sem_ready = [n \in Nodes |-> 1]
  /\ buffer    = [n \in Nodes |-> NoTask]
  /\ is_busy   = [n \in Nodes |-> FALSE]
  /\ wpc   = [n \in Nodes |-> "idle"]
  /\ wtask = [n \in Nodes |-> NoTask]
  /\ wslot = [n \in Nodes |-> 0]
  /\ wtext = [n \in Nodes |-> Plain("none")]
  /\ current_db = [n \in Nodes |-> NoDb]
  /\ dirs = [x \in Roots |-> OnDisk]
  /\ cstate = [c \in Clients |-> "idle"]
  /\ creq   = [c \in Clients |-> NoRequest]
  /\ cguid  = [c \in Clients |-> 0]
  /\ answer = [c \in Clients |-> Plain("none")]
  /\ gaveUp = [c \in Clients |-> FALSE]
  /\ taskCount = 0
  /\ log     = [g \in 1 .. MaxTasks |-> NoRequest]
  /\ runs    = [g \in 1 .. MaxTasks |-> 0]
  /\ lastUse = [t \in Tokens |-> NoDb]
  /\ disturbed = {}
  /\ restarts = 0 /\ events = 0

-----------------------------------------------------------------------------
(* The session array, in which no lock keeps the workers apart.  Here it is *)
(* what SessionMap promises and Sessions has slot by slot: a call of        *)
(* set_session_db begins and ends, and takes effect at its end unless its   *)
(* worker dies; once two calls have clashed nothing is known of the array.  *)

Token(n)  == wtask[n].req.token
InCall(n) == wpc[n] \in {"set", "rewrite"} /\ Token(n) # NoToken

(* Bug variant: the token is not compared.                                  *)
BugSessionDbs(t) ==
  IF t = NoToken THEN {NoDb} ELSE { sessions[u] : u \in Tokens }

(* What get_session_db can return: half of one name and half of another     *)
(* (which may be that of a database) while a worker overwrites the name or  *)
(* after one died doing so.                                                 *)
SessionDbs(t) ==
  IF t = NoToken THEN {NoDb}
  ELSE IF \/ clashed \/ t \in torn
          \/ \E m \in Nodes :
               InCall(m) /\ Token(m) = t /\ current_db[m] # sessions[t]
    THEN DbName \cup {Garbled}
  ELSE {sessions[t]}

Used       == { t \in Tokens : sessions[t] # NoDb }
HasRoom(t) == sessions[t] # NoDb \/ Cardinality(Used) + lostSlots < MaxSessions

(* The beginning of a call: two clash when they are for one session, or     *)
(* when both have to look for a free slot (Sessions!Clash, which sees when  *)
(* both really do).                                                         *)
BeginCall(n, state) ==
  /\ wpc' = [wpc EXCEPT ![n] = state]
  /\ clashed' = (clashed \/ \E m \in Nodes \ {n} :
       /\ InCall(m) /\ Token(n) # NoToken
       /\ \/ Token(m) = Token(n)
          \/ {sessions[Token(m)], sessions[Token(n)]} = {NoDb})

(* Bug variant: the first active session is overwritten.                    *)
BugSetSession(t, d) ==
  /\ LET u == IF Used = {} THEN t ELSE CHOOSE x \in Used : TRUE IN
     sessions' = [sessions EXCEPT ![u] = d]
  /\ torn' = torn \ {t}

(* The end of set_session_db: the database is in the session's slot or in a *)
(* free one, or nowhere when the array is full or the token empty.          *)
SetSession(t, d) ==
  /\ sessions' = IF t # NoToken /\ HasRoom(t) THEN [sessions EXCEPT ![t] = d]
                 ELSE sessions
  /\ torn' = torn \ {t}

(* The worker of node n dies.  In the middle of a call it leaves nothing, a *)
(* slot without a whole token, or a token with any part of the name.        *)
LeavesCall(n) ==
  \/ UNCHANGED <<sessions, torn, lostSlots, disturbed>>
  \/ /\ InCall(n) /\ HasRoom(Token(n)) /\ sessions[Token(n)] = NoDb
     /\ lostSlots' = lostSlots + 1
     /\ UNCHANGED <<sessions, torn, disturbed>>
  \/ /\ InCall(n) /\ HasRoom(Token(n))
     /\ sessions' = [sessions EXCEPT ![Token(n)] = current_db[n]]
     /\ torn' = torn \cup {Token(n)}
     /\ disturbed' = disturbed \cup {Token(n)}
     /\ UNCHANGED lostSlots

-----------------------------------------------------------------------------
(* The master's loop.                                                       *)

(* poll: a snapshot of the sockets with a message in them.  A message that  *)
(* arrives later waits for the next turn of the loop.                       *)
Poll ==
  /\ mpc = "poll" /\ ~stopping
  /\ batch' = { c \in Clients : cstate[c] \in {"sent", "checking"} }
  /\ mpc' = "heartbeat" /\ hb' = 0
  /\ UNCHANGED <<serving, stopping, tableVars, nodeVars, workerVars, clientVars,
                 sessionVars, boundVars>>

(* The loop ends: SIGTERM to every worker, whose default action kills it.   *)
Shutdown ==
  /\ mpc = "poll" /\ stopping
  /\ mpc' = "down"
  /\ wpc'   = [n \in Nodes |-> "dead"]
  /\ wtask' = [n \in Nodes |-> NoTask]
  /\ wslot' = [n \in Nodes |-> 0]
  /\ wtext' = [n \in Nodes |-> Plain("none")]
  /\ current_db' = [n \in Nodes |-> NoDb]
  /\ UNCHANGED <<hb, batch, serving, stopping, tableVars, nodeVars, clientVars,
                 sessionVars, boundVars>>

(* Bug variant: i <= N_NODES.                                               *)
BugNextNode ==
  /\ mpc' = IF hb = NNodes THEN "serve" ELSE "heartbeat"
  /\ hb'  = IF hb = NNodes THEN 0 ELSE hb + 1

NextNode ==
  /\ mpc' = IF hb = NNodes - 1 THEN "serve" ELSE "heartbeat"
  /\ hb'  = IF hb = NNodes - 1 THEN 0 ELSE hb + 1

(* Bug variant: the heartbeat only looks at workers that are busy.          *)
BugAlive(n) == wpc[n] # "dead" \/ ~is_busy[n]
Alive(n)    == wpc[n] # "dead"

(* The heartbeat finds the worker alive, and idle or seen recently.         *)
HeartbeatOk ==
  /\ mpc = "heartbeat" /\ Alive(hb)
  /\ NextNode
  /\ UNCHANGED <<batch, serving, stopping, tableVars, nodeVars, workerVars,
                 clientVars, sessionVars, boundVars>>

(* A worker enters a state in which its loop's local variables do not exist.*)
ForgetLocals(n, state) ==
  /\ wpc'   = [wpc   EXCEPT ![n] = state]
  /\ wtask' = [wtask EXCEPT ![n] = NoTask]
  /\ wslot' = [wslot EXCEPT ![n] = 0]
  /\ wtext' = [wtext EXCEPT ![n] = Plain("none")]

Dies(n) == ForgetLocals(n, "dead") /\ current_db' = [current_db EXCEPT ![n] = NoDb]

(* The process a successful fork starts in worker_node_main.                *)
Spawn(n) ==
  /\ ForgetLocals(n, "idle")
  /\ current_db' = [current_db EXCEPT ![n] = NoDb]
  /\ is_busy' = [is_busy EXCEPT ![n] = FALSE]

ForkFails(n) ==
  /\ Dies(n)
  /\ UNCHANGED is_busy

(* Bug variants: the task of the dead worker is handed to its successor;    *)
(* sem_ready is not initialised again.                                      *)
BugRetryTask(n) ==
  /\ sem_task'  = [sem_task  EXCEPT ![n] = 1]
  /\ sem_ready' = [sem_ready EXCEPT ![n] = 0]

BugReinitTaskOnly(n) ==
  /\ sem_task' = [sem_task EXCEPT ![n] = 0]
  /\ UNCHANGED sem_ready

ReinitSemaphores(n) ==
  /\ sem_task'  = [sem_task  EXCEPT ![n] = 0]
  /\ sem_ready' = [sem_ready EXCEPT ![n] = 1]

(* The heartbeat finds the worker dead, or busy and not seen for            *)
(* HEARTBEAT_SEC: it is killed, its semaphores are initialised again and    *)
(* another one is forked.  A live worker judged overdue and a fork that     *)
(* fails are environment events.                                            *)
HeartbeatRestart ==
  /\ mpc = "heartbeat"
  /\ \E overdue, failed \in BOOLEAN :
       LET cost == (IF overdue THEN 1 ELSE 0) + (IF failed THEN 1 ELSE 0) IN
       /\ IF overdue THEN wpc[hb] # "dead" /\ is_busy[hb] ELSE wpc[hb] = "dead"
       /\ events + cost <= MaxEvents
       /\ events' = events + cost
       /\ IF failed THEN ForkFails(hb) ELSE Spawn(hb)
  /\ LeavesCall(hb)
  /\ ReinitSemaphores(hb)
  /\ restarts' = restarts + 1
  /\ NextNode
  /\ UNCHANGED <<batch, serving, stopping, tableVars, buffer, clientVars, clashed,
                 dirs, runs, lastUse>>

(* What a client sees of a reply: nothing, once its receive has timed out.  *)
Reply(c, state, text) ==
  /\ cstate' = [cstate EXCEPT ![c] = IF gaveUp[c] THEN "idle" ELSE state]
  /\ answer' = [answer EXCEPT ![c] = IF gaveUp[c] THEN @ ELSE text]
  /\ gaveUp' = [gaveUp EXCEPT ![c] = FALSE]

(* A CHECK message: "Processing..." while the task is pending, otherwise    *)
(* the text of its result.                                                  *)
ServeCheck(c) ==
  /\ mpc = "serve" /\ c \in batch /\ cstate[c] = "checking"
  /\ IF IsPending(tasks, cguid[c])
       THEN Reply(c, "polling", answer[c])
       ELSE Reply(c, "idle", FetchedText(tasks, cguid[c]))
  /\ batch' = batch \ {c}
  /\ UNCHANGED <<mpc, hb, serving, stopping, tableVars, nodeVars, workerVars, creq,
                 cguid, sessionVars, boundVars>>

(* A query: register_task, after which the master waits for the node.       *)
ServeQuery(c) ==
  /\ mpc = "serve" /\ c \in batch /\ cstate[c] = "sent"
  /\ taskCount' = taskCount + 1
  /\ log' = [log EXCEPT ![taskCount + 1] = creq[c]]
  /\ \E i \in Slots :
       /\ IsFreeSlot(tasks, last_overwritten, i)
       /\ tasks' = [tasks EXCEPT ![i] = FreshSlot(taskCount + 1)]
       /\ last_overwritten' = IF Unused(tasks) = {} THEN i ELSE last_overwritten
  /\ cguid'  = [cguid  EXCEPT ![c] = taskCount + 1]
  /\ cstate' = [cstate EXCEPT ![c] = "taken"]
  /\ serving' = c
  /\ mpc' = "await"
  /\ UNCHANGED <<hb, batch, stopping, nodeVars, workerVars, creq, answer, gaveUp,
                 sessionVars, boundVars>>

Target == creq[serving].node

(* sem_wait(sem_ready): the master's loop, heartbeat included, stands still *)
(* until the node's worker posts it.                                        *)
AwaitReady ==
  /\ mpc = "await" /\ sem_ready[Target] > 0
  /\ sem_ready' = [sem_ready EXCEPT ![Target] = @ - 1]
  /\ mpc' = "fill"
  /\ UNCHANGED <<hb, batch, serving, stopping, tableVars, sem_task, buffer, is_busy,
                 workerVars, clientVars, sessionVars, boundVars>>

(* The strncpy of the query and the guid into the node's buffers.  Bug      *)
(* variant: the guid is not copied.                                         *)
BugFilled(c) == [guid |-> buffer[Target].guid, req |-> creq[c]]
Filled(c)    == [guid |-> cguid[c], req |-> creq[c]]

FillBuffers ==
  /\ mpc = "fill"
  /\ buffer' = [buffer EXCEPT ![Target] = Filled(serving)]
  /\ is_busy' = [is_busy EXCEPT ![Target] = TRUE]
  /\ mpc' = "post"
  /\ UNCHANGED <<hb, batch, serving, stopping, tableVars, sem_task, sem_ready,
                 workerVars, clientVars, sessionVars, boundVars>>

(* sem_post(sem_task).  Bug variant: the guid is sent first, and the query  *)
(* dropped when that fails.                                                 *)
BugPostSemTask(n) ==
  sem_task' = [sem_task EXCEPT ![n] = IF gaveUp[serving] THEN @ ELSE @ + 1]
PostSemTask(n) ==
  sem_task' = [sem_task EXCEPT ![n] = @ + 1]

(* The task is posted, and the client told its guid.                        *)
PostTask ==
  /\ mpc = "post"
  /\ PostSemTask(Target)
  /\ Reply(serving, "polling", answer[serving])
  /\ batch' = batch \ {serving}
  /\ mpc' = "serve"
  /\ UNCHANGED <<hb, serving, stopping, tableVars, sem_ready, buffer, is_busy,
                 workerVars, creq, cguid, sessionVars, boundVars>>

BatchServed ==
  /\ mpc = "serve" /\ batch = {}
  /\ mpc' = "poll"
  /\ UNCHANGED <<hb, batch, serving, stopping, tableVars, nodeVars, workerVars,
                 clientVars, sessionVars, boundVars>>

MasterStep ==
  \/ Poll \/ Shutdown \/ HeartbeatOk \/ HeartbeatRestart
  \/ \E c \in Clients : ServeCheck(c) \/ ServeQuery(c)
  \/ AwaitReady \/ FillBuffers \/ PostTask \/ BatchServed

-----------------------------------------------------------------------------
(* A worker's loop.                                                         *)

(* sem_wait(sem_task).                                                      *)
TakeTask(n) ==
  /\ wpc[n] = "idle" /\ sem_task[n] > 0
  /\ sem_task' = [sem_task EXCEPT ![n] = @ - 1]
  /\ wpc' = [wpc EXCEPT ![n] = "taken"]
  /\ UNCHANGED <<masterVars, tableVars, sem_ready, buffer, is_busy, wtask, wslot,
                 wtext, current_db, clientVars, sessionVars, boundVars>>

ReadBuffers(n) ==
  /\ wpc[n] = "taken"
  /\ wtask' = [wtask EXCEPT ![n] = buffer[n]]
  /\ wpc' = [wpc EXCEPT ![n] = "load"]
  /\ UNCHANGED <<masterVars, tableVars, nodeVars, wslot, wtext, current_db,
                 clientVars, sessionVars, boundVars>>

(* The session's database becomes the current one before the statement is   *)
(* parsed.  When its directory is gone, throw_if_error throws outside any   *)
(* try block and the process terminates.                                    *)
LoadSession(n) ==
  /\ wpc[n] = "load"
  /\ \E db \in SessionDbs(Token(n)) :
       \/ /\ db # NoDb /\ db \notin dirs[-1]
          /\ Dies(n)
       \/ /\ db = NoDb \/ db \in dirs[-1]
          /\ wpc' = [wpc EXCEPT ![n] = "run"]
          /\ current_db' = IF db = NoDb THEN current_db
                           ELSE [current_db EXCEPT ![n] = db]
          /\ UNCHANGED <<wtask, wslot, wtext>>
  /\ disturbed' = disturbed \cup
       { t \in Tokens \cap {Token(n)} :
           \E m \in Nodes : wpc[m] = "set" /\ Token(m) = t }
  /\ UNCHANGED <<masterVars, tableVars, nodeVars, clientVars, arrayVars, dirs, runs,
                 lastUse, boundVars>>

(* Another worker is between reading the session of a token and writing it  *)
(* back (history only).                                                     *)
Overlaps(n, t) ==
  \E m \in Nodes \ {n} :
    /\ Token(m) = t
    /\ wpc[m] \in {"run", "set", "locate", "mark", "store", "flush", "writeback",
                  "rewrite"}

ResultReady(n) == wpc' = [wpc EXCEPT ![n] = "locate"] /\ UNCHANGED clashed

(* The statements.  cur is the current database after process() has read    *)
(* the session a second time, ignoring a useDatabase that fails; text is    *)
(* the database the result speaks of.                                       *)
Use(n, r, cur) ==
  /\ r.op = "use"
  /\ \/ /\ r.db \in dirs[-1]
        /\ current_db' = [current_db EXCEPT ![n] = r.db]
        /\ wtext' = [wtext EXCEPT ![n] = Whole(wtask[n].guid, r.db)]
        /\ BeginCall(n, "set")
        /\ disturbed' = disturbed \cup { t \in Tokens \cap {r.token} : Overlaps(n, t) }
     \/ /\ r.db \notin dirs[-1]
        /\ current_db' = [current_db EXCEPT ![n] = cur]
        /\ wtext' = [wtext EXCEPT ![n] = Whole(wtask[n].guid, NoDb)]
        /\ ResultReady(n)
        /\ UNCHANGED disturbed
  /\ UNCHANGED dirs

CreateDatabase(n, r, cur) ==
  LET missing == \E x \in Roots : r.db \notin dirs[x] IN
  /\ r.op = "create"
  /\ dirs' = [x \in Roots |-> dirs[x] \cup {r.db}]
  /\ current_db' = [current_db EXCEPT ![n] = cur]
  /\ wtext' = [wtext EXCEPT ![n] = Whole(wtask[n].guid,
                                         IF missing THEN r.db ELSE NoDb)]
  /\ ResultReady(n)
  /\ UNCHANGED disturbed

(* dropDatabase clears the current database of its own process only.        *)
DropDatabase(n, r, cur) ==
  LET found == \E x \in Roots : r.db \in dirs[x] IN
  /\ r.op = "drop"
  /\ dirs' = [x \in Roots |-> dirs[x] \ {r.db}]
  /\ current_db' = [current_db EXCEPT ![n] =
                      IF found /\ cur = r.db THEN NoDb ELSE cur]
  /\ wtext' = [wtext EXCEPT ![n] = Whole(wtask[n].guid,
                                         IF found THEN r.db ELSE NoDb)]
  /\ ResultReady(n)
  /\ UNCHANGED disturbed

(* A statement on a table: resolveTablePath takes the prefix or the current *)
(* database, fails when there is neither, and makes the database's          *)
(* directory under the node's root when it is missing.                      *)
TableStatement(n, r, cur) ==
  LET db == IF r.db # NoDb THEN r.db ELSE cur IN
  /\ r.op = "table"
  /\ dirs' = IF db = NoDb THEN dirs ELSE [dirs EXCEPT ![n] = @ \cup {db}]
  /\ current_db' = [current_db EXCEPT ![n] = cur]
  /\ wtext' = [wtext EXCEPT ![n] = Whole(wtask[n].guid, db)]
  /\ ResultReady(n)
  /\ UNCHANGED disturbed

(* A statement the parser or requireAccess refuses: USE is not checked for  *)
(* access.                                                                  *)
Refused(n, r, cur) ==
  /\ r.op # "use"
  /\ current_db' = [current_db EXCEPT ![n] = cur]
  /\ wtext' = [wtext EXCEPT ![n] = Whole(wtask[n].guid, NoDb)]
  /\ ResultReady(n)
  /\ UNCHANGED <<dirs, disturbed>>

(* SQLParser::process.  requireAccess refuses the empty token.              *)
RunStatement(n) ==
  /\ wpc[n] = "run"
  /\ \E db \in SessionDbs(Token(n)) :
       LET r   == wtask[n].req
           cur == IF db # NoDb /\ db \in dirs[-1] THEN db ELSE current_db[n] IN
       \/ Use(n, r, cur)
       \/ r.token # NoToken /\ ( \/ CreateDatabase(n, r, cur)
                                 \/ DropDatabase(n, r, cur)
                                 \/ TableStatement(n, r, cur) )
       \/ Refused(n, r, cur)
  /\ runs' = [runs EXCEPT ![wtask[n].guid] = @ + 1]
  /\ UNCHANGED <<masterVars, tableVars, nodeVars, wtask, wslot, clientVars, sessions,
                 torn, lostSlots, lastUse, boundVars>>

(* The end of the call a successful USE makes.                              *)
UseDone(n) ==
  /\ wpc[n] = "set"
  /\ SetSession(Token(n), current_db[n])
  /\ lastUse' = [lastUse EXCEPT ![Token(n)] = current_db[n]]
  /\ ResultReady(n)
  /\ UNCHANGED <<masterVars, tableVars, nodeVars, wtask, wslot, wtext, current_db,
                 clientVars, lostSlots, dirs, runs, disturbed, boundVars>>

(* The slot update_task looks for.  Bug variant: the one registered last.   *)
BugFound(n) == Holding(tasks, taskCount)
Found(n)    == Holding(tasks, wtask[n].guid)

(* update_task, statement by statement: find the slot; write the status and *)
(* the code; then copy the text, which a reader may see half done.  Nothing *)
(* keeps the slot from being given to another task in between.              *)
LocateSlot(n) ==
  /\ wpc[n] = "locate"
  /\ IF Found(n) = {}
       THEN wpc' = [wpc EXCEPT ![n] = "writeback"] /\ UNCHANGED wslot
       ELSE /\ wpc' = [wpc EXCEPT ![n] = "mark"]
            /\ \E i \in Found(n) : wslot' = [wslot EXCEPT ![n] = i]
  /\ UNCHANGED <<masterVars, tableVars, nodeVars, wtask, wtext, current_db,
                 clientVars, sessionVars, boundVars>>

MarkCompleted(n) ==
  /\ wpc[n] = "mark"
  /\ tasks' = [tasks EXCEPT ![wslot[n]].status = "COMPLETED"]
  /\ wpc' = [wpc EXCEPT ![n] = "store"]
  /\ UNCHANGED <<masterVars, last_overwritten, taskCount, log, nodeVars, wtask, wslot,
                 wtext, current_db, clientVars, sessionVars, boundVars>>

StoreText(n, text, from, to) ==
  /\ wpc[n] = from
  /\ tasks' = [tasks EXCEPT ![wslot[n]].data = text]
  /\ wpc' = [wpc EXCEPT ![n] = to]
  /\ UNCHANGED <<masterVars, last_overwritten, taskCount, log, nodeVars, wtask, wslot,
                 wtext, current_db, clientVars, sessionVars, boundVars>>

StoreBegin(n) == StoreText(n, Plain("torn"), "store", "flush")
StoreEnd(n)   == StoreText(n, wtext[n], "flush", "writeback")

(* set_session_db with the process's current database, after the result can *)
(* already be read: its beginning, and its end.                             *)
WriteBackSession(n) ==
  /\ wpc[n] = "writeback"
  /\ IF current_db[n] # NoDb /\ Token(n) # NoToken
       THEN BeginCall(n, "rewrite")
       ELSE wpc' = [wpc EXCEPT ![n] = "release"] /\ UNCHANGED clashed
  /\ UNCHANGED <<masterVars, tableVars, nodeVars, wtask, wslot, wtext, current_db,
                 clientVars, sessions, torn, lostSlots, dirs, runs, lastUse,
                 disturbed, boundVars>>

SessionWritten(n) ==
  /\ wpc[n] = "rewrite"
  /\ SetSession(Token(n), current_db[n])
  /\ wpc' = [wpc EXCEPT ![n] = "release"]
  /\ UNCHANGED <<masterVars, tableVars, nodeVars, wtask, wslot, wtext, current_db,
                 clientVars, lostSlots, clashed, dirs, runs, lastUse, disturbed,
                 boundVars>>

Release(n) ==
  /\ wpc[n] = "release"
  /\ is_busy' = [is_busy EXCEPT ![n] = FALSE]
  /\ wpc' = [wpc EXCEPT ![n] = "post"]
  /\ UNCHANGED <<masterVars, tableVars, sem_task, sem_ready, buffer, wtask, wslot,
                 wtext, current_db, clientVars, sessionVars, boundVars>>

(* Bug variant: the semaphore is not posted.                                *)
BugPostReady(n) ==
  /\ wpc[n] = "post"
  /\ ForgetLocals(n, "idle")
  /\ UNCHANGED <<masterVars, tableVars, sem_task, sem_ready, buffer, is_busy,
                 current_db, clientVars, sessionVars, boundVars>>

PostReady(n) ==
  /\ wpc[n] = "post"
  /\ sem_ready' = [sem_ready EXCEPT ![n] = @ + 1]
  /\ ForgetLocals(n, "idle")
  /\ UNCHANGED <<masterVars, tableVars, sem_task, buffer, is_busy, current_db,
                 clientVars, sessionVars, boundVars>>

WorkerStep(n) ==
  \/ TakeTask(n) \/ ReadBuffers(n) \/ LoadSession(n) \/ RunStatement(n) \/ UseDone(n)
  \/ LocateSlot(n) \/ MarkCompleted(n) \/ StoreBegin(n) \/ StoreEnd(n)
  \/ WriteBackSession(n) \/ SessionWritten(n) \/ Release(n) \/ PostReady(n)

-----------------------------------------------------------------------------
(* The clients.                                                             *)

Outstanding == { c \in Clients : cstate[c] = "sent" }

(* processExchange: connect and send a query.                               *)
Submit(c) ==
  /\ cstate[c] = "idle" /\ mpc # "down"
  /\ taskCount + Cardinality(Outstanding) < MaxTasks
  /\ \E r \in Workload[c] : creq' = [creq EXCEPT ![c] = r]
  /\ cstate' = [cstate EXCEPT ![c] = "sent"]
  /\ answer' = [answer EXCEPT ![c] = Plain("none")]
  /\ UNCHANGED <<masterVars, tableVars, nodeVars, workerVars, cguid, gaveUp,
                 sessionVars, boundVars>>

(* pollForResult: connect and send CHECK with the guid.                     *)
Check(c) ==
  /\ cstate[c] = "polling" /\ mpc # "down"
  /\ cstate' = [cstate EXCEPT ![c] = "checking"]
  /\ UNCHANGED <<masterVars, tableVars, nodeVars, workerVars, creq, cguid, answer,
                 gaveUp, sessionVars, boundVars>>

(* The connection is closed with the master's process: receiveString        *)
(* returns the empty string, which is not "Processing...".                  *)
ConnectionLost(c) ==
  /\ mpc = "down" /\ cstate[c] \in {"sent", "taken", "checking"}
  /\ cstate' = [cstate EXCEPT ![c] = "idle"]
  /\ answer' = [answer EXCEPT ![c] = Plain("empty")]
  /\ gaveUp' = [gaveUp EXCEPT ![c] = FALSE]
  /\ UNCHANGED <<masterVars, tableVars, nodeVars, workerVars, creq, cguid,
                 sessionVars, boundVars>>

ClientStep(c) == Submit(c) \/ Check(c) \/ ConnectionLost(c)

-----------------------------------------------------------------------------
(* The environment, within MaxEvents.                                       *)

Event == events < MaxEvents /\ events' = events + 1 /\ UNCHANGED restarts

(* A worker process dies at any point of its loop.                          *)
WorkerDies(n) ==
  /\ wpc[n] # "dead" /\ Event
  /\ Dies(n) /\ LeavesCall(n)
  /\ UNCHANGED <<masterVars, tableVars, nodeVars, clientVars, clashed, dirs, runs,
                 lastUse>>

(* SIGINT or SIGTERM to the master clears g_keep_running.                   *)
StopSignal ==
  /\ mpc # "down" /\ ~stopping /\ Event
  /\ stopping' = TRUE
  /\ UNCHANGED <<mpc, hb, batch, serving, tableVars, nodeVars, workerVars,
                 clientVars, sessionVars>>

(* A client's receiveString gives up after IO_TIMEOUT_MS and returns the    *)
(* empty string, which the client takes for the reply.  Its message stays   *)
(* in the master's socket.                                                  *)
ReceiveTimesOut(c) ==
  /\ cstate[c] \in {"sent", "taken", "checking"} /\ ~gaveUp[c] /\ Event
  /\ gaveUp' = [gaveUp EXCEPT ![c] = TRUE]
  /\ answer' = [answer EXCEPT ![c] = Plain("empty")]
  /\ UNCHANGED <<masterVars, tableVars, nodeVars, workerVars, cstate, creq, cguid,
                 sessionVars>>

Environment ==
  \/ \E n \in Nodes : WorkerDies(n)
  \/ StopSignal
  \/ \E c \in Clients : ReceiveTimesOut(c)

-----------------------------------------------------------------------------
Next ==
  \/ MasterStep
  \/ \E n \in Nodes : WorkerStep(n)
  \/ \E c \in Clients : ClientStep(c)
  \/ Environment

Spec == Init /\ [][Next]_vars

(* The operating system schedules every process: the master and each worker *)
(* keep taking the steps they can, and a client that polls sends its next   *)
(* CHECK.  A client need not submit another query, and no environment event *)
(* has to happen.                                                           *)
Fairness ==
  /\ WF_vars(MasterStep)
  /\ \A n \in Nodes : WF_vars(WorkerStep(n))
  /\ \A c \in Clients : WF_vars(Check(c) \/ ConnectionLost(c))

FairSpec == Spec /\ Fairness
=============================================================================
