# A specification of the KR_SP database server

KR_SP is a small SQL database server. One *master* process accepts clients and
dispatches their queries to four *worker* processes over shared memory; every
worker executes SQL against tables kept in page files with B+tree indexes; a
client submits a query, gets the guid of a task back and polls for its result.

This directory holds TLA+ models of that code, TLC configurations that check
them on small instances, and proofs checked by TLAPS. Paths below are relative
to `src/modules/`.

## 1. The system

| Component | State | Operations | Hard part |
|---|---|---|---|
| Master, `api/src/ServerApp.cpp` `main` | poll set, `g_keep_running` | poll, heartbeat, serve CHECK, register and dispatch a query, shutdown | blocks in `sem_wait(sem_ready)` on the thread that runs the heartbeat; restarts workers |
| Worker, `ServerApp.cpp` `worker_node_main` | the local copy of its task, `HierarchyManager::current_db` | take a task, load the session, run the statement, store the result, write the session back, post `sem_ready` | dies anywhere; its memory outlives a task |
| Task table, `api/src/AsyncManager.cpp` | array of slots in shared memory, `last_overwritten` | `register_task`, `update_task`, `fetch_result` | no lock: a slot is reused while a worker writes to it |
| Session table, `AsyncManager.cpp` | array of (token, database) in shared memory | `get_session_db`, `set_session_db` | no lock; written by every worker |
| Node control blocks, `shared/include/common.h` | two semaphores, two buffers, `is_busy`, `last_seen` per node | posted and waited for by master and worker | re-initialised on a restart |
| `core/src/HierarchyManager.cpp` | directories on disk, `current_db` | create, drop, use a database, resolve a table's path | shared by all workers without a lock |
| Client, `api/src/ClientApp.cpp` | session token | submit, poll | a receive that times out looks like an empty result |
| Parser and statements, `api/src/SQLParser.cpp`, `api/include/Statements.h` | - | lex, parse, check access, execute | multi-step statements that stop half way |
| `logic/` TableManager, RecordManager | a table's header, heap pages, index roots | insert, update, delete, select | rows and indexes are changed one page write at a time, with no log |
| `storage/include/BPlusTree.h` | pages of a tree | insert, erase, find, range scans | splits, borrows, merges, leaf chain |
| `core/src/Pager.cpp`, `logic/include/TablePageManager.h` | page file, free list, cached page count | allocate, free, read, write | page count cached before the lock is taken |
| `logic/include/TableLockManager.h` | fcntl lock of a table | lock, unlock | per process, not per thread |
| `core/src/AuthManager.cpp` | users, groups, memberships, permissions in tables of `_system` | login, grant, revoke, join a group, check | a check is up to four kinds of SELECT with no common lock, a grant one insertion per right |
| Logger, Telemetry | log files | append | output only |

A query travels: client -> socket -> master (`register_task`, then the node's
buffers and `sem_task`) -> worker (session table, file system, tables) -> task
table -> a later CHECK of the client, answered by the master from the task
table. Master and workers share memory and semaphores; workers share the file
system; nothing else is shared, and only the semaphores synchronise.

What makes each part correct:

- master and workers: the turn of a node is never duplicated, and lost only with
  the worker that held it; the buffers are read whole; no task runs twice; no
  more tasks are lost than workers; a dead worker is replaced;
- task table: a client reads its own result, whole; the newest tasks are kept;
- sessions: a session stays on the database it selected; the array that holds
  them is a map although it is searched and filled in separate loops;
- tree and allocator: the pages are at any time a balanced search tree that
  means the same map, its leaves are chained in order, and no page is owned
  twice;
- tables: pages, slots and indexes are a bag of rows with unique keys; each
  access path of SELECT finds the same rows; with one process a statement that
  goes wrong harms only the rows it was about, with several none on the pages
  that its process knew;
- rights: a check allows what was a right and denies nothing that was one
  throughout; GRANT and REVOKE that report success have had their effect.

The hazards, each at its line, are in `PROJECT.json`.

## 2. Modules

| Module | Models | Lines of it that matter |
|---|---|---|
| `TaskTable` | the slot array of `AsyncManager`, as operators over a parameter | `find_free_slot`, `update_task`, `fetch_result` |
| `Cluster` | master, workers, clients, environment | `ServerApp.cpp`, `AsyncManager.cpp`, `HierarchyManager.cpp`, `ClientApp.cpp` |
| `TaskService` | abstract: what is promised about tasks | - |
| `ClusterProperties` | type invariant, safety, action, liveness properties, refinement of `TaskService` | - |
| `MCCluster` | workloads for TLC | - |
| `OrderedIndex` | abstract: what an index promises | - |
| `BPlusTree` | the tree and its page allocator | `BPlusTree.h`, `TablePageManager.h`, `Pager.cpp:99-118` |
| `TreeProperties` | structure, scans, page ownership, refinement of `OrderedIndex` | - |
| `MCTree` | instances for TLC, the view of a tree without page numbers | - |
| `TreeProofs`, `OrderProofs` | theorems about `BPlusTree`: pages, occupancy, the path, balance; order and the refinement | - |
| `ClusterProofs`, `ServiceProofs`, `OutcomeProofs` | theorems about `Cluster`: the handshake and the tasks; slots, answers and the refinement; losses and sessions | - |
| `Sessions` | the session array, slot by slot | `AsyncManager.cpp:135-174` |
| `SessionMap` | abstract: a map from sessions to databases | - |
| `SessionProperties`, `MCSessions` | properties and refinement of `SessionMap`; instance | - |
| `SessionProofs` | theorems: the array, what a lookup returns, the refinement | - |
| `Conditions` | values and WHERE conditions | `Value::compare` in `common.h`, `ASTNode.h` |
| `Table` | a table file and the statements on it | `TableManager_Mutations.cpp`, `TableManager_Queries.cpp`, `RecordManager.cpp`, `Pager.cpp` |
| `KeyedRows` | abstract: a bag of rows with unique keys | - |
| `TableProperties`, `MCTable` | properties and refinement of `KeyedRows`; instances | - |
| `TableProofs` | theorems about `Table`: space in a page, entries and rows, SELECT | - |
| `Rights` | access checks, GRANT, REVOKE, memberships | `AuthManager.cpp:222-308`, `Statements.h:637-738` |
| `RightsProperties`, `MCRights`, `RightsProofs` | properties; instance; theorems | - |

`Cluster`, `BPlusTree`, `Table`, `Sessions` and `Rights` are five models of parts
that meet at narrow interfaces. `Cluster` has of the session table what
`SessionMap` promises and `Sessions` has slot by slot, with the clashes and the
deaths that limit the promise; a table statement is one step there. `Table`
uses an index as a single leaf, for the map that `BPlusTree` is shown to implement. `Rights` takes
from `Table` what a read or a change of a shared table may do when a process
opened the file before others extended it.

### Cluster: state and actions

`mpc` is where the master is in its loop. Poll (205-210) takes a snapshot of the
ready sockets into `batch`; the heartbeat (212-237) looks at the nodes one by one;
`ServeCheck` and `ServeQuery` (239-291) handle one socket each, in any order;
`AwaitReady`, `FillBuffers`, `PostTask` are the three steps of the dispatch
(293-316), between which workers and crashes interleave. `wpc[n]` is where a
worker is in its loop, one value per access to shared memory: `sem_wait`, the
read of the buffers, `get_session_db` with `useDatabase`, `process`, then the
three separate effects of `update_task` (find the slot, mark it, copy the text in
two halves), the session write-back, `is_busy = false`, `sem_post`.

A call of `set_session_db` (by USE: `"set"`, by the write-back: `"rewrite"`) begins
and ends in steps of its own. Two calls that are under way at once for one session,
or both for sessions that have no slot yet, may meet in one slot (150-153): then
`clashed` is true, and from there on a lookup may return anything. A worker that
dies inside a call leaves nothing, a slot that is lost (`lostSlots`), or a token
with any part of a name (`torn`); a lookup may return half a name then, and while
another worker overwrites a name (`SessionDbs`).

| Action | Code |
|---|---|
| `HeartbeatOk`, `HeartbeatRestart`, `Spawn`, `ForkFails`, `ReinitSemaphores` | `ServerApp.cpp:212-237`, `140-155` |
| `ServeCheck` | `ServerApp.cpp:264-278`, `AsyncManager.cpp:122-133` |
| `ServeQuery` | `ServerApp.cpp:280-291`, `AsyncManager.cpp:79-98` |
| `AwaitReady`, `FillBuffers`, `PostTask` | `ServerApp.cpp:293-316` |
| `TakeTask`, `ReadBuffers`, `LoadSession` | `ServerApp.cpp:92-111` |
| `RunStatement` (`Use`, `CreateDatabase`, `DropDatabase`, `TableStatement`, `Refused`) | `SQLParser.cpp:202-248`, `Statements.h:29-134`, `HierarchyManager.cpp:22-128` |
| `LocateSlot`, `MarkCompleted`, `StoreBegin`, `StoreEnd` | `AsyncManager.cpp:100-118` |
| `WriteBackSession`, `SessionWritten`, `Release`, `PostReady` | `ServerApp.cpp:126-136` |
| `BeginCall`, `SetSession`, `UseDone`, `LeavesCall` | `AsyncManager.cpp:135-161`, `Statements.h:78-83` |
| `Submit`, `Check`, `ConnectionLost`, `ReceiveTimesOut` | `ClientApp.cpp:65-137`, `NetworkManager.h:40-75` |
| `WorkerDies`, `StopSignal` | a crash or a kill from outside; `handle_shutdown` |

### BPlusTree: state and actions

`pages` is the table file as the tree sees it, `root` the `_root_id` in the
table's header, `space` the header's free list and the pager's page count. An
insertion or a deletion changes one leaf in its first step; then `pc`, `curr` and
`path` are the loop that repairs the tree and its locals. A split, a borrow or a
merge with the writes of all its pages is one step; the tree is used under the
table's lock, so nobody else reads the steps in between. The reads are operators.
A page is blank until it is allocated and again when it is released, so that the
middle nodes in the file are those of the tree, and `Occupancy`, `PagesOwned` and
`PagesAccounted` can be stated node by node.

| Action | Code (`BPlusTree.h`) |
|---|---|
| `InsertFirst`, `InsertIntoLeaf` | `insert`, 559-613, with `find_path` |
| `SplitNode`, `GrowTree`, `BalanceInsertDone` | `balance_insert` 520-539, `grow_tree` 541-557, `split_leaf`, `split_middle` 408-511 |
| `Erase` | `erase` 615-648 |
| `BorrowRight`, `BorrowLeft`, `MergeSibling`, `BalanceDeleteDone` | `balance_delete` 687-705, `borrow_sibling` 707-812, `merge_sibling` 814-881 |
| `ShrinkRoot` | `shrink_root` 658-685 |
| `Find`, `LowerBound`, `UpperBound`, `RangeScan`, `LowerBoundScan`, `ForEach` | 20-48, 201-406 |
| `Allocate`, `Deallocate` | `TablePageManager.h:17-32`, `Pager.cpp:99-118` |

### Sessions: state and actions

`is_active`, `session_token`, `current_db` are the fields of `layout_->sessions`; a
text is a pair of halves. `pc[w]` is the loop a worker is in and `at[w]` its
index. `during`, `asked`, `clashed`, `broken`, `deaths` are history for the
properties: `clashed` becomes true when two calls for one token, or two calls that
both look for a free slot, are under way at once.

| Action | Code (`AsyncManager.cpp`) |
|---|---|
| `BeginSet`, `FindSlot`, `NotFound` | `set_session_db`, the search for the token, 138-148 |
| `FindFree`, `NoFreeSlot`, `Claim`, `WriteToken`, `WriteDb` | the search for a free slot and the copies, 150-160 |
| `BeginGet`, `GetFound`, `GetNext`, `GetNothing`, `Got` | `get_session_db`, 163-174 |
| `Dies` | a worker killed inside a call |

### Table: state and actions

`pages` is the file from page 1 on, `roots` the index roots of its header. A heap
page has `slots`, the bytes `used` from its end and the recorded `free` space.
`opened[p]` is the page count that the Pager of a process read when it opened the
file. An execution is a fold over a record `x` that holds the file, the header in
memory, and `writes`, the number of page writes that will still succeed: with
`Stops` an execution ends after any of them, as a crash or an error of the disk
ends it. `events` is history: what has happened that the code does not repair.

| Definition | Code |
|---|---|
| `Open` | `Pager::Pager`, `Pager.cpp:17-47` |
| `Insert` (`InsertRow`, `Store`, `FindAvailableSlot`, `UpdateIndices`) | `insertRow` and its helpers |
| `Update` (`ExecuteUpdate`, `UpdateFound`, `FullScanUpdate`, `ApplyAssignments`, `HandleRecordUpdate`, `Relocate`) | `executeUpdate` and its helpers |
| `Delete` (`ExecuteDelete`, `DeleteFound`, `FullScanDelete`, `ClearIndices`) | `executeDelete` and its helpers |
| `Select` (`PointQuery`, `RangeScan`, `TreeScan`, `FullScanSelect`) | `executeSelect`, `TableManager_Queries.cpp` |
| `CreateTable`, `DropTable` | `createTable`, `dropTable` |
| `WritePage`, `AllocatePage` | `Pager::write_page`, `Pager::allocate_page` |
| `AppendRecord`, `Compact`, `Recalc`, `Fits` | `RecordManager.cpp` and the page helpers of `TableManager_Mutations.cpp` |

### Rights: state and actions

`permissions` and `user_groups` are the rows of the two tables; `pc[w]` is the step
of a statement. Each SELECT, INSERT or DELETE of the code is one step, since each
opens the table and takes its lock; `known` and `knownGroups` are the rows on pages
that the process's open file has.

| Action | Code |
|---|---|
| `BeginCheck`, `CheckPublic`, `CheckOwn`, `ReadMemberships`, `CheckGroup`, `NoMoreGroups` | `AuthManager::checkAccess` |
| `BeginGrant`, `GrantOne`, `BeginRevoke`, `RevokeOne`, `ChangeDone` | `GrantPermStatement`, `RevokePermStatement` |
| `BeginJoin`, `Join` | `AlterUserAddToGroupStatement` |
| `Fails`, `Answered` | any error of a table access; the answer |

### Abstractions

- A guid is the ordinal of the registration it was drawn for: random guids do
  not collide. A result is named by its task and the database the statement was
  resolved against.
- `process` is one step towards other processes: of a statement on a table only
  the database directory it is resolved against is kept.
- `kill(SIGKILL)` takes effect at once. A worker running on another core can
  really execute a few more instructions; if one of them is its `sem_post` the
  node has two turns afterwards. Everything proved below rests on this.
- A client that gave up on a reply sends nothing more until the master has
  disposed of its message. The real client may send a new query on a new socket;
  for the server it is then another client.
- `create` and `drop` of a database are one step, and the file system does not
  fail.
- In `Cluster` the session array is a map from tokens to names, changed at the end
  of each call of `set_session_db`; the two halves of a name and the loops over the
  slots are in `Sessions`.
- Texts are taken to fit their fields. The code cuts a query after 65535 bytes
  (`ServerApp.cpp:298-300`), a database's name in the session array after 31 bytes
  (`AsyncManager.cpp:143-146`, `155-158`), a string key of an index after 255
  (`TableManager_Mutations.cpp:76`, `103`, `178`, `241-247`).
- In `Table` an index is a single leaf: the tree, its splits and merges and the
  free list are the matter of `BPlusTree`. So an index takes a new page for its
  first root only, while a leaf that splits takes one or more (`BPlusTree.h:433`,
  `476`, `544`), numbered from the same cached page count. The exclusive lock of a table makes an
  execution one action. Lengths are counted in units of which a page has `Room`.
  Values of a column are integers, in the order of the column's values.
- A text of a session is copied in two halves: the least with which a reader can
  find one text half replaced by another.
- In `Rights` two identical rows of a table are told apart by an identity from
  `Ids`, which the code does not have.
- An index is alone in its file: the header, the heap pages and the other
  indexes of a table take page numbers too, which changes which numbers a tree
  gets and nothing else. Input and output do not fail. What is in a released page
  is forgotten at once; the code overwrites it when it allocates the page again.
- `Refused` stands for every outcome in which the parser or the access check
  turns a statement down, and is possible for every statement but USE.

## 3. What the runs check

Bounds: `MaxTasks` queries are submitted in a behaviour, `MaxEvents`
environment events happen (a crash, a stop signal, a live worker judged overdue,
a failing fork, a receive that times out). All runs of the server have two nodes
and two clients: the least with which one node can be waited for while another works, and
two tasks be in flight on one node.

| Run | Checks | Instance | States |
|---|---|---|---|
| `faults` | `TypeOK`, `Handshake`, `TaskIntact`, `BusyWhileWorking`, `AtMostOnce`, `OneLostPerWorker`, `AnswerIsOwn` | 2 tasks, 2 slots, 2 events | 1.0 M |
| `slots` | `LateWrite`, `ImplementsService` | 4 tasks, 3 slots, no event | 0.7 M |
| `sessions` | `SessionFollowsUse`, `ResolvedAgainstOwnUse` | 3 statements, 2 tokens, 2 databases, 1 death | 2.8 M |
| `recovery` | `DeadRestartedOrStuck`, `AwaitEnds`, `EveryQueryAnswered` | 2 tasks, 2 slots, 1 event, fair | 0.2 M |
| `stuck` | `DeadWorkerRestarted`, violated | as `recovery` | - |
| `completed` | `CompletedHasResult`, violated | 2 tasks, no event | - |
| `tree` | `Balanced`, `Occupancy`, `Separated`, `LeafChain`, `ScansAgree`, `PagesOwned`, `ImplementsIndex`, `PagesAccounted` | t = 2, 7 keys, 12 pages, free list of 1 | 115 k |
| `deep` | `PathLeadsToNode` | t = 2, a grown tree, 7 keys change | 15 k |
| `array` | `TypeOK`, `UniqueSlots`, `OwnDatabase`, `GetsAreCurrent`, `ImplementsMap` | 2 workers, 3 tokens, 2 databases, 2 slots, 1 death | 0.5 M |
| `table` | `SpaceAccounted`, `IndexesAgree`, `EntriesLead`, `SelectAgrees`, `ImplementsRows` | 2 columns, 1 index, 3 pages of 7 units | 0.20 M |
| `shared` | `KnownPagesKeepRows`, `ImplementsRows` | 2 processes, 4 pages, some UPDATEs | 81 k |
| `rights` | `TypeOK`, `DeniedHadGap`, `AllowedWasEntitled`, `RevokeRemoves`, `GrantEnters` | 2 workers, 2 users, 2 groups, PUBLIC, 2 rows per table | 1.9 M |

Why the bounds are enough for the question each run asks.

*`faults`*: two events are enough for a crash during the dispatch that follows a
crash, for a kill of a live worker with a failing fork, and for a timeout racing
the answer; two tasks are enough to lose both. *`slots`*: with three slots the
table keeps the two newest tasks and the fourth registration reuses a slot whose
task may be in any state; `LateWrite`'s antecedent is reached. *`sessions`*: three
statements are what it takes to USE, run a second statement on the other worker
and read the session again; both the overlap the property excludes and the death
of a worker whose session's database was dropped occur. `SessionStates` and
`SessionSteps` keep it small: a behaviour ends at its first clash, as both
properties do, the second session has one statement, the one event is a death
inside a call of `set_session_db`, and a client asks for a result that is there. *`recovery`*: one event
is a crash, a kill of a live worker, a stop or a timeout, and two tasks put the master into a wait for the worker that died.

*`tree`*, *`deep`*: with t = 2 a leaf splits at four entries, and seven keys are the
least with which the root, a middle node, has to split: then the tree has three
levels, and on its way back its middle nodes borrow from either side and merge
with either side, and the root shrinks. A free list with room for one page fills,
and a second release is lost, which `PagesAccounted` says is the only way to lose
a page. A middle node below the root splits only in a larger tree; `deep` starts
from the tree the even keys up to 26 leave when they are inserted in ascending
order, and changes it around its full middle node (`Erasable` and `RidsOf` bound
which keys change). `MaxPages` bounds the file; all trees of seven keys fit into
12 pages. The code has t = 170 for integer keys and t = 7 for strings; t = 2 is the
least that `get_optimal_t` returns. Each key stands for its own record, so that
every read shows which entry it returned.

*`array`*: two slots for three sessions, so that the array is full with one
session left over; one death inside a call, so that a slot is claimed and never
used. `CONSTRAINT UntilClash` ends a behaviour at its first clash, since all
properties are about what comes before. *`table`*: two rows fit into a page, one if
it has grown, so that inserting, lengthening and deleting lead to compaction, to a
record moved to another page, and to a third page; the index has two keys. An
execution stops after one, two or three page writes or not at all. `Accepted` says
after which events the table is used on: after a DELETE cut short, whose remains
must not confuse later statements; after anything else the behaviour ends, as
nothing is promised from there on, with the state in which it ends still checked.
*`shared`*: four pages are enough for both processes to extend the same file, one
with a page count that the other's insertion has made stale; no statement is cut
short, and a table in which something has gone wrong is not opened again.
*`rights`*: one user with a right of his own, by PUBLIC or by one of two groups, one
right granted twice, two rights granted by one statement; `Ids` lets each table hold
two rows, and so the same permission twice.

States explored once. `VIEW Shape` (`tree`, `deep`): states that differ in the
numbers of their pages only; the actions and the properties never compare page
numbers for order. `VIEW file` (`table`, `shared`): `last`, which no action
reads, is left out; every step is checked with the `last` it writes. `VIEW InUse`
(`rights`): what a worker has assigned and will not read again. `SYMMETRY Alike`
(`array`, `rights`): workers, tokens, databases, identities are interchangeable;
neither run checks liveness.

`CHECK_DEADLOCK FALSE` where the system really stops: after a shutdown, and when
the master waits for ever for a dead worker (`faults`, `recovery`, `stuck`,
`sessions`, where a dropped database kills a worker). All other runs check
deadlock.

Fairness (`Fairness` of `Cluster`): weak fairness of the master's steps, of each worker's
steps and of each client's next CHECK (or its noticing that the connection is
lost). They are processes the operating system
schedules; a semaphore wait is a step that is not enabled until the semaphore is
positive. Nothing is assumed of the environment, and no client has to submit.

What they show beyond holding:

- **The heartbeat cannot save the master** (`stuck`). The first query's worker
  dies; the second query goes to the same node; the master waits on `sem_ready`
  in the thread whose heartbeat would restart the worker, and the server stands
  still, although `ServerApp.cpp:223-225` announces a restart. `recovery` shows
  that this is the only way: a dead worker is restarted unless the server stops
  or the master waits for it.
- **COMPLETED before the result** (`completed`). A CHECK served between
  `status = COMPLETED` and the end of the `strncpy` hands out an empty or torn
  text as the final answer; the test of the table
  (`tests/db_tests.cpp:375-377`) expects a completed task to have its data.
- The table keeps `NSlots - 1` tasks, not `NSlots`: the round robin starts at the
  second slot.
- A task that is lost was in the hands of a worker that died: at most one per
  worker, and the client polls for it for ever.
- A session beyond `MAX_SESSIONS` is turned away without an error: its USE succeeds,
  and its later statements run in whatever database the worker that takes them has
  current (`TurnedAway`; `AsyncManager.cpp:150-160`).
- **Two first statements of a session** (`array`, up to `clashed`). Two workers
  that call `set_session_db` for the same new token both fail to find it and claim
  two slots; for different tokens they may claim the same one
  (`AsyncManager.cpp:150-153`), and one of them loses its database. Short of that, and of a worker killed between two
  writes, the array is a map. A slot is never given back.
- **A stale page count loses inserted rows** (`shared`). The page count is read
  when a file is opened, before the lock is taken (`Pager.cpp:46`), and
  `allocate_page` numbers the page it appends by it (`Pager.cpp:114`): an INSERT
  that extends a file which another process has extended in between writes over
  the pages the other has added: one heap page, the root of an index that has
  none yet, and in the code one more for each leaf or middle node of an index
  that splits and for a new root (`BPlusTree.h:433`, `476`, `544`), which the
  single leaf of `Table` does not show. An UPDATE that moves records to new pages
  does the same, and one whose index lies beyond its page count scans the pages
  it knows and may miss its row. What is certain is that the pages the process
  knew when it opened the file keep every row the statement is not about
  (`KnownPagesKeepRows`). A user's table is always dispatched to the same node
  (`ServerApp.cpp:289`); the tables of `_system`, which access checks read on
  every node, are the ones that several workers open.
- **An UPDATE of a key that fails** half way leaves the row without its entry
  (`TableManager_Mutations.cpp:327-329`): a point query does not find it any more,
  and a second row with its key is accepted. `KeyedRows` lets this happen to the rows
  the UPDATE was about, and to no other unless the process had an old page count
  (`UpdateBreaks`).
- **An UPDATE by a scan that has to move a row** may lose it and still report
  success: the row is appended to the page it came from, whose old copy is written
  back afterwards (441-444). `Table` calls this event `"lost"`; it is allowed by
  `UpdateBreaks` for the rows concerned and excepted from `IndexesAgree` and
  `SelectAgrees`. A row that moves to another page keeps its entries, which
  these properties cover.
- **`SET key = NULL`** leaves an entry with key 0 for a row that has none, and an
  UPDATE from NULL removes that of 0 (73-77, 327-344): the event `"nulled"`, excepted
  in the same way. No property here catches these three: they are what the code
  does, and the properties say what is true of it otherwise.
- An UPDATE whose condition is no equality reports success and does nothing (395);
  a DELETE by equality on a column without an index is refused (506-511);
  `WHERE key = NULL` on an indexed column treats NULL as 0. `KeyedRows` states these
  as they are.
- A right that moves from a user to his group while it is checked may be missed in
  both places (`DeniedHadGap` is about rights that stay).

## 4. What is proved

`ClusterProofs` proves, for any number of nodes, clients, slots, tokens, tasks and
environment events, under the assumptions on the constants stated in `TaskTable`
and `Cluster` (at least one node and one slot, a non-empty finite set of clients,
null values outside their sets):

| Theorem | States | Inductive invariant |
|---|---|---|
| `TypeCorrect` | `Spec => []TypeOK` | `TypeOK`, one lemma per group of variables |
| `HandshakeCorrect` | `Spec => []Handshake` | `HandshakeInv`: and the client being dispatched stays `"taken"`, so the target node does not change between `AwaitReady` and `PostTask` |
| `BusyCorrect` | `Spec => []BusyWhileWorking` | `BusyInv`: and `is_busy` is set before the turn is posted; the handshake excludes a worker that clears it meanwhile |
| `AtMostOnceCorrect` | `Spec => []AtMostOnce` | `OnceInv`: a task that has not been executed is in one place, with the master dispatching it or with one node (`CarriedOnce`), and whatever is about to be executed has not been (`ServingFresh`, `NotYetRun`); it rests on `IntactInv` |
| `TaskIntactCorrect` | `Spec => []TaskIntact` | `IntactInv`: and what is being copied is the last registration of that client, what is in the buffer before the post is that copy, and the bound on tasks leaves room for every waiting query |

The argument of all but the first is the handshake: with one turn per node, whoever
holds it is alone with the node's buffers and flag (`HolderIsAlone`,
`FillerIsAlone`), and every other step leaves them alone.

`ServiceProofs` builds on these:

| Theorem | States | Inductive invariant |
|---|---|---|
| `LateWriteCorrect` | `Spec => []LateWrite` | `TableInv` |
| `AnswerIsOwnCorrect` | `Spec => []AnswerIsOwn` | `AnswerInv` |
| `ServiceCorrect` | `Spec => ImplementsService` | `TableInv` |

`TableInv` says in which order the slots are given away (`TableInOrder`): the table
fills from its first slot, then is overwritten in turn, starting at the second, so
that a slot which is `Ahead(i)` registrations from being overwritten holds a task
that is old enough. A worker that found its slot writes into a slot that holds its
task or one registered so much later that its own has had to go (`InOwnSlot`).
`AnswerInv` adds that, while nothing has been overwritten, a slot holds a result only
of its own task and after its execution (`ResultsOwn`, `TextOwn`), and what a client
knows of its guid and its failed receives (`KnowsGuid`, `GaveUpEmpty`). The
refinement maps each step to one of `TaskService` or to none; what it needs beyond
`TableInv` is that the tasks the service retains are in a bijection with the slots
in use, which is what the capacity counts.

`OutcomeProofs` proves what faults and other sessions can do:

| Theorem | States | Inductive invariant |
|---|---|---|
| `OneLostPerWorkerCorrect` | `Spec => []OneLostPerWorker` | `OnceInv /\ LossBound` |
| `SessionFollowsUseCorrect` | `Spec => []SessionFollowsUse` | `UseInv` |
| `ResolvedCorrect` | `Spec => ResolvedAgainstOwnUse` | `UseInv` |

The bound on the lost tasks is not inductive as it stands: a dead worker pays for
a task only if it took its turn with it. `LossBound` counts the dead nodes that have
no turn left (`Charged`). A step loses a task only if its carrier is killed or
restarted in it (`NewlyLost`), a node carries one task at most (`CarriesOne`), a
node killed with its turn becomes charged and stays so until its restart
(`TurnlessStays`), and a charged node carries nothing (`CarrierHasTurn`), so that
its restart loses nothing more. `UseInv` says of a session whose last USE counts
(`Chosen`) that the array has the database it selected, and that each worker that
executes a statement of it has it as its current database, and afterwards has that
one or none, so that its write-back does no harm; and that a USE which nothing
disturbs is alone with its session while it writes (`UseAlone`). A session counts no
longer once two calls of `set_session_db` clashed, a USE overlapped another statement
of it, a worker died while it wrote its name, or the full array turned it away. All
four are real: the array has no lock, a killed worker may leave any part of a name,
and for more sessions than `MAX_SESSIONS` both properties are false without the last.
What the model calls a clash is wider than what `Sessions` does: there two calls for
new sessions clash only if both have come to look for a free slot.

`SessionProofs` proves of the array, for any number of workers, sessions, slots,
databases and deaths, `SessionsTypeCorrect`, `UniqueSlotsCorrect` and
`OwnDatabaseCorrect` (`Spec => []TypeOK`, `[]UniqueSlots`, `[]OwnDatabase`). The
inductive invariant is `TypeOK /\ (~clashed => ~Clash /\ Safe)`: that calls have not
clashed so far must include that they are not about to. `Safe` says that a
session has one slot, with a database of its own (`OneSlot`, `OwnDb`), that slots
without a token are empty (`Fresh`), that no two workers fill one slot (`Apart`), and
of each call what its loops have established (`Place`): its token is in no slot it
has passed, the slot it claims is free, the slot it fills has at most the first
half of its token.

The same module proves `GetsCorrect` (`Spec => GetsAreCurrent`) from `GetInv`, which
adds to that invariant what a search has seen (`Watching`: every value of its
session since it began, among them "none" unless the session's slot is still ahead
of it) and where two halves of a name differ (`Halves`: only while a writer is
between them, or where one died). Slots never lose their token, which is why a
search need not be restarted.

Last, it proves `MapCorrect` (`Spec => ImplementsMap`): each step of the array is
a step of `SessionMap` or leaves the map alone. An assignment takes effect with the
second half of the name. What needs an invariant is the refusal, which the map
allows only if there is no room: `Counted` says that the slots in use whose session
has no database are at most the deaths so far and the workers that are filling
them, and `AllInUse` that the search for a free slot has passed none; the remaining
slots are in a bijection with the sessions that have a database.

The assumptions are those of `SessionsAssumption`: finitely many workers, a number
of slots, empty values outside their sets.

`RightsProofs` proves of access checks, for any sets of workers, rights,
memberships and rows, `RightsTypeCorrect`, `DeniedCorrect`, `AllowedCorrect`,
`RevokeCorrect` and `GrantCorrect`. The inductive invariant is
`TypeOK /\ SteadyKnown /\ CheckProgress(w) /\ ChangeProgress(w)`: rows that were
there all the time are on pages the process knows, so no scan misses them
(`SteadyKnown`); a check that has come to a step has found none of the rows that
stayed in the steps before, and the groups it has still to look up are among the
memberships met (`CheckProgress`); a GRANT has entered, and a REVOKE has taken away,
what its loop has passed (`ChangeProgress`).

`TreeProofs` proves of the tree, for every order t of at least 2, any keys and
records, any number of pages and any length of the free list (`TreeAssumption`, and
nothing else):

| Theorem | States | From |
|---|---|---|
| `StructureCorrect` | `Spec => []Structure` | inductive |
| `OccupancyCorrect` | `Spec => []Occupancy` | `Structure` |
| `PagesOwnedCorrect` | `Spec => []PagesOwned` | `Structure` |
| `PathCorrect` | `Spec => []PathLeadsToNode` | `Structure` |
| `BalancedCorrect` | `Spec => []Balanced` | `Structure` |
| `AccountedCorrect` | `Spec => PagesAccounted` | `Structure`, and of each step what becomes of the pages that are `Claimed` by the tree, the free list or the rest of the file (`Settled`) |

None of the first four properties is inductive, nor are they together: what a split
does to the leaves' levels depends on the path being right, the path on pages
having one owner, the owners on the allocator having a page left. `Structure` holds
between operations and at every step of a repair, and says:

- `Sound`: the root and the pages an allocation may hand out are nobody's children,
  the latter are leaves, no page is a child twice (`Once`), and there is an assignment
  of levels in which leaves are on 1 and every child is one level below its parent
  (`Levels`);
- `Fits`: every node has t - 1 to 2 t - 1 keys, the root at least one if it is no
  leaf, but for the node under repair (`Less`, `More`), which is one key off;
- `OnLine`: `path` with `curr` at its end goes from the root down, from parent to
  child, one level at a time;
- room for the splits still to come: while `curr` is overfull, as many pages are left
  as nodes are on its path and two more (`Avail`). An insertion starts only if the file
  has this room (`MaxPages` bounds the model, not the code).

The operations are first proved to be what they do to the family of the nodes'
children: a split grafts a page beside another (`Grafted`), a merge prunes one
(`Pruned`), a borrow shares out the children of two neighbours (`SharedOut`), and each
keeps `Once` and `Levels` (`LevelGiven`); then, page by page, that the nodes'
contents follow. The lemmas on `InsertAt`, `RemoveAt`, `SubSeq` and the search of a
node (`Position`) are stated for all sequences. `Height` and `FindPath` are recursive
functions: what they return follows from the level function, by taking the least
level at which they could be wrong (`LeastIn`, that a set of numbers has a least
one, proved from the library's well-foundedness of finite sets).

`OrderProofs` proves, from the same assumption, that the tree is in order, that its
leaves are a chain in that order, that what is read is what is stored and that it is
an index:

| Theorem | States | From |
|---|---|---|
| `SortedCorrect` | `Spec => []Sorted` | inductive, with `Structure` |
| `SeparatedCorrect` | `Spec => []Separated` | `Sorted`: what is below a node lies in its range |
| `ChainCorrect` | `Spec => []LeafChain` | `Sorted`: the leaves below a node run through its range |
| `ScansCorrect` | `Spec => []ScansAgree` | `Sorted`, `Structure` (`Fits`): along the leaves the ranges rise |
| `IndexCorrect` | `Spec => ImplementsIndex` | `Sorted`: a lookup finds what is stored (`Looked`) |

`Separated` is not inductive: it compares a key with all that is below, and a borrow
moves a separator whose own entry may have been erased long ago. `Sorted` says
instead that there is an assignment of ranges to pages (`Ordered`): the root has all
numbers; the keys of a middle node rise and cut its range into those of its children,
child i having what is at least key i - 1 and less than key i (`Parted`, `Piece`); the
keys of a leaf rise within its range. Pages outside the tree are blank (`Clean`), so
that what the pages hold (`Stored`) is what the tree holds.

`LeafChain` is not inductive either: it compares the chain with the shape of the whole
tree. `Sorted` holds the chain by the same ranges (`Strung`): ranges have no gaps
(`Rounded`), no number is in the ranges of two leaves, the range of a leaf ends where that of its
`next` begins (`Abut`), and only a range without an end has no `next` (`Threaded`).
So a cut in a leaf's range is a splice in the chain (`SpliceThreads`), a middle
node changes nothing (`AlikeThreads`), and neighbours that are merged are linked
because their ranges meet (`SiblingsLinked`). From the leaves up, the leaves below each node
lead from one to the next from the start to the end of its range (`ChildrenRun`,
`PageRuns`); the root's range has no end, and so the last leaf has no `next`.

`ScansAgree` compares sequences with sets. `Listing(w, E)` says that the sequence w has
the entries E by rising keys; such a w is `InOrder(E)` (`ListingIs`), and two listings
in a row are one (`ListedOn`). In a sorted tree the leaves from left to right rise in
their ranges and leave no number out (`Lined`, `RunLined`), so that a walk from any leaf
lists all that is behind it (`ChainListed`), and the filters of `lower_bound_scan` and
`range_scan` list what they should (`ReportsListed`, `UntilListed`). The leaf a key is
looked for in splits the line at the key (`LookedAt`), and `for_each` reaches the leaf
whose range starts where the root's does (`Fore`). Here `Fits` is needed too, and that the tree is
idle: a leaf but the root has an entry then, so that the bounds need to look no
further than one leaf on (`NextHolds`), while in the middle of a deletion with t = 2 the
next leaf may be empty.

A split cuts one node in two at a key (`Sundered`) and a merge is the same read
backwards, a borrow is a merge and a split of one pair; so one lemma about cut
nodes serves `split_leaf`, `split_middle`, `merge_sibling` and `borrow_sibling`.
Every step of a repair is `Steady`: `Sorted` afterwards, and `Stored` as before. Only
the first step of an insertion adds an entry, and only the first step of a deletion
removes one. `FindPath` reaches the leaf in whose range the key lies, so that `Find`
returns what is stored and only that, which makes each step one of `OrderedIndex`
or a stutter.

`TableProofs` proves of the table file, for rows that fit into a page and any
columns with any indexes, any set of statements, any sizes of a page and of a slot,
any number of pages and any number of page writes after which a statement may be
cut short:

| Theorem | States | From |
|---|---|---|
| `SpaceCorrect` | `RowsFit => (Spec /\ []Fresh => []SpaceAccounted)` | `FileInv` |
| `LeadCorrect` | `RowsFit => (Spec /\ []Fresh => []EntriesLead)` | `FileInv` |
| `AgreeCorrect` | `RowsFit => (Spec /\ []Fresh => []IndexesAgree)` | `FileInv` |
| `SelectCorrect` | `RowsFit => (Spec /\ []Fresh => []SelectAgrees)` | `FileInv` |
| `AloneFresh` | `Alone => (Spec => []Fresh)` | `AloneInv` |
| `AloneCorrect` | all four properties, from `Alone /\ RowsFit => (Spec => ...)` | the theorems above |

`RowsFit` says that each row fits into an empty page. Nothing in the code checks it
(`TableManager_Mutations.cpp:617`, section 5), and without it `SpaceAccounted` is
false. `Fresh` says that a process that has the file open read its page count after
the last extension of the file. It is a condition because the code breaks it: what a process
with an old page count does to a table of `_system` is what the run `shared` is
about. A table of a user is used by one worker (`Alone`), which opens the file anew
for each statement, and then `Fresh` is proved.

The inductive invariant `FileInv` says of the file between statements that every
page is a heap page whose records and slots keep to their bytes or the leaf of an
index (`PagesOk`), that the roots in the header lead to leaves, and how the
indexes and the rows are tied (`Tied`): while nothing has gone wrong each
index has exactly the keys of the live rows (`Leading`, `Covering`), and after INSERT and
DELETE statements were cut short its entries still lead to rows with their keys
(`Leading`). An UPDATE that is cut short is claimed to keep neither, nor one that ends
well but has set a key to or from null or written the old copy of a page over a row
it moved there: `IndexesAgree`, and with it `SelectAgrees`, ends at these events.

A statement is one step of `Spec` and many writes, so most of the proof is about
executions. `Sounds(p)` is the set of those whose file and header are in order at any
write, with page p held in memory; one lemma per operation says that it stays in
`Sounds`, also when it fails or stops, and what the operation does to rows and
entries: `FindAvailableSlotIs`, `StoreIs`, `IndexInsertIs`, `IndexEraseIs`,
`UpdateIndicesIs`, `ClearIndicesIs`, `ApplyAssignmentsIs`, `HandleRecordUpdateIs`,
`RelocateIs`, `DeleteFoundIs`, `UpdateFoundIs`, `InsertRowIs`, `ExecuteDeleteIs`,
`ExecuteUpdateIs`. The loops over columns, assignments, slots and pages are folds. That a
fold is the last of a sequence of steps (`FoldExists`, `FoldSteps`) and that a set
closed under the steps holds its result (`FoldStays`) is proved from the fold's
definition, by the least step at which it could be wrong. What lies between two
writes is where the indexes and the rows differ: `Half` says that `UpdateIndices` has
entered the keys of the first k columns, and `Follows` that a statement cut short
there leaves no entry without its row.

A SELECT looks up the keys of an access path and evaluates its condition again on
each row found. So it returns nothing wrong, and `ByIndex` reduces the rest to this:
the keys of all rows that satisfy the condition are on the path. Only predicates use a
path, and those are false of null, so that rows without a key are not missed.

Of the constants the proof assumes `TableAssumption` (columns 1 to n, a slot of at
least one unit), `WidthAssumption` and `StatementsAssumption` (a value has a width, and
statements contain values); `RowsFit` is a hypothesis of each theorem.

Only model-checked:

- of the table, `ImplementsRows`: that a statement has its exact effect on the bag of
  rows needs the bags that folds over pages and slots arrive at, not only what each
  of their steps keeps; and `KnownPagesKeepRows`, which is about the runs that the
  condition `Fresh` excludes, where the invariant `FileInv` is lost;
- everything under fairness: liveness is out of the prover's reach.

## 5. Not modelled, and why

- Lexing and parsing, the check of types and of the schema, the defaults of INSERT,
  LIKE: pure functions of the text and the schema, which no interleaving or failure
  changes. `Refused` and the tables' `error` stand for what they turn down.
- INSERT ... SELECT, the aggregates of SELECT and its JSON: combinations and printing
  of what `Table` models.
- Passwords and the signature of tokens (conversions); users and groups as such (rows
  nobody reads during a check); the start of the system in `AuthManager.cpp:141`,
  one sequence of calls before any worker runs.
- Logging and telemetry (nobody reads them); the terminal side of the client; partial
  frames on a socket.
- The order of the page writes within one split, borrow or merge
  (`BPlusTree.h:461`): there is no log, so a crash between them leaves a broken tree,
  and no property of the code survives it. `Table` does model the page writes of a
  statement around the tree.
- A row longer than a page (`TableManager_Mutations.cpp:617`): the pointer of its
  record wraps, and what `memcpy` then overwrites is undefined. No code turns such a
  row away.
- The splits and merges of an index between the other page writes of a statement,
  and the pages they take from an old page count (section 3).
- Texts longer than their fields (section 2, abstractions): two names, tokens or keys
  that agree up to the cut are one to the code.
- The use of one free list by several indexes and the heap of a table: `BPlusTree`
  has one tree in its file.
- The removal of a database's directories one by one against statements that run in
  them, and errors of the file system outside a table's pages.
- The few instructions a worker may still execute after `kill(SIGKILL)`.
- The integration of the five models into one: the product of their states is out of
  TLC's reach, and their interfaces are narrow (section 2).
