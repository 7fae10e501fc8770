------------------------------ MODULE MCCluster ------------------------------
(* Small instances of Cluster for TLC.                                      *)
EXTENDS ClusterProperties, TLC

CONSTANTS c1, c2, t1, t2, d1, d2

Stmt(t, op, d, n) == [token |-> t, op |-> op, db |-> d, node |-> n]

(* Statements that touch neither sessions nor databases, on both nodes.     *)
CoreWorkload ==
  (c1 :> { Stmt(NoToken, "table", NoDb, 0) }) @@
  (c2 :> { Stmt(NoToken, "table", NoDb, 0), Stmt(NoToken, "table", NoDb, 1) })

(* Two sessions: one selects and drops databases on node 0 and reads tables *)
(* on both nodes, the other shares the worker of node 0.                    *)
SessionWorkload ==
  (c1 :> { Stmt(t1, "use", d1, 0), Stmt(t1, "use", d2, 0),
           Stmt(t1, "table", NoDb, 0), Stmt(t1, "table", NoDb, 1),
           Stmt(t1, "drop", d2, 0) }) @@
  (c2 :> { Stmt(t2, "use", d1, 0) })

(* Bounds of that instance: nothing is known of the array once two calls    *)
(* clashed; the second client has one query; the event is the death of a    *)
(* worker in the middle of a call; and a client asks for its result only    *)
(* when there is one.                                                       *)
SessionStates ==
  ~clashed /\ Cardinality({ g \in 1 .. taskCount : log[g].token = t2 }) <= 1
SessionSteps ==
  /\ events' > events => \E n \in Nodes : InCall(n) /\ wpc'[n] = "dead"
  /\ \A c \in Clients : Check(c) => ~IsPending(tasks, cguid[c])

(* As CoreWorkload, with a statement that creates a database.               *)
CreatingWorkload ==
  (c1 :> { Stmt(t1, "create", d1, 0) }) @@
  (c2 :> { Stmt(NoToken, "table", NoDb, 0), Stmt(NoToken, "table", NoDb, 1) })
=============================================================================
