------------------------------ MODULE TaskTable ------------------------------
(***************************************************************************)
(* The shared-memory table of asynchronous tasks kept by AsyncManager      *)
(* (modules/api/src/AsyncManager.cpp): a fixed array of slots, each        *)
(* holding one task's guid, its status and the text of its result.  The    *)
(* operators take the array as a parameter; Cluster.tla keeps it in its    *)
(* state, because the master registers tasks in it while the workers write *)
(* their results, with no lock between them.                               *)
(*                                                                         *)
(* A guid (a random version 4 identifier) is abstracted to the ordinal of  *)
(* the registration it was drawn for, 1, 2, ...; 0 is the guid of a slot   *)
(* whose is_used flag is false.                                            *)
(***************************************************************************)
EXTENDS Integers

CONSTANTS
  NSlots,      (* MAX_SHARED_TASKS, the length of the array                *)
  Databases,   (* database names                                           *)
  NoDb         (* the empty database name                                  *)

ASSUME NSlotsAssumption == NSlots \in Nat \ {0}
ASSUME NoDbAssumption   == NoDb \notin Databases

Slots  == 0 .. NSlots - 1
DbName == Databases \cup {NoDb}

(***************************************************************************)
(* The text a client can read back.  "none" is the zero-filled result      *)
(* buffer, "torn" the buffer while strncpy is filling it; a "whole" text   *)
(* is the result of one task, with the database its statement was resolved *)
(* against (NoDb when it failed).  "missing" is the GUID_NOT_FOUND answer  *)
(* and "empty" the empty string receiveString returns on a timeout.        *)
(***************************************************************************)
Text == [kind: {"none", "torn", "whole", "missing", "empty"},
         task: Nat, db: DbName]

Plain(kind)    == [kind |-> kind, task |-> 0, db |-> NoDb]
Whole(g, d)    == [kind |-> "whole", task |-> g, db |-> d]

Status == {"PENDING", "COMPLETED"}

Slot == [guid: Nat, status: Status, data: Text]

FreeSlot     == [guid |-> 0, status |-> "PENDING", data |-> Plain("none")]
FreshSlot(g) == [guid |-> g, status |-> "PENDING", data |-> Plain("none")]

(***************************************************************************)
(* find_free_slot: the first slot not in use; when there is none, the one  *)
(* after the slot overwritten last, whatever the status of the task in it. *)
(***************************************************************************)
(* Bug variant: the search stops one slot short.                            *)
BugUnused(tasks) == { i \in 0 .. NSlots - 2 : tasks[i].guid = 0 }

Unused(tasks) == { i \in Slots : tasks[i].guid = 0 }

NextOverwritten(last) == IF last + 1 = NSlots THEN 0 ELSE last + 1

IsFreeSlot(tasks, last, i) ==
  \/ i \in Unused(tasks) /\ \A j \in Unused(tasks) : i <= j
  \/ Unused(tasks) = {} /\ i = NextOverwritten(last)

(***************************************************************************)
(* The loop of update_task and fetch_result: the slots in use that hold a  *)
(* guid.                                                                   *)
(***************************************************************************)
Holding(tasks, g) == { i \in Slots : tasks[i].guid = g }

(***************************************************************************)
(* fetch_result, with the master's reading of it in ServerApp.cpp:268-272. *)
(***************************************************************************)
(* Bug variant: an unknown guid counts as pending.                          *)
BugIsPending(tasks, g) ==
  \A i \in Holding(tasks, g) : tasks[i].status = "PENDING"

IsPending(tasks, g) ==
  \E i \in Holding(tasks, g) : tasks[i].status = "PENDING"

FetchedText(tasks, g) ==
  IF Holding(tasks, g) = {}
    THEN Plain("missing")
    ELSE tasks[CHOOSE i \in Holding(tasks, g) : TRUE].data
=============================================================================
