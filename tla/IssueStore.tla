------------------------------- MODULE IssueStore -------------------------------
(***************************************************************************)
(* The issue records in RAM (backend/app/storage/issue_store.py over       *)
(* memory_store_core.py) and the operations on one record.                 *)
(*                                                                         *)
(* load_issue returns the record itself, not a copy: what a handler        *)
(* assigns is seen by all at once, and update_issue only files the record  *)
(* for the writer (WriteBehind).  Every operation here is synchronous, so  *)
(* a handler's load, check, assignment and update_issue are one action.    *)
(* Here the files agree with RAM, which is what WriteBehind is about.      *)
(***************************************************************************)
EXTENDS Naturals, FiniteSets, Sequences

CONSTANTS
  Issues,      \* ids, numbers because the RELATED relation compares them
  Projects,
  ProjectOf,   \* issue -> its project
  TaskIds,     \* ids of tasks
  MaxTasks,    \* bound: tasks of an issue
  MaxOrder,    \* bound: the order of a task
  Scenarios    \* bound: sets of kinds of request, of which a behaviour has one

ASSUME StoreAssumption ==
  /\ Issues \subseteq Nat /\ MaxTasks \in Nat /\ MaxOrder \in Nat
  /\ ProjectOf \in [Issues -> Projects]
  /\ \A s \in Scenarios : s \subseteq {"status", "force", "override", "tasks", "edits", "delete", "fail",
                                       "blocks", "related", "archive"}

VARIABLES
  rec,         \* issue -> its record
  archived,    \* archived projects
  requests     \* the scenario of this behaviour

store == <<rec, archived>>

Statuses     == {"New", "Reasoning", "Planned", "Accepted", "Finished", "Canceled"}
TaskStatuses == {"Pending", "In Progress", "Completed"}
RelationTypes == {"blocks", "related"}

\* `ram` is "never" before the issue is created and "erased" after permanently_delete;
\* `has` are the fields that are set.
NewRecord == [ram |-> "here", status |-> "New", has |-> {}, deleted |-> FALSE,
              tasks |-> <<>>, relations |-> {}]
NoRecord  == [NewRecord EXCEPT !.ram = "never"]

Task(t, n, st) == [id |-> t, order |-> n, st |-> st]

\* load_issue, issue_exists: soft-deleted records included.
Exists(i) == rec[i].ram = "here"
\* list_issues_full: the ones not deleted.
Listed(i) == Exists(i) /\ ~rec[i].deleted
\* What the services find that scan list_all(archived=False).
Active(i) == Exists(i) /\ ProjectOf[i] \notin archived

update_issue(i, r) == rec' = [rec EXCEPT ![i] = r]

\* find_task: the issue and the position of a task.
Places     == {p \in Issues \X (1..MaxTasks) :
                 Active(p[1]) /\ p[2] \in DOMAIN rec[p[1]].tasks}
find_task(t) == {p \in Places : rec[p[1]].tasks[p[2]].id = t}
Orders(i)  == {rec[i].tasks[k].order : k \in DOMAIN rec[i].tasks}
NextOrder(i) == IF Orders(i) = {} THEN 0 ELSE 1 + CHOOSE n \in Orders(i) : \A m \in Orders(i) : m <= n

upsert_task(p, st) == update_issue(p[1], [rec[p[1]] EXCEPT !.tasks[p[2]] = Task(@.id, @.order, st)])

remove_task(i, t) ==
  update_issue(i, [rec[i] EXCEPT !.tasks = SelectSeq(@, LAMBDA x : x.id # t)])

replace_tasks(i, ts) == update_issue(i, [rec[i] EXCEPT !.tasks = ts])

upsert_relation(i, type, target) ==
  update_issue(i, [rec[i] EXCEPT !.relations = @ \cup {<<type, target>>}])

remove_relation(i, type, target) ==
  update_issue(i, [rec[i] EXCEPT !.relations = @ \ {<<type, target>>}])

\* RAM, the row of the queue and the files, in one go.
delete_issue(i) == update_issue(i, [NoRecord EXCEPT !.ram = "erased"])

AllCompleted(i) ==
  /\ rec[i].tasks # <<>>
  /\ \A k \in DOMAIN rec[i].tasks : rec[i].tasks[k].st = "Completed"

StoreInit ==
  /\ rec = [i \in Issues |-> NoRecord]
  /\ archived = {}
  /\ requests \in Scenarios
=================================================================================
