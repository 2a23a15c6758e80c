---------------------------- MODULE IssueLifecycle ----------------------------
(***************************************************************************)
(* The life of an issue: IssueService and TaskService                      *)
(* (backend/app/services/), the MCP tools of shared_tools.py and the REST  *)
(* routes that call them, and the hooks they fire.                         *)
(*                                                                         *)
(* A handler awaits the database once before it looks at the record, then  *)
(* loads, checks, assigns and files it without an await (one action), and  *)
(* awaits again to log, to commit and to announce.  From there on it is a  *)
(* call in progress, `call[c]`, and others may change the record: the      *)
(* record it holds is the same object.                                     *)
(***************************************************************************)
EXTENDS IssueStore

CONSTANTS
  Callers,    \* slots for calls in progress
  Worked,     \* bound: the issues whose status and tasks are worked on
  MaxHooks    \* bound: hooks of an issue that are counted, more count as many

ASSUME LifecycleAssumption ==
  Worked \subseteq Issues /\ TaskIds \subseteq Nat \ {0} /\ MaxHooks \in Nat

VARIABLES
  call,       \* slot -> the call in it
  entry,      \* issue -> its lock in _issue_completion_locks, 0 for none
  hooks,      \* issue -> ISSUE_COMPLETED hooks that have been fired, and that run
  \* history
  overridden, \* issues whose status or texts were set past the checks
  completions,\* issue -> completions by complete_issue, 2 for more
  finish,     \* issue -> Finished by a request that announces it: "due", then "told"
  allDone     \* issue -> the last task was completed: "due", then "told"

lifeVars == <<call, entry, hooks, overridden, completions, finish, allDone>>

\* `at`: where it awaits.  "lock", "load": complete_issue, before and under its lock;
\* "log": the record is filed; "reply": the service has returned; "find", "ask", "fire":
\* update_task_status.  `say`: the status its event will name: the one the service
\* returned with ("then", kept in `st`), the one at the event ("now"), or a constant.
Idle == [at |-> "idle", i |-> 0, say |-> "none", st |-> "New", lock |-> 0, t |-> 0, hook |-> FALSE]
Locks == 1..Cardinality(Callers)

LifeInit ==
  /\ call = [c \in Callers |-> Idle]
  /\ entry = [i \in Issues |-> 0]
  /\ hooks = [i \in Issues |-> [fired |-> 0, run |-> 0]]
  /\ overridden = {}
  /\ completions = [i \in Issues |-> 0]
  /\ finish = [i \in Issues |-> "no"]
  /\ allDone = [i \in Issues |-> "no"]

(***************************************************************************)
(* IssueService: what a method does to the record                          *)
(***************************************************************************)
get_for_project(i) == i \in Worked /\ Exists(i)
Assign(i, st, fields) ==
  update_issue(i, [rec[i] EXCEPT !.status = st, !.has = @ \cup fields])

create(i) == rec[i].ram = "never" /\ update_issue(i, NewRecord)

create_spec(i) ==
  get_for_project(i) /\ rec[i].status = "New" /\ Assign(i, "Reasoning", {"specification"})

edit_spec(i) ==
  get_for_project(i) /\ rec[i].status = "Reasoning" /\ Assign(i, "Reasoning", {"specification"})

create_plan(i) ==
  get_for_project(i) /\ rec[i].status = "Reasoning" /\ Assign(i, "Planned", {"plan"})

edit_plan(i) ==
  get_for_project(i) /\ rec[i].status = "Planned" /\ Assign(i, "Planned", {"plan"})

accept_issue(i) ==
  get_for_project(i) /\ rec[i].status = "Planned" /\ Assign(i, "Accepted", {})

cancel_issue(i) == get_for_project(i) /\ Assign(i, "Canceled", {})

force_finish_issue(i) ==
  get_for_project(i) /\ Assign(i, "Finished", {"recap", "finished_at"})

\* Without tasks nothing is pending.
Completable(i) ==
  /\ get_for_project(i) /\ rec[i].status = "Accepted"
  /\ rec[i].tasks = <<>> \/ AllCompleted(i)

update_status(S, st) ==
  rec' = [i \in Issues |-> IF i \in S /\ get_for_project(i)
                           THEN [rec[i] EXCEPT !.status = st] ELSE rec[i]]

\* The PUT route: a text is replaced, by an empty one too.
update_fields(i, f, blank) ==
  /\ get_for_project(i)
  /\ update_issue(i, [rec[i] EXCEPT !.has = IF blank THEN @ \ {f} ELSE @ \cup {f}])

delete(S) ==
  rec' = [i \in Issues |-> IF i \in S /\ get_for_project(i)
                           THEN [rec[i] EXCEPT !.deleted = TRUE] ELSE rec[i]]

restore(i) ==
  get_for_project(i) /\ rec[i].deleted /\ update_issue(i, [rec[i] EXCEPT !.deleted = FALSE])

permanently_delete(i) == get_for_project(i) /\ delete_issue(i)

(***************************************************************************)
(* Tools and routes that change the status                                 *)
(***************************************************************************)
\* The call goes on to its log entry with what it will announce.
Begin(c, i, say, hook) ==
  /\ call[c].at = "idle"
  /\ call' = [call EXCEPT ![c] = [Idle EXCEPT !.at = "log", !.i = i, !.say = say, !.hook = hook]]
Leave(c) == call' = [call EXCEPT ![c] = Idle]
Finish(i, st) == finish' = [finish EXCEPT ![i] = st]

create_issue_tool(i) ==
  /\ create(i)
  /\ UNCHANGED <<archived, lifeVars>>

create_issue_spec(c, i) ==
  /\ create_spec(i) /\ Begin(c, i, "now", FALSE) /\ Finish(i, "no")
  /\ UNCHANGED <<archived, entry, hooks, overridden, completions, allDone>>

edit_issue_spec(i) ==
  /\ edit_spec(i)
  /\ UNCHANGED <<archived, lifeVars>>

create_issue_plan(c, i) ==
  /\ create_plan(i) /\ Begin(c, i, "now", FALSE) /\ Finish(i, "no")
  /\ UNCHANGED <<archived, entry, hooks, overridden, completions, allDone>>

edit_issue_plan(i) ==
  /\ edit_plan(i)
  /\ UNCHANGED <<archived, lifeVars>>

accept_issue_tool(c, i) ==
  /\ accept_issue(i) /\ Begin(c, i, "then", FALSE) /\ Finish(i, "no")
  /\ UNCHANGED <<archived, entry, hooks, overridden, completions, allDone>>

\* The routes for accept and cancel announce nothing.
accept_issue_route(c, i) ==
  /\ accept_issue(i) /\ Begin(c, i, "none", FALSE) /\ Finish(i, "no")
  /\ UNCHANGED <<archived, entry, hooks, overridden, completions, allDone>>

cancel_issue_tool(c, i) ==
  /\ cancel_issue(i) /\ Begin(c, i, "then", FALSE) /\ Finish(i, "no")
  /\ UNCHANGED <<archived, entry, hooks, overridden, completions, allDone>>

cancel_issue_endpoint(c, i) ==
  /\ cancel_issue(i) /\ Begin(c, i, "none", FALSE) /\ Finish(i, "no")
  /\ UNCHANGED <<archived, entry, hooks, overridden, completions, allDone>>

force_finish_issue_tool(c, i) ==
  /\ force_finish_issue(i) /\ Begin(c, i, "now", TRUE) /\ Finish(i, "due")
  /\ UNCHANGED <<archived, entry, hooks, overridden, completions, allDone>>

\* Mutant: the route announces nothing, as the ones for accept and cancel.
force_finish_silent(c, i) ==
  /\ force_finish_issue(i) /\ Begin(c, i, "none", TRUE) /\ Finish(i, "due")
  /\ UNCHANGED <<archived, entry, hooks, overridden, completions, allDone>>

\* The routes announce "Finished", whatever the status is by then.
force_finish_issue_endpoint(c, i) ==
  /\ force_finish_issue(i) /\ Begin(c, i, "Finished", TRUE) /\ Finish(i, "due")
  /\ UNCHANGED <<archived, entry, hooks, overridden, completions, allDone>>

(***************************************************************************)
(* complete_issue: a lock per issue, made on demand and dropped at the end *)
(***************************************************************************)
LocksOf(i) == {entry[i]} \cup {call[c].lock : c \in {d \in Callers : call[d].i = i}}
FreshLock(i) == CHOOSE k \in Locks : k \notin LocksOf(i) /\ \A j \in Locks \ LocksOf(i) : k <= j

complete_issue(c, i, say) ==
  /\ call[c].at = "idle" /\ i \in Worked /\ Exists(i)
  /\ LET k == IF entry[i] = 0 THEN FreshLock(i) ELSE entry[i]
     IN  /\ entry' = [entry EXCEPT ![i] = k]
         /\ call' = [call EXCEPT ![c] = [Idle EXCEPT !.at = "lock", !.i = i, !.say = say,
                                                     !.lock = k, !.hook = TRUE]]
  /\ UNCHANGED <<store, hooks, overridden, completions, finish, allDone>>

complete_issue_tool(c, i)  == complete_issue(c, i, "then")
complete_issue_route(c, i) == complete_issue(c, i, "Finished")

\* Mutant: the lock is taken twice (it is not reentrant).
HoldsFromWait(c) == call[c].lock # 0 /\ call[c].at \in {"lock", "load", "log"}

Holds(c) == call[c].lock # 0 /\ call[c].at \in {"load", "log"}

Locked(c) ==
  /\ call[c].at = "lock"
  /\ \A d \in Callers : ~(Holds(d) /\ call[d].i = call[c].i /\ call[d].lock = call[c].lock)
  /\ call' = [call EXCEPT ![c].at = "load"]
  /\ UNCHANGED <<store, entry, hooks, overridden, completions, finish, allDone>>

Pop(i) == entry' = [entry EXCEPT ![i] = 0]

\* Mutant: the tasks are not looked at.
CompletedUnchecked(c) ==
  LET i == call[c].i IN
  /\ call[c].at = "load" /\ get_for_project(i)
  /\ Assign(i, "Finished", {"recap", "finished_at"})
  /\ completions' = [completions EXCEPT ![i] = IF @ = 2 THEN 2 ELSE @ + 1]
  /\ call' = [call EXCEPT ![c].at = "log"] /\ Finish(i, "due")
  /\ UNCHANGED <<archived, entry, hooks, overridden, allDone>>

\* Under the lock: load, check, assign.
Completed(c) ==
  LET i == call[c].i IN
  /\ call[c].at = "load" /\ Completable(i)
  /\ Assign(i, "Finished", {"recap", "finished_at"})
  /\ completions' = [completions EXCEPT ![i] = IF @ = 2 THEN 2 ELSE @ + 1]
  /\ call' = [call EXCEPT ![c].at = "log"] /\ Finish(i, "due")
  /\ UNCHANGED <<archived, entry, hooks, overridden, allDone>>

NotCompletable(c) ==
  /\ call[c].at = "load" /\ ~Completable(call[c].i)
  /\ Leave(c) /\ Pop(call[c].i)
  /\ UNCHANGED <<store, hooks, overridden, completions, finish, allDone>>

(***************************************************************************)
(* The rest of a call                                                      *)
(***************************************************************************)
\* HookRegistry.fire: a task in the background for the one handler, EnrichProjectContext.
Count(n) == IF n > MaxHooks THEN MaxHooks ELSE n
fire(i)  == hooks' = [hooks EXCEPT ![i].fired = Count(@ + 1)]

\* The log entry is flushed, the hook fired; complete_issue drops its lock.
Returns(c) ==
  LET i == call[c].i IN
  /\ call[c].at = "log"
  /\ call' = [call EXCEPT ![c].at = "reply", ![c].st = rec[i].status, ![c].lock = 0]
  /\ IF call[c].lock # 0 THEN Pop(i) ELSE UNCHANGED entry
  /\ IF call[c].hook THEN fire(i) ELSE UNCHANGED hooks
  /\ UNCHANGED <<store, overridden, completions, finish, allDone>>

Says(c) == CASE call[c].say = "then" -> call[c].st
             [] call[c].say = "now"  -> rec[call[c].i].status
             [] OTHER                -> call[c].say

\* commit, then issue_status_changed to every listener.
Replies(c) ==
  LET i == call[c].i IN
  /\ call[c].at = "reply"
  /\ Finish(i, IF finish[i] = "due" /\ Says(c) = "Finished" THEN "told" ELSE finish[i])
  /\ Leave(c)
  /\ UNCHANGED <<store, entry, hooks, overridden, completions, allDone>>

\* Any of these awaits may raise: the session is rolled back, the record stays as it is.
Raises(c) ==
  LET i == call[c].i IN
  /\ "fail" \in requests
  /\ call[c].at \notin {"idle", "lock"}
  /\ IF Holds(c) THEN Pop(i) ELSE UNCHANGED entry
  /\ finish' = [finish EXCEPT ![i] = IF call[c].say = "none" \/ call[c].at = "load" THEN @ ELSE "no"]
  /\ allDone' = [allDone EXCEPT ![i] = IF call[c].t = 0 THEN @ ELSE "no"]
  /\ Leave(c)
  /\ UNCHANGED <<store, hooks, overridden, completions>>

run_hook_starts(i) ==
  /\ hooks[i].fired > 0
  /\ hooks' = [hooks EXCEPT ![i].fired = @ - 1, ![i].run = Count(@ + 1)]
  /\ UNCHANGED <<store, call, entry, overridden, completions, finish, allDone>>

\* hook_completed or hook_failed: success, error, exception and time-out alike.
run_hook_ends(i) ==
  /\ hooks[i].run > 0
  /\ hooks' = [hooks EXCEPT ![i].run = @ - 1]
  /\ UNCHANGED <<store, call, entry, overridden, completions, finish, allDone>>

(***************************************************************************)
(* Requests that set a status or a text without a check and announce none  *)
(***************************************************************************)
bulk_update_status(S, st) ==
  /\ update_status(S, st)
  /\ overridden' = overridden \cup S
  /\ finish' = [i \in Issues |-> IF i \in S THEN "no" ELSE finish[i]]
  /\ UNCHANGED <<archived, call, entry, hooks, completions, allDone>>

update_issue_status_route(i, st) == get_for_project(i) /\ bulk_update_status({i}, st)

update_issue_route(i, f, blank) ==
  /\ update_fields(i, f, blank)
  /\ overridden' = IF blank THEN overridden \cup {i} ELSE overridden
  /\ UNCHANGED <<archived, call, entry, hooks, completions, finish, allDone>>

bulk_delete(S) ==
  /\ delete(S)
  /\ UNCHANGED <<archived, lifeVars>>

delete_issue_tool(i) == get_for_project(i) /\ bulk_delete({i})

restore_issue(i) ==
  /\ restore(i)
  /\ UNCHANGED <<archived, lifeVars>>

permanently_delete_issue(i) ==
  /\ permanently_delete(i)
  /\ finish' = [finish EXCEPT ![i] = "no"] /\ allDone' = [allDone EXCEPT ![i] = "no"]
  /\ UNCHANGED <<archived, call, entry, hooks, overridden, completions>>

(***************************************************************************)
(* Tasks                                                                   *)
(***************************************************************************)
\* n new tasks, numbered from `first`, with ids that neither a call nor a task kept in S has.
UnusedIds(S) ==
  {t \in TaskIds : /\ \A i \in S : \A k \in DOMAIN rec[i].tasks : rec[i].tasks[k].id # t
                   /\ \A c \in Callers : call[c].t # t}
Nth(S, k) == CHOOSE t \in S : Cardinality({u \in S : u < t}) = k - 1
NewTasks(n, first, S) ==
  [k \in 1..n |-> Task(Nth(UnusedIds(S), k), first + k - 1, "Pending")]

_project_path_for_issue(i) == i \in Worked /\ Active(i)
AllDone(i, st) == allDone' = [allDone EXCEPT ![i] = st]

create_bulk(i, n) ==
  /\ _project_path_for_issue(i)
  /\ Len(rec[i].tasks) + n <= MaxTasks /\ NextOrder(i) + n <= MaxOrder + 1
  /\ replace_tasks(i, rec[i].tasks \o NewTasks(n, NextOrder(i), Issues))
  /\ AllDone(i, "no")
  /\ UNCHANGED <<archived, call, entry, hooks, overridden, completions, finish>>

replace_all(i, n) ==
  /\ _project_path_for_issue(i)
  /\ n <= MaxTasks
  /\ replace_tasks(i, NewTasks(n, 0, Issues \ {i}))
  /\ AllDone(i, "no")
  /\ UNCHANGED <<archived, call, entry, hooks, overridden, completions, finish>>

delete_task(i, t) ==
  /\ \E p \in find_task(t) : p[1] = i
  /\ remove_task(i, t)
  /\ AllDone(i, "no")
  /\ UNCHANGED <<archived, call, entry, hooks, overridden, completions, finish>>

VALID_TASK_TRANSITIONS == {<<"Pending", "In Progress">>, <<"In Progress", "Completed">>}

\* TaskService.update: true of the record after the last task is completed.
update(p, st) ==
  /\ p[1] \in Worked
  /\ <<rec[p[1]].tasks[p[2]].st, st>> \in VALID_TASK_TRANSITIONS
  /\ upsert_task(p, st)
  /\ AllDone(p[1], IF st = "Completed" /\ \A k \in DOMAIN rec[p[1]].tasks :
                      k = p[2] \/ rec[p[1]].tasks[k].st = "Completed"
                    THEN "due" ELSE "no")

\* The tool looks the task up again after the update, and asks only about a completed one.
update_task_status(c, t, st) ==
  /\ call[c].at = "idle"
  /\ \E p \in find_task(t) :
       /\ update(p, st)
       /\ call' = IF st = "Completed"
                  THEN [call EXCEPT ![c] = [Idle EXCEPT !.at = "find", !.i = p[1], !.t = t]]
                  ELSE call
  /\ UNCHANGED <<archived, entry, hooks, overridden, completions, finish>>

\* The route has the issue from its path.
update_task_route(c, t, st) ==
  /\ call[c].at = "idle"
  /\ \E p \in find_task(t) :
       /\ update(p, st)
       /\ call' = IF st = "Completed"
                  THEN [call EXCEPT ![c] = [Idle EXCEPT !.at = "ask", !.i = p[1], !.t = t]]
                  ELSE call
  /\ UNCHANGED <<archived, entry, hooks, overridden, completions, finish>>

\* Gone meanwhile: the tool asks about the issue "" and answers with an error.
found_again(c) ==
  /\ call[c].at = "find"
  /\ call' = [call EXCEPT ![c] = IF find_task(call[c].t) = {} THEN Idle ELSE [@ EXCEPT !.at = "ask"]]
  /\ AllDone(call[c].i, IF find_task(call[c].t) = {} THEN "no" ELSE allDone[call[c].i])
  /\ UNCHANGED <<store, entry, hooks, overridden, completions, finish>>

\* Mutant: another task that is completed is taken for this one.
all_completed_any(c) ==
  LET i == call[c].i IN
  /\ call[c].at = "ask"
  /\ call' = [call EXCEPT ![c] = IF _project_path_for_issue(i) /\ AllCompleted(i) /\ Len(rec[i].tasks) = 1
                                THEN [@ EXCEPT !.at = "fire"] ELSE Idle]
  /\ AllDone(i, IF _project_path_for_issue(i) THEN allDone[i] ELSE "no")
  /\ UNCHANGED <<store, entry, hooks, overridden, completions, finish>>

all_completed(c) ==
  LET i == call[c].i IN
  /\ call[c].at = "ask"
  /\ call' = [call EXCEPT ![c] = IF _project_path_for_issue(i) /\ AllCompleted(i)
                                THEN [@ EXCEPT !.at = "fire"] ELSE Idle]
  /\ AllDone(i, IF _project_path_for_issue(i) THEN allDone[i] ELSE "no")
  /\ UNCHANGED <<store, entry, hooks, overridden, completions, finish>>

\* ALL_TASKS_COMPLETED, for which no handler is registered.
fires_all_tasks_completed(c) ==
  LET i == call[c].i IN
  /\ call[c].at = "fire"
  /\ AllDone(i, IF allDone[i] = "due" THEN "told" ELSE allDone[i])
  /\ Leave(c)
  /\ UNCHANGED <<store, entry, hooks, overridden, completions, finish>>

(***************************************************************************)
(* The specification                                                       *)
(***************************************************************************)
StatusRequests(c, i) ==
  \/ create_issue_spec(c, i) \/ edit_issue_spec(i)
  \/ create_issue_plan(c, i) \/ edit_issue_plan(i)
  \/ accept_issue_tool(c, i) \/ accept_issue_route(c, i)
  \/ cancel_issue_tool(c, i) \/ cancel_issue_endpoint(c, i)
  \/ complete_issue_tool(c, i) \/ complete_issue_route(c, i)

Forced(c, i) == force_finish_issue_tool(c, i) \/ force_finish_issue_endpoint(c, i)

Override ==
  \/ \E S \in SUBSET Worked \ {{}}, st \in Statuses : bulk_update_status(S, st)
  \/ \E i \in Worked, st \in Statuses : update_issue_status_route(i, st)
  \/ \E i \in Worked, f \in {"specification", "plan"}, blank \in BOOLEAN : update_issue_route(i, f, blank)

Delete ==
  \/ \E S \in SUBSET Worked \ {{}} : bulk_delete(S)
  \/ \E i \in Worked : delete_issue_tool(i) \/ restore_issue(i) \/ permanently_delete_issue(i)

Edits ==
  \/ \E i \in Worked, n \in 0..MaxTasks : replace_all(i, n)
  \/ \E i \in Worked, t \in TaskIds : delete_task(i, t)

Tasks ==
  \/ \E i \in Worked, n \in 1..MaxTasks : create_bulk(i, n)
  \/ \E c \in Callers, t \in TaskIds, st \in TaskStatuses :
       update_task_status(c, t, st) \/ update_task_route(c, t, st)

Request ==
  \/ \E i \in IF requests \cap {"blocks", "related"} = {} THEN Worked ELSE Issues : create_issue_tool(i)
  \/ "status" \in requests /\ \E c \in Callers, i \in Worked : StatusRequests(c, i)
  \/ "force" \in requests /\ \E c \in Callers, i \in Worked : Forced(c, i)
  \/ "override" \in requests /\ Override
  \/ "delete" \in requests /\ Delete
  \/ "tasks" \in requests /\ Tasks
  \/ "edits" \in requests /\ Edits

Step(c) ==
  \/ Locked(c) \/ Completed(c) \/ NotCompletable(c) \/ Returns(c) \/ Replies(c)
  \/ found_again(c) \/ all_completed(c) \/ fires_all_tasks_completed(c)

HookStep(i) == run_hook_starts(i) \/ run_hook_ends(i)

LifeNext ==
  \/ Request
  \/ \E c \in Callers : Step(c) \/ Raises(c)
  \/ \E i \in Issues : HookStep(i)
=================================================================================
