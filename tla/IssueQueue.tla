------------------------------ MODULE IssueQueue ------------------------------
(***************************************************************************)
(* The FIFO issue queue: IssueQueueService                                 *)
(* (backend/app/services/issue_queue_service.py) over the table            *)
(* queue_entries, at the granularity of the event loop.                    *)
(*                                                                         *)
(* A task is a coroutine.  Between two awaits it runs alone, so one action *)
(* is the code from one await to the next: a SELECT whose result the       *)
(* coroutine keeps, or a COMMIT of one statement.  Every service method    *)
(* opens its own session, so a row read by one action and written by a     *)
(* later one may have been changed in between; an UPDATE is by primary     *)
(* key and raises StaleDataError if the row is gone.                       *)
(***************************************************************************)
EXTENDS Naturals, FiniteSets

CONSTANTS
  Issues,       \* issue ids
  Projects,     \* project ids
  ProjectOf,    \* the project each issue belongs to
  Rows,         \* primary keys of queue_entries, drawn once each
  Tasks,        \* slots for coroutines that run at the same time
  None,         \* "no value"
  Requests      \* bound: the requests and events an instance considers

ASSUME QueueAssumption ==
  /\ ProjectOf \in [Issues -> Projects]
  /\ None \notin Issues \cup Projects \cup Rows \cup Tasks
  /\ Requests \subseteq {"add", "remove", "force", "finished", "enable", "disable",
                       "terminal", "restart"}

VARIABLES
  \* the database
  status,    \* row -> its status; "FREE" before the INSERT, "DELETED" after the DELETE
  issueOf,   \* row -> issue_id
  order,     \* row -> order
  setting,   \* the persisted setting queue_auto_process
  \* the process: everything below is lost at a restart
  enabled,   \* IssueQueueService._enabled
  terms,     \* issues with an active terminal (TerminalService registry)
  regLock,   \* project -> the task that holds _register_locks[project]
  deqLock,   \* project -> the task that holds _dequeue_locks[project]
  \* the coroutine in each slot
  pc,        \* where it awaits
  op,        \* what it was created for
  proj,      \* project it works on
  iss,       \* issue it works on
  flag,      \* force, the value of a toggle, or "inside the except block"
  row,       \* row a mark_* or a removal has selected
  head,      \* next_entry of _dequeue_and_run
  max,       \* max_order of register
  todo,      \* rows startup_resume has still to look at
  stall,     \* rows startup_resume has set to STALLED, not yet flushed
  queue      \* projects startup_resume has still to look at

table   == <<status, issueOf, order>>
process == <<setting, enabled, terms>>
locks   == <<regLock, deqLock>>
job     == <<op, proj, iss>>
picks   == <<row, head, max>>
scan    == <<todo, stall, queue>>
locals  == <<job, flag, picks, scan>>
vars    == <<table, process, locks, pc, locals>>

Active   == {"PENDING", "RUNNING"}
Statuses == {"FREE", "PENDING", "RUNNING", "DONE", "FAILED", "STALLED", "DELETED"}
Live(e)  == status[e] \notin {"FREE", "DELETED"}

RowsOf(p)     == {e \in Rows : Live(e) /\ ProjectOf[issueOf[e]] = p}
PendingOf(p)  == {e \in RowsOf(p) : status[e] = "PENDING"}
RunningOf(p)  == {e \in RowsOf(p) : status[e] = "RUNNING"}
ActiveFor(i)  == {e \in Rows : status[e] \in Active /\ issueOf[e] = i}
PendingFor(i) == {e \in ActiveFor(i) : status[e] = "PENDING"}
RunningFor(i) == {e \in ActiveFor(i) : status[e] = "RUNNING"}

\* ORDER BY order ASC LIMIT 1
IsFirst(e, S) == e \in S /\ \A f \in S : order[e] <= order[f]

-----------------------------------------------------------------------------
(* Coroutines.                                                             *)

Ops == {"none", "add", "queued", "finished", "dispatch", "remove", "toggle", "resume"}

RegisterHeld == {"reg_check", "reg_max", "reg_commit"}
DequeueHeld  == {"deq_next", "deq_run", "mr_select", "mr_commit",
                 "mf_running", "mf_pending", "mf_commit"}
Pcs == {"idle", "reg_lock", "emit", "auto_check", "auto_pending", "auto_running",
        "deq_lock", "md_running", "md_pending", "md_commit", "rm_select", "rm_commit",
        "tg_setting", "tg_enable", "tg_commit",
        "rs_start", "rs_select", "rs_scan", "rs_projects", "rs_count"}
       \cup RegisterHeld \cup DequeueHeld

At(t, l)      == pc[t] = l
Goto(t, l)    == pc' = [pc EXCEPT ![t] = l]
Set(f, t, v)  == [f EXCEPT ![t] = v]

\* The coroutine ends: its slot is free and its locals are gone.
End(t) ==
  /\ Goto(t, "idle")
  /\ op' = Set(op, t, "none")
  /\ proj' = Set(proj, t, None)
  /\ iss' = Set(iss, t, None)
  /\ flag' = Set(flag, t, FALSE)
  /\ row' = Set(row, t, None)
  /\ head' = Set(head, t, None)
  /\ max' = Set(max, t, 0)
  /\ todo' = Set(todo, t, {})
  /\ stall' = Set(stall, t, {})
  /\ queue' = Set(queue, t, {})

\* create_task, or a request: coroutine o in the free slot t.
Spawn(t, o, l, p, i, b) ==
  /\ At(t, "idle")
  /\ Goto(t, l)
  /\ op' = Set(op, t, o)
  /\ proj' = Set(proj, t, p)
  /\ iss' = Set(iss, t, i)
  /\ flag' = Set(flag, t, b)
  /\ UNCHANGED <<picks, scan>>

Init ==
  /\ status = [e \in Rows |-> "FREE"]
  /\ issueOf = [e \in Rows |-> None]
  /\ order = [e \in Rows |-> 0]
  /\ enabled \in BOOLEAN
  /\ setting = enabled
  /\ terms = {}
  /\ regLock = [p \in Projects |-> None]
  /\ deqLock = [p \in Projects |-> None]
  /\ pc = [t \in Tasks |-> "idle"]
  /\ op = [t \in Tasks |-> "none"]
  /\ proj = [t \in Tasks |-> None]
  /\ iss = [t \in Tasks |-> None]
  /\ flag = [t \in Tasks |-> FALSE]
  /\ row = [t \in Tasks |-> None]
  /\ head = [t \in Tasks |-> None]
  /\ max = [t \in Tasks |-> 0]
  /\ todo = [t \in Tasks |-> {}]
  /\ stall = [t \in Tasks |-> {}]
  /\ queue = [t \in Tasks |-> {}]

-----------------------------------------------------------------------------
(* What the requests that read the queue answer, from one SELECT each.     *)

\* The place of a row among the rows S, listed by order and numbered from 1.  Rows of
\* different projects may have one order, and are listed in any: the last place it may have.
Place(e, S) == Cardinality({f \in S : order[f] <= order[e]})

\* Mutant: every row of the project is counted, finished ones as well.
queue_position_all(e) == Place(e, RowsOf(ProjectOf[issueOf[e]]))

\* The place of a pending row in its project's list, and how many there are.
queue_position(e) == Place(e, PendingOf(ProjectOf[issueOf[e]]))
queue_total(e)    == Cardinality(PendingOf(ProjectOf[issueOf[e]]))

\* Its place in the list over all projects, by the order each row has in its own project.
list_global_queue(e) == Place(e, {f \in Rows : status[f] = "PENDING"})

-----------------------------------------------------------------------------
(* register: serialised per project by _get_register_lock.                 *)

\* Where the caller of register goes on once it has returned.
AfterRegister(o) == CASE o = "add"    -> "emit"
                      [] o = "queued" -> "auto_check"
                      [] OTHER        -> "rs_scan"

RegisterRelease(t) == regLock' = Set(regLock, proj[t], None)

\* Mutant: register without its lock.
RegisterUnlocked(t) ==
  /\ At(t, "reg_lock")
  /\ Goto(t, "reg_check")
  /\ UNCHANGED <<table, process, locks, locals>>

RegisterLock(t) ==
  /\ At(t, "reg_lock")
  /\ regLock[proj[t]] = None
  /\ regLock' = Set(regLock, proj[t], t)
  /\ Goto(t, "reg_check")
  /\ UNCHANGED <<table, process, deqLock, locals>>

\* An active row exists: an add request fails with AppError, the callers with
\* skip_if_exists go on with the row they were given.
RegisterExists(t) ==
  /\ At(t, "reg_check")
  /\ ActiveFor(iss[t]) # {}
  /\ RegisterRelease(t)
  /\ \/ op[t] = "add" /\ End(t)
     \/ op[t] # "add" /\ Goto(t, AfterRegister(op[t])) /\ UNCHANGED locals
  /\ UNCHANGED <<table, process, deqLock>>

\* Mutant: register without its look for an active row.
RegisterUnchecked(t) ==
  /\ At(t, "reg_check")
  /\ Goto(t, "reg_max")
  /\ UNCHANGED <<table, process, locks, locals>>

RegisterAbsent(t) ==
  /\ At(t, "reg_check")
  /\ ActiveFor(iss[t]) = {}
  /\ Goto(t, "reg_max")
  /\ UNCHANGED <<table, process, locks, locals>>

\* SELECT coalesce(max(order), 0) over every row of the project, whatever its status.
RegisterMax(t) ==
  /\ At(t, "reg_max")
  /\ LET orders == {order[e] : e \in RowsOf(proj[t])} \cup {0}
     IN \E m \in orders :
          /\ \A n \in orders : n <= m
          /\ max' = Set(max, t, m)
  /\ Goto(t, "reg_commit")
  /\ UNCHANGED <<table, process, locks, job, flag, row, head, scan>>

RegisterCommit(t) ==
  /\ At(t, "reg_commit")
  /\ \E e \in Rows :
       /\ status[e] = "FREE"
       /\ status'  = Set(status, e, "PENDING")
       /\ issueOf' = Set(issueOf, e, iss[t])
       /\ order'   = Set(order, e, max[t] + 1)
  /\ RegisterRelease(t)
  /\ Goto(t, AfterRegister(op[t]))
  /\ max' = Set(max, t, 0)
  /\ UNCHANGED <<process, deqLock, job, flag, row, head, scan>>

\* The INSERT is refused (the database stays locked past its busy timeout): the
\* exception releases the lock and ends the request, the handler or the resume.
RegisterRefused(t) ==
  /\ At(t, "reg_commit")
  /\ RegisterRelease(t)
  /\ End(t)
  /\ UNCHANGED <<table, process, deqLock>>

\* add_to_queue emits queue_entry_created; notify answers it with a new task
\* for _on_issue_queued, whatever _enabled says.  Nothing the request still
\* does changes the state, so its slot becomes that task.
Emit(t) ==
  /\ At(t, "emit")
  /\ op' = Set(op, t, "queued")
  /\ Goto(t, "reg_lock")
  /\ UNCHANGED <<table, process, locks, proj, iss, flag, picks, scan>>

Register(t) ==
  \/ RegisterLock(t) \/ RegisterExists(t) \/ RegisterAbsent(t)
  \/ RegisterMax(t) \/ RegisterCommit(t) \/ RegisterRefused(t) \/ Emit(t)

-----------------------------------------------------------------------------
(* _on_issue_queued after register, and _maybe_auto_start_first.           *)

Continue(t, goesOn, l) ==
  /\ \/ goesOn /\ Goto(t, l) /\ UNCHANGED locals
     \/ ~goesOn /\ End(t)
  /\ UNCHANGED <<table, process, locks>>

AutoCheck(t)   == At(t, "auto_check")   /\ Continue(t, enabled, "auto_pending")
AutoPending(t) == At(t, "auto_pending") /\ Continue(t, PendingOf(proj[t]) # {}, "auto_running")
AutoRunning(t) == At(t, "auto_running") /\ Continue(t, RunningOf(proj[t]) = {}, "deq_lock")

-----------------------------------------------------------------------------
(* _dequeue_and_run: serialised per project by _dequeue_locks.             *)

\* The coroutine ends, leaving the dequeue lock.
Release(t) ==
  /\ deqLock' = Set(deqLock, proj[t], None)
  /\ End(t)

DequeueLock(t) ==
  /\ At(t, "deq_lock")
  /\ deqLock[proj[t]] = None
  /\ deqLock' = Set(deqLock, proj[t], t)
  /\ Goto(t, "deq_next")
  /\ UNCHANGED <<table, process, regLock, locals>>

\* Mutant: get_next_pending without its ORDER BY.
GetAnyPending(t) ==
  /\ At(t, "deq_next")
  /\ \E e \in PendingOf(proj[t]) :
       /\ head' = Set(head, t, e)
       /\ iss' = Set(iss, t, issueOf[e])
  /\ Goto(t, "deq_run")
  /\ UNCHANGED <<table, process, locks, op, proj, flag, row, max, scan>>

\* get_next_pending.  The coroutine goes on with the issue of the row it got.
GetNextPending(t) ==
  /\ At(t, "deq_next")
  /\ \E e \in PendingOf(proj[t]) :
       /\ IsFirst(e, PendingOf(proj[t]))
       /\ head' = Set(head, t, e)
       /\ iss' = Set(iss, t, issueOf[e])
  /\ Goto(t, "deq_run")
  /\ UNCHANGED <<table, process, locks, op, proj, flag, row, max, scan>>

\* Mutant: an early return that keeps the lock.
NothingPendingKeepsLock(t) ==
  /\ At(t, "deq_next")
  /\ PendingOf(proj[t]) = {}
  /\ End(t)
  /\ UNCHANGED <<table, process, locks>>

NothingPending(t) ==
  /\ At(t, "deq_next")
  /\ PendingOf(proj[t]) = {}
  /\ Release(t)
  /\ UNCHANGED <<table, process, regLock>>

\* run_issue: no await between its guard on active terminals and the creation
\* of the terminal.
RunIssueStarts(t) ==
  /\ At(t, "deq_run")
  /\ iss[t] \notin terms
  /\ terms' = terms \cup {iss[t]}
  /\ Goto(t, "mr_select")
  /\ UNCHANGED <<table, setting, enabled, locks, locals>>

\* Mutant: an error that is logged and no more.
RunIssueErrorLogged(t) ==
  /\ At(t, "deq_run")
  /\ Release(t)
  /\ UNCHANGED <<table, process, regLock>>

\* {"error": ...}: an active terminal, or an issue, project, provider or PTY that
\* cannot be had.
RunIssueError(t) ==
  /\ At(t, "deq_run")
  /\ Goto(t, "mf_running")
  /\ UNCHANGED <<table, process, locks, locals>>

\* An exception, before the terminal exists or while the commands are written.
RunIssueRaises(t) ==
  /\ At(t, "deq_run")
  /\ terms' \in {terms, terms \cup {iss[t]}}
  /\ flag' = Set(flag, t, TRUE)
  /\ Goto(t, "mf_running")
  /\ UNCHANGED <<table, setting, enabled, locks, job, picks, scan>>

\* SELECT one row of S; l is where the row is written.
Select(t, S, l) ==
  /\ \E e \in S : row' = Set(row, t, e)
  /\ Goto(t, l)
  /\ UNCHANGED <<job, flag, head, max, scan>>

First(S) == {e \in S : IsFirst(e, S)}

\* mark_running looks the row up by issue, not by the row that was dequeued.
MarkRunningSelect(t) ==
  /\ At(t, "mr_select")
  /\ Select(t, First(PendingFor(iss[t])), "mr_commit")
  /\ UNCHANGED <<table, process, locks>>

MarkRunningNone(t) ==
  /\ At(t, "mr_select")
  /\ PendingFor(iss[t]) = {}
  /\ Release(t)
  /\ UNCHANGED <<table, process, regLock>>

MarkRunningCommit(t) ==
  /\ At(t, "mr_commit")
  /\ status[row[t]] # "DELETED"
  /\ status' = Set(status, row[t], "RUNNING")
  /\ Release(t)
  /\ UNCHANGED <<issueOf, order, process, regLock>>

\* mark_failed is called again, from the except block.
Retry(t) ==
  /\ flag' = Set(flag, t, TRUE)
  /\ row' = Set(row, t, None)
  /\ Goto(t, "mf_running")
  /\ UNCHANGED <<job, head, max, scan>>

\* StaleDataError, caught by _dequeue_and_run.
MarkRunningStale(t) ==
  /\ At(t, "mr_commit")
  /\ status[row[t]] = "DELETED"
  /\ Retry(t)
  /\ UNCHANGED <<table, process, locks>>

\* mark_failed: the RUNNING row of the issue, else its first PENDING one.
MarkFailedRunning(t) ==
  /\ At(t, "mf_running")
  /\ \/ Select(t, RunningFor(iss[t]), "mf_commit")
     \/ RunningFor(iss[t]) = {} /\ Goto(t, "mf_pending") /\ UNCHANGED locals
  /\ UNCHANGED <<table, process, locks>>

MarkFailedPending(t) ==
  /\ At(t, "mf_pending")
  /\ Select(t, First(PendingFor(iss[t])), "mf_commit")
  /\ UNCHANGED <<table, process, locks>>

MarkFailedNone(t) ==
  /\ At(t, "mf_pending")
  /\ PendingFor(iss[t]) = {}
  /\ Release(t)
  /\ UNCHANGED <<table, process, regLock>>

MarkFailedCommit(t) ==
  /\ At(t, "mf_commit")
  /\ status[row[t]] # "DELETED"
  /\ status' = Set(status, row[t], "FAILED")
  /\ Release(t)
  /\ UNCHANGED <<issueOf, order, process, regLock>>

\* Raised in the try block, the except block calls mark_failed once more; raised
\* in the except block, it ends the coroutine.
MarkFailedStale(t) ==
  /\ At(t, "mf_commit")
  /\ status[row[t]] = "DELETED"
  /\ \/ flag[t] /\ Release(t)
     \/ ~flag[t] /\ Retry(t) /\ UNCHANGED deqLock
  /\ UNCHANGED <<table, process, regLock>>

Dequeue(t) ==
  \/ AutoCheck(t) \/ AutoPending(t) \/ AutoRunning(t)
  \/ DequeueLock(t) \/ GetNextPending(t) \/ NothingPending(t)
  \/ RunIssueStarts(t) \/ RunIssueError(t) \/ RunIssueRaises(t)
  \/ MarkRunningSelect(t) \/ MarkRunningNone(t) \/ MarkRunningCommit(t) \/ MarkRunningStale(t)
  \/ MarkFailedRunning(t) \/ MarkFailedPending(t) \/ MarkFailedNone(t)
  \/ MarkFailedCommit(t) \/ MarkFailedStale(t)

-----------------------------------------------------------------------------
(* _on_issue_finished: mark_done, then _dequeue_and_run whatever it found. *)

MarkDoneRunning(t) ==
  /\ At(t, "md_running")
  /\ \/ Select(t, RunningFor(iss[t]), "md_commit")
     \/ RunningFor(iss[t]) = {} /\ Goto(t, "md_pending") /\ UNCHANGED locals
  /\ UNCHANGED <<table, process, locks>>

MarkDonePending(t) ==
  /\ At(t, "md_pending")
  /\ \/ Select(t, First(PendingFor(iss[t])), "md_commit")
     \/ PendingFor(iss[t]) = {} /\ Goto(t, "deq_lock") /\ UNCHANGED locals
  /\ UNCHANGED <<table, process, locks>>

MarkDoneCommit(t) ==
  /\ At(t, "md_commit")
  /\ status[row[t]] # "DELETED"
  /\ status' = Set(status, row[t], "DONE")
  /\ row' = Set(row, t, None)
  /\ Goto(t, "deq_lock")
  /\ UNCHANGED <<issueOf, order, process, locks, job, flag, head, max, scan>>

\* StaleDataError ends _on_issue_finished before it dequeues.
MarkDoneStale(t) ==
  /\ At(t, "md_commit")
  /\ status[row[t]] = "DELETED"
  /\ End(t)
  /\ UNCHANGED <<table, process, locks>>

Finished(t) ==
  \/ MarkDoneRunning(t) \/ MarkDonePending(t) \/ MarkDoneCommit(t) \/ MarkDoneStale(t)

-----------------------------------------------------------------------------
(* remove_from_queue.  flag is force.                                      *)

\* Not in the queue, or RUNNING and not forced: AppError.
RemoveRefused(t) ==
  /\ At(t, "rm_select")
  /\ \/ ActiveFor(iss[t]) = {}
     \/ ~flag[t] /\ RunningFor(iss[t]) # {}
  /\ End(t)
  /\ UNCHANGED <<table, process, locks>>

RemovePending(t) ==
  /\ At(t, "rm_select")
  /\ Select(t, PendingFor(iss[t]), "rm_commit")
  /\ UNCHANGED <<table, process, locks>>

\* Every terminal of the issue is killed before the row is deleted.
RemoveRunning(t) ==
  /\ At(t, "rm_select")
  /\ flag[t]
  /\ Select(t, RunningFor(iss[t]), "rm_commit")
  /\ terms' = terms \ {iss[t]}
  /\ UNCHANGED <<table, setting, enabled, locks>>

\* DELETE by primary key; a row that is already gone is only a warning.  The
\* queue_entry_removed event changes nothing: notify ignores it.
RemoveCommit(t) ==
  /\ At(t, "rm_commit")
  /\ status' = Set(status, row[t], "DELETED")
  /\ End(t)
  /\ UNCHANGED <<issueOf, order, process, locks>>

Remove(t) == RemoveRefused(t) \/ RemovePending(t) \/ RemoveRunning(t) \/ RemoveCommit(t)

-----------------------------------------------------------------------------
(* set_enabled and startup_resume.                                         *)

\* The request writes the setting itself, before it calls set_enabled.
ToggleSetting(t) ==
  /\ At(t, "tg_setting")
  /\ setting' = flag[t]
  /\ Goto(t, "tg_enable")
  /\ UNCHANGED <<table, enabled, terms, locks, locals>>

\* set_enabled assigns the flag at once and persists it, a second time, after an await.
ToggleEnable(t) ==
  /\ At(t, "tg_enable")
  /\ enabled' = flag[t]
  /\ Goto(t, "tg_commit")
  /\ UNCHANGED <<table, setting, terms, locks, locals>>

\* set_enabled(True) creates a task for startup_resume as its last act.
ToggleCommit(t) ==
  /\ At(t, "tg_commit")
  /\ setting' = flag[t]
  /\ \/ /\ flag[t]
        /\ op' = Set(op, t, "resume")
        /\ flag' = Set(flag, t, FALSE)
        /\ Goto(t, "rs_start")
        /\ UNCHANGED <<proj, iss, picks, scan>>
     \/ ~flag[t] /\ End(t)
  /\ UNCHANGED <<table, enabled, terms, locks>>

ResumeStart(t) == At(t, "rs_start") /\ Continue(t, enabled, "rs_select")

ResumeSelect(t) ==
  /\ At(t, "rs_select")
  /\ todo' = Set(todo, t, {e \in Rows : status[e] = "RUNNING"})
  /\ Goto(t, "rs_scan")
  /\ UNCHANGED <<table, process, locks, job, flag, picks, stall, queue>>

\* One round of the loop over the RUNNING rows.  The new status stays in the
\* session, unflushed, while register looks at the table in a session of its own.
ResumeScan(t) ==
  /\ At(t, "rs_scan")
  /\ \E e \in todo[t] :
       /\ todo' = Set(todo, t, todo[t] \ {e})
       /\ \/ issueOf[e] \in terms /\ UNCHANGED <<pc, proj, iss, stall>>
          \/ /\ issueOf[e] \notin terms
             /\ stall' = Set(stall, t, stall[t] \cup {e})
             /\ iss' = Set(iss, t, issueOf[e])
             /\ proj' = Set(proj, t, ProjectOf[issueOf[e]])
             /\ Goto(t, "reg_lock")
  /\ UNCHANGED <<table, process, locks, op, flag, picks, queue>>

ResumeCommit(t) ==
  /\ At(t, "rs_scan")
  /\ todo[t] = {}
  /\ \A e \in stall[t] : status[e] # "DELETED"
  /\ status' = [e \in Rows |-> IF e \in stall[t] THEN "STALLED" ELSE status[e]]
  /\ Goto(t, "rs_projects")
  /\ UNCHANGED <<issueOf, order, process, locks, locals>>

\* StaleDataError: one deleted row undoes the whole statement and ends the resume.
ResumeStale(t) ==
  /\ At(t, "rs_scan")
  /\ todo[t] = {}
  /\ \E e \in stall[t] : status[e] = "DELETED"
  /\ End(t)
  /\ UNCHANGED <<table, process, locks>>

ResumeProjects(t) ==
  /\ At(t, "rs_projects")
  /\ queue' = Set(queue, t, {p \in Projects : PendingOf(p) # {}})
  /\ stall' = Set(stall, t, {})
  /\ proj' = Set(proj, t, None)
  /\ iss' = Set(iss, t, None)
  /\ Goto(t, "rs_count")
  /\ UNCHANGED <<table, process, locks, op, flag, picks, todo>>

\* A project with a RUNNING row is passed over.
ResumeSkip(t) ==
  /\ At(t, "rs_count")
  /\ \E p \in queue[t] :
       /\ RunningOf(p) # {}
       /\ queue' = Set(queue, t, queue[t] \ {p})
  /\ UNCHANGED <<table, process, locks, pc, job, flag, picks, todo, stall>>

\* create_task(_dequeue_and_run(p)) for a project with nothing RUNNING.
ResumeDispatch(t) ==
  /\ At(t, "rs_count")
  /\ \E p \in queue[t] :
       /\ RunningOf(p) = {}
       /\ queue[t] # {p}
       /\ \E u \in Tasks : /\ At(u, "idle")
                           /\ Goto(u, "deq_lock")
                           /\ op' = Set(op, u, "dispatch")
                           /\ proj' = Set(proj, u, p)
       /\ queue' = Set(queue, t, queue[t] \ {p})
  /\ UNCHANGED <<table, process, locks, iss, flag, picks, todo, stall>>

\* The same for the last project: startup_resume ends, its slot serves the task.
ResumeDispatchLast(t) ==
  /\ At(t, "rs_count")
  /\ \E p \in queue[t] :
       /\ RunningOf(p) = {}
       /\ queue[t] = {p}
       /\ op' = Set(op, t, "dispatch")
       /\ proj' = Set(proj, t, p)
       /\ queue' = Set(queue, t, {})
  /\ Goto(t, "deq_lock")
  /\ UNCHANGED <<table, process, locks, iss, flag, picks, todo, stall>>

ResumeEnd(t) ==
  /\ At(t, "rs_count")
  /\ queue[t] = {}
  /\ End(t)
  /\ UNCHANGED <<table, process, locks>>

Resume(t) ==
  \/ ToggleSetting(t) \/ ToggleEnable(t) \/ ToggleCommit(t)
  \/ ResumeStart(t) \/ ResumeSelect(t) \/ ResumeScan(t) \/ ResumeCommit(t) \/ ResumeStale(t) \/ ResumeProjects(t) \/ ResumeSkip(t)
  \/ ResumeDispatch(t) \/ ResumeDispatchLast(t) \/ ResumeEnd(t)

-----------------------------------------------------------------------------
(* The environment: requests, status events, terminals, restarts.          *)

AddRequest(t, i) ==
  /\ "add" \in Requests
  /\ Spawn(t, "add", "reg_lock", ProjectOf[i], i, FALSE)
  /\ UNCHANGED <<table, process, locks>>

RemoveRequest(t, i, force) ==
  /\ (IF force THEN "force" ELSE "remove") \in Requests
  /\ Spawn(t, "remove", "rm_select", ProjectOf[i], i, force)
  /\ UNCHANGED <<table, process, locks>>

\* Bound: one startup_resume at a time, so that the tasks it creates find a slot.
NoResume == \A u \in Tasks : op[u] # "resume" /\ ~(op[u] = "toggle" /\ flag[u])

ToggleRequest(t, on) ==
  /\ (IF on THEN "enable" ELSE "disable") \in Requests
  /\ on => NoResume
  /\ Spawn(t, "toggle", "tg_setting", None, None, on)
  /\ UNCHANGED <<table, process, locks>>

\* notify: issue_status_changed with new_status Finished, queued or not.
IssueFinished(t, i) ==
  /\ "finished" \in Requests
  /\ enabled
  /\ Spawn(t, "finished", "md_running", ProjectOf[i], i, FALSE)
  /\ UNCHANGED <<table, process, locks>>

\* A user opens a terminal for the issue, outside the queue.  Bound: while a row of the issue is
\* PENDING or RUNNING, nothing else of the queue looks for terminals.
TerminalOpens(i) ==
  /\ "terminal" \in Requests
  /\ i \notin terms
  /\ ActiveFor(i) # {}
  /\ terms' = terms \cup {i}
  /\ UNCHANGED <<table, setting, enabled, locks, pc, locals>>

\* The shell exits or a user closes the terminal.
TerminalEnds(i) ==
  /\ "terminal" \in Requests
  /\ i \in terms
  /\ terms' = terms \ {i}
  /\ UNCHANGED <<table, setting, enabled, locks, pc, locals>>

\* The server stops at any point and starts again: coroutines, locks and
\* terminals are gone, load_state reads the setting, startup_resume is a task.
Restart(t) ==
  /\ "restart" \in Requests
  /\ enabled' = setting
  /\ terms' = {}
  /\ regLock' = [p \in Projects |-> None]
  /\ deqLock' = [p \in Projects |-> None]
  /\ pc' = [u \in Tasks |-> IF u = t THEN "rs_start" ELSE "idle"]
  /\ op' = [u \in Tasks |-> IF u = t THEN "resume" ELSE "none"]
  /\ proj' = [u \in Tasks |-> None]
  /\ iss' = [u \in Tasks |-> None]
  /\ flag' = [u \in Tasks |-> FALSE]
  /\ row' = [u \in Tasks |-> None]
  /\ head' = [u \in Tasks |-> None]
  /\ max' = [u \in Tasks |-> 0]
  /\ todo' = [u \in Tasks |-> {}]
  /\ stall' = [u \in Tasks |-> {}]
  /\ queue' = [u \in Tasks |-> {}]
  /\ UNCHANGED <<table, setting>>

Step(t) == Register(t) \/ Dequeue(t) \/ Finished(t) \/ Remove(t) \/ Resume(t)

Request(t) ==
  \/ \E i \in Issues : AddRequest(t, i) \/ IssueFinished(t, i)
  \/ \E i \in Issues, force \in BOOLEAN : RemoveRequest(t, i, force)
  \/ \E on \in BOOLEAN : ToggleRequest(t, on)
  \/ Restart(t)

Terminals == \E i \in Issues : TerminalOpens(i) \/ TerminalEnds(i)

Next == Terminals \/ \E t \in Tasks : Step(t) \/ Request(t)

Spec == Init /\ [][Next]_vars

\* The event loop runs every ready coroutine, and asyncio.Lock wakes its waiters in
\* order: a coroutine that can go on again and again is not passed over for ever.
Fairness == \A t \in Tasks : SF_vars(Step(t))

FairSpec == Spec /\ Fairness

-----------------------------------------------------------------------------
(* Properties.                                                             *)

\* Every variable, every local of a coroutine included, has its type.
TypeOK ==
  /\ status \in [Rows -> Statuses]
  /\ issueOf \in [Rows -> Issues \cup {None}]
  /\ order \in [Rows -> Nat]
  /\ setting \in BOOLEAN
  /\ enabled \in BOOLEAN
  /\ terms \in SUBSET Issues
  /\ regLock \in [Projects -> Tasks \cup {None}]
  /\ deqLock \in [Projects -> Tasks \cup {None}]
  /\ pc \in [Tasks -> Pcs]
  /\ op \in [Tasks -> Ops]
  /\ proj \in [Tasks -> Projects \cup {None}]
  /\ iss \in [Tasks -> Issues \cup {None}]
  /\ flag \in [Tasks -> BOOLEAN]
  /\ row \in [Tasks -> Rows \cup {None}]
  /\ head \in [Tasks -> Rows \cup {None}]
  /\ max \in [Tasks -> Nat]
  /\ todo \in [Tasks -> SUBSET Rows]
  /\ stall \in [Tasks -> SUBSET Rows]
  /\ queue \in [Tasks -> SUBSET Projects]

\* However registrations, removals and status changes interleave, no two rows of
\* a project ever get the same order: the INSERT of register never meets the
\* table's unique constraint, so no request fails for it.
UniqueOrder ==
  \A e, f \in Rows :
    Live(e) /\ Live(f) /\ e # f /\ ProjectOf[issueOf[e]] = ProjectOf[issueOf[f]]
      => order[e] # order[f]

\* An issue waits at most once, although register's check and its INSERT are
\* separated by two awaits and an event handler registers the issue again.
OnePendingPerIssue ==
  \A e, f \in Rows :
    status[e] = "PENDING" /\ status[f] = "PENDING" /\ issueOf[e] = issueOf[f] => e = f

\* The row _dequeue_and_run has taken is still the first of its project for as
\* long as it is pending: nothing overtakes it while run_issue awaits.
TakenIsFirst ==
  \A t \in Tasks :
    LET e == head[t]
    IN e # None /\ status[e] = "PENDING" => IsFirst(e, PendingOf(proj[t]))

\* First in, first out: a new row comes after every row of its project, finished
\* ones included, and a row that has left PENDING never comes back to the queue.
AppendsAtTail ==
  [][\A e \in Rows :
       status'[e] = "PENDING" /\ status[e] # "PENDING"
         => /\ status[e] = "FREE"
            /\ \A f \in Rows :
                 Live(f) /\ ProjectOf[issueOf[f]] = ProjectOf[issueOf'[e]] => order[f] < order'[e]
    ]_vars

\* What a user is shown of the queue is what it does: a new row is the last of its project, a
\* waiting one never moves back, and the one a dispatcher takes is shown first.  In the list over
\* all projects a row moves back only when an issue of another project is queued in front of it.
KeepsPlaces ==
  /\ \A e \in Rows : status'[e] = "PENDING" =>
       /\ status[e] = "PENDING" => queue_position(e)' <= queue_position(e)
       /\ status[e] # "PENDING" => queue_position(e)' = queue_total(e)'
       /\ status[e] = "PENDING" /\ list_global_queue(e)' > list_global_queue(e) =>
            \E f \in Rows : /\ status'[f] = "PENDING" /\ status[f] # "PENDING"
                           /\ ProjectOf[issueOf'[f]] # ProjectOf[issueOf[e]]
  /\ \A t \in Tasks : head[t] = None /\ head'[t] # None => queue_position(head'[t]) = 1

ShownInOrder == [][KeepsPlaces]_vars

\* A dispatch that runs to its end takes its row out of the queue, whatever
\* run_issue does and whatever happens to the row meanwhile, so the next dispatch
\* does not meet the same row again.  The exception is mark_failed writing to
\* another active row of the issue: a late mark_running can leave one behind.
TakenIsConsumed ==
  [][\A t \in Tasks :
       /\ head[t] # None
       /\ pc'[t] = "idle"
       /\ ~\E u \in Tasks : Restart(u)
       /\ row[t] \in {None, head[t]}
       => status'[head[t]] # "PENDING"
    ]_vars

\* Every coroutine of the queue ends, also where a row is deleted under it while it has
\* the lock: no lock is kept, no two wait for each other.
HandlersEnd == \A t \in Tasks : []<>(pc[t] = "idle")

\* A Finished event gives the first pending row its turn: while a dispatcher
\* waits for the project, that row leaves the queue, unless a restart or a toggle
\* starts a resume meanwhile, which has its own turn.
DispatcherServes ==
  \A p \in Projects, e \in Rows :
    /\ \E t \in Tasks : At(t, "deq_lock") /\ proj[t] = p
    /\ e \in PendingOf(p) /\ IsFirst(e, PendingOf(p))
    ~> status[e] # "PENDING" \/ \E t \in Tasks : op[t] = "resume"

-----------------------------------------------------------------------------
(* The inductive invariant behind the safety properties.                   *)

NoProject == {"idle", "tg_setting", "tg_enable", "tg_commit", "rs_start", "rs_select", "rs_scan",
              "rs_projects", "rs_count"}
NoIssue   == NoProject \cup {"deq_lock", "deq_next"}
Writing   == {"mr_commit", "mf_commit", "md_commit", "rm_commit"}

\* A row that was inserted has an issue.
RowsHaveIssues == \A e \in Rows : status[e] # "FREE" => issueOf[e] \in Issues

\* What the locals of a coroutine say where it awaits: it works on an issue of its
\* project, the rows it holds are rows of that issue, and they were inserted.
Fit(t) ==
  /\ pc[t] \notin NoProject => proj[t] \in Projects
  /\ pc[t] \notin NoIssue => iss[t] \in Issues /\ proj[t] = ProjectOf[iss[t]]
  /\ head[t] # None <=> pc[t] \in DequeueHeld \ {"deq_next"}
  /\ head[t] # None => status[head[t]] # "FREE" /\ issueOf[head[t]] = iss[t]
  /\ row[t] # None <=> pc[t] \in Writing
  /\ row[t] # None => status[row[t]] # "FREE" /\ issueOf[row[t]] = iss[t]
  /\ \A e \in todo[t] \cup stall[t] : status[e] # "FREE"

LocalsFit == \A t \in Tasks : Fit(t)

\* Who is inside register or _dequeue_and_run holds the lock of its project.
LocksHeld ==
  \A t \in Tasks :
    /\ pc[t] \in RegisterHeld => regLock[proj[t]] = t
    /\ pc[t] \in DequeueHeld => deqLock[proj[t]] = t

\* What register has read stays true until it inserts: the issue has no pending
\* row, and no row of the project has an order above max_order.
RegisterReads ==
  \A t \in Tasks :
    /\ pc[t] \in {"reg_max", "reg_commit"} => PendingFor(iss[t]) = {}
    /\ pc[t] = "reg_commit" => \A e \in RowsOf(proj[t]) : order[e] <= max[t]

IInv ==
  /\ TypeOK
  /\ RowsHaveIssues
  /\ LocalsFit
  /\ LocksHeld
  /\ RegisterReads
  /\ UniqueOrder
  /\ OnePendingPerIssue
  /\ TakenIsFirst
=============================================================================
