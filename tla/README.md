# Manager AI: formal models

TLA+ models of Manager AI (the server, `src/backend/app`, and the page's event feed in
`src/frontend`), the instances TLC checks, and the theorems TLAPS proves about them.
`PROJECT.json` maps every definition to the lines it models.

The server is one Python process: FastAPI on one asyncio event loop, an SQLite database, and
per-project files (YAML and markdown) under `.manager_ai/`.  Agents run in PTY terminals and
call back through MCP tools.  Nothing runs in parallel except PTY reader threads and worker
threads for blocking calls: every race is between coroutines that meet at an `await`, between
database sessions, or between the process and its own restart.  An action of a model is
therefore the code from one await to the next, and a coroutine in progress is a record of where
it awaits and what it knew when it got there.

## 1. What the system consists of

| Component | State | Operations | What is hard | Section |
|---|---|---|---|---|
| **Issue queue** `services/issue_queue_service.py`, `run_issue_service.py` | table `queue_entries`, flag `_enabled`, two locks per project | register, dequeue-and-run, mark running/done/failed, remove, toggle, resume at startup | many sessions per handler, rows that change between SELECT and UPDATE, restart while RUNNING | 3 |
| **Write-behind storage** `storage/` | RAM store, table `pending_writes`, files | create, update, delete, load on demand, writer loop, flush, load at start | crash between two files, retries, RAM older than the queue after a start | 4 |
| **Pipeline runs** `services/pipeline_run/` | tables `pipeline_runs`, `step_runs`; one asyncio task and one event per run | start, execute loop, complete step, reject, pause, resume, cancel, startup clean-up | a completion that arrives before it is awaited, rejection to an earlier step, PAUSED outside the start guard | 5 |
| **Issue lifecycle, hooks** `services/issue_service.py`, `task_service.py`, `hooks/` | status, texts, tasks of a record that all callers share by reference | create spec/plan, accept, cancel, complete, force-finish, tasks, soft delete, restore | completion under a lock that is made and dropped on the fly; announcements after the commit | 6 |
| **Issue relations** `services/issue_relation_service.py` | relations inside the records | add, remove | a cycle check that awaits at every issue it visits | 6 |
| **Memories** `memory_service.py` | parents and links | create, move, link, delete | a delete that rewrites several records; look-ups in files behind the queue | 7 |
| **Project files** `file_service.py` | entries, extracted text | upload, transcribe, extract, delete | a transcription that ends after the delete | 7 |
| **Terminals** `terminal_service.py`, `terminal_session.py`, `terminal_operations.py`, `terminal_handler.py` | PTYs, buffers, recordings, readers, web sockets | create, reap, delete, connect, replay | clients and deletions that meet in the middle of an output | 8 |
| **Questions** `question_service.py` | row, entry in RAM, a waiting tool | ask, answer, time out | an answer that races the time-out | 8 |
| **Events, notifications, settings** `event_service.py`, `telegram_*.py`, `settings_service.py` | sockets, log, Telegram's configuration | emit, retry, configure | one dead or stalled receiver among many; settings read one by one | 8 |
| **Event feed of the page** `frontend/.../event-context.tsx` | socket, timers, query cache | connect again, invalidate, show | a change that arrives while its data are being read | 8 |
| **MCP plugins, projects** `mcp/plugin_*.py`, `routers/projects.py` | child processes, clients, `plugins.yaml`, table `projects` | enable, disable, call; archive, delete, rebuild | connects, calls and disconnects of one client | 9 |
| **Pipeline definitions, event rules** `pipeline_service.py`, `pipeline_import.py`, `_events_engine.py` | tables | CRUD, reorder, export, import; actions of a rule | constraints that fire in the middle of a flush; indexes with gaps | 10 |
| **Migration, skills, folders** `migration/db_to_files.py`, `skill_library_service.py`, `routers/projects.py` | files, sentinel, `CLAUDE.md`, ids | dump, seal, assign, health check | interruption, users who edit the same files | 11 |
| **Providers, catalog, MCP servers, views** | none | text, wrappers | no interaction of their own | 12 |

How they interact: issues, memories and files go through the storage; a `Finished` event of an
issue makes the queue dispatch; the queue and the pipeline runs open terminals; an agent in a
terminal moves issues, asks questions and ends steps through MCP; everything announces through
`event_service`, which also reaches the page.  Archiving and deleting a project touches plugins,
records, queue and terminals.

What makes each correct, in one line:

* *Queue*: first in first out per project; an issue waits once; a dispatched row is consumed; no
  handler keeps a lock; a `Finished` event serves the next row; a restart loses no issue.
* *Storage*: an accepted request survives every crash and failure until its write is given up,
  which is then due to be announced; rows drain.
* *Pipeline runs*: steps complete in order, and none of a run that was stopped; the third rejection
  is the last; every started run reaches a final status; a restart leaves none behind as running.
* *Issues*: one completion per issue; who finishes one says so; blockers are acyclic; no caller
  is locked out.
* *Records*: parents are acyclic, nothing refers to what is gone, RAM and files agree in the end.
* *Terminals, questions, events*: what was output can be read again; a waiting agent is shown and
  answered or told; an event is heard once by everybody, and what a page shows is current.
* *Plugins*: one connection per client, no process without an owner, every call returns.
* *Definitions*: a rule stays with the steps of its pipeline; an import restores an export.
* *Workspace*: two undisturbed starts migrate; a skill's file, row and mention agree.

## 2. Modules

| Modules | What they are | Proofs | TLC |
|---|---|---|---|
| `IssueQueue` | the queue, one action per stretch of code between two awaits | `IssueQueueProofs` | `MCIssueQueue` |
| `DurableStore`, `WriteBehind` | what the storage promises; RAM, queue of writes, writer, loader, restart | `WriteBehindProofs` | `WriteBehind` |
| `PipelineRun` | runs of one issue: executor, agents' calls, requests, clean-up | `PipelineRunProofs` | `MCPipelineRun` |
| `IssueStore` < `IssueLifecycle`, `IssueRelations` < `Issues` | records; statuses, tasks, hooks; relations; all together | `RecordProofs` | `MCIssues` |
| `PendingWrites` < `MemoryGraph`, `ProjectFiles` < `ProjectRecords` | the queue of writes as seen by memories and files | `RecordProofs` | `MCProjectRecords` |
| `TerminalRegistry` < `TerminalSessions` < `Terminals`; `Questions`; `Notifications`, `QueryKeys` < `EventFeed`; all < `AgentDesk` | what users and agents see of each other | `DeskProofs` | `MCAgentDesk` |
| `PluginClients` < `Plugins` < `ProjectLifecycle` | a client and its process; the manager; the projects | `PluginProofs` | `MCProjectLifecycle` |
| `PipelineDefinitions` < `PipelineExchange` < `PipelineCatalog` | tables with their constraints and requests; export and import; the engine | `CatalogProofs` | `MCPipelineCatalog` |
| `Migration`, `SkillLibrary`, `ProjectFolder` < `Workspace` | what else is in the projects' folders | `WorkspaceProofs` | `MCWorkspace` |

`A < B` reads "B extends A".  Components that share state are composed over that state
(`Issues`, `ProjectRecords`, `PipelineCatalog`, `ProjectLifecycle`); `AgentDesk` and `Workspace`
put components side by side, and a behaviour of theirs is about one *scenario*, which says whose
requests are made.  Where one component sees another through a few facts only, the facts are in
the module that needs them: the queue has the active terminals as a set, a pipeline run has its
step's terminal as one of four states, the issue store takes the files to agree with RAM, which
is what the storage is about.

The plan of the next extensions, in this order: the abstract queue as a refinement of
`IssueQueue`; `PipelineRun` over the definitions of `PipelineCatalog`, so that a rejection goes
where a rule sends it.

## 3. The issue queue (`IssueQueue`)

A *task* is a coroutine; `pc` says at which await it is, the other per-task variables are the
locals that live across it.  Every service method opens its own session, so a SELECT and the
COMMIT that uses it are two actions, and a COMMIT on a row that is gone raises `StaleDataError`
(`...Stale`).  `register` and `_dequeue_and_run` run under a lock per project;
`startup_resume`, `remove_from_queue`, `mark_done` take none.  A toggle writes the setting, sets the
flag and commits, in this order (`ToggleSetting`, `ToggleEnable`, `ToggleCommit`).  `Restart` clears
the process and starts a resume.  What the endpoints show of the queue are operators over its rows
(`queue_position`, `queue_total`, `list_global_queue`).  `run_issue` appears as the dispatcher sees
it: a terminal (`RunIssueStarts`), an error result (`RunIssueError`), an exception (`RunIssueRaises`).

| Run | Instance | Shows |
|---|---|---|
| `queue` | 3 issues of 2 projects, 2 rows, 2 coroutines; every request, toggles, terminals, restarts (2.8 M states) | one PENDING row per issue (`OnePendingPerIssue`), the dispatcher's row stays first (`TakenIsFirst`), rows are appended at the tail (`AppendsAtTail`), issues are taken in the order they are shown in (`ShownInOrder`), dispatch consumes (`TakenIsConsumed`) |
| `queue_live` | 2 issues of 1 project, 2 rows, 2 coroutines, fair; additions, forced removals, `Finished` events, switching on (0.9 M states) | every coroutine ends (`HandlersEnd`); a waiting dispatcher takes the first row (`DispatcherServes`) |

*Bounds.*  `Requests` is a bound: which requests and events an instance has.  In `queue_live` every
kind of coroutine runs (request, handler, dispatcher, removal, toggle, resume), with the rows it
works on deleted under it; a removal that is not forced and switching off only take away from that, and
a restart ends every coroutine, so they are left to `queue`.  Each property relates
two rows, or a row and a coroutine, of one project; breaking one takes two writers, so two rows
and two coroutines reach every pairing; a third issue and a second project tell "first of its
project" from "first".  A row's primary key is drawn once, so `Rows` bounds the registrations.
One `startup_resume` is in progress at a time (`NoResume`), so two overlapping switches to on are
left out; a user opens a terminal only on an issue with an active row.  Issues of one project are
interchangeable, hence the symmetry.  The proofs remove the bounds.

*Fairness.*  Strong fairness of each coroutine's steps: the event loop runs every ready coroutine,
and `asyncio.Lock` wakes its waiters in FIFO order, so one that can go on again and again is not
passed over for ever.  Requests and terminals are not fair.

*Proved* (`IssueQueueProofs`, any `Issues`, `Projects`, `Rows`, `Tasks`, `Requests`): `TypeOK`,
`UniqueOrder`, `OnePendingPerIssue`, `TakenIsFirst`, `AppendsAtTail`, `ShownInOrder`,
`TakenIsConsumed`.  None of them is inductive.  `IInv` adds: rows that were inserted
have an issue; what the locals mean at each await (`LocalsFit`); who holds which lock (`LocksHeld`);
and that what `register` has read stays true until its INSERT (`RegisterReads`): no other row of the project can be inserted,
because inserts happen only under the lock, and no row becomes PENDING again.  A place is the
cardinality of the rows that are not behind: `ShownInOrder` needs that the rows inserted so far are
finitely many (`FiniteRows`, an invariant of its own, as `Rows` may be infinite), and then that a
step that queues no row only takes rows away from those in front, and that the step that queues
one puts it behind all of its project.  The only
assumption is `QueueAssumption` (each issue has a project, `None` is not an id).

*Behaviour to know*, in the model without a run of its own:

* The list over all projects numbers rows by the order each has in its own project
  (routers/queue.py:97, though line 129 says "FIFO positions"): an issue of a project that has queued
  less is shown before older ones of another, and may push them back.
* Two issues of one project may run at once: the number of RUNNING rows is read before the lock
  of the dispatcher is taken (line 685) and not looked at again under it.
* `startup_resume` marks a row without a terminal STALLED and queues nothing for it (lines 301
  and 308), though the comment says "Retry: re-queue as PENDING".
* `mark_running` may commit after `mark_done` of the same row: DONE becomes RUNNING again and
  the issue has two active rows (the exception in `TakenIsConsumed`).
* `_on_issue_queued` registers an issue again that was removed between the event and the handler.
* Two concurrent toggles may leave the flag and the setting different until a restart.
* `Finished` is ignored while the queue is off; an error of `run_issue`, a forced removal, or a
  stale row in `mark_done` dispatch nothing after them: the queue waits for the next event.
* A user's own terminal on an issue makes its dispatch fail; a terminal that dies leaves its row
  RUNNING until a restart (`mark_stalled` has no caller).
* One row deleted during a resume aborts the resume as a whole.

*Not modelled*: the module-level fallbacks of lines 698-843 (used only without a constructed
service), `mark_stalled`, `_queue_add_direct`, `_queue_remove_direct`, the list of what is running
and the status of the queue.

## 4. The write-behind storage (`DurableStore`, `WriteBehind`)

A record is `head` (issue.yaml, a memory's frontmatter, a file's entry), `text` (the markdown
files of an issue) and `marks`: which of an issue's `deleted_at`, `category`, `finished_at` and
`tags` are there, the fields some reader or writer drops.  `ram` is the RAM store, `row`, `before`
and `retry` are `pending_writes` (at most one row per record, the order of their ids, the
attempts), `disk` is what the files make up, `due` are the `write_failed` events that are
scheduled and not yet emitted; they are tasks, and end with the process.  The stores are
synchronous: a request, from its load to its commit, is one action.  The writer awaits only when
the queue is empty, so no request comes between the steps of a drain; a failure, a crash or the
end of its task may, and therefore a drain has one action per file (`Take`, `WriteHead`,
`WriteText`, `DeleteFromDisk`, `Done`, `Fail`, `GiveUp`).  The last `Fail` of a row commits its
count; `GiveUp` commits the removal of the row and schedules the event, and `Announce` emits it once
the writer sleeps: a crash may come between any two of the three.  `holder` says who has the event
loop.
`Start` loads the active project from the files and *then* starts the writer; `Stop` flushes one
batch; `Crash` may come at any time.  `Archive`, `Unarchive` and `Reload` drop or re-read RAM.

`DurableStore` is the promise: content changes with requests that succeed and with nothing
else; writing behind does not change it; only a record whose write is outstanding may be read
back as something else; content is lost only when its write is given up, and then the loss is due
to be told (`due`) until it is told or the process ends.  That last exception is the code's: the
row is gone before the event is emitted, so a crash between the two loses an accepted update and
nobody hears of it.  Under the mapping, content is "the pending row, else the files" (`Promised`),
the view is RAM (`Shown`), `due` is `due`.  Two things are outside the promise because the code
does not keep them: the project files' entries (a deleted file's entry stays in `files.yaml`) and
the marks: the loader reads none of the four (project_loader.py:148-162), `_write_issue_record`
does not file the tags, `load_issue` does not read `finished_at`.

| Run | Instance | Shows |
|---|---|---|
| `storage` | an issue and a memory, 1 head, 1 text (and blank), batches of 2, last flush of 1, 2 attempts; crashes, disk and database failures, archive and reload | `RefinesDurableStore`; `WriterDrains` |

*Bounds.*  Records do not share files or rows, so the refinement needs one record of each kind
and a second one to order rows and to overflow the last flush (limit 1 of 2).  Present, absent
and changed content is told apart by one head with text or blank.  The marks travel together and
no property reads them, so the run has one (`Marks = {"deleted"}`); the proof is for all.  Two
attempts make a first and a last one.  `Events` is a bound on which rare events an instance has.

*Fairness.*  `WF_vars(Write \/ Tell)`: the event loop resumes the writer after its sleep, a drain
has no await, and the tasks it has scheduled run while it sleeps.  Nothing is assumed of requests, of starts, or that a write ever succeeds: draining
includes giving up.  `WriterDrains` is about a writer that lives, and about announcements that no
shutdown cuts off.

*Proved* (`WriteBehindProofs`, any records, contents, limits and events; assumption
`WriteBehindAssumption`: the kinds of ids are disjoint, `None` and `Deleted` are not data, the
limits are positive): `TypeOK` and `RefinesDurableStore`.  The
inductive invariant `IInv` says that what the writer holds is pending and its own
(`HoldsPending`) and that a row about to be deleted agrees with the files (`WrittenWhenDone`);
then deleting the row maps to `Flush`, writing files maps to a stutter because the row still
decides, giving up maps to `Lose`, emitting the event
to `Tell`, and every end of the process to `End`.  `WriterDrains` is model-checked only.

*Behaviour to know*:

* RAM after a start is as old as the files: reads are stale until the writer has caught up, and
  an update made meanwhile writes stale fields back over the queued ones (main.py:190, though
  write_queue.py:10 says "Survives process crashes").
* A row that is given up is deleted first and announced by a task that is only scheduled
  (background_writer.py:68-69, 104-120): a crash or a shutdown between the two loses the update
  unannounced.
* A soft-deleted issue is listed again after a restart, and every issue loses its `category`,
  `finished_at` and `tags` (project_loader.py:148-162); the next update files it without them.
* Reading a missing `deleted_at` in `load_issue` gives `""`, not `None`, and `restore` then takes
  the issue for a deleted one (`Fallback`).
* Without an active project at the start the writer never starts (`Start`, main.py:192); after an
  exception of the queue's database it is dead for the rest of the run and stop flushes nothing.
* A GET between a memory's deletion and the writer's turn brings it back into RAM.
* `purge_expired_deleted` never purges: it compares an aware time with a naive one, and the
  `TypeError` is caught (issue_service.py:543).  The model therefore has no purge by age.

*Not modelled*: the index files of issues and memories (rebuilt from the records), an enqueue
whose INSERT fails after its DELETE (write_queue.py:55), temporary files of an atomic write,
other projects sharing a batch.

## 5. Pipeline runs (`PipelineRun`)

A run has rows in the database (`status`, `index` for `current_step_index`, `rejections`, `rows`
for the step runs) and an *executor* `ex[r]`: the asyncio task of `execute`, which awaits at
`ex[r].at` and sees the run as it last read it (`ex[r].idx`, `ex[r].st`), because its session
does not expire on commit.  The executor goes round `Load`, `Setup`, `SetupCommit`, `Register`,
`Wake`, `RefreshRun`, `RefreshStep` and then one of `Rejected`, `Complete` with `Close` (the commit,
and the end of the terminal after it), `Fail`, and ends with `FinalRead` and `Finish`.  A request handler is a slot of `req`: it reads in one action
(`FinishCall`, `RejectCall`, `PauseRead`, `ResumeRead`, `CancelRead`), and what it read then is
all it knows when it signals, cancels the executor or commits in the next ones.  `Restart` stops
the process and runs `_startup_cleanup_orphaned_runs`.  The agent is the caller of
`finished_pipeline_step` while its terminal is alive; a terminal ends by itself (`TermExits`,
which sets `pty_dead`) or is removed by a user (`TermRemoved`, which does not).

| Run | Instance | Shows |
|---|---|---|
| `pipeline` | 3 steps, 1 run, agents that call twice, 2 handlers, a restart; every request and event (1.4 M states) | steps stay in order (`StepsBelowDone`); the third rejection is the last (`RejectedOut`); a run is RUNNING only as long as it is served (`RunningIsServed`); no step of a run that was stopped is completed (`StoppedStays`) |
| `pipeline_live` | 2 steps, 1 run, fair; agents that call once, and before they end | a RUNNING run does not stay so |

*Bounds.*  A rejection needs a step before the current one and, to skip over a step, two: three
steps.  The fourth rejection is excluded by the property the third one decides.  Properties of
the runs are about one run, whose rows no other run touches, except for `NewestRunning`, and that
is another run only after a pause.  Two handlers make a race of two requests; the executor and
the restart come on top.  `Requests` says which kinds of request and event an instance has.

*Assumptions about time*, each in a comment where it is used: an agent works longer than the tool
takes, so no two of its calls are served at once (`Calls`); the commit of a start is visible within the five seconds of `_wait_for_run`; the
first signal of a rejection follows its commit in the same action.

*Calls.*  An agent may call as often as it likes: `MaxCalls` bounds it for TLC only, and the proofs
are for any number.  Two calls per agent are a finish and a rejection, or either of them
twice, before, between or after the executor's refreshes and between its commit and the end of
the terminal; `pipeline` has them.  `pipeline_live` has one call per agent, and needs it: an agent
that finishes a step and then rejects it may set the run back to a step nobody works on, and
`RunEnds` is violated.

*Fairness.*  Weak fairness of each executor, of each handler and of the commit of a start: the
event loop resumes a coroutine that is ready.  Strong fairness of the call of an agent, which
may have to wait for a slot again and again: an agent that lives finishes its work.  Starts,
requests, terminals and restarts are not fair.

*Proved* (`PipelineRunProofs`, any number of runs, steps, handlers, calls and restarts):
`RunningIsServed` and `StepsBelowDone`.  Neither is inductive.  Whether a halted run is still
RUNNING depends on what its executor read and on who halted it: `IInv` adds the shapes of
executors and handlers (`Shape`) and that a failed run is not revived while its executor is on
its way out (`FailedStays`).  That the steps below the index are done depends on values that may
be out of date: `SInv` says of an executor that its index is never below the run's, and that a
lower index of the run is a step that is done (`ExecOK`); of a rejection, that its target is
below the run's index, and that a row completed since it was read belongs to a later step and to
an executor that cannot complete another before the rejection is committed (`RejectOK`).  The
last part rests on the assumption that an agent works longer than the tool takes (`OneCall`).

Rejections (`LimitInv`, same generality): a run is rejected at most three times and is not RUNNING
after the third (`ThirdIsLast`).  A rejection counts on from what it has read (`Counted`), which
is still what the run has because one call is served at a time, and nothing makes a run RUNNING
again.

`StoppedStays` (`StoppedRunsStay`, same generality): an executor that goes on belongs to a run that
is RUNNING, or that was rejected three times, so whatever completes a step does it for such a run.
A pause or a cancel decided on an old status does not disturb this: the executor it does not stop
has already written its last status.

All of it goes over a list of what a step can be (`Cases`: an executor reads, commits or ends; a
run begins; an agent or a user asks; a handler answers, sends back or stops).

*Behaviour to know*, in the model without a run of its own:

* A second run may start while the first is PAUSED, and the first may then be resumed
  (_lifecycle.py:46 and 149): two active runs of an issue.
* After a rejection `get_active_agent` answers with the wrong agent (shared_tools.py:1217): it
  takes the index of the step as a position among the step runs, of which a repeated step has two.
* A cancel during the set-up of a step leaves its terminal open (_execution.py:213, though
  _lifecycle.py:156 says "clean up all resources").
* The agent of a step that is being rejected may end between the commit of the rejection and the
  executor's two refreshes: the run stays RUNNING.  `pipeline_live` excludes such agents.
* Removing the terminal of a step that waits wakes nobody (`TermRemoved`); only a cancel, a pause
  or a restart ends the run.
* `finished_pipeline_step` has no key of its own (shared_tools.py:1311): it is about the newest
  running run and the step that run is at, whichever agent calls (with `MaxRuns = 2` and
  `MaxStarting = 2` the agent of one run completes a step of the other).
* An executor that has refreshed its run and not yet its row does not see a third rejection
  committed in between: it goes on to set up a step of the FAILED run, and the agent it starts
  calls for the run the issue has got meanwhile (`MaxRuns = 2`).
* An agent that rejects after it has finished is served: a third rejection that is committed
  between the refresh and the commit of `_finalize_run` is followed by COMPLETED
  (_execution.py:289), which is why `RejectedOut` says "not RUNNING" and not "FAILED".
* A call that an agent makes between the commit of its step and the end of its terminal
  (_execution.py:88 and 121) is for the next step of the run (`Close`), and wakes whoever waits
  for that.
* A rejection signals twice, and the second signal may reach the step's repetition: a step may so
  be completed by another agent's call, and no property says the opposite.
* A pause or a cancel decided on an old status overwrites COMPLETED or FAILED.
* A resumed run is WAITING_FOR_STEP and no code takes it on; start, finish and cancel refuse it,
  until a restart fails it.
* Two starts that overlap both pass the guard (`MaxStarting = 2`).
* The rows of the steps are not cleaned up: a FAILED run may have a RUNNING row.

*Not modelled*: messages of a run, a pipeline edited while a run uses it, and the loop of
`execute` without an await for a step that has no row (it can come only from such an edit).

## 6. Issues, tasks and relations (`Issues`)

`IssueStore` has the records and what one record says of another: which texts are there, the
tasks with their orders, `deleted_at`, the relations.  A record in RAM is shared by reference, so
what one request assigned is seen by all others at once.  `IssueLifecycle` has a call per caller
(`call[c]`): where it awaits, the status it will announce (`say`, `st`), the completion lock it
waits for or holds.  `complete_issue` takes a lock from a table that it fills and empties itself:
`entry[i]` is the table, `call[c].lock` the object a call has in hand, which may no longer be in
the table.  Tools and routes end in an announcement (`log`, `reply`) after the commit; hooks run
in tasks of their own (`hooks`).  `IssueRelations` has the additions: `_detect_cycle` awaits at
every issue it looks at (`walk[a]`), so other requests come between two looks.

| Run | Instance | Shows |
|---|---|---|
| `issues` | 3 issues of 2 projects, 2 callers, 2 additions at once, fair (380 k states) | `CompletedOnce`, `FinishIsAnnounced`, `AllTasksAnnounced`, `BlocksAcyclic`, `CallsEnd` |

*Bounds.*  Six scenarios say which kinds of request come together: completions with overrides and
failures, with tasks, with edits and deletion; relations with deletion and archiving.  Requests
of an issue touch no other issue but for relations, so one issue is worked on (`Worked`) and three
make a cycle that is not a pair.  Two callers race; a third behind them would find the table
emptied by the second, which changes nothing (the proof has any number).  Two tasks per issue and
four ids: a list replaced by a new list.

*Fairness.*  Weak fairness of a call's steps and of hooks; strong fairness of the lock
(`asyncio.Lock` wakes waiters in order).

*Proved* (`RecordProofs`, first part; any issues, projects, callers, tasks): `StatusHasContent` (an issue has
the texts its status stands for), `CompletedOnce`, `FinishIsAnnounced`, `AllTasksAnnounced`,
`BlocksAcyclic`.  A step is classified by
what it does to the records: it keeps, creates, advances, completes, overrides or erases them.
One lemma per action says which, and one lemma per kind says that the invariant survives it.  For
`CompletedOnce` the invariant ties the count to the status; for `FinishIsAnnounced` the call that
owes the announcement is carried along as a witness.  While ALL_TASKS_COMPLETED is due all tasks
are completed (`TasksOK`), so whichever call looks at them fires it: the proof must show that
every request that changes a list calls the hook off or leaves it complete.  A circle of blockers
is stated as a set (`Circle`: each of the set blocks one of the set), which needs no induction:
what a check has seen is closed under blocks, has the target and not the source (`BlocksOK`), so
a circle through the new relation would leave a circle inside what was seen, where there was
none.  `CallsEnd` depends on fairness and is model-checked only.

*Behaviour to know*:

* The event of accept, cancel or complete carries the status captured before the commit, so two
  events of one issue can arrive in the wrong order; the REST completion and the forced finish
  announce "Finished" whatever the record says by then.
* A failure after the record has been filed leaves the new status without event or hook.
* Two BLOCKS relations added at once can make a cycle, and so can one added while another
  project of the chain is archived and later unarchived (the exceptions of `BlocksAcyclic`).
* A third completer may be inside with a second lock while the first lock is held; the check of
  the status in the record keeps it from completing.
* Deleting the task that was just completed loses ALL_TASKS_COMPLETED.
* A PUT with a name and an unknown category stores the name and answers with an error.
* `create` with a source issue leaves the new issue behind when relating it fails.

*Not modelled*: fields without rules (priority, tags, category but for its refusal), feedback,
the purge (section 4), what a hook's agent does.

## 7. Memories and files (`ProjectRecords`)

`PendingWrites` is the queue of writes as these two components see it: who is pending, who was
read from a file behind the queue (`behind`).  `MemoryGraph` has `ram` and `disk` with `parent`,
`links` and a title; a look-up of a record that is not in RAM reads its file, so a deleted memory
is found again until the writer has been there, and one whose file is gone is a `Ghost`.  Linking
awaits between its two look-ups (`linking`).  `ProjectFiles` has RAM, the index of the folder, the
entry in `files.yaml`, the resource and the cached text, and a transcription in a task of its own.

| Run | Instance | Shows |
|---|---|---|
| `records` | 3 memories, 3 files (recording, document, image), restarts, crashes (1 M states) | `ParentsAcyclic`, `NothingDangles`, `RamIsFiled` |

*Bounds.*  Three memories make a circle that is not a pair and a deletion with a child that is
linked elsewhere.  Eight mixtures (`Mixtures`) say which requests come together.  Memories are
interchangeable, hence the symmetry.  The proofs remove the bounds.

*Proved* (`RecordProofs`, second part; any finite set of memories, any files, any callers that
link, any mixtures): `ParentsAcyclic`, `NothingDangles` and `RamIsFiled`.  Assumed of the constants is
only that the marks for "no record" are no records and that memories and files are told apart
(`MemoryAssumption`, `PendingAssumption`); that the memories are finitely many is used where the
writes of a deletion are put in a sequence.

None of the three is inductive.  What they miss is what the *files* hold: a restart or a look-up
puts a file's record into RAM, so RAM is right only if the files and the pending rows are.  The
inductive invariant (`RecordsInv`) therefore says of every record outside `behind` that its pending
row, or, when it has none, its file, agrees with RAM in parent and links (`MemoriesFiled`; a refused
update may leave another title), that the index agrees likewise (`FilesFiled`), and that whatever a
record of RAM, queue or files points at has been made (`MadeFirst`: a memory created
anew is nobody's parent).  It follows that a record which RAM lacks and whose file is still there
has a pending row: to read it is to read behind the queue, which is what exempts it from then on.

* A circle is a nonempty set of memories each of which has its parent in the set, so no
  induction over paths is needed.  The walk of `_would_create_cycle` is the least set with the new
  parent that has the parents of what it holds; were there a circle after a move that the check
  admitted, it would run through the moved memory, and what the walk has seen of the rest would be
  a circle before it, or hold the memory itself.
* A deletion rewrites the children and the linking records that RAM has; the others are behind
  the queue as soon as they are read.  A link is added after a second look at both ends without
  an await, so it cannot be to what a deletion has removed meanwhile.
* Of the queue the proof uses the rows and not their order (`Rows`): what `enqueue` and
  `enqueue_all` do to them is proved from the definition of `Remaining`, for queues of any length.

*Behaviour to know*:

* A deleted file stays in `files.yaml` (background_writer.py:157) and is found again.
* `logger` is not defined in file_service.py (lines 78, 80, 90): a transcription is never filed,
  and `recover_pending_transcriptions` raises at the first pending recording; main.py:201 catches
  it, and the other projects are not looked at.
* The loader sets `extracted_text` to None (project_loader.py:202).
* A refused upload leaves the recordings before it without transcription (file_service.py:170).
* Deleting the last memory and listing before the writer's turn puts None records into RAM
  (memory_store.py:166-168); a later deletion or count raises AttributeError.
* A crash between the two writes of parents that were swapped leaves a circle in the files.
* A refused change of parent keeps the new title in RAM.
* `add_link` raises when `from` is deleted between the two look-ups.

*Not modelled*: a memory's text and tags, search, what is extracted from a document.

## 8. Terminals, questions, notifications, the page (`AgentDesk`)

*Terminals.*  `TerminalRegistry` has the PTYs (`process`), what each is for, its buffer and its
recording; an output is a number and a buffer the last ones.  `TerminalSessions` has the session
objects, the reader of each and the WebSocket clients: a client is accepted, replayed and
registered in three steps, and a second one replaces the first.  `Terminals` has the requests that
open and take down terminals, with the awaits between the look at the others, the teardown and
the creation.

*Questions.*  A question has a row, an entry in the store of the process, and an asker that waits
on an event with a time-out (`ask[q]`).  The call may end at any of its awaits, cancelled with its
client or because a commit fails (`ask_broken`); nothing of it reaches the store then.

*Notifications and settings.*  An event goes to each browser in turn, to the log, to Telegram and
to the queue's listener; Telegram is configured from four settings, read one by one (`got`).

*Page.*  `EventFeed` has the page's sockets, its timers, one query with its request under way, and
a change in the server; `QueryKeys` which keys an event or a mutation invalidates.

| Run | Instance | Shows |
|---|---|---|
| `terminals` | 18 scenarios: up to 3 requests for terminals with 2 clients; 2 questions; 2 events with 3 browsers; 2 changes of settings; 1 or 2 mounts of a page (763 k states) | `OutputKept`, `OnePerPlace`, `PendingIsAwaited`, `HeardOnce`, `ClientsHear`, `ConfigFollows`, `ShownIsCurrent`, `ShownOnce`, `ExitIsNoticed` |

*Bounds.*  A behaviour has one scenario, because these parts do not share state.  Three requests
about terminals have two that overlap and one that follows.  A buffer of one and two outputs has
what is dropped and what is kept.  Two browsers besides the one that fails; notices that
invalidate the same keys are represented by one of them (`Told`).

*Fairness.*  `LiveSpec`: weak fairness of the reader's steps, which are callbacks of the event
loop; `ExitIsNoticed` needs no more.  A `send` that stalls is a connection that fails later: the
reader waits with it, which `reader_sent` includes.

*Proved* (`DeskProofs`, any terminals, clients, questions, browsers, events and requests; assumption
`ScenariosAssumption`: what a scenario says has its type, and a socket of the page is not also a
browser of its own): every safety property of the run.  Each rests on an invariant about one
component, and what a component does to the state of another is a lemma (`PagesMeetEmits`,
`ServerMeetsPages`).

* `OutputKept` (`OutputInv`): what is live has its output in its buffer; what is down, or is being
  taken down and has lost its session, has been filed (`DownIsFiled`); and only the session of a
  terminal reads it (`ReadBySession`), so that nothing is read after the save.
* `OnePerPlace` (`PlaceInv`): where no two requests have overlapped there is one terminal in a place,
  one request that looks for it and has found none, and one that has all the others in hand.
* `PendingIsAwaited` (`QuestionInv`): a question is in the table before the store knows it, and an
  asker whose event is set has an answer or a time-out in the store (`Filing`).  A pending question
  is one its agent waits for, or whose call was cut off (`ask_broken`).
* `ConfigFollows` (`SettingsInv`): what a request that reads alone has read so far is what the
  settings say.
* `HeardOnce`, `ClientsHear` (`EmitInv`): what an event has come to, in the log and at Telegram, at
  each place of its emit (`SendState`); each browser of the emit is waiting, sent to or lost
  (`HearState`).
* `ShownOnce` (`PageInv`): the page has one socket at a time, the one of `wsRef`, and what it has
  shown is in no socket that is still to be read (`ShownIsOver`), unless it was mounted while an older
  socket was connecting or closing.
* `ShownIsCurrent` (`CacheInv`): what the page was told of before the server answered is in the answer,
  or the data are stale.  It rests on a fact about the keys, proved notice by notice: each covers
  every query it concerns, but for those in `Unheeded` (`Reached`).

*Behaviour to know*, terminals:

* Two overlapping requests for one issue both pass the guard (terminal_operations.py:131-137),
  and so do two requests to ask while a client is connected to the old terminal.
* A client that connects while a terminal is torn down gets a session and a reader of its own,
  and its output is missing from the recording.
* Deleting a project saves no recordings (routers/projects.py:362-366).
* A user who deletes the terminal of a pipeline's step leaves the step waiting (section 5).
* A second WebSocket replaces the first, and the end of the first sets `session.ws` to None: the
  second gets no more output (terminal_handler.py:84-86; terminal_session.py:55-56 says "so they never
  race").
* Output that is read while the replay is being sent is not shown.
* A session made again for a dead terminal is not removed; entries stay after the end of output;
  connecting clears `pty_dead`; a terminal made by REST has no reader until a client connects.
* A step of a pipeline replaces a client's session; hermes terminals are reaped and listed with
  the agents that manage; a client that stalls blocks the reader.

Questions: a call that is cancelled, or whose time-out cannot be committed, leaves its question
pending in the store with nobody waiting, until somebody answers it or the server restarts
(shared_tools.py:926 catches `asyncio.TimeoutError` only); an answer after the time-out overwrites its status, and a time-out that races an
answer overwrites "answered"; an answer between commit and put is lost to the store; pending
questions are lost at a restart; entries are never removed; two answers may end differently in the
row and in the store; the two events between put and waiting take as long as Telegram does.

Notifications and settings: two overlapping changes of Telegram's settings can leave an old
configuration (routers/settings.py:64-69); resets and the tool `update_setting` do not configure
Telegram; an empty token keeps the previous one; a change between the log's and Telegram's look at
the configuration makes neither or both announce; a retry uses the current token with the chat
chosen at the start, and may deliver twice after a time-out; several senders exceed the limit of
twenty messages a second (telegram_service.py:152-159); a browser that stalls holds up the emit.

Page: mounting while an older socket is connecting or closing leaves two connections, and every
event is shown twice (event-context.tsx:364); events while disconnected are missed, and connecting
again invalidates nothing (event-context.tsx:227); a change during a query's first request is not
seen; the events and mutations in `Unheeded` reach keys that do not cover what they change, among
them those of a pipeline's steps, which carry no project (_events.py:124-182); a mutation whose
answer is lost invalidates nothing; `terminal_closed`, `issue_updated`, `file_updated` and
`agent_terminal_created` are listened for and emitted by nobody.

*Not modelled*: resize, keystrokes, command lines, the rate limit's clock, the terminal panel's own
connection (terminal-panel.tsx: after the last retry it still says "Reconnecting...").

## 9. Plugins and projects (`ProjectLifecycle`)

`PluginClients` has a client and its process: an owner (a background connect or a call) goes
through `connect`, `_connect_stdio`, `_init_session`, and `disconnect` or a clean-up may come
between any two of them; the lock of a client orders connects.  A handler that disconnects a client
clears its flag and then leaves session and transport in two awaits (`_exit_session`,
`_exit_transport`), each of which takes what the client has by then; what goes on meanwhile, a
call that connects again above all, finds a client that is not connected.  `Plugins` is the manager: the table
of clients, the gateway's tools, `plugins.yaml`.  `ProjectLifecycle` has the requests that archive,
unarchive, rebuild and delete a project.

| Run | Instance | Shows |
|---|---|---|
| `plugins` | 7 stories of up to 3 requests, 2 projects, 2 clients, up to 2 calls, fair (336 k states) | `OneConnection`, `NoOrphans`, `CallsReturn` |

*Bounds.*  Each story has two requests that touch one client and a third that follows; two calls
contend for the lock.

*Fairness.*  Weak fairness of a call's connect, strong fairness of calls: both have time-outs, so
each of their awaits ends.  The background connect has none (plugin_manager.py:129) and gets no
fairness: where it hangs, a call that waits for it ends with the time-out of its own wait
(plugin_client.py:113).

*Proved* (`PluginProofs`, any projects, clients, calls and requests; assumptions: a call is not a
client, None is neither, and the requests of a scenario are about projects there are):
`OneConnection` and `NoOrphans`.  The invariant has four parts.  `InTurn`: a call that wants to
connect does so after the background task has ended, and with the lock, so there is one connect
at a time.  `Held`: of a client that was left alone, a process that runs is the one its transport
will end, and no second one is started while it runs or is being left.  `Departing`: a handler
leaves one client at a time and goes on when it has.  `Owned`: a client that is alive (it has a
process, or a connect is under way) has its place in the table, or a handler is about to end it,
or is one of the exceptions, and the same holds of the client whose place a handler is about to
give up.

*Behaviour to know*:

* `FastMCP.add_tool` keeps the first tool of a name, so the gateway keeps the first client;
  `unregister_plugin_tools` removes nothing; a call after disable, stop or archive starts the
  process again.
* A call that comes while a handler leaves its client connects again: its transport takes the place of
  the one that is being left, the handler then leaves or forgets the new one, and a process is left
  (the exception of `OneConnection`).
* Enabling a plugin that runs, and a disconnect during or before a connect, leave a process
  without owner; disabling pops a newer client (the exceptions of `NoOrphans`).
* `enable_plugin_tool` passes None for the server: registration fails, and the tool says success.
* Deleting a plugin may lose an update of `plugins.yaml`.
* Archive and unarchive at once unload an active project; an archived project's plugins can be
  enabled; deletion leaves records in RAM, plugins and queue rows; `_shutdown` stops only the
  plugins of projects that were active at the start.

*Not modelled*: `restart_plugin`, `discover_and_disconnect`, `register_plugin_tools` (no callers),
what a tool returns, links and variables of a project.

## 10. Pipeline definitions (`PipelineCatalog`)

`PipelineDefinitions` has the database (agents, pipelines, steps with their index, rules, and the
constraints that a flush checks statement by statement) and the requests, each a
read and a commit; `PipelineExchange` export and import, the latter all or nothing;
`PipelineCatalog` the engine: which rules an event matches, what their actions do, and where a
rejection without a target of its own goes: the tool takes the row at the run's place (`RowAt`), looks
for the rule of its step (`resolve_rejection_target`), and `reject_step` refuses what is not before
the run's place.  A run is there only as its place and the steps it was sent back to (at most two,
since the third rejection ends it); that its steps are those of the pipeline as it is now is an
assumption, which a step added during the run breaks.  Ids are numbers in the order in which they are drawn: new steps take the first
ones left, and a flush writes in their order.

| Run | Instance | Shows |
|---|---|---|
| `definitions` | 15 stories of 3 overlapping requests, 6 step ids, 2 agents, 2 pipelines (209 k states) | `RulesStay`, `RejectedToTarget`, `ImportRestores` |

*Bounds.*  Two pipelines tell a rule's own steps from another's; three steps and a gap tell an
index from a position; three requests have two that overlap and one that uses the result.

*Proved* (`CatalogProofs`, any pipelines, agents, events, requests, any finite set of step ids;
assumptions `DefinitionsAssumption`: step ids are numbers, finitely many, and so are the agents;
`ScenariosAssumption`: an instance starts from tables as the requests leave them;
`TargetAssumption`: "no target" is no index): all three.
The inductive invariant `CatalogInv` has, beside the types, what no constraint of the database
keeps.  *Rules*: the step a rule starts from is one of its pipeline, and so is its target unless an
update has set it.  *Reads*: a step that a request has read is in the same pipeline or is gone
(`Known`), and an id is drawn once, so a rule that is inserted late either names steps of its
pipeline or breaks a foreign key.  *Indices*: those of a pipeline that is not thinned begin with 0
and leave nothing out (`GapFree`).  An addition keeps that if the index it read is still the next
one.  A reordering of n steps that were read before another was added keeps it, because it is
accepted only if no other step has an index below n: if an index k >= n were now missing, the n
steps would have had all the indices below n and k, one more than they are (`NoRoom`).  Without
a gap, as many steps come before a step as its index says (`IndexIsPlace`), and with one never
more (`PlaceInIndex`): the index that `resolve_rejection_target` returns is the place that
`reject_step` takes it for, or a later one.  The row at a step's place is its own as long as no
step before it has two rows (`RowIsStep`).  For
`ImportRestores` the invariant says of a file that its steps are in the order of their indices,
each once; the new ids are then in that order too (`NewStepsInOrder`), and no rule is left over,
since an import over a pipeline with rules does not commit.

*Behaviour to know*:

* Reordering after a removal can hit the UNIQUE constraint, though pipeline_service.py:118-120
  says that it avoids it; a list of some steps fails.
* `resolve_rejection_target` returns an index (_rejection.py:42) and `reject_step` uses it as a
  position (_rejection.py:98): with a gap they differ, and a rejection is refused or goes to a step
  after the target.
* The tool takes the rows of a run, of which a repeated step has two, for its steps
  (shared_tools.py:1283): a step behind one that was repeated is rejected by the rule of the step
  before it, so the second rejection of the same step may be refused or go elsewhere (the exception in
  `RejectedToTarget`).
* A rule may name its own step or a later one: it is accepted, and every rejection by it refused.
* Importing over a pipeline with rules always fails on a foreign key, and one failed flush makes
  the whole import a 500.
* `update_event_rule` does not look whose steps it names, and a rule of another pipeline blocks
  `delete_pipeline`; the REST `create_event_rule` ignores the action (routers/pipelines.py:112).
* `set_issue_status` sets the old table's row only; the default action "redirect" is not
  registered and is skipped.
* Two seeds at once both insert; names of agents are not unique; deleting an agent in use is a
  500; removing steps and pipelines deletes their runs by cascade; an export reads steps and rules
  in two SELECTs; of two additions of a step at once one fails.

*Not modelled*: renaming, the fields that describe an agent.

## 11. The projects' folders (`Workspace`)

`Migration` dumps the old database into each project's folder: kind by kind (`dump_kind`), with
an await between any two, then the sentinel, then the statuses, then the load.  `SkillLibrary`
has the copy in `.claude/skills`, the row and the section of `CLAUDE.md`, the library and a user
who edits both.  `ProjectFolder` has the id in `manager.json`, the records' ids in their files,
the index, RAM and queue, and the health check that rewrites them.

| Run | Instance | Shows |
|---|---|---|
| `workspace` | 2 projects and 3 starts cut anywhere; 2 skills, 3 requests, 2 edits; 2 ids, 2 records, 6 requests (630 k states) | `TwoStartsSeal`, `SkillsAgree`, `RightStays` |
| `migration_lost` | the same | *violated*: what was dumped is in the files or in the queue |

*Bounds.*  Three starts have one that is cut between two that are not; a third skill request
overlaps one of two that overlap.

*Proved* (`WorkspaceProofs`, any projects, starts, skills, requests, ids, records; assumption
`WorkspaceAssumption`: what a scenario says of folders and ids has its type): all three.  One
inductive invariant each.  The first full start puts the old statuses right, so in the next no dump
fails; a request about a skill is half-way and what it found still holds unless somebody else
mixed in; the id in the queue is the right one.

*Behaviour to know*:

* `migration_lost`: the server migrates before it injects the write queue into the stores
  (main.py:294 and 181-183), so a dumped record is in RAM only, the sentinel is written, and the
  load replaces RAM by the empty folder.  Feedback and extracted texts alone reach the disk.
* A migration that fails, followed by a first new record, makes the next start find the folder
  "already populated" and seal it without the old rows.
* An unarchived project's rows wait for the next start.
* A second removal decided on an old row deletes the file of a newer assignment and leaves its
  row; two assignments at once make two rows, and later requests for the skill are a 500.
* A missing END marker in `CLAUDE.md` raises after the file has been copied or removed.
* `update_content` does not reach the projects' copies.
* `install_manager_json` calls `clear_all_caches`, which empties RAM of all projects while writes
  are pending; the health check touches neither RAM nor queue; `create_project` adopts the id of a
  `manager.json` and loads nothing.

## 12. What is not modelled

* *Agent providers, catalog, templates*: they put together command lines and prompts.
* *MCP servers* (`mcp/server.py`, `mcp/orchestrator_server.py`): wrappers around the services,
  whose actions are the models' actions.
* *Search, network, system*: endpoints that read or look at the machine.
* *Views of the frontend*: they show queries and send requests; what keeps them current is
  section 8.
* *Variables, links, terminal commands, activity*: single rows without interaction.
* *Dead code*: `routers/import_export.py` is never registered and calls methods that do not exist;
  `restart_plugin`, `_queue_add_direct`, `_queue_remove_direct`, `push_output`, `destroy_log`,
  `register_plugin_tools` have no callers; `db_backup` is called by tests only.
* *SQLite itself*: a transaction commits as a whole or not at all; `database.py` sets WAL, foreign
  keys and a busy time-out, and `expire_on_commit=False`, on which sections 3 and 5 rely.

Liveness (`HandlersEnd`, `DispatcherServes`, `WriterDrains`, `RunEnds`, `CallsEnd`, `CallsReturn`,
`ExitIsNoticed`) is model-checked only: it needs fairness and ENABLED, which TLAPS does not do.
Every safety property the runs check is proved for any values of the constants, under the
assumptions its section names.

## 13. Running

    tlc -workers 2 -config MCIssueQueue.cfg MCIssueQueue                 (2.8 M states, 120 s)
    tlc -workers 2 -config MCIssueQueueLive.cfg MCIssueQueue             (0.9 M, 225 s)
    tlc -workers 2 -config WriteBehind.cfg WriteBehind               (346 k, 55 s)
    tlc -workers 2 -config MCPipelineRun.cfg MCPipelineRun               (1.4 M, 20 s)
    tlc -workers 2 -config MCPipelineRunLive.cfg MCPipelineRun           (30 k, 5 s)
    tlc -workers 2 -config MCIssues.cfg MCIssues                         (381 k, 85 s)
    tlc -workers 2 -config MCProjectRecords.cfg MCProjectRecords         (1.0 M, 80 s)
    tlc -workers 2 -config MCAgentDesk.cfg MCAgentDesk                   (768 k, 120 s)
    tlc -workers 2 -config MCProjectLifecycle.cfg MCProjectLifecycle     (336 k, 65 s)
    tlc -workers 2 -config MCPipelineCatalog.cfg MCPipelineCatalog       (209 k, 50 s)
    tlc -workers 2 -config MCWorkspace.cfg MCWorkspace                   (630 k, 15 s)
    tlc -workers 2 -config MCWorkspaceMigrated.cfg MCWorkspace           (ends with a counterexample)
    tlapm IssueQueueProofs.tla      (and WriteBehindProofs, PipelineRunProofs, RecordProofs, PluginProofs,
                                     WorkspaceProofs, DeskProofs, CatalogProofs)

`migration_lost` is meant to end with a counterexample; the finding in `PROJECT.json` quotes the
sentence it contradicts.
