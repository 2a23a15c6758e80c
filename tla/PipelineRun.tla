------------------------------ MODULE PipelineRun ------------------------------
(***************************************************************************)
(* Pipeline runs of one issue: PipelineRunService                          *)
(* (backend/app/services/pipeline_run/) over the tables pipeline_runs and  *)
(* pipeline_step_runs, with the MCP tool finished_pipeline_step and the    *)
(* startup clean-up.                                                       *)
(*                                                                         *)
(* A run has an executor, an asyncio task with a session of its own that   *)
(* lives as long as the run.  Sessions are created with                    *)
(* expire_on_commit=False: what the executor has read stays what it sees   *)
(* until it calls refresh.  A request handler reads in one action and      *)
(* commits in a later one; a commit writes the columns the handler         *)
(* assigned and no other.                                                  *)
(***************************************************************************)
EXTENDS Naturals, Sequences, FiniteSets

CONSTANTS
  NSteps,         \* steps of the pipeline, numbered from 0 (order_index)
  MaxRuns,        \* bound: runs ever started for the issue, in order of created_at
  Tasks,          \* slots for request handlers that run at the same time
  MaxStarting,    \* bound: start requests in progress at the same time
  MaxCalls,       \* bound: calls of finished_pipeline_step per agent
  MaxRestarts,    \* bound: restarts of the server
  Requests        \* bound: the kinds of request and event an instance considers

ASSUME RunAssumption ==
  /\ NSteps \in Nat /\ MaxRuns \in Nat /\ MaxStarting \in Nat
  /\ MaxCalls \in Nat /\ MaxRestarts \in Nat
  /\ Requests \subseteq {"pause", "resume", "cancel", "reject", "exit", "remove", "spawn"}

VARIABLES
  \* the database
  status,       \* run -> its status; "NONE" before the INSERT
  index,        \* run -> current_step_index
  rejections,   \* run -> rejection_count
  rows,         \* run -> its step runs in the order they were inserted
  \* the process: lost at a restart
  starting,     \* runs whose start() is past its check and before its commit
  ex,           \* run -> its executor: where it awaits and what it has read
  req,          \* slot -> the handler in it: where it awaits and what it has read
  restarts      \* restarts so far

db   == <<status, index, rejections, rows>>
vars == <<db, starting, ex, req, restarts>>

Runs   == 1..MaxRuns
Steps  == 0..(NSteps - 1)
Active == {"RUNNING", "WAITING_FOR_STEP"}

\* The executor of a run.  `sig` is its completion event, registered while `at` is "wait";
\* `term` is the terminal of its current step; `calls` is what is left of its agent's calls.
NoExec == [at |-> "off", idx |-> 0, st |-> "RUNNING", row |-> 0, sig |-> FALSE,
           ok |-> FALSE, rej |-> FALSE, term |-> "none", calls |-> 0]
Idle   == [op |-> "idle", run |-> 0, idx |-> 0, row |-> 0, to |-> 0, num |-> 0]

Init ==
  /\ status = [r \in Runs |-> "NONE"]
  /\ index = [r \in Runs |-> 0]
  /\ rejections = [r \in Runs |-> 0]
  /\ rows = [r \in Runs |-> <<>>]
  /\ starting = {}
  /\ ex = [r \in Runs |-> NoExec]
  /\ req = [t \in Tasks |-> Idle]
  /\ restarts = 0

First(S) == IF S = {} THEN 0 ELSE CHOOSE k \in S : \A j \in S : k <= j
Last(S)  == IF S = {} THEN 0 ELSE CHOOSE k \in S : \A j \in S : k >= j

RowsOf(r, s)   == {k \in DOMAIN rows[r] : rows[r][k].step = s}
\* The row of step s that was started last: a rejection appends a row and starts it at once.
LatestRow(r, s) == Last(RowsOf(r, s))
RunningRow(r)  == First({k \in DOMAIN rows[r] : rows[r][k].st = "RUNNING"})
NewestRunning  == Last({r \in Runs : status[r] = "RUNNING"})
Executing      == {r \in Runs : ex[r].at # "off"}
SetRow(r, k, st) == IF k = 0 THEN rows ELSE [rows EXCEPT ![r][k].st = st]

(***************************************************************************)
(* start()                                                                 *)
(***************************************************************************)
\* The guard: no run of the issue is RUNNING or WAITING_FOR_STEP.
StartRead(r) ==
  /\ Cardinality(starting) < MaxStarting
  /\ r \notin starting /\ status[r] = "NONE"
  /\ \A q \in Runs : status[q] \notin Active
  /\ starting' = starting \cup {r}
  /\ UNCHANGED <<db, ex, req, restarts>>

\* The run, a PENDING row per step and the executor, which polls until the commit is visible.
StartCommit(r) ==
  /\ r \in starting
  /\ starting' = starting \ {r}
  /\ status' = [status EXCEPT ![r] = "RUNNING"]
  /\ rows' = [rows EXCEPT ![r] =
       [k \in 1..NSteps |-> [step |-> k - 1, st |-> "PENDING", term |-> FALSE]]]
  /\ ex' = [ex EXCEPT ![r] = [NoExec EXCEPT !.at = "load"]]
  /\ UNCHANGED <<index, rejections, req, restarts>>

(***************************************************************************)
(* execute()                                                               *)
(***************************************************************************)
\* _wait_for_run: the run as it is now.
Load(r) ==
  /\ ex[r].at = "load"
  /\ ex' = [ex EXCEPT ![r].at = "loop", ![r].idx = index[r], ![r].st = status[r]]
  /\ UNCHANGED <<db, starting, req, restarts>>

InLoop(r) == ex[r].at = "loop" /\ ex[r].idx < NSteps /\ ex[r].st # "FAILED"

\* _setup_step_environment: selects the row and spawns a terminal.
Setup(r) ==
  /\ InLoop(r)
  /\ ex' = [ex EXCEPT ![r].at = "setup", ![r].row = LatestRow(r, ex[r].idx), ![r].term = "alive"]
  /\ UNCHANGED <<db, starting, req, restarts>>

\* The terminal cannot be spawned: the outer handler commits the run as FAILED and the row,
\* flushed before the spawn, as RUNNING.
SetupFails(r) ==
  /\ "spawn" \in Requests
  /\ InLoop(r)
  /\ status' = [status EXCEPT ![r] = "FAILED"]
  /\ rows' = SetRow(r, LatestRow(r, ex[r].idx), "RUNNING")
  /\ ex' = [ex EXCEPT ![r] = NoExec]
  /\ UNCHANGED <<index, rejections, starting, req, restarts>>

\* Commits the row as RUNNING with its terminal_id.
SetupCommit(r) ==
  /\ ex[r].at = "setup"
  /\ rows' = [rows EXCEPT ![r][ex[r].row].st = "RUNNING", ![r][ex[r].row].term = TRUE]
  /\ ex' = [ex EXCEPT ![r].at = "ready"]
  /\ UNCHANGED <<status, index, rejections, starting, req, restarts>>

\* _run_step: starts the agent and registers the completion event (run, step).
Register(r) ==
  /\ ex[r].at = "ready" /\ ex[r].term # "removed"
  /\ ex' = [ex EXCEPT ![r].at = "wait", ![r].sig = FALSE, ![r].calls = MaxCalls]
  /\ UNCHANGED <<db, starting, req, restarts>>

\* The terminal is no longer registered, removed by a user or after the end of its process:
\* get_pty raises and the step fails.
StepRaises(r) ==
  /\ ex[r].at = "ready" /\ ex[r].term # "alive"
  /\ ex' = [ex EXCEPT ![r].at = "checked", ![r].ok = FALSE]
  /\ UNCHANGED <<db, starting, req, restarts>>

\* The event is set or the PTY is dead; the event wins.
Wake(r) ==
  /\ ex[r].at = "wait"
  /\ ex[r].sig \/ ex[r].term = "gone"
  /\ ex' = [ex EXCEPT ![r].at = "woken", ![r].ok = ex[r].sig, ![r].sig = FALSE]
  /\ UNCHANGED <<db, starting, req, restarts>>

RefreshRun(r) ==
  /\ ex[r].at = "woken"
  /\ ex' = [ex EXCEPT ![r].at = "fresh", ![r].idx = index[r], ![r].st = status[r]]
  /\ UNCHANGED <<db, starting, req, restarts>>

RefreshStep(r) ==
  /\ ex[r].at = "fresh"
  /\ ex' = [ex EXCEPT ![r].at = "checked", ![r].rej = rows[r][ex[r].row].st = "REJECTED"]
  /\ UNCHANGED <<db, starting, req, restarts>>

\* The end of a step: cleanup_terminal, and back to the loop with what was read last.
NextStep(r) == [ex[r] EXCEPT !.at = "loop", !.row = 0, !.ok = FALSE, !.rej = FALSE,
                             !.term = "none", !.calls = 0]

Rejected(r) ==
  /\ ex[r].at = "checked" /\ ex[r].rej
  /\ ex' = [ex EXCEPT ![r] = NextStep(r)]
  /\ UNCHANGED <<db, starting, req, restarts>>

\* Commits the completed step; current_step_index is written from the value read by RefreshRun.
\* The agent lives on until Close and may call again, for the index the commit has set.
Complete(r) ==
  /\ ex[r].at = "checked" /\ ~ex[r].rej /\ ex[r].ok
  /\ rows' = [rows EXCEPT ![r][ex[r].row].st = "COMPLETED"]
  /\ index' = [index EXCEPT ![r] = ex[r].idx + 1]
  /\ ex' = [ex EXCEPT ![r].at = "done", ![r].idx = @ + 1]
  /\ UNCHANGED <<status, rejections, starting, req, restarts>>

Close(r) ==
  /\ ex[r].at = "done"
  /\ ex' = [ex EXCEPT ![r] = NextStep(r)]
  /\ UNCHANGED <<db, starting, req, restarts>>

\* The failed row and the failed run are committed together by _finalize_run.
Fail(r) ==
  /\ ex[r].at = "checked" /\ ~ex[r].rej /\ ~ex[r].ok
  /\ rows' = [rows EXCEPT ![r][ex[r].row].st = "FAILED"]
  /\ status' = [status EXCEPT ![r] = "FAILED"]
  /\ ex' = [ex EXCEPT ![r] = NoExec]
  /\ UNCHANGED <<index, rejections, starting, req, restarts>>

\* _finalize_run after the loop: refreshes the run, then commits COMPLETED unless it read FAILED.
FinalRead(r) ==
  /\ ex[r].at = "loop" /\ ~InLoop(r)
  /\ ex' = [ex EXCEPT ![r].at = "final", ![r].st = status[r]]
  /\ UNCHANGED <<db, starting, req, restarts>>

Finish(r) ==
  /\ ex[r].at = "final"
  /\ status' = IF ex[r].st = "FAILED" THEN status ELSE [status EXCEPT ![r] = "COMPLETED"]
  /\ ex' = [ex EXCEPT ![r] = NoExec]
  /\ UNCHANGED <<index, rejections, rows, starting, req, restarts>>

\* The agent's process ends: the terminal's reader sees EOF and sets pty_dead.
TermExits(r) ==
  /\ "exit" \in Requests
  /\ ex[r].term = "alive"
  /\ ex' = [ex EXCEPT ![r].term = "gone"]
  /\ UNCHANGED <<db, starting, req, restarts>>

\* delete_terminal, at a user's request: the reader is cancelled before the kill and pty_dead is
\* never set, so an executor that waits goes on waiting.
TermRemoved(r) ==
  /\ "remove" \in Requests
  /\ ex[r].term = "alive"
  /\ ex' = [ex EXCEPT ![r].term = "removed"]
  /\ UNCHANGED <<db, starting, req, restarts>>

\* The agent of run a calls; the tool takes the newest RUNNING run and its current step,
\* whichever agent called.  An assumption about time: an agent works longer than the tool takes,
\* so no agent calls while the call of an earlier one is being served.
Calls(a, t) ==
  /\ req[t].op = "idle"
  /\ \A u \in Tasks : req[u].op \notin {"finish", "reject"}
  /\ ex[a].term = "alive" /\ ex[a].calls > 0

Called(a, t, handler) ==
  /\ ex' = [ex EXCEPT ![a].calls = @ - 1]
  /\ req' = [req EXCEPT ![t] = handler]
  /\ UNCHANGED <<db, starting, restarts>>

FinishCall(a, t) ==
  LET r == NewestRunning IN
  /\ Calls(a, t)
  /\ Called(a, t, IF r = 0 \/ index[r] >= NSteps THEN Idle
                  ELSE [Idle EXCEPT !.op = "finish", !.run = r, !.idx = index[r]])

\* set_step_completed: false unless the executor of that run waits for that very step.
Signalled(r, i) ==
  IF ex[r].at = "wait" /\ rows[r][ex[r].row].step = i THEN [ex EXCEPT ![r].sig = TRUE] ELSE ex

\* Mutant: the step is counted from 1.
FinishSignalFromOne(t) ==
  /\ req[t].op = "finish"
  /\ ex' = Signalled(req[t].run, req[t].idx + 1)
  /\ req' = [req EXCEPT ![t] = Idle]
  /\ UNCHANGED <<db, starting, restarts>>

FinishSignal(t) ==
  /\ req[t].op = "finish"
  /\ ex' = Signalled(req[t].run, req[t].idx)
  /\ req' = [req EXCEPT ![t] = Idle]
  /\ UNCHANGED <<db, starting, restarts>>

\* The same call with rejected=True: reject_step validates what it has read.
RejectCall(a, t) ==
  /\ "reject" \in Requests
  /\ Calls(a, t)
  /\ LET r == NewestRunning IN
     IF r = 0 \/ index[r] >= NSteps \/ RunningRow(r) = 0
     THEN Called(a, t, Idle)
     ELSE \E target \in Steps :
            /\ target < index[r]
            /\ Called(a, t, [op |-> "reject", to |-> target, run |-> r, idx |-> index[r],
                             row |-> RunningRow(r), num |-> rejections[r] + 1])

\* Mutant: the limit is off by one.
RejectCommitFour(t) ==
  LET q == req[t] IN
  /\ q.op = "reject"
  /\ rows' = [rows EXCEPT ![q.run] =
       Append([@ EXCEPT ![q.row].st = "REJECTED"], [step |-> q.to, st |-> "RUNNING", term |-> FALSE])]
  /\ index' = [index EXCEPT ![q.run] = q.to]
  /\ rejections' = [rejections EXCEPT ![q.run] = q.num]
  /\ status' = IF q.num > 3 THEN [status EXCEPT ![q.run] = "FAILED"] ELSE status
  /\ ex' = Signalled(q.run, rows[q.run][q.row].step)
  /\ req' = [req EXCEPT ![t] = [Idle EXCEPT !.op = "finish", !.run = q.run, !.idx = q.idx]]
  /\ UNCHANGED <<starting, restarts>>

\* Marks the row REJECTED, adds a RUNNING row for the target, moves the run back to it; the
\* third rejection fails the run.  Wakes the executor of the rejected step; the tool then goes
\* on as for a completion.
RejectCommit(t) ==
  LET q == req[t] IN
  /\ q.op = "reject"
  /\ rows' = [rows EXCEPT ![q.run] =
       Append([@ EXCEPT ![q.row].st = "REJECTED"], [step |-> q.to, st |-> "RUNNING", term |-> FALSE])]
  /\ index' = [index EXCEPT ![q.run] = q.to]
  /\ rejections' = [rejections EXCEPT ![q.run] = q.num]
  /\ status' = IF q.num >= 3 THEN [status EXCEPT ![q.run] = "FAILED"] ELSE status
  /\ ex' = Signalled(q.run, rows[q.run][q.row].step)
  /\ req' = [req EXCEPT ![t] = [Idle EXCEPT !.op = "finish", !.run = q.run, !.idx = q.idx]]
  /\ UNCHANGED <<starting, restarts>>

(***************************************************************************)
(* pause_run, resume_run, cancel_run                                       *)
(***************************************************************************)
Ask(kind, t, r, row) ==
  /\ kind \in Requests
  /\ req[t].op = "idle"
  /\ req' = [req EXCEPT ![t] = [Idle EXCEPT !.op = kind, !.run = r, !.row = row,
                                            !.num = IF status[r] = "RUNNING" THEN 1 ELSE 0]]
  /\ UNCHANGED <<db, starting, ex, restarts>>

Move(t, op) == req' = [req EXCEPT ![t].op = op]

\* cleanup_terminal for the row, then cancel_task, which ends the executor wherever it awaits.
Halt(r) == ex' = [ex EXCEPT ![r] = NoExec]

\* The row of the current step: the first one with a terminal.
PauseRead(t, r) ==
  /\ status[r] \in Active
  /\ Ask("pause", t, r, First({k \in RowsOf(r, index[r]) : rows[r][k].term}))

\* Mutant: the terminal goes and the task is not cancelled.
PauseKeepsTask(t) ==
  /\ req[t].op = "pause"
  /\ ex' = IF req[t].num = 1 THEN [ex EXCEPT ![req[t].run].term = "removed"] ELSE ex
  /\ Move(t, "paused")
  /\ UNCHANGED <<db, starting, restarts>>

PauseHalt(t) ==
  /\ req[t].op = "pause"
  /\ IF req[t].num = 1 THEN Halt(req[t].run) ELSE UNCHANGED ex
  /\ Move(t, "paused")
  /\ UNCHANGED <<db, starting, restarts>>

\* Mutant: the status is not set.
PauseCommitRow(t) ==
  /\ req[t].op = "paused"
  /\ rows' = IF req[t].num = 1 THEN SetRow(req[t].run, req[t].row, "FAILED") ELSE rows
  /\ req' = [req EXCEPT ![t] = Idle]
  /\ UNCHANGED <<status, index, rejections, starting, ex, restarts>>

PauseCommit(t) ==
  /\ req[t].op = "paused"
  /\ rows' = IF req[t].num = 1 THEN SetRow(req[t].run, req[t].row, "FAILED") ELSE rows
  /\ status' = [status EXCEPT ![req[t].run] = "PAUSED"]
  /\ req' = [req EXCEPT ![t] = Idle]
  /\ UNCHANGED <<index, rejections, starting, ex, restarts>>

ResumeRead(t, r) == status[r] = "PAUSED" /\ Ask("resume", t, r, 0)

\* The run waits for a step; no executor is created.
ResumeCommit(t) ==
  /\ req[t].op = "resume"
  /\ status' = [status EXCEPT ![req[t].run] = "WAITING_FOR_STEP"]
  /\ req' = [req EXCEPT ![t] = Idle]
  /\ UNCHANGED <<index, rejections, rows, starting, ex, restarts>>

CancelRead(t, r) ==
  /\ status[r] = "RUNNING"
  /\ Ask("cancel", t, r,
         First({k \in DOMAIN rows[r] : rows[r][k].st = "RUNNING" /\ rows[r][k].term}))

CancelHalt(t) ==
  /\ req[t].op = "cancel"
  /\ Halt(req[t].run)
  /\ Move(t, "cancelled")
  /\ UNCHANGED <<db, starting, restarts>>

CancelCommit(t) ==
  /\ req[t].op = "cancelled"
  /\ rows' = SetRow(req[t].run, req[t].row, "FAILED")
  /\ status' = [status EXCEPT ![req[t].run] = "FAILED"]
  /\ req' = [req EXCEPT ![t] = Idle]
  /\ UNCHANGED <<index, rejections, starting, ex, restarts>>

(***************************************************************************)
(* The server stops, its terminals with it, and starts again:              *)
(* _startup_cleanup_orphaned_runs fails every run that was active.         *)
(***************************************************************************)
\* Mutant: RUNNING runs are left alone.
RestartKeepsRunning ==
  /\ restarts < MaxRestarts
  /\ restarts' = restarts + 1
  /\ status' = [r \in Runs |->
       IF status[r] \in {"WAITING_FOR_STEP", "PAUSED"} THEN "FAILED" ELSE status[r]]
  /\ starting' = {}
  /\ ex' = [r \in Runs |-> NoExec]
  /\ req' = [t \in Tasks |-> Idle]
  /\ UNCHANGED <<index, rejections, rows>>

Restart ==
  /\ restarts < MaxRestarts
  /\ restarts' = restarts + 1
  /\ status' = [r \in Runs |->
       IF status[r] \in Active \cup {"PAUSED"} THEN "FAILED" ELSE status[r]]
  /\ starting' = {}
  /\ ex' = [r \in Runs |-> NoExec]
  /\ req' = [t \in Tasks |-> Idle]
  /\ UNCHANGED <<index, rejections, rows>>

Start(r)    == StartRead(r) \/ StartCommit(r)
Run(r)      == \/ Load(r) \/ Setup(r) \/ SetupCommit(r) \/ Register(r) \/ StepRaises(r)
               \/ Wake(r) \/ RefreshRun(r) \/ RefreshStep(r)
               \/ Rejected(r) \/ Complete(r) \/ Close(r) \/ Fail(r) \/ FinalRead(r) \/ Finish(r)
Call(a, t)  == FinishCall(a, t) \/ RejectCall(a, t)
Begin(t, r) == PauseRead(t, r) \/ ResumeRead(t, r) \/ CancelRead(t, r)
Handle(t)   == \/ FinishSignal(t) \/ RejectCommit(t)
               \/ PauseHalt(t) \/ PauseCommit(t) \/ ResumeCommit(t)
               \/ CancelHalt(t) \/ CancelCommit(t)

Next ==
  \/ \E r \in Runs : Start(r) \/ Run(r) \/ SetupFails(r) \/ TermExits(r) \/ TermRemoved(r)
  \/ \E r \in Runs, t \in Tasks : Call(r, t) \/ Begin(t, r)
  \/ \E t \in Tasks : Handle(t)
  \/ Restart

\* The event loop runs every task that can go on, and an agent calls the tool some time.
Fairness ==
  /\ \A r \in Runs : WF_vars(Run(r)) /\ WF_vars(StartCommit(r))
  /\ \A r \in Runs : SF_vars(\E t \in Tasks : Call(r, t))
  /\ \A t \in Tasks : WF_vars(Handle(t))

Spec     == Init /\ [][Next]_vars
LiveSpec == Spec /\ Fairness

(***************************************************************************)
(* Properties                                                              *)
(***************************************************************************)
\* execute() and reject_step() keep the steps in order: a run that goes on, or has completed, has
\* a completed row for every step below its index, however often it went back.
StepsBelowDone ==
  \A r \in Runs : status[r] \in {"RUNNING", "COMPLETED"} =>
    \A s \in Steps : s < index[r] => \E k \in RowsOf(r, s) : rows[r][k].st = "COMPLETED"

\* reject_step: the third rejection is the last and the run does not go on after it, whatever the
\* executor, the agents and other requests have read before.  (It may still be committed as
\* COMPLETED: _finalize_run writes over a rejection that arrives after its refresh.)
RejectedOut ==
  \A r \in Runs : /\ rejections[r] <= 3
                  /\ rejections[r] = 3 => status[r] # "RUNNING"

\* pause_run, cancel_run, execute() and the startup clean-up: a RUNNING run has an executor, or
\* the request that stopped it has still to commit.
RunningIsServed ==
  \A r \in Runs : status[r] = "RUNNING" =>
    \/ r \in Executing
    \/ \E t \in Tasks : req[t].op \in {"paused", "cancelled"} /\ req[t].run = r

\* pause_run, cancel_run, Fail and the clean-up stop a run: whatever its executor was about to
\* commit and whoever calls late, no step of a run that is not RUNNING is completed.  The third
\* rejection is the exception: it cancels no executor, which learns of it from its next refresh.
StoppedStays ==
  [][\A r \in Runs : status[r] # "RUNNING" /\ rejections[r] < 3 => index'[r] <= index[r]]_vars

\* execute() comes to an end: a run does not stay RUNNING for ever.  That is so of agents that call
\* once: one that finishes and then rejects may set the run back to a step nobody works on.
RunEnds == \A r \in Runs : status[r] = "RUNNING" ~> status[r] # "RUNNING"
=============================================================================
