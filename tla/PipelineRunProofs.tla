--------------------------- MODULE PipelineRunProofs ---------------------------
(***************************************************************************)
(* Proofs about PipelineRun, for any number of steps, runs, handlers,      *)
(* calls and restarts.                                                     *)
(*                                                                         *)
(* A run becomes RUNNING only together with its executor.  The executor    *)
(* goes in two ways: it commits another status itself, or a request halts  *)
(* it and has still to commit.  _finalize_run commits nothing when it has  *)
(* read FAILED, so the invariant has to say that the run it is about to    *)
(* leave has not become RUNNING again since (FailedStays).                 *)
(*                                                                         *)
(* That the steps below the index are done (SInv) is about what has been   *)
(* read and may be out of date: the index and the row an executor works    *)
(* with (ExecOK), and the row and the target of a rejection (RejectOK).  A *)
(* rejection may set back a row that has been completed meanwhile; then    *)
(* its target is below that row's step, and the executor cannot complete   *)
(* another step before the rejection has been committed.                   *)
(*                                                                         *)
(* The rest goes over a list of what a step can be (Cases): that the third *)
(* rejection is the last, and that nothing else stops a run and leaves its *)
(* executor at work (LimitInv).                                            *)
(***************************************************************************)
EXTENDS PipelineRun, TLAPS, SequenceTheorems, WellFoundedInduction

\* The fields of an executor and of a handler, whatever they hold.
IsExec(e) ==
  e \in [at : {"off", "load", "loop", "setup", "ready", "wait", "woken", "fresh", "checked", "done", "final"},
         idx : {e.idx}, st : {e.st}, row : {e.row}, sig : {e.sig}, ok : {e.ok}, rej : {e.rej},
         term : {e.term}, calls : {e.calls}]

IsHandler(q) ==
  q \in [op : {q.op}, run : {q.run}, idx : {q.idx}, row : {q.row}, to : {q.to}, num : {q.num}]

Shape ==
  /\ status = [r \in Runs |-> status[r]]
  /\ ex = [r \in Runs |-> ex[r]] /\ \A r \in Runs : IsExec(ex[r])
  /\ req = [t \in Tasks |-> req[t]] /\ \A t \in Tasks : IsHandler(req[t])

FailedStays ==
  \A r \in Runs : ex[r].at = "final" /\ ex[r].st = "FAILED" => status[r] # "RUNNING"

IInv == Shape /\ FailedStays /\ RunningIsServed

\* A request has halted the executor of run r and has still to commit.
Halting(r, t) == req[t].op \in {"paused", "cancelled"} /\ req[t].run = r

\* What every step but a start and a restart has to keep.
LEMMA Keeps ==
  ASSUME IInv, Shape',
         \A r \in Runs : status'[r] = "RUNNING" =>
           /\ status[r] = "RUNNING"
           /\ ex[r].at # "off" => ex'[r].at # "off" \/ \E t \in Tasks : Halting(r, t)'
           /\ \A t \in Tasks : Halting(r, t) => Halting(r, t)'
           /\ ~(ex'[r].at = "final" /\ ex'[r].st = "FAILED")
  PROVE  IInv'
BY DEF IInv, FailedStays, RunningIsServed, Executing, Halting

\* The executor of run r goes on as e, and no handler moves.
LEMMA ExecutorGoesOn ==
  ASSUME IInv, NEW r \in Runs, NEW e, IsExec(e), ex' = [ex EXCEPT ![r] = e],
         UNCHANGED <<status, req>>, e.at # "off",
         e.at = "final" => e.st = status[r] \/ (ex[r].at = "final" /\ ex[r].st = e.st)
  PROVE  IInv'
<1>1. Shape' /\ ex'[r] = e /\ \A q \in Runs \ {r} : ex'[q] = ex[q]
  BY DEF IInv, Shape
<1>2. ASSUME NEW q \in Runs, status[q] = "RUNNING"
      PROVE  ~(ex'[q].at = "final" /\ ex'[q].st = "FAILED") /\ (ex[q].at # "off" => ex'[q].at # "off")
  BY <1>1, <1>2 DEF IInv, FailedStays
<1> QED
  BY <1>1, <1>2, Keeps DEF Halting

LEMMA NoneRuns == IsExec(NoExec) /\ NoExec.at = "off"
BY DEF IsExec, NoExec

LEMMA IdleHandler == IsHandler(Idle) /\ Idle.op = "idle"
BY DEF IsHandler, Idle

LEMMA ExecutorStep ==
  ASSUME IInv, NEW r \in Runs, Run(r) \/ TermExits(r) \/ TermRemoved(r) PROVE IInv'
<1> DEFINE e == ex[r]
<1>1. IsExec(e)
  BY DEF IInv, Shape
<1>2. CASE Load(r)
  <2> DEFINE f == [e EXCEPT !.at = "loop", !.idx = index[r], !.st = status[r]]
  <2>1. IsExec(f) /\ f.at = "loop"
    BY <1>1 DEF IsExec
  <2>2. ex' = [ex EXCEPT ![r] = f] /\ UNCHANGED <<status, req>>
    BY <1>2 DEF Load, db
  <2> HIDE DEF f
  <2> QED
    BY <2>1, <2>2, ExecutorGoesOn
<1>3. CASE Setup(r)
  <2> DEFINE f == [e EXCEPT !.at = "setup", !.row = LatestRow(r, e.idx), !.term = "alive"]
  <2>1. IsExec(f) /\ f.at = "setup"
    BY <1>1 DEF IsExec
  <2>2. ex' = [ex EXCEPT ![r] = f] /\ UNCHANGED <<status, req>>
    BY <1>3 DEF Setup, db
  <2> HIDE DEF f
  <2> QED
    BY <2>1, <2>2, ExecutorGoesOn
<1>4. CASE SetupCommit(r)
  <2> DEFINE f == [e EXCEPT !.at = "ready"]
  <2>1. IsExec(f) /\ f.at = "ready"
    BY <1>1 DEF IsExec
  <2>2. ex' = [ex EXCEPT ![r] = f] /\ UNCHANGED <<status, req>>
    BY <1>4 DEF SetupCommit, db
  <2> HIDE DEF f
  <2> QED
    BY <2>1, <2>2, ExecutorGoesOn
<1>5. CASE Register(r)
  <2> DEFINE f == [e EXCEPT !.at = "wait", !.sig = FALSE, !.calls = MaxCalls]
  <2>1. IsExec(f) /\ f.at = "wait"
    BY <1>1 DEF IsExec
  <2>2. ex' = [ex EXCEPT ![r] = f] /\ UNCHANGED <<status, req>>
    BY <1>5 DEF Register, db
  <2> HIDE DEF f
  <2> QED
    BY <2>1, <2>2, ExecutorGoesOn
<1>6. CASE StepRaises(r)
  <2> DEFINE f == [e EXCEPT !.at = "checked", !.ok = FALSE]
  <2>1. IsExec(f) /\ f.at = "checked"
    BY <1>1 DEF IsExec
  <2>2. ex' = [ex EXCEPT ![r] = f] /\ UNCHANGED <<status, req>>
    BY <1>6 DEF StepRaises, db
  <2> HIDE DEF f
  <2> QED
    BY <2>1, <2>2, ExecutorGoesOn
<1>7. CASE Wake(r)
  <2> DEFINE f == [e EXCEPT !.at = "woken", !.ok = e.sig, !.sig = FALSE]
  <2>1. IsExec(f) /\ f.at = "woken"
    BY <1>1 DEF IsExec
  <2>2. ex' = [ex EXCEPT ![r] = f] /\ UNCHANGED <<status, req>>
    BY <1>7 DEF Wake, db
  <2> HIDE DEF f
  <2> QED
    BY <2>1, <2>2, ExecutorGoesOn
<1>8. CASE RefreshRun(r)
  <2> DEFINE f == [e EXCEPT !.at = "fresh", !.idx = index[r], !.st = status[r]]
  <2>1. IsExec(f) /\ f.at = "fresh"
    BY <1>1 DEF IsExec
  <2>2. ex' = [ex EXCEPT ![r] = f] /\ UNCHANGED <<status, req>>
    BY <1>8 DEF RefreshRun, db
  <2> HIDE DEF f
  <2> QED
    BY <2>1, <2>2, ExecutorGoesOn
<1>9. CASE RefreshStep(r)
  <2> DEFINE f == [e EXCEPT !.at = "checked", !.rej = rows[r][e.row].st = "REJECTED"]
  <2>1. IsExec(f) /\ f.at = "checked"
    BY <1>1 DEF IsExec
  <2>2. ex' = [ex EXCEPT ![r] = f] /\ UNCHANGED <<status, req>>
    BY <1>9 DEF RefreshStep, db
  <2> HIDE DEF f
  <2> QED
    BY <2>1, <2>2, ExecutorGoesOn
<1>10. CASE Rejected(r) \/ Close(r)
  <2> DEFINE f == NextStep(r)
  <2>1. IsExec(f) /\ f.at = "loop"
    BY <1>1 DEF IsExec, NextStep
  <2>2. ex' = [ex EXCEPT ![r] = f] /\ UNCHANGED <<status, req>>
    BY <1>10 DEF Rejected, Close, db
  <2> HIDE DEF f
  <2> QED
    BY <2>1, <2>2, ExecutorGoesOn
<1>11. CASE Complete(r)
  <2> DEFINE f == [e EXCEPT !.at = "done", !.idx = @ + 1]
  <2>1. IsExec(f) /\ f.at = "done"
    BY <1>1 DEF IsExec
  <2>2. ex' = [ex EXCEPT ![r] = f] /\ UNCHANGED <<status, req>>
    BY <1>11 DEF Complete, db
  <2> HIDE DEF f
  <2> QED
    BY <2>1, <2>2, ExecutorGoesOn
<1>12. CASE FinalRead(r)
  <2> DEFINE f == [e EXCEPT !.at = "final", !.st = status[r]]
  <2>1. IsExec(f) /\ f.at = "final" /\ f.st = status[r]
    BY <1>1 DEF IsExec
  <2>2. ex' = [ex EXCEPT ![r] = f] /\ UNCHANGED <<status, req>>
    BY <1>12 DEF FinalRead, db
  <2> HIDE DEF f
  <2> QED
    BY <2>1, <2>2, ExecutorGoesOn
<1>13. CASE TermExits(r) \/ TermRemoved(r)
  <2>1. PICK w : ex' = [ex EXCEPT ![r] = [e EXCEPT !.term = w]] /\ ex[r].term = "alive" /\ UNCHANGED <<status, req>>
    BY <1>13 DEF TermExits, TermRemoved, db
  <2> DEFINE f == [e EXCEPT !.term = w]
  <2>2. IsExec(f) /\ f.at = e.at /\ f.st = e.st
    BY <1>1 DEF IsExec
  <2> HIDE DEF f
  <2>3. CASE e.at # "off"
    BY <2>1, <2>2, <2>3, ExecutorGoesOn DEF f
  <2>4. CASE e.at = "off"
    <3>1. Shape' /\ ex'[r].at = "off" /\ \A q \in Runs \ {r} : ex'[q] = ex[q]
      BY <2>1, <2>2, <2>4 DEF IInv, Shape, f
    <3> QED
      BY <2>1, <2>4, <3>1, Keeps DEF Halting, IInv, FailedStays
  <2> QED
    BY <2>3, <2>4
<1>14. CASE Fail(r) \/ Finish(r)
  <2>1. ex' = [ex EXCEPT ![r] = NoExec] /\ UNCHANGED req
    BY <1>14 DEF Fail, Finish
  <2>2. Shape' /\ ex'[r] = NoExec /\ \A q \in Runs \ {r} : ex'[q] = ex[q] /\ status'[q] = status[q]
    BY <1>14, <2>1, NoneRuns DEF IInv, Shape, Fail, Finish
  <2>3. status'[r] # "RUNNING"
    BY <1>14 DEF Fail, Finish, IInv, Shape, FailedStays
  <2> QED
    BY <2>1, <2>2, <2>3, Keeps DEF Halting, IInv, FailedStays
<1> QED
  BY <1>2, <1>3, <1>4, <1>5, <1>6, <1>7, <1>8, <1>9, <1>10, <1>11, <1>12, <1>13, <1>14 DEF Run

\* A start, a failed set-up and a restart.
LEMMA ServerStep ==
  ASSUME IInv, (\E r \in Runs : Start(r) \/ SetupFails(r)) \/ Restart PROVE IInv'
<1>1. ASSUME NEW r \in Runs, StartRead(r) PROVE IInv'
  BY <1>1 DEF StartRead, db, IInv, Shape, FailedStays, RunningIsServed, Executing
<1>2. ASSUME NEW r \in Runs, StartCommit(r) PROVE IInv'
  <2> DEFINE f == [NoExec EXCEPT !.at = "load"]
  <2>1. IsExec(f) /\ f.at = "load"
    BY DEF IsExec, NoExec
  <2>2. ex' = [ex EXCEPT ![r] = f] /\ status' = [status EXCEPT ![r] = "RUNNING"] /\ UNCHANGED req
    BY <1>2 DEF StartCommit
  <2> HIDE DEF f
  <2>3. /\ Shape' /\ ex'[r] = f
        /\ \A q \in Runs \ {r} : ex'[q] = ex[q] /\ status'[q] = status[q]
    BY <2>1, <2>2 DEF IInv, Shape
  <2>4. FailedStays'
    BY <2>1, <2>3 DEF IInv, FailedStays
  <2>5. RunningIsServed'
    BY <2>1, <2>2, <2>3 DEF IInv, RunningIsServed, Executing
  <2> QED
    BY <2>3, <2>4, <2>5 DEF IInv
<1>3. ASSUME NEW r \in Runs, SetupFails(r) PROVE IInv'
  <2>1. /\ ex' = [ex EXCEPT ![r] = NoExec] /\ status' = [status EXCEPT ![r] = "FAILED"] /\ UNCHANGED req
    BY <1>3 DEF SetupFails
  <2>2. /\ Shape' /\ status'[r] = "FAILED"
        /\ \A q \in Runs \ {r} : ex'[q] = ex[q] /\ status'[q] = status[q]
    BY <2>1, NoneRuns DEF IInv, Shape
  <2> QED
    BY <2>1, <2>2, Keeps DEF Halting, IInv, FailedStays
<1>4. ASSUME Restart PROVE IInv'
  <2>1. /\ \A r \in Runs : status'[r] # "RUNNING"
        /\ status' = [r \in Runs |-> status'[r]]
    BY <1>4 DEF Restart, Active
  <2>2. Shape'
    BY <1>4, <2>1, NoneRuns, IdleHandler DEF Restart, Shape
  <2> QED
    BY <2>1, <2>2, Keeps
<1> QED
  BY <1>1, <1>2, <1>3, <1>4 DEF Start

\* A handler that reads, or an agent that calls: the slot was idle.
LEMMA RequestStep ==
  ASSUME IInv, NEW r \in Runs, NEW t \in Tasks, Call(r, t) \/ Begin(t, r) PROVE IInv'
<1>1. ASSUME req[t].op = "idle", NEW q, IsHandler(q), req' = [req EXCEPT ![t] = q],
             UNCHANGED status, ex' = [x \in Runs |-> ex'[x]],
             \A x \in Runs : IsExec(ex'[x]) /\ ex'[x].at = ex[x].at /\ ex'[x].st = ex[x].st
      PROVE  IInv'
  <2>1. Shape' /\ \A u \in Tasks \ {t} : req'[u] = req[u]
    BY <1>1 DEF IInv, Shape
  <2> QED
    BY <1>1, <2>1, Keeps DEF Halting, IInv, FailedStays
<1>2. CASE Call(r, t)
  <2>1. PICK q : Called(r, t, q) /\ IsHandler(q) /\ req[t].op = "idle"
    BY <1>2 DEF Call, FinishCall, RejectCall, Calls, IsHandler, Idle
  <2>2. UNCHANGED status /\ req' = [req EXCEPT ![t] = q]
    BY <2>1 DEF Called, db
  <2> DEFINE f == [ex[r] EXCEPT !.calls = @ - 1]
  <2>3. IsExec(f) /\ f.at = ex[r].at /\ f.st = ex[r].st
    BY DEF IInv, Shape, IsExec
  <2>4. ex' = [ex EXCEPT ![r] = f]
    BY <2>1 DEF Called
  <2> HIDE DEF f
  <2>5. /\ ex' = [x \in Runs |-> ex'[x]]
        /\ \A x \in Runs : IsExec(ex'[x]) /\ ex'[x].at = ex[x].at /\ ex'[x].st = ex[x].st
    BY <2>3, <2>4 DEF IInv, Shape
  <2> QED
    BY <1>1, <2>1, <2>2, <2>5
<1>3. CASE Begin(t, r)
  <2>1. PICK q : IsHandler(q) /\ req[t].op = "idle" /\ req' = [req EXCEPT ![t] = q] /\ UNCHANGED <<status, ex>>
    <3>1. PICK kind, row : Ask(kind, t, r, row)
      BY <1>3 DEF Begin, PauseRead, ResumeRead, CancelRead
    <3> DEFINE q == [Idle EXCEPT !.op = kind, !.run = r, !.row = row,
                                 !.num = IF status[r] = "RUNNING" THEN 1 ELSE 0]
    <3>2. IsHandler(q)
      BY DEF IsHandler, Idle
    <3>3. req[t].op = "idle" /\ req' = [req EXCEPT ![t] = q] /\ UNCHANGED <<status, ex>>
      BY <3>1 DEF Ask, db
    <3> QED
      BY <3>2, <3>3
  <2> QED
    BY <1>1, <2>1 DEF IInv, Shape
<1> QED
  BY <1>2, <1>3

\* set_step_completed leaves the executor where it is.
LEMMA Signals ==
  ASSUME Shape, NEW r, NEW i, ex' = Signalled(r, i)
  PROVE  /\ ex' = [x \in Runs |-> ex'[x]]
         /\ \A x \in Runs : IsExec(ex'[x]) /\ ex'[x].at = ex[x].at /\ ex'[x].st = ex[x].st
<1>1. CASE ex' = ex
  BY <1>1 DEF Shape
<1>2. CASE ex' = [ex EXCEPT ![r] = [ex[r] EXCEPT !.sig = TRUE]]
  <2>1. ASSUME NEW x \in Runs
        PROVE  LET f == [ex[x] EXCEPT !.sig = TRUE]
               IN  IsExec(f) /\ f.at = ex[x].at /\ f.st = ex[x].st
    BY DEF Shape, IsExec
  <2>2. \A x \in Runs : ex'[x] = ex[x] \/ (x = r /\ ex'[x] = [ex[x] EXCEPT !.sig = TRUE])
    BY <1>2 DEF Shape
  <2>3. ex' = [x \in Runs |-> ex'[x]]
    BY <1>2 DEF Shape
  <2> QED
    BY <2>1, <2>2, <2>3 DEF Shape
<1> QED
  BY <1>1, <1>2 DEF Signalled

LEMMA HandlerStep ==
  ASSUME IInv, NEW t \in Tasks, Handle(t) PROVE IInv'
<1> DEFINE h == req[t]
<1>1. IsHandler(h)
  BY DEF IInv, Shape
<1>2. CASE FinishSignal(t) \/ RejectCommit(t)
  <2>1. PICK q : IsHandler(q) /\ req' = [req EXCEPT ![t] = q] /\ h.op \in {"finish", "reject"}
    BY <1>2 DEF FinishSignal, RejectCommit, IsHandler, Idle
  <2>2. PICK n, k : ex' = Signalled(n, k)
    BY <1>2 DEF FinishSignal, RejectCommit
  <2>3. /\ status' = [r \in Runs |-> status'[r]]
        /\ \A r \in Runs : status'[r] = "RUNNING" => status[r] = "RUNNING"
    BY <1>2 DEF FinishSignal, RejectCommit, db, IInv, Shape
  <2>4. /\ ex' = [x \in Runs |-> ex'[x]]
        /\ \A x \in Runs : IsExec(ex'[x]) /\ ex'[x].at = ex[x].at /\ ex'[x].st = ex[x].st
    BY <2>2, Signals DEF IInv
  <2>5. Shape' /\ \A u \in Tasks \ {t} : req'[u] = req[u]
    BY <2>1, <2>3, <2>4 DEF IInv, Shape
  <2> QED
    BY <2>1, <2>3, <2>4, <2>5, Keeps DEF Halting, IInv, FailedStays
<1>3. ASSUME NEW op \in {"paused", "cancelled"}, Move(t, op), h.op \notin {"paused", "cancelled"},
             Halt(h.run) \/ UNCHANGED ex, UNCHANGED status
      PROVE  IInv'
  <2> DEFINE q(k) == [k EXCEPT !.op = op]
  <2>1. IsHandler(q(h)) /\ q(h).op = op /\ q(h).run = h.run
    BY <1>1 DEF IsHandler
  <2>2. req' = [req EXCEPT ![t] = q(h)]
    BY <1>3 DEF Move
  <2> HIDE DEF q
  <2>3. req'[t] = q(h) /\ req' = [u \in Tasks |-> req'[u]] /\ \A u \in Tasks \ {t} : req'[u] = req[u]
    BY <2>2 DEF IInv, Shape
  <2>4. /\ ex' = [x \in Runs |-> ex'[x]]
        /\ \A x \in Runs : ex'[x] = ex[x] \/ (x = h.run /\ ex'[x] = NoExec)
    BY <1>3 DEF Halt, IInv, Shape
  <2>5. Shape'
    BY <1>3, <2>1, <2>3, <2>4, NoneRuns DEF IInv, Shape
  <2>6. \A x \in Runs : x = h.run => Halting(x, t)'
    BY <2>1, <2>3 DEF Halting
  <2>7. \A x \in Runs, u \in Tasks : Halting(x, u) => Halting(x, u)'
    BY <1>3, <2>3 DEF Halting
  <2> QED
    BY <1>3, <2>4, <2>5, <2>6, <2>7, NoneRuns, Keeps DEF IInv, FailedStays
<1>4. CASE PauseHalt(t) \/ CancelHalt(t)
  BY <1>3, <1>4 DEF PauseHalt, CancelHalt, db
<1>5. CASE PauseCommit(t) \/ ResumeCommit(t) \/ CancelCommit(t)
  <2>1. PICK st \in {"PAUSED", "WAITING_FOR_STEP", "FAILED"} : status' = [status EXCEPT ![h.run] = st]
    BY <1>5 DEF PauseCommit, ResumeCommit, CancelCommit
  <2>2. req' = [req EXCEPT ![t] = Idle] /\ UNCHANGED ex
    BY <1>5 DEF PauseCommit, ResumeCommit, CancelCommit
  <2>3. /\ status' = [r \in Runs |-> status'[r]]
        /\ \A r \in Runs : status'[r] = "RUNNING" => status[r] = "RUNNING" /\ r # h.run
    BY <2>1 DEF IInv, Shape
  <2>4. Shape' /\ \A u \in Tasks \ {t} : req'[u] = req[u]
    BY <2>2, <2>3, IdleHandler DEF IInv, Shape
  <2> QED
    BY <2>2, <2>3, <2>4, Keeps DEF Halting, IInv, FailedStays
<1> QED
  BY <1>2, <1>4, <1>5 DEF Handle

LEMMA InitInv == Init => IInv
BY NoneRuns, IdleHandler DEF Init, IInv, Shape, FailedStays, RunningIsServed

LEMMA NextInv == IInv /\ [Next]_vars => IInv'
<1> SUFFICES ASSUME IInv, [Next]_vars PROVE IInv'
  OBVIOUS
<1>1. CASE UNCHANGED vars
  BY <1>1 DEF vars, db, IInv, Shape, FailedStays, RunningIsServed, Executing
<1>2. CASE Next
  BY <1>2, ExecutorStep, ServerStep, RequestStep, HandlerStep DEF Next
<1> QED
  BY <1>1, <1>2

\* IInv holds in every reachable state.
THEOREM Invariant == Spec => []IInv
BY InitInv, NextInv, PTL DEF Spec

\* A RUNNING run has an executor, or the request that halted it has still to commit: for any
\* number of runs of the issue, of overlapping requests and of restarts, none is left behind.
THEOREM RunsAreServed == Spec => []RunningIsServed
<1>1. IInv => RunningIsServed
  BY DEF IInv
<1> QED
  BY <1>1, Invariant, PTL

(***************************************************************************)
(* The rows of a run                                                       *)
(***************************************************************************)
LEMMA Least == ASSUME NEW S \in SUBSET Nat, S # {} PROVE \E k \in S : \A j \in S : k <= j
<1> DEFINE R == OpToRel(<, Nat)
<1>1. \A i, j \in Nat : j < i => <<j, i>> \in R
  BY DEF OpToRel
<1>2. IsWellFoundedOn(R, Nat)
  BY NatLessThanWellFounded
<1> HIDE DEF R
<1>3. PICK k \in S : \A j \in S : ~ (<<j, k>> \in R)
  BY <1>2, WFMin
<1>4. \A j \in S : ~ (j < k)
  BY <1>1, <1>3
<1> QED
  BY <1>4

LEMMA FirstIs == ASSUME NEW S \in SUBSET Nat PROVE First(S) = 0 \/ First(S) \in S
BY Least DEF First

LEMMA LastIs == ASSUME NEW n \in Nat, NEW S \in SUBSET (1..n), S # {} PROVE Last(S) \in S
<1> DEFINE T == {n - k : k \in S}
<1>1. T \in SUBSET Nat /\ T # {}
  <2>1. \A k \in S : n - k \in Nat
    OBVIOUS
  <2> QED
    BY <2>1
<1>2. PICK d \in T : \A e \in T : d <= e
  <2> HIDE DEF T
  <2> QED
    BY <1>1, Least
<1>3. PICK k \in S : d = n - k
  BY <1>2
<1>4. ASSUME NEW j \in S PROVE k >= j
  <2>1. d <= n - j
    BY <1>2
  <2> QED
    BY <2>1, <1>3
<1> QED
  BY <1>4 DEF Last

Row == [step : Nat, st : {"PENDING", "RUNNING", "COMPLETED", "FAILED", "REJECTED"}, term : BOOLEAN]

RowsOK == rows = [r \in Runs |-> rows[r]] /\ \A r \in Runs : rows[r] \in Seq(Row)

Done(r, s)    == \E k \in RowsOf(r, s) : rows[r][k].st = "COMPLETED"
AllDone(r, n) == \A s \in Nat : s < n => Done(r, s)

\* Row k of run r is now `st`; rows may have been added to the run.
Marks(r, k, st) ==
  /\ RowsOK'
  /\ \A q \in Runs \ {r} : rows'[q] = rows[q]
  /\ DOMAIN rows[r] \subseteq DOMAIN rows'[r]
  /\ \A j \in DOMAIN rows[r] :
       /\ rows'[r][j].step = rows[r][j].step
       /\ rows'[r][j].st = IF j = k THEN st ELSE rows[r][j].st

LEMMA SetMarks ==
  ASSUME RowsOK, NEW r \in Runs, NEW k \in DOMAIN rows[r], NEW w \in Row, w.step = rows[r][k].step,
         rows' = [rows EXCEPT ![r] = [@ EXCEPT ![k] = w]]
  PROVE  Marks(r, k, w.st)
<1> DEFINE s == rows[r]
<1>1. s \in Seq(Row) /\ k \in 1..Len(s)
  BY DEF RowsOK
<1>2. /\ [s EXCEPT ![k] = w] \in Seq(Row)
      /\ Len([s EXCEPT ![k] = w]) = Len(s)
      /\ \A j \in 1..Len(s) : [s EXCEPT ![k] = w][j] = IF j = k THEN w ELSE s[j]
  BY <1>1, ExceptSeq
<1>3. /\ rows'[r] = [s EXCEPT ![k] = w] /\ rows' = [q \in Runs |-> rows'[q]]
      /\ \A q \in Runs \ {r} : rows'[q] = rows[q]
  BY DEF RowsOK
<1>4. DOMAIN rows'[r] = DOMAIN s /\ DOMAIN s = 1..Len(s)
  BY <1>1, <1>2, <1>3
<1>5. RowsOK'
  BY <1>2, <1>3 DEF RowsOK
<1> QED
  BY <1>2, <1>3, <1>4, <1>5 DEF Marks

\* What a mark leaves done.
LEMMA Marked ==
  ASSUME NEW r \in Runs, NEW k \in DOMAIN rows[r], NEW st, Marks(r, k, st)
  PROVE  /\ \A q \in Runs, s \in Nat : RowsOf(q, s) \subseteq RowsOf(q, s)'
         /\ \A q \in Runs, s \in Nat :
              Done(q, s) /\ ~(q = r /\ s = rows[r][k].step /\ rows[r][k].st = "COMPLETED") => Done(q, s)'
         /\ st = "COMPLETED" => /\ \A q \in Runs, s \in Nat : Done(q, s) => Done(q, s)'
                                /\ \A s \in Nat : s = rows[r][k].step => Done(r, s)'
<1>1. \A q \in Runs, s \in Nat : RowsOf(q, s) \subseteq RowsOf(q, s)'
  BY DEF Marks, RowsOf
<1>2. ASSUME NEW q \in Runs, NEW s \in Nat, NEW j \in RowsOf(q, s), rows[q][j].st = "COMPLETED",
             q # r \/ j # k \/ st = "COMPLETED"
      PROVE  Done(q, s)'
  BY <1>1, <1>2 DEF Marks, RowsOf, Done
<1>3. ASSUME st = "COMPLETED", NEW s \in Nat, s = rows[r][k].step PROVE Done(r, s)'
  BY <1>3 DEF Marks, Done, RowsOf
<1>4. \A q \in Runs, s \in Nat : \A j \in RowsOf(q, s) : q = r /\ j = k => s = rows[r][k].step
  BY DEF RowsOf
<1> QED
  BY <1>1, <1>2, <1>3, <1>4 DEF Done

(***************************************************************************)
(* The steps below the index                                               *)
(***************************************************************************)
Calling(t)  == req[t].op \in {"finish", "reject"}
Going(r)    == status[r] \in {"RUNNING", "COMPLETED"} \/ ex[r].at # "off"
Halted(q)   == q.op = "cancelled" \/ (q.op = "paused" /\ q.num = 1)

\* The agent's success has been signalled, and the step is still to be completed.
Succeeds(e) == e.sig \/ (e.at \in {"woken", "fresh", "checked"} /\ e.ok)

\* What the executor e of run r has read may be older than the tables.  A rejection since then
\* has moved the index to a step that is done.
ExecOK(r, e) ==
  /\ e.sig => e.at = "wait"
  /\ e.at \notin {"off", "load"} =>
       /\ e.idx \in Nat /\ index[r] <= e.idx
       /\ index[r] < e.idx => Done(r, index[r])
  /\ e.at \in {"setup", "ready", "wait", "woken"} => e.row \in RowsOf(r, e.idx)
  /\ e.at \in {"fresh", "checked"} =>
       /\ e.row \in DOMAIN rows[r] /\ e.idx <= rows[r][e.row].step
       /\ e.ok => AllDone(r, e.idx) /\ (e.idx < rows[r][e.row].step => Done(r, e.idx))

RunOK(r) ==
  /\ index[r] \in Nat
  /\ r \in starting => status[r] = "NONE"
  /\ status[r] = "NONE" => index[r] = 0 /\ ex[r].at = "off"
  /\ ex[r].at # "off" => \A s \in Steps : RowsOf(r, s) # {}
  /\ ExecOK(r, ex[r])
  /\ Going(r) => AllDone(r, index[r])

\* The row a rejection has read may have been completed since, but not while it is served a
\* second time: no agent calls before the rejection has been committed.
RejectOK(q) ==
  /\ q.to \in Nat /\ q.to < index[q.run] /\ q.row \in DOMAIN rows[q.run]
  /\ rows[q.run][q.row].st = "COMPLETED" => q.to < rows[q.run][q.row].step /\ ~Succeeds(ex[q.run])

HandlerOK(q) ==
  q.op # "idle" =>
    /\ q.run \in Runs /\ status[q.run] # "NONE"
    /\ q.op \in {"pause", "paused", "cancel", "cancelled"} => q.row \in {0} \cup DOMAIN rows[q.run]
    /\ Halted(q) => ex[q.run].at = "off"
    /\ q.op = "reject" => RejectOK(q)

OneCall == \A t, u \in Tasks : Calling(t) /\ Calling(u) => t = u

SInv == /\ RowsOK /\ index = [r \in Runs |-> index[r]]
        /\ \A r \in Runs : RunOK(r)
        /\ \A t \in Tasks : HandlerOK(req[t])
        /\ OneCall

Same(r) == /\ status'[r] = status[r] /\ index'[r] = index[r] /\ rows'[r] = rows[r]
           /\ ex'[r] = ex[r] /\ (r \in starting' <=> r \in starting)

LEMMA SameDone ==
  ASSUME NEW r, rows'[r] = rows[r]
  PROVE  /\ \A s : RowsOf(r, s)' = RowsOf(r, s) /\ Done(r, s)' = Done(r, s)
         /\ \A n : AllDone(r, n)' = AllDone(r, n)
<1>1. \A s : RowsOf(r, s)' = RowsOf(r, s)
  BY DEF RowsOf
<1>2. \A s : Done(r, s)' = Done(r, s)
  BY <1>1 DEF Done
<1> QED
  BY <1>1, <1>2 DEF AllDone

LEMMA SameRun == ASSUME NEW r, Same(r), RunOK(r) PROVE RunOK(r)'
<1>1. Going(r)' = Going(r) /\ AllDone(r, index[r])' = AllDone(r, index[r])
  BY SameDone DEF Same, Going, AllDone
<1>2. ExecOK(r, ex[r])'
  BY SameDone DEF Same, RunOK, ExecOK, AllDone
<1> QED
  BY <1>1, <1>2, SameDone DEF RunOK, Same

LEMMA SameHandler == ASSUME NEW q, q.op # "idle" => Same(q.run), HandlerOK(q) PROVE HandlerOK(q)'
BY DEF HandlerOK, RejectOK, Same, Halted, Succeeds

\* A step that is about run r: its own conditions, and those of the handlers.
LEMMA OneRun ==
  ASSUME SInv, NEW r \in Runs, RowsOK', index' = [q \in Runs |-> index'[q]],
         \A q \in Runs \ {r} : Same(q), RunOK(r)',
         \A t \in Tasks : HandlerOK(req[t])' \/ (req'[t] = req[t] /\ req[t].run # r),
         OneCall'
  PROVE  SInv'
<1>1. \A q \in Runs : RunOK(q)'
  BY SameRun DEF SInv
<1>2. ASSUME NEW t \in Tasks, req'[t] = req[t], req[t].run # r PROVE HandlerOK(req[t])'
  <2> DEFINE h == req[t]
  <2>1. HandlerOK(h) /\ (h.op # "idle" => h.run \in Runs)
    BY DEF SInv, HandlerOK
  <2>2. h.op # "idle" => Same(h.run)
    BY <2>1, <1>2
  <2> QED
    BY <2>1, <2>2, <1>2 DEF HandlerOK, RejectOK, Same, Halted, Succeeds
<1> QED
  BY <1>1, <1>2 DEF SInv

\* The executor of run r goes on as e, and the tables stay as they are.
LEMMA ExecutorMoves ==
  ASSUME Shape, SInv, NEW r \in Runs, NEW e, ex' = [ex EXCEPT ![r] = e],
         UNCHANGED <<db, starting, req>>, ex[r].at # "off", e.at # "off",
         ExecOK(r, e), Succeeds(e) => Succeeds(ex[r])
  PROVE  SInv'
<1>1. ex'[r] = e /\ \A q \in Runs \ {r} : Same(q)
  BY DEF Shape, db, Same
<1>2. /\ UNCHANGED <<status, index, rows, starting, req>>
      /\ \A q \in Runs : \A s : RowsOf(q, s)' = RowsOf(q, s) /\ Done(q, s)' = Done(q, s)
      /\ \A q \in Runs : \A n : AllDone(q, n)' = AllDone(q, n)
  BY SameDone DEF db
<1>3. ExecOK(r, ex[r])'
  BY <1>1, <1>2 DEF ExecOK
<1>4. Going(r) /\ RunOK(r)
  BY DEF Going, SInv
<1>5. RunOK(r)'
  <2>1. AllDone(r, index[r])'
    BY <1>2, <1>4 DEF RunOK
  <2> QED
    BY <1>1, <1>2, <1>3, <1>4, <2>1 DEF RunOK
<1>6. ASSUME NEW t \in Tasks, req[t].run = r PROVE HandlerOK(req[t])'
  BY <1>1, <1>2, <1>6 DEF SInv, HandlerOK, RejectOK, Halted, Succeeds
<1>7. RowsOK' /\ index' = [q \in Runs |-> index'[q]] /\ OneCall'
  BY <1>2 DEF SInv, RowsOK, OneCall, Calling
<1> QED
  BY <1>1, <1>2, <1>5, <1>6, <1>7, OneRun

\* A row exists for the step the executor is about to set up.
LEMMA RowOfStep ==
  ASSUME RowsOK, NEW r \in Runs, NEW s \in Nat, RowsOf(r, s) # {}
  PROVE  LatestRow(r, s) \in RowsOf(r, s)
<1>1. Len(rows[r]) \in Nat /\ RowsOf(r, s) \in SUBSET (1..Len(rows[r]))
  BY DEF RowsOK, RowsOf
<1> QED
  BY <1>1, LastIs DEF LatestRow

LEMMA LoopRow ==
  ASSUME SInv, NEW r \in Runs, InLoop(r)
  PROVE  ex[r].idx \in Steps /\ LatestRow(r, ex[r].idx) \in RowsOf(r, ex[r].idx)
<1>1. ex[r].idx \in Nat /\ ex[r].idx < NSteps /\ NSteps \in Nat /\ \A s \in Steps : RowsOf(r, s) # {}
  BY RunAssumption DEF InLoop, SInv, RunOK, ExecOK
<1> QED
  BY <1>1, RowOfStep DEF Steps, SInv

\* The executor reads, awaits and is waked; its terminal comes and goes.
LEMMA ExecutorReads ==
  ASSUME Shape, SInv, NEW r \in Runs,
         \/ Load(r) \/ Setup(r) \/ Register(r) \/ StepRaises(r) \/ Wake(r)
         \/ RefreshRun(r) \/ RefreshStep(r) \/ Rejected(r) \/ Close(r) \/ FinalRead(r)
  PROVE  SInv'
<1> DEFINE e == ex[r]
<1>1. IsExec(e) /\ ExecOK(r, e)
  BY DEF Shape, SInv, RunOK
<1>2. index[r] \in Nat
  BY DEF SInv, RunOK
<1>3. CASE Load(r)
  <2> DEFINE f == [e EXCEPT !.at = "loop", !.idx = index[r], !.st = status[r]]
  <2>1. ex' = [ex EXCEPT ![r] = f] /\ UNCHANGED <<db, starting, req>> /\ e.at = "load"
    BY <1>3 DEF Load
  <2>2. f.at = "loop" /\ f.idx = index[r] /\ f.sig = e.sig
    BY <1>1 DEF IsExec
  <2>3. ExecOK(r, f) /\ (Succeeds(f) => Succeeds(e))
    BY <1>1, <1>2, <2>1, <2>2 DEF ExecOK, Succeeds
  <2> HIDE DEF f
  <2> QED
    BY <2>1, <2>2, <2>3, ExecutorMoves
<1>4. CASE Setup(r)
  <2> DEFINE f == [e EXCEPT !.at = "setup", !.row = LatestRow(r, e.idx), !.term = "alive"]
  <2>1. ex' = [ex EXCEPT ![r] = f] /\ UNCHANGED <<db, starting, req>> /\ e.at = "loop"
    BY <1>4 DEF Setup, InLoop
  <2>2. f.at = "setup" /\ f.idx = e.idx /\ f.sig = e.sig /\ f.row = LatestRow(r, e.idx)
    BY <1>1 DEF IsExec
  <2>3. ExecOK(r, f) /\ (Succeeds(f) => Succeeds(e))
    BY <1>1, <1>4, <2>1, <2>2, LoopRow DEF ExecOK, Succeeds, Setup
  <2> HIDE DEF f
  <2> QED
    BY <2>1, <2>2, <2>3, ExecutorMoves
<1>5. CASE Register(r)
  <2> DEFINE f == [e EXCEPT !.at = "wait", !.sig = FALSE, !.calls = MaxCalls]
  <2>1. ex' = [ex EXCEPT ![r] = f] /\ UNCHANGED <<db, starting, req>> /\ e.at = "ready"
    BY <1>5 DEF Register
  <2>2. f.at = "wait" /\ f.idx = e.idx /\ f.sig = FALSE /\ f.row = e.row
    BY <1>1 DEF IsExec
  <2>3. ExecOK(r, f) /\ (Succeeds(f) => Succeeds(e))
    BY <1>1, <2>1, <2>2 DEF ExecOK, Succeeds
  <2> HIDE DEF f
  <2> QED
    BY <2>1, <2>2, <2>3, ExecutorMoves
<1>6. CASE StepRaises(r)
  <2> DEFINE f == [e EXCEPT !.at = "checked", !.ok = FALSE]
  <2>1. ex' = [ex EXCEPT ![r] = f] /\ UNCHANGED <<db, starting, req>> /\ e.at = "ready"
    BY <1>6 DEF StepRaises
  <2>2. f.at = "checked" /\ f.idx = e.idx /\ f.sig = e.sig /\ f.row = e.row /\ f.ok = FALSE
    BY <1>1 DEF IsExec
  <2>3. ExecOK(r, f) /\ (Succeeds(f) => Succeeds(e))
    BY <1>1, <2>1, <2>2 DEF ExecOK, Succeeds, RowsOf
  <2> HIDE DEF f
  <2> QED
    BY <2>1, <2>2, <2>3, ExecutorMoves
<1>7. CASE Wake(r)
  <2> DEFINE f == [e EXCEPT !.at = "woken", !.ok = e.sig, !.sig = FALSE]
  <2>1. ex' = [ex EXCEPT ![r] = f] /\ UNCHANGED <<db, starting, req>> /\ e.at = "wait"
    BY <1>7 DEF Wake
  <2>2. f.at = "woken" /\ f.idx = e.idx /\ f.sig = FALSE /\ f.row = e.row /\ f.ok = e.sig
    BY <1>1 DEF IsExec
  <2>3. ExecOK(r, f) /\ (Succeeds(f) => Succeeds(e))
    BY <1>1, <2>1, <2>2 DEF ExecOK, Succeeds
  <2> HIDE DEF f
  <2> QED
    BY <2>1, <2>2, <2>3, ExecutorMoves
<1>8. CASE RefreshRun(r)
  <2> DEFINE f == [e EXCEPT !.at = "fresh", !.idx = index[r], !.st = status[r]]
  <2>1. ex' = [ex EXCEPT ![r] = f] /\ UNCHANGED <<db, starting, req>> /\ e.at = "woken"
    BY <1>8 DEF RefreshRun
  <2>2. f.at = "fresh" /\ f.idx = index[r] /\ f.sig = e.sig /\ f.row = e.row /\ f.ok = e.ok
    BY <1>1 DEF IsExec
  <2>3. AllDone(r, index[r])
    BY <2>1 DEF SInv, RunOK, Going
  <2>4. e.row \in DOMAIN rows[r] /\ rows[r][e.row].step = e.idx
    BY <1>1, <2>1 DEF ExecOK, RowsOf
  <2>5. ExecOK(r, f) /\ (Succeeds(f) => Succeeds(e))
    BY <1>1, <1>2, <2>1, <2>2, <2>3, <2>4 DEF ExecOK, Succeeds
  <2> HIDE DEF f
  <2> QED
    BY <2>1, <2>2, <2>5, ExecutorMoves
<1>9. CASE RefreshStep(r)
  <2> DEFINE f == [e EXCEPT !.at = "checked", !.rej = rows[r][e.row].st = "REJECTED"]
  <2>1. ex' = [ex EXCEPT ![r] = f] /\ UNCHANGED <<db, starting, req>> /\ e.at = "fresh"
    BY <1>9 DEF RefreshStep
  <2>2. f.at = "checked" /\ f.idx = e.idx /\ f.sig = e.sig /\ f.row = e.row /\ f.ok = e.ok
    BY <1>1 DEF IsExec
  <2>3. ExecOK(r, f) /\ (Succeeds(f) => Succeeds(e))
    BY <1>1, <2>1, <2>2 DEF ExecOK, Succeeds
  <2> HIDE DEF f
  <2> QED
    BY <2>1, <2>2, <2>3, ExecutorMoves
<1>10. CASE Rejected(r) \/ Close(r)
  <2> DEFINE f == NextStep(r)
  <2>1. ex' = [ex EXCEPT ![r] = f] /\ UNCHANGED <<db, starting, req>> /\ e.at \in {"checked", "done"}
    BY <1>10 DEF Rejected, Close
  <2>2. f.at = "loop" /\ f.idx = e.idx /\ f.sig = e.sig
    BY <1>1 DEF IsExec, NextStep
  <2>3. ExecOK(r, f) /\ (Succeeds(f) => Succeeds(e))
    BY <1>1, <2>1, <2>2 DEF ExecOK, Succeeds
  <2> HIDE DEF f
  <2> QED
    BY <2>1, <2>2, <2>3, ExecutorMoves
<1>11. CASE FinalRead(r)
  <2> DEFINE f == [e EXCEPT !.at = "final", !.st = status[r]]
  <2>1. ex' = [ex EXCEPT ![r] = f] /\ UNCHANGED <<db, starting, req>> /\ e.at = "loop"
    BY <1>11 DEF FinalRead
  <2>2. f.at = "final" /\ f.idx = e.idx /\ f.sig = e.sig
    BY <1>1 DEF IsExec
  <2>3. ExecOK(r, f) /\ (Succeeds(f) => Succeeds(e))
    BY <1>1, <2>1, <2>2 DEF ExecOK, Succeeds
  <2> HIDE DEF f
  <2> QED
    BY <2>1, <2>2, <2>3, ExecutorMoves
<1> QED
  BY <1>3, <1>4, <1>5, <1>6, <1>7, <1>8, <1>9, <1>10, <1>11

\* An executor as far as the steps are concerned.
Like(e, f) == f.at = e.at /\ f.idx = e.idx /\ f.row = e.row /\ f.sig = e.sig /\ f.ok = e.ok

LEMMA LikeBefore ==
  ASSUME SInv, UNCHANGED <<db, starting>>, \A r \in Runs : Like(ex[r], ex'[r])
  PROVE  /\ RowsOK' /\ index' = [r \in Runs |-> index'[r]] /\ \A r \in Runs : RunOK(r)'
         /\ \A q : HandlerOK(q) => HandlerOK(q)'
<1>1. /\ UNCHANGED <<status, index, rows, starting>>
      /\ \A q \in Runs : \A s : RowsOf(q, s)' = RowsOf(q, s) /\ Done(q, s)' = Done(q, s)
      /\ \A q \in Runs : \A n : AllDone(q, n)' = AllDone(q, n)
  BY SameDone DEF db
<1>2. ASSUME NEW r \in Runs PROVE RunOK(r)'
  <2>1. RunOK(r) /\ Like(ex[r], ex'[r])
    BY DEF SInv
  <2>2. ExecOK(r, ex[r])'
    BY <1>1, <2>1 DEF RunOK, ExecOK, Like
  <2>3. Going(r)' = Going(r) /\ AllDone(r, index[r])' = AllDone(r, index[r])
    BY <1>1, <2>1 DEF Going, Like, AllDone
  <2> QED
    BY <1>1, <2>1, <2>2, <2>3 DEF RunOK, Like
<1>3. ASSUME NEW q, HandlerOK(q) PROVE HandlerOK(q)'
  <2>1. q.op # "idle" => Like(ex[q.run], ex'[q.run])
    BY <1>3 DEF HandlerOK
  <2> QED
    BY <1>1, <1>3, <2>1 DEF HandlerOK, RejectOK, Halted, Succeeds, Like
<1> QED
  BY <1>1, <1>2, <1>3 DEF SInv, RowsOK

LEMMA TerminalGoes ==
  ASSUME Shape, SInv, NEW r \in Runs, TermExits(r) \/ TermRemoved(r) PROVE SInv'
<1>1. PICK w : ex' = [ex EXCEPT ![r] = [ex[r] EXCEPT !.term = w]] /\ UNCHANGED <<db, starting, req>>
  BY DEF TermExits, TermRemoved
<1>2. \A q \in Runs : Like(ex[q], ex'[q])
  <2> DEFINE f == [ex[r] EXCEPT !.term = w]
  <2>1. Like(ex[r], f)
    BY DEF Shape, IsExec, Like
  <2>2. ex'[r] = f /\ \A q \in Runs \ {r} : ex'[q] = ex[q]
    BY <1>1 DEF Shape
  <2> QED
    BY <2>1, <2>2 DEF Like
<1>3. UNCHANGED req
  BY <1>1
<1>4. OneCall'
  BY <1>3 DEF SInv, OneCall, Calling
<1> QED
  BY <1>1, <1>2, <1>3, <1>4, LikeBefore DEF SInv

\* A handler that begins: q is what it has read.
LEMMA HandlerBegins ==
  ASSUME Shape, SInv, UNCHANGED <<db, starting>>, \A r \in Runs : Like(ex[r], ex'[r]),
         NEW t \in Tasks, NEW q, HandlerOK(q), req' = [req EXCEPT ![t] = q],
         q.op \in {"finish", "reject"} => \A u \in Tasks : ~Calling(u)
  PROVE  SInv'
<1>1. req'[t] = q /\ \A u \in Tasks \ {t} : req'[u] = req[u]
  BY DEF Shape
<1>2. \A u \in Tasks : HandlerOK(req[u])'
  <2> TAKE u \in Tasks
  <2>1. PICK h : h = req'[u] /\ HandlerOK(h)
    BY <1>1 DEF SInv
  <2>2. HandlerOK(h)'
    BY <2>1, LikeBefore
  <2> QED
    BY <2>1, <2>2 DEF HandlerOK, RejectOK, Halted, Succeeds
<1>3. OneCall'
  BY <1>1 DEF SInv, OneCall, Calling
<1> QED
  BY <1>2, <1>3, LikeBefore DEF SInv

LEMMA NewestIs == NewestRunning = 0 \/ (NewestRunning \in Runs /\ status[NewestRunning] = "RUNNING")
<1> DEFINE S == {r \in Runs : status[r] = "RUNNING"}
<1>1. S \in SUBSET (1..MaxRuns) /\ MaxRuns \in Nat
  BY RunAssumption DEF Runs
<1>2. S # {} => Last(S) \in S
  BY <1>1, LastIs
<1> QED
  BY <1>2 DEF NewestRunning, Last

LEMMA FirstRow ==
  ASSUME RowsOK, NEW r \in Runs, NEW S \in SUBSET DOMAIN rows[r]
  PROVE  First(S) = 0 \/ First(S) \in S
<1>1. S \in SUBSET Nat
  BY DEF RowsOK
<1> QED
  BY <1>1, FirstIs

LEMMA AgentCalls ==
  ASSUME Shape, SInv, NEW a \in Runs, NEW t \in Tasks, Call(a, t) PROVE SInv'
<1>1. PICK q : Calls(a, t) /\ Called(a, t, q) /\ HandlerOK(q)
  <2> DEFINE r == NewestRunning
  <2>1. HandlerOK(Idle)
    BY DEF HandlerOK, Idle
  <2>2. CASE FinishCall(a, t)
    <3>1. CASE r = 0 \/ index[r] >= NSteps
      BY <2>1, <2>2, <3>1 DEF FinishCall
    <3>2. CASE ~(r = 0 \/ index[r] >= NSteps)
      <4> DEFINE q == [Idle EXCEPT !.op = "finish", !.run = r, !.idx = index[r]]
      <4>1. r \in Runs /\ status[r] = "RUNNING"
        BY <3>2, NewestIs
      <4>2. q.op = "finish" /\ q.run = r
        BY DEF Idle
      <4>3. HandlerOK(q)
        BY <4>1, <4>2 DEF HandlerOK, Halted
      <4> QED
        BY <2>2, <3>2, <4>3 DEF FinishCall
    <3> QED
      BY <3>1, <3>2
  <2>3. CASE RejectCall(a, t)
    <3>1. CASE r = 0 \/ index[r] >= NSteps \/ RunningRow(r) = 0
      BY <2>1, <2>3, <3>1 DEF RejectCall
    <3>2. CASE ~(r = 0 \/ index[r] >= NSteps \/ RunningRow(r) = 0)
      <4>1. r \in Runs /\ status[r] = "RUNNING"
        BY <3>2, NewestIs
      <4>2. PICK target \in Steps :
              /\ target < index[r]
              /\ Called(a, t, [op |-> "reject", to |-> target, run |-> r, idx |-> index[r],
                               row |-> RunningRow(r), num |-> rejections[r] + 1])
        BY <2>3, <3>2 DEF RejectCall
      <4> DEFINE q == [op |-> "reject", to |-> target, run |-> r, idx |-> index[r],
                       row |-> RunningRow(r), num |-> rejections[r] + 1]
      <4>3. RunningRow(r) \in DOMAIN rows[r] /\ rows[r][RunningRow(r)].st = "RUNNING"
        <5> DEFINE S == {k \in DOMAIN rows[r] : rows[r][k].st = "RUNNING"}
        <5>1. First(S) = 0 \/ First(S) \in S
          BY <4>1, FirstRow DEF SInv
        <5> QED
          BY <5>1, <3>2 DEF RunningRow
      <4>4. target \in Nat
        BY RunAssumption DEF Steps
      <4>5. RejectOK(q)
        BY <4>2, <4>3, <4>4 DEF RejectOK
      <4>6. HandlerOK(q)
        BY <4>1, <4>5 DEF HandlerOK, Halted
      <4> QED
        BY <2>3, <4>2, <4>6 DEF RejectCall
    <3> QED
      BY <3>1, <3>2
  <2> QED
    BY <2>2, <2>3 DEF Call
<1>2. \A u \in Tasks : ~Calling(u)
  BY <1>1 DEF Calls, Calling
<1>3. \A x \in Runs : Like(ex[x], ex'[x])
  <2> DEFINE f == [ex[a] EXCEPT !.calls = @ - 1]
  <2>1. Like(ex[a], f)
    BY DEF Shape, IsExec, Like
  <2>2. ex'[a] = f /\ \A x \in Runs \ {a} : ex'[x] = ex[x]
    BY <1>1 DEF Shape, Called
  <2> QED
    BY <2>1, <2>2 DEF Like
<1>4. UNCHANGED <<db, starting>> /\ req' = [req EXCEPT ![t] = q]
  BY <1>1 DEF Called
<1> QED
  BY <1>1, <1>2, <1>3, <1>4, HandlerBegins

LEMMA UserAsks ==
  ASSUME Shape, SInv, NEW r \in Runs, NEW t \in Tasks, Begin(t, r) PROVE SInv'
<1>1. PICK kind \in {"pause", "resume", "cancel"}, row \in {0} \cup DOMAIN rows[r] :
        Ask(kind, t, r, row) /\ status[r] # "NONE"
  <2>1. CASE PauseRead(t, r)
    <3> DEFINE S == {k \in RowsOf(r, index[r]) : rows[r][k].term}
    <3>1. S \in SUBSET DOMAIN rows[r]
      BY DEF RowsOf
    <3>2. First(S) \in {0} \cup DOMAIN rows[r]
      BY <3>1, FirstRow DEF SInv
    <3> QED
      BY <2>1, <3>2 DEF PauseRead, Active
  <2>2. CASE ResumeRead(t, r)
    BY <2>2 DEF ResumeRead
  <2>3. CASE CancelRead(t, r)
    <3> DEFINE S == {k \in DOMAIN rows[r] : rows[r][k].st = "RUNNING" /\ rows[r][k].term}
    <3>1. First(S) \in {0} \cup DOMAIN rows[r]
      BY FirstRow DEF SInv
    <3> QED
      BY <2>3, <3>1 DEF CancelRead
  <2> QED
    BY <2>1, <2>2, <2>3 DEF Begin
<1> DEFINE q == [Idle EXCEPT !.op = kind, !.run = r, !.row = row,
                             !.num = IF status[r] = "RUNNING" THEN 1 ELSE 0]
<1>2. q.op = kind /\ q.run = r /\ q.row = row
  BY DEF Idle
<1>3. req' = [req EXCEPT ![t] = q] /\ UNCHANGED <<db, starting, ex>>
  BY <1>1 DEF Ask
<1> HIDE DEF q
<1>4. HandlerOK(q) /\ q.op \notin {"finish", "reject"}
  BY <1>1, <1>2 DEF HandlerOK, Halted
<1>5. \A x \in Runs : Like(ex[x], ex'[x])
  BY <1>3 DEF Like
<1> QED
  BY <1>3, <1>4, <1>5, HandlerBegins

(***************************************************************************)
(* Commits                                                                 *)
(***************************************************************************)
\* The row of a step is under way: no step below the index is set back.
LEMMA SetsUp ==
  ASSUME Shape, SInv, NEW r \in Runs, SetupCommit(r) PROVE SInv'
<1> DEFINE e == ex[r]  k == ex[r].row  f == [e EXCEPT !.at = "ready"]
           w == [rows[r][k] EXCEPT !.st = "RUNNING", !.term = TRUE]
<1>1. e.at = "setup" /\ ex' = [ex EXCEPT ![r] = f] /\ UNCHANGED <<status, index, rejections, starting, req>>
  BY DEF SetupCommit
<1>3. RunOK(r) /\ ~e.sig /\ k \in RowsOf(r, e.idx) /\ k \in DOMAIN rows[r] /\ rows[r][k].step = e.idx
      /\ e.idx \in Nat /\ index[r] <= e.idx /\ (index[r] < e.idx => Done(r, index[r])) /\ index[r] \in Nat
  BY <1>1 DEF SInv, RunOK, ExecOK, RowsOf
<1>4. Marks(r, k, "RUNNING")
  <2>1. rows[r][k] \in Row
    BY <1>3 DEF SInv, RowsOK
  <2>2. w \in Row /\ w.step = rows[r][k].step /\ w.st = "RUNNING"
    BY <2>1 DEF Row
  <2>3. rows' = [rows EXCEPT ![r] = [@ EXCEPT ![k] = w]]
    BY <1>3 DEF SetupCommit, SInv, RowsOK
  <2> HIDE DEF w
  <2> QED
    BY <1>3, <2>2, <2>3, SetMarks DEF SInv
<1>5. /\ \A q \in Runs, s \in Nat : RowsOf(q, s) \subseteq RowsOf(q, s)'
      /\ \A s \in Nat : Done(r, s) /\ s # e.idx => Done(r, s)'
  BY <1>3, <1>4, Marked
<1>6. /\ f.at = "ready" /\ f.idx = e.idx /\ f.row = k /\ f.sig = e.sig
      /\ ex'[r] = f /\ \A q \in Runs \ {r} : ex'[q] = ex[q]
  BY <1>1 DEF Shape, IsExec
<1> HIDE DEF f
<1>7. \A q \in Runs \ {r} : Same(q)
  BY <1>1, <1>4, <1>6 DEF Same, Marks
<1>8. RunOK(r)'
  <2>1. ExecOK(r, ex[r])'
    BY <1>1, <1>3, <1>5, <1>6 DEF ExecOK
  <2>2. AllDone(r, index[r])'
    BY <1>1, <1>3, <1>5 DEF RunOK, Going, AllDone
  <2>3. \A s \in Steps : s \in Nat
    BY RunAssumption DEF Steps
  <2> QED
    BY <1>1, <1>3, <1>5, <1>6, <2>1, <2>2, <2>3 DEF RunOK
<1>9. ASSUME NEW t \in Tasks, req[t].run = r PROVE HandlerOK(req[t])'
  BY <1>1, <1>3, <1>4, <1>6, <1>9 DEF SInv, HandlerOK, RejectOK, Halted, Succeeds, Marks
<1> QED
  BY <1>1, <1>4, <1>7, <1>8, <1>9, OneRun DEF SInv, Marks, OneCall, Calling

\* The row is completed and the index goes past what was read.
LEMMA Completes ==
  ASSUME Shape, SInv, NEW r \in Runs, Complete(r) PROVE SInv'
<1> DEFINE e == ex[r]  k == ex[r].row  f == [e EXCEPT !.at = "done", !.idx = @ + 1]
           w == [rows[r][k] EXCEPT !.st = "COMPLETED"]
<1>1. /\ e.at = "checked" /\ e.ok /\ ex' = [ex EXCEPT ![r] = f] /\ index' = [index EXCEPT ![r] = e.idx + 1]
      /\ UNCHANGED <<status, rejections, starting, req>>
  BY DEF Complete
<1>2. /\ RunOK(r) /\ ~e.sig /\ k \in DOMAIN rows[r] /\ e.idx \in Nat /\ index[r] <= e.idx /\ index[r] \in Nat
      /\ e.idx <= rows[r][k].step /\ AllDone(r, e.idx) /\ (e.idx < rows[r][k].step => Done(r, e.idx))
  BY <1>1 DEF SInv, RunOK, ExecOK
<1>3. rows[r][k] \in Row /\ rows[r][k].step \in Nat
  <2>1. rows[r][k] \in Row
    BY <1>2 DEF SInv, RowsOK
  <2> QED
    BY <2>1 DEF Row
<1>4. Marks(r, k, "COMPLETED")
  <2>1. w \in Row /\ w.step = rows[r][k].step /\ w.st = "COMPLETED"
    BY <1>3 DEF Row
  <2>2. rows' = [rows EXCEPT ![r] = [@ EXCEPT ![k] = w]]
    BY <1>2 DEF Complete, SInv, RowsOK
  <2> HIDE DEF w
  <2> QED
    BY <1>2, <2>1, <2>2, SetMarks DEF SInv
<1>5. /\ \A q \in Runs, s \in Nat : RowsOf(q, s) \subseteq RowsOf(q, s)'
      /\ \A s \in Nat : Done(r, s) => Done(r, s)'
      /\ \A s \in Nat : s = rows[r][k].step => Done(r, s)'
  BY <1>2, <1>4, Marked
<1>6. /\ f.at = "done" /\ f.idx = e.idx + 1 /\ f.sig = e.sig
      /\ ex'[r] = f /\ index'[r] = e.idx + 1 /\ index' = [q \in Runs |-> index'[q]]
      /\ \A q \in Runs \ {r} : ex'[q] = ex[q] /\ index'[q] = index[q]
  BY <1>1 DEF Shape, IsExec, SInv
<1> HIDE DEF f
<1>7. \A q \in Runs \ {r} : Same(q)
  BY <1>1, <1>4, <1>6 DEF Same, Marks
<1>8. RunOK(r)'
  <2>1. ExecOK(r, ex[r])'
    BY <1>1, <1>2, <1>6 DEF ExecOK
  <2>2. ASSUME NEW s \in Nat, s < e.idx + 1 PROVE Done(r, s)'
    <3>1. CASE s < e.idx
      BY <1>2, <1>5, <3>1 DEF AllDone
    <3>2. CASE s = e.idx
      BY <1>2, <1>3, <1>5, <3>2
    <3> QED
      BY <1>2, <2>2, <3>1, <3>2
  <2>3. AllDone(r, index[r])'
    BY <1>6, <2>2 DEF AllDone
  <2>4. \A s \in Steps : s \in Nat
    BY RunAssumption DEF Steps
  <2>5. status[r] # "NONE"
    BY <1>1, <1>2 DEF RunOK
  <2> QED
    BY <1>1, <1>2, <1>5, <1>6, <2>1, <2>3, <2>4, <2>5 DEF RunOK
<1>9. ASSUME NEW t \in Tasks, req[t].run = r PROVE HandlerOK(req[t])'
  <2>1. (HandlerOK(req[t]) /\ ~Halted(req[t])) \/ req[t].op = "idle"
    BY <1>1, <1>9 DEF SInv, HandlerOK
  <2>2. ASSUME req[t].op = "reject" PROVE RejectOK(req[t])'
    <3> DEFINE h == req[t]
    <3>1. RejectOK(h) /\ h.run = r /\ h' = h
      BY <1>1, <1>9, <2>1, <2>2 DEF HandlerOK
    <3>2. ~Succeeds(ex'[r])
      BY <1>2, <1>6 DEF Succeeds
    <3>3. h.to < index'[r] /\ h.row \in DOMAIN rows'[r] /\ h.to \in Nat
      BY <1>2, <1>4, <1>6, <3>1 DEF RejectOK, Marks
    <3>4. ASSUME rows'[r][h.row].st = "COMPLETED" PROVE h.to < rows'[r][h.row].step
      <4>1. rows'[r][h.row].step = rows[r][h.row].step /\ (h.row = k \/ rows[r][h.row].st = "COMPLETED")
        BY <1>4, <3>1, <3>4 DEF RejectOK, Marks
      <4>2. CASE h.row = k
        BY <1>2, <1>3, <3>1, <4>1, <4>2 DEF RejectOK
      <4>3. CASE rows[r][h.row].st = "COMPLETED"
        BY <3>1, <4>1, <4>3 DEF RejectOK
      <4> QED
        BY <4>1, <4>2, <4>3
    <3> QED
      BY <3>1, <3>2, <3>3, <3>4 DEF RejectOK
  <2> QED
    BY <1>1, <1>4, <1>6, <1>9, <2>1, <2>2 DEF HandlerOK, Halted, Marks
<1> QED
  BY <1>1, <1>4, <1>6, <1>7, <1>8, <1>9, OneRun DEF SInv, Marks, OneCall, Calling

\* The conditions of the runs and of the handlers, put together again.
Kept == /\ RowsOK' /\ index' = [r \in Runs |-> index'[r]] /\ \A r \in Runs : RunOK(r)'
        /\ \A q : HandlerOK(q) => HandlerOK(q)'

LEMMA NoHandlerMoves == ASSUME SInv, Kept, UNCHANGED req PROVE SInv'
<1>1. \A t \in Tasks : HandlerOK(req[t])'
  <2> TAKE t \in Tasks
  <2>1. PICK h : h = req[t] /\ HandlerOK(h)
    BY DEF SInv
  <2>2. HandlerOK(h)'
    BY <2>1 DEF Kept
  <2> QED
    BY <2>1, <2>2 DEF HandlerOK, RejectOK, Halted, Succeeds
<1> QED
  BY <1>1 DEF SInv, Kept, OneCall, Calling

LEMMA HandlerMoves ==
  ASSUME Shape, SInv, Kept, NEW t \in Tasks, NEW q, req' = [req EXCEPT ![t] = q], HandlerOK(q)',
         q.op \in {"finish", "reject"} => Calling(t)
  PROVE  SInv'
<1>1. req'[t] = q /\ \A u \in Tasks \ {t} : req'[u] = req[u]
  BY DEF Shape
<1>2. \A u \in Tasks : HandlerOK(req[u])'
  <2> TAKE u \in Tasks
  <2>1. PICK h : h = req'[u] /\ (h = q \/ HandlerOK(h))
    BY <1>1 DEF SInv
  <2>2. HandlerOK(h)'
    BY <2>1 DEF Kept
  <2> QED
    BY <2>1, <2>2 DEF HandlerOK, RejectOK, Halted, Succeeds
<1> QED
  BY <1>1, <1>2 DEF SInv, Kept, OneCall, Calling

LEMMA NoCall == HandlerOK(Idle)' /\ Idle.op = "idle"
BY DEF HandlerOK, Idle

LEMMA OffIsOK == ~Succeeds(NoExec) /\ \A r : ExecOK(r, NoExec)'
BY DEF ExecOK, NoExec, Succeeds

\* A run that gets another status, and perhaps loses its executor.
LEMMA NewStatus ==
  ASSUME Shape, SInv, NEW r \in Runs, status[r] # "NONE", NEW st, status' = [status EXCEPT ![r] = st],
         st # "NONE", st \in {"RUNNING", "COMPLETED"} => Going(r), UNCHANGED <<index, rows, starting>>,
         ex'[r] = ex[r] \/ ex'[r] = NoExec, \A q \in Runs \ {r} : ex'[q] = ex[q]
  PROVE  Kept
<1>1. status'[r] = st /\ \A q \in Runs \ {r} : Same(q)
  BY DEF Shape, Same
<1>2. /\ \A q \in Runs : \A s : RowsOf(q, s)' = RowsOf(q, s) /\ Done(q, s)' = Done(q, s)
      /\ \A q \in Runs : \A n : AllDone(q, n)' = AllDone(q, n)
  BY SameDone
<1>3. RunOK(r)'
  <2>1. RunOK(r)
    BY DEF SInv
  <2>2. ExecOK(r, ex[r])'
    <3>1. CASE ex'[r] = ex[r]
      BY <1>2, <2>1, <3>1 DEF RunOK, ExecOK
    <3>2. CASE ex'[r] = NoExec
      BY <3>2, OffIsOK DEF ExecOK
    <3> QED
      BY <3>1, <3>2
  <2>3. Going(r)' => Going(r)
    BY <1>1, NoneRuns DEF Going
  <2>4. AllDone(r, index[r])' = AllDone(r, index[r])
    BY <1>2 DEF AllDone
  <2> QED
    BY <1>1, <1>2, <2>1, <2>2, <2>3, <2>4, NoneRuns DEF RunOK
<1>4. ASSUME NEW q, HandlerOK(q) PROVE HandlerOK(q)'
  <2>1. CASE q.op # "idle" /\ q.run = r
    BY <1>1, <1>4, <2>1, OffIsOK, NoneRuns DEF HandlerOK, RejectOK, Halted, Succeeds
  <2>2. CASE q.op # "idle" => q.run \in Runs \ {r}
    BY <1>1, <1>4, <2>2, SameHandler
  <2> QED
    BY <1>4, <2>1, <2>2 DEF HandlerOK
<1> QED
  BY <1>1, <1>3, <1>4, SameRun DEF Kept, SInv, RowsOK

\* A run that ends, or is paused: whatever is done with a row, the run goes on no more.
LEMMA Ends ==
  ASSUME Shape, SInv, NEW r \in Runs, status[r] # "NONE",
         NEW st \in {"FAILED", "PAUSED"}, status' = [status EXCEPT ![r] = st],
         UNCHANGED <<index, starting>>, ex'[r].at = "off", ex'[r] = ex[r] \/ ex'[r] = NoExec,
         \A q \in Runs \ {r} : ex'[q] = ex[q],
         NEW k \in DOMAIN rows[r], NEW to \in {"RUNNING", "FAILED"}, Marks(r, k, to)
  PROVE  Kept
<1>1. status'[r] = st /\ \A q \in Runs \ {r} : Same(q)
  BY DEF Shape, Same, Marks
<1>2. \A s \in Nat : RowsOf(r, s) \subseteq RowsOf(r, s)'
  BY Marked
<1>3. RunOK(r) /\ ~Succeeds(ex'[r])
  BY DEF SInv, RunOK, ExecOK, Succeeds, NoExec
<1>4. RunOK(r)'
  <2>1. ExecOK(r, ex[r])'
    BY <1>3 DEF RunOK, ExecOK, NoExec
  <2> QED
    BY <1>1, <1>3, <2>1 DEF RunOK, Going
<1>5. ASSUME NEW q, HandlerOK(q) PROVE HandlerOK(q)'
  <2>1. CASE q.op # "idle" /\ q.run = r
    BY <1>1, <1>3, <1>5, <2>1 DEF HandlerOK, RejectOK, Halted, Marks
  <2>2. CASE q.op # "idle" => q.run \in Runs \ {r}
    BY <1>1, <1>5, <2>2, SameHandler
  <2> QED
    BY <1>5, <2>1, <2>2 DEF HandlerOK
<1> QED
  BY <1>1, <1>4, <1>5, SameRun DEF Kept, SInv, Marks

LEMMA SetRowMarks ==
  ASSUME RowsOK, NEW r \in Runs, NEW k \in DOMAIN rows[r], NEW to \in {"RUNNING", "FAILED"},
         rows' = SetRow(r, k, to)
  PROVE  Marks(r, k, to)
<1> DEFINE w == [rows[r][k] EXCEPT !.st = to]
<1>1. rows[r][k] \in Row /\ k # 0
  BY DEF RowsOK
<1>2. w \in Row /\ w.step = rows[r][k].step /\ w.st = to
  BY <1>1 DEF Row
<1>3. rows' = [rows EXCEPT ![r] = [@ EXCEPT ![k] = w]]
  BY <1>1 DEF SetRow, RowsOK
<1> HIDE DEF w
<1> QED
  BY <1>2, <1>3, SetMarks

\* The executor goes.
LEMMA ExecutorGoes ==
  ASSUME Shape, SInv, NEW r \in Runs, SetupFails(r) \/ Fail(r) \/ Finish(r) PROVE SInv'
<1>1. /\ ex' = [ex EXCEPT ![r] = NoExec] /\ UNCHANGED <<index, starting, req>>
      /\ ex[r].at # "off" /\ status[r] # "NONE"
  BY DEF SetupFails, Fail, Finish, InLoop, SInv, RunOK
<1>2. ex'[r] = NoExec /\ ex'[r].at = "off" /\ \A q \in Runs \ {r} : ex'[q] = ex[q]
  BY <1>1, NoneRuns DEF Shape
<1>3. CASE SetupFails(r)
  <2>1. LatestRow(r, ex[r].idx) \in DOMAIN rows[r]
    BY <1>3, LoopRow DEF SetupFails, RowsOf
  <2>2. Marks(r, LatestRow(r, ex[r].idx), "RUNNING")
    BY <1>3, <2>1, SetRowMarks DEF SetupFails, SInv
  <2>3. status' = [status EXCEPT ![r] = "FAILED"]
    BY <1>3 DEF SetupFails
  <2> QED
    BY <1>1, <1>2, <2>1, <2>2, <2>3, Ends, NoHandlerMoves
<1>4. CASE Fail(r)
  <2>1. ex[r].row \in DOMAIN rows[r] /\ ex[r].row # 0
    BY <1>4 DEF Fail, SInv, RunOK, ExecOK, RowsOK
  <2>2. rows' = SetRow(r, ex[r].row, "FAILED") /\ status' = [status EXCEPT ![r] = "FAILED"]
    BY <1>4, <2>1 DEF Fail, SetRow
  <2>3. Marks(r, ex[r].row, "FAILED")
    BY <2>1, <2>2, SetRowMarks DEF SInv
  <2> QED
    BY <1>1, <1>2, <2>1, <2>2, <2>3, Ends, NoHandlerMoves
<1>5. CASE Finish(r)
  <2>1. PICK st : status' = [status EXCEPT ![r] = st] /\ st \in {status[r], "COMPLETED"} /\ UNCHANGED rows
    BY <1>5 DEF Finish, Shape
  <2>2. Going(r)
    BY <1>1 DEF Going
  <2>3. Kept
    BY <1>1, <1>2, <2>1, <2>2, NewStatus
  <2> QED
    BY <1>1, <2>3, NoHandlerMoves
<1> QED
  BY <1>3, <1>4, <1>5

\* set_step_completed sets the event, if the executor waits for it.
LEMMA SignalledIs ==
  ASSUME Shape, NEW r \in Runs, NEW i, ex' = Signalled(r, i)
  PROVE  /\ \A q \in Runs \ {r} : ex'[q] = ex[q]
         /\ ex'[r] = ex[r] \/ (ex[r].at = "wait" /\ ex'[r] = [ex[r] EXCEPT !.sig = TRUE])
         /\ LET e == ex[r]  f == ex'[r]
            IN  /\ f.at = e.at /\ f.idx = e.idx /\ f.row = e.row /\ f.ok = e.ok
                /\ f.sig = e.sig \/ e.at = "wait"
<1>1. /\ \A q \in Runs \ {r} : ex'[q] = ex[q]
      /\ ex'[r] = ex[r] \/ (ex[r].at = "wait" /\ ex'[r] = [ex[r] EXCEPT !.sig = TRUE])
  BY DEF Signalled, Shape
<1>2. IsExec(ex[r])
  BY DEF Shape
<1> QED
  BY <1>1, <1>2 DEF IsExec

LEMMA Signal ==
  ASSUME Shape, SInv, NEW t \in Tasks, FinishSignal(t) PROVE SInv'
<1> DEFINE r == req[t].run  e == ex[r]  f == ex'[r]
<1>1. /\ req[t].op = "finish" /\ ex' = Signalled(r, req[t].idx) /\ req' = [req EXCEPT ![t] = Idle]
      /\ UNCHANGED <<status, index, rows, starting>>
  BY DEF FinishSignal, db
<1>2. r \in Runs /\ status[r] # "NONE" /\ RunOK(r)
  BY <1>1 DEF SInv, HandlerOK
<1>3. /\ \A q \in Runs \ {r} : ex'[q] = ex[q]
      /\ f.at = e.at /\ f.idx = e.idx /\ f.row = e.row /\ f.ok = e.ok /\ (f.sig = e.sig \/ e.at = "wait")
  BY <1>1, <1>2, SignalledIs
<1>4. /\ \A q \in Runs : \A s : RowsOf(q, s)' = RowsOf(q, s) /\ Done(q, s)' = Done(q, s)
      /\ \A q \in Runs : \A n : AllDone(q, n)' = AllDone(q, n)
  BY <1>1, SameDone
<1>5. ASSUME NEW q \in Runs, q = r PROVE RunOK(q)'
  <2>1. ExecOK(q, ex[q])'
    BY <1>1, <1>2, <1>3, <1>4, <1>5 DEF RunOK, ExecOK
  <2>2. Going(q)' = Going(q) /\ AllDone(q, index[q])' = AllDone(q, index[q])
    BY <1>1, <1>3, <1>4, <1>5 DEF Going, AllDone
  <2> QED
    BY <1>1, <1>2, <1>3, <1>4, <1>5, <2>1, <2>2 DEF RunOK
<1>6. /\ req'[t] = Idle /\ \A u \in Tasks \ {t} : req'[u] = req[u]
  BY <1>1 DEF Shape
<1>7. \A u \in Tasks \ {t} : req[u].op # "reject"
  BY <1>1 DEF SInv, OneCall, Calling
<1>8. \A u \in Tasks : HandlerOK(req[u])'
  <2>1. HandlerOK(req[t])'
    BY <1>6, NoCall DEF HandlerOK
  <2>2. ASSUME NEW u \in Tasks \ {t} PROVE HandlerOK(req[u])'
    <3>1. HandlerOK(req[u]) /\ req'[u] = req[u] /\ req[u].op # "reject"
      BY <1>6, <1>7 DEF SInv
    <3> QED
      BY <3>1, <1>1, <1>3 DEF HandlerOK, Halted
  <2> QED
    BY <2>1, <2>2
<1>9. OneCall' /\ RowsOK' /\ index' = [q \in Runs |-> index'[q]] /\ \A q \in Runs \ {r} : Same(q)
  BY <1>1, <1>3, <1>6, NoCall DEF SInv, OneCall, Calling, RowsOK, Same
<1>10. \A q \in Runs : RunOK(q)'
  BY <1>5, <1>9, SameRun, <1>2 DEF SInv
<1> QED
  BY <1>8, <1>9, <1>10 DEF SInv

\* A rejection sets its row back and appends one, and moves the index to a step that is done.
LEMMA Rejects ==
  ASSUME Shape, SInv, NEW t \in Tasks, RejectCommit(t) PROVE SInv'
<1> DEFINE h == req[t]  n == Len(rows[h.run]) + 1
           w == [step |-> h.to, st |-> "RUNNING", term |-> FALSE]
           s == [rows[h.run] EXCEPT ![h.row].st = "REJECTED"]
           q == [Idle EXCEPT !.op = "finish", !.run = h.run, !.idx = h.idx]
<1> SUFFICES ASSUME NEW r \in Runs, h.run = r, NEW k \in DOMAIN rows[r], h.row = k,
                    NEW to \in Nat, h.to = to, NEW g, g = ex'[r],
                    to < index[r], status[r] # "NONE", RunOK(r), h.op = "reject",
                    rows[r][k].st = "COMPLETED" => to < rows[r][k].step /\ ~Succeeds(ex[r])
             PROVE  SInv'
  <2>1. h.op = "reject" /\ h.run \in Runs /\ status[h.run] # "NONE" /\ RejectOK(h)
    BY DEF RejectCommit, SInv, HandlerOK
  <2> QED
    BY <2>1 DEF RejectOK, SInv
<1>1. /\ rows' = [rows EXCEPT ![r] = Append(s, w)] /\ index' = [index EXCEPT ![r] = to]
      /\ ex' = Signalled(r, rows[r][k].step) /\ req' = [req EXCEPT ![t] = q] /\ UNCHANGED starting
      /\ status' = status \/ status' = [status EXCEPT ![r] = "FAILED"]
  BY DEF RejectCommit, SInv, RowsOK
<1>2. Marks(r, k, "REJECTED")
  <2> DEFINE x == [rows[r][k] EXCEPT !.st = "REJECTED"]
  <2>1. rows[r] \in Seq(Row) /\ rows[r][k] \in Row /\ k \in 1..Len(rows[r]) /\ DOMAIN rows[r] = 1..Len(rows[r])
    BY DEF SInv, RowsOK
  <2>2. x \in Row /\ x.step = rows[r][k].step /\ x.st = "REJECTED" /\ w \in Row
    BY <2>1 DEF Row
  <2>3. s = [rows[r] EXCEPT ![k] = x]
    BY <2>1
  <2> HIDE DEF x, w, s
  <2>4. /\ s \in Seq(Row) /\ Len(s) = Len(rows[r])
        /\ \A j \in 1..Len(rows[r]) : s[j] = IF j = k THEN x ELSE rows[r][j]
    BY <2>1, <2>2, <2>3, ExceptSeq
  <2>5. /\ Append(s, w) \in Seq(Row) /\ Len(Append(s, w)) = Len(s) + 1
        /\ \A j \in 1..Len(s) : Append(s, w)[j] = s[j]
    BY <2>2, <2>4, AppendProperties
  <2>6. /\ rows'[r] = Append(s, w) /\ \A p \in Runs \ {r} : rows'[p] = rows[p]
        /\ rows' = [p \in Runs |-> rows'[p]]
    BY <1>1 DEF SInv, RowsOK
  <2>7. Len(rows[r]) \in Nat /\ DOMAIN rows'[r] = 1..(Len(rows[r]) + 1)
    BY <2>1, <2>4, <2>5, <2>6
  <2>8. DOMAIN rows[r] \subseteq DOMAIN rows'[r]
    BY <2>1, <2>7
  <2>9. \A j \in DOMAIN rows[r] : rows'[r][j] = IF j = k THEN x ELSE rows[r][j]
    BY <2>1, <2>4, <2>5, <2>6
  <2>10. RowsOK'
    BY <2>5, <2>6 DEF SInv, RowsOK
  <2> QED
    BY <2>2, <2>6, <2>8, <2>9, <2>10 DEF Marks
<1>3. /\ \A p \in Runs, m \in Nat : RowsOf(p, m) \subseteq RowsOf(p, m)'
      /\ \A m \in Nat : Done(r, m) /\ ~(m = rows[r][k].step /\ rows[r][k].st = "COMPLETED") => Done(r, m)'
  BY <1>2, Marked
<1>4. /\ \A p \in Runs \ {r} : ex'[p] = ex[p]
      /\ LET e == ex[r]
         IN  /\ g.at = e.at /\ g.idx = e.idx /\ g.row = e.row /\ g.ok = e.ok
             /\ g.sig = e.sig \/ e.at = "wait"
  BY <1>1, SignalledIs
<1>5. /\ index'[r] = to /\ index' = [p \in Runs |-> index'[p]] /\ \A p \in Runs \ {r} : Same(p)
      /\ status'[r] # "NONE" /\ status'[r] \in {status[r], "FAILED"}
  BY <1>1, <1>2, <1>4 DEF SInv, Shape, Same, Marks
<1>6. \A m \in Nat : m <= to /\ Done(r, m) => Done(r, m)'
  BY <1>3
<1>7. index[r] \in Nat /\ \A m \in Nat : m <= to /\ Going(r) => Done(r, m)
  BY DEF RunOK, AllDone
<1>8. ExecOK(r, g)'
  <2> DEFINE e == ex[r]
  <2>1. ExecOK(r, e) /\ e = ex[r]
    BY DEF RunOK
  <2>2. ASSUME g.at \notin {"off", "load"}
        PROVE  g.idx \in Nat /\ to <= g.idx /\ Done(r, to)'
    BY <1>4, <1>6, <1>7, <2>1, <2>2 DEF ExecOK, Going
  <2>3. ASSUME g.at \in {"setup", "ready", "wait", "woken"} PROVE g.row \in RowsOf(r, g.idx)'
    <3>1. g.row \in RowsOf(r, g.idx) /\ g.idx \in Nat
      BY <1>4, <2>1, <2>3 DEF ExecOK
    <3> QED
      BY <1>3, <3>1
  <2>4. ASSUME g.at \in {"fresh", "checked"}
        PROVE  /\ g.row \in DOMAIN rows'[r] /\ g.idx <= rows'[r][g.row].step
               /\ g.ok => AllDone(r, g.idx)' /\ (g.idx < rows'[r][g.row].step => Done(r, g.idx)')
    <3>1. /\ g.row \in DOMAIN rows[r] /\ g.idx <= rows[r][g.row].step /\ g.idx \in Nat
          /\ g.ok => AllDone(r, g.idx) /\ (g.idx < rows[r][g.row].step => Done(r, g.idx))
      BY <1>4, <2>1, <2>4 DEF ExecOK
    <3>2. rows'[r][g.row].step = rows[r][g.row].step /\ g.row \in DOMAIN rows'[r]
      BY <1>2, <3>1 DEF Marks
    <3>3. ASSUME g.ok PROVE \A m \in Nat : Done(r, m) => Done(r, m)'
      BY <1>3, <1>4, <2>4, <3>3 DEF Succeeds
    <3> QED
      BY <3>1, <3>2, <3>3 DEF AllDone
  <2>5. g.sig => g.at = "wait"
    BY <1>4, <2>1 DEF ExecOK
  <2> QED
    BY <1>5, <2>2, <2>3, <2>4, <2>5 DEF ExecOK
<1>9. RunOK(r)'
  <2>1. ExecOK(r, ex[r])'
    BY <1>8 DEF ExecOK
  <2>2. Going(r)' => Going(r)
    BY <1>4, <1>5 DEF Going
  <2>3. Going(r) => AllDone(r, index[r])'
    BY <1>5, <1>6, <1>7 DEF AllDone
  <2>4. \A m \in Steps : m \in Nat
    BY RunAssumption DEF Steps
  <2>5. g.at # "off" => \A m \in Steps : RowsOf(r, m)' # {}
    BY <1>3, <1>4, <2>4 DEF RunOK
  <2>6. r \notin starting /\ starting' = starting
    BY <1>1 DEF RunOK
  <2> QED
    BY <1>5, <2>1, <2>2, <2>3, <2>5, <2>6 DEF RunOK
<1>10. q.op = "finish" /\ q.run = r
  BY DEF Idle
<1>11. req'[t] = q /\ \A u \in Tasks \ {t} : req'[u] = req[u]
  BY <1>1 DEF Shape
<1> HIDE DEF q
<1>12. \A u \in Tasks \ {t} : ~Calling(u)
  BY DEF SInv, OneCall, Calling
<1>13. OneCall'
  BY <1>11, <1>12 DEF OneCall, Calling
<1>14. HandlerOK(req[t])'
  BY <1>5, <1>10, <1>11 DEF HandlerOK, Halted
<1>15. ASSUME NEW u \in Tasks \ {t}, req[u].run = r PROVE HandlerOK(req[u])'
  <2>1. HandlerOK(req[u]) /\ req'[u] = req[u] /\ req[u].op # "reject"
    BY <1>11, <1>12 DEF SInv, Calling
  <2> QED
    BY <2>1, <1>2, <1>4, <1>5, <1>15 DEF HandlerOK, Halted, Marks
<1> QED
  BY <1>2, <1>5, <1>9, <1>11, <1>13, <1>14, <1>15, OneRun DEF Marks

\* The requests of a user. The executor is halted before its row is written.
LEMMA UserStops ==
  ASSUME Shape, SInv, NEW t \in Tasks,
         \/ PauseHalt(t) \/ PauseCommit(t) \/ ResumeCommit(t) \/ CancelHalt(t) \/ CancelCommit(t)
  PROVE  SInv'
<1> DEFINE h == req[t]
<1>1. h.op \in {"pause", "paused", "resume", "cancel", "cancelled"} /\ HandlerOK(h) /\ IsHandler(h)
  BY DEF PauseHalt, PauseCommit, ResumeCommit, CancelHalt, CancelCommit, SInv, Shape
<1> SUFFICES ASSUME NEW r \in Runs, h.run = r, status[r] # "NONE" PROVE SInv'
  BY <1>1 DEF HandlerOK
<1>2. RunOK(r) /\ RowsOK
  BY DEF SInv
<1>3. ASSUME NEW op \in {"paused", "cancelled"}, Move(t, op), UNCHANGED <<db, starting>>,
             h.op \in {"pause", "cancel"},
             Halt(r) \/ (UNCHANGED ex /\ op = "paused" /\ h.num # 1)
      PROVE  SInv'
  <2> DEFINE q == [h EXCEPT !.op = op]
  <2>1. q.op = op /\ q.run = r /\ q.row = h.row /\ q.num = h.num /\ req' = [req EXCEPT ![t] = q]
    BY <1>1, <1>3 DEF IsHandler, Move
  <2>2. /\ \A p \in Runs \ {r} : ex'[p] = ex[p]
        /\ ex'[r] = ex[r] \/ ex'[r] = NoExec
        /\ Halted(q) => ex'[r].at = "off"
    BY <1>3, <2>1, NoneRuns DEF Halt, Shape, Halted
  <2>3. status' = [status EXCEPT ![r] = status[r]] /\ UNCHANGED <<index, rows, starting>>
    BY <1>3 DEF db, Shape
  <2>4. status[r] \in {"RUNNING", "COMPLETED"} => Going(r)
    BY DEF Going
  <2>5. Kept
    BY <2>2, <2>3, <2>4, NewStatus
  <2>7. PICK g : g = q
    OBVIOUS
  <2> HIDE DEF q
  <2>8. HandlerOK(g)'
    <3>1. g.row \in {0} \cup DOMAIN rows[r]
      BY <1>1, <1>3, <2>1, <2>7 DEF HandlerOK
    <3> QED
      BY <3>1, <1>3, <2>1, <2>2, <2>3, <2>7 DEF HandlerOK, Halted, db
  <2> QED
    BY <2>1, <2>5, <2>7, <2>8, HandlerMoves
<1>4. ASSUME NEW st \in {"PAUSED", "FAILED", "WAITING_FOR_STEP"}, status' = [status EXCEPT ![r] = st],
             req' = [req EXCEPT ![t] = Idle], UNCHANGED <<index, rejections, starting, ex>>,
             \/ UNCHANGED rows
             \/ rows' = SetRow(r, h.row, "FAILED") /\ Halted(h) /\ st # "WAITING_FOR_STEP"
      PROVE  SInv'
  <2>1. CASE UNCHANGED rows
    <3>1. Kept
      BY <1>4, <2>1, NewStatus
    <3> QED
      BY <1>4, <3>1, NoCall, HandlerMoves
  <2>2. CASE rows' = SetRow(r, h.row, "FAILED") /\ Halted(h) /\ st # "WAITING_FOR_STEP" /\ h.row # 0
    <3>1. h.row \in DOMAIN rows[r] /\ ex[r].at = "off"
      BY <1>1, <2>2 DEF HandlerOK, Halted
    <3>2. Marks(r, h.row, "FAILED")
      BY <1>2, <2>2, <3>1, SetRowMarks
    <3>3. Kept
      <4>1. ex'[r].at = "off" /\ ex'[r] = ex[r] /\ \A q \in Runs \ {r} : ex'[q] = ex[q]
        BY <1>4, <3>1
      <4> QED
        BY <1>4, <2>2, <3>1, <3>2, <4>1, Ends
    <3> QED
      BY <1>4, <3>3, NoCall, HandlerMoves
  <2> QED
    BY <1>4, <2>1, <2>2 DEF SetRow
<1>5. CASE PauseHalt(t) \/ CancelHalt(t)
  BY <1>3, <1>5 DEF PauseHalt, CancelHalt
<1>6. CASE PauseCommit(t) \/ ResumeCommit(t) \/ CancelCommit(t)
  BY <1>4, <1>6 DEF PauseCommit, ResumeCommit, CancelCommit, Halted
<1> QED
  BY <1>5, <1>6

\* A start, and a restart.
LEMMA Starts == ASSUME Shape, SInv, NEW r \in Runs, Start(r) PROVE SInv'
<1>1. CASE StartRead(r)
  <2>1. UNCHANGED <<status, index, rows, ex, req>> /\ starting' = starting \cup {r} /\ status[r] = "NONE"
    BY <1>1 DEF StartRead, db
  <2>2. \A q \in Runs : \A s : RowsOf(q, s)' = RowsOf(q, s) /\ Done(q, s)' = Done(q, s)
    BY <2>1, SameDone
  <2>3. RunOK(r)'
    BY <2>1, <2>2 DEF SInv, RunOK, ExecOK, Going, AllDone
  <2>4. \A q \in Runs \ {r} : Same(q)
    BY <2>1 DEF Same
  <2>5. \A t \in Tasks : HandlerOK(req[t])'
    BY <2>1 DEF SInv, HandlerOK, RejectOK, Halted, Succeeds
  <2> QED
    BY <2>1, <2>3, <2>4, <2>5, OneRun DEF SInv, RowsOK, OneCall, Calling
<1>2. CASE StartCommit(r)
  <2> DEFINE f == [NoExec EXCEPT !.at = "load"]
             s == [k \in 1..NSteps |-> [step |-> k - 1, st |-> "PENDING", term |-> FALSE]]
  <2>1. /\ r \in starting /\ starting' = starting \ {r} /\ status' = [status EXCEPT ![r] = "RUNNING"]
        /\ rows' = [rows EXCEPT ![r] = s] /\ ex' = [ex EXCEPT ![r] = f] /\ UNCHANGED <<index, req>>
    BY <1>2 DEF StartCommit
  <2>2. status[r] = "NONE" /\ index[r] = 0
    BY <2>1 DEF SInv, RunOK
  <2>3. s \in Seq(Row) /\ DOMAIN s = 1..NSteps /\ \A k \in 1..NSteps : s[k].step = k - 1
    <3>1. NSteps \in Nat /\ \A k \in 1..NSteps : [step |-> k - 1, st |-> "PENDING", term |-> FALSE] \in Row
      BY RunAssumption DEF Row
    <3> QED
      BY <3>1
  <2>4. f.at = "load" /\ f.sig = FALSE
    BY DEF NoExec
  <2> HIDE DEF s, f
  <2>5. /\ rows'[r] = s /\ ex'[r] = f /\ status'[r] = "RUNNING" /\ RowsOK'
        /\ \A q \in Runs \ {r} : Same(q)
    BY <2>1, <2>3 DEF SInv, RowsOK, Shape, Same
  <2>6. \A n \in Steps : RowsOf(r, n)' # {}
    <3> TAKE n \in Steps
    <3>1. n + 1 \in 1..NSteps /\ n \in Nat
      BY RunAssumption DEF Steps
    <3>2. s[n + 1].step = n
      BY <2>3, <3>1
    <3> QED
      BY <2>3, <2>5, <3>1, <3>2 DEF RowsOf
  <2>7. RunOK(r)'
    <3>1. ExecOK(r, ex[r])'
      BY <2>4, <2>5 DEF ExecOK
    <3>2. AllDone(r, index[r])'
      BY <2>1, <2>2 DEF AllDone
    <3> QED
      BY <2>1, <2>2, <2>5, <2>6, <3>1, <3>2 DEF RunOK
  <2>8. ASSUME NEW t \in Tasks, req[t].run = r PROVE HandlerOK(req[t])'
    BY <2>1, <2>2, <2>8 DEF SInv, HandlerOK
  <2> QED
    BY <2>1, <2>5, <2>7, <2>8, OneRun DEF SInv, OneCall, Calling
<1> QED
  BY <1>1, <1>2 DEF Start

LEMMA Restarts == ASSUME Shape, SInv, Restart PROVE SInv'
<1>1. /\ UNCHANGED <<index, rows>> /\ starting' = {} /\ \A r \in Runs : ex'[r] = NoExec
      /\ \A t \in Tasks : req'[t] = Idle
      /\ \A r \in Runs : status'[r] \in {status[r], "FAILED"}
      /\ \A r \in Runs : status[r] = "NONE" => status'[r] = "NONE"
      /\ \A r \in Runs : status'[r] = "NONE" => status[r] = "NONE"
  BY DEF Restart, Active
<1>2. \A q \in Runs : \A s : RowsOf(q, s)' = RowsOf(q, s) /\ Done(q, s)' = Done(q, s)
  BY <1>1, SameDone
<1>3. ASSUME NEW r \in Runs PROVE RunOK(r)'
  <2>1. ExecOK(r, ex[r])'
    BY <1>1, OffIsOK DEF ExecOK
  <2>2. Going(r)' => Going(r)
    BY <1>1, NoneRuns DEF Going
  <2> QED
    BY <1>1, <1>2, <2>1, <2>2, NoneRuns DEF SInv, RunOK, AllDone
<1>4. \A t \in Tasks : HandlerOK(req[t])'
  BY <1>1, NoCall DEF HandlerOK
<1> QED
  BY <1>1, <1>3, <1>4, NoCall DEF SInv, RowsOK, OneCall, Calling

LEMMA InitSteps == Init => SInv
<1> SUFFICES ASSUME Init PROVE SInv
  OBVIOUS
<1>1. RowsOK /\ index = [r \in Runs |-> index[r]] /\ OneCall
  BY IdleHandler DEF Init, RowsOK, OneCall, Calling
<1>2. ASSUME NEW r \in Runs PROVE RunOK(r)
  <2>1. ExecOK(r, ex[r])
    BY DEF Init, ExecOK, NoExec
  <2> QED
    BY <2>1, NoneRuns DEF Init, RunOK, Going, AllDone
<1>3. \A t \in Tasks : HandlerOK(req[t])
  BY IdleHandler DEF Init, HandlerOK
<1> QED
  BY <1>1, <1>2, <1>3 DEF SInv

LEMMA NextSteps == IInv /\ SInv /\ [Next]_vars => SInv'
<1> SUFFICES ASSUME Shape, SInv, [Next]_vars PROVE SInv'
  BY DEF IInv
<1>1. CASE UNCHANGED vars
  <2>1. \A r \in Runs : Like(ex[r], ex'[r])
    BY <1>1 DEF Like, vars
  <2>2. UNCHANGED <<db, starting, req>>
    BY <1>1 DEF vars
  <2> QED
    BY <2>1, <2>2, LikeBefore, NoHandlerMoves DEF Kept
<1>2. ASSUME NEW r \in Runs, Start(r) \/ Run(r) \/ SetupFails(r) \/ TermExits(r) \/ TermRemoved(r) PROVE SInv'
  BY <1>2, Starts, ExecutorReads, SetsUp, Completes, ExecutorGoes, TerminalGoes DEF Run
<1>3. ASSUME NEW t \in Tasks, Handle(t) PROVE SInv'
  BY <1>3, Signal, Rejects, UserStops DEF Handle
<1> QED
  BY <1>1, <1>2, <1>3, AgentCalls, UserAsks, Restarts DEF Next

\* A run that goes on, or has completed, has a completed row for every step below its index: for
\* any number of steps, runs that overlap, calls an agent makes, rejections and restarts.
THEOREM StepsInOrder == Spec => []StepsBelowDone
<1>1. SInv => StepsBelowDone
  <2>1. \A s \in Steps : s \in Nat
    BY RunAssumption DEF Steps
  <2> QED
    BY <2>1 DEF SInv, RunOK, Going, AllDone, Done, StepsBelowDone
<1>2. Spec => []SInv
  BY Invariant, InitSteps, NextSteps, PTL DEF Spec
<1> QED
  BY <1>1, <1>2, PTL

(***************************************************************************)
(* The steps of an executor, by what they leave in its fields.  Of its     *)
(* terminal the properties that follow need nothing.                       *)
(***************************************************************************)
Is(f, at, idx, st, row, sig, ok, rej, calls) ==
  /\ f.at = at /\ f.idx = idx /\ f.st = st /\ f.row = row
  /\ f.sig = sig /\ f.ok = ok /\ f.rej = rej /\ f.calls = calls

Tables(r) == status'[r] = status[r] /\ index'[r] = index[r] /\ rows'[r] = rows[r]

\* Row k of run r is now `st`, and nothing else of the rows is new.
RowSet(r, k, st) ==
  /\ DOMAIN rows'[r] = DOMAIN rows[r]
  /\ \A j \in DOMAIN rows[r] :
       /\ rows'[r][j].step = rows[r][j].step
       /\ rows'[r][j].st = IF j = k THEN st ELSE rows[r][j].st

\* The executor of run r goes on, and the tables are as they were.
Reads(r) ==
  LET e == ex[r]  f == ex'[r] IN
  /\ Tables(r)
  /\ \/ e.at = "load" /\ Is(f, "loop", index[r], status[r], e.row, e.sig, e.ok, e.rej, e.calls)
     \/ InLoop(r) /\ Is(f, "setup", e.idx, e.st, LatestRow(r, e.idx), e.sig, e.ok, e.rej, e.calls)
     \/ e.at = "ready" /\ Is(f, "wait", e.idx, e.st, e.row, FALSE, e.ok, e.rej, MaxCalls)
     \/ e.at = "ready" /\ Is(f, "checked", e.idx, e.st, e.row, e.sig, FALSE, e.rej, e.calls)
     \/ e.at = "wait" /\ Is(f, "woken", e.idx, e.st, e.row, FALSE, e.sig, e.rej, e.calls)
     \/ e.at = "woken" /\ Is(f, "fresh", index[r], status[r], e.row, e.sig, e.ok, e.rej, e.calls)
     \/ /\ e.at = "fresh"
        /\ Is(f, "checked", e.idx, e.st, e.row, e.sig, e.ok, rows[r][e.row].st = "REJECTED", e.calls)
     \/ e.at \in {"checked", "done"} /\ Is(f, "loop", e.idx, e.st, 0, e.sig, FALSE, FALSE, 0)
     \/ e.at = "loop" /\ ~InLoop(r) /\ Is(f, "final", e.idx, status[r], e.row, e.sig, e.ok, e.rej, e.calls)
     \/ Is(f, e.at, e.idx, e.st, e.row, e.sig, e.ok, e.rej, e.calls)

\* It commits its row, and goes on.
Commits(r) ==
  LET e == ex[r]  f == ex'[r] IN
  /\ status'[r] = status[r]
  /\ \/ /\ e.at = "setup" /\ index'[r] = index[r] /\ RowSet(r, e.row, "RUNNING")
        /\ Is(f, "ready", e.idx, e.st, e.row, e.sig, e.ok, e.rej, e.calls)
     \/ /\ e.at = "checked" /\ ~e.rej /\ e.ok
        /\ index'[r] = e.idx + 1 /\ RowSet(r, e.row, "COMPLETED")
        /\ Is(f, "done", e.idx + 1, e.st, e.row, e.sig, e.ok, e.rej, e.calls)

\* It ends: `to` is the row it leaves, if any.
Ended(r) ==
  LET e == ex[r] IN
  /\ e.at # "off" /\ ex'[r] = NoExec /\ index'[r] = index[r]
  /\ \/ status'[r] = "FAILED"
     \/ status'[r] = status[r] /\ e.at = "final" /\ e.st = "FAILED"
     \/ status'[r] = "COMPLETED" /\ e.at = "final" /\ e.st # "FAILED"
  /\ rows'[r] = rows[r] \/ \E k, st : RowSet(r, k, st) /\ st # "REJECTED"

\* Whatever run r does, the others and the handlers do not move.
Alone(r) == /\ UNCHANGED <<rejections, starting, req>>
            /\ \A q \in Runs \ {r} : Tables(q) /\ ex'[q] = ex[q]

LEMMA RowIsSet ==
  ASSUME RowsOK, NEW r \in Runs, NEW k \in DOMAIN rows[r], NEW w \in Row, w.step = rows[r][k].step,
         rows' = [rows EXCEPT ![r] = [@ EXCEPT ![k] = w]]
  PROVE  RowSet(r, k, w.st) /\ \A q \in Runs \ {r} : rows'[q] = rows[q]
BY DEF RowsOK, RowSet

LEMMA StatusSet ==
  ASSUME RowsOK, NEW r \in Runs, NEW k \in DOMAIN rows[r],
         NEW st \in {"RUNNING", "COMPLETED", "FAILED"}, rows' = [rows EXCEPT ![r][k].st = st]
  PROVE  RowSet(r, k, st) /\ \A q \in Runs \ {r} : rows'[q] = rows[q]
<1> DEFINE w == [rows[r][k] EXCEPT !.st = st]
<1>1. rows[r][k] \in Row
  BY DEF RowsOK
<1>2. w \in Row /\ w.step = rows[r][k].step /\ w.st = st
  BY <1>1 DEF Row
<1>3. rows' = [rows EXCEPT ![r] = [@ EXCEPT ![k] = w]]
  BY DEF RowsOK
<1> HIDE DEF w
<1> QED
  BY <1>2, <1>3, RowIsSet

LEMMA ExecutorOnly ==
  ASSUME Shape, NEW r \in Runs, NEW f, ex' = [ex EXCEPT ![r] = f], UNCHANGED <<rejections, starting, req>>
  PROVE  ex'[r] = f /\ \A q \in Runs \ {r} : ex'[q] = ex[q]
BY DEF Shape

LEMMA ReadsIs ==
  ASSUME Shape, NEW r \in Runs,
         \/ Load(r) \/ Setup(r) \/ Register(r) \/ StepRaises(r) \/ Wake(r)
         \/ RefreshRun(r) \/ RefreshStep(r) \/ Rejected(r) \/ Close(r) \/ FinalRead(r)
         \/ TermExits(r) \/ TermRemoved(r)
  PROVE  Reads(r) /\ Alone(r)
<1> DEFINE e == ex[r]
<1>1. IsExec(e)
  BY DEF Shape
<1>2. ASSUME NEW f, ex' = [ex EXCEPT ![r] = f], UNCHANGED <<db, starting, req>>
      PROVE  ex'[r] = f /\ Alone(r) /\ Tables(r)
  BY <1>2, ExecutorOnly DEF Alone, Tables, db
<1>3. CASE Load(r)
  <2> DEFINE f == [e EXCEPT !.at = "loop", !.idx = index[r], !.st = status[r]]
  <2>1. Is(f, "loop", index[r], status[r], e.row, e.sig, e.ok, e.rej, e.calls)
    BY <1>1 DEF IsExec, Is
  <2>2. ex' = [ex EXCEPT ![r] = f] /\ UNCHANGED <<db, starting, req>> /\ e.at = "load"
    BY <1>3 DEF Load
  <2> HIDE DEF f
  <2> QED
    BY <1>2, <2>1, <2>2 DEF Reads
<1>4. CASE Setup(r)
  <2> DEFINE f == [e EXCEPT !.at = "setup", !.row = LatestRow(r, e.idx), !.term = "alive"]
  <2>1. Is(f, "setup", e.idx, e.st, LatestRow(r, e.idx), e.sig, e.ok, e.rej, e.calls)
    BY <1>1 DEF IsExec, Is
  <2>2. ex' = [ex EXCEPT ![r] = f] /\ UNCHANGED <<db, starting, req>> /\ InLoop(r)
    BY <1>4 DEF Setup
  <2> HIDE DEF f
  <2> QED
    BY <1>2, <2>1, <2>2 DEF Reads
<1>5. CASE Register(r)
  <2> DEFINE f == [e EXCEPT !.at = "wait", !.sig = FALSE, !.calls = MaxCalls]
  <2>1. Is(f, "wait", e.idx, e.st, e.row, FALSE, e.ok, e.rej, MaxCalls)
    BY <1>1 DEF IsExec, Is
  <2>2. ex' = [ex EXCEPT ![r] = f] /\ UNCHANGED <<db, starting, req>> /\ e.at = "ready"
    BY <1>5 DEF Register
  <2> HIDE DEF f
  <2> QED
    BY <1>2, <2>1, <2>2 DEF Reads
<1>6. CASE StepRaises(r)
  <2> DEFINE f == [e EXCEPT !.at = "checked", !.ok = FALSE]
  <2>1. Is(f, "checked", e.idx, e.st, e.row, e.sig, FALSE, e.rej, e.calls)
    BY <1>1 DEF IsExec, Is
  <2>2. ex' = [ex EXCEPT ![r] = f] /\ UNCHANGED <<db, starting, req>> /\ e.at = "ready"
    BY <1>6 DEF StepRaises
  <2> HIDE DEF f
  <2> QED
    BY <1>2, <2>1, <2>2 DEF Reads
<1>7. CASE Wake(r)
  <2> DEFINE f == [e EXCEPT !.at = "woken", !.ok = e.sig, !.sig = FALSE]
  <2>1. Is(f, "woken", e.idx, e.st, e.row, FALSE, e.sig, e.rej, e.calls)
    BY <1>1 DEF IsExec, Is
  <2>2. ex' = [ex EXCEPT ![r] = f] /\ UNCHANGED <<db, starting, req>> /\ e.at = "wait"
    BY <1>7 DEF Wake
  <2> HIDE DEF f
  <2> QED
    BY <1>2, <2>1, <2>2 DEF Reads
<1>8. CASE RefreshRun(r)
  <2> DEFINE f == [e EXCEPT !.at = "fresh", !.idx = index[r], !.st = status[r]]
  <2>1. Is(f, "fresh", index[r], status[r], e.row, e.sig, e.ok, e.rej, e.calls)
    BY <1>1 DEF IsExec, Is
  <2>2. ex' = [ex EXCEPT ![r] = f] /\ UNCHANGED <<db, starting, req>> /\ e.at = "woken"
    BY <1>8 DEF RefreshRun
  <2> HIDE DEF f
  <2> QED
    BY <1>2, <2>1, <2>2 DEF Reads
<1>9. CASE RefreshStep(r)
  <2> DEFINE x == rows[r][e.row].st = "REJECTED"  f == [e EXCEPT !.at = "checked", !.rej = x]
  <2>1. ex' = [ex EXCEPT ![r] = f] /\ UNCHANGED <<db, starting, req>> /\ e.at = "fresh"
    BY <1>9 DEF RefreshStep
  <2>2. Is(f, "checked", e.idx, e.st, e.row, e.sig, e.ok, x, e.calls)
    <3> HIDE DEF x
    <3> QED
      BY <1>1 DEF IsExec, Is
  <2> HIDE DEF f
  <2> QED
    BY <1>2, <2>1, <2>2 DEF Reads
<1>10. CASE Rejected(r) \/ Close(r)
  <2> DEFINE f == NextStep(r)
  <2>1. Is(f, "loop", e.idx, e.st, 0, e.sig, FALSE, FALSE, 0)
    BY <1>1 DEF IsExec, Is, NextStep
  <2>2. ex' = [ex EXCEPT ![r] = f] /\ UNCHANGED <<db, starting, req>> /\ e.at \in {"checked", "done"}
    BY <1>10 DEF Rejected, Close
  <2> HIDE DEF f
  <2> QED
    BY <1>2, <2>1, <2>2 DEF Reads
<1>11. CASE FinalRead(r)
  <2> DEFINE f == [e EXCEPT !.at = "final", !.st = status[r]]
  <2>1. Is(f, "final", e.idx, status[r], e.row, e.sig, e.ok, e.rej, e.calls)
    BY <1>1 DEF IsExec, Is
  <2>2. ex' = [ex EXCEPT ![r] = f] /\ UNCHANGED <<db, starting, req>> /\ e.at = "loop" /\ ~InLoop(r)
    BY <1>11 DEF FinalRead
  <2> HIDE DEF f
  <2> QED
    BY <1>2, <2>1, <2>2 DEF Reads
<1>12. ASSUME NEW x, ex' = [ex EXCEPT ![r] = [e EXCEPT !.term = x]], UNCHANGED <<db, starting, req>>
       PROVE  Reads(r) /\ Alone(r)
  <2> DEFINE f == [e EXCEPT !.term = x]
  <2>1. Is(f, e.at, e.idx, e.st, e.row, e.sig, e.ok, e.rej, e.calls)
    BY <1>1 DEF IsExec, Is
  <2>2. ex' = [ex EXCEPT ![r] = f]
    BY <1>12
  <2> HIDE DEF f
  <2> QED
    BY <1>2, <1>12, <2>1, <2>2 DEF Reads
<1>13. CASE TermExits(r)
  BY <1>12, <1>13 DEF TermExits
<1>14. CASE TermRemoved(r)
  BY <1>12, <1>14 DEF TermRemoved
<1> QED
  BY <1>3, <1>4, <1>5, <1>6, <1>7, <1>8, <1>9, <1>10, <1>11, <1>13, <1>14

LEMMA CommitsIs ==
  ASSUME Shape, SInv, NEW r \in Runs, SetupCommit(r) \/ Complete(r) PROVE Commits(r) /\ Alone(r)
<1> DEFINE e == ex[r]
<1>1. IsExec(e) /\ RowsOK /\ ExecOK(r, e) /\ index = [q \in Runs |-> index[q]]
  BY DEF Shape, SInv, RunOK
<1>2. CASE SetupCommit(r)
  <2> DEFINE f == [e EXCEPT !.at = "ready"]
  <2>1. Is(f, "ready", e.idx, e.st, e.row, e.sig, e.ok, e.rej, e.calls)
    BY <1>1 DEF IsExec, Is
  <2>2. /\ ex' = [ex EXCEPT ![r] = f] /\ UNCHANGED <<status, index, rejections, starting, req>>
        /\ e.at = "setup" /\ e.row \in DOMAIN rows[r]
    BY <1>1, <1>2 DEF SetupCommit, ExecOK, RowsOf
  <2>3. RowSet(r, e.row, "RUNNING") /\ \A q \in Runs \ {r} : rows'[q] = rows[q]
    <3> DEFINE w == [rows[r][e.row] EXCEPT !.st = "RUNNING", !.term = TRUE]
    <3>1. rows[r][e.row] \in Row
      BY <1>1, <2>2 DEF RowsOK
    <3>2. w \in Row /\ w.step = rows[r][e.row].step /\ w.st = "RUNNING"
      BY <3>1 DEF Row
    <3>3. rows' = [rows EXCEPT ![r] = [@ EXCEPT ![e.row] = w]]
      BY <1>1, <1>2, <2>2 DEF SetupCommit, RowsOK
    <3> HIDE DEF w
    <3> QED
      BY <1>1, <2>2, <3>2, <3>3, RowIsSet
  <2> HIDE DEF f
  <2> QED
    BY <2>1, <2>2, <2>3, ExecutorOnly DEF Commits, Alone, Tables
<1>3. CASE Complete(r)
  <2> DEFINE f == [e EXCEPT !.at = "done", !.idx = @ + 1]
  <2>1. Is(f, "done", e.idx + 1, e.st, e.row, e.sig, e.ok, e.rej, e.calls)
    BY <1>1 DEF IsExec, Is
  <2>2. /\ ex' = [ex EXCEPT ![r] = f] /\ UNCHANGED <<status, rejections, starting, req>>
        /\ e.at = "checked" /\ ~e.rej /\ e.ok /\ e.row \in DOMAIN rows[r]
        /\ index' = [index EXCEPT ![r] = e.idx + 1]
        /\ rows' = [rows EXCEPT ![r][e.row].st = "COMPLETED"]
    BY <1>1, <1>3 DEF Complete, ExecOK
  <2>3. index'[r] = e.idx + 1 /\ \A q \in Runs \ {r} : index'[q] = index[q]
    BY <1>1, <2>2
  <2>4. RowSet(r, e.row, "COMPLETED") /\ \A q \in Runs \ {r} : rows'[q] = rows[q]
    BY <1>1, <2>2, StatusSet
  <2> HIDE DEF f
  <2>5. ex'[r] = f /\ \A q \in Runs \ {r} : ex'[q] = ex[q]
    BY <2>2, ExecutorOnly
  <2>6. Commits(r)
    BY <2>1, <2>2, <2>3, <2>4, <2>5 DEF Commits
  <2> QED
    BY <2>2, <2>3, <2>4, <2>5, <2>6 DEF Alone, Tables
<1> QED
  BY <1>2, <1>3

LEMMA EndedIs ==
  ASSUME Shape, SInv, NEW r \in Runs, SetupFails(r) \/ Fail(r) \/ Finish(r) PROVE Ended(r) /\ Alone(r)
<1> DEFINE e == ex[r]
<1>1. /\ ex' = [ex EXCEPT ![r] = NoExec] /\ UNCHANGED <<index, rejections, starting, req>> /\ e.at # "off"
      /\ RowsOK /\ ExecOK(r, e) /\ status = [q \in Runs |-> status[q]]
  BY DEF SetupFails, Fail, Finish, InLoop, Shape, SInv, RunOK
<1>2. ex'[r] = NoExec /\ \A q \in Runs \ {r} : ex'[q] = ex[q]
  BY <1>1, ExecutorOnly
<1>3. ASSUME NEW k \in DOMAIN rows[r], NEW st \in {"RUNNING", "FAILED"}, rows' = SetRow(r, k, st),
             status' = [status EXCEPT ![r] = "FAILED"]
      PROVE  Ended(r) /\ Alone(r)
  <2>1. k # 0
    BY <1>1 DEF RowsOK
  <2>2. rows' = [rows EXCEPT ![r][k].st = st]
    BY <1>3, <2>1 DEF SetRow
  <2>3. RowSet(r, k, st) /\ \A q \in Runs \ {r} : rows'[q] = rows[q]
    BY <1>1, <2>2, StatusSet
  <2>4. st # "REJECTED"
    OBVIOUS
  <2> QED
    BY <1>1, <1>2, <1>3, <2>3, <2>4 DEF Ended, Alone, Tables
<1>4. CASE SetupFails(r)
  <2>1. LatestRow(r, e.idx) \in DOMAIN rows[r]
    BY <1>4, LoopRow DEF SetupFails, RowsOf
  <2> QED
    BY <1>3, <1>4, <2>1 DEF SetupFails
<1>5. CASE Fail(r)
  <2>1. e.row \in DOMAIN rows[r] /\ e.row # 0
    BY <1>1, <1>5 DEF Fail, ExecOK, RowsOK
  <2> QED
    BY <1>3, <1>5, <2>1 DEF Fail, SetRow
<1>6. CASE Finish(r)
  BY <1>1, <1>2, <1>6 DEF Finish, Ended, Alone, Tables
<1> QED
  BY <1>4, <1>5, <1>6

(***************************************************************************)
(* Three rejections                                                        *)
(***************************************************************************)
Serving == {"wait", "woken", "fresh", "checked"}

\* The third rejection has failed the run.  Nothing but a rejection fails a run whose executor
\* goes on, and nothing sets it to RUNNING again.
Limit(r) ==
  LET e == ex[r] IN
  /\ rejections[r] \in 0..3
  /\ rejections[r] = 3 => status[r] # "RUNNING"
  /\ status[r] = "NONE" => rejections[r] = 0
  /\ e.at # "off" => status[r] = "RUNNING" \/ (status[r] = "FAILED" /\ rejections[r] = 3)
  /\ e.at \notin {"off", "load"} /\ e.st = "FAILED" => status[r] = "FAILED"
  /\ e.calls \in 0..MaxCalls /\ (e.calls > 0 => e.at \in Serving \cup {"done"})
  /\ e.at \in {"setup", "ready"} \cup Serving => e.idx < NSteps
  /\ e.rej \in BOOLEAN /\ (e.rej => e.at = "checked")

\* A rejection counts on from what the run has, and a request that halts nothing has nothing to halt.
Counted(q) ==
  /\ q.op = "reject" => q.num = rejections[q.run] + 1 /\ q.num \in 1..3
  /\ q.op \in {"finish", "reject"} => q.idx \in Steps
  /\ q.op = "resume" \/ (q.op \in {"pause", "paused"} /\ q.num # 1) => ex[q.run].at = "off"

LimitInv == /\ rejections = [r \in Runs |-> rejections[r]]
            /\ (\A r \in Runs : Limit(r)) /\ \A t \in Tasks : Counted(req[t])

LEMMA SameLimit ==
  ASSUME NEW r, Limit(r), status'[r] = status[r], rejections'[r] = rejections[r], ex'[r] = ex[r]
  PROVE  Limit(r)'
BY DEF Limit, Serving

LEMMA SameCounted ==
  ASSUME NEW q, Counted(q), q.op # "idle" => rejections'[q.run] = rejections[q.run],
         q.op # "idle" => (ex[q.run].at = "off" => ex'[q.run].at = "off")
  PROVE  Counted(q)'
BY DEF Counted

LEMMA OffLimit ==
  /\ NoExec.at = "off" /\ NoExec.calls = 0 /\ NoExec.rej = FALSE /\ NoExec.sig = FALSE /\ NoExec.ok = FALSE
  /\ 0 \in 0..MaxCalls
BY RunAssumption DEF NoExec

\* An executor that is off stays so, whatever it or another run does.
LEMMA ExecutorLimit ==
  ASSUME SInv, LimitInv, NEW r \in Runs, Alone(r), Limit(r)', ex[r].at = "off" => ex'[r].at = "off"
  PROVE  LimitInv'
<1>1. \A q \in Runs : Limit(q)'
  BY SameLimit DEF LimitInv, Alone, Tables
<1>2. ASSUME NEW t \in Tasks PROVE Counted(req[t])'
  <2>1. PICK q : q = req[t] /\ q = req'[t]
    BY DEF Alone
  <2>2. Counted(q) /\ (q.op # "idle" => q.run \in Runs)
    BY <2>1 DEF LimitInv, SInv, HandlerOK
  <2>3. Counted(q)'
    BY <2>2, SameCounted DEF Alone
  <2> QED
    BY <2>1, <2>3 DEF Counted
<1> QED
  BY <1>1, <1>2 DEF LimitInv, Alone

LEMMA ReadsLimit ==
  ASSUME SInv, LimitInv, NEW r \in Runs, Reads(r), Alone(r) PROVE LimitInv'
<1> DEFINE e == ex[r]  f == ex'[r]
<1>1. /\ Limit(r) /\ ExecOK(r, e) /\ index[r] \in Nat /\ NSteps \in Nat /\ MaxCalls \in Nat
      /\ status'[r] = status[r] /\ rejections'[r] = rejections[r]
  BY RunAssumption DEF LimitInv, SInv, RunOK, Reads, Tables, Alone
<1>2. Limit(r)' /\ (e.at = "off" => f.at = "off")
  <2>1. ASSUME e.at = "load", Is(f, "loop", index[r], status[r], e.row, e.sig, e.ok, e.rej, e.calls)
        PROVE  Limit(r)' /\ (e.at = "off" => f.at = "off")
    BY <1>1, <2>1 DEF Limit, Is, Serving
  <2>2. ASSUME InLoop(r), Is(f, "setup", e.idx, e.st, LatestRow(r, e.idx), e.sig, e.ok, e.rej, e.calls)
        PROVE  Limit(r)' /\ (e.at = "off" => f.at = "off")
    BY <1>1, <2>2 DEF Limit, Is, Serving, InLoop
  <2>3. ASSUME e.at = "ready", Is(f, "wait", e.idx, e.st, e.row, FALSE, e.ok, e.rej, MaxCalls)
        PROVE  Limit(r)' /\ (e.at = "off" => f.at = "off")
    BY <1>1, <2>3 DEF Limit, Is, Serving
  <2>4. ASSUME e.at = "ready", Is(f, "checked", e.idx, e.st, e.row, e.sig, FALSE, e.rej, e.calls)
        PROVE  Limit(r)' /\ (e.at = "off" => f.at = "off")
    BY <1>1, <2>4 DEF Limit, Is, Serving
  <2>5. ASSUME e.at = "wait", Is(f, "woken", e.idx, e.st, e.row, FALSE, e.sig, e.rej, e.calls)
        PROVE  Limit(r)' /\ (e.at = "off" => f.at = "off")
    BY <1>1, <2>5 DEF Limit, Is, Serving
  <2>6. ASSUME e.at = "woken", Is(f, "fresh", index[r], status[r], e.row, e.sig, e.ok, e.rej, e.calls)
        PROVE  Limit(r)' /\ (e.at = "off" => f.at = "off")
    BY <1>1, <2>6 DEF Limit, Is, Serving, ExecOK
  <2>7. ASSUME e.at = "fresh", Is(f, "checked", e.idx, e.st, e.row, e.sig, e.ok, rows[r][e.row].st = "REJECTED", e.calls)
        PROVE  Limit(r)' /\ (e.at = "off" => f.at = "off")
    BY <1>1, <2>7 DEF Limit, Is, Serving
  <2>8. ASSUME e.at \in {"checked", "done"}, Is(f, "loop", e.idx, e.st, 0, e.sig, FALSE, FALSE, 0)
        PROVE  Limit(r)' /\ (e.at = "off" => f.at = "off")
    <3>1. f.rej \in BOOLEAN /\ (f.rej => f.at = "checked")
      BY <2>8, Zenon DEF Is
    <3>2. f.at = "loop" /\ f.idx = e.idx /\ f.st = e.st /\ f.calls = 0
      BY <2>8, Zenon DEF Is
    <3> QED
      BY <1>1, <2>8, <3>1, <3>2 DEF Limit, Serving
  <2>9. ASSUME e.at = "loop", ~InLoop(r), Is(f, "final", e.idx, status[r], e.row, e.sig, e.ok, e.rej, e.calls)
        PROVE  Limit(r)' /\ (e.at = "off" => f.at = "off")
    BY <1>1, <2>9 DEF Limit, Is, Serving
  <2>10. ASSUME Is(f, e.at, e.idx, e.st, e.row, e.sig, e.ok, e.rej, e.calls)
        PROVE  Limit(r)' /\ (e.at = "off" => f.at = "off")
    BY <1>1, <2>10 DEF Limit, Is, Serving
  <2> QED
    BY <2>1, <2>2, <2>3, <2>4, <2>5, <2>6, <2>7, <2>8, <2>9, <2>10 DEF Reads
<1> QED
  BY <1>2, ExecutorLimit

LEMMA CommitsLimit ==
  ASSUME SInv, LimitInv, NEW r \in Runs, Commits(r), Alone(r) PROVE LimitInv'
<1> DEFINE e == ex[r]  f == ex'[r]
<1>1. /\ Limit(r) /\ MaxCalls \in Nat
      /\ status'[r] = status[r] /\ rejections'[r] = rejections[r]
  BY RunAssumption DEF LimitInv, Commits, Alone
<1>2. Limit(r)' /\ (e.at = "off" => f.at = "off")
  <2>1. ASSUME e.at = "setup", Is(f, "ready", e.idx, e.st, e.row, e.sig, e.ok, e.rej, e.calls)
        PROVE  Limit(r)' /\ (e.at = "off" => f.at = "off")
    BY <1>1, <2>1 DEF Limit, Is, Serving
  <2>2. ASSUME e.at = "checked", ~e.rej, Is(f, "done", e.idx + 1, e.st, e.row, e.sig, e.ok, e.rej, e.calls)
        PROVE  Limit(r)' /\ (e.at = "off" => f.at = "off")
    BY <1>1, <2>2 DEF Limit, Is, Serving
  <2> QED
    BY <2>1, <2>2 DEF Commits
<1> QED
  BY <1>2, ExecutorLimit

LEMMA EndedLimit ==
  ASSUME SInv, LimitInv, NEW r \in Runs, Ended(r), Alone(r) PROVE LimitInv'
<1>1. /\ Limit(r) /\ rejections'[r] = rejections[r] /\ ex'[r] = NoExec
      /\ status'[r] \in {status[r], "FAILED", "COMPLETED"}
      /\ status'[r] = status[r] \/ ex[r].at # "off"
  BY DEF LimitInv, Ended, Alone
<1>2. /\ ex'[r].at = "off" /\ ex'[r].calls = 0 /\ ex'[r].rej \in BOOLEAN /\ ~ex'[r].rej
      /\ 0 \in 0..MaxCalls
  BY <1>1, OffLimit
<1>3. Limit(r)'
  BY <1>1, <1>2 DEF Limit, Serving
<1> QED
  BY <1>2, <1>3, ExecutorLimit

(***************************************************************************)
(* The steps of agents and users                                           *)
(***************************************************************************)
\* A request of an agent is served: the agent of run a has one call less.
Asked(a, t, q) ==
  /\ UNCHANGED <<db, starting>>
  /\ ex[a].calls > 0 /\ \A u \in Tasks : ~Calling(u)
  /\ Is(ex'[a], ex[a].at, ex[a].idx, ex[a].st, ex[a].row, ex[a].sig, ex[a].ok, ex[a].rej, ex[a].calls - 1)
  /\ \A x \in Runs \ {a} : ex'[x] = ex[x]
  /\ req'[t] = q /\ \A u \in Tasks \ {t} : req'[u] = req[u]

\* What it is, for the run it goes to.
Asks(q) ==
  \/ q.op = "idle"
  \/ /\ q.op \in {"finish", "reject"} /\ q.run \in Runs /\ status[q.run] = "RUNNING"
     /\ index[q.run] < NSteps /\ q.idx = index[q.run]
     /\ q.op = "reject" => q.num = rejections[q.run] + 1

LEMMA CallIs ==
  ASSUME Shape, SInv, NEW a \in Runs, NEW t \in Tasks, Call(a, t)
  PROVE  \E q : Asked(a, t, q) /\ Asks(q)
<1> DEFINE r == NewestRunning
<1>1. ASSUME NEW q, Calls(a, t), Called(a, t, q) PROVE Asked(a, t, q)
  <2> DEFINE f == [ex[a] EXCEPT !.calls = @ - 1]
  <2>1. Is(f, ex[a].at, ex[a].idx, ex[a].st, ex[a].row, ex[a].sig, ex[a].ok, ex[a].rej, ex[a].calls - 1)
    BY DEF Shape, IsExec, Is
  <2>2. ex'[a] = f /\ \A x \in Runs \ {a} : ex'[x] = ex[x]
    BY <1>1 DEF Shape, Called
  <2>3. req'[t] = q /\ \A u \in Tasks \ {t} : req'[u] = req[u]
    BY <1>1 DEF Shape, Called
  <2>4. ex[a].calls > 0 /\ (\A u \in Tasks : ~Calling(u)) /\ UNCHANGED <<db, starting>>
    BY <1>1 DEF Calls, Calling, Called
  <2> HIDE DEF f
  <2> QED
    BY <2>1, <2>2, <2>3, <2>4 DEF Asked
<1>2. Asks(Idle)
  BY IdleHandler DEF Asks
<1>3. ASSUME r # 0 PROVE r \in Runs /\ status[r] = "RUNNING" /\ index[r] \in Nat
  <2>1. r \in Runs /\ status[r] = "RUNNING"
    BY <1>3, NewestIs
  <2> QED
    BY <2>1 DEF SInv, RunOK
<1>4. NSteps \in Nat
  BY RunAssumption
<1>5. CASE FinishCall(a, t)
  <2> DEFINE q == [Idle EXCEPT !.op = "finish", !.run = r, !.idx = index[r]]
  <2>1. q.op = "finish" /\ q.run = r /\ q.idx = index[r]
    BY DEF Idle
  <2>2. r # 0 /\ ~(index[r] >= NSteps) => Asks(q)
    BY <1>3, <1>4, <2>1 DEF Asks
  <2>3. Calls(a, t) /\ Called(a, t, IF r = 0 \/ index[r] >= NSteps THEN Idle ELSE q)
    BY <1>5 DEF FinishCall
  <2> HIDE DEF q
  <2> QED
    BY <1>1, <1>2, <2>2, <2>3
<1>6. CASE RejectCall(a, t)
  <2>1. CASE r = 0 \/ index[r] >= NSteps \/ RunningRow(r) = 0
    <3>1. Calls(a, t) /\ Called(a, t, Idle)
      BY <1>6, <2>1 DEF RejectCall
    <3> QED
      BY <1>1, <1>2, <3>1
  <2>2. CASE ~(r = 0 \/ index[r] >= NSteps \/ RunningRow(r) = 0)
    <3>1. PICK target \in Steps :
            Called(a, t, [op |-> "reject", to |-> target, run |-> r, idx |-> index[r],
                          row |-> RunningRow(r), num |-> rejections[r] + 1])
      BY <1>6, <2>2 DEF RejectCall
    <3> DEFINE q == [op |-> "reject", to |-> target, run |-> r, idx |-> index[r],
                     row |-> RunningRow(r), num |-> rejections[r] + 1]
    <3>2. q.op = "reject" /\ q.run = r /\ q.idx = index[r] /\ q.num = rejections[r] + 1
      OBVIOUS
    <3>3. Calls(a, t) /\ Called(a, t, q)
      BY <1>6, <3>1 DEF RejectCall
    <3> HIDE DEF q
    <3>4. Asks(q)
      BY <1>3, <1>4, <2>2, <3>2 DEF Asks
    <3> QED
      BY <1>1, <3>3, <3>4
  <2> QED
    BY <2>1, <2>2
<1> QED
  BY <1>5, <1>6 DEF Call

LEMMA AskedLimit ==
  ASSUME SInv, LimitInv, NEW a \in Runs, NEW t \in Tasks, NEW q, Asked(a, t, q), Asks(q) PROVE LimitInv'
<1>1. UNCHANGED <<status, index, rejections>>
  BY DEF Asked, db
<1>2. ASSUME NEW x \in Runs PROVE Limit(x)' /\ (ex[x].at = "off" => ex'[x].at = "off")
  <2>1. Limit(x) /\ MaxCalls \in Nat
    BY RunAssumption DEF LimitInv
  <2>2. CASE x = a
    BY <1>1, <2>1, <2>2 DEF Asked, Is, Limit, Serving
  <2>3. CASE x # a
    BY <1>1, <2>1, <2>3, SameLimit DEF Asked
  <2> QED
    BY <2>2, <2>3
<1>3. Counted(q)'
  <2>1. CASE q.op = "idle"
    BY <2>1 DEF Counted
  <2>2. CASE q.op # "idle"
    <3>1. /\ q.op \in {"finish", "reject"} /\ q.run \in Runs /\ status[q.run] = "RUNNING"
          /\ index[q.run] < NSteps /\ q.idx = index[q.run]
          /\ q.op = "reject" => q.num = rejections[q.run] + 1
      BY <2>2 DEF Asks
    <3>2. index[q.run] \in Nat /\ NSteps \in Nat /\ rejections[q.run] \in 0..2
      BY <3>1, RunAssumption DEF SInv, RunOK, LimitInv, Limit
    <3> QED
      BY <1>1, <3>1, <3>2 DEF Counted, Steps
  <2> QED
    BY <2>1, <2>2
<1>4. ASSUME NEW u \in Tasks PROVE Counted(req[u])'
  <2>1. CASE u = t
    BY <1>3, <2>1 DEF Asked, Counted
  <2>2. CASE u # t
    <3>1. PICK h : h = req[u] /\ h = req'[u] /\ Counted(h) /\ (h.op # "idle" => h.run \in Runs)
      BY <2>2 DEF Asked, LimitInv, SInv, HandlerOK
    <3>2. Counted(h)'
      BY <1>1, <1>2, <3>1, SameCounted
    <3> QED
      BY <3>1, <3>2 DEF Counted
  <2> QED
    BY <2>1, <2>2
<1> QED
  BY <1>1, <1>2, <1>4 DEF LimitInv

\* A request of a user is read.
Begun(t, q) ==
  /\ UNCHANGED <<db, starting, ex>>
  /\ req'[t] = q /\ \A u \in Tasks \ {t} : req'[u] = req[u]
  /\ q.op \in {"pause", "resume", "cancel"} /\ q.run \in Runs
  /\ q.op = "resume" \/ (q.op = "pause" /\ q.num # 1) => status[q.run] \in {"PAUSED", "WAITING_FOR_STEP"}

LEMMA BeginIs ==
  ASSUME Shape, NEW r \in Runs, NEW t \in Tasks, Begin(t, r) PROVE \E q : Begun(t, q)
<1>1. PICK kind, row : /\ Ask(kind, t, r, row) /\ kind \in {"pause", "resume", "cancel"}
                       /\ kind = "resume" => status[r] = "PAUSED"
                       /\ kind = "pause" => status[r] \in Active
  BY DEF Begin, PauseRead, ResumeRead, CancelRead
<1> DEFINE n == IF status[r] = "RUNNING" THEN 1 ELSE 0
           q == [Idle EXCEPT !.op = kind, !.run = r, !.row = row, !.num = n]
<1>2. q.op = kind /\ q.run = r /\ q.num = n
  BY DEF Idle
<1>3. req' = [req EXCEPT ![t] = q] /\ UNCHANGED <<db, starting, ex>>
  BY <1>1 DEF Ask
<1> HIDE DEF q
<1>4. req'[t] = q /\ \A u \in Tasks \ {t} : req'[u] = req[u]
  BY <1>3 DEF Shape
<1> QED
  BY <1>1, <1>2, <1>3, <1>4 DEF Begun, Active

LEMMA BegunLimit ==
  ASSUME SInv, LimitInv, NEW t \in Tasks, NEW q, Begun(t, q) PROVE LimitInv'
<1>1. UNCHANGED <<status, index, rejections, ex>>
  BY DEF Begun, db
<1>2. \A x \in Runs : Limit(x)'
  BY <1>1, SameLimit DEF LimitInv
<1>3. Counted(q)'
  <2>1. Limit(q.run)
    BY DEF LimitInv, Begun
  <2> QED
    BY <1>1, <2>1 DEF Begun, Counted, Limit
<1>4. ASSUME NEW u \in Tasks PROVE Counted(req[u])'
  <2>1. CASE u = t
    BY <1>3, <2>1 DEF Begun, Counted
  <2>2. CASE u # t
    BY <1>1, <2>2 DEF Begun, Counted, LimitInv
  <2> QED
    BY <2>1, <2>2
<1> QED
  BY <1>1, <1>2, <1>4 DEF LimitInv

\* set_step_completed(r, i): the executor of run r waits for step i and has its event set, or
\* nothing happens.
Heard(r, i) ==
  LET e == ex[r]  f == ex'[r] IN
  /\ \A q \in Runs \ {r} : ex'[q] = ex[q]
  /\ \/ /\ e.at = "wait" /\ rows[r][e.row].step = i
        /\ Is(f, "wait", e.idx, e.st, e.row, TRUE, e.ok, e.rej, e.calls)
     \/ f = e /\ ~(e.at = "wait" /\ rows[r][e.row].step = i)

LEMMA HeardIs ==
  ASSUME Shape, NEW r \in Runs, NEW i, ex' = Signalled(r, i) PROVE Heard(r, i)
<1> DEFINE e == ex[r]  f == [e EXCEPT !.sig = TRUE]
<1>1. CASE e.at = "wait" /\ rows[r][e.row].step = i
  <2>1. ex' = [ex EXCEPT ![r] = f]
    BY <1>1 DEF Signalled
  <2>2. e.at = "wait" => Is(f, "wait", e.idx, e.st, e.row, TRUE, e.ok, e.rej, e.calls)
    BY DEF Shape, IsExec, Is
  <2> HIDE DEF f
  <2>3. ex'[r] = f /\ \A q \in Runs \ {r} : ex'[q] = ex[q]
    BY <2>1 DEF Shape
  <2> QED
    BY <1>1, <2>2, <2>3 DEF Heard
<1>2. CASE ~(e.at = "wait" /\ rows[r][e.row].step = i)
  <2>1. ex' = ex
    BY <1>2 DEF Signalled
  <2> QED
    BY <1>2, <2>1 DEF Heard
<1> QED
  BY <1>1, <1>2

\* The call of an agent for run r and step i is over.
Told(t) ==
  /\ req[t].op = "finish" /\ req[t].run \in Runs
  /\ UNCHANGED <<db, starting>> /\ Heard(req[t].run, req[t].idx)
  /\ req'[t] = Idle /\ \A u \in Tasks \ {t} : req'[u] = req[u]

LEMMA ToldIs == ASSUME Shape, SInv, NEW t \in Tasks, FinishSignal(t) PROVE Told(t)
<1>1. /\ req[t].op = "finish" /\ ex' = Signalled(req[t].run, req[t].idx) /\ req' = [req EXCEPT ![t] = Idle]
      /\ UNCHANGED <<db, starting>>
  BY DEF FinishSignal
<1>2. req[t].run \in Runs
  BY <1>1 DEF SInv, HandlerOK
<1>3. req'[t] = Idle /\ \A u \in Tasks \ {t} : req'[u] = req[u]
  BY <1>1 DEF Shape
<1> QED
  BY <1>1, <1>2, <1>3, HeardIs DEF Told

\* Row k of run r is set back and another row for step `to` is under way.
RowAdded(r, k, to) ==
  \E n \in Nat \ DOMAIN rows[r] :
    /\ DOMAIN rows'[r] = DOMAIN rows[r] \cup {n}
    /\ rows'[r][n].step = to /\ rows'[r][n].st = "RUNNING"
    /\ \A j \in DOMAIN rows[r] :
         /\ rows'[r][j].step = rows[r][j].step
         /\ rows'[r][j].st = IF j = k THEN "REJECTED" ELSE rows[r][j].st

SentBack(t) ==
  LET q == req[t]  r == q.run IN
  /\ q.op = "reject" /\ r \in Runs /\ starting' = starting
  /\ Heard(r, rows[r][q.row].step) /\ RowAdded(r, q.row, q.to)
  /\ index'[r] = q.to /\ rejections' = [rejections EXCEPT ![r] = q.num]
  /\ status'[r] = IF q.num >= 3 THEN "FAILED" ELSE status[r]
  /\ \A x \in Runs \ {r} : Tables(x)
  /\ req'[t].op = "finish" /\ req'[t].run = r /\ req'[t].idx = q.idx
  /\ \A u \in Tasks \ {t} : req'[u] = req[u]

LEMMA SentBackIs == ASSUME Shape, SInv, NEW t \in Tasks, RejectCommit(t) PROVE SentBack(t)
<1> DEFINE h == req[t]
           q == [Idle EXCEPT !.op = "finish", !.run = h.run, !.idx = h.idx]
<1>1. h.op = "reject" /\ h.run \in Runs /\ h.row \in DOMAIN rows[h.run] /\ h.to \in Nat
  BY DEF RejectCommit, SInv, HandlerOK, RejectOK
<1>2. PICK r : r = h.run
  OBVIOUS
<1>3. PICK k : k = h.row
  OBVIOUS
<1>4. PICK to : to = h.to
  OBVIOUS
<1> DEFINE w == [step |-> to, st |-> "RUNNING", term |-> FALSE]
           s == [rows[r] EXCEPT ![k].st = "REJECTED"]
<1>5. /\ rows' = [rows EXCEPT ![r] = Append(s, w)] /\ index' = [index EXCEPT ![r] = to]
      /\ ex' = Signalled(r, rows[r][k].step) /\ req' = [req EXCEPT ![t] = q] /\ UNCHANGED starting
      /\ rejections' = [rejections EXCEPT ![r] = h.num]
      /\ status' = IF h.num >= 3 THEN [status EXCEPT ![r] = "FAILED"] ELSE status
  BY <1>1, <1>2, <1>3, <1>4 DEF RejectCommit, SInv, RowsOK
<1>6. RowAdded(r, k, to) /\ \A x \in Runs \ {r} : rows'[x] = rows[x]
  <2> DEFINE x == [rows[r][k] EXCEPT !.st = "REJECTED"]  n == Len(rows[r]) + 1
  <2>1. rows[r] \in Seq(Row) /\ rows[r][k] \in Row /\ k \in 1..Len(rows[r]) /\ DOMAIN rows[r] = 1..Len(rows[r])
    BY <1>1, <1>2, <1>3 DEF SInv, RowsOK
  <2>2. x \in Row /\ x.step = rows[r][k].step /\ x.st = "REJECTED" /\ w \in Row /\ w.step = to /\ w.st = "RUNNING"
    BY <1>1, <1>4, <2>1 DEF Row
  <2>3. s = [rows[r] EXCEPT ![k] = x]
    BY <2>1
  <2> HIDE DEF x, w, s
  <2>4. /\ s \in Seq(Row) /\ Len(s) = Len(rows[r])
        /\ \A j \in 1..Len(rows[r]) : s[j] = IF j = k THEN x ELSE rows[r][j]
    BY <2>1, <2>2, <2>3, ExceptSeq
  <2>5. /\ Append(s, w) \in Seq(Row) /\ Len(Append(s, w)) = Len(s) + 1
        /\ \A j \in 1..Len(s) : Append(s, w)[j] = s[j]
        /\ Append(s, w)[Len(s) + 1] = w
    BY <2>2, <2>4, AppendProperties
  <2>6. rows'[r] = Append(s, w) /\ \A p \in Runs \ {r} : rows'[p] = rows[p]
    BY <1>1, <1>2, <1>5 DEF SInv, RowsOK
  <2>7. n \in Nat \ DOMAIN rows[r] /\ DOMAIN rows'[r] = DOMAIN rows[r] \cup {n} /\ rows'[r][n] = w
    BY <2>1, <2>4, <2>5, <2>6
  <2>8. \A j \in DOMAIN rows[r] : rows'[r][j] = IF j = k THEN x ELSE rows[r][j]
    BY <2>1, <2>4, <2>5, <2>6
  <2> HIDE DEF n
  <2>9. RowAdded(r, k, to)
    BY <2>2, <2>7, <2>8 DEF RowAdded
  <2> QED
    BY <2>6, <2>9
<1>7. q.op = "finish" /\ q.run = h.run /\ q.idx = h.idx
  BY DEF Idle
<1> HIDE DEF q, w, s
<1>8. req'[t] = q /\ \A u \in Tasks \ {t} : req'[u] = req[u]
  BY <1>5 DEF Shape
<1>9. /\ index'[r] = to /\ status'[r] = IF h.num >= 3 THEN "FAILED" ELSE status[r]
      /\ \A x \in Runs \ {r} : Tables(x)
  BY <1>1, <1>2, <1>5, <1>6 DEF Shape, SInv, Tables
<1>10. Heard(r, rows[r][k].step)
  BY <1>1, <1>2, <1>5, HeardIs
<1> QED
  BY <1>1, <1>2, <1>3, <1>4, <1>5, <1>6, <1>7, <1>8, <1>9, <1>10 DEF SentBack

LEMMA HeardLimit ==
  ASSUME NEW r \in Runs, NEW i, Limit(r), Heard(r, i)
  PROVE  LET e == ex[r]  f == ex'[r] IN
         /\ f.at = e.at /\ f.st = e.st /\ f.idx = e.idx /\ f.calls = e.calls
         /\ f.rej \in BOOLEAN /\ (f.rej => f.at = "checked")
<1>1. CASE ex'[r] = ex[r]
  BY <1>1 DEF Limit
<1>2. CASE ex[r].at = "wait" /\ ex'[r] # ex[r]
  BY <1>2 DEF Limit, Heard, Is
<1> QED
  BY <1>1, <1>2 DEF Heard

LEMMA ToldLimit == ASSUME SInv, LimitInv, NEW t \in Tasks, Told(t) PROVE LimitInv'
<1>1. PICK r \in Runs : r = req[t].run
  BY DEF Told
<1>2. /\ UNCHANGED <<status, index, rejections>> /\ Heard(r, req[t].idx)
      /\ req'[t] = Idle /\ \A u \in Tasks \ {t} : req'[u] = req[u]
  BY <1>1 DEF Told, db
<1>3. ASSUME NEW x \in Runs PROVE Limit(x)' /\ ex'[x].at = ex[x].at
  <2>1. CASE x = r
    BY <1>2, <2>1, HeardLimit DEF LimitInv, Limit
  <2>2. CASE x # r
    BY <1>2, <2>2, SameLimit DEF Heard, LimitInv
  <2> QED
    BY <2>1, <2>2
<1>4. ASSUME NEW u \in Tasks PROVE Counted(req[u])'
  <2>1. CASE u = t
    BY <1>2, <2>1, IdleHandler DEF Counted
  <2>2. CASE u # t
    <3>1. PICK h : h = req[u] /\ h = req'[u] /\ Counted(h) /\ (h.op # "idle" => h.run \in Runs)
      BY <1>2, <2>2 DEF LimitInv, SInv, HandlerOK
    <3>2. Counted(h)'
      BY <1>2, <1>3, <3>1, SameCounted
    <3> QED
      BY <3>1, <3>2 DEF Counted
  <2> QED
    BY <2>1, <2>2
<1> QED
  BY <1>2, <1>3, <1>4 DEF LimitInv

LEMMA SentBackLimit == ASSUME SInv, LimitInv, NEW t \in Tasks, SentBack(t) PROVE LimitInv'
<1>1. PICK r \in Runs : r = req[t].run
  BY DEF SentBack
<1>2. PICK n : n = req[t].num
  OBVIOUS
<1>3. /\ req[t].op = "reject" /\ Heard(r, rows[r][req[t].row].step) /\ rejections' = [rejections EXCEPT ![r] = n]
      /\ status'[r] = (IF n >= 3 THEN "FAILED" ELSE status[r]) /\ \A x \in Runs \ {r} : Tables(x)
      /\ req'[t].op = "finish" /\ req'[t].run = r /\ req'[t].idx = req[t].idx
      /\ \A u \in Tasks \ {t} : req'[u] = req[u]
  BY <1>1, <1>2 DEF SentBack
<1>4. n = rejections[r] + 1 /\ n \in 1..3 /\ req[t].idx \in Steps /\ status[r] # "NONE"
  BY <1>1, <1>2, <1>3 DEF LimitInv, Counted, SInv, HandlerOK
<1>5. rejections'[r] = n /\ rejections' = [x \in Runs |-> rejections'[x]] /\ \A x \in Runs \ {r} : rejections'[x] = rejections[x]
  BY <1>3 DEF LimitInv
<1>6. ASSUME NEW x \in Runs PROVE Limit(x)' /\ ex'[x].at = ex[x].at
  <2>1. CASE x = r
    <3>1. Limit(r) /\ status'[r] = (IF n = 3 THEN "FAILED" ELSE status[r])
      BY <1>3, <1>4 DEF LimitInv
    <3>2. PICK e : e = ex[r]
      OBVIOUS
    <3>3. PICK f : f = ex'[r]
      OBVIOUS
    <3>4. /\ f.at = e.at /\ f.st = e.st /\ f.idx = e.idx /\ f.calls = e.calls
          /\ f.rej \in BOOLEAN /\ (f.rej => f.at = "checked")
      BY <1>3, <3>1, <3>2, <3>3, HeardLimit
    <3> QED
      BY <1>4, <1>5, <2>1, <3>1, <3>2, <3>3, <3>4 DEF Limit
  <2>2. CASE x # r
    BY <1>3, <1>5, <2>2, SameLimit DEF Heard, LimitInv, Tables
  <2> QED
    BY <2>1, <2>2
<1>7. ASSUME NEW u \in Tasks PROVE Counted(req[u])'
  <2>1. CASE u = t
    BY <1>3, <1>4, <2>1 DEF Counted
  <2>2. CASE u # t
    <3>1. PICK h : h = req[u] /\ h = req'[u] /\ Counted(h) /\ (h.op # "idle" => h.run \in Runs)
      BY <1>3, <2>2 DEF LimitInv, SInv, HandlerOK
    <3>2. h.op # "reject"
      BY <1>3, <2>2, <3>1 DEF SInv, OneCall, Calling
    <3>3. Counted(h)'
      BY <1>6, <3>1, <3>2 DEF Counted
    <3> QED
      BY <3>1, <3>3 DEF Counted
  <2> QED
    BY <2>1, <2>2
<1> QED
  BY <1>5, <1>6, <1>7 DEF LimitInv

(***************************************************************************)
(* The requests of a user, starts and restarts                             *)
(***************************************************************************)
\* A request halts the executor of its run, or, with the executor gone, commits.
Stopped(t) ==
  LET q == req[t]  r == q.run IN
  /\ q.op # "idle" /\ r \in Runs
  /\ UNCHANGED <<index, rejections, starting>>
  /\ \A x \in Runs \ {r} : Tables(x) /\ ex'[x] = ex[x]
  /\ ex'[r] = ex[r] \/ ex'[r] = NoExec
  /\ \A u \in Tasks \ {t} : req'[u] = req[u]
  /\ \/ /\ Tables(r) /\ req'[t].op \in {"paused", "cancelled"} /\ req'[t].run = r /\ ex'[r].at = "off"
     \/ /\ status'[r] \notin {"NONE", "RUNNING", "COMPLETED"} /\ ex[r].at = "off" /\ ex'[r] = ex[r] /\ req'[t] = Idle
        /\ rows'[r] = rows[r] \/ \E k, st : RowSet(r, k, st) /\ st # "REJECTED"

LEMMA StoppedIs ==
  ASSUME Shape, SInv, LimitInv, NEW t \in Tasks,
         \/ PauseHalt(t) \/ PauseCommit(t) \/ ResumeCommit(t) \/ CancelHalt(t) \/ CancelCommit(t)
  PROVE  Stopped(t)
<1> DEFINE h == req[t]  r == req[t].run
<1>1. h.op \in {"pause", "paused", "resume", "cancel", "cancelled"} /\ r \in Runs /\ IsHandler(h)
      /\ HandlerOK(h) /\ Counted(h)
  BY DEF PauseHalt, PauseCommit, ResumeCommit, CancelHalt, CancelCommit, SInv, Shape, HandlerOK, LimitInv
<1>2. ASSUME NEW op \in {"paused", "cancelled"}, Move(t, op), UNCHANGED <<db, starting>>,
             Halt(r) \/ (UNCHANGED ex /\ h.op = "pause" /\ h.num # 1)
      PROVE  Stopped(t)
  <2> DEFINE q == [h EXCEPT !.op = op]
  <2>1. q.op = op /\ q.run = r /\ req' = [req EXCEPT ![t] = q]
    BY <1>1, <1>2 DEF IsHandler, Move
  <2> HIDE DEF q
  <2>2. req'[t] = q /\ \A u \in Tasks \ {t} : req'[u] = req[u]
    BY <2>1 DEF Shape
  <2>3. /\ \A p \in Runs \ {r} : ex'[p] = ex[p]
        /\ ex'[r] = ex[r] \/ ex'[r] = NoExec
        /\ ex'[r].at = "off"
    BY <1>1, <1>2, NoneRuns DEF Halt, Shape, Counted
  <2>4. (\A x \in Runs : Tables(x)) /\ UNCHANGED <<index, rejections, starting>>
    BY <1>2 DEF Tables, db
  <2> QED
    BY <1>1, <2>1, <2>2, <2>3, <2>4 DEF Stopped
<1>3. ASSUME NEW st \in {"PAUSED", "FAILED", "WAITING_FOR_STEP"}, status' = [status EXCEPT ![r] = st],
             req' = [req EXCEPT ![t] = Idle], UNCHANGED <<index, rejections, starting, ex>>,
             h.op \in {"paused", "resume", "cancelled"},
             UNCHANGED rows \/ (rows' = SetRow(r, h.row, "FAILED") /\ h.op # "resume")
      PROVE  Stopped(t)
  <2>1. ex[r].at = "off"
    BY <1>1, <1>3 DEF HandlerOK, Halted, Counted
  <2>2. /\ rows'[r] = rows[r] \/ \E k, to : RowSet(r, k, to) /\ to # "REJECTED"
        /\ \A x \in Runs \ {r} : rows'[x] = rows[x]
    <3>1. CASE UNCHANGED rows
      BY <3>1
    <3>2. CASE rows' = SetRow(r, h.row, "FAILED") /\ h.row # 0 /\ h.op # "resume"
      <4>1. h.row \in DOMAIN rows[r]
        BY <1>1, <1>3, <3>2 DEF HandlerOK
      <4>2. rows' = [rows EXCEPT ![r][h.row].st = "FAILED"]
        BY <3>2 DEF SetRow
      <4>3. RowSet(r, h.row, "FAILED") /\ \A x \in Runs \ {r} : rows'[x] = rows[x]
        BY <1>1, <4>1, <4>2, StatusSet DEF SInv
      <4> QED
        BY <4>3
    <3>3. CASE rows' = SetRow(r, h.row, "FAILED") /\ h.row = 0
      BY <3>3 DEF SetRow
    <3> QED
      BY <1>3, <3>1, <3>2, <3>3
  <2>3. status'[r] = st /\ \A x \in Runs \ {r} : Tables(x) /\ ex'[x] = ex[x]
    BY <1>1, <1>3, <2>2 DEF Shape, Tables
  <2>4. req'[t] = Idle /\ \A u \in Tasks \ {t} : req'[u] = req[u]
    BY <1>3 DEF Shape
  <2> QED
    BY <1>1, <1>3, <2>1, <2>2, <2>3, <2>4 DEF Stopped
<1>4. CASE PauseHalt(t) \/ CancelHalt(t)
  BY <1>2, <1>4 DEF PauseHalt, CancelHalt
<1>5. CASE PauseCommit(t) \/ ResumeCommit(t) \/ CancelCommit(t)
  BY <1>3, <1>5 DEF PauseCommit, ResumeCommit, CancelCommit
<1> QED
  BY <1>4, <1>5

LEMMA StoppedLimit == ASSUME SInv, LimitInv, NEW t \in Tasks, Stopped(t) PROVE LimitInv'
<1>1. PICK r \in Runs : r = req[t].run
  BY DEF Stopped
<1>2. /\ UNCHANGED <<index, rejections>> /\ \A x \in Runs \ {r} : Tables(x) /\ ex'[x] = ex[x]
      /\ ex'[r] = ex[r] \/ ex'[r] = NoExec
      /\ \A u \in Tasks \ {t} : req'[u] = req[u]
  BY <1>1 DEF Stopped
<1>3. ex'[r].at = "off" /\ (status'[r] = status[r] \/ status'[r] \notin {"NONE", "RUNNING"})
  BY <1>1 DEF Stopped, Tables
<1>4. ASSUME NEW x \in Runs PROVE Limit(x)' /\ (ex[x].at = "off" => ex'[x].at = "off")
  <2>1. CASE x = r
    <3>1. Limit(r) /\ rejections'[r] = rejections[r]
      BY <1>2 DEF LimitInv
    <3>2. ex'[r].calls \in 0..MaxCalls /\ (ex'[r].calls > 0 => ex'[r].at \in Serving \cup {"done"})
      <4>1. CASE ex'[r] = NoExec
        BY <4>1, OffLimit
      <4>2. CASE ex'[r] = ex[r]
        BY <3>1, <4>2 DEF Limit
      <4> QED
        BY <1>2, <4>1, <4>2
    <3>3. ex'[r].rej \in BOOLEAN /\ (ex'[r].rej => ex'[r].at = "checked")
      <4>1. CASE ex'[r] = NoExec
        BY <4>1, OffLimit
      <4>2. CASE ex'[r] = ex[r]
        BY <3>1, <4>2 DEF Limit
      <4> QED
        BY <1>2, <4>1, <4>2
    <3> QED
      BY <1>3, <2>1, <3>1, <3>2, <3>3 DEF Limit, Serving
  <2>2. CASE x # r
    BY <1>2, <2>2, SameLimit DEF LimitInv, Tables
  <2> QED
    BY <2>1, <2>2
<1>5. ASSUME NEW u \in Tasks PROVE Counted(req[u])'
  <2>1. CASE u = t
    <3>1. (req'[t].op \in {"paused", "cancelled"} /\ req'[t].run = r) \/ req'[t].op = "idle"
      BY <1>1, IdleHandler DEF Stopped
    <3> QED
      BY <1>3, <2>1, <3>1 DEF Counted
  <2>2. CASE u # t
    <3>1. PICK h : h = req[u] /\ h = req'[u] /\ Counted(h) /\ (h.op # "idle" => h.run \in Runs)
      BY <1>2, <2>2 DEF LimitInv, SInv, HandlerOK
    <3>2. Counted(h)'
      BY <1>2, <1>4, <3>1, SameCounted
    <3> QED
      BY <3>1, <3>2 DEF Counted
  <2> QED
    BY <2>1, <2>2
<1> QED
  BY <1>2, <1>4, <1>5 DEF LimitInv

\* A run starts with a row per step, and no request is about it.
Began(r) ==
  /\ status[r] = "NONE" /\ status'[r] = "RUNNING" /\ index[r] = 0 /\ index'[r] = 0
  /\ UNCHANGED <<rejections, req>>
  /\ DOMAIN rows'[r] = 1..NSteps
  /\ \A k \in 1..NSteps : rows'[r][k].step = k - 1 /\ rows'[r][k].st = "PENDING"
  /\ Is(ex'[r], "load", 0, "RUNNING", 0, FALSE, FALSE, FALSE, 0)
  /\ \A x \in Runs \ {r} : Tables(x) /\ ex'[x] = ex[x]
  /\ \A t \in Tasks : req[t].op # "idle" => req[t].run \in Runs \ {r}

LEMMA BeganIs == ASSUME Shape, SInv, NEW r \in Runs, StartCommit(r) PROVE Began(r)
<1> DEFINE f == [NoExec EXCEPT !.at = "load"]
           s == [k \in 1..NSteps |-> [step |-> k - 1, st |-> "PENDING", term |-> FALSE]]
<1>1. /\ r \in starting /\ status' = [status EXCEPT ![r] = "RUNNING"]
      /\ rows' = [rows EXCEPT ![r] = s] /\ ex' = [ex EXCEPT ![r] = f] /\ UNCHANGED <<index, rejections, req>>
  BY DEF StartCommit
<1>2. status[r] = "NONE" /\ index[r] = 0
  BY <1>1 DEF SInv, RunOK
<1>3. DOMAIN s = 1..NSteps /\ \A k \in 1..NSteps : s[k].step = k - 1 /\ s[k].st = "PENDING"
  OBVIOUS
<1>4. Is(f, "load", 0, "RUNNING", 0, FALSE, FALSE, FALSE, 0)
  BY DEF NoExec, Is
<1> HIDE DEF s, f
<1>5. rows'[r] = s /\ ex'[r] = f /\ status'[r] = "RUNNING" /\ \A x \in Runs \ {r} : Tables(x) /\ ex'[x] = ex[x]
  BY <1>1 DEF SInv, RowsOK, Shape, Tables
<1>6. \A t \in Tasks : req[t].op # "idle" => req[t].run \in Runs \ {r}
  BY <1>2 DEF SInv, HandlerOK
<1> QED
  BY <1>1, <1>2, <1>3, <1>4, <1>5, <1>6 DEF Began

LEMMA BeganLimit == ASSUME SInv, LimitInv, NEW r \in Runs, Began(r) PROVE LimitInv'
<1>1. /\ status[r] = "NONE" /\ status'[r] = "RUNNING" /\ UNCHANGED <<rejections, req>>
      /\ \A x \in Runs \ {r} : Tables(x) /\ ex'[x] = ex[x]
      /\ \A t \in Tasks : req[t].op # "idle" => req[t].run \in Runs \ {r}
  BY DEF Began
<1>2. ex'[r].rej \in BOOLEAN /\ (ex'[r].rej => ex'[r].at = "checked")
  BY Zenon DEF Began, Is
<1>3. ex'[r].at = "load" /\ ex'[r].calls = 0
  BY Zenon DEF Began, Is
<1>4. Limit(r)'
  BY <1>1, <1>2, <1>3, OffLimit DEF LimitInv, Limit, Serving
<1>5. \A x \in Runs : Limit(x)'
  BY <1>1, <1>4, SameLimit DEF LimitInv, Tables
<1>6. ASSUME NEW u \in Tasks PROVE Counted(req[u])'
  <2>1. PICK h : h = req[u] /\ h = req'[u] /\ Counted(h) /\ (h.op # "idle" => h.run \in Runs \ {r})
    BY <1>1 DEF LimitInv
  <2>2. Counted(h)'
    BY <1>1, <2>1, SameCounted
  <2> QED
    BY <2>1, <2>2 DEF Counted
<1> QED
  BY <1>1, <1>5, <1>6 DEF LimitInv

\* The server stops and starts again.
Restarted ==
  /\ UNCHANGED <<index, rejections, rows>>
  /\ \A r \in Runs : ex'[r] = NoExec /\ status'[r] \in {status[r], "FAILED"}
  /\ \A r \in Runs : status[r] = "NONE" <=> status'[r] = "NONE"
  /\ \A t \in Tasks : req'[t] = Idle

LEMMA RestartedIs == Restart => Restarted
BY DEF Restart, Restarted, Active

LEMMA RestartedLimit == ASSUME LimitInv, Restarted PROVE LimitInv'
<1>1. ASSUME NEW r \in Runs PROVE Limit(r)'
  <2>1. ex'[r] = NoExec /\ Limit(r)
    BY DEF Restarted, LimitInv
  <2>2. ex'[r].at = "off" /\ ex'[r].calls = 0 /\ ex'[r].rej \in BOOLEAN /\ ~ex'[r].rej /\ 0 \in 0..MaxCalls
    BY <2>1, OffLimit
  <2> QED
    BY <2>1, <2>2 DEF Limit, Restarted, Serving
<1>2. \A t \in Tasks : Counted(req[t])'
  BY IdleHandler DEF Counted, Restarted
<1> QED
  BY <1>1, <1>2 DEF LimitInv, Restarted

\* Nothing but time passes: a start is read, or nothing at all happens.
Passes == UNCHANGED <<db, ex, req>>

LEMMA PassesLimit == ASSUME LimitInv, Passes PROVE LimitInv'
<1>1. UNCHANGED <<status, index, rejections, rows, ex, req>>
  BY DEF Passes, db
<1>2. \A r \in Runs : Limit(r)'
  BY <1>1, SameLimit DEF LimitInv
<1>3. \A t \in Tasks : Counted(req[t])'
  BY <1>1 DEF LimitInv, Counted
<1> QED
  BY <1>1, <1>2, <1>3 DEF LimitInv

LEMMA InitLimit == Init => LimitInv
<1>1. ASSUME Init, NEW r \in Runs PROVE Limit(r)
  <2>1. ex[r] = NoExec /\ status[r] = "NONE" /\ rejections[r] = 0
    BY <1>1 DEF Init
  <2>2. ex[r].at = "off" /\ ex[r].calls = 0 /\ ex[r].rej \in BOOLEAN /\ ~ex[r].rej /\ 0 \in 0..MaxCalls
    BY <2>1, OffLimit
  <2> QED
    BY <2>1, <2>2 DEF Limit, Serving
<1>2. ASSUME Init, NEW t \in Tasks PROVE Counted(req[t])
  BY <1>2, IdleHandler DEF Init, Counted
<1>3. Init => rejections = [r \in Runs |-> rejections[r]]
  BY DEF Init
<1> QED
  BY <1>1, <1>2, <1>3 DEF LimitInv

\* Every step is one of these.
LEMMA Cases ==
  ASSUME Shape, SInv, LimitInv, [Next]_vars
  PROVE  \/ \E r \in Runs : (Reads(r) \/ Commits(r) \/ Ended(r)) /\ Alone(r)
         \/ \E r \in Runs : Began(r)
         \/ \E q : \E a \in Runs, t \in Tasks : Asked(a, t, q) /\ Asks(q)
         \/ \E q : \E t \in Tasks : Begun(t, q)
         \/ \E t \in Tasks : Told(t) \/ SentBack(t) \/ Stopped(t)
         \/ Restarted
         \/ Passes
<1>1. ASSUME NEW r \in Runs, Start(r) PROVE Began(r) \/ Passes
  BY <1>1, BeganIs DEF Start, StartRead, Passes
<1>2. ASSUME NEW r \in Runs, Run(r) \/ SetupFails(r) \/ TermExits(r) \/ TermRemoved(r)
      PROVE  (Reads(r) \/ Commits(r) \/ Ended(r)) /\ Alone(r)
  BY <1>2, ReadsIs, CommitsIs, EndedIs DEF Run
<1>3. ASSUME NEW a \in Runs, NEW t \in Tasks, Call(a, t) PROVE \E q : Asked(a, t, q) /\ Asks(q)
  BY <1>3, CallIs
<1>4. ASSUME NEW r \in Runs, NEW t \in Tasks, Begin(t, r) PROVE \E q : Begun(t, q)
  BY <1>4, BeginIs
<1>5. ASSUME NEW t \in Tasks, Handle(t) PROVE Told(t) \/ SentBack(t) \/ Stopped(t)
  BY <1>5, ToldIs, SentBackIs, StoppedIs DEF Handle
<1>6. UNCHANGED vars => Passes
  BY DEF vars, Passes
<1> QED
  BY <1>1, <1>2, <1>3, <1>4, <1>5, <1>6, RestartedIs DEF Next

LEMMA NextLimit == IInv /\ SInv /\ LimitInv /\ [Next]_vars => LimitInv'
<1> SUFFICES ASSUME Shape, SInv, LimitInv, [Next]_vars PROVE LimitInv'
  BY DEF IInv
<1> QED
  BY Cases, ReadsLimit, CommitsLimit, EndedLimit, BeganLimit, AskedLimit, BegunLimit, ToldLimit,
     SentBackLimit, StoppedLimit, RestartedLimit, PassesLimit

\* reject_step: a run is rejected at most three times, and with the third it is no longer RUNNING,
\* whatever its executor, its agents and other requests have read before.
THEOREM ThirdIsLast == Spec => []RejectedOut
<1>1. LimitInv => RejectedOut
  BY DEF LimitInv, Limit, RejectedOut
<1>2. Init => IInv /\ SInv /\ LimitInv
  BY InitInv, InitSteps, InitLimit
<1>3. IInv /\ SInv /\ LimitInv /\ [Next]_vars => (IInv /\ SInv /\ LimitInv)'
  BY NextInv, NextSteps, NextLimit
<1> QED
  BY <1>1, <1>2, <1>3, PTL DEF Spec

\* Only the executor of a run moves its index on, and only the third rejection leaves a run that
\* has stopped to an executor.
LEMMA Onwards ==
  ASSUME IInv, SInv, LimitInv, [Next]_vars, NEW r \in Runs, status[r] # "RUNNING", rejections[r] < 3
  PROVE  index'[r] <= index[r]
<1>1. index[r] \in Nat /\ Limit(r)
  BY DEF SInv, RunOK, LimitInv
<1>2. ~Commits(r)
  BY <1>1 DEF Commits, Limit
<1>3. ASSUME NEW t \in Tasks, SentBack(t) PROVE index'[r] <= index[r]
  <2>1. CASE req[t].run = r
    <3>1. index'[r] = req[t].to /\ req[t].op = "reject"
      BY <1>3, <2>1 DEF SentBack
    <3>2. req[t].to \in Nat /\ req[t].to < index[r]
      BY <2>1, <3>1 DEF SInv, HandlerOK, RejectOK
    <3> QED
      BY <1>1, <3>1, <3>2
  <2>2. CASE req[t].run # r
    BY <1>1, <1>3, <2>2 DEF SentBack, Tables
  <2> QED
    BY <2>1, <2>2
<1>4. ASSUME NEW q \in Runs, Reads(q) \/ Commits(q) \/ Ended(q), Alone(q) PROVE index'[r] = index[r]
  BY <1>2, <1>4 DEF Alone, Reads, Ended, Tables
<1>5. \A q \in Runs : Began(q) => index'[r] = index[r]
  BY DEF Began, Tables
<1>6. \A t \in Tasks : Told(t) \/ Stopped(t) => index' = index
  BY DEF Told, Stopped, db
<1>7. \A q : \A a \in Runs, t \in Tasks : Asked(a, t, q) \/ Begun(t, q) => index' = index
  BY DEF Asked, Begun, db
<1>8. Restarted \/ Passes => index' = index
  BY DEF Restarted, Passes, db
<1> QED
  BY <1>1, <1>3, <1>4, <1>5, <1>6, <1>7, <1>8, Cases DEF IInv

\* pause_run, cancel_run, Fail and the clean-up: no step of a run that has stopped is completed,
\* for any number of steps, runs that overlap, calls an agent makes, requests and restarts; but
\* after the third rejection one may be.
THEOREM StoppedRunsStay == Spec => StoppedStays
<1>1. Init => IInv /\ SInv /\ LimitInv
  BY InitInv, InitSteps, InitLimit
<1>2. IInv /\ SInv /\ LimitInv /\ [Next]_vars => (IInv /\ SInv /\ LimitInv)'
  BY NextInv, NextSteps, NextLimit
<1> DEFINE NoStep == \A r \in Runs : status[r] # "RUNNING" /\ rejections[r] < 3 => index'[r] <= index[r]
<1>3. IInv /\ SInv /\ LimitInv /\ [Next]_vars => NoStep
  BY Onwards
<1> HIDE DEF NoStep
<1>4. Spec => [][NoStep]_vars
  BY <1>1, <1>2, <1>3, PTL DEF Spec
<1> QED
  BY <1>4 DEF StoppedStays, NoStep
=============================================================================
