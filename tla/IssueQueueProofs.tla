-------------------------- MODULE IssueQueueProofs --------------------------
(***************************************************************************)
(* Proofs about IssueQueue, for every set of issues, projects, rows and    *)
(* coroutines, and every kind of request.                                  *)
(*                                                                         *)
(* IInv is inductive.  The types need what the locals of a coroutine say   *)
(* of its rows (LocalsFit); order and uniqueness need what register has    *)
(* read to stay true until it inserts (RegisterReads), which only the lock *)
(* of its project guarantees (LocksHeld).  A step either registers a row   *)
(* or changes statuses alone (TableStep): each property has two cases.     *)
(***************************************************************************)
EXTENDS IssueQueue, FiniteSetTheorems, TLAPS

\* The two halves of TypeOK: the data, and the locals of the coroutines.
DataOK ==
  /\ status \in [Rows -> Statuses]
  /\ issueOf \in [Rows -> Issues \cup {None}]
  /\ order \in [Rows -> Nat]
  /\ setting \in BOOLEAN
  /\ enabled \in BOOLEAN
  /\ terms \in SUBSET Issues
  /\ regLock \in [Projects -> Tasks \cup {None}]
  /\ deqLock \in [Projects -> Tasks \cup {None}]

LocalsOK ==
  /\ pc \in [Tasks -> Pcs]
  /\ op \in [Tasks -> Ops]
  /\ proj \in [Tasks -> Projects \cup {None}]
  /\ iss \in [Tasks -> Issues \cup {None}]
  /\ flag \in [Tasks -> BOOLEAN]
  /\ row \in [Tasks -> Rows \cup {None}]
  /\ head \in [Tasks -> Rows \cup {None}]
  /\ max \in [Tasks -> Nat]
  /\ todo \in [Tasks -> SUBSET Rows]
  /\ stall \in [Tasks -> SUBSET Rows]
  /\ queue \in [Tasks -> SUBSET Projects]

\* A coroutine that ends leaves locals of the right types.
LEMMA EndLocals ==
  ASSUME TypeOK, NEW t \in Tasks, End(t) PROVE LocalsOK'
BY DEF TypeOK, LocalsOK, End, Goto, Set, Pcs, Ops

\* So does one that only moves on.
LEMMA GotoLocals ==
  ASSUME TypeOK, NEW t \in Tasks, NEW l \in Pcs, Goto(t, l), UNCHANGED locals PROVE LocalsOK'
BY DEF TypeOK, LocalsOK, Goto, locals, job, picks, scan

\* So does one that takes a row it has read.
LEMMA SelectLocals ==
  ASSUME TypeOK, NEW t \in Tasks, NEW S \in SUBSET Rows, NEW l \in Pcs, Select(t, S, l)
  PROVE  LocalsOK'
<1>1. PICK e \in Rows : row' = Set(row, t, e)
  BY DEF Select
<1> QED
  BY <1>1 DEF TypeOK, LocalsOK, Select, Goto, Set, job, scan

\* The reads that either move on or end the coroutine keep the types.
LEMMA ContinueType ==
  ASSUME TypeOK, NEW t \in Tasks, NEW goesOn,
         NEW l \in {"auto_pending", "auto_running", "deq_lock", "rs_select"},
         Continue(t, goesOn, l)
  PROVE  TypeOK'
<1>1. DataOK'
  BY DEF TypeOK, DataOK, Continue, table, process, locks
<1>2. CASE End(t)
  BY <1>1, <1>2, EndLocals DEF TypeOK, DataOK, LocalsOK
<1>3. CASE Goto(t, l) /\ UNCHANGED locals
  <2>1. l \in Pcs
    BY DEF Pcs
  <2> QED
    BY <1>1, <1>3, <2>1, GotoLocals DEF TypeOK, DataOK, LocalsOK
<1> QED
  BY <1>2, <1>3 DEF Continue

\* Every step keeps the types.
LEMMA TypeStep ==
  ASSUME TypeOK, RowsHaveIssues, LocalsFit, [Next]_vars PROVE TypeOK'
<1> USE QueueAssumption DEF TypeOK, Pcs, Ops, Statuses, RegisterHeld, DequeueHeld,
         At, Goto, Set, Spawn, Select,
         table, process, locks, job, picks, scan, locals
<1>1. CASE UNCHANGED vars
  BY <1>1 DEF vars, process, locks, locals
<1>2. ASSUME NEW t \in Tasks, Step(t) PROVE TypeOK'
  <2>1. CASE RegisterLock(t)
    BY <2>1 DEF RegisterLock
  <2>2. CASE RegisterExists(t)
    <3>1. DataOK'
      BY <2>2 DEF RegisterExists, RegisterRelease, DataOK
    <3>2. CASE End(t)
      BY <3>1, <3>2, EndLocals DEF DataOK, LocalsOK
    <3>3. CASE Goto(t, AfterRegister(op[t])) /\ UNCHANGED locals
      BY <3>1, <3>3, GotoLocals DEF DataOK, LocalsOK, AfterRegister
    <3> QED
      BY <2>2, <3>2, <3>3 DEF RegisterExists
  <2>3. CASE RegisterAbsent(t)
    BY <2>3 DEF RegisterAbsent
  <2>4. CASE RegisterMax(t)
    BY <2>4 DEF RegisterMax, RowsOf
  <2>5. CASE RegisterCommit(t)
    <3>1. DataOK'
      <4>1. PICK e \in Rows : /\ status'  = Set(status, e, "PENDING")
                              /\ issueOf' = Set(issueOf, e, iss[t])
                              /\ order'   = Set(order, e, max[t] + 1)
        BY <2>5 DEF RegisterCommit
      <4>2. regLock' \in [Projects -> Tasks \cup {None}]
        BY <2>5 DEF RegisterCommit, RegisterRelease
      <4>3. max[t] + 1 \in Nat
        OBVIOUS
      <4> QED
        BY <2>5, <4>1, <4>2, <4>3 DEF RegisterCommit, DataOK
    <3>2. LocalsOK'
      BY <2>5 DEF RegisterCommit, LocalsOK, AfterRegister
    <3> QED
      BY <3>1, <3>2 DEF DataOK, LocalsOK
  <2>6. CASE RegisterRefused(t)
    BY <2>6 DEF RegisterRefused, End, RegisterRelease
  <2>7. CASE Emit(t)
    BY <2>7 DEF Emit
  <2>8. CASE AutoCheck(t)
    BY <2>8, ContinueType DEF AutoCheck
  <2>9. CASE AutoPending(t)
    BY <2>9, ContinueType DEF AutoPending
  <2>10. CASE AutoRunning(t)
    BY <2>10, ContinueType DEF AutoRunning
  <2>11. CASE DequeueLock(t)
    BY <2>11 DEF DequeueLock
  <2>12. CASE GetNextPending(t)
    BY <2>12 DEF GetNextPending, PendingOf, RowsOf
  <2>13. CASE NothingPending(t)
    BY <2>13 DEF NothingPending, Release, End
  <2>14. CASE RunIssueStarts(t)
    BY <2>14 DEF RunIssueStarts, LocalsFit, Fit, NoIssue, NoProject
  <2>15. CASE RunIssueError(t)
    BY <2>15 DEF RunIssueError
  <2>16. CASE RunIssueRaises(t)
    <3>1. iss[t] \in Issues
      BY <2>16 DEF RunIssueRaises, LocalsFit, Fit, NoIssue, NoProject
    <3> QED
      BY <2>16, <3>1 DEF RunIssueRaises
  <2>17. CASE MarkRunningSelect(t)
    BY <2>17 DEF MarkRunningSelect, First, PendingFor, ActiveFor
  <2>18. CASE MarkRunningNone(t)
    BY <2>18 DEF MarkRunningNone, Release, End
  <2>19. CASE MarkRunningCommit(t)
    BY <2>19 DEF MarkRunningCommit, Release, End
  <2>20. CASE MarkRunningStale(t)
    BY <2>20 DEF MarkRunningStale, Retry
  <2>21. CASE MarkFailedRunning(t)
    <3>1. DataOK'
      BY <2>21 DEF MarkFailedRunning, DataOK
    <3>2. CASE Select(t, RunningFor(iss[t]), "mf_commit")
      BY <3>1, <3>2, SelectLocals DEF RunningFor, ActiveFor, DataOK, LocalsOK
    <3>3. CASE Goto(t, "mf_pending") /\ UNCHANGED locals
      BY <3>1, <3>3, GotoLocals DEF DataOK, LocalsOK
    <3> QED
      BY <2>21, <3>2, <3>3 DEF MarkFailedRunning
  <2>22. CASE MarkFailedPending(t)
    BY <2>22 DEF MarkFailedPending, First, PendingFor, ActiveFor
  <2>23. CASE MarkFailedNone(t)
    BY <2>23 DEF MarkFailedNone, Release, End
  <2>24. CASE MarkFailedCommit(t)
    BY <2>24 DEF MarkFailedCommit, Release, End
  <2>25. CASE MarkFailedStale(t)
    <3>1. DataOK'
      BY <2>25 DEF MarkFailedStale, Release, DataOK
    <3>2. CASE Release(t)
      BY <3>1, <3>2, EndLocals DEF Release, DataOK, LocalsOK
    <3>3. CASE Retry(t)
      BY <3>1, <3>3 DEF Retry, DataOK, LocalsOK
    <3> QED
      BY <2>25, <3>2, <3>3 DEF MarkFailedStale
  <2>26. CASE MarkDoneRunning(t)
    <3>1. DataOK'
      BY <2>26 DEF MarkDoneRunning, DataOK
    <3>2. CASE Select(t, RunningFor(iss[t]), "md_commit")
      BY <3>1, <3>2, SelectLocals DEF RunningFor, ActiveFor, DataOK, LocalsOK
    <3>3. CASE Goto(t, "md_pending") /\ UNCHANGED locals
      BY <3>1, <3>3, GotoLocals DEF DataOK, LocalsOK
    <3> QED
      BY <2>26, <3>2, <3>3 DEF MarkDoneRunning
  <2>27. CASE MarkDonePending(t)
    <3>1. DataOK'
      BY <2>27 DEF MarkDonePending, DataOK
    <3>2. CASE Select(t, First(PendingFor(iss[t])), "md_commit")
      BY <3>1, <3>2 DEF First, PendingFor, ActiveFor, DataOK, LocalsOK
    <3>3. CASE Goto(t, "deq_lock") /\ UNCHANGED locals
      BY <3>1, <3>3 DEF DataOK, LocalsOK
    <3> QED
      BY <2>27, <3>2, <3>3 DEF MarkDonePending
  <2>28. CASE MarkDoneCommit(t)
    BY <2>28 DEF MarkDoneCommit
  <2>29. CASE MarkDoneStale(t)
    BY <2>29 DEF MarkDoneStale, End
  <2>30. CASE RemoveRefused(t)
    BY <2>30 DEF RemoveRefused, End
  <2>31. CASE RemovePending(t)
    BY <2>31 DEF RemovePending, PendingFor, ActiveFor
  <2>32. CASE RemoveRunning(t)
    BY <2>32 DEF RemoveRunning, RunningFor, ActiveFor
  <2>33. CASE RemoveCommit(t)
    BY <2>33 DEF RemoveCommit, End
  <2>34. CASE ToggleCommit(t)
    <3>1. DataOK'
      BY <2>34 DEF ToggleCommit, DataOK
    <3>2. CASE End(t)
      BY <3>1, <3>2, EndLocals DEF DataOK, LocalsOK
    <3>3. CASE /\ op' = Set(op, t, "resume")
               /\ flag' = Set(flag, t, FALSE)
               /\ Goto(t, "rs_start")
               /\ UNCHANGED <<proj, iss, picks, scan>>
      BY <3>1, <3>3 DEF DataOK, LocalsOK
    <3> QED
      BY <2>34, <3>2, <3>3 DEF ToggleCommit
  <2>35. CASE ResumeStart(t)
    BY <2>35, ContinueType DEF ResumeStart
  <2>36. CASE ResumeSelect(t)
    BY <2>36 DEF ResumeSelect
  <2>37. CASE ResumeScan(t)
    <3>1. PICK e \in todo[t] :
            /\ todo' = Set(todo, t, todo[t] \ {e})
            /\ \/ UNCHANGED <<pc, proj, iss, stall>>
               \/ /\ stall' = Set(stall, t, stall[t] \cup {e})
                  /\ iss' = Set(iss, t, issueOf[e])
                  /\ proj' = Set(proj, t, ProjectOf[issueOf[e]])
                  /\ Goto(t, "reg_lock")
      BY <2>37 DEF ResumeScan
    <3>2. e \in Rows /\ issueOf[e] \in Issues /\ ProjectOf[issueOf[e]] \in Projects
      BY DEF RowsHaveIssues, LocalsFit, Fit
    <3>3. DataOK'
      BY <2>37 DEF ResumeScan, DataOK
    <3>4. LocalsOK'
      BY <2>37, <3>1, <3>2 DEF ResumeScan, LocalsOK
    <3> QED
      BY <3>3, <3>4 DEF DataOK, LocalsOK
  <2>38. CASE ResumeCommit(t)
    BY <2>38 DEF ResumeCommit
  <2>39. CASE ResumeStale(t)
    BY <2>39 DEF ResumeStale, End
  <2>40. CASE ResumeProjects(t)
    BY <2>40 DEF ResumeProjects
  <2>41. CASE ResumeSkip(t)
    BY <2>41 DEF ResumeSkip
  <2>42. CASE ResumeDispatch(t)
    BY <2>42 DEF ResumeDispatch
  <2>43. CASE ResumeDispatchLast(t)
    BY <2>43 DEF ResumeDispatchLast
  <2>44. CASE ResumeEnd(t)
    BY <2>44 DEF ResumeEnd, End
  <2>50. CASE ToggleSetting(t)
    BY <2>50 DEF ToggleSetting
  <2>51. CASE ToggleEnable(t)
    BY <2>51 DEF ToggleEnable
  <2>45. CASE Register(t)
    BY <2>45, <2>1, <2>2, <2>3, <2>4, <2>5, <2>6, <2>7 DEF Register
  <2>46. CASE Dequeue(t)
    BY <2>46, <2>8, <2>9, <2>10, <2>11, <2>12, <2>13, <2>14, <2>15, <2>16, <2>17, <2>18, <2>19, <2>20, <2>21, <2>22, <2>23, <2>24, <2>25 DEF Dequeue
  <2>47. CASE Finished(t)
    BY <2>47, <2>26, <2>27, <2>28, <2>29 DEF Finished
  <2>48. CASE Remove(t)
    BY <2>48, <2>30, <2>31, <2>32, <2>33 DEF Remove
  <2>49. CASE Resume(t)
    BY <2>49, <2>34, <2>35, <2>36, <2>37, <2>38, <2>39, <2>40, <2>41, <2>42, <2>43, <2>44, <2>50, <2>51 DEF Resume
  <2> QED
    BY <1>2, <2>45, <2>46, <2>47, <2>48, <2>49 DEF Step
<1>3. ASSUME NEW t \in Tasks, Request(t) PROVE TypeOK'
  <2>1. ASSUME NEW i \in Issues, AddRequest(t, i) PROVE TypeOK'
    BY <2>1 DEF AddRequest
  <2>2. ASSUME NEW i \in Issues, IssueFinished(t, i) PROVE TypeOK'
    BY <2>2 DEF IssueFinished
  <2>3. ASSUME NEW i \in Issues, NEW force \in BOOLEAN, RemoveRequest(t, i, force) PROVE TypeOK'
    BY <2>3 DEF RemoveRequest
  <2>4. ASSUME NEW on \in BOOLEAN, ToggleRequest(t, on) PROVE TypeOK'
    BY <2>4 DEF ToggleRequest
  <2>5. ASSUME Restart(t) PROVE TypeOK'
    BY <2>5 DEF Restart
  <2> QED
    BY <1>3, <2>1, <2>2, <2>3, <2>4, <2>5 DEF Request
<1>4. ASSUME Terminals PROVE TypeOK'
  <2>1. ASSUME NEW i \in Issues, TerminalOpens(i) PROVE TypeOK'
    BY <2>1 DEF TerminalOpens
  <2>2. ASSUME NEW i \in Issues, TerminalEnds(i) PROVE TypeOK'
    BY <2>2 DEF TerminalEnds
  <2> QED
    BY <1>4, <2>1, <2>2 DEF Terminals
<1> QED
  BY <1>1, <1>2, <1>3, <1>4 DEF Next

\* What the locals of a coroutine say of its rows, its issue and its project holds
\* after every step: a row keeps its issue, and is never again FREE.
LEMMA FitStep ==
  ASSUME TypeOK, TypeOK', RowsHaveIssues, LocalsFit, [Next]_vars PROVE RowsHaveIssues' /\ LocalsFit'
<1> USE QueueAssumption DEF TypeOK, RowsHaveIssues, LocalsFit, Fit, NoIssue, NoProject, Writing, DequeueHeld, RegisterHeld,
         At, Goto, Set, Spawn, Select,
         table, process, locks, job, picks, scan, locals
<1>1. CASE UNCHANGED vars
  BY <1>1 DEF vars, process, locks, locals
<1>2. ASSUME NEW t \in Tasks, Step(t) PROVE RowsHaveIssues' /\ LocalsFit'
  <2>1. CASE RegisterLock(t)
    BY <2>1 DEF RegisterLock
  <2>2. CASE RegisterExists(t)
    BY <2>2, SMTT(30) DEF RegisterExists, AfterRegister, RegisterRelease, End
  <2>3. CASE RegisterAbsent(t)
    BY <2>3 DEF RegisterAbsent
  <2>4. CASE RegisterMax(t)
    BY <2>4 DEF RegisterMax, RowsOf
  <2>5. CASE RegisterCommit(t)
    BY <2>5 DEF RegisterCommit, AfterRegister
  <2>6. CASE RegisterRefused(t)
    BY <2>6 DEF RegisterRefused, End, RegisterRelease
  <2>7. CASE Emit(t)
    BY <2>7 DEF Emit
  <2>8. CASE AutoCheck(t)
    BY <2>8 DEF AutoCheck, Continue, End
  <2>9. CASE AutoPending(t)
    BY <2>9 DEF AutoPending, Continue, End
  <2>10. CASE AutoRunning(t)
    BY <2>10 DEF AutoRunning, Continue, End
  <2>11. CASE DequeueLock(t)
    BY <2>11 DEF DequeueLock
  <2>12. CASE GetNextPending(t)
    BY <2>12 DEF GetNextPending, PendingOf, RowsOf
  <2>13. CASE NothingPending(t)
    BY <2>13 DEF NothingPending, Release, End
  <2>14. CASE RunIssueStarts(t)
    BY <2>14 DEF RunIssueStarts
  <2>15. CASE RunIssueError(t)
    BY <2>15 DEF RunIssueError
  <2>16. CASE RunIssueRaises(t)
    BY <2>16 DEF RunIssueRaises
  <2>17. CASE MarkRunningSelect(t)
    BY <2>17 DEF MarkRunningSelect, First, PendingFor, ActiveFor
  <2>18. CASE MarkRunningNone(t)
    BY <2>18 DEF MarkRunningNone, Release, End
  <2>19. CASE MarkRunningCommit(t)
    BY <2>19 DEF MarkRunningCommit, Release, End
  <2>20. CASE MarkRunningStale(t)
    BY <2>20 DEF MarkRunningStale, Retry
  <2>21. CASE MarkFailedRunning(t)
    BY <2>21 DEF MarkFailedRunning, RunningFor, ActiveFor
  <2>22. CASE MarkFailedPending(t)
    BY <2>22 DEF MarkFailedPending, First, PendingFor, ActiveFor
  <2>23. CASE MarkFailedNone(t)
    BY <2>23 DEF MarkFailedNone, Release, End
  <2>24. CASE MarkFailedCommit(t)
    BY <2>24 DEF MarkFailedCommit, Release, End
  <2>25. CASE MarkFailedStale(t)
    BY <2>25 DEF MarkFailedStale, Release, End, Retry
  <2>26. CASE MarkDoneRunning(t)
    BY <2>26 DEF MarkDoneRunning, RunningFor, ActiveFor
  <2>27. CASE MarkDonePending(t)
    <3>1. CASE Select(t, First(PendingFor(iss[t])), "md_commit")
      BY <2>27, <3>1 DEF MarkDonePending, First, PendingFor, ActiveFor
    <3>2. CASE Goto(t, "deq_lock") /\ UNCHANGED locals
      BY <2>27, <3>2 DEF MarkDonePending
    <3> QED
      BY <2>27, <3>1, <3>2 DEF MarkDonePending
  <2>28. CASE MarkDoneCommit(t)
    BY <2>28 DEF MarkDoneCommit
  <2>29. CASE MarkDoneStale(t)
    BY <2>29 DEF MarkDoneStale, End
  <2>30. CASE RemoveRefused(t)
    BY <2>30 DEF RemoveRefused, End
  <2>31. CASE RemovePending(t)
    BY <2>31 DEF RemovePending, PendingFor, ActiveFor
  <2>32. CASE RemoveRunning(t)
    BY <2>32 DEF RemoveRunning, RunningFor, ActiveFor
  <2>33. CASE RemoveCommit(t)
    BY <2>33 DEF RemoveCommit, End
  <2>34. CASE ToggleCommit(t)
    BY <2>34 DEF ToggleCommit, End
  <2>35. CASE ResumeStart(t)
    BY <2>35 DEF ResumeStart, Continue, End
  <2>36. CASE ResumeSelect(t)
    BY <2>36 DEF ResumeSelect
  <2>37. CASE ResumeScan(t)
    BY <2>37 DEF ResumeScan
  <2>38. CASE ResumeCommit(t)
    BY <2>38 DEF ResumeCommit
  <2>39. CASE ResumeStale(t)
    BY <2>39 DEF ResumeStale, End
  <2>40. CASE ResumeProjects(t)
    BY <2>40 DEF ResumeProjects
  <2>41. CASE ResumeSkip(t)
    BY <2>41 DEF ResumeSkip
  <2>42. CASE ResumeDispatch(t)
    BY <2>42 DEF ResumeDispatch
  <2>43. CASE ResumeDispatchLast(t)
    BY <2>43 DEF ResumeDispatchLast
  <2>44. CASE ResumeEnd(t)
    BY <2>44 DEF ResumeEnd, End
  <2>50. CASE ToggleSetting(t)
    BY <2>50 DEF ToggleSetting
  <2>51. CASE ToggleEnable(t)
    BY <2>51 DEF ToggleEnable
  <2>45. CASE Register(t)
    BY <2>45, <2>1, <2>2, <2>3, <2>4, <2>5, <2>6, <2>7 DEF Register
  <2>46. CASE Dequeue(t)
    BY <2>46, <2>8, <2>9, <2>10, <2>11, <2>12, <2>13, <2>14, <2>15, <2>16, <2>17, <2>18, <2>19, <2>20, <2>21, <2>22, <2>23, <2>24, <2>25 DEF Dequeue
  <2>47. CASE Finished(t)
    BY <2>47, <2>26, <2>27, <2>28, <2>29 DEF Finished
  <2>48. CASE Remove(t)
    BY <2>48, <2>30, <2>31, <2>32, <2>33 DEF Remove
  <2>49. CASE Resume(t)
    BY <2>49, <2>34, <2>35, <2>36, <2>37, <2>38, <2>39, <2>40, <2>41, <2>42, <2>43, <2>44, <2>50, <2>51 DEF Resume
  <2> QED
    BY <1>2, <2>45, <2>46, <2>47, <2>48, <2>49 DEF Step
<1>3. ASSUME NEW t \in Tasks, Request(t) PROVE RowsHaveIssues' /\ LocalsFit'
  <2>1. ASSUME NEW i \in Issues, AddRequest(t, i) PROVE RowsHaveIssues' /\ LocalsFit'
    BY <2>1 DEF AddRequest
  <2>2. ASSUME NEW i \in Issues, IssueFinished(t, i) PROVE RowsHaveIssues' /\ LocalsFit'
    BY <2>2 DEF IssueFinished
  <2>3. ASSUME NEW i \in Issues, NEW force \in BOOLEAN, RemoveRequest(t, i, force) PROVE RowsHaveIssues' /\ LocalsFit'
    BY <2>3 DEF RemoveRequest
  <2>4. ASSUME NEW on \in BOOLEAN, ToggleRequest(t, on) PROVE RowsHaveIssues' /\ LocalsFit'
    BY <2>4 DEF ToggleRequest
  <2>5. ASSUME Restart(t) PROVE RowsHaveIssues' /\ LocalsFit'
    BY <2>5 DEF Restart
  <2> QED
    BY <1>3, <2>1, <2>2, <2>3, <2>4, <2>5 DEF Request
<1>4. ASSUME Terminals PROVE RowsHaveIssues' /\ LocalsFit'
  <2>1. ASSUME NEW i \in Issues, TerminalOpens(i) PROVE RowsHaveIssues' /\ LocalsFit'
    BY <2>1 DEF TerminalOpens
  <2>2. ASSUME NEW i \in Issues, TerminalEnds(i) PROVE RowsHaveIssues' /\ LocalsFit'
    BY <2>2 DEF TerminalEnds
  <2> QED
    BY <1>4, <2>1, <2>2 DEF Terminals
<1> QED
  BY <1>1, <1>2, <1>3, <1>4 DEF Next

\* A coroutine enters a critical section with the lock, and leaves it as it gives
\* the lock back; nobody else touches the lock meanwhile.
LEMMA LocksStep ==
  ASSUME TypeOK, LocalsFit, LocksHeld, [Next]_vars PROVE LocksHeld'
<1> USE QueueAssumption DEF TypeOK, LocalsFit, Fit, LocksHeld, NoIssue, NoProject, DequeueHeld, RegisterHeld,
         At, Goto, Set, Spawn, Select,
         table, process, locks, job, picks, scan, locals
<1>1. CASE UNCHANGED vars
  BY <1>1 DEF vars, process, locks, locals
<1>2. ASSUME NEW t \in Tasks, Step(t) PROVE LocksHeld'
  <2>1. CASE RegisterLock(t)
    BY <2>1 DEF RegisterLock
  <2>2. CASE RegisterExists(t)
    BY <2>2 DEF RegisterExists, AfterRegister, RegisterRelease, End
  <2>3. CASE RegisterAbsent(t)
    BY <2>3 DEF RegisterAbsent
  <2>4. CASE RegisterMax(t)
    BY <2>4 DEF RegisterMax, RowsOf
  <2>5. CASE RegisterCommit(t)
    <3>1. AfterRegister(op[t]) \notin RegisterHeld \cup DequeueHeld
      BY DEF AfterRegister
    <3>2. /\ regLock' = Set(regLock, proj[t], None)
          /\ Goto(t, AfterRegister(op[t]))
          /\ UNCHANGED <<deqLock, proj>>
      BY <2>5 DEF RegisterCommit, RegisterRelease
    <3>3. \A u \in Tasks : u # t /\ pc[u] \in RegisterHeld => proj[u] # proj[t] /\ proj[u] \in Projects
      BY <2>5, SMTT(30) DEF RegisterCommit
    <3>4. pc'[t] \notin RegisterHeld \cup DequeueHeld /\ \A u \in Tasks : u # t => pc'[u] = pc[u]
      BY <3>1, <3>2
    <3>5. \A u \in Tasks : u # t /\ pc[u] \in RegisterHeld => regLock'[proj[u]] = regLock[proj[u]]
      BY <3>2, <3>3
    <3> QED
      BY <3>2, <3>4, <3>5
  <2>6. CASE RegisterRefused(t)
    BY <2>6 DEF RegisterRefused, End, RegisterRelease
  <2>7. CASE Emit(t)
    BY <2>7 DEF Emit
  <2>8. CASE AutoCheck(t)
    BY <2>8 DEF AutoCheck, Continue, End
  <2>9. CASE AutoPending(t)
    BY <2>9 DEF AutoPending, Continue, End
  <2>10. CASE AutoRunning(t)
    BY <2>10 DEF AutoRunning, Continue, End
  <2>11. CASE DequeueLock(t)
    BY <2>11 DEF DequeueLock
  <2>12. CASE GetNextPending(t)
    BY <2>12 DEF GetNextPending, PendingOf, RowsOf
  <2>13. CASE NothingPending(t)
    BY <2>13 DEF NothingPending, Release, End
  <2>14. CASE RunIssueStarts(t)
    BY <2>14 DEF RunIssueStarts
  <2>15. CASE RunIssueError(t)
    BY <2>15 DEF RunIssueError
  <2>16. CASE RunIssueRaises(t)
    BY <2>16 DEF RunIssueRaises
  <2>17. CASE MarkRunningSelect(t)
    BY <2>17 DEF MarkRunningSelect, First, PendingFor, ActiveFor
  <2>18. CASE MarkRunningNone(t)
    BY <2>18 DEF MarkRunningNone, Release, End
  <2>19. CASE MarkRunningCommit(t)
    BY <2>19 DEF MarkRunningCommit, Release, End
  <2>20. CASE MarkRunningStale(t)
    BY <2>20 DEF MarkRunningStale, Retry
  <2>21. CASE MarkFailedRunning(t)
    BY <2>21 DEF MarkFailedRunning, RunningFor, ActiveFor
  <2>22. CASE MarkFailedPending(t)
    BY <2>22 DEF MarkFailedPending, First, PendingFor, ActiveFor
  <2>23. CASE MarkFailedNone(t)
    BY <2>23 DEF MarkFailedNone, Release, End
  <2>24. CASE MarkFailedCommit(t)
    BY <2>24 DEF MarkFailedCommit, Release, End
  <2>25. CASE MarkFailedStale(t)
    <3>1. CASE Release(t)
      BY <2>25, <3>1 DEF MarkFailedStale, Release, End
    <3>2. CASE Retry(t) /\ UNCHANGED deqLock
      BY <2>25, <3>2 DEF MarkFailedStale, Retry
    <3> QED
      BY <2>25, <3>1, <3>2 DEF MarkFailedStale
  <2>26. CASE MarkDoneRunning(t)
    BY <2>26 DEF MarkDoneRunning, RunningFor, ActiveFor
  <2>27. CASE MarkDonePending(t)
    BY <2>27 DEF MarkDonePending, First, PendingFor, ActiveFor
  <2>28. CASE MarkDoneCommit(t)
    BY <2>28 DEF MarkDoneCommit
  <2>29. CASE MarkDoneStale(t)
    BY <2>29 DEF MarkDoneStale, End
  <2>30. CASE RemoveRefused(t)
    BY <2>30 DEF RemoveRefused, End
  <2>31. CASE RemovePending(t)
    BY <2>31 DEF RemovePending, PendingFor, ActiveFor
  <2>32. CASE RemoveRunning(t)
    BY <2>32 DEF RemoveRunning, RunningFor, ActiveFor
  <2>33. CASE RemoveCommit(t)
    BY <2>33 DEF RemoveCommit, End
  <2>34. CASE ToggleCommit(t)
    BY <2>34 DEF ToggleCommit, End
  <2>35. CASE ResumeStart(t)
    BY <2>35 DEF ResumeStart, Continue, End
  <2>36. CASE ResumeSelect(t)
    BY <2>36 DEF ResumeSelect
  <2>37. CASE ResumeScan(t)
    BY <2>37 DEF ResumeScan
  <2>38. CASE ResumeCommit(t)
    BY <2>38 DEF ResumeCommit
  <2>39. CASE ResumeStale(t)
    BY <2>39 DEF ResumeStale, End
  <2>40. CASE ResumeProjects(t)
    BY <2>40 DEF ResumeProjects
  <2>41. CASE ResumeSkip(t)
    BY <2>41 DEF ResumeSkip
  <2>42. CASE ResumeDispatch(t)
    BY <2>42 DEF ResumeDispatch
  <2>43. CASE ResumeDispatchLast(t)
    BY <2>43 DEF ResumeDispatchLast
  <2>44. CASE ResumeEnd(t)
    BY <2>44 DEF ResumeEnd, End
  <2>50. CASE ToggleSetting(t)
    BY <2>50 DEF ToggleSetting
  <2>51. CASE ToggleEnable(t)
    BY <2>51 DEF ToggleEnable
  <2>45. CASE Register(t)
    BY <2>45, <2>1, <2>2, <2>3, <2>4, <2>5, <2>6, <2>7 DEF Register
  <2>46. CASE Dequeue(t)
    BY <2>46, <2>8, <2>9, <2>10, <2>11, <2>12, <2>13, <2>14, <2>15, <2>16, <2>17, <2>18, <2>19, <2>20, <2>21, <2>22, <2>23, <2>24, <2>25 DEF Dequeue
  <2>47. CASE Finished(t)
    BY <2>47, <2>26, <2>27, <2>28, <2>29 DEF Finished
  <2>48. CASE Remove(t)
    BY <2>48, <2>30, <2>31, <2>32, <2>33 DEF Remove
  <2>49. CASE Resume(t)
    BY <2>49, <2>34, <2>35, <2>36, <2>37, <2>38, <2>39, <2>40, <2>41, <2>42, <2>43, <2>44, <2>50, <2>51 DEF Resume
  <2> QED
    BY <1>2, <2>45, <2>46, <2>47, <2>48, <2>49 DEF Step
<1>3. ASSUME NEW t \in Tasks, Request(t) PROVE LocksHeld'
  <2>1. ASSUME NEW i \in Issues, AddRequest(t, i) PROVE LocksHeld'
    BY <2>1 DEF AddRequest
  <2>2. ASSUME NEW i \in Issues, IssueFinished(t, i) PROVE LocksHeld'
    BY <2>2 DEF IssueFinished
  <2>3. ASSUME NEW i \in Issues, NEW force \in BOOLEAN, RemoveRequest(t, i, force) PROVE LocksHeld'
    BY <2>3 DEF RemoveRequest
  <2>4. ASSUME NEW on \in BOOLEAN, ToggleRequest(t, on) PROVE LocksHeld'
    BY <2>4 DEF ToggleRequest
  <2>5. ASSUME Restart(t) PROVE LocksHeld'
    BY <2>5 DEF Restart
  <2> QED
    BY <1>3, <2>1, <2>2, <2>3, <2>4, <2>5 DEF Request
<1>4. ASSUME Terminals PROVE LocksHeld'
  <2>1. ASSUME NEW i \in Issues, TerminalOpens(i) PROVE LocksHeld'
    BY <2>1 DEF TerminalOpens
  <2>2. ASSUME NEW i \in Issues, TerminalEnds(i) PROVE LocksHeld'
    BY <2>2 DEF TerminalEnds
  <2> QED
    BY <1>4, <2>1, <2>2 DEF Terminals
<1> QED
  BY <1>1, <1>2, <1>3, <1>4 DEF Next

\* A step that registers nothing changes no row but for its status, and brings no
\* row to PENDING or back from FREE or DELETED.
StatusOnly ==
  /\ UNCHANGED <<issueOf, order>>
  /\ \A e \in Rows :
       \/ status'[e] = status[e]
       \/ status[e] \notin {"FREE", "DELETED"} /\ status'[e] \notin {"FREE", "PENDING"}

\* Only the commit of register adds to the queue.
LEMMA TableStep ==
  ASSUME TypeOK, LocalsFit, [Next]_vars PROVE StatusOnly \/ \E u \in Tasks : RegisterCommit(u)
<1> USE QueueAssumption DEF TypeOK, LocalsFit, Fit, StatusOnly, Writing, table, process, Spawn, Select
<1>1. CASE UNCHANGED vars
  BY <1>1 DEF vars, process, locks, locals
<1>2. ASSUME NEW t \in Tasks, Step(t) PROVE StatusOnly \/ \E u \in Tasks : RegisterCommit(u)
  <2>1. CASE RegisterLock(t)
    BY <2>1 DEF RegisterLock
  <2>2. CASE RegisterExists(t)
    BY <2>2 DEF RegisterExists, AfterRegister, RegisterRelease, End
  <2>3. CASE RegisterAbsent(t)
    BY <2>3 DEF RegisterAbsent
  <2>4. CASE RegisterMax(t)
    BY <2>4 DEF RegisterMax, RowsOf
  <2>5. CASE RegisterCommit(t)
    BY <2>5
  <2>6. CASE RegisterRefused(t)
    BY <2>6 DEF RegisterRefused, End, RegisterRelease
  <2>7. CASE Emit(t)
    BY <2>7 DEF Emit
  <2>8. CASE AutoCheck(t)
    BY <2>8 DEF AutoCheck, Continue
  <2>9. CASE AutoPending(t)
    BY <2>9 DEF AutoPending, Continue
  <2>10. CASE AutoRunning(t)
    BY <2>10 DEF AutoRunning, Continue
  <2>11. CASE DequeueLock(t)
    BY <2>11 DEF DequeueLock
  <2>12. CASE GetNextPending(t)
    BY <2>12 DEF GetNextPending, PendingOf, RowsOf
  <2>13. CASE NothingPending(t)
    BY <2>13 DEF NothingPending, Release, End
  <2>14. CASE RunIssueStarts(t)
    BY <2>14 DEF RunIssueStarts
  <2>15. CASE RunIssueError(t)
    BY <2>15 DEF RunIssueError
  <2>16. CASE RunIssueRaises(t)
    BY <2>16 DEF RunIssueRaises
  <2>17. CASE MarkRunningSelect(t)
    BY <2>17 DEF MarkRunningSelect
  <2>18. CASE MarkRunningNone(t)
    BY <2>18 DEF MarkRunningNone, Release, End
  <2>19. CASE MarkRunningCommit(t)
    <3>1. row[t] \in Rows /\ status[row[t]] # "FREE"
      BY <2>19 DEF MarkRunningCommit, At
    <3> QED
      BY <2>19, <3>1 DEF MarkRunningCommit, Set
  <2>20. CASE MarkRunningStale(t)
    BY <2>20 DEF MarkRunningStale, Retry
  <2>21. CASE MarkFailedRunning(t)
    BY <2>21 DEF MarkFailedRunning
  <2>22. CASE MarkFailedPending(t)
    BY <2>22 DEF MarkFailedPending
  <2>23. CASE MarkFailedNone(t)
    BY <2>23 DEF MarkFailedNone, Release, End
  <2>24. CASE MarkFailedCommit(t)
    <3>1. row[t] \in Rows /\ status[row[t]] # "FREE"
      BY <2>24 DEF MarkFailedCommit, At
    <3> QED
      BY <2>24, <3>1 DEF MarkFailedCommit, Set
  <2>25. CASE MarkFailedStale(t)
    BY <2>25 DEF MarkFailedStale, Release, End, Retry
  <2>26. CASE MarkDoneRunning(t)
    BY <2>26 DEF MarkDoneRunning
  <2>27. CASE MarkDonePending(t)
    BY <2>27 DEF MarkDonePending
  <2>28. CASE MarkDoneCommit(t)
    <3>1. row[t] \in Rows /\ status[row[t]] # "FREE"
      BY <2>28 DEF MarkDoneCommit, At
    <3> QED
      BY <2>28, <3>1 DEF MarkDoneCommit, Set
  <2>29. CASE MarkDoneStale(t)
    BY <2>29 DEF MarkDoneStale, End
  <2>30. CASE RemoveRefused(t)
    BY <2>30 DEF RemoveRefused, End
  <2>31. CASE RemovePending(t)
    BY <2>31 DEF RemovePending
  <2>32. CASE RemoveRunning(t)
    BY <2>32 DEF RemoveRunning
  <2>33. CASE RemoveCommit(t)
    <3>1. row[t] \in Rows /\ status[row[t]] # "FREE"
      BY <2>33 DEF RemoveCommit, At
    <3> QED
      BY <2>33, <3>1 DEF RemoveCommit, Set
  <2>34. CASE ToggleCommit(t)
    BY <2>34 DEF ToggleCommit, End
  <2>35. CASE ResumeStart(t)
    BY <2>35 DEF ResumeStart, Continue
  <2>36. CASE ResumeSelect(t)
    BY <2>36 DEF ResumeSelect
  <2>37. CASE ResumeScan(t)
    BY <2>37 DEF ResumeScan
  <2>38. CASE ResumeCommit(t)
    BY <2>38 DEF ResumeCommit
  <2>39. CASE ResumeStale(t)
    BY <2>39 DEF ResumeStale, End
  <2>40. CASE ResumeProjects(t)
    BY <2>40 DEF ResumeProjects
  <2>41. CASE ResumeSkip(t)
    BY <2>41 DEF ResumeSkip
  <2>42. CASE ResumeDispatch(t)
    BY <2>42 DEF ResumeDispatch
  <2>43. CASE ResumeDispatchLast(t)
    BY <2>43 DEF ResumeDispatchLast
  <2>44. CASE ResumeEnd(t)
    BY <2>44 DEF ResumeEnd, End
  <2>50. CASE ToggleSetting(t)
    BY <2>50 DEF ToggleSetting
  <2>51. CASE ToggleEnable(t)
    BY <2>51 DEF ToggleEnable
  <2>45. CASE Register(t)
    BY <2>45, <2>1, <2>2, <2>3, <2>4, <2>5, <2>6, <2>7 DEF Register
  <2>46. CASE Dequeue(t)
    BY <2>46, <2>8, <2>9, <2>10, <2>11, <2>12, <2>13, <2>14, <2>15, <2>16, <2>17, <2>18, <2>19, <2>20, <2>21, <2>22, <2>23, <2>24, <2>25 DEF Dequeue
  <2>47. CASE Finished(t)
    BY <2>47, <2>26, <2>27, <2>28, <2>29 DEF Finished
  <2>48. CASE Remove(t)
    BY <2>48, <2>30, <2>31, <2>32, <2>33 DEF Remove
  <2>49. CASE Resume(t)
    BY <2>49, <2>34, <2>35, <2>36, <2>37, <2>38, <2>39, <2>40, <2>41, <2>42, <2>43, <2>44, <2>50, <2>51 DEF Resume
  <2> QED
    BY <1>2, <2>45, <2>46, <2>47, <2>48, <2>49 DEF Step
<1>3. ASSUME NEW t \in Tasks, Request(t) PROVE StatusOnly \/ \E u \in Tasks : RegisterCommit(u)
  <2>1. ASSUME NEW i \in Issues, AddRequest(t, i) PROVE StatusOnly \/ \E u \in Tasks : RegisterCommit(u)
    BY <2>1 DEF AddRequest
  <2>2. ASSUME NEW i \in Issues, IssueFinished(t, i) PROVE StatusOnly \/ \E u \in Tasks : RegisterCommit(u)
    BY <2>2 DEF IssueFinished
  <2>3. ASSUME NEW i \in Issues, NEW force \in BOOLEAN, RemoveRequest(t, i, force) PROVE StatusOnly \/ \E u \in Tasks : RegisterCommit(u)
    BY <2>3 DEF RemoveRequest
  <2>4. ASSUME NEW on \in BOOLEAN, ToggleRequest(t, on) PROVE StatusOnly \/ \E u \in Tasks : RegisterCommit(u)
    BY <2>4 DEF ToggleRequest
  <2>5. ASSUME Restart(t) PROVE StatusOnly \/ \E u \in Tasks : RegisterCommit(u)
    BY <2>5 DEF Restart
  <2> QED
    BY <1>3, <2>1, <2>2, <2>3, <2>4, <2>5 DEF Request
<1>4. ASSUME Terminals PROVE StatusOnly \/ \E u \in Tasks : RegisterCommit(u)
  <2>1. ASSUME NEW i \in Issues, TerminalOpens(i) PROVE StatusOnly \/ \E u \in Tasks : RegisterCommit(u)
    BY <2>1 DEF TerminalOpens
  <2>2. ASSUME NEW i \in Issues, TerminalEnds(i) PROVE StatusOnly \/ \E u \in Tasks : RegisterCommit(u)
    BY <2>2 DEF TerminalEnds
  <2> QED
    BY <1>4, <2>1, <2>2 DEF Terminals
<1> QED
  BY <1>1, <1>2, <1>3, <1>4 DEF Next


\* A coroutine is past register's reads only if it was, or has just made one.
ReadsKept ==
  \A u \in Tasks :
    /\ pc'[u] = "reg_max" =>
         \/ RegisterAbsent(u)
         \/ pc[u] = "reg_max" /\ iss'[u] = iss[u] /\ proj'[u] = proj[u]
    /\ pc'[u] = "reg_commit" =>
         \/ RegisterMax(u)
         \/ /\ pc[u] = "reg_commit"
            /\ iss'[u] = iss[u] /\ proj'[u] = proj[u] /\ max'[u] = max[u]

\* Every step leaves what register has read to the coroutine that read it.
LEMMA ReadsKeptStep ==
  ASSUME TypeOK, [Next]_vars PROVE ReadsKept
<1> USE QueueAssumption DEF TypeOK, ReadsKept,
         At, Goto, Set, Spawn, Select,
         table, process, locks, job, picks, scan, locals
<1>1. CASE UNCHANGED vars
  BY <1>1 DEF vars, process, locks, locals
<1>2. ASSUME NEW t \in Tasks, Step(t) PROVE ReadsKept
  <2>1. CASE RegisterLock(t)
    BY <2>1 DEF RegisterLock
  <2>2. CASE RegisterExists(t)
    BY <2>2 DEF RegisterExists, AfterRegister, RegisterRelease, End
  <2>3. CASE RegisterAbsent(t)
    BY <2>3 DEF RegisterAbsent
  <2>4. CASE RegisterMax(t)
    BY <2>4 DEF RegisterMax
  <2>5. CASE RegisterCommit(t)
    BY <2>5 DEF RegisterCommit, AfterRegister
  <2>6. CASE RegisterRefused(t)
    BY <2>6 DEF RegisterRefused, End, RegisterRelease
  <2>7. CASE Emit(t)
    BY <2>7 DEF Emit
  <2>8. CASE AutoCheck(t)
    BY <2>8 DEF AutoCheck, Continue, End
  <2>9. CASE AutoPending(t)
    BY <2>9 DEF AutoPending, Continue, End
  <2>10. CASE AutoRunning(t)
    BY <2>10 DEF AutoRunning, Continue, End
  <2>11. CASE DequeueLock(t)
    BY <2>11 DEF DequeueLock
  <2>12. CASE GetNextPending(t)
    BY <2>12 DEF GetNextPending
  <2>13. CASE NothingPending(t)
    BY <2>13 DEF NothingPending, Release, End
  <2>14. CASE RunIssueStarts(t)
    BY <2>14 DEF RunIssueStarts
  <2>15. CASE RunIssueError(t)
    BY <2>15 DEF RunIssueError
  <2>16. CASE RunIssueRaises(t)
    BY <2>16 DEF RunIssueRaises
  <2>17. CASE MarkRunningSelect(t)
    BY <2>17 DEF MarkRunningSelect
  <2>18. CASE MarkRunningNone(t)
    BY <2>18 DEF MarkRunningNone, Release, End
  <2>19. CASE MarkRunningCommit(t)
    BY <2>19 DEF MarkRunningCommit, Release, End
  <2>20. CASE MarkRunningStale(t)
    BY <2>20 DEF MarkRunningStale, Retry
  <2>21. CASE MarkFailedRunning(t)
    BY <2>21 DEF MarkFailedRunning
  <2>22. CASE MarkFailedPending(t)
    BY <2>22 DEF MarkFailedPending
  <2>23. CASE MarkFailedNone(t)
    BY <2>23 DEF MarkFailedNone, Release, End
  <2>24. CASE MarkFailedCommit(t)
    BY <2>24 DEF MarkFailedCommit, Release, End
  <2>25. CASE MarkFailedStale(t)
    BY <2>25 DEF MarkFailedStale, Release, End, Retry
  <2>26. CASE MarkDoneRunning(t)
    BY <2>26 DEF MarkDoneRunning
  <2>27. CASE MarkDonePending(t)
    BY <2>27 DEF MarkDonePending
  <2>28. CASE MarkDoneCommit(t)
    BY <2>28 DEF MarkDoneCommit
  <2>29. CASE MarkDoneStale(t)
    BY <2>29 DEF MarkDoneStale, End
  <2>30. CASE RemoveRefused(t)
    BY <2>30 DEF RemoveRefused, End
  <2>31. CASE RemovePending(t)
    BY <2>31 DEF RemovePending
  <2>32. CASE RemoveRunning(t)
    BY <2>32 DEF RemoveRunning
  <2>33. CASE RemoveCommit(t)
    BY <2>33 DEF RemoveCommit, End
  <2>34. CASE ToggleCommit(t)
    BY <2>34 DEF ToggleCommit, End
  <2>35. CASE ResumeStart(t)
    BY <2>35 DEF ResumeStart, Continue, End
  <2>36. CASE ResumeSelect(t)
    BY <2>36 DEF ResumeSelect
  <2>37. CASE ResumeScan(t)
    BY <2>37 DEF ResumeScan
  <2>38. CASE ResumeCommit(t)
    BY <2>38 DEF ResumeCommit
  <2>39. CASE ResumeStale(t)
    BY <2>39 DEF ResumeStale, End
  <2>40. CASE ResumeProjects(t)
    BY <2>40 DEF ResumeProjects
  <2>41. CASE ResumeSkip(t)
    BY <2>41 DEF ResumeSkip
  <2>42. CASE ResumeDispatch(t)
    BY <2>42 DEF ResumeDispatch
  <2>43. CASE ResumeDispatchLast(t)
    BY <2>43 DEF ResumeDispatchLast
  <2>44. CASE ResumeEnd(t)
    BY <2>44 DEF ResumeEnd, End
  <2>50. CASE ToggleSetting(t)
    BY <2>50 DEF ToggleSetting
  <2>51. CASE ToggleEnable(t)
    BY <2>51 DEF ToggleEnable
  <2>45. CASE Register(t)
    BY <2>45, <2>1, <2>2, <2>3, <2>4, <2>5, <2>6, <2>7 DEF Register
  <2>46. CASE Dequeue(t)
    BY <2>46, <2>8, <2>9, <2>10, <2>11, <2>12, <2>13, <2>14, <2>15, <2>16, <2>17, <2>18, <2>19, <2>20, <2>21, <2>22, <2>23, <2>24, <2>25 DEF Dequeue
  <2>47. CASE Finished(t)
    BY <2>47, <2>26, <2>27, <2>28, <2>29 DEF Finished
  <2>48. CASE Remove(t)
    BY <2>48, <2>30, <2>31, <2>32, <2>33 DEF Remove
  <2>49. CASE Resume(t)
    BY <2>49, <2>34, <2>35, <2>36, <2>37, <2>38, <2>39, <2>40, <2>41, <2>42, <2>43, <2>44, <2>50, <2>51 DEF Resume
  <2> QED
    BY <1>2, <2>45, <2>46, <2>47, <2>48, <2>49 DEF Step
<1>3. ASSUME NEW t \in Tasks, Request(t) PROVE ReadsKept
  <2>1. ASSUME NEW i \in Issues, AddRequest(t, i) PROVE ReadsKept
    BY <2>1 DEF AddRequest
  <2>2. ASSUME NEW i \in Issues, IssueFinished(t, i) PROVE ReadsKept
    BY <2>2 DEF IssueFinished
  <2>3. ASSUME NEW i \in Issues, NEW force \in BOOLEAN, RemoveRequest(t, i, force) PROVE ReadsKept
    BY <2>3 DEF RemoveRequest
  <2>4. ASSUME NEW on \in BOOLEAN, ToggleRequest(t, on) PROVE ReadsKept
    BY <2>4 DEF ToggleRequest
  <2>5. ASSUME Restart(t) PROVE ReadsKept
    BY <2>5 DEF Restart
  <2> QED
    BY <1>3, <2>1, <2>2, <2>3, <2>4, <2>5 DEF Request
<1>4. ASSUME Terminals PROVE ReadsKept
  <2>1. ASSUME NEW i \in Issues, TerminalOpens(i) PROVE ReadsKept
    BY <2>1 DEF TerminalOpens
  <2>2. ASSUME NEW i \in Issues, TerminalEnds(i) PROVE ReadsKept
    BY <2>2 DEF TerminalEnds
  <2> QED
    BY <1>4, <2>1, <2>2 DEF Terminals
<1> QED
  BY <1>1, <1>2, <1>3, <1>4 DEF Next

\* A coroutine has taken a row only if it had, or has just taken it.
Takes(u) ==
  /\ head'[u] \in PendingOf(proj[u])
  /\ IsFirst(head'[u], PendingOf(proj[u]))
  /\ UNCHANGED table

HeadsKept ==
  \A u \in Tasks :
    head'[u] # None => proj'[u] = proj[u] /\ (head'[u] = head[u] \/ Takes(u))

\* Every step leaves the row a dispatch has taken to the coroutine that took it.
LEMMA HeadsKeptStep ==
  ASSUME TypeOK, LocalsFit, [Next]_vars PROVE HeadsKept
<1> USE QueueAssumption DEF TypeOK, LocalsFit, Fit, HeadsKept, DequeueHeld, NoProject,
         At, Goto, Set, Spawn, Select,
         table, process, locks, job, picks, scan, locals
<1>1. CASE UNCHANGED vars
  BY <1>1 DEF vars, process, locks, locals
<1>2. ASSUME NEW t \in Tasks, Step(t) PROVE HeadsKept
  <2>1. CASE RegisterLock(t)
    BY <2>1 DEF RegisterLock
  <2>2. CASE RegisterExists(t)
    BY <2>2 DEF RegisterExists, AfterRegister, RegisterRelease, End
  <2>3. CASE RegisterAbsent(t)
    BY <2>3 DEF RegisterAbsent
  <2>4. CASE RegisterMax(t)
    BY <2>4 DEF RegisterMax
  <2>5. CASE RegisterCommit(t)
    BY <2>5 DEF RegisterCommit, AfterRegister
  <2>6. CASE RegisterRefused(t)
    BY <2>6 DEF RegisterRefused, End, RegisterRelease
  <2>7. CASE Emit(t)
    BY <2>7 DEF Emit
  <2>8. CASE AutoCheck(t)
    BY <2>8 DEF AutoCheck, Continue, End
  <2>9. CASE AutoPending(t)
    BY <2>9 DEF AutoPending, Continue, End
  <2>10. CASE AutoRunning(t)
    BY <2>10 DEF AutoRunning, Continue, End
  <2>11. CASE DequeueLock(t)
    BY <2>11 DEF DequeueLock
  <2>12. CASE GetNextPending(t)
    <3>1. \A u \in Tasks : proj'[u] = proj[u] /\ (u # t => head'[u] = head[u])
      BY <2>12 DEF GetNextPending
    <3>2. Takes(t)
      BY <2>12 DEF GetNextPending, Takes
    <3> QED
      BY <3>1, <3>2 DEF Takes
  <2>13. CASE NothingPending(t)
    BY <2>13 DEF NothingPending, Release, End
  <2>14. CASE RunIssueStarts(t)
    BY <2>14 DEF RunIssueStarts
  <2>15. CASE RunIssueError(t)
    BY <2>15 DEF RunIssueError
  <2>16. CASE RunIssueRaises(t)
    BY <2>16 DEF RunIssueRaises
  <2>17. CASE MarkRunningSelect(t)
    BY <2>17 DEF MarkRunningSelect
  <2>18. CASE MarkRunningNone(t)
    BY <2>18 DEF MarkRunningNone, Release, End
  <2>19. CASE MarkRunningCommit(t)
    BY <2>19 DEF MarkRunningCommit, Release, End
  <2>20. CASE MarkRunningStale(t)
    BY <2>20 DEF MarkRunningStale, Retry
  <2>21. CASE MarkFailedRunning(t)
    BY <2>21 DEF MarkFailedRunning
  <2>22. CASE MarkFailedPending(t)
    BY <2>22 DEF MarkFailedPending
  <2>23. CASE MarkFailedNone(t)
    BY <2>23 DEF MarkFailedNone, Release, End
  <2>24. CASE MarkFailedCommit(t)
    BY <2>24 DEF MarkFailedCommit, Release, End
  <2>25. CASE MarkFailedStale(t)
    BY <2>25 DEF MarkFailedStale, Release, End, Retry
  <2>26. CASE MarkDoneRunning(t)
    BY <2>26 DEF MarkDoneRunning
  <2>27. CASE MarkDonePending(t)
    BY <2>27 DEF MarkDonePending
  <2>28. CASE MarkDoneCommit(t)
    BY <2>28 DEF MarkDoneCommit
  <2>29. CASE MarkDoneStale(t)
    BY <2>29 DEF MarkDoneStale, End
  <2>30. CASE RemoveRefused(t)
    BY <2>30 DEF RemoveRefused, End
  <2>31. CASE RemovePending(t)
    BY <2>31 DEF RemovePending
  <2>32. CASE RemoveRunning(t)
    BY <2>32 DEF RemoveRunning
  <2>33. CASE RemoveCommit(t)
    BY <2>33 DEF RemoveCommit, End
  <2>34. CASE ToggleCommit(t)
    BY <2>34 DEF ToggleCommit, End
  <2>35. CASE ResumeStart(t)
    BY <2>35 DEF ResumeStart, Continue, End
  <2>36. CASE ResumeSelect(t)
    BY <2>36 DEF ResumeSelect
  <2>37. CASE ResumeScan(t)
    BY <2>37, SMTT(30) DEF ResumeScan
  <2>38. CASE ResumeCommit(t)
    BY <2>38 DEF ResumeCommit
  <2>39. CASE ResumeStale(t)
    BY <2>39 DEF ResumeStale, End
  <2>40. CASE ResumeProjects(t)
    BY <2>40 DEF ResumeProjects
  <2>41. CASE ResumeSkip(t)
    BY <2>41 DEF ResumeSkip
  <2>42. CASE ResumeDispatch(t)
    BY <2>42 DEF ResumeDispatch
  <2>43. CASE ResumeDispatchLast(t)
    BY <2>43, SMTT(30) DEF ResumeDispatchLast
  <2>44. CASE ResumeEnd(t)
    BY <2>44 DEF ResumeEnd, End
  <2>50. CASE ToggleSetting(t)
    BY <2>50 DEF ToggleSetting
  <2>51. CASE ToggleEnable(t)
    BY <2>51 DEF ToggleEnable
  <2>45. CASE Register(t)
    BY <2>45, <2>1, <2>2, <2>3, <2>4, <2>5, <2>6, <2>7 DEF Register
  <2>46. CASE Dequeue(t)
    BY <2>46, <2>8, <2>9, <2>10, <2>11, <2>12, <2>13, <2>14, <2>15, <2>16, <2>17, <2>18, <2>19, <2>20, <2>21, <2>22, <2>23, <2>24, <2>25 DEF Dequeue
  <2>47. CASE Finished(t)
    BY <2>47, <2>26, <2>27, <2>28, <2>29 DEF Finished
  <2>48. CASE Remove(t)
    BY <2>48, <2>30, <2>31, <2>32, <2>33 DEF Remove
  <2>49. CASE Resume(t)
    BY <2>49, <2>34, <2>35, <2>36, <2>37, <2>38, <2>39, <2>40, <2>41, <2>42, <2>43, <2>44, <2>50, <2>51 DEF Resume
  <2> QED
    BY <1>2, <2>45, <2>46, <2>47, <2>48, <2>49 DEF Step
<1>3. ASSUME NEW t \in Tasks, Request(t) PROVE HeadsKept
  <2>1. ASSUME NEW i \in Issues, AddRequest(t, i) PROVE HeadsKept
    BY <2>1 DEF AddRequest
  <2>2. ASSUME NEW i \in Issues, IssueFinished(t, i) PROVE HeadsKept
    BY <2>2 DEF IssueFinished
  <2>3. ASSUME NEW i \in Issues, NEW force \in BOOLEAN, RemoveRequest(t, i, force) PROVE HeadsKept
    BY <2>3 DEF RemoveRequest
  <2>4. ASSUME NEW on \in BOOLEAN, ToggleRequest(t, on) PROVE HeadsKept
    BY <2>4 DEF ToggleRequest
  <2>5. ASSUME Restart(t) PROVE HeadsKept
    BY <2>5 DEF Restart
  <2> QED
    BY <1>3, <2>1, <2>2, <2>3, <2>4, <2>5 DEF Request
<1>4. ASSUME Terminals PROVE HeadsKept
  <2>1. ASSUME NEW i \in Issues, TerminalOpens(i) PROVE HeadsKept
    BY <2>1 DEF TerminalOpens
  <2>2. ASSUME NEW i \in Issues, TerminalEnds(i) PROVE HeadsKept
    BY <2>2 DEF TerminalEnds
  <2> QED
    BY <1>4, <2>1, <2>2 DEF Terminals
<1> QED
  BY <1>1, <1>2, <1>3, <1>4 DEF Next


\* A registration appends: the new row was not there, and comes after every row
\* of its project.
LEMMA Appends ==
  ASSUME IInv, NEW u \in Tasks, RegisterCommit(u)
  PROVE  \E e \in Rows :
           /\ status[e] = "FREE"
           /\ status'  = [status EXCEPT ![e] = "PENDING"]
           /\ issueOf' = [issueOf EXCEPT ![e] = iss[u]]
           /\ order'   = [order EXCEPT ![e] = max[u] + 1]
           /\ iss[u] \in Issues
           /\ proj[u] = ProjectOf[iss[u]]
           /\ PendingFor(iss[u]) = {}
           /\ \A f \in Rows : Live(f) /\ ProjectOf[issueOf[f]] = proj[u] => order[f] < max[u] + 1
<1> USE DEF IInv
<1>1. PICK e \in Rows :
        /\ status[e] = "FREE"
        /\ status'  = [status EXCEPT ![e] = "PENDING"]
        /\ issueOf' = [issueOf EXCEPT ![e] = iss[u]]
        /\ order'   = [order EXCEPT ![e] = max[u] + 1]
  BY DEF RegisterCommit, Set
<1>2. pc[u] = "reg_commit"
  BY DEF RegisterCommit, At
<1>3. iss[u] \in Issues /\ proj[u] = ProjectOf[iss[u]]
  BY <1>2 DEF LocalsFit, Fit, NoIssue, NoProject
<1>4. PendingFor(iss[u]) = {} /\ \A f \in RowsOf(proj[u]) : order[f] <= max[u]
  BY <1>2 DEF RegisterReads
<1>5. \A f \in Rows : Live(f) /\ ProjectOf[issueOf[f]] = proj[u] => order[f] < max[u] + 1
  BY <1>4 DEF RowsOf, TypeOK
<1> QED
  BY <1>1, <1>3, <1>4, <1>5

\* UniqueOrder is kept: only a registration sets an order.
LEMMA UniqueStep ==
  ASSUME IInv, [Next]_vars PROVE UniqueOrder'
<1>1. CASE StatusOnly
  BY <1>1 DEF IInv, UniqueOrder, StatusOnly, Live
<1>2. ASSUME NEW u \in Tasks, RegisterCommit(u) PROVE UniqueOrder'
  <2>1. PICK e \in Rows :
          /\ status'  = [status EXCEPT ![e] = "PENDING"]
          /\ issueOf' = [issueOf EXCEPT ![e] = iss[u]]
          /\ order'   = [order EXCEPT ![e] = max[u] + 1]
          /\ proj[u] = ProjectOf[iss[u]]
          /\ \A f \in Rows : Live(f) /\ ProjectOf[issueOf[f]] = proj[u] => order[f] < max[u] + 1
    BY <1>2, Appends
  <2>2. \A f \in Rows : f # e => status'[f] = status[f] /\ issueOf'[f] = issueOf[f]
                                 /\ order'[f] = order[f]
    BY <2>1 DEF IInv, TypeOK
  <2>3. issueOf'[e] = iss[u] /\ order'[e] = max[u] + 1
    BY <2>1 DEF IInv, TypeOK
  <2>4. \A f \in Rows : order[f] \in Nat
    BY DEF IInv, TypeOK
  <2> QED
    BY <2>1, <2>2, <2>3, <2>4 DEF IInv, TypeOK, UniqueOrder, Live
<1> QED
  BY <1>1, <1>2, TableStep DEF IInv

\* OnePendingPerIssue is kept: register inserts only for an issue with no pending row.
LEMMA OnePendingStep ==
  ASSUME IInv, [Next]_vars PROVE OnePendingPerIssue'
<1>1. CASE StatusOnly
  BY <1>1 DEF IInv, OnePendingPerIssue, StatusOnly
<1>2. ASSUME NEW u \in Tasks, RegisterCommit(u) PROVE OnePendingPerIssue'
  <2>1. PICK e \in Rows :
          /\ status'  = [status EXCEPT ![e] = "PENDING"]
          /\ issueOf' = [issueOf EXCEPT ![e] = iss[u]]
          /\ PendingFor(iss[u]) = {}
    BY <1>2, Appends
  <2>2. \A f \in Rows : status[f] = "PENDING" => issueOf[f] # iss[u]
    BY <2>1 DEF PendingFor, ActiveFor, Active
  <2> QED
    BY <2>1, <2>2 DEF IInv, TypeOK, OnePendingPerIssue
<1> QED
  BY <1>1, <1>2, TableStep DEF IInv

\* RegisterReads is kept: what another coroutine inserts meanwhile belongs to
\* another project, whose lock it holds.
LEMMA RegisterReadsStep ==
  ASSUME IInv, [Next]_vars PROVE RegisterReads'
<1> SUFFICES ASSUME NEW t \in Tasks, pc'[t] \in {"reg_max", "reg_commit"}
             PROVE  /\ PendingFor(iss[t])' = {}
                    /\ pc'[t] = "reg_commit" => \A e \in RowsOf(proj[t])' : order'[e] <= max'[t]
  BY DEF RegisterReads
<1>1. ReadsKept
  BY ReadsKeptStep DEF IInv
<1>2. CASE RegisterAbsent(t)
  BY <1>2 DEF RegisterAbsent, At, Goto, IInv, TypeOK, table, locals, job,
              PendingFor, ActiveFor
<1>3. CASE RegisterMax(t)
  <2>1. /\ iss'[t] = iss[t] /\ proj'[t] = proj[t]
        /\ UNCHANGED table
        /\ pc[t] = "reg_max"
    BY <1>3 DEF RegisterMax, At, job
  <2>2. PendingFor(iss[t]) = {}
    BY <2>1 DEF IInv, RegisterReads
  <2>3. \A e \in RowsOf(proj[t]) : order[e] <= max'[t]
    BY <1>3 DEF RegisterMax, Set, IInv, TypeOK
  <2>4. PendingFor(iss[t])' = PendingFor(iss[t]) /\ RowsOf(proj[t])' = RowsOf(proj[t])
    BY <2>1 DEF PendingFor, ActiveFor, RowsOf, Live, table
  <2> QED
    BY <2>1, <2>2, <2>3, <2>4 DEF table
<1>4. CASE /\ pc[t] = pc'[t] /\ iss'[t] = iss[t] /\ proj'[t] = proj[t]
           /\ pc[t] = "reg_commit" => max'[t] = max[t]
  <2>1. /\ PendingFor(iss[t]) = {}
        /\ pc[t] = "reg_commit" => \A e \in RowsOf(proj[t]) : order[e] <= max[t]
    BY <1>4 DEF IInv, RegisterReads
  <2>2. CASE StatusOnly
    <3>1. PendingFor(iss[t])' \subseteq PendingFor(iss[t])
      BY <1>4, <2>2 DEF StatusOnly, PendingFor, ActiveFor, Active
    <3>2. RowsOf(proj[t])' \subseteq RowsOf(proj[t])
      BY <1>4, <2>2 DEF StatusOnly, RowsOf, Live
    <3> QED
      BY <1>4, <2>1, <2>2, <3>1, <3>2 DEF StatusOnly
  <2>3. ASSUME NEW u \in Tasks, RegisterCommit(u)
        PROVE  /\ PendingFor(iss[t])' = {}
               /\ pc'[t] = "reg_commit" => \A e \in RowsOf(proj[t])' : order'[e] <= max'[t]
    <3>1. PICK e \in Rows :
            /\ status'  = [status EXCEPT ![e] = "PENDING"]
            /\ issueOf' = [issueOf EXCEPT ![e] = iss[u]]
            /\ order'   = [order EXCEPT ![e] = max[u] + 1]
            /\ iss[u] \in Issues
            /\ proj[u] = ProjectOf[iss[u]]
      BY <2>3, Appends
    <3>2. u # t
      BY <1>4, <2>3 DEF RegisterCommit, At, Goto, AfterRegister, IInv, TypeOK
    <3>3. proj[u] # proj[t]
      BY <1>4, <2>3, <3>2 DEF RegisterCommit, At, IInv, LocksHeld, RegisterHeld
    <3>4. proj[t] = ProjectOf[iss[t]]
      BY <1>4 DEF IInv, LocalsFit, Fit, NoIssue, NoProject
    <3>5. \A f \in Rows : f # e => status'[f] = status[f] /\ issueOf'[f] = issueOf[f]
                                   /\ order'[f] = order[f]
      BY <3>1 DEF IInv, TypeOK
    <3>6. issueOf'[e] = iss[u]
      BY <3>1 DEF IInv, TypeOK
    <3>7. e \notin PendingFor(iss[t])' /\ e \notin RowsOf(proj[t])'
      BY <1>4, <3>1, <3>3, <3>4, <3>6 DEF PendingFor, ActiveFor, RowsOf
    <3>8. PendingFor(iss[t])' \subseteq PendingFor(iss[t])
      BY <1>4, <3>5, <3>7 DEF PendingFor, ActiveFor, Active
    <3>9. RowsOf(proj[t])' \subseteq RowsOf(proj[t])
      BY <1>4, <3>5, <3>7 DEF RowsOf, Live
    <3> QED
      BY <1>4, <2>1, <3>5, <3>7, <3>8, <3>9 DEF RowsOf
  <2> QED
    BY <2>2, <2>3, TableStep DEF IInv
<1> QED
  BY <1>1, <1>2, <1>3, <1>4 DEF ReadsKept

\* TakenIsFirst is kept: a row that arrives later comes later.
LEMMA TakenIsFirstStep ==
  ASSUME IInv, [Next]_vars PROVE TakenIsFirst'
<1> SUFFICES ASSUME NEW t \in Tasks, head'[t] # None, status'[head'[t]] = "PENDING"
             PROVE  IsFirst(head[t], PendingOf(proj[t]))'
  BY DEF TakenIsFirst
<1>1. HeadsKept
  BY HeadsKeptStep DEF IInv
<1>2. CASE proj'[t] = proj[t] /\ Takes(t)
  BY <1>2 DEF Takes, IsFirst, PendingOf, RowsOf, Live, table
<1>3. CASE head'[t] = head[t] /\ proj'[t] = proj[t]
  <2> DEFINE h == head[t]
  <2>1. h \in Rows /\ status[h] # "FREE"
    BY <1>3 DEF IInv, TypeOK, LocalsFit, Fit
  <2>2. CASE StatusOnly
    <3>1. IsFirst(h, PendingOf(proj[t]))
      BY <1>3, <2>1, <2>2 DEF StatusOnly, IInv, TakenIsFirst
    <3>2. PendingOf(proj[t])' \subseteq PendingOf(proj[t]) /\ h \in PendingOf(proj[t])'
      BY <1>3, <2>1, <2>2, <3>1 DEF StatusOnly, PendingOf, RowsOf, Live, IsFirst
    <3> QED
      BY <1>3, <2>2, <3>1, <3>2 DEF IsFirst, StatusOnly
  <2>3. ASSUME NEW u \in Tasks, RegisterCommit(u)
        PROVE  IsFirst(head[t], PendingOf(proj[t]))'
    <3>1. PICK e \in Rows :
            /\ status[e] = "FREE"
            /\ status'  = [status EXCEPT ![e] = "PENDING"]
            /\ issueOf' = [issueOf EXCEPT ![e] = iss[u]]
            /\ order'   = [order EXCEPT ![e] = max[u] + 1]
            /\ proj[u] = ProjectOf[iss[u]]
            /\ \A f \in Rows : Live(f) /\ ProjectOf[issueOf[f]] = proj[u]
                                 => order[f] < max[u] + 1
      BY <2>3, Appends
    <3>2. \A f \in Rows : f # e => status'[f] = status[f] /\ issueOf'[f] = issueOf[f]
                                   /\ order'[f] = order[f]
      BY <3>1 DEF IInv, TypeOK
    <3>3. issueOf'[e] = iss[u] /\ order'[e] = max[u] + 1 /\ h # e
      BY <2>1, <3>1 DEF IInv, TypeOK
    <3>4. IsFirst(h, PendingOf(proj[t])) /\ Live(h) /\ ProjectOf[issueOf[h]] = proj[t]
      BY <1>3, <2>1, <3>2, <3>3 DEF IInv, TakenIsFirst, IsFirst, PendingOf, RowsOf
    <3>5. h \in PendingOf(proj[t])'
      BY <1>3, <2>1, <3>2, <3>3, <3>4 DEF PendingOf, RowsOf, Live
    <3>6. ASSUME NEW f \in PendingOf(proj[t])' PROVE order'[h] <= order'[f]
      <4>1. order[h] \in Nat /\ order[f] \in Nat /\ max[u] + 1 \in Nat
        BY <2>1 DEF IInv, TypeOK, PendingOf, RowsOf
      <4>2. CASE f = e
        <5>1. proj[t] = proj[u]
          BY <1>3, <3>1, <3>3, <4>2 DEF PendingOf, RowsOf
        <5> QED
          BY <2>1, <3>1, <3>2, <3>3, <3>4, <4>1, <4>2, <5>1
      <4>3. CASE f # e
        <5>1. f \in PendingOf(proj[t])
          BY <1>3, <3>2, <4>3 DEF PendingOf, RowsOf, Live
        <5> QED
          BY <2>1, <3>2, <3>3, <3>4, <4>3, <5>1 DEF IsFirst, PendingOf, RowsOf
      <4> QED
        BY <4>2, <4>3
    <3> QED
      BY <1>3, <3>5, <3>6 DEF IsFirst
  <2> QED
    BY <2>2, <2>3, TableStep DEF IInv
<1> QED
  BY <1>1, <1>2, <1>3 DEF HeadsKept

\* A coroutine that ends holding a row it took leaves that row out of the queue.
Consumed ==
  \A u \in Tasks :
    head[u] # None /\ pc'[u] = "idle" /\ row[u] \in {None, head[u]}
      => status'[head[u]] # "PENDING"

\* Every step but a restart consumes the row of the dispatch it ends.
LEMMA ConsumedStep ==
  ASSUME TypeOK, LocalsFit, [Next]_vars PROVE Consumed \/ \E u \in Tasks : Restart(u)
<1> USE QueueAssumption DEF TypeOK, LocalsFit, Fit, Consumed, DequeueHeld, RegisterHeld, NoProject, NoIssue, Writing,
         At, Goto, Set, Spawn, Select,
         table, process, locks, job, picks, scan, locals
<1>1. CASE UNCHANGED vars
  BY <1>1 DEF vars, process, locks, locals
<1>2. ASSUME NEW t \in Tasks, Step(t) PROVE Consumed \/ \E u \in Tasks : Restart(u)
  <2>1. CASE RegisterLock(t)
    BY <2>1, SMTT(30) DEF RegisterLock
  <2>2. CASE RegisterExists(t)
    BY <2>2, SMTT(30) DEF RegisterExists, AfterRegister, RegisterRelease, End
  <2>3. CASE RegisterAbsent(t)
    BY <2>3 DEF RegisterAbsent
  <2>4. CASE RegisterMax(t)
    BY <2>4 DEF RegisterMax
  <2>5. CASE RegisterCommit(t)
    BY <2>5, SMTT(30) DEF RegisterCommit, AfterRegister
  <2>6. CASE RegisterRefused(t)
    BY <2>6 DEF RegisterRefused, End, RegisterRelease
  <2>7. CASE Emit(t)
    BY <2>7 DEF Emit
  <2>8. CASE AutoCheck(t)
    BY <2>8 DEF AutoCheck, Continue, End
  <2>9. CASE AutoPending(t)
    BY <2>9 DEF AutoPending, Continue, End
  <2>10. CASE AutoRunning(t)
    BY <2>10 DEF AutoRunning, Continue, End
  <2>11. CASE DequeueLock(t)
    BY <2>11, SMTT(30) DEF DequeueLock
  <2>12. CASE GetNextPending(t)
    BY <2>12 DEF GetNextPending
  <2>13. CASE NothingPending(t)
    BY <2>13 DEF NothingPending, Release, End
  <2>14. CASE RunIssueStarts(t)
    BY <2>14 DEF RunIssueStarts
  <2>15. CASE RunIssueError(t)
    BY <2>15 DEF RunIssueError
  <2>16. CASE RunIssueRaises(t)
    BY <2>16 DEF RunIssueRaises
  <2>17. CASE MarkRunningSelect(t)
    BY <2>17 DEF MarkRunningSelect
  <2>18. CASE MarkRunningNone(t)
    BY <2>18, SMTT(30) DEF MarkRunningNone, Release, End, PendingFor, ActiveFor, Active
  <2>19. CASE MarkRunningCommit(t)
    BY <2>19, SMTT(30) DEF MarkRunningCommit, Release, End
  <2>20. CASE MarkRunningStale(t)
    BY <2>20 DEF MarkRunningStale, Retry
  <2>21. CASE MarkFailedRunning(t)
    BY <2>21 DEF MarkFailedRunning
  <2>22. CASE MarkFailedPending(t)
    BY <2>22 DEF MarkFailedPending
  <2>23. CASE MarkFailedNone(t)
    BY <2>23, SMTT(30) DEF MarkFailedNone, Release, End, PendingFor, ActiveFor, Active
  <2>24. CASE MarkFailedCommit(t)
    BY <2>24, SMTT(30) DEF MarkFailedCommit, Release, End
  <2>25. CASE MarkFailedStale(t)
    BY <2>25 DEF MarkFailedStale, Release, End, Retry
  <2>26. CASE MarkDoneRunning(t)
    BY <2>26, SMTT(30) DEF MarkDoneRunning
  <2>27. CASE MarkDonePending(t)
    BY <2>27 DEF MarkDonePending
  <2>28. CASE MarkDoneCommit(t)
    BY <2>28 DEF MarkDoneCommit
  <2>29. CASE MarkDoneStale(t)
    BY <2>29 DEF MarkDoneStale, End
  <2>30. CASE RemoveRefused(t)
    BY <2>30 DEF RemoveRefused, End
  <2>31. CASE RemovePending(t)
    BY <2>31 DEF RemovePending
  <2>32. CASE RemoveRunning(t)
    BY <2>32, SMTT(30) DEF RemoveRunning
  <2>33. CASE RemoveCommit(t)
    BY <2>33 DEF RemoveCommit, End
  <2>34. CASE ToggleCommit(t)
    BY <2>34 DEF ToggleCommit, End
  <2>35. CASE ResumeStart(t)
    BY <2>35, SMTT(30) DEF ResumeStart, Continue, End
  <2>36. CASE ResumeSelect(t)
    BY <2>36 DEF ResumeSelect
  <2>37. CASE ResumeScan(t)
    BY <2>37 DEF ResumeScan
  <2>38. CASE ResumeCommit(t)
    BY <2>38 DEF ResumeCommit
  <2>39. CASE ResumeStale(t)
    BY <2>39 DEF ResumeStale, End
  <2>40. CASE ResumeProjects(t)
    BY <2>40 DEF ResumeProjects
  <2>41. CASE ResumeSkip(t)
    BY <2>41 DEF ResumeSkip
  <2>42. CASE ResumeDispatch(t)
    BY <2>42 DEF ResumeDispatch
  <2>43. CASE ResumeDispatchLast(t)
    BY <2>43 DEF ResumeDispatchLast
  <2>44. CASE ResumeEnd(t)
    BY <2>44 DEF ResumeEnd, End
  <2>50. CASE ToggleSetting(t)
    BY <2>50 DEF ToggleSetting
  <2>51. CASE ToggleEnable(t)
    BY <2>51 DEF ToggleEnable
  <2>45. CASE Register(t)
    BY <2>45, <2>1, <2>2, <2>3, <2>4, <2>5, <2>6, <2>7 DEF Register
  <2>46. CASE Dequeue(t)
    BY <2>46, <2>8, <2>9, <2>10, <2>11, <2>12, <2>13, <2>14, <2>15, <2>16, <2>17, <2>18, <2>19, <2>20, <2>21, <2>22, <2>23, <2>24, <2>25 DEF Dequeue
  <2>47. CASE Finished(t)
    BY <2>47, <2>26, <2>27, <2>28, <2>29 DEF Finished
  <2>48. CASE Remove(t)
    BY <2>48, <2>30, <2>31, <2>32, <2>33 DEF Remove
  <2>49. CASE Resume(t)
    BY <2>49, <2>34, <2>35, <2>36, <2>37, <2>38, <2>39, <2>40, <2>41, <2>42, <2>43, <2>44, <2>50, <2>51 DEF Resume
  <2> QED
    BY <1>2, <2>45, <2>46, <2>47, <2>48, <2>49 DEF Step
<1>3. ASSUME NEW t \in Tasks, Request(t) PROVE Consumed \/ \E u \in Tasks : Restart(u)
  <2>1. ASSUME NEW i \in Issues, AddRequest(t, i) PROVE Consumed \/ \E u \in Tasks : Restart(u)
    BY <2>1 DEF AddRequest
  <2>2. ASSUME NEW i \in Issues, IssueFinished(t, i) PROVE Consumed \/ \E u \in Tasks : Restart(u)
    BY <2>2 DEF IssueFinished
  <2>3. ASSUME NEW i \in Issues, NEW force \in BOOLEAN, RemoveRequest(t, i, force) PROVE Consumed \/ \E u \in Tasks : Restart(u)
    BY <2>3 DEF RemoveRequest
  <2>4. ASSUME NEW on \in BOOLEAN, ToggleRequest(t, on) PROVE Consumed \/ \E u \in Tasks : Restart(u)
    BY <2>4 DEF ToggleRequest
  <2>5. ASSUME Restart(t) PROVE Consumed \/ \E u \in Tasks : Restart(u)
    BY <2>5 DEF Restart
  <2> QED
    BY <1>3, <2>1, <2>2, <2>3, <2>4, <2>5 DEF Request
<1>4. ASSUME Terminals PROVE Consumed \/ \E u \in Tasks : Restart(u)
  <2>1. ASSUME NEW i \in Issues, TerminalOpens(i) PROVE Consumed \/ \E u \in Tasks : Restart(u)
    BY <2>1 DEF TerminalOpens
  <2>2. ASSUME NEW i \in Issues, TerminalEnds(i) PROVE Consumed \/ \E u \in Tasks : Restart(u)
    BY <2>2 DEF TerminalEnds
  <2> QED
    BY <1>4, <2>1, <2>2 DEF Terminals
<1> QED
  BY <1>1, <1>2, <1>3, <1>4 DEF Next

\* The invariant holds of an empty queue.
LEMMA InitInvariant == Init => IInv
<1> SUFFICES ASSUME Init PROVE IInv
  OBVIOUS
<1>1. TypeOK
  BY QueueAssumption DEF Init, TypeOK, Statuses, Pcs, Ops
<1>2. RowsHaveIssues /\ LocalsFit /\ LocksHeld /\ RegisterReads
  BY DEF Init, RowsHaveIssues, LocalsFit, Fit, LocksHeld, RegisterReads, NoProject, NoIssue,
         Writing, RegisterHeld, DequeueHeld
<1>3. UniqueOrder /\ OnePendingPerIssue /\ TakenIsFirst
  BY DEF Init, UniqueOrder, OnePendingPerIssue, TakenIsFirst, Live
<1> QED
  BY <1>1, <1>2, <1>3 DEF IInv

\* Every step, of a coroutine, a request, a terminal or a restart, keeps the invariant.
LEMMA NextInvariant == IInv /\ [Next]_vars => IInv'
<1> SUFFICES ASSUME IInv, [Next]_vars PROVE IInv'
  OBVIOUS
<1>1. TypeOK'
  BY TypeStep DEF IInv
<1>2. RowsHaveIssues' /\ LocalsFit'
  BY <1>1, FitStep DEF IInv
<1>3. LocksHeld'
  BY LocksStep DEF IInv
<1> QED
  BY <1>1, <1>2, <1>3, RegisterReadsStep, UniqueStep, OnePendingStep, TakenIsFirstStep DEF IInv

\* The strengthening holds throughout.
THEOREM Invariant == Spec => []IInv
BY InitInvariant, NextInvariant, PTL DEF Spec

\* Every variable keeps its type.
THEOREM TypeCorrect == Spec => []TypeOK
<1>1. IInv => TypeOK
  BY DEF IInv
<1> QED
  BY <1>1, Invariant, PTL

\* register never meets the unique constraint on (project_id, order).
THEOREM OrdersAreUnique == Spec => []UniqueOrder
<1>1. IInv => UniqueOrder
  BY DEF IInv
<1> QED
  BY <1>1, Invariant, PTL

\* No issue waits twice.
THEOREM IssuesWaitOnce == Spec => []OnePendingPerIssue
<1>1. IInv => OnePendingPerIssue
  BY DEF IInv
<1> QED
  BY <1>1, Invariant, PTL

\* Nothing overtakes the row that is being dispatched.
THEOREM NothingOvertakes == Spec => []TakenIsFirst
<1>1. IInv => TakenIsFirst
  BY DEF IInv
<1> QED
  BY <1>1, Invariant, PTL

\* Rows enter the queue once, and at its end.
THEOREM FirstInFirstOut == Spec => AppendsAtTail
<1> DEFINE A == \A e \in Rows :
                  status'[e] = "PENDING" /\ status[e] # "PENDING"
                    => /\ status[e] = "FREE"
                       /\ \A f \in Rows :
                            Live(f) /\ ProjectOf[issueOf[f]] = ProjectOf[issueOf'[e]]
                              => order[f] < order'[e]
<1>1. IInv /\ [Next]_vars => A
  <2> SUFFICES ASSUME IInv, [Next]_vars PROVE A
    OBVIOUS
  <2>1. CASE StatusOnly
    BY <2>1 DEF StatusOnly
  <2>2. ASSUME NEW u \in Tasks, RegisterCommit(u) PROVE A
    BY <2>2, Appends DEF IInv, TypeOK
  <2> QED
    BY <2>1, <2>2, TableStep DEF IInv
<1>2. IInv /\ [Next]_vars => [A]_vars
  BY <1>1
<1> QED
  BY <1>2, Invariant, PTL DEF Spec, AppendsAtTail

\* The rows that were inserted are finitely many: a step inserts one.
Inserted == {e \in Rows : status[e] # "FREE"}

LEMMA FiniteRows == Spec => []IsFiniteSet(Inserted)
<1>1. Init => IsFiniteSet(Inserted)
  <2> SUFFICES ASSUME Init PROVE IsFiniteSet(Inserted)
    OBVIOUS
  <2>1. Inserted = {}
    BY DEF Init, Inserted
  <2> QED
    BY <2>1, FS_EmptySet
<1>2. IInv /\ IsFiniteSet(Inserted) /\ [Next]_vars => IsFiniteSet(Inserted)'
  <2> SUFFICES ASSUME IInv, IsFiniteSet(Inserted), [Next]_vars PROVE IsFiniteSet(Inserted')
    OBVIOUS
  <2>1. CASE StatusOnly
    <3>1. Inserted' \subseteq Inserted
      BY <2>1 DEF StatusOnly, Inserted
    <3> QED
      BY <3>1, FS_Subset
  <2>2. ASSUME NEW u \in Tasks, RegisterCommit(u) PROVE IsFiniteSet(Inserted')
    <3>1. PICK e \in Rows : status' = [status EXCEPT ![e] = "PENDING"]
      BY <2>2, Appends
    <3>2. Inserted' = Inserted \cup {e}
      BY <3>1 DEF Inserted, IInv, TypeOK
    <3> QED
      BY <3>2, FS_AddElement
  <2> QED
    BY <2>1, <2>2, TableStep DEF IInv
<1> QED
  BY <1>1, <1>2, Invariant, PTL DEF Spec

\* A list that is part of another, in the same order, gives a row no later place.
LEMMA PlaceInPart ==
  ASSUME NEW S, IsFiniteSet(S), NEW T \in SUBSET S
  PROVE  Cardinality(T) <= Cardinality(S)
BY FS_Subset

\* Where a list of pending rows ends up after a step in which no row enters it.
Before(e, S) == {f \in S : order[f] <= order[e]}

LEMMA BeforeIsFinite ==
  ASSUME IsFiniteSet(Inserted), NEW e, NEW S \in SUBSET Inserted
  PROVE  IsFiniteSet(Before(e, S)) /\ Cardinality(Before(e, S)) \in Nat
<1>1. Before(e, S) \subseteq Inserted
  BY DEF Before
<1> QED
  BY <1>1, FS_Subset, FS_CardinalityType

\* The list of a project, and the list over all projects.
Pendings == {f \in Rows : status[f] = "PENDING"}
Waiting(e) == PendingOf(ProjectOf[issueOf[e]])

\* A step that registers nothing moves no row back, and adds none.
LEMMA NothingRegistered ==
  ASSUME IInv, IsFiniteSet(Inserted), StatusOnly, NEW e \in Rows, status'[e] = "PENDING"
  PROVE  /\ status[e] = "PENDING"
         /\ queue_position(e)' <= queue_position(e)
         /\ ~(list_global_queue(e)' > list_global_queue(e))
<1>1. status[e] = "PENDING"
  BY DEF StatusOnly
<1>2. Waiting(e) \in SUBSET Inserted /\ Pendings \in SUBSET Inserted
  BY DEF Waiting, Pendings, PendingOf, RowsOf, Inserted
<1>3. Waiting(e)' \subseteq Waiting(e) /\ Pendings' \subseteq Pendings
  BY DEF StatusOnly, Waiting, Pendings, PendingOf, RowsOf, Live
<1>4. Before(e, Waiting(e))' \subseteq Before(e, Waiting(e)) /\ Before(e, Pendings)' \subseteq Before(e, Pendings)
  BY <1>3 DEF Before, StatusOnly
<1>5. /\ Cardinality(Before(e, Waiting(e))') <= Cardinality(Before(e, Waiting(e)))
      /\ Cardinality(Before(e, Pendings)') <= Cardinality(Before(e, Pendings))
  BY <1>2, <1>4, BeforeIsFinite, PlaceInPart
<1>6. IsFiniteSet(Before(e, Pendings)') /\ IsFiniteSet(Before(e, Pendings))
  BY <1>2, <1>4, BeforeIsFinite, FS_Subset
<1>7. Cardinality(Before(e, Pendings)') \in Nat /\ Cardinality(Before(e, Pendings)) \in Nat
  BY <1>6, FS_CardinalityType
<1> QED
  BY <1>1, <1>5, <1>7 DEF queue_position, list_global_queue, Place, Before, Waiting, Pendings

\* A registration puts its row last, and in front of rows of other projects only.
LEMMA RegisteredLast ==
  ASSUME IInv, IsFiniteSet(Inserted), NEW u \in Tasks, RegisterCommit(u),
         NEW e \in Rows, status'[e] = "PENDING"
  PROVE  /\ status[e] = "PENDING" => queue_position(e)' <= queue_position(e)
         /\ status[e] # "PENDING" => queue_position(e)' = queue_total(e)'
         /\ status[e] = "PENDING" /\ list_global_queue(e)' > list_global_queue(e) =>
              \E f \in Rows : /\ status'[f] = "PENDING" /\ status[f] # "PENDING"
                              /\ ProjectOf[issueOf'[f]] # ProjectOf[issueOf[e]]
<1>1. PICK n \in Rows :
        /\ status[n] = "FREE"
        /\ status'  = [status EXCEPT ![n] = "PENDING"]
        /\ issueOf' = [issueOf EXCEPT ![n] = iss[u]]
        /\ order'   = [order EXCEPT ![n] = max[u] + 1]
        /\ proj[u] = ProjectOf[iss[u]]
        /\ \A f \in Rows : Live(f) /\ ProjectOf[issueOf[f]] = proj[u] => order[f] < max[u] + 1
  BY Appends
<1>2. \A f \in Rows \ {n} : status'[f] = status[f] /\ issueOf'[f] = issueOf[f] /\ order'[f] = order[f]
  BY <1>1 DEF IInv, TypeOK
<1>3. status'[n] = "PENDING" /\ issueOf'[n] = iss[u] /\ order'[n] = max[u] + 1
  BY <1>1 DEF IInv, TypeOK
<1>4. max[u] + 1 \in Nat /\ \A f \in Rows : order[f] \in Nat
  BY DEF IInv, TypeOK
<1>5. CASE e = n
  <2>1. \A f \in Waiting(n)' : order'[f] <= order'[n]
    <3> SUFFICES ASSUME NEW f \in Waiting(n)' PROVE order'[f] <= order'[n]
      OBVIOUS
    <3>1. CASE f = n
      BY <3>1, <1>3, <1>4
    <3>2. CASE f # n
      <4>1. f \in Rows /\ status[f] = "PENDING" /\ ProjectOf[issueOf[f]] = proj[u]
        BY <3>2, <1>1, <1>2, <1>3 DEF Waiting, PendingOf, RowsOf
      <4>2. order[f] < max[u] + 1
        BY <4>1, <1>1 DEF Live
      <4> QED
        BY <4>1, <4>2, <3>2, <1>2, <1>3, <1>4
    <3> QED
      BY <3>1, <3>2
  <2>2. Before(n, Waiting(n))' = Waiting(n)'
    BY <2>1 DEF Before
  <2> QED
    BY <2>2, <1>1, <1>5 DEF queue_position, queue_total, Place, Before, Waiting
<1>6. CASE e # n
  <2>1. status[e] = "PENDING" /\ issueOf'[e] = issueOf[e] /\ order'[e] = order[e]
    BY <1>2, <1>6
  <2>2. Waiting(e) \in SUBSET Inserted /\ Pendings \in SUBSET Inserted
    BY DEF Waiting, Pendings, PendingOf, RowsOf, Inserted
  <2>3. ProjectOf[iss[u]] = ProjectOf[issueOf[e]] => ~(order'[n] <= order'[e])
    <3> HAVE ProjectOf[iss[u]] = ProjectOf[issueOf[e]]
    <3>1. order[e] < max[u] + 1
      BY <1>1, <2>1 DEF Live
    <3> QED
      BY <3>1, <1>3, <1>4, <2>1
  <2>4. Before(e, Waiting(e))' \subseteq Before(e, Waiting(e))
    <3> SUFFICES ASSUME NEW f \in Before(e, Waiting(e))' PROVE f \in Before(e, Waiting(e))
      OBVIOUS
    <3>1. f \in Rows /\ status'[f] = "PENDING" /\ ProjectOf[issueOf'[f]] = ProjectOf[issueOf'[e]] /\ order'[f] <= order'[e]
      BY DEF Before, Waiting, PendingOf, RowsOf
    <3>2. f # n
      BY <3>1, <2>1, <2>3, <1>3
    <3> QED
      BY <3>1, <3>2, <2>1, <1>2 DEF Before, Waiting, PendingOf, RowsOf, Live
  <2>5. Cardinality(Before(e, Waiting(e))') <= Cardinality(Before(e, Waiting(e)))
    BY <2>2, <2>4, BeforeIsFinite, PlaceInPart
  <2>6. ASSUME ProjectOf[iss[u]] = ProjectOf[issueOf[e]]
        PROVE  ~(list_global_queue(e)' > list_global_queue(e))
    <3>1. Before(e, Pendings)' \subseteq Before(e, Pendings)
      <4> SUFFICES ASSUME NEW f \in Before(e, Pendings)' PROVE f \in Before(e, Pendings)
        OBVIOUS
      <4>1. f \in Rows /\ status'[f] = "PENDING" /\ order'[f] <= order'[e]
        BY DEF Before, Pendings
      <4>2. f # n
        BY <4>1, <2>3, <2>6
      <4> QED
        BY <4>1, <4>2, <2>1, <1>2 DEF Before, Pendings
    <3>2. Cardinality(Before(e, Pendings)') <= Cardinality(Before(e, Pendings))
      BY <2>2, <3>1, BeforeIsFinite, PlaceInPart
    <3>3. IsFiniteSet(Before(e, Pendings)') /\ IsFiniteSet(Before(e, Pendings))
      BY <2>2, <3>1, BeforeIsFinite, FS_Subset
    <3>4. Cardinality(Before(e, Pendings)') \in Nat /\ Cardinality(Before(e, Pendings)) \in Nat
      BY <3>3, FS_CardinalityType
    <3> QED
      BY <3>2, <3>4 DEF list_global_queue, Place, Before, Pendings
  <2>7. queue_position(e)' <= queue_position(e)
    BY <2>5 DEF queue_position, Place, Before, Waiting
  <2> QED
    BY <2>1, <2>6, <2>7, <1>1, <1>3
<1> QED
  BY <1>5, <1>6

\* The row a dispatcher takes is the first of its project's list.
LEMMA TakenIsShownFirst ==
  ASSUME IInv, HeadsKept, NEW t \in Tasks, head[t] = None, head'[t] # None
  PROVE  queue_position(head'[t]) = 1
<1>1. Takes(t)
  BY DEF HeadsKept
<1>2. PICK e \in Rows : e = head'[t] /\ e \in PendingOf(proj[t]) /\ IsFirst(e, PendingOf(proj[t]))
  BY <1>1 DEF Takes, PendingOf, RowsOf
<1>3. ProjectOf[issueOf[e]] = proj[t]
  BY <1>2 DEF PendingOf, RowsOf
<1>4. \A f \in PendingOf(proj[t]) : order[f] <= order[e] => f = e
  <2> SUFFICES ASSUME NEW f \in PendingOf(proj[t]), order[f] <= order[e], f # e PROVE FALSE
    OBVIOUS
  <2>1. f \in Rows /\ Live(f) /\ Live(e) /\ ProjectOf[issueOf[f]] = ProjectOf[issueOf[e]]
    BY <1>2, <1>3 DEF PendingOf, RowsOf
  <2>2. order[f] # order[e]
    BY <2>1 DEF IInv, UniqueOrder
  <2>3. order[e] <= order[f]
    BY <1>2 DEF IsFirst
  <2> QED
    BY <2>1, <2>2, <2>3 DEF IInv, TypeOK
<1>5. order[e] <= order[e]
  BY DEF IInv, TypeOK
<1>6. {f \in PendingOf(proj[t]) : order[f] <= order[e]} = {e}
  BY <1>2, <1>4, <1>5
<1>7. queue_position(e) = Cardinality({e})
  BY <1>3, <1>6 DEF queue_position, Place
<1>8. Cardinality({e}) = 1
  BY FS_Singleton
<1> QED
  BY <1>2, <1>7, <1>8

\* What a user is shown of the queue (list_queue, list_global_queue) is the order in which it is served.
THEOREM ServedAsShown == Spec => ShownInOrder
<1>1. IInv /\ IsFiniteSet(Inserted) /\ [Next]_vars => KeepsPlaces
  <2> SUFFICES ASSUME IInv, IsFiniteSet(Inserted), [Next]_vars PROVE KeepsPlaces
    OBVIOUS
  <2>1. HeadsKept
    BY HeadsKeptStep DEF IInv
  <2>2. \A t \in Tasks : head[t] = None /\ head'[t] # None => queue_position(head'[t]) = 1
    BY <2>1, TakenIsShownFirst
  <2>3. CASE StatusOnly
    BY <2>2, <2>3, NothingRegistered DEF KeepsPlaces
  <2>4. ASSUME NEW u \in Tasks, RegisterCommit(u) PROVE KeepsPlaces
    BY <2>2, <2>4, RegisteredLast DEF KeepsPlaces
  <2> QED
    BY <2>3, <2>4, TableStep DEF IInv
<1>2. IInv /\ IsFiniteSet(Inserted) /\ [Next]_vars => [KeepsPlaces]_vars
  BY <1>1
<1> QED
  BY <1>2, Invariant, FiniteRows, PTL DEF Spec, ShownInOrder

\* A dispatch that runs to its end takes its row out of the queue.
THEOREM DispatchesConsume == Spec => TakenIsConsumed
<1> DEFINE A == \A t \in Tasks :
                  /\ head[t] # None
                  /\ pc'[t] = "idle"
                  /\ ~\E u \in Tasks : Restart(u)
                  /\ row[t] \in {None, head[t]}
                  => status'[head[t]] # "PENDING"
<1>1. IInv /\ [Next]_vars => A
  <2> SUFFICES ASSUME IInv, [Next]_vars PROVE A
    OBVIOUS
  <2>1. Consumed \/ \E u \in Tasks : Restart(u)
    BY ConsumedStep DEF IInv
  <2> QED
    BY <2>1 DEF Consumed
<1>2. IInv /\ [Next]_vars => [A]_vars
  BY <1>1
<1> QED
  BY <1>2, Invariant, PTL DEF Spec, TakenIsConsumed
=============================================================================
