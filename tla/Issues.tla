-------------------------------- MODULE Issues --------------------------------
(***************************************************************************)
(* Issues as a whole: their life (IssueLifecycle) and the relations        *)
(* between them (IssueRelations) over the same records, and what holds.    *)
(***************************************************************************)
EXTENDS IssueLifecycle, IssueRelations

vars == <<store, requests, lifeVars, relVars>>

Init == StoreInit /\ LifeInit /\ RelInit

Next ==
  \/ LifeNext /\ UNCHANGED <<requests, relVars>>
  \/ RelNext /\ UNCHANGED <<requests, lifeVars>>

\* The event loop resumes whoever is ready; asyncio.Lock wakes its waiters in order.
Fairness ==
  /\ \A c \in Callers : WF_vars(Step(c) /\ UNCHANGED <<requests, relVars>>)
  /\ \A c \in Callers : SF_vars(Locked(c) /\ UNCHANGED <<requests, relVars>>)
  /\ \A i \in Issues : WF_vars(HookStep(i) /\ UNCHANGED <<requests, relVars>>)

Spec     == Init /\ [][Next]_vars
LiveSpec == Spec /\ Fairness

\* An issue that nobody pushed past the checks has the texts its status stands for: tools,
\* routes and cancellations in any order do not skip the specification or the plan.
StatusHasContent ==
  \A i \in Issues \ overridden :
    /\ rec[i].status \in {"Reasoning", "Planned", "Accepted"} => "specification" \in rec[i].has
    /\ rec[i].status \in {"Planned", "Accepted"} => "plan" \in rec[i].has
    /\ rec[i].status = "Finished" => {"recap", "finished_at"} \subseteq rec[i].has

\* However many complete an issue at once, and though the lock's entry is dropped while others
\* wait on the lock, one succeeds (the race _issue_completion_locks is there for).
CompletedOnce == \A i \in Issues \ overridden : completions[i] <= 1

\* A request that finishes an issue and announces such changes does announce it: the queue
\* dispatches nothing without the event.  Until then its call is in progress.
FinishIsAnnounced ==
  \A i \in Issues : finish[i] = "due" =>
    \E c \in Callers : call[c].i = i /\ call[c].at \in {"log", "reply"} /\ call[c].hook /\ call[c].say # "none"

\* When the last task has been completed, one of the calls that completed one fires
\* ALL_TASKS_COMPLETED, unless the tasks change before it does.
AllTasksAnnounced ==
  \A i \in Issues : allDone[i] = "due" =>
    \E c \in Callers : call[c].i = i /\ call[c].at \in {"find", "ask", "fire"}

\* Issues each of which blocks one of them: among finitely many, a circle.
Circle(S) == S # {} /\ \A i \in S : Blocked(i) \cap S # {}
Cyclic    == \E S \in SUBSET Issues : Circle(S)

\* No issue blocks itself over others, whatever is added, removed, deleted and restored,
\* unless two additions were checked at the same time or a project was archived meanwhile.
BlocksAcyclic == Cyclic => crossed \/ blind

\* complete_issue cannot be locked out: every call comes to an end.
CallsEnd == \A c \in Callers : call[c].at # "idle" ~> call[c].at = "idle"
=================================================================================
