----------------------------- MODULE RecordProofs -----------------------------
(***************************************************************************)
(* Proofs about the records of a project: its issues (Issues), and its     *)
(* memories and files (ProjectRecords).  The two share no state: the first *)
(* part speaks of Issues alone, the second of ProjectRecords alone.        *)
(*                                                                         *)
(* Issues, for any issues, projects, tasks and callers, and for every kind *)
(* of request at once.  A step is first classified by what it does to the  *)
(* records (Classified): it keeps, creates, advances, completes, overrides *)
(* or erases.  What a status stands for, and that an issue completes once, *)
(* follow from the class alone.  That a finish is announced is about the   *)
(* calls: the one that owes the event is carried along as a witness        *)
(* (Announces).  That no issue blocks itself is about the checks: what a   *)
(* check has seen is closed under blocks and misses the source, so a       *)
(* circle through the new relation would leave a circle among what was     *)
(* seen (BlocksOK).  That the last task is announced rests on the tasks    *)
(* being completed for as long as the hook is due (TasksOK).               *)
(*                                                                         *)
(* Memories and files, for any finite set of memories, any files and any   *)
(* linkers.  The invariant (RecordsInv) says of each store where RAM, the  *)
(* pending rows and the files may disagree: a record that RAM lacks and a  *)
(* file still has is pending, so to read its file is to read behind        *)
(* (MemoriesFiled, FilesFiled).  The walk over the parents is closed under *)
(* the parent it reads, so a parent that the check admits does not lead    *)
(* back to the memory it is set on, unless through one read behind         *)
(* (ParentsAcyclic); and a link is refused while either end is away, so    *)
(* one end can only be lost by a removal that lost the race to the link    *)
(* (NothingDangles).                                                       *)
(***************************************************************************)
EXTENDS Issues, ProjectRecords, TLAPS, FiniteSetTheorems, FunctionTheorems

(***************************************************************************)
(* Issues                                                                  *)
(***************************************************************************)
LEMMA WorkedIssues == Worked \subseteq Issues
BY LifecycleAssumption

LEMMA TaskNumbers == \A t \in TaskIds : t # 0
BY LifecycleAssumption

(***************************************************************************)
(* Records                                                                 *)
(***************************************************************************)
Texts == {"specification", "plan", "recap", "finished_at"}

\* The fields of an issue; tasks and relations may be anything.
IsIssue(r) ==
  r \in [ram : {"never", "here", "erased"}, status : Statuses, has : SUBSET Texts,
         deleted : BOOLEAN, tasks : {r.tasks}, relations : {r.relations}]

RecordsOK == /\ rec = [i \in Issues |-> rec[i]]
             /\ \A i \in Issues : IsIssue(rec[i])

\* update_issue files a record and touches no other.
LEMMA Updates ==
  ASSUME RecordsOK, NEW i \in Issues, NEW r, IsIssue(r), update_issue(i, r)
  PROVE  /\ RecordsOK' /\ rec'[i] = r
         /\ \A j \in Issues \ {i} : rec'[j] = rec[j]
BY DEF RecordsOK, update_issue

\* What the assignments of the service methods leave of a record.
LEMMA Assigned ==
  ASSUME NEW r, IsIssue(r), NEW st \in Statuses, NEW fields \in SUBSET Texts
  PROVE  LET q == [r EXCEPT !.status = st, !.has = @ \cup fields]
         IN  IsIssue(q) /\ q.status = st /\ q.has = r.has \cup fields /\ q.ram = r.ram
BY DEF IsIssue

LEMMA Marked ==
  ASSUME NEW r, IsIssue(r), NEW b \in BOOLEAN
  PROVE  LET q == [r EXCEPT !.deleted = b]
         IN  IsIssue(q) /\ q.status = r.status /\ q.has = r.has /\ q.ram = r.ram
BY DEF IsIssue

LEMMA Retasked ==
  ASSUME NEW r, IsIssue(r), NEW ts
  PROVE  LET q == [r EXCEPT !.tasks = ts]
         IN  IsIssue(q) /\ q.status = r.status /\ q.has = r.has /\ q.ram = r.ram
BY DEF IsIssue

LEMMA Rerelated ==
  ASSUME NEW r, IsIssue(r), NEW rs
  PROVE  LET q == [r EXCEPT !.relations = rs]
         IN  IsIssue(q) /\ q.status = r.status /\ q.has = r.has /\ q.ram = r.ram
BY DEF IsIssue

LEMMA Restatused ==
  ASSUME NEW r, IsIssue(r), NEW st \in Statuses
  PROVE  LET q == [r EXCEPT !.status = st]
         IN  IsIssue(q) /\ q.status = st /\ q.has = r.has /\ q.ram = r.ram
BY DEF IsIssue

LEMMA Retexted ==
  ASSUME NEW r, IsIssue(r), NEW h \in SUBSET Texts
  PROVE  LET q == [r EXCEPT !.has = h]
         IN  IsIssue(q) /\ q.status = r.status /\ q.has = h /\ q.ram = r.ram
BY DEF IsIssue

LEMMA Blank ==
  /\ IsIssue(NewRecord) /\ NewRecord.ram = "here" /\ NewRecord.status = "New"
  /\ IsIssue(NoRecord) /\ NoRecord.ram = "never" /\ NoRecord.status = "New"
  /\ LET q == [NoRecord EXCEPT !.ram = "erased"]
     IN  IsIssue(q) /\ q.ram = "erased" /\ q.status = "New"
BY DEF IsIssue, NewRecord, NoRecord, Statuses

(***************************************************************************)
(* What a step does to the records                                         *)
(***************************************************************************)
Same(i)   == /\ rec'[i].ram = rec[i].ram /\ rec'[i].status = rec[i].status
             /\ rec[i].has \subseteq rec'[i].has
Others(S) == \A j \in Issues \ S : Same(j)
Aside     == UNCHANGED <<overridden, completions>>
Stays(i)   == rec[i].ram = "here" /\ rec'[i].ram = "here"

Keeps      == Aside /\ Others({})
Creates(i) == Aside /\ Others({i}) /\ rec[i].ram = "never" /\ rec'[i].ram = "here" /\ rec'[i].status = "New"
Erases(i)  == Aside /\ Others({i}) /\ rec[i].ram = "here" /\ rec'[i].ram = "erased" /\ rec'[i].status = "New"

\* One stage further, or to one of the ends.
Advances(i) ==
  /\ Aside /\ Others({i}) /\ Stays(i) /\ rec[i].has \subseteq rec'[i].has
  /\ \/ rec[i].status = "New" /\ rec'[i].status = "Reasoning" /\ "specification" \in rec'[i].has
     \/ rec[i].status = "Reasoning" /\ rec'[i].status = "Planned" /\ "plan" \in rec'[i].has
     \/ rec[i].status = "Planned" /\ rec'[i].status = "Accepted"
     \/ rec'[i].status = "Canceled"
     \/ rec'[i].status = "Finished" /\ {"recap", "finished_at"} \subseteq rec'[i].has

Completes(i) ==
  /\ Others({i}) /\ Stays(i) /\ rec[i].status = "Accepted" /\ rec'[i].status = "Finished"
  /\ {"recap", "finished_at"} \subseteq rec'[i].has
  /\ completions' = [completions EXCEPT ![i] = IF @ = 2 THEN 2 ELSE @ + 1]
  /\ UNCHANGED overridden

Overrides(S) ==
  /\ overridden' = overridden \cup S /\ UNCHANGED completions
  /\ Others(S) /\ \A i \in S : rec'[i].ram = rec[i].ram

Classified ==
  \/ Keeps
  \/ \E i \in Issues : Creates(i) \/ Erases(i) \/ Advances(i) \/ Completes(i)
  \/ \E S \in SUBSET Issues : Overrides(S)

\* A step that leaves the records alone.
LEMMA KeepsRecords ==
  ASSUME RecordsOK, UNCHANGED rec PROVE RecordsOK' /\ Others({})
BY DEF RecordsOK, Others, Same

\* A step that assigns a status and fields.
LEMMA Assigns ==
  ASSUME RecordsOK, NEW i \in Issues, NEW st \in Statuses, NEW fields \in SUBSET Texts,
         Assign(i, st, fields)
  PROVE  /\ RecordsOK' /\ Others({i})
         /\ rec'[i].status = st /\ rec'[i].has = rec[i].has \cup fields /\ rec'[i].ram = rec[i].ram
<1>1. IsIssue(rec[i])
  BY DEF RecordsOK
<1> DEFINE q(r) == [r EXCEPT !.status = st, !.has = @ \cup fields]
<1>2. IsIssue(q(rec[i])) /\ q(rec[i]).status = st /\ q(rec[i]).has = rec[i].has \cup fields
      /\ q(rec[i]).ram = rec[i].ram
  BY <1>1 DEF IsIssue
<1>3. update_issue(i, q(rec[i]))
  BY DEF Assign
<1> HIDE DEF q
<1> QED
  BY <1>2, <1>3, Updates DEF Others, Same

\* A step that changes tasks, relations or the mark of a record.
LEMMA Refiles ==
  ASSUME RecordsOK, NEW i \in Issues, NEW r, IsIssue(r), update_issue(i, r),
         r.status = rec[i].status, rec[i].has \subseteq r.has, r.ram = rec[i].ram
  PROVE  RecordsOK' /\ Others({})
BY Updates DEF Others, Same

LEMMA DeleteKeeps ==
  ASSUME RecordsOK, NEW S \in SUBSET Issues, delete(S) PROVE RecordsOK' /\ Others({})
<1>1. ASSUME NEW i \in Issues
      PROVE IsIssue(rec'[i]) /\ Same(i)
  <2>1. IsIssue(rec[i])
    BY DEF RecordsOK
  <2>2. rec'[i] = rec[i] \/ rec'[i] = [rec[i] EXCEPT !.deleted = TRUE]
    BY DEF delete
  <2> QED
    BY <2>1, <2>2, Marked DEF Same
<1>2. rec' = [i \in Issues |-> rec'[i]]
  BY DEF delete
<1> QED
  BY <1>1, <1>2 DEF RecordsOK, Others

LEMMA StatusesKeep ==
  ASSUME RecordsOK, NEW S \in SUBSET Issues, NEW st \in Statuses, update_status(S, st)
  PROVE  RecordsOK' /\ Others(S) /\ \A i \in S : rec'[i].ram = rec[i].ram
<1>1. ASSUME NEW i \in Issues
      PROVE IsIssue(rec'[i]) /\ rec'[i].ram = rec[i].ram /\ (i \notin S => Same(i))
  <2>1. IsIssue(rec[i])
    BY DEF RecordsOK
  <2>2. rec'[i] = rec[i] \/ (i \in S /\ rec'[i] = [rec[i] EXCEPT !.status = st])
    BY DEF update_status
  <2> QED
    BY <2>1, <2>2 DEF Same, IsIssue
<1>2. rec' = [i \in Issues |-> rec'[i]]
  BY DEF update_status
<1> QED
  BY <1>1, <1>2 DEF RecordsOK, Others

(***************************************************************************)
(* Every step is of one of the classes                                     *)
(***************************************************************************)
Done == RecordsOK' /\ Classified

\* What steps do that are not about the life of an issue.
Quiet == Keeps \/ \E i \in Issues : Creates(i)

LEMMA KeepsClass ==
  ASSUME RecordsOK', Others({}), Aside PROVE Done /\ Quiet
BY DEF Done, Quiet, Classified, Keeps

LEMMA AdvancesClass ==
  ASSUME RecordsOK', NEW i \in Issues, Advances(i) PROVE Done
BY DEF Done, Classified

\* The service methods that assign a status.
LEMMA StatusClass ==
  ASSUME RecordsOK, Aside, NEW i \in Issues,
         \/ create_spec(i) \/ edit_spec(i) \/ create_plan(i) \/ edit_plan(i)
         \/ accept_issue(i) \/ cancel_issue(i) \/ force_finish_issue(i)
  PROVE  Done
<1> USE DEF Statuses
<1>0. /\ {} \in SUBSET Texts /\ {"specification"} \in SUBSET Texts /\ {"plan"} \in SUBSET Texts
      /\ {"recap", "finished_at"} \in SUBSET Texts
  BY DEF Texts
<1>1. get_for_project(i) => rec[i].ram = "here"
  BY DEF get_for_project, Exists
<1>2. CASE create_spec(i)
  <2>1. Assign(i, "Reasoning", {"specification"}) /\ rec[i].ram = "here" /\ rec[i].status = "New"
    BY <1>1, <1>2 DEF create_spec
  <2>2. RecordsOK' /\ Others({i}) /\ rec'[i].status = "Reasoning" /\ rec'[i].ram = rec[i].ram
        /\ rec'[i].has = rec[i].has \cup {"specification"}
    BY <1>0, <2>1, Assigns
  <2> QED
    BY <2>1, <2>2, AdvancesClass DEF Advances, Stays
<1>3. CASE edit_spec(i)
  <2>1. Assign(i, "Reasoning", {"specification"}) /\ rec[i].status = "Reasoning"
    BY <1>3 DEF edit_spec
  <2>2. RecordsOK' /\ Others({i}) /\ rec'[i].status = "Reasoning" /\ rec'[i].ram = rec[i].ram
        /\ rec'[i].has = rec[i].has \cup {"specification"}
    BY <1>0, <2>1, Assigns
  <2> QED
    BY <2>1, <2>2, KeepsClass DEF Others, Same
<1>4. CASE create_plan(i)
  <2>1. Assign(i, "Planned", {"plan"}) /\ rec[i].ram = "here" /\ rec[i].status = "Reasoning"
    BY <1>1, <1>4 DEF create_plan
  <2>2. RecordsOK' /\ Others({i}) /\ rec'[i].status = "Planned" /\ rec'[i].ram = rec[i].ram
        /\ rec'[i].has = rec[i].has \cup {"plan"}
    BY <1>0, <2>1, Assigns
  <2> QED
    BY <2>1, <2>2, AdvancesClass DEF Advances, Stays
<1>5. CASE edit_plan(i)
  <2>1. Assign(i, "Planned", {"plan"}) /\ rec[i].status = "Planned"
    BY <1>5 DEF edit_plan
  <2>2. RecordsOK' /\ Others({i}) /\ rec'[i].status = "Planned" /\ rec'[i].ram = rec[i].ram
        /\ rec'[i].has = rec[i].has \cup {"plan"}
    BY <1>0, <2>1, Assigns
  <2> QED
    BY <2>1, <2>2, KeepsClass DEF Others, Same
<1>6. CASE accept_issue(i)
  <2>1. Assign(i, "Accepted", {}) /\ rec[i].ram = "here" /\ rec[i].status = "Planned"
    BY <1>1, <1>6 DEF accept_issue
  <2>2. RecordsOK' /\ Others({i}) /\ rec'[i].status = "Accepted" /\ rec'[i].ram = rec[i].ram
        /\ rec'[i].has = rec[i].has \cup {}
    BY <1>0, <2>1, Assigns
  <2> QED
    BY <2>1, <2>2, AdvancesClass DEF Advances, Stays
<1>7. CASE cancel_issue(i)
  <2>1. Assign(i, "Canceled", {}) /\ rec[i].ram = "here"
    BY <1>1, <1>7 DEF cancel_issue
  <2>2. RecordsOK' /\ Others({i}) /\ rec'[i].status = "Canceled" /\ rec'[i].ram = rec[i].ram
        /\ rec'[i].has = rec[i].has \cup {}
    BY <1>0, <2>1, Assigns
  <2> QED
    BY <2>1, <2>2, AdvancesClass DEF Advances, Stays
<1>8. CASE force_finish_issue(i)
  <2>1. Assign(i, "Finished", {"recap", "finished_at"}) /\ rec[i].ram = "here"
    BY <1>1, <1>8 DEF force_finish_issue
  <2>2. RecordsOK' /\ Others({i}) /\ rec'[i].status = "Finished" /\ rec'[i].ram = rec[i].ram
        /\ rec'[i].has = rec[i].has \cup {"recap", "finished_at"}
    BY <1>0, <2>1, Assigns
  <2> QED
    BY <2>1, <2>2, AdvancesClass DEF Advances, Stays
<1> QED
  BY <1>2, <1>3, <1>4, <1>5, <1>6, <1>7, <1>8

LEMMA CreateClass ==
  ASSUME RecordsOK, Aside, NEW i \in Issues, rec[i].ram = "never", update_issue(i, NewRecord)
  PROVE  Done /\ Quiet
<1>1. RecordsOK' /\ rec'[i] = NewRecord /\ \A j \in Issues \ {i} : rec'[j] = rec[j]
  BY Updates, Blank
<1>2. Creates(i)
  BY <1>1, Blank DEF Creates, Others, Same
<1> QED
  BY <1>1, <1>2 DEF Done, Quiet, Classified

\* New tasks, or new relations.
LEMMA TaskRecords ==
  ASSUME RecordsOK, NEW i \in Issues, NEW ts, update_issue(i, [rec[i] EXCEPT !.tasks = ts])
  PROVE  RecordsOK' /\ Others({})
<1>1. IsIssue(rec[i])
  BY DEF RecordsOK
<1> DEFINE q(r) == [r EXCEPT !.tasks = ts]
<1>2. IsIssue(q(rec[i])) /\ q(rec[i]).status = rec[i].status /\ q(rec[i]).has = rec[i].has
      /\ q(rec[i]).ram = rec[i].ram
  BY <1>1 DEF IsIssue
<1>3. update_issue(i, q(rec[i]))
  OBVIOUS
<1> HIDE DEF q
<1> QED
  BY <1>2, <1>3, Refiles

LEMMA TasksClass ==
  ASSUME RecordsOK, Aside, NEW i \in Issues, NEW ts, update_issue(i, [rec[i] EXCEPT !.tasks = ts])
  PROVE  Done
BY TaskRecords, KeepsClass

LEMMA RelationsClass ==
  ASSUME RecordsOK, Aside, NEW i \in Issues, NEW rs, update_issue(i, [rec[i] EXCEPT !.relations = rs])
  PROVE  Done /\ Quiet
<1>1. IsIssue(rec[i])
  BY DEF RecordsOK
<1> DEFINE q(r) == [r EXCEPT !.relations = rs]
<1>2. IsIssue(q(rec[i])) /\ q(rec[i]).status = rec[i].status /\ q(rec[i]).has = rec[i].has
      /\ q(rec[i]).ram = rec[i].ram
  BY <1>1 DEF IsIssue
<1>3. update_issue(i, q(rec[i]))
  OBVIOUS
<1> HIDE DEF q
<1> QED
  BY <1>2, <1>3, Refiles, KeepsClass

LEMMA UnchangedClass ==
  ASSUME RecordsOK, Aside, UNCHANGED rec PROVE Done /\ Quiet
BY KeepsRecords, KeepsClass

\* The PUT route: a text that is replaced keeps the record, one that is blanked overrides it.
LEMMA TextClass ==
  ASSUME RecordsOK, NEW i \in Issues, NEW f \in {"specification", "plan"}, NEW blank \in BOOLEAN,
         update_issue_route(i, f, blank)
  PROVE  Done
<1> DEFINE h == IF blank THEN rec[i].has \ {f} ELSE rec[i].has \cup {f}
           q(r) == [r EXCEPT !.has = IF blank THEN @ \ {f} ELSE @ \cup {f}]
<1>1. IsIssue(rec[i])
  BY DEF RecordsOK
<1>2. IsIssue(q(rec[i])) /\ q(rec[i]).status = rec[i].status /\ q(rec[i]).has = h /\ q(rec[i]).ram = rec[i].ram
  BY <1>1 DEF IsIssue, Texts
<1>3. update_issue(i, q(rec[i]))
  BY DEF update_issue_route, update_fields
<1> HIDE DEF q
<1>4. RecordsOK' /\ rec'[i] = q(rec[i]) /\ \A j \in Issues \ {i} : rec'[j] = rec[j]
  BY <1>2, <1>3, Updates
<1>5. CASE blank
  <2>1. Overrides({i})
    BY <1>2, <1>4, <1>5 DEF Overrides, Others, Same, update_issue_route
  <2> QED
    BY <1>4, <2>1 DEF Done, Classified
<1>6. CASE ~blank
  BY <1>2, <1>4, <1>6, KeepsClass DEF Others, Same, Aside, update_issue_route
<1> QED
  BY <1>5, <1>6

LEMMA OverrideClass ==
  ASSUME RecordsOK, NEW S \in SUBSET Issues, NEW st \in Statuses, bulk_update_status(S, st)
  PROVE  Done
<1>1. RecordsOK' /\ Others(S) /\ \A i \in S : rec'[i].ram = rec[i].ram
  BY StatusesKeep DEF bulk_update_status
<1>2. Overrides(S)
  BY <1>1 DEF Overrides, bulk_update_status
<1> QED
  BY <1>1, <1>2 DEF Done, Classified

LEMMA EraseClass ==
  ASSUME RecordsOK, NEW i \in Issues, permanently_delete_issue(i)
  PROVE  Done
<1> DEFINE q == [NoRecord EXCEPT !.ram = "erased"]
<1>1. IsIssue(q) /\ q.ram = "erased" /\ q.status = "New"
  BY Blank
<1>2. rec[i].ram = "here" /\ update_issue(i, q) /\ Aside
  BY DEF permanently_delete_issue, permanently_delete, delete_issue, get_for_project, Exists, Aside
<1> HIDE DEF q
<1>3. RecordsOK' /\ rec'[i] = q /\ \A j \in Issues \ {i} : rec'[j] = rec[j]
  BY <1>1, <1>2, Updates
<1>4. Erases(i)
  BY <1>1, <1>2, <1>3 DEF Erases, Others, Same
<1> QED
  BY <1>3, <1>4 DEF Done, Classified

LEMMA MarkClass ==
  ASSUME RecordsOK, Aside, NEW i \in Issues, NEW b \in BOOLEAN,
         update_issue(i, [rec[i] EXCEPT !.deleted = b])
  PROVE  Done
<1>1. IsIssue(rec[i])
  BY DEF RecordsOK
<1> DEFINE q(r) == [r EXCEPT !.deleted = b]
<1>2. IsIssue(q(rec[i])) /\ q(rec[i]).status = rec[i].status /\ q(rec[i]).has = rec[i].has
      /\ q(rec[i]).ram = rec[i].ram
  BY <1>1 DEF IsIssue
<1>3. update_issue(i, q(rec[i]))
  OBVIOUS
<1> HIDE DEF q
<1> QED
  BY <1>2, <1>3, Refiles, KeepsClass

LEMMA CompleteClass ==
  ASSUME RecordsOK, NEW c \in Callers, call[c].i \in Issues, Completed(c)
  PROVE  Done
<1> DEFINE i == call[c].i
           f == {"recap", "finished_at"}
<1>1. /\ rec[i].ram = "here" /\ rec[i].status = "Accepted" /\ Assign(i, "Finished", f)
      /\ completions' = [completions EXCEPT ![i] = IF @ = 2 THEN 2 ELSE @ + 1]
      /\ UNCHANGED overridden
  BY DEF Completed, Completable, get_for_project, Exists
<1>2. "Finished" \in Statuses /\ f \in SUBSET Texts
  BY DEF Statuses, Texts
<1>3. i \in Issues
  OBVIOUS
<1> HIDE DEF i, f
<1>4. RecordsOK' /\ Others({i}) /\ rec'[i].status = "Finished" /\ rec'[i].has = rec[i].has \cup f
      /\ rec'[i].ram = rec[i].ram
  BY <1>1, <1>2, <1>3, Assigns
<1>5. Completes(i)
  BY <1>1, <1>4 DEF Completes, Stays, f
<1> QED
  BY <1>3, <1>4, <1>5 DEF Done, Classified

\* The issue of a task that is found.
LEMMA FoundIssue ==
  ASSUME NEW t, NEW p \in find_task(t) PROVE p[1] \in Issues
BY DEF find_task, Places

\* What a request does to the records.
LEMMA RequestClass ==
  ASSUME RecordsOK, Request PROVE Done
<1> USE WorkedIssues
<1>1. ASSUME NEW i \in Issues, create_issue_tool(i) PROVE Done
  BY <1>1, CreateClass DEF create_issue_tool, create, lifeVars, Aside
<1>2. ASSUME NEW c \in Callers, NEW i \in Worked, StatusRequests(c, i) PROVE Done
  <2>1. CASE complete_issue_tool(c, i) \/ complete_issue_route(c, i)
    BY <2>1, UnchangedClass
       DEF complete_issue_tool, complete_issue_route, complete_issue, store, Aside
  <2>2. CASE ~(complete_issue_tool(c, i) \/ complete_issue_route(c, i))
    <3>1. Aside
      BY <1>2, <2>2 DEF StatusRequests, create_issue_spec, edit_issue_spec, create_issue_plan, edit_issue_plan,
         accept_issue_tool, accept_issue_route, cancel_issue_tool, cancel_issue_endpoint, lifeVars, Aside
    <3>2. \/ create_spec(i) \/ edit_spec(i) \/ create_plan(i) \/ edit_plan(i)
          \/ accept_issue(i) \/ cancel_issue(i) \/ force_finish_issue(i)
      BY <1>2, <2>2 DEF StatusRequests, create_issue_spec, edit_issue_spec, create_issue_plan, edit_issue_plan,
         accept_issue_tool, accept_issue_route, cancel_issue_tool, cancel_issue_endpoint
    <3> QED
      BY <3>1, <3>2, StatusClass
  <2> QED
    BY <2>1, <2>2
<1>3. ASSUME NEW c \in Callers, NEW i \in Worked, Forced(c, i) PROVE Done
  BY <1>3, StatusClass DEF Forced, force_finish_issue_tool, force_finish_issue_endpoint, Aside
<1>4. ASSUME Override PROVE Done
  <2>1. ASSUME NEW S \in SUBSET Worked, NEW st \in Statuses, bulk_update_status(S, st) PROVE Done
    BY <2>1, OverrideClass
  <2>2. ASSUME NEW i \in Worked, NEW st \in Statuses, update_issue_status_route(i, st) PROVE Done
    BY <2>2, OverrideClass DEF update_issue_status_route
  <2>3. ASSUME NEW i \in Worked, NEW f \in {"specification", "plan"}, NEW blank \in BOOLEAN,
               update_issue_route(i, f, blank)
        PROVE Done
    BY <2>3, TextClass
  <2> QED
    BY <1>4, <2>1, <2>2, <2>3 DEF Override
<1>5. ASSUME Delete PROVE Done
  <2>1. ASSUME NEW S \in SUBSET Worked, bulk_delete(S) PROVE Done
    BY <2>1, DeleteKeeps, KeepsClass DEF bulk_delete, lifeVars, Aside
  <2>2. ASSUME NEW i \in Worked, delete_issue_tool(i) PROVE Done
    BY <2>2, <2>1 DEF delete_issue_tool
  <2>3. ASSUME NEW i \in Worked, restore_issue(i) PROVE Done
    BY <2>3, MarkClass DEF restore_issue, restore, lifeVars, Aside
  <2>4. ASSUME NEW i \in Worked, permanently_delete_issue(i) PROVE Done
    BY <2>4, EraseClass
  <2> QED
    BY <1>5, <2>1, <2>2, <2>3, <2>4 DEF Delete
<1>6. ASSUME Tasks PROVE Done
  <2>1. ASSUME NEW i \in Worked, NEW n \in 1..MaxTasks, create_bulk(i, n) PROVE Done
    BY <2>1, TasksClass DEF create_bulk, replace_tasks, Aside
  <2>2. ASSUME NEW c \in Callers, NEW t \in TaskIds, NEW st \in TaskStatuses,
               update_task_status(c, t, st) \/ update_task_route(c, t, st)
        PROVE Done
    <3>1. PICK p \in find_task(t) : update(p, st) /\ Aside
      BY <2>2 DEF update_task_status, update_task_route, Aside
    <3>2. \E ts : update_issue(p[1], [rec[p[1]] EXCEPT !.tasks = ts])
      <4>1. update_issue(p[1], [rec[p[1]] EXCEPT !.tasks = [rec[p[1]].tasks EXCEPT ![p[2]] = Task(@.id, @.order, st)]])
        BY <3>1 DEF update, upsert_task, update_issue
      <4> QED
        BY <4>1
    <3> QED
      BY <3>1, <3>2, FoundIssue, TasksClass
  <2> QED
    BY <1>6, <2>1, <2>2 DEF Tasks
<1>7. ASSUME Edits PROVE Done
  <2>1. ASSUME NEW i \in Worked, NEW n \in 0..MaxTasks, replace_all(i, n) PROVE Done
    BY <2>1, TasksClass DEF replace_all, replace_tasks, Aside
  <2>2. ASSUME NEW i \in Worked, NEW t \in TaskIds, delete_task(i, t) PROVE Done
    <3>1. update_issue(i, [rec[i] EXCEPT !.tasks = SelectSeq(rec[i].tasks, LAMBDA x : x.id # t)])
      BY <2>2 DEF delete_task, remove_task
    <3>2. Aside
      BY <2>2 DEF delete_task, Aside
    <3> QED
      BY <3>1, <3>2, TasksClass
  <2> QED
    BY <1>7, <2>1, <2>2 DEF Edits
<1> QED
  BY <1>1, <1>2, <1>3, <1>4, <1>5, <1>6, <1>7 DEF Request

\* A check in progress is about two issues.
WalksOK ==
  /\ walk = [a \in Adders |-> walk[a]]
  /\ \A a \in Adders :
       /\ walk[a] \in [at : {"idle", "walk", "relate"}, src : Issues \cup {NoIssue},
                       dst : Issues \cup {NoIssue}, todo : {walk[a].todo}, seen : {walk[a].seen}]
       /\ walk[a].at # "idle" => walk[a].src \in Issues /\ walk[a].dst \in Issues

LEMMA RelationClass ==
  ASSUME RecordsOK, WalksOK, RelNext, UNCHANGED lifeVars PROVE Done /\ Quiet
<1> USE DEF lifeVars, Aside
<1>1. ASSUME NEW a \in Adders, NEW i \in Issues, NEW j \in Issues, add_relation_blocks(a, i, j) PROVE Done /\ Quiet
  BY <1>1, UnchangedClass DEF add_relation_blocks, store
<1>2. ASSUME NEW i \in Issues, NEW j \in Issues, related(i, j) PROVE Done /\ Quiet
  <2>1. PICK lo \in Issues, hi \in Issues : upsert_relation(lo, "related", hi)
    BY <1>2 DEF related
  <2> QED
    BY <2>1, RelationsClass DEF upsert_relation
<1>3. ASSUME NEW a \in Adders, NEW i \in Issues, NEW j \in Issues, create_issue_route(a, i, j) PROVE Done /\ Quiet
  BY <1>3, CreateClass DEF create_issue_route
<1>4. ASSUME NEW a \in Adders, AddStep(a) PROVE Done /\ Quiet
  <2>1. CASE _detect_cycle(a) \/ cycle_refused(a)
    BY <2>1, UnchangedClass DEF _detect_cycle, cycle_refused, store
  <2>2. CASE blocks_added(a)
    <3>1. CASE Active(walk[a].src)
      <4>1. walk[a].src \in Issues
        BY <2>2 DEF blocks_added, WalksOK
      <4> QED
        BY <2>2, <3>1, <4>1, RelationsClass DEF blocks_added, upsert_relation
    <3>2. CASE ~Active(walk[a].src)
      BY <2>2, <3>2, UnchangedClass DEF blocks_added, store
    <3> QED
      BY <3>1, <3>2
  <2>3. CASE source_related(a)
    <3>1. CASE related(walk[a].src, walk[a].dst)
      <4>1. walk[a].src \in Issues /\ walk[a].dst \in Issues
        BY <2>3 DEF source_related, WalksOK
      <4> QED
        BY <3>1, <4>1, <1>2 DEF source_related
    <3>2. CASE UNCHANGED rec
      BY <3>2, UnchangedClass
    <3> QED
      BY <2>3, <3>1, <3>2 DEF source_related
  <2> QED
    BY <1>4, <2>1, <2>2, <2>3 DEF AddStep
<1>5. ASSUME NEW i \in Issues, NEW j \in Issues, NEW type \in RelationTypes, delete_relation(i, type, j) PROVE Done /\ Quiet
  BY <1>5, RelationsClass DEF delete_relation, remove_relation
<1>6. ASSUME NEW p \in Projects, archive(p) \/ unarchive(p) PROVE Done /\ Quiet
  BY <1>6, UnchangedClass DEF archive, unarchive
<1> QED
  BY <1>1, <1>2, <1>3, <1>4, <1>5, <1>6 DEF RelNext, add_relation_related

(***************************************************************************)
(* Calls in progress                                                       *)
(***************************************************************************)
\* A call is about an issue; one that waits for or holds the lock will fire the hook and
\* announce what it has done.
IsCall(k) ==
  /\ k \in [at : {"idle", "lock", "load", "log", "reply", "find", "ask", "fire"},
            i : Issues \cup {0}, say : {"none", "then", "now", "Finished"}, st : Statuses,
            lock : {k.lock}, t : {k.t}, hook : BOOLEAN]
  /\ k.at # "idle" => k.i \in Issues
  /\ k.at \in {"lock", "load"} => k.hook /\ k.say \in {"then", "Finished"}

CallsOK == /\ call = [c \in Callers |-> call[c]]
           /\ \A c \in Callers : IsCall(call[c])

LEMMA CallsMove ==
  ASSUME CallsOK, NEW c \in Callers, NEW k, IsCall(k), call' = [call EXCEPT ![c] = k]
  PROVE  /\ CallsOK' /\ call'[c] = k
         /\ \A d \in Callers \ {c} : call'[d] = call[d]
BY DEF CallsOK

LEMMA IdleCall == IsCall(Idle) /\ Idle.at = "idle" /\ Idle.say = "none"
BY DEF IsCall, Idle, Statuses

\* A call begins: with its log entry, or with the wait for the lock.
LEMMA BeginCalls ==
  ASSUME CallsOK, NEW c \in Callers, NEW i \in Issues, NEW say \in {"none", "then", "now", "Finished"},
         NEW hook \in BOOLEAN, Begin(c, i, say, hook)
  PROVE  /\ CallsOK' /\ call[c].at = "idle"
         /\ call'[c].at = "log" /\ call'[c].i = i /\ call'[c].say = say /\ call'[c].hook = hook
         /\ \A d \in Callers \ {c} : call'[d] = call[d]
<1> DEFINE k == [Idle EXCEPT !.at = "log", !.i = i, !.say = say, !.hook = hook]
<1>1. IsCall(k) /\ k.at = "log" /\ k.i = i /\ k.say = say /\ k.hook = hook
  BY DEF IsCall, Idle, Statuses
<1>2. call' = [call EXCEPT ![c] = k] /\ call[c].at = "idle"
  BY DEF Begin
<1> HIDE DEF k
<1> QED
  BY <1>1, <1>2, CallsMove

LEMMA BeginsForced ==
  ASSUME CallsOK, NEW c \in Callers, NEW i \in Issues, NEW say \in {"now", "Finished"},
         Begin(c, i, say, TRUE)
  PROVE  /\ CallsOK' /\ call[c].at = "idle"
         /\ call'[c].at = "log" /\ call'[c].i = i /\ call'[c].say = say /\ call'[c].hook = TRUE
         /\ \A d \in Callers \ {c} : call'[d] = call[d]
BY BeginCalls, ZenonT(30)

LEMMA LeaveCalls ==
  ASSUME CallsOK, NEW c \in Callers, Leave(c)
  PROVE  /\ CallsOK' /\ call'[c].at = "idle"
         /\ \A d \in Callers \ {c} : call'[d] = call[d]
BY CallsMove, IdleCall DEF Leave

\* A call moves to another await and changes nothing else.
LEMMA MoveCalls ==
  ASSUME CallsOK, NEW c \in Callers, NEW at,
         \/ call[c].at = "lock" /\ at = "load"
         \/ call[c].at # "idle" /\ at \in {"log", "reply", "find", "ask", "fire"},
         call' = [call EXCEPT ![c].at = at]
  PROVE  /\ CallsOK' /\ call'[c].at = at /\ call'[c].i = call[c].i
         /\ call'[c].hook = call[c].hook /\ call'[c].say = call[c].say
         /\ \A d \in Callers \ {c} : call'[d] = call[d]
<1> DEFINE q(k) == [k EXCEPT !.at = at]
<1>1. IsCall(call[c])
  BY DEF CallsOK
<1>2. /\ IsCall(q(call[c])) /\ q(call[c]).at = at /\ q(call[c]).i = call[c].i
      /\ q(call[c]).hook = call[c].hook /\ q(call[c]).say = call[c].say
  BY <1>1 DEF IsCall
<1>3. call' = [call EXCEPT ![c] = q(call[c])]
  OBVIOUS
<1> HIDE DEF q
<1> QED
  BY <1>2, <1>3, CallsMove

LEMMA ReturnCalls ==
  ASSUME CallsOK, RecordsOK, NEW c \in Callers, Returns(c)
  PROVE  /\ CallsOK' /\ call[c].at = "log" /\ call'[c].at = "reply" /\ call'[c].i = call[c].i
         /\ call'[c].hook = call[c].hook /\ call'[c].say = call[c].say
         /\ call'[c].st = rec[call[c].i].status
         /\ \A d \in Callers \ {c} : call'[d] = call[d]
<1> DEFINE st == rec[call[c].i].status
           q(k) == [k EXCEPT !.at = "reply", !.st = st, !.lock = 0]
<1>1. IsCall(call[c]) /\ call[c].at = "log"
  BY DEF CallsOK, Returns
<1>2. st \in Statuses
  BY <1>1 DEF IsCall, RecordsOK, IsIssue
<1>3. call' = [call EXCEPT ![c] = q(call[c])]
  BY DEF Returns
<1> HIDE DEF st
<1>4. /\ IsCall(q(call[c])) /\ q(call[c]).at = "reply" /\ q(call[c]).i = call[c].i
      /\ q(call[c]).hook = call[c].hook /\ q(call[c]).say = call[c].say /\ q(call[c]).st = st
  BY <1>1, <1>2 DEF IsCall
<1> HIDE DEF q
<1> QED
  BY <1>1, <1>3, <1>4, CallsMove DEF st

LEMMA LockCalls ==
  ASSUME CallsOK, NEW c \in Callers, NEW i \in Issues, NEW say \in {"then", "Finished"},
         complete_issue(c, i, say)
  PROVE  /\ CallsOK' /\ call[c].at = "idle"
         /\ \A d \in Callers \ {c} : call'[d] = call[d]
<1>1. PICK l : call' = [call EXCEPT ![c] = [Idle EXCEPT !.at = "lock", !.i = i, !.say = say,
                                                       !.lock = l, !.hook = TRUE]]
  BY DEF complete_issue
<1>2. IsCall([Idle EXCEPT !.at = "lock", !.i = i, !.say = say, !.lock = l, !.hook = TRUE])
  BY DEF IsCall, Idle, Statuses
<1>3. call[c].at = "idle"
  BY DEF complete_issue
<1> QED
  BY <1>1, <1>2, <1>3, CallsMove

LEMMA TaskCalls ==
  ASSUME CallsOK, NEW c \in Callers, NEW t, NEW st, update_task_status(c, t, st) \/ update_task_route(c, t, st)
  PROVE  /\ CallsOK' /\ call[c].at = "idle"
         /\ \A d \in Callers \ {c} : call'[d] = call[d]
<1>1. call[c].at = "idle"
  BY DEF update_task_status, update_task_route
<1>2. PICK p \in find_task(t), at \in {"find", "ask"} :
        \/ UNCHANGED call
        \/ call' = [call EXCEPT ![c] = [Idle EXCEPT !.at = at, !.i = p[1], !.t = t]]
  BY DEF update_task_status, update_task_route
<1>3. IsCall([Idle EXCEPT !.at = at, !.i = p[1], !.t = t])
  BY FoundIssue DEF IsCall, Idle, Statuses
<1>4. CASE UNCHANGED call
  BY <1>1, <1>4 DEF CallsOK
<1>5. CASE ~UNCHANGED call
  BY <1>1, <1>2, <1>3, <1>5, CallsMove
<1> QED
  BY <1>4, <1>5

(***************************************************************************)
(* A finish is announced                                                   *)
(***************************************************************************)
\* Call c still has to announce that issue i is finished.
Announces(c, i) ==
  /\ call[c].i = i /\ call[c].hook /\ call[c].say # "none"
  /\ \/ call[c].at = "log"
     \/ call[c].at = "reply" /\ (call[c].say = "then" => call[c].st = "Finished")

\* While an announcement is due the issue is Finished, so whatever the call reads it announces.
FinishOK ==
  /\ finish = [i \in Issues |-> finish[i]]
  /\ \A i \in Issues : finish[i] = "due" =>
       /\ rec[i].ram = "here" /\ rec[i].status = "Finished"
       /\ \E c \in Callers : Announces(c, i)

\* Nothing becomes due, and who announces goes on announcing.
LEMMA StillDue ==
  ASSUME FinishOK,
         finish' = [i \in Issues |-> finish'[i]],
         \A i \in Issues : finish'[i] = "due" =>
           /\ finish[i] = "due"
           /\ rec'[i].ram = rec[i].ram /\ rec'[i].status = rec[i].status
           /\ \A c \in Callers : Announces(c, i) => Announces(c, i)'
  PROVE  FinishOK'
BY DEF FinishOK

\* A call that was not announcing anything has no part in it.
LEMMA OtherCalls ==
  ASSUME NEW c \in Callers, NEW i \in Issues, ~Announces(c, i),
         \A d \in Callers \ {c} : call'[d] = call[d]
  PROVE  \A d \in Callers : Announces(d, i) => Announces(d, i)'
BY DEF Announces

\* A step of a call that has nothing to announce.
LEMMA SilentStep ==
  ASSUME FinishOK, NEW c \in Callers, NEW i \in Issues,
         call[c].at \notin {"log", "reply"}, \A d \in Callers \ {c} : call'[d] = call[d],
         \/ UNCHANGED finish /\ Others({})
         \/ Finish(i, "no") /\ Others({i})
  PROVE  FinishOK'
<1>1. finish' = [j \in Issues |-> finish'[j]] /\ \A j \in Issues : finish'[j] = "due" => finish[j] = "due"
  BY DEF Finish, FinishOK
<1>2. ASSUME NEW j \in Issues, finish'[j] = "due"
      PROVE  /\ rec'[j].ram = rec[j].ram /\ rec'[j].status = rec[j].status
             /\ \A d \in Callers : Announces(d, j) => Announces(d, j)'
  <2>1. Same(j)
    BY <1>2 DEF Finish, FinishOK, Others
  <2>2. ~Announces(c, j)
    BY DEF Announces
  <2> QED
    BY <2>1, <2>2, OtherCalls DEF Same
<1> QED
  BY <1>1, <1>2, StillDue

\* The call that finishes an issue announces it.
LEMMA BecomesDue ==
  ASSUME FinishOK, NEW c \in Callers, NEW i \in Issues, Finish(i, "due"), Others({i}),
         rec'[i].ram = "here", rec'[i].status = "Finished",
         Announces(c, i)', \A j \in Issues : ~Announces(c, j),
         \A d \in Callers \ {c} : call'[d] = call[d]
  PROVE  FinishOK'
<1>1. finish' = [j \in Issues |-> finish'[j]]
  BY DEF Finish, FinishOK
<1>2. ASSUME NEW j \in Issues, finish'[j] = "due"
      PROVE  /\ rec'[j].ram = "here" /\ rec'[j].status = "Finished"
             /\ \E d \in Callers : Announces(d, j)'
  <2>1. CASE j = i
    BY <2>1
  <2>2. CASE j # i
    <3>1. finish[j] = "due" /\ Same(j)
      BY <1>2, <2>2 DEF Finish, FinishOK, Others
    <3>2. PICK d \in Callers : Announces(d, j)
      BY <3>1 DEF FinishOK
    <3>3. Announces(d, j)'
      BY <3>2, OtherCalls
    <3> QED
      BY <3>1, <3>3 DEF FinishOK, Same
  <2> QED
    BY <2>1, <2>2
<1> QED
  BY <1>1, <1>2 DEF FinishOK

LEMMA FinishRequest ==
  ASSUME RecordsOK, CallsOK, FinishOK, Request PROVE CallsOK' /\ FinishOK'
<1> USE WorkedIssues
<1>q. ASSUME UNCHANGED <<call, finish>>,
             \A i \in Issues : finish[i] = "due" =>
                rec'[i].ram = rec[i].ram /\ rec'[i].status = rec[i].status
      PROVE  CallsOK' /\ FinishOK'
  BY <1>q DEF CallsOK, FinishOK, Announces
<1>k. ASSUME Others({}), UNCHANGED <<call, finish>> PROVE CallsOK' /\ FinishOK'
  BY <1>k, <1>q DEF Others, Same
<1>1. ASSUME NEW i \in Issues, create_issue_tool(i) PROVE CallsOK' /\ FinishOK'
  <2>1. rec[i].ram = "never" /\ update_issue(i, NewRecord) /\ UNCHANGED <<call, finish>>
    BY <1>1 DEF create_issue_tool, create, lifeVars
  <2>2. \A j \in Issues \ {i} : rec'[j] = rec[j]
    BY <2>1, Updates, Blank
  <2> QED
    BY <2>1, <2>2, <1>q DEF FinishOK
<1>2. ASSUME NEW c \in Callers, NEW i \in Worked, StatusRequests(c, i) PROVE CallsOK' /\ FinishOK'
  <2>1. CASE complete_issue_tool(c, i) \/ complete_issue_route(c, i)
    <3>1. CallsOK' /\ call[c].at = "idle" /\ \A d \in Callers \ {c} : call'[d] = call[d]
      BY <2>1, LockCalls DEF complete_issue_tool, complete_issue_route
    <3>2. UNCHANGED <<rec, finish>>
      BY <2>1 DEF complete_issue_tool, complete_issue_route, complete_issue, store
    <3> QED
      BY <3>1, <3>2, KeepsRecords, SilentStep
  <2>2. CASE edit_issue_spec(i) \/ edit_issue_plan(i)
    <3>1. UNCHANGED <<call, finish>>
      BY <2>2 DEF edit_issue_spec, edit_issue_plan, lifeVars
    <3>2. PICK st \in Statuses, f \in SUBSET Texts : rec[i].status = st /\ Assign(i, st, f)
      BY <2>2 DEF edit_issue_spec, edit_issue_plan, edit_spec, edit_plan, Statuses, Texts
    <3>3. Others({i}) /\ rec'[i].status = rec[i].status /\ rec'[i].ram = rec[i].ram
      BY <3>2, Assigns
    <3> QED
      BY <3>1, <3>3, <1>q DEF Others, Same
  <2>3. CASE \/ create_issue_spec(c, i) \/ create_issue_plan(c, i) \/ accept_issue_tool(c, i)
             \/ accept_issue_route(c, i) \/ cancel_issue_tool(c, i) \/ cancel_issue_endpoint(c, i)
    <3>1. PICK say \in {"none", "then", "now", "Finished"} : Begin(c, i, say, FALSE)
      BY <2>3 DEF create_issue_spec, create_issue_plan, accept_issue_tool, accept_issue_route,
         cancel_issue_tool, cancel_issue_endpoint
    <3>2. Finish(i, "no")
      BY <2>3 DEF create_issue_spec, create_issue_plan, accept_issue_tool, accept_issue_route,
         cancel_issue_tool, cancel_issue_endpoint
    <3>3. PICK st \in Statuses, f \in SUBSET Texts : Assign(i, st, f)
      BY <2>3 DEF create_issue_spec, create_issue_plan, accept_issue_tool, accept_issue_route,
         cancel_issue_tool, cancel_issue_endpoint, create_spec, create_plan, accept_issue, cancel_issue,
         Statuses, Texts
    <3>4. Others({i})
      BY <3>3, Assigns
    <3>5. CallsOK' /\ call[c].at = "idle" /\ \A d \in Callers \ {c} : call'[d] = call[d]
      BY <3>1, BeginCalls
    <3> QED
      BY <3>2, <3>4, <3>5, SilentStep
  <2> QED
    BY <1>2, <2>1, <2>2, <2>3 DEF StatusRequests
<1>3. ASSUME NEW c \in Callers, NEW i \in Worked, Forced(c, i) PROVE CallsOK' /\ FinishOK'
  <2> DEFINE f == {"recap", "finished_at"}
  <2>1. PICK say \in {"now", "Finished"} : Begin(c, i, say, TRUE)
    BY <1>3 DEF Forced, force_finish_issue_tool, force_finish_issue_endpoint
  <2>2. /\ Finish(i, "due") /\ Assign(i, "Finished", f) /\ rec[i].ram = "here"
    BY <1>3 DEF Forced, force_finish_issue_tool, force_finish_issue_endpoint, force_finish_issue,
       get_for_project, Exists
  <2>3. "Finished" \in Statuses /\ f \in SUBSET Texts
    BY DEF Statuses, Texts
  <2> HIDE DEF f
  <2>4. Others({i}) /\ rec'[i].status = "Finished" /\ rec'[i].ram = "here"
    BY <2>2, <2>3, Assigns
  <2>5. /\ CallsOK' /\ call[c].at = "idle" /\ call'[c].at = "log" /\ call'[c].i = i
        /\ call'[c].say = say /\ call'[c].hook = TRUE
        /\ \A d \in Callers \ {c} : call'[d] = call[d]
    BY <2>1, BeginsForced
  <2>6. Announces(c, i)' /\ \A j \in Issues : ~Announces(c, j)
    BY <2>5 DEF Announces
  <2> QED
    BY <2>2, <2>4, <2>5, <2>6, BecomesDue
<1>4. ASSUME NEW S \in SUBSET Issues, NEW st \in Statuses, bulk_update_status(S, st)
      PROVE CallsOK' /\ FinishOK'
  <2>1. Others(S) /\ UNCHANGED call
    BY <1>4, StatusesKeep DEF bulk_update_status
  <2>2. /\ finish' = [i \in Issues |-> finish'[i]]
        /\ \A i \in Issues : finish'[i] = "due" => finish[i] = "due" /\ i \notin S
    BY <1>4 DEF bulk_update_status
  <2>3. CallsOK'
    BY <2>1 DEF CallsOK
  <2> QED
    BY <2>1, <2>2, <2>3, StillDue DEF Others, Same, Announces
<1>5. ASSUME NEW i \in Worked, NEW f \in {"specification", "plan"}, NEW blank \in BOOLEAN,
             update_issue_route(i, f, blank)
      PROVE CallsOK' /\ FinishOK'
  <2> DEFINE q(r) == [r EXCEPT !.has = IF blank THEN @ \ {f} ELSE @ \cup {f}]
  <2>1. IsIssue(rec[i])
    BY DEF RecordsOK
  <2>2. IsIssue(q(rec[i])) /\ q(rec[i]).status = rec[i].status /\ q(rec[i]).ram = rec[i].ram
    BY <2>1 DEF IsIssue, Texts
  <2>3. update_issue(i, q(rec[i])) /\ UNCHANGED <<call, finish>>
    BY <1>5 DEF update_issue_route, update_fields
  <2> HIDE DEF q
  <2>4. rec'[i] = q(rec[i]) /\ \A j \in Issues \ {i} : rec'[j] = rec[j]
    BY <2>2, <2>3, Updates
  <2> QED
    BY <2>2, <2>3, <2>4, <1>q
<1>6. ASSUME NEW S \in SUBSET Issues, bulk_delete(S) PROVE CallsOK' /\ FinishOK'
  BY <1>6, <1>k, DeleteKeeps DEF bulk_delete, lifeVars
<1>7. ASSUME NEW i \in Worked, restore_issue(i) PROVE CallsOK' /\ FinishOK'
  <2>1. update_issue(i, [rec[i] EXCEPT !.deleted = FALSE]) /\ UNCHANGED <<call, finish>>
    BY <1>7 DEF restore_issue, restore, lifeVars
  <2>2. IsIssue(rec[i])
    BY DEF RecordsOK
  <2>3. rec'[i] = [rec[i] EXCEPT !.deleted = FALSE] /\ \A j \in Issues \ {i} : rec'[j] = rec[j]
    BY <2>1 DEF update_issue, RecordsOK
  <2>4. rec'[i].status = rec[i].status /\ rec'[i].ram = rec[i].ram
    BY <2>2, <2>3 DEF IsIssue
  <2> QED
    BY <2>1, <2>3, <2>4, <1>q
<1>8. ASSUME NEW i \in Worked, permanently_delete_issue(i) PROVE CallsOK' /\ FinishOK'
  <2>1. update_issue(i, [NoRecord EXCEPT !.ram = "erased"]) /\ UNCHANGED call /\ Finish(i, "no")
    BY <1>8 DEF permanently_delete_issue, permanently_delete, delete_issue, Finish
  <2>2. \A j \in Issues \ {i} : rec'[j] = rec[j]
    BY <2>1, Updates, Blank
  <2>3. /\ finish' = [j \in Issues |-> finish'[j]]
        /\ \A j \in Issues : finish'[j] = "due" => finish[j] = "due" /\ j # i
    BY <2>1 DEF Finish, FinishOK
  <2>4. CallsOK'
    BY <2>1 DEF CallsOK
  <2> QED
    BY <2>1, <2>2, <2>3, <2>4, StillDue DEF Announces
<1>9. ASSUME NEW i \in Issues, NEW ts, update_issue(i, [rec[i] EXCEPT !.tasks = ts]),
             UNCHANGED <<call, finish>>
      PROVE CallsOK' /\ FinishOK'
  <2>1. IsIssue(rec[i])
    BY DEF RecordsOK
  <2>2. rec'[i] = [rec[i] EXCEPT !.tasks = ts] /\ \A j \in Issues \ {i} : rec'[j] = rec[j]
    BY <1>9 DEF update_issue, RecordsOK
  <2>3. rec'[i].status = rec[i].status /\ rec'[i].ram = rec[i].ram
    BY <2>1, <2>2 DEF IsIssue
  <2> QED
    BY <1>9, <2>2, <2>3, <1>q
<1>10. ASSUME NEW i \in Worked, NEW n \in 0..MaxTasks, create_bulk(i, n) \/ replace_all(i, n)
       PROVE CallsOK' /\ FinishOK'
  BY <1>10, <1>9 DEF create_bulk, replace_all, replace_tasks
<1>11. ASSUME NEW i \in Worked, NEW t \in TaskIds, delete_task(i, t) PROVE CallsOK' /\ FinishOK'
  <2>1. update_issue(i, [rec[i] EXCEPT !.tasks = SelectSeq(rec[i].tasks, LAMBDA x : x.id # t)])
    BY <1>11 DEF delete_task, remove_task
  <2>2. UNCHANGED <<call, finish>>
    BY <1>11 DEF delete_task
  <2> QED
    BY <2>1, <2>2, <1>9
<1>12. ASSUME NEW c \in Callers, NEW t \in TaskIds, NEW st \in TaskStatuses,
              update_task_status(c, t, st) \/ update_task_route(c, t, st)
       PROVE CallsOK' /\ FinishOK'
  <2>1. CallsOK' /\ call[c].at = "idle" /\ \A d \in Callers \ {c} : call'[d] = call[d]
    BY <1>12, TaskCalls
  <2>2. UNCHANGED <<finish, overridden, completions>>
    BY <1>12 DEF update_task_status, update_task_route
  <2>3. PICK p \in find_task(t) : update(p, st)
    BY <1>12 DEF update_task_status, update_task_route
  <2>4. p[1] \in Issues
    BY FoundIssue
  <2>5. \E ts : update_issue(p[1], [rec[p[1]] EXCEPT !.tasks = ts])
    <3>1. update_issue(p[1], [rec[p[1]] EXCEPT !.tasks = [rec[p[1]].tasks EXCEPT ![p[2]] = Task(@.id, @.order, st)]])
      BY <2>3 DEF update, upsert_task, update_issue
    <3> QED
      BY <3>1
  <2>6. Others({})
    BY <2>4, <2>5, TaskRecords
  <2> QED
    BY <2>1, <2>2, <2>4, <2>6, SilentStep
<1>13. ASSUME Override PROVE CallsOK' /\ FinishOK'
  BY <1>13, <1>4, <1>5 DEF Override, update_issue_status_route
<1>14. ASSUME Delete PROVE CallsOK' /\ FinishOK'
  BY <1>14, <1>6, <1>7, <1>8 DEF Delete, delete_issue_tool
<1>15. ASSUME Tasks PROVE CallsOK' /\ FinishOK'
  <2>1. ASSUME NEW i \in Worked, NEW n \in 1..MaxTasks, create_bulk(i, n) PROVE CallsOK' /\ FinishOK'
    BY <2>1, <1>10
  <2> QED
    BY <1>15, <2>1, <1>12 DEF Tasks
<1>16. ASSUME Edits PROVE CallsOK' /\ FinishOK'
  BY <1>16, <1>10, <1>11 DEF Edits
<1> QED
  BY <1>1, <1>2, <1>3, <1>13, <1>14, <1>15, <1>16 DEF Request

LEMMA FinishCallStep ==
  ASSUME RecordsOK, CallsOK, FinishOK, NEW c \in Callers, Step(c) \/ Raises(c)
  PROVE  CallsOK' /\ FinishOK'
<1> DEFINE i == call[c].i
<1>1. call[c].at # "idle"
  BY DEF Step, Raises, Locked, Completed, NotCompletable, Returns, Replies, found_again, all_completed,
     fires_all_tasks_completed
<1>2. IsCall(call[c]) /\ i \in Issues
  BY <1>1 DEF CallsOK, IsCall
<1>3. CASE Locked(c)
  <2>1. CallsOK' /\ call[c].at = "lock" /\ \A d \in Callers \ {c} : call'[d] = call[d]
    BY <1>3, MoveCalls DEF Locked
  <2>2. UNCHANGED <<rec, finish>>
    BY <1>3 DEF Locked, store
  <2> QED
    BY <1>2, <2>1, <2>2, KeepsRecords, SilentStep
<1>4. CASE Completed(c)
  <2> DEFINE f == {"recap", "finished_at"}
  <2>1. PICK n \in Issues : n = call[c].i
    BY <1>2
  <2>2. /\ call[c].at = "load" /\ rec[n].ram = "here" /\ Assign(n, "Finished", f) /\ Finish(n, "due")
        /\ call' = [call EXCEPT ![c].at = "log"]
    BY <1>4, <2>1 DEF Completed, Completable, get_for_project, Exists
  <2>3. "Finished" \in Statuses /\ f \in SUBSET Texts
    BY DEF Statuses, Texts
  <2> HIDE DEF f
  <2>4. Others({n}) /\ rec'[n].status = "Finished" /\ rec'[n].ram = "here"
    BY <2>2, <2>3, Assigns
  <2>5. /\ CallsOK' /\ call'[c].at = "log" /\ call'[c].i = call[c].i
        /\ call'[c].hook = call[c].hook /\ call'[c].say = call[c].say
        /\ \A d \in Callers \ {c} : call'[d] = call[d]
    BY <2>2, MoveCalls
  <2>6. Announces(c, n)' /\ \A j \in Issues : ~Announces(c, j)
    BY <1>2, <2>1, <2>2, <2>5 DEF Announces, IsCall
  <2> QED
    BY <2>2, <2>4, <2>5, <2>6, BecomesDue
<1>5. CASE NotCompletable(c)
  <2>1. CallsOK' /\ call[c].at = "load" /\ \A d \in Callers \ {c} : call'[d] = call[d]
    BY <1>5, LeaveCalls DEF NotCompletable
  <2>2. UNCHANGED <<rec, finish>>
    BY <1>5 DEF NotCompletable, store
  <2> QED
    BY <1>2, <2>1, <2>2, KeepsRecords, SilentStep
<1>6. CASE Returns(c)
  <2>1. /\ CallsOK' /\ call[c].at = "log" /\ call'[c].at = "reply" /\ call'[c].i = i
        /\ call'[c].hook = call[c].hook /\ call'[c].say = call[c].say /\ call'[c].st = rec[i].status
        /\ \A d \in Callers \ {c} : call'[d] = call[d]
    BY <1>6, ReturnCalls
  <2>2. UNCHANGED <<rec, finish>>
    BY <1>6 DEF Returns, store
  <2>3. ASSUME NEW j \in Issues, finish[j] = "due", NEW d \in Callers, Announces(d, j)
        PROVE  Announces(d, j)'
    <3>1. CASE d = c
      BY <2>1, <2>3, <3>1 DEF Announces, FinishOK
    <3>2. CASE d # c
      BY <2>1, <2>3, <3>2 DEF Announces
    <3> QED
      BY <3>1, <3>2
  <2> QED
    BY <2>1, <2>2, <2>3, StillDue DEF FinishOK
<1>7. CASE Replies(c)
  <2>1. CallsOK' /\ call[c].at = "reply" /\ \A d \in Callers \ {c} : call'[d] = call[d]
    BY <1>7, LeaveCalls DEF Replies
  <2>2. UNCHANGED rec /\ Finish(i, IF finish[i] = "due" /\ Says(c) = "Finished" THEN "told" ELSE finish[i])
    BY <1>7 DEF Replies, store
  <2>3. /\ finish' = [j \in Issues |-> finish'[j]]
        /\ \A j \in Issues : finish'[j] = "due" => finish[j] = "due" /\ (j = i => Says(c) # "Finished")
    BY <1>2, <2>2 DEF Finish, FinishOK
  <2>4. ASSUME NEW j \in Issues, finish'[j] = "due" PROVE ~Announces(c, j)
    <3>1. CASE j = i
      <4>1. finish[i] = "due" /\ Says(c) # "Finished" /\ rec[i].status = "Finished"
        BY <2>3, <2>4, <3>1 DEF FinishOK
      <4>2. CASE call[c].say = "then"
        BY <2>1, <3>1, <4>1, <4>2 DEF Announces, Says
      <4>3. CASE call[c].say = "now"
        BY <4>1, <4>3 DEF Says
      <4>4. CASE call[c].say = "Finished"
        BY <4>1, <4>4 DEF Says
      <4>5. CASE call[c].say = "none"
        BY <4>5 DEF Announces
      <4> QED
        BY <1>2, <4>2, <4>3, <4>4, <4>5 DEF IsCall
    <3>2. CASE j # i
      BY <3>2 DEF Announces
    <3> QED
      BY <3>1, <3>2
  <2> QED
    BY <2>1, <2>2, <2>3, <2>4, OtherCalls, StillDue
<1>8. CASE found_again(c) \/ all_completed(c) \/ fires_all_tasks_completed(c)
  <2>1. CallsOK' /\ \A d \in Callers \ {c} : call'[d] = call[d]
    <3>1. \/ Leave(c)
          \/ \E at \in {"ask", "fire"} : call' = [call EXCEPT ![c].at = at]
      BY <1>8 DEF found_again, all_completed, fires_all_tasks_completed, Leave
    <3>2. CASE Leave(c)
      BY <3>2, LeaveCalls
    <3>3. ASSUME NEW at \in {"ask", "fire"}, call' = [call EXCEPT ![c].at = at]
          PROVE  CallsOK' /\ \A d \in Callers \ {c} : call'[d] = call[d]
      BY <1>1, <3>3, MoveCalls
    <3> QED
      BY <3>1, <3>2, <3>3
  <2>2. UNCHANGED <<rec, finish>> /\ call[c].at \notin {"log", "reply"}
    BY <1>8 DEF found_again, all_completed, fires_all_tasks_completed, store
  <2> QED
    BY <1>2, <2>1, <2>2, KeepsRecords, SilentStep
<1>9. CASE Raises(c)
  <2>1. CallsOK' /\ \A d \in Callers \ {c} : call'[d] = call[d]
    BY <1>9, LeaveCalls DEF Raises
  <2>2. /\ UNCHANGED rec
        /\ finish' = [finish EXCEPT ![i] = IF call[c].say = "none" \/ call[c].at = "load" THEN @ ELSE "no"]
    BY <1>9 DEF Raises, store
  <2>3. /\ finish' = [j \in Issues |-> finish'[j]]
        /\ \A j \in Issues : finish'[j] = "due" =>
             /\ finish[j] = "due"
             /\ j = i => call[c].say = "none" \/ call[c].at = "load"
    BY <1>2, <2>2 DEF FinishOK
  <2>4. ASSUME NEW j \in Issues, finish'[j] = "due" PROVE ~Announces(c, j)
    BY <2>3, <2>4 DEF Announces
  <2> QED
    BY <2>1, <2>2, <2>3, <2>4, OtherCalls, StillDue
<1> QED
  BY <1>3, <1>4, <1>5, <1>6, <1>7, <1>8, <1>9 DEF Step

\* Steps of hooks and of relations are not about calls.
LEMMA FinishElsewhere ==
  ASSUME CallsOK, FinishOK, UNCHANGED <<call, finish>>,
         \A i \in Issues : finish[i] = "due" => rec'[i].ram = rec[i].ram /\ rec'[i].status = rec[i].status
  PROVE  CallsOK' /\ FinishOK'
BY DEF CallsOK, FinishOK, Announces

\* The checks of relations.
LEMMA WalksStep ==
  ASSUME WalksOK, RelNext PROVE WalksOK'
<1>1. ASSUME NEW a \in Adders, End(a) PROVE WalksOK'
  BY <1>1 DEF WalksOK, End, NoWalk
<1>2. ASSUME NEW a \in Adders, NEW i \in Issues, NEW j \in Issues, add_relation_blocks(a, i, j) PROVE WalksOK'
  BY <1>2 DEF WalksOK, add_relation_blocks, NoWalk
<1>3. ASSUME NEW a \in Adders, NEW i \in Issues, NEW j \in Issues, create_issue_route(a, i, j) PROVE WalksOK'
  BY <1>3 DEF WalksOK, create_issue_route, NoWalk
<1>4. ASSUME NEW a \in Adders, _detect_cycle(a) PROVE WalksOK'
  BY <1>4, ZenonT(60) DEF WalksOK, _detect_cycle
<1>5. ASSUME UNCHANGED walk PROVE WalksOK'
  BY <1>5 DEF WalksOK
<1>6. ASSUME NEW a \in Adders, AddStep(a) PROVE WalksOK'
  BY <1>6, <1>1, <1>4 DEF AddStep, cycle_refused, blocks_added, source_related
<1> QED
  BY <1>2, <1>3, <1>5, <1>6
     DEF RelNext, add_relation_related, delete_relation, archive, unarchive, relVars

(***************************************************************************)
(* Circles of blockers                                                     *)
(***************************************************************************)
\* A step makes no relation, but for the ones of an addition.
Lets(i)   == \/ rec'[i].ram = rec[i].ram /\ rec'[i].relations = rec[i].relations
             \/ rec'[i].relations = {}
Unrelated == \A i \in Issues : Lets(i)

\* Nor, but for requests about tasks and erasure, does it change tasks.
Untasked == \A i \in Issues : rec[i].ram = "here" => rec'[i].ram = "here" /\ rec'[i].tasks = rec[i].tasks

LEMMA LetsUpdate ==
  ASSUME RecordsOK, NEW i \in Issues, NEW r, update_issue(i, r),
         (r.ram = rec[i].ram /\ r.relations = rec[i].relations) \/ r.relations = {}
  PROVE  Unrelated
BY DEF RecordsOK, update_issue, Unrelated, Lets

LEMMA TasksUpdate ==
  ASSUME RecordsOK, NEW i \in Issues, NEW r, update_issue(i, r),
         rec[i].ram = "never" \/ (r.ram = rec[i].ram /\ r.tasks = rec[i].tasks)
  PROVE  Untasked
BY DEF RecordsOK, update_issue, Untasked

LEMMA LetsUnchanged == ASSUME UNCHANGED rec PROVE Unrelated /\ Untasked
BY DEF Unrelated, Lets, Untasked

LEMMA LetsAssign ==
  ASSUME RecordsOK, NEW i \in Issues, NEW st, NEW fields, Assign(i, st, fields)
  PROVE  Unrelated /\ Untasked
<1> DEFINE q(r) == [r EXCEPT !.status = st, !.has = @ \cup fields]
<1>1. IsIssue(rec[i])
  BY DEF RecordsOK
<1>2. q(rec[i]).ram = rec[i].ram /\ q(rec[i]).relations = rec[i].relations
      /\ q(rec[i]).tasks = rec[i].tasks
  BY <1>1 DEF IsIssue
<1>3. update_issue(i, q(rec[i]))
  BY DEF Assign
<1> HIDE DEF q
<1> QED
  BY <1>2, <1>3, LetsUpdate, TasksUpdate

LEMMA LetsTasks ==
  ASSUME RecordsOK, NEW i \in Issues, NEW ts, update_issue(i, [rec[i] EXCEPT !.tasks = ts])
  PROVE  Unrelated
<1> DEFINE q(r) == [r EXCEPT !.tasks = ts]
<1>1. IsIssue(rec[i])
  BY DEF RecordsOK
<1>2. q(rec[i]).ram = rec[i].ram /\ q(rec[i]).relations = rec[i].relations
  BY <1>1 DEF IsIssue
<1>3. update_issue(i, q(rec[i]))
  OBVIOUS
<1> HIDE DEF q
<1> QED
  BY <1>2, <1>3, LetsUpdate

LEMMA LetsMark ==
  ASSUME RecordsOK, NEW i \in Issues, NEW b, update_issue(i, [rec[i] EXCEPT !.deleted = b])
  PROVE  Unrelated /\ Untasked
<1> DEFINE q(r) == [r EXCEPT !.deleted = b]
<1>1. IsIssue(rec[i])
  BY DEF RecordsOK
<1>2. q(rec[i]).ram = rec[i].ram /\ q(rec[i]).relations = rec[i].relations
      /\ q(rec[i]).tasks = rec[i].tasks
  BY <1>1 DEF IsIssue
<1>3. update_issue(i, q(rec[i]))
  OBVIOUS
<1> HIDE DEF q
<1> QED
  BY <1>2, <1>3, LetsUpdate, TasksUpdate

LEMMA LetsText ==
  ASSUME RecordsOK, NEW i \in Issues, NEW f, NEW blank, update_fields(i, f, blank)
  PROVE  Unrelated /\ Untasked
<1> DEFINE q(r) == [r EXCEPT !.has = IF blank THEN @ \ {f} ELSE @ \cup {f}]
<1>1. IsIssue(rec[i])
  BY DEF RecordsOK
<1>2. q(rec[i]).ram = rec[i].ram /\ q(rec[i]).relations = rec[i].relations
      /\ q(rec[i]).tasks = rec[i].tasks
  BY <1>1 DEF IsIssue
<1>3. update_issue(i, q(rec[i]))
  BY DEF update_fields
<1> HIDE DEF q
<1> QED
  BY <1>2, <1>3, LetsUpdate, TasksUpdate

LEMMA LetsMany ==
  ASSUME RecordsOK, NEW S, NEW st, delete(S) \/ update_status(S, st)
  PROVE  Unrelated /\ Untasked
<1>1. ASSUME NEW i \in Issues
      PROVE  Lets(i) /\ (rec[i].ram = "here" => rec'[i].ram = "here" /\ rec'[i].tasks = rec[i].tasks)
  <2>1. IsIssue(rec[i])
    BY DEF RecordsOK
  <2>2. rec'[i] \in {rec[i], [rec[i] EXCEPT !.deleted = TRUE], [rec[i] EXCEPT !.status = st]}
    BY DEF delete, update_status
  <2> QED
    BY <2>1, <2>2 DEF Lets, IsIssue
<1> QED
  BY <1>1 DEF Unrelated, Untasked

LEMMA LetsCreate ==
  ASSUME RecordsOK, NEW i \in Issues, update_issue(i, NewRecord) \/ delete_issue(i)
  PROVE  Unrelated /\ (rec[i].ram = "never" => Untasked)
<1>1. NewRecord.relations = {} /\ [NoRecord EXCEPT !.ram = "erased"].relations = {}
  BY DEF NewRecord, NoRecord
<1>2. PICK r : update_issue(i, r) /\ r.relations = {}
  BY <1>1 DEF delete_issue
<1> QED
  BY <1>2, LetsUpdate, TasksUpdate

\* No step in the life of an issue makes a relation.
LEMMA LifeUnrelated ==
  ASSUME RecordsOK, CallsOK, LifeNext PROVE Unrelated
<1> USE WorkedIssues
<1>1. ASSUME NEW i \in Issues, create_issue_tool(i) PROVE Unrelated
  BY <1>1, LetsCreate DEF create_issue_tool, create
<1>2. ASSUME NEW c \in Callers, NEW i \in Worked, StatusRequests(c, i) \/ Forced(c, i) PROVE Unrelated
  <2>1. CASE complete_issue_tool(c, i) \/ complete_issue_route(c, i)
    BY <2>1, LetsUnchanged DEF complete_issue_tool, complete_issue_route, complete_issue, store
  <2>2. CASE ~(complete_issue_tool(c, i) \/ complete_issue_route(c, i))
    <3>1. \/ create_spec(i) \/ edit_spec(i) \/ create_plan(i) \/ edit_plan(i)
          \/ accept_issue(i) \/ cancel_issue(i) \/ force_finish_issue(i)
      BY <1>2, <2>2 DEF StatusRequests, create_issue_spec, edit_issue_spec, create_issue_plan, edit_issue_plan,
         accept_issue_tool, accept_issue_route, cancel_issue_tool, cancel_issue_endpoint,
         Forced, force_finish_issue_tool, force_finish_issue_endpoint
    <3>2. \E st, fields : Assign(i, st, fields)
      BY <3>1 DEF create_spec, edit_spec, create_plan, edit_plan, accept_issue, cancel_issue, force_finish_issue
    <3> QED
      BY <3>2, LetsAssign
  <2> QED
    BY <2>1, <2>2
<1>3. ASSUME Override \/ Delete PROVE Unrelated
  <2>1. ASSUME NEW S, NEW st, bulk_update_status(S, st) \/ bulk_delete(S) PROVE Unrelated
    BY <2>1, LetsMany DEF bulk_update_status, bulk_delete
  <2>2. ASSUME NEW i \in Worked, NEW f, NEW blank, update_issue_route(i, f, blank) PROVE Unrelated
    BY <2>2, LetsText DEF update_issue_route
  <2>3. ASSUME NEW i \in Worked, restore_issue(i) PROVE Unrelated
    BY <2>3, LetsMark DEF restore_issue, restore
  <2>4. ASSUME NEW i \in Worked, permanently_delete_issue(i) PROVE Unrelated
    BY <2>4, LetsCreate DEF permanently_delete_issue, permanently_delete
  <2> QED
    BY <1>3, <2>1, <2>2, <2>3, <2>4 DEF Override, Delete, update_issue_status_route, delete_issue_tool
<1>4. ASSUME Tasks \/ Edits PROVE Unrelated
  <2>1. ASSUME NEW i \in Worked, NEW n, create_bulk(i, n) \/ replace_all(i, n) PROVE Unrelated
    BY <2>1, LetsTasks DEF create_bulk, replace_all, replace_tasks
  <2>2. ASSUME NEW c, NEW t, NEW st, update_task_status(c, t, st) \/ update_task_route(c, t, st)
        PROVE  Unrelated
    <3>1. PICK p \in find_task(t) : update(p, st)
      BY <2>2 DEF update_task_status, update_task_route
    <3>2. update_issue(p[1], [rec[p[1]] EXCEPT !.tasks = [rec[p[1]].tasks EXCEPT ![p[2]] = Task(@.id, @.order, st)]])
      BY <3>1 DEF update, upsert_task, update_issue
    <3> QED
      BY <3>2, FoundIssue, LetsTasks
  <2>3. ASSUME NEW i \in Worked, NEW t, delete_task(i, t) PROVE Unrelated
    <3>1. update_issue(i, [rec[i] EXCEPT !.tasks = SelectSeq(rec[i].tasks, LAMBDA x : x.id # t)])
      BY <2>3 DEF delete_task, remove_task
    <3> QED
      BY <3>1, LetsTasks
  <2> QED
    BY <1>4, <2>1, <2>2, <2>3 DEF Tasks, Edits
<1>5. ASSUME NEW c \in Callers, Step(c) \/ Raises(c) PROVE Unrelated
  <2>1. CASE Completed(c)
    BY <2>1, LetsAssign DEF CallsOK, IsCall, Completed
  <2>2. CASE ~Completed(c)
    BY <1>5, <2>2, LetsUnchanged
       DEF Step, Locked, NotCompletable, Returns, Replies, found_again, all_completed,
           fires_all_tasks_completed, Raises, store
  <2> QED
    BY <2>1, <2>2
<1>6. ASSUME NEW i \in Issues, HookStep(i) PROVE Unrelated
  BY <1>6, LetsUnchanged DEF HookStep, run_hook_starts, run_hook_ends, store
<1> QED
  BY <1>1, <1>2, <1>3, <1>4, <1>5, <1>6 DEF LifeNext, Request

\* What a check has seen leads nowhere but to what it has seen or will see, and not to the
\* source.
Checked(a) ==
  LET w == walk[a] IN
  /\ w.src \notin w.seen
  /\ w.dst \in w.seen \cup w.todo
  /\ \A i \in Issues \cap w.seen : Blocked(i) \subseteq w.seen \cup w.todo

BlocksOK ==
  /\ \A i \in Issues : rec[i].ram # "here" => rec[i].relations = {}
  /\ ~crossed /\ ~blind => /\ ~Cyclic
                           /\ \A a \in Adders : walk[a].at = "walk" => Checked(a)

\* Fewer relations make no circle.
LEMMA FewerBlocks ==
  ASSUME \A i \in Issues : Blocked(i)' \subseteq Blocked(i), ~Cyclic PROVE ~Cyclic'
BY DEF Cyclic, Circle

LEMMA FewerChecked ==
  ASSUME \A i \in Issues : Blocked(i)' \subseteq Blocked(i), NEW a \in Adders, Checked(a), walk'[a] = walk[a]
  PROVE  Checked(a)'
BY DEF Checked

LEMMA UnrelatedBlocks ==
  ASSUME BlocksOK, Unrelated, UNCHANGED relVars PROVE BlocksOK'
<1>1. \A i \in Issues : Blocked(i)' \subseteq Blocked(i)
  BY DEF Unrelated, Lets, Blocked, Blocks
<1>2. \A i \in Issues : rec'[i].ram # "here" => rec'[i].relations = {}
  BY DEF BlocksOK, Unrelated, Lets
<1> QED
  BY <1>1, <1>2, FewerBlocks, FewerChecked DEF BlocksOK, relVars

\* One turn of the loop of a check.
LEMMA LookedAt ==
  ASSUME RecordsOK, WalksOK, BlocksOK, NEW a \in Adders, _detect_cycle(a) PROVE BlocksOK'
<1>1. UNCHANGED <<rec, crossed>> /\ walk[a].at = "walk"
  BY DEF _detect_cycle, store
<1>2. PICK i \in walk[a].todo :
        walk' = [walk EXCEPT ![a].seen = @ \cup {i}, ![a].todo = (@ \cup Outgoing(i)) \ (walk[a].seen \cup {i})]
  BY DEF _detect_cycle
<1>3. /\ walk'[a].seen = walk[a].seen \cup {i}
      /\ walk'[a].todo = (walk[a].todo \cup Outgoing(i)) \ (walk[a].seen \cup {i})
      /\ walk'[a].src = walk[a].src /\ walk'[a].dst = walk[a].dst
      /\ \A b \in Adders \ {a} : walk'[b] = walk[b]
  BY <1>2 DEF WalksOK
<1>4. SUFFICES ASSUME ~crossed, ~blind' PROVE ~Cyclic' /\ \A b \in Adders : walk'[b].at = "walk" => Checked(b)'
  BY <1>1 DEF BlocksOK
<1>5. ~blind /\ archived = {} /\ walk[a].src \notin walk[a].todo
  BY <1>4 DEF _detect_cycle
<1>6. \A k \in Issues : Blocked(k)' = Blocked(k)
  BY <1>1 DEF Blocked, Blocks
<1>7. i \in Issues => Outgoing(i) = Blocked(i)
  BY <1>5 DEF Outgoing, Active, Exists, Blocked, Blocks, BlocksOK
<1>8. Checked(a)
  BY <1>1, <1>4, <1>5 DEF BlocksOK
<1>9. Checked(a)'
  BY <1>3, <1>5, <1>6, <1>7, <1>8 DEF Checked
<1>10. ~Cyclic'
  BY <1>4, <1>5, <1>6, FewerBlocks DEF BlocksOK
<1>11. ASSUME NEW b \in Adders \ {a}, walk'[b].at = "walk" PROVE Checked(b)'
  BY <1>3, <1>4, <1>5, <1>6, <1>11, FewerChecked DEF BlocksOK
<1> QED
  BY <1>9, <1>10, <1>11

\* The new relation closes no circle: what the check has seen is closed, holds the target and
\* not the source, and so a circle through the new relation would have one in what was seen.
LEMMA AddedBlocks ==
  ASSUME RecordsOK, WalksOK, BlocksOK, NEW a \in Adders, blocks_added(a) PROVE BlocksOK'
<1> DEFINE s == walk[a].src
           d == walk[a].dst
<1>1. walk[a].at = "walk" /\ walk[a].todo = {} /\ End(a) /\ s \in Issues /\ d \in Issues
  BY DEF blocks_added, WalksOK
<1>2. walk'[a].at = "idle" /\ \A b \in Adders \ {a} : walk'[b] = walk[b]
  BY <1>1 DEF End, NoWalk, WalksOK
<1>3. CASE ~Active(s)
  <2>1. UNCHANGED <<rec, crossed>> /\ (blind => blind')
    BY <1>3 DEF blocks_added, store
  <2>2. \A k \in Issues : Blocked(k)' = Blocked(k)
    BY <2>1 DEF Blocked, Blocks
  <2> QED
    BY <1>2, <2>1, <2>2, FewerBlocks, FewerChecked DEF BlocksOK
<1>4. CASE Active(s)
  <2>1. upsert_relation(s, "blocks", d) /\ (crossed => crossed') /\ (blind => blind')
        /\ (~crossed' => \A b \in Adders \ {a} : walk[b].at # "walk")
    BY <1>4 DEF blocks_added
  <2> DEFINE q(r) == [r EXCEPT !.relations = @ \cup {<<"blocks", d>>}]
  <2>2. update_issue(s, q(rec[s]))
    BY <2>1 DEF upsert_relation
  <2>3. IsIssue(rec[s]) /\ rec[s].ram = "here"
    BY <1>1, <1>4 DEF RecordsOK, Active, Exists
  <2>4. q(rec[s]).ram = "here" /\ q(rec[s]).relations = rec[s].relations \cup {<<"blocks", d>>}
    BY <2>3 DEF IsIssue
  <2> HIDE DEF q
  <2>5. rec'[s] = q(rec[s]) /\ \A k \in Issues \ {s} : rec'[k] = rec[k]
    BY <1>1, <2>2 DEF update_issue, RecordsOK
  <2>6. \A k \in Issues : rec'[k].ram # "here" => rec'[k].relations = {}
    BY <2>4, <2>5 DEF BlocksOK
  <2>7. \A k \in Issues : Blocked(k)' \subseteq Blocked(k) \cup (IF k = s THEN {d} ELSE {})
    BY <2>4, <2>5 DEF Blocked, Blocks
  <2>8. SUFFICES ASSUME ~crossed', ~blind' PROVE ~Cyclic'
    BY <1>2, <2>1, <2>6 DEF BlocksOK
  <2>9. Checked(a) /\ ~Cyclic
    BY <1>1, <2>1, <2>8 DEF BlocksOK
  <2> DEFINE R == walk[a].seen
  <2>10. s \notin R /\ d \in R /\ \A k \in Issues \cap R : Blocked(k) \subseteq R
    BY <1>1, <2>9 DEF Checked
  <2>11. ASSUME NEW S \in SUBSET Issues, Circle(S)' PROVE FALSE
    <3>1. ~Circle(S)
      BY <2>9 DEF Cyclic
    <3>2. \A k \in S : (Blocked(k) \cup (IF k = s THEN {d} ELSE {})) \cap S # {}
      BY <2>7, <2>11 DEF Circle
    <3>3. S # {}
      BY <2>11 DEF Circle
    <3>4. \A k \in S \ {s} : Blocked(k) \cap S # {}
      BY <3>2
    <3>5. d \in S
      BY <3>1, <3>2, <3>3, <3>4 DEF Circle
    <3>6. Circle(S \cap R)
      BY <2>10, <3>4, <3>5 DEF Circle
    <3> QED
      BY <2>9, <3>6 DEF Cyclic
  <2> QED
    BY <2>11 DEF Cyclic
<1> QED
  BY <1>3, <1>4

LEMMA RelatedBlocks ==
  ASSUME RecordsOK, BlocksOK, NEW i \in Issues, NEW j \in Issues, related(i, j), UNCHANGED <<crossed, blind>>,
         \A a \in Adders : walk'[a] = walk[a] \/ walk'[a].at # "walk"
  PROVE  BlocksOK'
<1>1. PICK lo \in Issues, hi \in Issues : Active(lo) /\ upsert_relation(lo, "related", hi)
  BY DEF related
<1> DEFINE q(r) == [r EXCEPT !.relations = @ \cup {<<"related", hi>>}]
<1>2. update_issue(lo, q(rec[lo]))
  BY <1>1 DEF upsert_relation
<1>3. IsIssue(rec[lo]) /\ rec[lo].ram = "here"
  BY <1>1 DEF RecordsOK, Active, Exists
<1>4. q(rec[lo]).ram = "here" /\ q(rec[lo]).relations = rec[lo].relations \cup {<<"related", hi>>}
  BY <1>3 DEF IsIssue
<1> HIDE DEF q
<1>5. rec'[lo] = q(rec[lo]) /\ \A k \in Issues \ {lo} : rec'[k] = rec[k]
  BY <1>1, <1>2 DEF update_issue, RecordsOK
<1>6. \A k \in Issues : Blocked(k)' \subseteq Blocked(k)
  BY <1>4, <1>5 DEF Blocked, Blocks
<1>7. \A k \in Issues : rec'[k].ram # "here" => rec'[k].relations = {}
  BY <1>4, <1>5 DEF BlocksOK
<1> QED
  BY <1>6, <1>7, FewerBlocks, FewerChecked DEF BlocksOK

LEMMA RemovedBlocks ==
  ASSUME RecordsOK, BlocksOK, NEW i \in Issues, NEW j, NEW type, remove_relation(i, type, j),
         UNCHANGED relVars
  PROVE  BlocksOK'
<1> DEFINE q(r) == [r EXCEPT !.relations = @ \ {<<type, j>>}]
<1>1. update_issue(i, q(rec[i])) /\ IsIssue(rec[i])
  BY DEF remove_relation, RecordsOK
<1>2. q(rec[i]).ram = rec[i].ram /\ q(rec[i]).relations \subseteq rec[i].relations
  BY <1>1 DEF IsIssue
<1> HIDE DEF q
<1>3. rec'[i] = q(rec[i]) /\ \A k \in Issues \ {i} : rec'[k] = rec[k]
  BY <1>1 DEF update_issue, RecordsOK
<1>4. \A k \in Issues : Blocked(k)' \subseteq Blocked(k)
  BY <1>2, <1>3 DEF Blocked, Blocks
<1>5. \A k \in Issues : rec'[k].ram # "here" => rec'[k].relations = {}
  BY <1>2, <1>3 DEF BlocksOK
<1> QED
  BY <1>4, <1>5, FewerBlocks, FewerChecked DEF BlocksOK, relVars

LEMMA RelationBlocks ==
  ASSUME RecordsOK, WalksOK, BlocksOK, RelNext PROVE BlocksOK'
<1>1. ASSUME UNCHANGED <<rec, crossed, blind>>,
             \A a \in Adders : walk'[a] = walk[a] \/ walk'[a].at # "walk" \/ Checked(a)'
      PROVE  BlocksOK'
  <2>1. \A k \in Issues : Blocked(k)' = Blocked(k)
    BY <1>1 DEF Blocked, Blocks
  <2> QED
    BY <1>1, <2>1, FewerBlocks, FewerChecked DEF BlocksOK
<1>2. ASSUME NEW a \in Adders, End(a)
      PROVE  walk'[a].at # "walk" /\ \A b \in Adders \ {a} : walk'[b] = walk[b]
  BY <1>2 DEF End, NoWalk, WalksOK
<1>3. ASSUME NEW a \in Adders, NEW i \in Issues, NEW j \in Issues, add_relation_blocks(a, i, j) PROVE BlocksOK'
  <2>1. /\ walk'[a].seen = {} /\ walk'[a].todo = {j} /\ walk'[a].dst = j
        /\ \A b \in Adders \ {a} : walk'[b] = walk[b]
    BY <1>3 DEF add_relation_blocks, NoWalk, WalksOK
  <2>2. Checked(a)'
    BY <2>1 DEF Checked
  <2> QED
    BY <1>1, <1>3, <2>1, <2>2 DEF add_relation_blocks, store
<1>4. ASSUME NEW i \in Issues, NEW j \in Issues, add_relation_related(i, j) PROVE BlocksOK'
  BY <1>4, RelatedBlocks DEF add_relation_related, relVars
<1>5. ASSUME NEW a \in Adders, NEW i \in Issues, NEW j \in Issues, create_issue_route(a, i, j) PROVE BlocksOK'
  <2>1. Unrelated /\ UNCHANGED <<crossed, blind>>
    BY <1>5, LetsCreate DEF create_issue_route
  <2>2. walk'[a].at # "walk" /\ \A b \in Adders \ {a} : walk'[b] = walk[b]
    BY <1>5 DEF create_issue_route, NoWalk, WalksOK
  <2>3. \A k \in Issues : Blocked(k)' \subseteq Blocked(k)
    BY <2>1 DEF Unrelated, Lets, Blocked, Blocks
  <2>4. \A k \in Issues : rec'[k].ram # "here" => rec'[k].relations = {}
    BY <2>1 DEF BlocksOK, Unrelated, Lets
  <2> QED
    BY <2>1, <2>2, <2>3, <2>4, FewerBlocks, FewerChecked DEF BlocksOK
<1>6. ASSUME NEW a \in Adders, AddStep(a) PROVE BlocksOK'
  <2>1. CASE cycle_refused(a)
    BY <1>1, <1>2, <2>1 DEF cycle_refused, store
  <2>2. CASE source_related(a)
    <3>1. UNCHANGED <<crossed, blind>> /\ walk[a].src \in Issues /\ walk[a].dst \in Issues
      BY <2>2 DEF source_related, WalksOK
    <3>2. CASE related(walk[a].src, walk[a].dst)
      BY <1>2, <2>2, <3>1, <3>2, RelatedBlocks DEF source_related
    <3>3. CASE UNCHANGED rec
      BY <1>1, <1>2, <2>2, <3>1, <3>3 DEF source_related
    <3> QED
      BY <2>2, <3>2, <3>3 DEF source_related
  <2> QED
    BY <1>6, <2>1, <2>2, LookedAt, AddedBlocks DEF AddStep
<1>7. ASSUME NEW i \in Issues, NEW j \in Issues, NEW type \in RelationTypes, delete_relation(i, type, j)
      PROVE  BlocksOK'
  BY <1>7, RemovedBlocks DEF delete_relation
<1>8. ASSUME NEW p \in Projects, archive(p) \/ unarchive(p) PROVE BlocksOK'
  BY <1>1, <1>8 DEF archive, unarchive, relVars
<1> QED
  BY <1>3, <1>4, <1>5, <1>6, <1>7, <1>8 DEF RelNext

LEMMA BlocksStep ==
  ASSUME RecordsOK, WalksOK, CallsOK, BlocksOK, [Next]_vars PROVE BlocksOK'
<1>1. CASE UNCHANGED vars
  BY <1>1, LetsUnchanged, UnrelatedBlocks DEF vars, store
<1>2. CASE LifeNext /\ UNCHANGED <<requests, relVars>>
  BY <1>2, LifeUnrelated, UnrelatedBlocks
<1>3. CASE RelNext
  BY <1>3, RelationBlocks
<1> QED
  BY <1>1, <1>2, <1>3 DEF Next

(***************************************************************************)
(* The last task                                                           *)
(***************************************************************************)
\* Call c has completed a task of issue i and has still to ask whether all are.
Asks(c, i) == call[c].i = i /\ call[c].at \in {"find", "ask", "fire"}

\* While the hook is due all tasks are completed, so whoever asks fires it.
TasksOK ==
  /\ allDone = [i \in Issues |-> allDone[i]]
  /\ \A c \in Callers : call[c].at \in {"find", "ask", "fire"} => call[c].t # 0
  /\ \A i \in Issues : allDone[i] = "due" =>
       rec[i].ram = "here" /\ AllCompleted(i) /\ \E c \in Callers : Asks(c, i)

\* Nothing becomes due, the tasks stay as they are, and who asks goes on asking.
LEMMA StillAsked ==
  ASSUME TasksOK,
         allDone' = [i \in Issues |-> allDone'[i]],
         \A c \in Callers : call'[c].at \in {"find", "ask", "fire"} => call'[c].t # 0,
         \A i \in Issues : allDone'[i] = "due" =>
           /\ allDone[i] = "due"
           /\ rec'[i].ram = "here" /\ rec'[i].tasks = rec[i].tasks
           /\ \A c \in Callers : Asks(c, i) => Asks(c, i)'
  PROVE  TasksOK'
BY DEF TasksOK, AllCompleted

\* A step that is not about tasks, of a call that asks about none.
LEMMA NoTasksStep ==
  ASSUME TasksOK, NEW c \in Callers, Untasked, UNCHANGED allDone,
         call[c].at \notin {"find", "ask", "fire"}, call'[c].at \notin {"find", "ask", "fire"},
         \A d \in Callers \ {c} : call'[d] = call[d]
  PROVE  TasksOK'
<1>1. \A d \in Callers : call'[d].at \in {"find", "ask", "fire"} => call'[d].t # 0
  BY DEF TasksOK
<1>2. \A i \in Issues : \A d \in Callers : Asks(d, i) => Asks(d, i)'
  BY DEF Asks
<1> QED
  BY <1>1, <1>2, StillAsked DEF TasksOK, Untasked

LEMMA NoCallsStep ==
  ASSUME TasksOK, Untasked, UNCHANGED <<call, allDone>> PROVE TasksOK'
BY StillAsked DEF TasksOK, Untasked, Asks

\* A request that changes the tasks of an issue, or erases it.
LEMMA NotDue ==
  ASSUME TasksOK, NEW i \in Issues, UNCHANGED call, AllDone(i, "no"),
         \A j \in Issues \ {i} : rec'[j] = rec[j]
  PROVE  TasksOK'
<1>1. allDone' = [j \in Issues |-> allDone'[j]] /\ allDone'[i] = "no"
      /\ \A j \in Issues \ {i} : allDone'[j] = allDone[j]
  BY DEF TasksOK, AllDone
<1> QED
  BY <1>1, StillAsked DEF TasksOK, Asks

\* The tasks of an issue after one has been given a status.
LEMMA LastTask ==
  ASSUME RecordsOK, NEW i \in Issues, NEW k \in DOMAIN rec[i].tasks,
         rec[i].ram = "here",
         update_issue(i, [rec[i] EXCEPT !.tasks[k] = Task(@.id, @.order, "Completed")]),
         \A n \in DOMAIN rec[i].tasks : n = k \/ rec[i].tasks[n].st = "Completed"
  PROVE  AllCompleted(i)' /\ rec'[i].ram = "here"
<1> DEFINE ts == [rec[i].tasks EXCEPT ![k] = Task(@.id, @.order, "Completed")]
           q(r) == [r EXCEPT !.tasks = ts]
<1>1. DOMAIN ts = DOMAIN rec[i].tasks /\ \A n \in DOMAIN ts : ts[n].st = "Completed"
  BY DEF Task
<1>2. ts # <<>>
  BY <1>1
<1>3. IsIssue(rec[i])
  BY DEF RecordsOK
<1> HIDE DEF ts
<1>4. q(rec[i]).tasks = ts /\ q(rec[i]).ram = "here"
  BY <1>3 DEF IsIssue
<1>5. update_issue(i, q(rec[i]))
  BY DEF ts
<1> HIDE DEF q
<1>6. rec'[i] = q(rec[i])
  BY <1>5 DEF update_issue, RecordsOK
<1> QED
  BY <1>1, <1>2, <1>4, <1>6 DEF AllCompleted

\* A task is completed: the call that did it is the one that asks.
LEMMA TaskDone ==
  ASSUME RecordsOK, CallsOK, TasksOK, NEW c \in Callers, NEW t \in TaskIds, NEW st,
         update_task_status(c, t, st) \/ update_task_route(c, t, st)
  PROVE  TasksOK'
<1>1. PICK p \in find_task(t), at \in {"find", "ask"} :
        /\ update(p, st)
        /\ call' = IF st = "Completed" THEN [call EXCEPT ![c] = [Idle EXCEPT !.at = at, !.i = p[1], !.t = t]] ELSE call
  BY DEF update_task_status, update_task_route
<1> DEFINE i == p[1]
           k == p[2]
           all == st = "Completed" /\ \A n \in DOMAIN rec[i].tasks : n = k \/ rec[i].tasks[n].st = "Completed"
<1>2. i \in Issues /\ k \in DOMAIN rec[i].tasks /\ rec[i].ram = "here"
  BY DEF find_task, Places, Active, Exists
<1>3. update_issue(i, [rec[i] EXCEPT !.tasks[k] = Task(@.id, @.order, st)]) /\ AllDone(i, IF all THEN "due" ELSE "no")
  BY <1>1 DEF update, upsert_task
<1>4. call[c].at = "idle" /\ t # 0
  BY TaskNumbers DEF update_task_status, update_task_route
<1>5. \A d \in Callers \ {c} : call'[d] = call[d]
  BY <1>1 DEF CallsOK
<1>6. /\ st = "Completed" => call'[c].at = at /\ call'[c].i = i /\ call'[c].t = t
      /\ st # "Completed" => call'[c] = call[c]
  BY <1>1 DEF CallsOK, Idle
<1>7. \A d \in Callers : call'[d].at \in {"find", "ask", "fire"} => call'[d].t # 0
  BY <1>4, <1>5, <1>6 DEF TasksOK
<1>8. /\ allDone' = [j \in Issues |-> allDone'[j]]
      /\ \A j \in Issues \ {i} : allDone'[j] = allDone[j]
      /\ allDone'[i] = "due" => all
  BY <1>2, <1>3 DEF AllDone, TasksOK
<1>9. \A j \in Issues \ {i} : rec'[j] = rec[j]
  BY <1>2, <1>3 DEF update_issue, RecordsOK
<1>10. \A j \in Issues, d \in Callers : Asks(d, j) => Asks(d, j)'
  BY <1>4, <1>5 DEF Asks
<1>11. ASSUME NEW j \in Issues, allDone'[j] = "due"
       PROVE  rec'[j].ram = "here" /\ AllCompleted(j)' /\ \E d \in Callers : Asks(d, j)'
  <2>1. CASE j # i
    BY <1>8, <1>9, <1>10, <1>11, <2>1 DEF TasksOK, AllCompleted
  <2>2. CASE j = i
    <3>1. all
      BY <1>8, <1>11, <2>2
    <3>2. AllCompleted(i)' /\ rec'[i].ram = "here"
      BY <1>2, <1>3, <3>1, LastTask
    <3>3. Asks(c, i)'
      BY <1>6, <3>1 DEF Asks
    <3> QED
      BY <2>2, <3>2, <3>3
  <2> QED
    BY <2>1, <2>2
<1> QED
  BY <1>7, <1>8, <1>11 DEF TasksOK

\* The requests.
LEMMA TasksRequest ==
  ASSUME RecordsOK, CallsOK, TasksOK, Request PROVE TasksOK'
<1> USE WorkedIssues
<1>1. ASSUME NEW i \in Issues, create_issue_tool(i) PROVE TasksOK'
  BY <1>1, LetsCreate, NoCallsStep DEF create_issue_tool, create, lifeVars
<1>2. ASSUME NEW c \in Callers, NEW i \in Worked, StatusRequests(c, i) \/ Forced(c, i) PROVE TasksOK'
  <2>1. CASE complete_issue_tool(c, i) \/ complete_issue_route(c, i)
    <3>1. PICK say, l : call' = [call EXCEPT ![c] = [Idle EXCEPT !.at = "lock", !.i = i, !.say = say,
                                                               !.lock = l, !.hook = TRUE]]
      BY <2>1 DEF complete_issue_tool, complete_issue_route, complete_issue
    <3>2. call'[c].at = "lock" /\ \A d \in Callers \ {c} : call'[d] = call[d]
      BY <3>1 DEF CallsOK, Idle
    <3>3. call[c].at = "idle" /\ UNCHANGED <<rec, allDone>>
      BY <2>1 DEF complete_issue_tool, complete_issue_route, complete_issue, store
    <3> QED
      BY <3>2, <3>3, LetsUnchanged, NoTasksStep
  <2>2. CASE ~(complete_issue_tool(c, i) \/ complete_issue_route(c, i))
    <3>1. \/ create_spec(i) \/ edit_spec(i) \/ create_plan(i) \/ edit_plan(i)
          \/ accept_issue(i) \/ cancel_issue(i) \/ force_finish_issue(i)
      BY <1>2, <2>2 DEF StatusRequests, create_issue_spec, edit_issue_spec, create_issue_plan, edit_issue_plan,
         accept_issue_tool, accept_issue_route, cancel_issue_tool, cancel_issue_endpoint,
         Forced, force_finish_issue_tool, force_finish_issue_endpoint
    <3>2. \E st, fields : Assign(i, st, fields)
      BY <3>1 DEF create_spec, edit_spec, create_plan, edit_plan, accept_issue, cancel_issue, force_finish_issue
    <3>3. Untasked
      BY <3>2, LetsAssign
    <3>4. UNCHANGED allDone /\ (UNCHANGED call \/ \E say, hook : Begin(c, i, say, hook))
      BY <1>2, <2>2 DEF StatusRequests, create_issue_spec, edit_issue_spec, create_issue_plan, edit_issue_plan,
         accept_issue_tool, accept_issue_route, cancel_issue_tool, cancel_issue_endpoint,
         Forced, force_finish_issue_tool, force_finish_issue_endpoint, lifeVars
    <3>5. CASE UNCHANGED call
      BY <3>3, <3>4, <3>5, NoCallsStep
    <3>6. ASSUME NEW say, NEW hook, Begin(c, i, say, hook) PROVE TasksOK'
      <4>1. /\ call[c].at = "idle" /\ call'[c].at = "log"
            /\ \A d \in Callers \ {c} : call'[d] = call[d]
        BY <3>6 DEF Begin, CallsOK, Idle
      <4> QED
        BY <3>3, <3>4, <4>1, NoTasksStep
    <3> QED
      BY <3>4, <3>5, <3>6
  <2> QED
    BY <2>1, <2>2
<1>3. ASSUME Override \/ Delete PROVE TasksOK'
  <2>1. ASSUME NEW S, NEW st, bulk_update_status(S, st) \/ bulk_delete(S) PROVE TasksOK'
    BY <2>1, LetsMany, NoCallsStep DEF bulk_update_status, bulk_delete, lifeVars
  <2>2. ASSUME NEW i \in Worked, NEW f, NEW blank, update_issue_route(i, f, blank) PROVE TasksOK'
    BY <2>2, LetsText, NoCallsStep DEF update_issue_route
  <2>3. ASSUME NEW i \in Worked, restore_issue(i) PROVE TasksOK'
    BY <2>3, LetsMark, NoCallsStep DEF restore_issue, restore, lifeVars
  <2>4. ASSUME NEW i \in Worked, permanently_delete_issue(i) PROVE TasksOK'
    <3>1. AllDone(i, "no") /\ UNCHANGED call /\ \A j \in Issues \ {i} : rec'[j] = rec[j]
      BY <2>4 DEF permanently_delete_issue, permanently_delete, delete_issue, update_issue, RecordsOK, AllDone
    <3> QED
      BY <3>1, NotDue
  <2> QED
    BY <1>3, <2>1, <2>2, <2>3, <2>4 DEF Override, Delete, update_issue_status_route, delete_issue_tool
<1>4. ASSUME Tasks \/ Edits PROVE TasksOK'
  <2>1. ASSUME NEW i \in Worked, NEW n, create_bulk(i, n) \/ replace_all(i, n) PROVE TasksOK'
    <3>1. AllDone(i, "no") /\ UNCHANGED call /\ \E r : update_issue(i, r)
      BY <2>1 DEF create_bulk, replace_all, replace_tasks
    <3> QED
      BY <3>1, NotDue DEF update_issue, RecordsOK
  <2>2. ASSUME NEW i \in Worked, NEW t, delete_task(i, t) PROVE TasksOK'
    <3>1. AllDone(i, "no") /\ UNCHANGED call /\ \E r : update_issue(i, r)
      BY <2>2 DEF delete_task, remove_task
    <3> QED
      BY <3>1, NotDue DEF update_issue, RecordsOK
  <2> QED
    BY <1>4, <2>1, <2>2, TaskDone DEF Tasks, Edits
<1> QED
  BY <1>1, <1>2, <1>3, <1>4 DEF Request

\* The steps of calls.
LEMMA TasksStep ==
  ASSUME RecordsOK, CallsOK, TasksOK, NEW c \in Callers, Step(c) \/ Raises(c)
  PROVE  TasksOK'
<1> DEFINE i == call[c].i
<1>1. call[c].at # "idle"
  BY DEF Step, Raises, Locked, Completed, NotCompletable, Returns, Replies, found_again, all_completed,
     fires_all_tasks_completed
<1>2. IsCall(call[c]) /\ i \in Issues
  BY <1>1 DEF CallsOK, IsCall
<1>3. CASE Locked(c) \/ Completed(c) \/ NotCompletable(c) \/ Returns(c) \/ Replies(c)
  <2>1. call[c].at \in {"lock", "load", "log", "reply"} /\ UNCHANGED allDone
    BY <1>3 DEF Locked, Completed, NotCompletable, Returns, Replies
  <2>2. call'[c].at \in {"idle", "load", "log", "reply"} /\ \A d \in Callers \ {c} : call'[d] = call[d]
    BY <1>2, <1>3 DEF Locked, Completed, NotCompletable, Returns, Replies, Leave, Idle, CallsOK, IsCall
  <2>3. CASE Completed(c)
    BY <1>2, <2>1, <2>2, <2>3, LetsAssign, NoTasksStep DEF Completed
  <2>4. CASE ~Completed(c)
    <3>1. UNCHANGED rec
      BY <1>3, <2>4 DEF Locked, NotCompletable, Returns, Replies, store
    <3> QED
      BY <2>1, <2>2, <3>1, LetsUnchanged, NoTasksStep
  <2> QED
    BY <2>3, <2>4
\* A call that asks goes on asking, or what it leaves is not due any more.
<1>4. ASSUME UNCHANGED rec, allDone' = [j \in Issues |-> allDone'[j]],
             \A j \in Issues \ {i} : allDone'[j] = allDone[j],
             \A d \in Callers \ {c} : call'[d] = call[d],
             \/ /\ call'[c].i = i /\ call'[c].at \in {"ask", "fire"} /\ call'[c].t = call[c].t
                /\ call[c].at \in {"find", "ask"} /\ (allDone'[i] = "due" => allDone[i] = "due")
             \/ call'[c].at = "idle" /\ allDone'[i] # "due"
             \/ call'[c].at = "idle" /\ call[c].at \notin {"find", "ask", "fire"} /\ allDone'[i] = allDone[i]
      PROVE  TasksOK'
  <2>1. \A d \in Callers : call'[d].at \in {"find", "ask", "fire"} => call'[d].t # 0
    BY <1>4 DEF TasksOK
  <2>2. ASSUME NEW j \in Issues, allDone'[j] = "due"
        PROVE  allDone[j] = "due" /\ \A d \in Callers : Asks(d, j) => Asks(d, j)'
    <3>1. ASSUME NEW d \in Callers, Asks(d, j) PROVE Asks(d, j)'
      BY <1>4, <2>2, <3>1 DEF Asks
    <3> QED
      BY <1>4, <2>2, <3>1
  <2> QED
    BY <1>4, <2>1, <2>2, StillAsked DEF TasksOK
<1>5. CASE found_again(c)
  <2>1. CASE find_task(call[c].t) = {}
    BY <1>2, <1>4, <1>5, <2>1 DEF found_again, AllDone, TasksOK, CallsOK, Idle, store
  <2>2. CASE find_task(call[c].t) # {}
    <3>1. call' = [call EXCEPT ![c].at = "ask"] /\ call[c].at = "find" /\ UNCHANGED rec
          /\ allDone' = [allDone EXCEPT ![i] = allDone[i]]
      BY <1>5, <2>2 DEF found_again, AllDone, store
    <3>2. call'[c].at = "ask" /\ call'[c].i = i /\ call'[c].t = call[c].t /\ \A d \in Callers \ {c} : call'[d] = call[d]
      BY <1>2, <3>1 DEF CallsOK, IsCall
    <3> QED
      BY <1>2, <1>4, <3>1, <3>2 DEF TasksOK
  <2> QED
    BY <2>1, <2>2
<1>6. CASE all_completed(c)
  <2>1. /\ call[c].at = "ask" /\ UNCHANGED rec
        /\ allDone' = [allDone EXCEPT ![i] = IF _project_path_for_issue(i) THEN allDone[i] ELSE "no"]
        /\ call' = [call EXCEPT ![c] = IF _project_path_for_issue(i) /\ AllCompleted(i)
                                      THEN [call[c] EXCEPT !.at = "fire"] ELSE Idle]
    BY <1>6 DEF all_completed, AllDone, store
  <2>2. /\ \A d \in Callers \ {c} : call'[d] = call[d]
        /\ allDone' = [j \in Issues |-> allDone'[j]]
        /\ \A j \in Issues \ {i} : allDone'[j] = allDone[j]
        /\ allDone'[i] = IF _project_path_for_issue(i) THEN allDone[i] ELSE "no"
    BY <1>2, <2>1 DEF TasksOK, CallsOK
  <2>3. CASE _project_path_for_issue(i) /\ AllCompleted(i)
    <3>1. call'[c].at = "fire" /\ call'[c].i = i /\ call'[c].t = call[c].t
      BY <1>2, <2>1, <2>3 DEF CallsOK, IsCall
    <3> QED
      BY <1>4, <2>1, <2>2, <2>3, <3>1
  <2>4. CASE ~(_project_path_for_issue(i) /\ AllCompleted(i))
    <3>1. call'[c].at = "idle"
      BY <2>1, <2>4 DEF CallsOK, Idle
    <3>2. allDone'[i] # "due"
      BY <1>2, <2>2, <2>4 DEF TasksOK
    <3> QED
      BY <1>4, <2>1, <2>2, <3>1, <3>2
  <2> QED
    BY <2>3, <2>4
<1>7. CASE fires_all_tasks_completed(c)
  BY <1>2, <1>4, <1>7 DEF fires_all_tasks_completed, AllDone, Leave, TasksOK, CallsOK, Idle, store
<1>8. CASE Raises(c)
  <2>1. /\ UNCHANGED rec /\ Leave(c)
        /\ allDone' = [allDone EXCEPT ![i] = IF call[c].t = 0 THEN allDone[i] ELSE "no"]
    BY <1>8 DEF Raises, store
  <2>2. call'[c].at = "idle" /\ \A d \in Callers \ {c} : call'[d] = call[d]
    BY <2>1 DEF Leave, Idle, CallsOK
  <2>3. /\ allDone' = [j \in Issues |-> allDone'[j]]
        /\ \A j \in Issues \ {i} : allDone'[j] = allDone[j]
        /\ allDone'[i] = IF call[c].t = 0 THEN allDone[i] ELSE "no"
    BY <1>2, <2>1 DEF TasksOK
  <2>4. call[c].t = 0 => call[c].at \notin {"find", "ask", "fire"}
    BY DEF TasksOK
  <2> QED
    BY <1>4, <2>1, <2>2, <2>3, <2>4
<1> QED
  BY <1>3, <1>5, <1>6, <1>7, <1>8 DEF Step

LEMMA RelationsUntasked ==
  ASSUME RecordsOK, WalksOK, RelNext PROVE Untasked
<1>1. ASSUME NEW i \in Issues, NEW rs, update_issue(i, [rec[i] EXCEPT !.relations = rs]) PROVE Untasked
  <2> DEFINE q(r) == [r EXCEPT !.relations = rs]
  <2>1. IsIssue(rec[i])
    BY DEF RecordsOK
  <2>2. q(rec[i]).ram = rec[i].ram /\ q(rec[i]).tasks = rec[i].tasks
    BY <2>1 DEF IsIssue
  <2>3. update_issue(i, q(rec[i]))
    BY <1>1
  <2> HIDE DEF q
  <2> QED
    BY <2>2, <2>3, TasksUpdate
<1>2. ASSUME NEW i \in Issues, NEW j \in Issues, related(i, j) PROVE Untasked
  BY <1>1, <1>2 DEF related, upsert_relation
<1>3. ASSUME NEW a \in Adders, AddStep(a) PROVE Untasked
  <2>1. CASE UNCHANGED rec
    BY <2>1, LetsUnchanged
  <2>2. CASE blocks_added(a) /\ Active(walk[a].src)
    BY <1>1, <2>2 DEF blocks_added, upsert_relation, WalksOK
  <2>3. CASE source_related(a) /\ related(walk[a].src, walk[a].dst)
    BY <1>2, <2>3 DEF source_related, WalksOK
  <2> QED
    BY <1>3, <2>1, <2>2, <2>3 DEF AddStep, _detect_cycle, cycle_refused, blocks_added, source_related, store
<1>4. ASSUME NEW a \in Adders, NEW i \in Issues, NEW j \in Issues,
             add_relation_blocks(a, i, j) \/ create_issue_route(a, i, j)
      PROVE  Untasked
  BY <1>4, LetsUnchanged, LetsCreate DEF add_relation_blocks, create_issue_route, store
<1>5. ASSUME NEW i \in Issues, NEW j, NEW type, delete_relation(i, type, j) PROVE Untasked
  BY <1>1, <1>5 DEF delete_relation, remove_relation
<1>6. ASSUME NEW p, archive(p) \/ unarchive(p) PROVE Untasked
  BY <1>6, LetsUnchanged DEF archive, unarchive
<1> QED
  BY <1>2, <1>3, <1>4, <1>5, <1>6 DEF RelNext, add_relation_related

LEMMA TasksNext ==
  ASSUME RecordsOK, WalksOK, CallsOK, TasksOK, [Next]_vars PROVE TasksOK'
<1>1. CASE UNCHANGED vars
  BY <1>1, LetsUnchanged, NoCallsStep DEF vars, store, lifeVars
<1>2. CASE LifeNext
  <2>1. ASSUME NEW i \in Issues, HookStep(i) PROVE TasksOK'
    BY <2>1, LetsUnchanged, NoCallsStep DEF HookStep, run_hook_starts, run_hook_ends, store
  <2> QED
    BY <1>2, <2>1, TasksRequest, TasksStep DEF LifeNext
<1>3. CASE RelNext /\ UNCHANGED lifeVars
  BY <1>3, RelationsUntasked, NoCallsStep DEF lifeVars
<1> QED
  BY <1>1, <1>2, <1>3 DEF Next

(***************************************************************************)
(* The inductive invariant                                                 *)
(***************************************************************************)
\* An issue that was completed is finished, cancelled or gone for good: no request but one that
\* overrides the checks makes it completable again.
OnceOK ==
  /\ completions \in [Issues -> 0..2]
  /\ \A i \in Issues \ overridden :
       /\ completions[i] <= 1
       /\ completions[i] = 1 => \/ rec[i].ram = "erased"
                                \/ rec[i].ram = "here" /\ rec[i].status \in {"Finished", "Canceled"}

IInv == RecordsOK /\ WalksOK /\ CallsOK /\ FinishOK /\ OnceOK /\ StatusHasContent /\ BlocksOK /\ TasksOK

LEMMA OnceStep ==
  ASSUME OnceOK, Classified PROVE OnceOK'
<1> USE DEF OnceOK, Others, Same
<1>1. CASE Keeps
  BY <1>1 DEF Keeps, Aside
<1>2. ASSUME NEW i \in Issues, Creates(i) \/ Erases(i) PROVE OnceOK'
  BY <1>2 DEF Creates, Erases, Aside
<1>3. ASSUME NEW i \in Issues, Advances(i) PROVE OnceOK'
  BY <1>3 DEF Advances, Aside, Stays
<1>4. ASSUME NEW i \in Issues, Completes(i) PROVE OnceOK'
  <2>1. completions' \in [Issues -> 0..2]
    BY <1>4 DEF Completes
  <2>2. i \in overridden \/ completions[i] = 0
    BY <1>4 DEF Completes, Stays
  <2>3. completions[i] = 0 => completions'[i] = 1
    BY <1>4 DEF Completes
  <2>4. \A j \in Issues \ {i} : completions'[j] = completions[j]
    BY <1>4 DEF Completes
  <2> QED
    BY <1>4, <2>1, <2>2, <2>3, <2>4 DEF Completes, Stays
<1>5. ASSUME NEW S \in SUBSET Issues, Overrides(S) PROVE OnceOK'
  BY <1>5 DEF Overrides
<1> QED
  BY <1>1, <1>2, <1>3, <1>4, <1>5 DEF Classified

LEMMA ContentStep ==
  ASSUME StatusHasContent, Classified PROVE StatusHasContent'
<1> USE DEF StatusHasContent, Others, Same
<1>1. CASE Keeps
  BY <1>1 DEF Keeps, Aside
<1>2. ASSUME NEW i \in Issues, Creates(i) \/ Erases(i) PROVE StatusHasContent'
  BY <1>2 DEF Creates, Erases, Aside
<1>3. ASSUME NEW i \in Issues, Advances(i) PROVE StatusHasContent'
  BY <1>3 DEF Advances, Aside
<1>4. ASSUME NEW i \in Issues, Completes(i) PROVE StatusHasContent'
  BY <1>4 DEF Completes
<1>5. ASSUME NEW S \in SUBSET Issues, Overrides(S) PROVE StatusHasContent'
  BY <1>5 DEF Overrides
<1> QED
  BY <1>1, <1>2, <1>3, <1>4, <1>5 DEF Classified

\* Every step is of one of the classes.
LEMMA StepClass ==
  ASSUME RecordsOK, WalksOK, CallsOK, [Next]_vars PROVE Done
<1>1. CASE UNCHANGED vars
  BY <1>1, UnchangedClass DEF vars, store, lifeVars, Aside
<1>2. CASE LifeNext
  <2>1. ASSUME NEW c \in Callers, Step(c) \/ Raises(c) PROVE Done
    <3>1. CASE Completed(c)
      <4>1. call[c].i \in Issues
        BY <3>1 DEF CallsOK, IsCall, Completed
      <4> QED
        BY <3>1, <4>1, CompleteClass
    <3>2. CASE ~Completed(c)
      BY <2>1, <3>2, UnchangedClass
         DEF Step, Locked, NotCompletable, Returns, Replies, found_again, all_completed,
             fires_all_tasks_completed, Raises, store, Aside
    <3> QED
      BY <3>1, <3>2
  <2>2. ASSUME NEW i \in Issues, HookStep(i) PROVE Done
    BY <2>2, UnchangedClass DEF HookStep, run_hook_starts, run_hook_ends, store, Aside
  <2> QED
    BY <1>2, <2>1, <2>2, RequestClass DEF LifeNext
<1>3. CASE RelNext /\ UNCHANGED <<requests, lifeVars>>
  BY <1>3, RelationClass
<1> QED
  BY <1>1, <1>2, <1>3 DEF Next

LEMMA CallsStep ==
  ASSUME RecordsOK, WalksOK, CallsOK, FinishOK, [Next]_vars PROVE CallsOK' /\ FinishOK'
<1>1. CASE UNCHANGED vars
  BY <1>1, FinishElsewhere DEF vars, store, lifeVars
<1>2. CASE LifeNext
  <2>1. ASSUME NEW i \in Issues, HookStep(i) PROVE CallsOK' /\ FinishOK'
    BY <2>1, FinishElsewhere DEF HookStep, run_hook_starts, run_hook_ends, store
  <2> QED
    BY <1>2, <2>1, FinishRequest, FinishCallStep DEF LifeNext
<1>3. CASE RelNext /\ UNCHANGED <<requests, lifeVars>>
  <2>1. UNCHANGED <<call, finish>>
    BY <1>3 DEF lifeVars
  <2>2. Quiet
    BY <1>3, RelationClass
  <2>3. \A i \in Issues : finish[i] = "due" => rec'[i].ram = rec[i].ram /\ rec'[i].status = rec[i].status
    BY <2>2 DEF Quiet, Keeps, Creates, Others, Same, FinishOK
  <2> QED
    BY <2>1, <2>3, FinishElsewhere
<1> QED
  BY <1>1, <1>2, <1>3 DEF Next

LEMMA InitInv == Init => IInv
<1> SUFFICES ASSUME Init PROVE IInv
  OBVIOUS
<1> USE DEF Init, StoreInit, LifeInit, RelInit
<1>1. RecordsOK
  BY Blank DEF RecordsOK
<1>2. WalksOK
  BY DEF WalksOK, NoWalk
<1>3. CallsOK
  BY IdleCall DEF CallsOK
<1>4. FinishOK
  BY DEF FinishOK
<1>5. OnceOK
  BY DEF OnceOK
<1>6. StatusHasContent
  BY Blank DEF StatusHasContent
<1>7. BlocksOK
  <2>1. \A i \in Issues : rec[i].relations = {}
    BY DEF NoRecord, NewRecord
  <2>2. ~Cyclic
    BY <2>1 DEF Cyclic, Circle, Blocked, Blocks
  <2> QED
    BY <2>1, <2>2 DEF BlocksOK, NoWalk
<1>8. TasksOK
  BY DEF TasksOK, Idle
<1> QED
  BY <1>1, <1>2, <1>3, <1>4, <1>5, <1>6, <1>7, <1>8 DEF IInv

LEMMA NextInv == IInv /\ [Next]_vars => IInv'
<1> SUFFICES ASSUME IInv, [Next]_vars PROVE IInv'
  OBVIOUS
<1>1. RecordsOK' /\ Classified
  BY StepClass DEF IInv, Done
<1>2. WalksOK'
  <2>1. CASE RelNext
    BY <2>1, WalksStep DEF IInv
  <2>2. CASE UNCHANGED walk
    BY <2>2 DEF IInv, WalksOK
  <2> QED
    BY <2>1, <2>2 DEF Next, vars, relVars
<1>3. CallsOK' /\ FinishOK'
  BY CallsStep DEF IInv
<1>4. OnceOK' /\ StatusHasContent'
  BY <1>1, OnceStep, ContentStep DEF IInv
<1>5. BlocksOK'
  BY BlocksStep DEF IInv
<1>6. TasksOK'
  BY TasksNext DEF IInv
<1> QED
  BY <1>1, <1>2, <1>3, <1>4, <1>5, <1>6 DEF IInv

\* IInv holds in every reachable state.
THEOREM Invariant == Spec => []IInv
BY InitInv, NextInv, PTL DEF Spec

\* The texts of an issue: for any number of issues and callers, and whatever is requested at
\* once, an issue nobody pushed past the checks has the texts its status stands for.
THEOREM TextsBeforeStatus == Spec => []StatusHasContent
<1>1. IInv => StatusHasContent
  BY DEF IInv
<1> QED
  BY <1>1, Invariant, PTL

\* complete_issue: the checks under the lock, and not the lock, make an issue complete once.
THEOREM CompletesOnce == Spec => []CompletedOnce
<1>1. IInv => CompletedOnce
  BY DEF IInv, OnceOK, CompletedOnce
<1> QED
  BY <1>1, Invariant, PTL

\* A request that finishes an issue announces it, or its call is still in progress.
THEOREM FinishAnnounced == Spec => []FinishIsAnnounced
<1>1. IInv => FinishIsAnnounced
  BY DEF IInv, FinishOK, FinishIsAnnounced, Announces
<1> QED
  BY <1>1, Invariant, PTL

\* Additions that do not overlap, while no project is archived, close no circle of blockers:
\* for any number of issues, checks in progress, removals, deletions and restorations.
THEOREM NothingBlocksItself == Spec => []BlocksAcyclic
<1>1. IInv => BlocksAcyclic
  BY DEF IInv, BlocksOK, BlocksAcyclic
<1> QED
  BY <1>1, Invariant, PTL

\* The call that completes the last task of an issue, or one that asks after it, fires
\* ALL_TASKS_COMPLETED: for any number of calls, whatever is requested at once.
THEOREM LastTaskAnnounced == Spec => []AllTasksAnnounced
<1>1. IInv => AllTasksAnnounced
  BY DEF IInv, TasksOK, AllTasksAnnounced, Asks
<1> QED
  BY <1>1, Invariant, PTL

(***************************************************************************)
(* Memories and files                                                      *)
(***************************************************************************)

(***************************************************************************)
(* The queue of writes.  Of its order only write_memory and write_file     *)
(* depend; what is said of it is about its rows.                           *)
(***************************************************************************)
Rows(q) == {q[k] : k \in DOMAIN q}

\* How many of K are not above k.
Place(K, k) == Cardinality({j \in K : j <= k})

\* Each place is taken, by one.
LEMMA TakesPlaces ==
  ASSUME NEW n \in Nat, NEW K \in SUBSET (1..n)
  PROVE  /\ Cardinality(K) \in Nat
         /\ \A k \in K : Place(K, k) \in 1..Cardinality(K)
         /\ \A i, k \in K : Place(K, i) = Place(K, k) => i = k
         /\ \A p \in 1..Cardinality(K) : \E k \in K : Place(K, k) = p
<1>1. IsFiniteSet(K) /\ Cardinality(K) \in Nat
  <2>1. IsFiniteSet(1..n)
    BY FS_Interval
  <2>2. IsFiniteSet(K)
    BY <2>1, FS_Subset
  <2> QED
    BY <2>2, FS_CardinalityType
<1>2. ASSUME NEW k \in K PROVE Place(K, k) \in 1..Cardinality(K)
  <2> DEFINE T == {j \in K : j <= k}
  <2>1. T \in SUBSET K /\ k \in T
    OBVIOUS
  <2>2. IsFiniteSet(T) /\ Cardinality(T) <= Cardinality(K)
    BY <1>1, <2>1, FS_Subset
  <2>3. Cardinality(T) \in Nat /\ Cardinality(T) # 0
    BY <2>1, <2>2, FS_CardinalityType, FS_EmptySet
  <2> QED
    BY <1>1, <2>2, <2>3 DEF Place
<1>3. ASSUME NEW i \in K, NEW k \in K, i < k PROVE Place(K, i) # Place(K, k)
  <2> DEFINE S == {j \in K : j <= i}  T == {j \in K : j <= k}
  <2>1. T \in SUBSET K /\ S \in SUBSET T /\ k \in T /\ k \notin S
    <3>1. \A j \in K : j \in Int
      OBVIOUS
    <3>2. \A j \in K : j <= i => j <= k
      BY <1>3, <3>1
    <3>3. k <= k /\ ~(k <= i)
      BY <1>3, <3>1
    <3> QED
      BY <3>2, <3>3
  <2>2. IsFiniteSet(T)
    BY <1>1, <2>1, FS_Subset
  <2>3. Cardinality(S) # Cardinality(T)
    BY <2>1, <2>2, FS_Subset
  <2> QED
    BY <2>3 DEF Place
<1>4. \A i, k \in K : Place(K, i) = Place(K, k) => i = k
  <2>1. \A i, k \in K : i # k => i < k \/ k < i
    OBVIOUS
  <2> QED
    BY <1>3, <2>1
<1>5. \A p \in 1..Cardinality(K) : \E k \in K : Place(K, k) = p
  <2> DEFINE f == [k \in K |-> Place(K, k)]  N == 1..Cardinality(K)
  <2>1. f \in Injection(K, N)
    <3>1. f \in [K -> N]
      BY <1>2
    <3> QED
      BY <1>4, <3>1, Fun_IsInj
  <2>2. IsFiniteSet(N) /\ Cardinality(N) = Cardinality(K)
    BY <1>1, FS_Interval
  <2>3. f \in Surjection(K, N)
    <3> HIDE DEF f, N
    <3> QED
      BY <2>1, <2>2, FS_Injection
  <2>4. \A p \in N : \E k \in K : f[k] = p
    <3> HIDE DEF f, N
    <3> QED
      BY <2>3, Fun_SurjectionProperties
  <2> QED
    BY <2>4
<1> QED
  BY <1>1, <1>2, <1>4, <1>5

\* The rows of other records are all that is left of a queue.
LEMMA RemainingRows ==
  ASSUME NEW S, NEW q \in Seq(S), NEW ids
  PROVE  /\ Remaining(q, ids) \in Seq(S)
         /\ Rows(Remaining(q, ids)) = {row \in Rows(q) : row.id \notin ids}
<1> DEFINE kept == {k \in DOMAIN q : q[k].id \notin ids}
           place == [k \in kept |-> Cardinality({j \in kept : j <= k})]
           C == Cardinality(kept)
           at(p) == CHOOSE k \in kept : place[k] = p
<1>1. Len(q) \in Nat /\ kept \in SUBSET (1..Len(q))
  OBVIOUS
<1>2. \A k \in kept : place[k] = Place(kept, k)
  BY DEF Place
<1> HIDE DEF place
<1>3. /\ C \in Nat
      /\ \A k \in kept : place[k] \in 1..C
      /\ \A i, k \in kept : place[i] = place[k] => i = k
      /\ \A p \in 1..C : \E k \in kept : place[k] = p
  <2> HIDE DEF kept
  <2>1. /\ Cardinality(kept) \in Nat
        /\ \A k \in kept : Place(kept, k) \in 1..Cardinality(kept)
        /\ \A i, k \in kept : Place(kept, i) = Place(kept, k) => i = k
        /\ \A p \in 1..Cardinality(kept) : \E k \in kept : Place(kept, k) = p
    BY <1>1, TakesPlaces
  <2> QED
    BY <1>2, <2>1
<1>4. Remaining(q, ids) = [p \in 1..C |-> q[at(p)]]
  BY DEF Remaining, place
<1> HIDE DEF C
<1>5. \A p \in 1..C : at(p) \in kept /\ place[at(p)] = p
  BY <1>3
<1>6. \A k \in kept : at(place[k]) = k
  BY <1>3, <1>5
<1> HIDE DEF at
<1>7. Remaining(q, ids) \in Seq(S)
  <2>1. \A p \in 1..C : q[at(p)] \in S
    BY <1>5
  <2> QED
    BY <1>3, <1>4, <2>1
<1>8. DOMAIN Remaining(q, ids) = 1..C /\ \A p \in 1..C : Remaining(q, ids)[p] = q[at(p)]
  BY <1>4
<1>9. ASSUME NEW row \in Rows(Remaining(q, ids)) PROVE row \in Rows(q) /\ row.id \notin ids
  <2>1. PICK p \in 1..C : row = q[at(p)]
    BY <1>8 DEF Rows
  <2> QED
    BY <1>5, <2>1 DEF Rows
<1>10. ASSUME NEW row \in Rows(q), row.id \notin ids PROVE row \in Rows(Remaining(q, ids))
  <2>1. PICK k \in DOMAIN q : row = q[k]
    BY DEF Rows
  <2>2. k \in kept /\ place[k] \in 1..C
    BY <1>3, <1>10, <2>1
  <2>3. Remaining(q, ids)[place[k]] = row
    BY <1>6, <1>8, <2>1, <2>2
  <2> QED
    BY <1>8, <2>2, <2>3 DEF Rows
<1> QED
  BY <1>7, <1>9, <1>10

LEMMA AppendedRows ==
  ASSUME NEW S, NEW q \in Seq(S), NEW t \in Seq(S)
  PROVE  q \o t \in Seq(S) /\ Rows(q \o t) = Rows(q) \cup Rows(t)
<1>1. /\ Len(q) \in Nat /\ Len(t) \in Nat /\ q \o t \in Seq(S)
      /\ DOMAIN q = 1..Len(q) /\ DOMAIN t = 1..Len(t) /\ DOMAIN (q \o t) = 1..(Len(q) + Len(t))
      /\ \A k \in 1..(Len(q) + Len(t)) :
           (q \o t)[k] = IF k <= Len(q) THEN q[k] ELSE t[k - Len(q)]
  OBVIOUS
<1>2. ASSUME NEW row \in Rows(q \o t) PROVE row \in Rows(q) \cup Rows(t)
  <2>1. PICK k \in 1..(Len(q) + Len(t)) : row = (q \o t)[k]
    BY <1>1 DEF Rows
  <2>2. k <= Len(q) => k \in DOMAIN q
    BY <1>1
  <2>3. ~(k <= Len(q)) => k - Len(q) \in DOMAIN t
    BY <1>1
  <2> QED
    BY <1>1, <2>1, <2>2, <2>3 DEF Rows
<1>3. ASSUME NEW row \in Rows(q) PROVE row \in Rows(q \o t)
  <2>1. PICK k \in 1..Len(q) : row = q[k]
    BY <1>1 DEF Rows
  <2>2. k \in 1..(Len(q) + Len(t)) /\ (q \o t)[k] = row
    BY <1>1, <2>1
  <2> QED
    BY <1>1, <2>2 DEF Rows
<1>4. ASSUME NEW row \in Rows(t) PROVE row \in Rows(q \o t)
  <2>1. PICK k \in 1..Len(t) : row = t[k]
    BY <1>1 DEF Rows
  <2>2. k + Len(q) \in 1..(Len(q) + Len(t)) /\ (q \o t)[k + Len(q)] = row
    BY <1>1, <2>1
  <2> QED
    BY <1>1, <2>2 DEF Rows
<1> QED
  BY <1>1, <1>2, <1>3, <1>4

LEMMA AppendedLast ==
  ASSUME NEW S, NEW q \in Seq(S), NEW row \in S PROVE Append(q, row) = q \o <<row>>
OBVIOUS

\* A request replaces the rows of its records.
LEMMA Enqueued ==
  ASSUME NEW S, NEW q \in Seq(S), NEW id, NEW payload, [id |-> id, payload |-> payload] \in S
  PROVE  /\ enqueue(q, id, payload) \in Seq(S)
         /\ Rows(enqueue(q, id, payload))
              = {row \in Rows(q) : row.id # id} \cup {[id |-> id, payload |-> payload]}
<1> DEFINE r == [id |-> id, payload |-> payload]  o == Remaining(q, {id})
<1>1. o \in Seq(S) /\ Rows(o) = {row \in Rows(q) : row.id # id}
  BY RemainingRows
<1>2. enqueue(q, id, payload) = o \o <<r>> /\ <<r>> \in Seq(S) /\ Rows(<<r>>) = {r}
  <2>1. enqueue(q, id, payload) = Append(o, r)
    BY DEF enqueue
  <2>2. Append(o, r) = o \o <<r>>
    <3> HIDE DEF o, r
    <3>1. o \in Seq(S) /\ r \in S
      BY <1>1 DEF r
    <3> QED
      BY <3>1, AppendedLast
  <2>3. Rows(<<r>>) = {r}
    BY DEF Rows
  <2>4. <<r>> \in Seq(S)
    <3>1. r \in S
      OBVIOUS
    <3> HIDE DEF r
    <3> QED
      BY <3>1
  <2> HIDE DEF o, r
  <2> QED
    BY <2>1, <2>2, <2>3, <2>4
<1> HIDE DEF o, r
<1>3. Rows(o \o <<r>>) = Rows(o) \cup Rows(<<r>>) /\ o \o <<r>> \in Seq(S)
  BY <1>1, <1>2, AppendedRows
<1> QED
  BY <1>1, <1>2, <1>3 DEF r

LEMMA EnqueuedAll ==
  ASSUME NEW S, NEW q \in Seq(S), NEW I, NEW ids \in Seq(I), NEW content,
         \A k \in DOMAIN ids : [id |-> ids[k], payload |-> content[ids[k]]] \in S
  PROVE  /\ enqueue_all(q, ids, content) \in Seq(S)
         /\ Rows(enqueue_all(q, ids, content))
              = {row \in Rows(q) : row.id \notin Rows(ids)}
                \cup {[id |-> id, payload |-> content[id]] : id \in Rows(ids)}
<1> DEFINE o == Remaining(q, Rows(ids))
           t == [k \in DOMAIN ids |-> [id |-> ids[k], payload |-> content[ids[k]]]]
<1>1. o \in Seq(S) /\ Rows(o) = {row \in Rows(q) : row.id \notin Rows(ids)}
  BY RemainingRows
<1>2. t \in Seq(S)
  <2>1. Len(ids) \in Nat /\ DOMAIN ids = 1..Len(ids)
    OBVIOUS
  <2> QED
    BY <2>1
<1>3. Rows(t) = {[id |-> id, payload |-> content[id]] : id \in Rows(ids)}
  BY DEF Rows
<1>4. enqueue_all(q, ids, content) = o \o t
  BY DEF enqueue_all, Rows
<1> HIDE DEF o, t
<1>5. Rows(o \o t) = Rows(o) \cup Rows(t) /\ o \o t \in Seq(S)
  BY <1>1, <1>2, AppendedRows
<1> QED
  BY <1>1, <1>3, <1>4, <1>5

\* The writer takes the first row.
LEMMA FirstTaken ==
  ASSUME NEW S, NEW q \in Seq(S), q # <<>>
  PROVE  /\ Tail(q) \in Seq(S) /\ Head(q) \in S
         /\ Rows(q) = {Head(q)} \cup Rows(Tail(q))
<1> DEFINE g == <<Head(q)>>  t == Tail(q)
<1>1. q = g \o t /\ g \in Seq(S) /\ t \in Seq(S) /\ Head(q) \in S
  OBVIOUS
<1>2. Rows(g) = {Head(q)}
  BY DEF Rows
<1> HIDE DEF g, t
<1>3. Rows(g \o t) = Rows(g) \cup Rows(t)
  BY <1>1, AppendedRows
<1> QED
  BY <1>1, <1>2, <1>3 DEF t

\* A list of the members of a finite set has them all.
LEMMA ListOf ==
  ASSUME NEW S, IsFiniteSet(S), NEW s \in SetToSeqs(S)
  PROVE  s \in Seq(S) /\ Rows(s) = S
<1> DEFINE D == 1..Cardinality(S)
<1>1. Cardinality(S) \in Nat
  BY FS_CardinalityType
<1>2. s \in [D -> S] /\ \A i, j \in D : i # j => s[i] # s[j]
  BY DEF SetToSeqs
<1>3. IsFiniteSet(D) /\ Cardinality(D) = Cardinality(S)
  BY <1>1, FS_Interval
<1>4. s \in Seq(S)
  BY <1>1, <1>2
<1> HIDE DEF D
<1>5. s \in Injection(D, S)
  BY <1>2, Fun_IsInj
<1>6. s \in Surjection(D, S)
  BY <1>3, <1>5, FS_Injection
<1>7. \A x \in S : \E k \in D : s[k] = x
  BY <1>6, Fun_SurjectionProperties
<1> QED
  BY <1>2, <1>4, <1>7 DEF Rows

(***************************************************************************)
(* The invariant.                                                          *)
(***************************************************************************)
Content  == MemoryRecord \cup {Absent, Ghost}
Written  == MemoryRecord \cup {Absent}
Entries  == FileStatuses \cup {Absent}
QueueRow == [id : Memories, payload : Written] \cup [id : Files, payload : Entries]

RecordsType ==
  /\ pending \in Seq(QueueRow)
  /\ ram \in [Memories -> Content] /\ disk \in [Memories -> Written]
  /\ linking \in [Linkers -> [from : Memories, to : Memories] \cup {NoLink}]
  /\ index \in [Files -> Entries] /\ yaml \in [Files -> Entries]
  /\ made \subseteq Memories

\* Who has a record has been made, and so has its parent.
Fits(m, x) == IsRecord(x) => m \in made /\ x.parent \in made \cup {NoMemory}

MadeFirst ==
  /\ \A m \in Memories : Fits(m, ram[m]) /\ Fits(m, disk[m])
  /\ \A row \in Rows(pending) : row.id \in Memories => Fits(row.id, row.payload)

\* RAM agrees with x, which the file of m says or will say.
Agrees(m, x) ==
  IF IsRecord(x)
  THEN /\ Here(m) /\ ram[m].parent = x.parent /\ ram[m].links = x.links
       /\ m \notin torn => ram[m].title = x.title
  ELSE ~Here(m)

MemoriesFiled ==
  \A m \in Memories \ behind :
    /\ \A row \in Rows(pending) : row.id = m => Agrees(m, row.payload)
    /\ m \notin Pending => Agrees(m, disk[m])

FilesFiled ==
  \A f \in Files \ behind :
    /\ \A row \in Rows(pending) : row.id = f => index[f] \in {Absent, row.payload}
    /\ f \notin Pending => index[f] \in {Absent, yaml[f]}

RecordsInv ==
  RecordsType /\ MadeFirst /\ MemoriesFiled /\ FilesFiled /\ ParentsAcyclic /\ NothingDangles

-----------------------------------------------------------------------------
(* Records.                                                                *)

LEMMA PendingRows == Pending = {row.id : row \in Rows(pending)}
BY DEF Pending, Rows

LEMMA IsHere ==
  ASSUME NEW x \in MemoryRecord
  PROVE  /\ IsRecord(x) /\ x.parent \in Memories \cup {NoMemory}
         /\ x.links \subseteq Memories /\ x.title \in Titles
BY MemoryAssumption DEF MemoryRecord, IsRecord

LEMMA NotHere == ~IsRecord(Absent) /\ ~IsRecord(Ghost)
BY DEF IsRecord

LEMMA RecordIs ==
  ASSUME NEW x \in Content
  PROVE  IsRecord(x) => x \in MemoryRecord
BY DEF Content, IsRecord

LEMMA SetTitle ==
  ASSUME NEW x \in MemoryRecord, NEW t \in Titles
  PROVE  LET y == [x EXCEPT !.title = t]
         IN  y \in MemoryRecord /\ y.parent = x.parent /\ y.links = x.links /\ y.title = t
BY DEF MemoryRecord

LEMMA SetLinks ==
  ASSUME NEW x \in MemoryRecord, NEW L \in SUBSET Memories
  PROVE  LET y == [x EXCEPT !.links = L]
         IN  y \in MemoryRecord /\ y.parent = x.parent /\ y.links = L /\ y.title = x.title
BY DEF MemoryRecord

LEMMA SetParent ==
  ASSUME NEW x \in MemoryRecord, NEW p \in Memories \cup {NoMemory}
  PROVE  LET y == [x EXCEPT !.parent = p]
         IN  y \in MemoryRecord /\ y.parent = p /\ y.links = x.links /\ y.title = x.title
BY DEF MemoryRecord

LEMMA NewMemory ==
  ASSUME NEW p \in Memories \cup {NoMemory}
  PROVE  Record(p) \in MemoryRecord /\ Record(p).parent = p /\ Record(p).links = {}
BY DEF Record, MemoryRecord, Titles

LEMMA RowParts ==
  ASSUME NEW row \in QueueRow
  PROVE  /\ row.id \in Memories => row.payload \in Written
         /\ row.id \in Files => row.payload \in Entries
         /\ row.id \in Memories \cup Files
BY PendingAssumption DEF QueueRow

LEMMA MemoryRow == ASSUME NEW m \in Memories, NEW x \in Written PROVE [id |-> m, payload |-> x] \in QueueRow
BY DEF QueueRow

LEMMA FileRow == ASSUME NEW f \in Files, NEW x \in Entries PROVE [id |-> f, payload |-> x] \in QueueRow
BY DEF QueueRow

LEMMA RowsTyped == ASSUME NEW q \in Seq(QueueRow) PROVE Rows(q) \subseteq QueueRow
BY DEF Rows

LEMMA StillFits ==
  ASSUME NEW m, NEW x, Fits(m, x), made \subseteq made'
  PROVE  IsRecord(x) => m \in made' /\ x.parent \in made' \cup {NoMemory}
BY DEF Fits

-----------------------------------------------------------------------------
(* Reading files.                                                          *)

\* r is RAM after the memories of S have been looked up.
ReadIn(S, r) ==
  /\ r \in [Memories -> Content] /\ behind \subseteq behind'
  /\ \A m \in Memories :
       /\ IsRecord(r[m]) => m \in made /\ r[m].parent \in made \cup {NoMemory}
       /\ Here(m) => r[m] = ram[m]
       /\ m \notin behind' => r[m] = ram[m]
       /\ m \in S => r[m] = load_memory(m)
       /\ r[m] = ram[m] \/ r[m] = disk[m]

\* A memory that RAM has not and the file has is pending, unless it was read behind the queue.
LEMMA OnlyBehind ==
  ASSUME RecordsInv, NEW m \in Memories \ behind, Loads(m)
  PROVE  m \in Pending
BY DEF RecordsInv, MemoriesFiled, Loads, Agrees

LEMMA Looked ==
  ASSUME RecordsInv, NEW S \in SUBSET Memories, LoadBehind(S)
  PROVE  ReadIn(S, Loaded(S))
<1> DEFINE r == Loaded(S)
<1>1. behind' = behind \cup ({m \in S : Loads(m)} \cap Pending)
  BY DEF LoadBehind, ReadBehind
<1>2. RecordsType /\ MadeFirst
  BY DEF RecordsInv
<1>3. r \in [Memories -> Content]
  BY <1>2 DEF Loaded, RecordsType, Content, Written
<1>4. ASSUME NEW m \in Memories PROVE r[m] = IF m \in S /\ Loads(m) THEN disk[m] ELSE ram[m]
  BY DEF Loaded
<1>5. ASSUME NEW m \in Memories PROVE load_memory(m) = IF Loads(m) THEN disk[m] ELSE ram[m]
  BY DEF load_memory, Loaded
<1>6. ASSUME NEW m \in Memories, m \notin behind' PROVE r[m] = ram[m]
  BY <1>1, <1>4, <1>6, OnlyBehind
<1>7. ASSUME NEW m \in Memories, Here(m) PROVE r[m] = ram[m]
  BY <1>4, <1>7 DEF Loads
<1>8. ASSUME NEW m \in Memories, IsRecord(r[m]) PROVE m \in made /\ r[m].parent \in made \cup {NoMemory}
  BY <1>2, <1>4, <1>8 DEF MadeFirst, Fits
<1> HIDE DEF r
<1>9. ReadIn(S, r)
  BY <1>1, <1>3, <1>4, <1>5, <1>6, <1>7, <1>8 DEF ReadIn
<1> QED
  BY <1>9 DEF r

\* Without a look-up.
LEMMA NotLooked ==
  ASSUME RecordsInv, behind' = behind
  PROVE  ReadIn({}, ram)
BY DEF RecordsInv, RecordsType, MadeFirst, Fits, ReadIn

-----------------------------------------------------------------------------
(* What a request does.                                                    *)

\* The queue has new rows of the memories I, and keeps those of others.
Requested(I) ==
  /\ I \subseteq Memories /\ pending' \in Seq(QueueRow)
  /\ Rows(pending') = {row \in Rows(pending) : row.id \notin I}
                      \cup {[id |-> x, payload |-> ram'[x]] : x \in I}
  /\ disk' = disk /\ index' = index /\ yaml' = yaml
  /\ behind \subseteq behind' /\ torn \subseteq torn'
  /\ made \subseteq made' /\ made' \subseteq Memories

\* Nothing but a title that is torn is new in m.
Alike(m) ==
  \/ ram'[m] = ram[m]
  \/ ~Here(m) /\ ~IsRecord(ram'[m])
  \/ /\ Here(m) /\ IsRecord(ram'[m])
     /\ ram'[m].parent = ram[m].parent /\ ram'[m].links = ram[m].links
     /\ ram'[m].title = ram[m].title \/ m \in torn'

\* What is new in RAM is that of I.
NewIn(I) ==
  /\ ram' \in [Memories -> Content]
  /\ linking' \in [Linkers -> [from : Memories, to : Memories] \cup {NoLink}]
  /\ \A m \in Memories : IsRecord(ram'[m]) => m \in made' /\ ram'[m].parent \in made' \cup {NoMemory}
  /\ \A m \in I : ram'[m] \in Written
  /\ \A m \in Memories \ (behind' \cup I) : Alike(m)

LEMMA NewRows ==
  ASSUME RecordsInv, NEW I, Requested(I)
  PROVE  /\ \A row \in Rows(pending') :
              \/ row \in Rows(pending) /\ row.id \notin I
              \/ row.id \in I /\ row.payload = ram'[row.id]
         /\ Pending' = Pending \cup I
<1>1. ASSUME NEW row \in Rows(pending')
      PROVE  \/ row \in Rows(pending) /\ row.id \notin I
             \/ row.id \in I /\ row.payload = ram'[row.id]
  BY DEF Requested
<1>2. Pending' = {row.id : row \in Rows(pending')}
  BY DEF Pending, Rows
<1>3. Pending' \subseteq Pending \cup I
  BY <1>1, <1>2, PendingRows
<1>4. ASSUME NEW x \in Pending \cup I PROVE x \in Pending'
  <2>1. CASE x \in I
    <3>1. [id |-> x, payload |-> ram'[x]] \in Rows(pending')
      BY <2>1 DEF Requested
    <3> QED
      BY <1>2, <3>1
  <2>2. CASE x \notin I
    <3>1. PICK row \in Rows(pending) : row.id = x
      BY <2>2, PendingRows
    <3>2. row \in Rows(pending')
      BY <2>2, <3>1 DEF Requested
    <3> QED
      BY <1>2, <3>1, <3>2
  <2> QED
    BY <2>1, <2>2
<1> QED
  BY <1>1, <1>3, <1>4

LEMMA AlikeAgrees ==
  ASSUME NEW m, NEW x, Alike(m), Agrees(m, x), torn \subseteq torn'
  PROVE  IF IsRecord(x)
         THEN /\ IsRecord(ram'[m]) /\ ram'[m].parent = x.parent /\ ram'[m].links = x.links
              /\ m \notin torn' => ram'[m].title = x.title
         ELSE ~IsRecord(ram'[m])
BY DEF Alike, Agrees, Here

LEMMA Requests ==
  ASSUME RecordsInv, NEW I, Requested(I), NewIn(I)
  PROVE  RecordsType' /\ MadeFirst' /\ MemoriesFiled' /\ FilesFiled'
<1> USE NewRows
<1>1. RecordsType'
  BY DEF RecordsInv, RecordsType, Requested, NewIn
<1>2. MadeFirst'
  <2>1. ASSUME NEW m \in Memories PROVE Fits(m, ram[m])' /\ Fits(m, disk[m])'
    BY StillFits DEF RecordsInv, MadeFirst, Fits, NewIn, Requested
  <2>2. ASSUME NEW row \in Rows(pending'), row.id \in Memories PROVE Fits(row.id, row.payload)'
    <3>1. CASE row \in Rows(pending)
      BY <2>2, <3>1 DEF RecordsInv, MadeFirst, Fits, Requested
    <3>2. CASE row.payload = ram'[row.id]
      BY <2>2, <3>2 DEF Fits, NewIn
    <3> QED
      BY <3>1, <3>2
  <2> QED
    BY <2>1, <2>2 DEF MadeFirst, Rows
<1>3. MemoriesFiled'
  <2>1. ASSUME NEW m \in Memories, m \notin behind', NEW row \in Rows(pending'), row.id = m
        PROVE  Agrees(m, row.payload)'
    <3>1. CASE row \in Rows(pending) /\ row.id \notin I
      <4>1. Agrees(m, row.payload) /\ Alike(m)
        BY <2>1, <3>1 DEF RecordsInv, MemoriesFiled, Requested, NewIn
      <4> QED
        BY <4>1, AlikeAgrees DEF Agrees, Here, Requested
    <3>2. CASE row.id \in I /\ row.payload = ram'[row.id]
      <4>1. row.payload = ram'[m] /\ ram'[m] \in Written
        BY <2>1, <3>2 DEF NewIn
      <4>2. IsRecord(ram'[m]) \/ ram'[m] = Absent
        BY <4>1, IsHere DEF Written
      <4> QED
        BY <4>1, <4>2 DEF Agrees, Here
    <3> QED
      BY <3>1, <3>2
  <2>2. ASSUME NEW m \in Memories, m \notin behind', m \notin Pending' PROVE Agrees(m, disk[m])'
    <3>1. Agrees(m, disk[m]) /\ Alike(m)
      BY <2>2 DEF RecordsInv, MemoriesFiled, Requested, NewIn
    <3> QED
      BY <3>1, AlikeAgrees DEF Agrees, Here, Requested
  <2> QED
    BY <2>1, <2>2 DEF MemoriesFiled, Rows
<1>4. FilesFiled'
  <2>1. ASSUME NEW f \in Files, f \notin behind', NEW row \in Rows(pending'), row.id = f
        PROVE  index'[f] \in {Absent, row.payload}
    BY <2>1, PendingAssumption DEF RecordsInv, FilesFiled, Requested
  <2>2. ASSUME NEW f \in Files, f \notin behind', f \notin Pending' PROVE index'[f] \in {Absent, yaml'[f]}
    BY <2>2 DEF RecordsInv, FilesFiled, Requested
  <2> QED
    BY <2>1, <2>2 DEF FilesFiled, Rows
<1> QED
  BY <1>1, <1>2, <1>3, <1>4

LEMMA FiledAs ==
  ASSUME RecordsInv, NEW ids \in Seq(Memories), NEW content, File(content, ids),
         \A m \in Rows(ids) : content[m] \in Written
  PROVE  /\ ram' = content /\ Rows(ids) \subseteq Memories /\ pending' \in Seq(QueueRow)
         /\ Rows(pending') = {row \in Rows(pending) : row.id \notin Rows(ids)}
                             \cup {[id |-> x, payload |-> ram'[x]] : x \in Rows(ids)}
<1>1. ram' = content /\ pending' = enqueue_all(pending, ids, content) /\ pending \in Seq(QueueRow)
  BY DEF File, RecordsInv, RecordsType
<1>2. Rows(ids) \subseteq Memories
  BY DEF Rows
<1>3. \A k \in DOMAIN ids : [id |-> ids[k], payload |-> content[ids[k]]] \in QueueRow
  BY MemoryRow DEF Rows
<1> QED
  BY <1>1, <1>2, <1>3, EnqueuedAll

\* One memory is filed, or none.
LEMMA OneFiled ==
  ASSUME RecordsInv, NEW m \in Memories, NEW content, File(content, <<m>>), content[m] \in Written
  PROVE  /\ ram' = content /\ pending' \in Seq(QueueRow)
         /\ Rows(pending') = {row \in Rows(pending) : row.id \notin {m}}
                             \cup {[id |-> x, payload |-> ram'[x]] : x \in {m}}
<1>1. <<m>> \in Seq(Memories) /\ Rows(<<m>>) = {m}
  BY DEF Rows
<1> DEFINE ids == <<m>>
<1> HIDE DEF ids
<1>2. File(content, ids) /\ \A x \in Rows(ids) : content[x] \in Written
  BY <1>1 DEF ids
<1> QED
  BY <1>1, <1>2, FiledAs DEF ids

LEMMA NoneFiled ==
  ASSUME RecordsInv, pending' = pending
  PROVE  /\ pending' \in Seq(QueueRow)
         /\ Rows(pending') = {row \in Rows(pending) : row.id \notin {}}
                             \cup {[id |-> x, payload |-> ram'[x]] : x \in {}}
BY DEF RecordsInv, RecordsType

LEMMA FileNothing ==
  ASSUME RecordsInv, NEW content, File(content, <<>>)
  PROVE  /\ ram' = content /\ pending' \in Seq(QueueRow)
         /\ Rows(pending') = {row \in Rows(pending) : row.id \notin {}}
                             \cup {[id |-> x, payload |-> ram'[x]] : x \in {}}
<1>1. <<>> \in Seq(Memories) /\ Rows(<<>>) = {}
  BY DEF Rows
<1> DEFINE ids == <<>>
<1> HIDE DEF ids
<1>2. File(content, ids) /\ \A x \in Rows(ids) : content[x] \in Written
  BY <1>1 DEF ids
<1> QED
  BY <1>1, <1>2, FiledAs DEF ids

-----------------------------------------------------------------------------
(* Circles and what dangles.                                               *)

\* Only m has a new parent, which is in W; W is closed under parents and has not m.
LEMMA ParentMoves ==
  ASSUME ParentsAcyclic, behind \subseteq behind', NEW m, NEW W,
         m \notin W, ram'[m].parent \in W \cup {NoMemory},
         \A x \in W \ behind' :
           Here(x) /\ ram[x].parent \in Memories /\ (Here(ram[x].parent) \/ ram[x].parent = m)
             => ram[x].parent \in W,
         \A x \in Memories \ behind' :
           x # m /\ Here(x)' => Here(x) /\ ram'[x].parent = ram[x].parent
  PROVE  ParentsAcyclic'
<1> SUFFICES ASSUME NEW S \in SUBSET (Memories \ behind'), S # {},
                    \A x \in S : Here(x)' /\ ram'[x].parent \in S
             PROVE  FALSE
  BY DEF ParentsAcyclic
<1>1. \A x \in S : x # m => Here(x) /\ ram[x].parent = ram'[x].parent
  OBVIOUS
<1>2. CASE m \notin S
  BY <1>1, <1>2 DEF ParentsAcyclic
<1>3. CASE m \in S
  <2> DEFINE T == S \cap W
  <2>1. ram'[m].parent \in T
    BY <1>3, MemoryAssumption
  <2>2. ASSUME NEW x \in T PROVE Here(x) /\ ram[x].parent \in T
    <3>1. Here(x) /\ ram[x].parent = ram'[x].parent /\ ram[x].parent \in S
      BY <1>1
    <3>2. Here(ram[x].parent) \/ ram[x].parent = m
      BY <1>1, <3>1
    <3> QED
      BY <3>1, <3>2
  <2>3. T \in SUBSET (Memories \ behind) /\ T # {}
    BY <2>1
  <2> HIDE DEF T
  <2> QED
    BY <2>2, <2>3 DEF ParentsAcyclic
<1> QED
  BY <1>2, <1>3

LEMMA ParentsKept ==
  ASSUME ParentsAcyclic, behind \subseteq behind',
         \A x \in Memories \ behind' :
           Here(x)' => (Here(x) /\ ram'[x].parent = ram[x].parent) \/ ram'[x].parent = NoMemory
  PROVE  ParentsAcyclic'
<1> SUFFICES ASSUME NEW S \in SUBSET (Memories \ behind'), S # {},
                    \A x \in S : Here(x)' /\ ram'[x].parent \in S
             PROVE  FALSE
  BY DEF ParentsAcyclic
<1>1. \A x \in S : Here(x) /\ ram[x].parent \in S
  BY MemoryAssumption
<1> QED
  BY <1>1 DEF ParentsAcyclic

\* What m refers to.
Refers(m) == ({ram[m].parent} \ {NoMemory}) \cup ram[m].links

\* Nobody is gone, and what m refers to now is there.
LEMMA StaysThere ==
  ASSUME NothingDangles, behind \subseteq behind',
         \A x \in Memories : x \notin behind' /\ Here(x) => Here(x)',
         \A x \in Memories \ behind' : Here(x)' =>
           \A y \in Refers(x)' : (Here(x) /\ y \in Refers(x)) \/ Here(y)' \/ y \in behind',
         RecordsType
  PROVE  NothingDangles'
<1> SUFFICES ASSUME NEW x \in Memories, x \notin behind', Here(x)', NEW y \in Refers(x)'
             PROVE  Here(y)' \/ y \in behind'
  BY DEF NothingDangles, Refers
<1>1. CASE Here(x) /\ y \in Refers(x)
  <2>1. Here(y) \/ y \in behind
    BY <1>1 DEF NothingDangles, Refers
  <2>2. y \in Memories
    <3>1. ram[x] \in MemoryRecord
      BY <1>1 DEF RecordsType, Content, Here, IsRecord
    <3> QED
      BY <1>1, <3>1, IsHere DEF Refers
  <2> QED
    BY <2>1, <2>2
<1> QED
  BY <1>1

-----------------------------------------------------------------------------
(* The requests about memories.                                            *)

LEMMA MemoryCreated ==
  ASSUME RecordsInv, NEW m \in Memories, NEW p \in Memories \cup {NoMemory}, memory_create(m, p),
         UNCHANGED <<index, yaml>>
  PROVE  RecordsInv'
<1> DEFINE S == {p} \cap Memories
           r == Loaded(S)
           content == [r EXCEPT ![m] = Record(p)]
<1>1. /\ m \notin made /\ made' = made \cup {m} /\ File(content, <<m>>) /\ LoadBehind(S)
      /\ p # NoMemory => Found(p)
      /\ disk' = disk /\ linking' = linking /\ torn' = torn
  BY DEF memory_create, Found
<1>2. RecordsType /\ made \subseteq Memories
  BY DEF RecordsInv, RecordsType
<1>3. ReadIn(S, r)
  BY <1>1, Looked
<1> HIDE DEF r
<1>4. /\ content \in [Memories -> Content] /\ content[m] = Record(p) /\ content[m] \in Written
      /\ \A x \in Memories : x # m => content[x] = r[x]
  BY <1>3, NewMemory DEF ReadIn, Content, Written
<1>5. p # NoMemory => p \in Memories /\ IsRecord(r[p]) /\ p \in made
  BY <1>1, <1>3 DEF ReadIn, Found
<1> HIDE DEF content
<1>6. /\ ram' = content /\ pending' \in Seq(QueueRow)
      /\ Rows(pending') = {row \in Rows(pending) : row.id \notin {m}}
                          \cup {[id |-> x, payload |-> ram'[x]] : x \in {m}}
  BY <1>1, <1>4, OneFiled
<1>7. Requested({m})
  BY <1>1, <1>2, <1>3, <1>6 DEF Requested, ReadIn
<1>8. \A x \in Memories : x # m /\ x \notin behind' => ram'[x] = ram[x]
  BY <1>3, <1>4, <1>6 DEF ReadIn
<1>9. IsRecord(ram'[m]) /\ ram'[m].parent = p /\ ram'[m].links = {}
  BY <1>4, <1>6, NewMemory, IsHere
<1>10. NewIn({m})
  <2>1. \A x \in Memories : IsRecord(ram'[x]) => x \in made' /\ ram'[x].parent \in made' \cup {NoMemory}
    BY <1>1, <1>3, <1>4, <1>5, <1>6, <1>9 DEF ReadIn
  <2>2. linking' \in [Linkers -> [from : Memories, to : Memories] \cup {NoLink}]
    BY <1>1, <1>2 DEF RecordsType
  <2> QED
    BY <1>4, <1>6, <1>8, <2>1, <2>2 DEF NewIn, Alike
<1>11. ParentsAcyclic'
  <2>1. \A x \in Memories : Here(x) => ram[x].parent \in made \cup {NoMemory}
    BY DEF RecordsInv, MadeFirst, Fits, Here
  <2> QED
    BY <1>1, <1>2, <1>3, <1>5, <1>8, <1>9, <2>1, ParentMoves, MemoryAssumption DEF RecordsInv, ReadIn, Here
<1>12. NothingDangles'
  <2>1. \A x \in Memories : x \notin behind' /\ Here(x) => Here(x)'
    BY <1>8, <1>9 DEF Here
  <2>2. ASSUME NEW x \in Memories, x \notin behind', Here(x)', NEW y \in Refers(x)'
        PROVE  (Here(x) /\ y \in Refers(x)) \/ Here(y)'
    <3>1. CASE x = m
      BY <1>1, <1>4, <1>5, <1>6, <1>9, <2>2, <3>1 DEF Refers, Here
    <3>2. CASE x # m
      BY <1>8, <2>2, <3>2 DEF Refers, Here
    <3> QED
      BY <3>1, <3>2
  <2> QED
    BY <1>2, <1>3, <2>1, <2>2, StaysThere DEF RecordsInv, ReadIn
<1> QED
  BY <1>7, <1>10, <1>11, <1>12, Requests DEF RecordsInv

\* A request that changes the record of m to x, and files it or leaves a title that is torn.
LEMMA Retouched ==
  ASSUME RecordsInv, NEW S, NEW r, ReadIn(S, r), NEW m \in Memories, IsRecord(r[m]),
         NEW x \in MemoryRecord, ram' = [r EXCEPT ![m] = x],
         \/ x.parent = r[m].parent
         \/ x.parent = NoMemory
         \/ (x.parent \in made' /\ IsRecord(ram'[x.parent])),
         \A y \in x.links : y \in r[m].links \/ IsRecord(ram'[y]),
         NEW I, Requested(I),
         \/ I = {m}
         \/ /\ I = {}
            /\ x.parent = r[m].parent /\ x.links = r[m].links
            /\ x.title = r[m].title \/ m \in torn',
         linking' \in [Linkers -> [from : Memories, to : Memories] \cup {NoLink}],
         ParentsAcyclic'
  PROVE  RecordsInv'
<1>1. RecordsType /\ r \in [Memories -> Content] /\ made \subseteq made' /\ behind \subseteq behind'
  BY DEF RecordsInv, ReadIn, Requested
<1>2. ram'[m] = x /\ IsRecord(ram'[m]) /\ \A y \in Memories : y # m => ram'[y] = r[y]
  BY <1>1, IsHere
<1>3. \A y \in Memories : y # m /\ y \notin behind' => ram'[y] = ram[y]
  BY <1>2 DEF ReadIn
<1>4. m \notin behind' => r[m] = ram[m] /\ Here(m)
  BY DEF ReadIn, Here
<1>5. NewIn(I)
  <2>1. ram' \in [Memories -> Content]
    BY <1>1 DEF Content
  <2>2. \A y \in Memories : IsRecord(ram'[y]) => y \in made' /\ ram'[y].parent \in made' \cup {NoMemory}
    BY <1>1, <1>2 DEF ReadIn
  <2>3. \A y \in I : ram'[y] \in Written
    BY <1>2 DEF Written
  <2>4. \A y \in Memories \ (behind' \cup I) : Alike(y)
    BY <1>2, <1>3, <1>4 DEF Alike
  <2> QED
    BY <2>1, <2>2, <2>3, <2>4 DEF NewIn
<1>6. NothingDangles'
  <2>1. \A y \in Memories : y \notin behind' /\ Here(y) => Here(y)'
    BY <1>2, <1>3 DEF Here
  <2>2. ASSUME NEW z \in Memories, z \notin behind', Here(z)', NEW y \in Refers(z)'
        PROVE  (Here(z) /\ y \in Refers(z)) \/ Here(y)'
    <3>1. CASE z = m
      BY <1>2, <1>4, <2>2, <3>1 DEF Refers, Here
    <3>2. CASE z # m
      BY <1>3, <2>2, <3>2 DEF Refers, Here
    <3> QED
      BY <3>1, <3>2
  <2> QED
    BY <1>1, <2>1, <2>2, StaysThere DEF RecordsInv
<1> QED
  BY <1>5, <1>6, Requests DEF RecordsInv

\* The parent stays.
LEMMA ParentStays ==
  ASSUME RecordsInv, NEW S, NEW r, ReadIn(S, r), NEW m \in Memories, IsRecord(r[m]),
         NEW x, x.parent = r[m].parent, ram' = [r EXCEPT ![m] = x]
  PROVE  ParentsAcyclic'
<1>1. r \in [Memories -> Content] /\ behind \subseteq behind'
  BY DEF ReadIn
<1>2. ram'[m] = x /\ \A y \in Memories : y # m => ram'[y] = r[y]
  BY <1>1
<1>3. \A y \in Memories \ behind' : Here(y)' => Here(y) /\ ram'[y].parent = ram[y].parent
  BY <1>2 DEF ReadIn, Here
<1> QED
  BY <1>1, <1>3, ParentsKept DEF RecordsInv

LEMMA LookedUp ==
  ASSUME NEW S, NEW r, ReadIn(S, r), NEW m \in Memories, m \in S, Found(m)
  PROVE  r[m] \in MemoryRecord /\ IsRecord(r[m]) /\ m \in made
BY DEF ReadIn, Found, Content, IsRecord

LEMMA Retitles ==
  ASSUME RecordsInv, NEW m \in Memories, NEW t \in Titles, memory_update_title(m, t),
         UNCHANGED <<index, yaml>>
  PROVE  RecordsInv'
<1> DEFINE r == Loaded({m})  x == [r[m] EXCEPT !.title = t]
<1>1. /\ Found(m) /\ File([r EXCEPT ![m] = x], <<m>>) /\ LoadBehind({m})
      /\ disk' = disk /\ linking' = linking /\ torn' = torn /\ made' = made
  BY DEF memory_update_title
<1>2. RecordsType /\ made \subseteq Memories
  BY DEF RecordsInv, RecordsType
<1>3. ReadIn({m}, r)
  BY <1>1, Looked
<1> HIDE DEF r
<1>4. r[m] \in MemoryRecord /\ IsRecord(r[m]) /\ r \in [Memories -> Content]
  BY <1>1, <1>3, LookedUp DEF ReadIn
<1>5. x \in MemoryRecord /\ x.parent = r[m].parent /\ x.links = r[m].links
  BY <1>4, SetTitle
<1> HIDE DEF x
<1> DEFINE content == [r EXCEPT ![m] = x]
<1>6. content[m] \in Written
  BY <1>4, <1>5 DEF Written
<1> HIDE DEF content
<1>7. /\ ram' = content /\ pending' \in Seq(QueueRow)
      /\ Rows(pending') = {row \in Rows(pending) : row.id \notin {m}}
                          \cup {[id |-> y, payload |-> ram'[y]] : y \in {m}}
  BY <1>1, <1>6, OneFiled DEF content
<1>8. Requested({m})
  BY <1>1, <1>2, <1>3, <1>7 DEF Requested, ReadIn
<1> USE DEF content
<1>9. ParentsAcyclic'
  BY <1>3, <1>4, <1>5, <1>7, ParentStays
<1>10. linking' \in [Linkers -> [from : Memories, to : Memories] \cup {NoLink}]
  BY <1>1, <1>2 DEF RecordsType
<1> QED
  BY <1>3, <1>4, <1>5, <1>7, <1>8, <1>9, <1>10, Retouched

\* The walk has seen p and the parents of all it has seen, if it has not met m.
LEMMA WalkClosed ==
  ASSUME NEW m \in Memories, NEW p \in Memories \cup {NoMemory}
  PROVE  /\ Walk(m, p) \subseteq Memories
         /\ p \in Memories /\ Found(p) => p \in Walk(m, p)
         /\ \A x \in Walk(m, p) \ {m} :
              LET y == load_memory(x).parent IN y \in Memories /\ Found(y) => y \in Walk(m, p)
BY DEF Walk

LEMMA Moves ==
  ASSUME RecordsInv, NEW m \in Memories, NEW p \in Memories \cup {NoMemory}, NEW t \in Titles,
         memory_update(m, t, p), UNCHANGED <<index, yaml>>
  PROVE  RecordsInv'
<1> DEFINE W == Walk(m, p)  S == {m} \cup W
           r == Loaded(S)  x == [r[m] EXCEPT !.title = t, !.parent = p]
<1>1. /\ Found(m) /\ File([r EXCEPT ![m] = x], <<m>>) /\ LoadBehind(S)
      /\ p # NoMemory => Found(p) /\ m \notin W
      /\ disk' = disk /\ linking' = linking /\ torn' = torn /\ made' = made
  BY DEF memory_update, _would_create_cycle, Found
<1>2. RecordsType /\ made \subseteq Memories
  BY DEF RecordsInv, RecordsType
<1>3. /\ W \subseteq Memories
      /\ p # NoMemory => p \in W
      /\ \A y \in W \ {m} :
           LET z == load_memory(y).parent IN z \in Memories /\ Found(z) => z \in W
  BY <1>1, WalkClosed
<1> HIDE DEF W
<1>4. ReadIn(S, r)
  BY <1>1, <1>3, Looked
<1> HIDE DEF r
<1>5. r[m] \in MemoryRecord /\ IsRecord(r[m]) /\ r \in [Memories -> Content]
  BY <1>1, <1>4, LookedUp DEF ReadIn
<1>6. x \in MemoryRecord /\ x.parent = p /\ x.links = r[m].links
  BY <1>5 DEF MemoryRecord
<1>7. p # NoMemory => p \in made /\ IsRecord(r[p]) /\ p # m
  BY <1>1, <1>3, <1>4, LookedUp
<1> HIDE DEF x
<1> DEFINE content == [r EXCEPT ![m] = x]
<1>8. content[m] \in Written
  BY <1>5, <1>6 DEF Written
<1> HIDE DEF content
<1>9. /\ ram' = content /\ pending' \in Seq(QueueRow)
      /\ Rows(pending') = {row \in Rows(pending) : row.id \notin {m}}
                          \cup {[id |-> y, payload |-> ram'[y]] : y \in {m}}
  BY <1>1, <1>8, OneFiled DEF content
<1>10. Requested({m})
  BY <1>1, <1>2, <1>4, <1>9 DEF Requested, ReadIn
<1> USE DEF content
<1>11. ram'[m] = x /\ \A y \in Memories : y # m => ram'[y] = r[y]
  BY <1>5, <1>9
<1>12. ParentsAcyclic'
  <2>1. behind \subseteq behind' /\ \A y \in Memories \ behind' : r[y] = ram[y]
    BY <1>4 DEF ReadIn
  <2>2. CASE p = NoMemory
    <3>1. \A y \in Memories \ behind' :
            Here(y)' => (Here(y) /\ ram'[y].parent = ram[y].parent) \/ ram'[y].parent = NoMemory
      BY <1>6, <1>11, <2>1, <2>2 DEF Here
    <3> QED
      BY <2>1, <3>1, ParentsKept DEF RecordsInv
  <2>3. CASE p # NoMemory
    <3>1. ASSUME NEW y \in W \ behind', Here(y), ram[y].parent \in Memories,
                 Here(ram[y].parent) \/ ram[y].parent = m
          PROVE  ram[y].parent \in W
      <4>1. load_memory(y) = ram[y]
        BY <1>3, <3>1 DEF load_memory, Loaded, Loads
      <4>2. Found(ram[y].parent)
        <5>1. \A z \in Memories : Here(z) => Found(z)
          BY DEF Found, load_memory, Loaded, Loads, Here
        <5> QED
          BY <1>1, <3>1, <5>1
      <4> QED
        BY <1>1, <1>3, <2>3, <3>1, <4>1, <4>2
    <3>2. \A y \in Memories \ behind' : y # m /\ Here(y)' => Here(y) /\ ram'[y].parent = ram[y].parent
      BY <1>11, <2>1 DEF Here
    <3>3. m \notin W /\ ram'[m].parent \in W \cup {NoMemory}
      BY <1>1, <1>3, <1>6, <1>11, <2>3
    <3> QED
      BY <2>1, <3>1, <3>2, <3>3, ParentMoves DEF RecordsInv
  <2> QED
    BY <2>2, <2>3
<1>13. linking' \in [Linkers -> [from : Memories, to : Memories] \cup {NoLink}]
  BY <1>1, <1>2 DEF RecordsType
<1>14. x.parent = NoMemory \/ (x.parent \in made' /\ IsRecord(ram'[x.parent]))
  BY <1>1, <1>2, <1>6, <1>7, <1>11
<1> QED
  BY <1>4, <1>5, <1>6, <1>9, <1>10, <1>12, <1>13, <1>14, Retouched

LEMMA Refuses ==
  ASSUME RecordsInv, NEW m \in Memories, NEW p \in Memories \cup {NoMemory}, NEW t \in Titles,
         memory_update_refused(m, t, p), UNCHANGED <<index, yaml>>
  PROVE  RecordsInv'
<1> DEFINE S == {m} \cup (IF p = m THEN {} ELSE Walk(m, p))
           r == Loaded(S)  x == [r[m] EXCEPT !.title = t]
<1>1. /\ Found(m) /\ ram' = [r EXCEPT ![m] = x] /\ LoadBehind(S)
      /\ torn' = IF load_memory(m).title = t THEN torn ELSE torn \cup {m}
      /\ disk' = disk /\ linking' = linking /\ pending' = pending /\ made' = made
  BY DEF memory_update_refused
<1>2. RecordsType /\ made \subseteq Memories
  BY DEF RecordsInv, RecordsType
<1>3. S \subseteq Memories
  BY WalkClosed
<1> HIDE DEF S
<1>4. ReadIn(S, r)
  BY <1>1, <1>3, Looked
<1> HIDE DEF r
<1>5. r[m] \in MemoryRecord /\ IsRecord(r[m]) /\ r[m] = load_memory(m)
  BY <1>1, <1>4, LookedUp DEF ReadIn, S
<1>6. x \in MemoryRecord /\ x.parent = r[m].parent /\ x.links = r[m].links /\ x.title = t
  BY <1>5, SetTitle
<1> HIDE DEF x
<1>7. Requested({})
  BY <1>1, <1>2, <1>4, NoneFiled DEF Requested, ReadIn
<1>8. x.title = r[m].title \/ m \in torn'
  BY <1>1, <1>5, <1>6
<1>9. ParentsAcyclic'
  BY <1>1, <1>4, <1>5, <1>6, ParentStays
<1>10. linking' \in [Linkers -> [from : Memories, to : Memories] \cup {NoLink}]
  BY <1>1, <1>2 DEF RecordsType
<1> QED
  BY <1>1, <1>4, <1>5, <1>6, <1>7, <1>8, <1>9, <1>10, Retouched

\* A request that only looks memories up.
LEMMA OnlyLooks ==
  ASSUME RecordsInv, NEW S, NEW r, ReadIn(S, r), ram' = r, Requested({}),
         linking' \in [Linkers -> [from : Memories, to : Memories] \cup {NoLink}]
  PROVE  RecordsInv'
<1>1. RecordsType /\ r \in [Memories -> Content] /\ behind \subseteq behind' /\ made \subseteq made'
  BY DEF RecordsInv, ReadIn, Requested
<1>2. \A y \in Memories \ behind' : ram'[y] = ram[y]
  BY DEF ReadIn
<1>3. NewIn({})
  BY <1>1, <1>2 DEF NewIn, ReadIn, Alike
<1>4. ParentsAcyclic'
  BY <1>1, <1>2, ParentsKept DEF RecordsInv, Here
<1>5. NothingDangles'
  BY <1>1, <1>2, StaysThere DEF RecordsInv, Here, Refers
<1> QED
  BY <1>3, <1>4, <1>5, Requests DEF RecordsInv

LEMMA Links ==
  ASSUME RecordsInv, NEW c \in Linkers, NEW m \in Memories, NEW x \in Memories, memory_link(c, m, x),
         UNCHANGED <<index, yaml>>
  PROVE  RecordsInv'
<1>1. /\ ram' = Loaded({m}) /\ LoadBehind({m})
      /\ linking' = IF Found(m) THEN [linking EXCEPT ![c] = [from |-> m, to |-> x]] ELSE linking
      /\ disk' = disk /\ torn' = torn /\ pending' = pending /\ made' = made
  BY DEF memory_link
<1>2. RecordsType /\ made \subseteq Memories
  BY DEF RecordsInv, RecordsType
<1>3. ReadIn({m}, Loaded({m}))
  BY <1>1, Looked
<1>4. Requested({})
  BY <1>1, <1>2, <1>3, NoneFiled DEF Requested, ReadIn
<1>5. linking' \in [Linkers -> [from : Memories, to : Memories] \cup {NoLink}]
  BY <1>1, <1>2 DEF RecordsType
<1> QED
  BY <1>1, <1>3, <1>4, <1>5, OnlyLooks

LEMMA Added ==
  ASSUME RecordsInv, NEW c \in Linkers, link_added(c), UNCHANGED <<index, yaml>>
  PROVE  RecordsInv'
<1> DEFINE m == linking[c].from  x == linking[c].to  r == Loaded({x})
           y == [r[m] EXCEPT !.links = @ \cup {x}]
<1>1. /\ linking[c] # NoLink /\ LoadBehind({x})
      /\ IF IsRecord(r[x]) /\ IsRecord(r[m]) THEN File([r EXCEPT ![m] = y], <<m>>) ELSE File(r, <<>>)
      /\ linking' = [linking EXCEPT ![c] = NoLink]
      /\ disk' = disk /\ torn' = torn /\ made' = made
  BY DEF link_added
<1>2. RecordsType /\ made \subseteq Memories
  BY DEF RecordsInv, RecordsType
<1>3. m \in Memories /\ x \in Memories
  BY <1>1, <1>2 DEF RecordsType
<1>4. linking' \in [Linkers -> [from : Memories, to : Memories] \cup {NoLink}]
  BY <1>1, <1>2 DEF RecordsType
<1> HIDE DEF m, x
<1>5. ReadIn({x}, r)
  BY <1>1, <1>3, Looked
<1> HIDE DEF r
<1>6. CASE IsRecord(r[x]) /\ IsRecord(r[m])
  <2>1. r[m] \in MemoryRecord /\ r \in [Memories -> Content]
    BY <1>3, <1>5, <1>6, RecordIs DEF ReadIn
  <2>2. y \in MemoryRecord /\ y.parent = r[m].parent /\ y.links = r[m].links \cup {x}
    BY <1>3, <2>1 DEF MemoryRecord
  <2> HIDE DEF y
  <2> DEFINE content == [r EXCEPT ![m] = y]
  <2>3. content[m] \in Written /\ IsRecord(content[x])
    BY <1>3, <1>6, <2>1, <2>2, IsHere DEF Written
  <2> HIDE DEF content
  <2>4. /\ ram' = content /\ pending' \in Seq(QueueRow)
        /\ Rows(pending') = {row \in Rows(pending) : row.id \notin {m}}
                            \cup {[id |-> z, payload |-> ram'[z]] : z \in {m}}
    BY <1>1, <1>3, <1>6, <2>3, OneFiled DEF content
  <2>5. Requested({m})
    BY <1>1, <1>2, <1>3, <1>5, <2>4 DEF Requested, ReadIn
  <2> USE DEF content
  <2>6. ParentsAcyclic'
    BY <1>3, <1>5, <1>6, <2>2, <2>4, ParentStays
  <2> QED
    BY <1>3, <1>4, <1>5, <1>6, <2>2, <2>3, <2>4, <2>5, <2>6, Retouched
<1>7. CASE ~(IsRecord(r[x]) /\ IsRecord(r[m]))
  <2>1. /\ ram' = r /\ pending' \in Seq(QueueRow)
        /\ Rows(pending') = {row \in Rows(pending) : row.id \notin {}}
                            \cup {[id |-> z, payload |-> ram'[z]] : z \in {}}
    BY <1>1, <1>7, FileNothing
  <2>2. Requested({})
    BY <1>1, <1>2, <1>5, <2>1 DEF Requested, ReadIn
  <2> QED
    BY <1>4, <1>5, <2>1, <2>2, OnlyLooks
<1> QED
  BY <1>6, <1>7

LEMMA Unlinks ==
  ASSUME RecordsInv, NEW m \in Memories, NEW x \in Memories, memory_unlink(m, x),
         UNCHANGED <<index, yaml>>
  PROVE  RecordsInv'
<1> DEFINE r == Loaded({m})  y == [r[m] EXCEPT !.links = @ \ {x}]
<1>1. /\ Found(m) /\ File([r EXCEPT ![m] = y], <<m>>) /\ LoadBehind({m})
      /\ disk' = disk /\ linking' = linking /\ torn' = torn /\ made' = made
  BY DEF memory_unlink
<1>2. RecordsType /\ made \subseteq Memories
  BY DEF RecordsInv, RecordsType
<1>3. ReadIn({m}, r)
  BY <1>1, Looked
<1> HIDE DEF r
<1>4. r[m] \in MemoryRecord /\ IsRecord(r[m]) /\ r \in [Memories -> Content]
  BY <1>1, <1>3, LookedUp DEF ReadIn
<1>5. y \in MemoryRecord /\ y.parent = r[m].parent /\ y.links \subseteq r[m].links
  BY <1>4 DEF MemoryRecord
<1> HIDE DEF y
<1> DEFINE content == [r EXCEPT ![m] = y]
<1>6. content[m] \in Written
  BY <1>4, <1>5 DEF Written
<1> HIDE DEF content
<1>7. /\ ram' = content /\ pending' \in Seq(QueueRow)
      /\ Rows(pending') = {row \in Rows(pending) : row.id \notin {m}}
                          \cup {[id |-> z, payload |-> ram'[z]] : z \in {m}}
  BY <1>1, <1>6, OneFiled DEF content
<1>8. Requested({m})
  BY <1>1, <1>2, <1>3, <1>7 DEF Requested, ReadIn
<1> USE DEF content
<1>9. ParentsAcyclic'
  BY <1>3, <1>4, <1>5, <1>7, ParentStays
<1>10. linking' \in [Linkers -> [from : Memories, to : Memories] \cup {NoLink}]
  BY <1>1, <1>2 DEF RecordsType
<1> QED
  BY <1>3, <1>4, <1>5, <1>7, <1>8, <1>9, <1>10, Retouched

\* The list without records: RAM had nothing, and has no record after it.
LEMMA Lists ==
  ASSUME RecordsInv, list_memories, UNCHANGED <<index, yaml>>
  PROVE  RecordsInv'
<1>1. /\ \A m \in Memories : ram[m] = Absent
      /\ ram' = [m \in Memories |-> IF IsRecord(disk[m]) THEN Ghost ELSE Absent]
      /\ UNCHANGED <<pending, disk, linking, behind, made, torn>>
  BY DEF list_memories
<1>2. RecordsType /\ made \subseteq Memories
  BY DEF RecordsInv, RecordsType
<1>3. Requested({})
  BY <1>1, <1>2, NoneFiled DEF Requested
<1>4. \A m \in Memories : ~Here(m) /\ ~IsRecord(ram'[m])
  BY <1>1, NotHere DEF Here
<1>5. NewIn({})
  <2>1. ram' \in [Memories -> Content]
    BY <1>1 DEF Content
  <2> QED
    BY <1>1, <1>2, <1>4, <2>1 DEF NewIn, Alike, RecordsType
<1>6. ParentsAcyclic'
  BY <1>1, <1>4, ParentsKept DEF RecordsInv, Here
<1>7. NothingDangles'
  BY <1>4 DEF NothingDangles, Here
<1> QED
  BY <1>3, <1>5, <1>6, <1>7, Requests DEF RecordsInv

LEMMA ListsInFull ==
  ASSUME RecordsInv, list_memories_full, UNCHANGED <<index, yaml>>
  PROVE  RecordsInv'
<1>1. /\ ram' = Loaded(Memories) /\ LoadBehind(Memories)
      /\ UNCHANGED <<pending, disk, linking, made, torn>>
  BY DEF list_memories_full
<1>2. RecordsType /\ made \subseteq Memories
  BY DEF RecordsInv, RecordsType
<1>3. ReadIn(Memories, Loaded(Memories))
  BY <1>1, Looked
<1>4. Requested({})
  BY <1>1, <1>2, <1>3, NoneFiled DEF Requested, ReadIn
<1>5. linking' \in [Linkers -> [from : Memories, to : Memories] \cup {NoLink}]
  BY <1>1, <1>2 DEF RecordsType
<1> QED
  BY <1>1, <1>3, <1>4, <1>5, OnlyLooks

-----------------------------------------------------------------------------
(* Deletions.                                                              *)

\* What is left of r after m has been deleted.
LEMMA DetachedIs ==
  ASSUME NEW r \in [Memories -> Content], NEW m \in Memories
  PROVE  /\ detached(r, m) \in [Memories -> Content] /\ detached(r, m)[m] = Absent
         /\ \A x \in Memories : x # m =>
              IF IsRecord(r[x])
              THEN /\ detached(r, m)[x] \in MemoryRecord
                   /\ detached(r, m)[x].parent = (IF r[x].parent = m THEN NoMemory ELSE r[x].parent)
                   /\ detached(r, m)[x].links = r[x].links \ {m}
                   /\ detached(r, m)[x].title = r[x].title
              ELSE detached(r, m)[x] = r[x]
<1> DEFINE d == detached(r, m)
<1>1. \A x \in Memories :
        d[x] = IF x = m THEN Absent
               ELSE IF IsRecord(r[x])
                    THEN [r[x] EXCEPT !.parent = IF @ = m THEN NoMemory ELSE @, !.links = @ \ {m}]
                    ELSE r[x]
  BY DEF detached
<1>2. ASSUME NEW x \in Memories, x # m, IsRecord(r[x])
      PROVE  /\ d[x] \in MemoryRecord
             /\ d[x].parent = (IF r[x].parent = m THEN NoMemory ELSE r[x].parent)
             /\ d[x].links = r[x].links \ {m}
             /\ d[x].title = r[x].title
  <2>1. r[x] \in MemoryRecord
    BY <1>2, RecordIs
  <2> QED
    BY <1>1, <1>2, <2>1 DEF MemoryRecord
<1>3. ASSUME NEW x \in Memories PROVE d[x] \in Content
  BY <1>1, <1>2 DEF Content
<1>4. d \in [Memories -> Content]
  <2>1. d = [x \in Memories |-> d[x]]
    BY DEF detached
  <2> HIDE DEF d
  <2> QED
    BY <1>3, <2>1
<1> HIDE DEF d
<1>5. \A x \in Memories : x # m =>
        IF IsRecord(r[x])
        THEN /\ d[x] \in MemoryRecord
             /\ d[x].parent = (IF r[x].parent = m THEN NoMemory ELSE r[x].parent)
             /\ d[x].links = r[x].links \ {m}
             /\ d[x].title = r[x].title
        ELSE d[x] = r[x]
  BY <1>1, <1>2
<1>6. d[m] = Absent
  BY <1>1
<1> QED
  BY <1>4, <1>5, <1>6 DEF d

LEMMA Deletes ==
  ASSUME RecordsInv, NEW m \in Memories, memory_delete(m), UNCHANGED <<index, yaml>>
  PROVE  RecordsInv'
<1> DEFINE r == Loaded({m})  d == detached(r, m)
           C == Children(r, m) \ Linking(r, m)  L == Linking(r, m)
<1>1. /\ LoadBehind({m}) /\ disk' = disk /\ linking' = linking /\ torn' = torn /\ made' = made
      /\ \E cs \in SetToSeqs(C), ls \in SetToSeqs(L) : File(d, cs \o ls \o <<m>>)
  BY DEF memory_delete, delete_memory
<1>2. RecordsType /\ made \subseteq Memories
  BY DEF RecordsInv, RecordsType
<1>3. ReadIn({m}, r)
  BY <1>1, Looked
<1>4. /\ C \subseteq Memories /\ L \subseteq Memories
      /\ \A x \in Memories \ (C \cup L) : IsRecord(r[x]) => r[x].parent # m /\ m \notin r[x].links
      /\ \A x \in C \cup L : IsRecord(r[x])
  BY DEF Children, Linking
<1> HIDE DEF r, C, L
<1>5. r \in [Memories -> Content]
  BY <1>3 DEF ReadIn
<1>6. /\ d \in [Memories -> Content] /\ d[m] = Absent
      /\ \A x \in Memories : x # m =>
           IF IsRecord(r[x])
           THEN /\ d[x] \in MemoryRecord
                /\ d[x].parent = (IF r[x].parent = m THEN NoMemory ELSE r[x].parent)
                /\ d[x].links = r[x].links \ {m}
                /\ d[x].title = r[x].title
           ELSE d[x] = r[x]
  BY <1>5, DetachedIs
<1> HIDE DEF d
<1> DEFINE I == C \cup L \cup {m}
<1>7. \A x \in I : d[x] \in Written
  BY <1>4, <1>6 DEF Written
<1>8. PICK cs \in SetToSeqs(C), ls \in SetToSeqs(L) : File(d, cs \o ls \o <<m>>)
  BY <1>1
<1>9. /\ ram' = d /\ pending' \in Seq(QueueRow)
      /\ Rows(pending') = {row \in Rows(pending) : row.id \notin I}
                          \cup {[id |-> x, payload |-> ram'[x]] : x \in I}
  <2> DEFINE g == <<m>>  h == cs \o ls  ids == h \o g
  <2>1. IsFiniteSet(C) /\ IsFiniteSet(L)
    BY <1>4, MemoryAssumption, FS_Subset
  <2>2. cs \in Seq(C) /\ Rows(cs) = C /\ ls \in Seq(L) /\ Rows(ls) = L
    BY <2>1, ListOf
  <2>3. cs \in Seq(Memories) /\ ls \in Seq(Memories)
    BY <1>4, <2>2
  <2>4. g \in Seq(Memories) /\ Rows(g) = {m}
    <3>1. Rows(g) = {m}
      BY DEF Rows
    <3> QED
      BY <3>1
  <2> HIDE DEF g
  <2>5. h \in Seq(Memories) /\ Rows(h) = C \cup L
    BY <2>2, <2>3, AppendedRows
  <2> HIDE DEF h
  <2>6. ids \in Seq(Memories) /\ Rows(ids) = I
    BY <2>4, <2>5, AppendedRows
  <2>7. File(d, ids)
    BY <1>8 DEF g, h
  <2> HIDE DEF ids, I
  <2>8. \A x \in Rows(ids) : d[x] \in Written
    BY <1>7, <2>6
  <2> QED
    BY <2>6, <2>7, <2>8, FiledAs
<1>10. Requested(I)
  BY <1>1, <1>2, <1>3, <1>4, <1>9 DEF Requested, ReadIn
<1>11. ASSUME NEW x \in Memories, IsRecord(ram'[x])
       PROVE  /\ x # m /\ IsRecord(r[x]) /\ ram'[x] \in MemoryRecord
              /\ ram'[x].parent = r[x].parent \/ ram'[x].parent = NoMemory
              /\ ram'[x].parent # m
              /\ ram'[x].links = r[x].links \ {m}
              /\ ram'[x].title = r[x].title
              /\ x \notin I => ram'[x].parent = r[x].parent /\ ram'[x].links = r[x].links
  <2>1. x # m
    BY <1>6, <1>9, <1>11, NotHere
  <2>2. IsRecord(r[x])
    BY <1>6, <1>9, <1>11, <2>1
  <2>3. x \notin I => r[x].parent # m /\ r[x].links \ {m} = r[x].links
    BY <1>4, <2>2
  <2> QED
    BY <1>6, <1>9, <2>1, <2>2, <2>3, MemoryAssumption
<1>12. \A x \in Memories : x # m /\ IsRecord(r[x]) => IsRecord(ram'[x])
  BY <1>6, <1>9, IsHere
<1>13. NewIn(I)
  <2>1. \A x \in Memories : IsRecord(ram'[x]) => x \in made' /\ ram'[x].parent \in made' \cup {NoMemory}
    BY <1>1, <1>3, <1>11 DEF ReadIn
  <2>2. ASSUME NEW x \in Memories \ (behind' \cup I) PROVE Alike(x)
    <3>1. r[x] = ram[x] /\ x # m
      BY <1>3 DEF ReadIn
    <3>2. CASE IsRecord(r[x])
      BY <1>11, <1>12, <2>2, <3>1, <3>2 DEF Alike, Here
    <3>3. CASE ~IsRecord(r[x])
      BY <1>6, <1>9, <3>1, <3>3 DEF Alike
    <3> QED
      BY <3>2, <3>3
  <2>3. linking' \in [Linkers -> [from : Memories, to : Memories] \cup {NoLink}]
    BY <1>1, <1>2 DEF RecordsType
  <2> QED
    BY <1>6, <1>7, <1>9, <2>1, <2>2, <2>3 DEF NewIn
<1>14. behind \subseteq behind' /\ \A x \in Memories \ behind' : r[x] = ram[x]
  BY <1>3 DEF ReadIn
<1>15. ParentsAcyclic'
  <2>1. \A x \in Memories \ behind' :
          Here(x)' => (Here(x) /\ ram'[x].parent = ram[x].parent) \/ ram'[x].parent = NoMemory
    BY <1>11, <1>14 DEF Here
  <2> QED
    BY <1>14, <2>1, ParentsKept DEF RecordsInv
<1>16. NothingDangles'
  <2> SUFFICES ASSUME NEW x \in Memories, x \notin behind', Here(x)', NEW y \in Refers(x)'
               PROVE  Here(y)' \/ y \in behind'
    BY DEF NothingDangles, Refers
  <2>1. /\ Here(x) /\ y # m /\ y \in Refers(x) /\ ram'[x] \in MemoryRecord
        /\ y \in ({ram'[x].parent} \ {NoMemory}) \cup ram'[x].links
    BY <1>11, <1>14 DEF Here, Refers
  <2>2. y \in Memories
    BY <2>1, IsHere
  <2>3. Here(y) \/ y \in behind
    BY <1>14, <2>1 DEF RecordsInv, NothingDangles, Refers
  <2>4. Here(y) => Here(y)'
    BY <1>3, <1>12, <2>1, <2>2 DEF ReadIn, Here
  <2> QED
    BY <1>14, <2>3, <2>4
<1> QED
  BY <1>10, <1>13, <1>15, <1>16, Requests DEF RecordsInv

LEMMA DeleteRaises ==
  ASSUME RecordsInv, NEW m \in Memories, memory_delete_raises(m), UNCHANGED <<index, yaml>>
  PROVE  RecordsInv'
<1> DEFINE r == Loaded({m})
           d(D) == [x \in Memories |-> IF x \in D THEN [r[x] EXCEPT !.parent = NoMemory] ELSE r[x]]
<1>1. /\ LoadBehind({m}) /\ disk' = disk /\ linking' = linking /\ torn' = torn /\ made' = made
      /\ \E D \in SUBSET Children(r, m) : \E cs \in SetToSeqs(D) : File(d(D), cs)
  BY DEF memory_delete_raises
<1>2. RecordsType /\ made \subseteq Memories
  BY DEF RecordsInv, RecordsType
<1>3. ReadIn({m}, r)
  BY <1>1, Looked
<1>4. PICK D \in SUBSET Children(r, m) : \E cs \in SetToSeqs(D) : File(d(D), cs)
  BY <1>1
<1>5. PICK cs \in SetToSeqs(D) : File(d(D), cs)
  BY <1>4
<1>6. D \subseteq Memories /\ \A x \in D : IsRecord(r[x])
  BY DEF Children
<1> HIDE DEF r
<1>7. r \in [Memories -> Content] /\ behind \subseteq behind'
  BY <1>3 DEF ReadIn
<1> DEFINE e == d(D)
<1>8. /\ \A x \in D : /\ e[x] \in MemoryRecord /\ e[x].parent = NoMemory
                      /\ e[x].links = r[x].links /\ e[x].title = r[x].title
      /\ \A x \in Memories \ D : e[x] = r[x]
      /\ e = [x \in Memories |-> e[x]]
  <2>1. ASSUME NEW x \in D
        PROVE  /\ e[x] \in MemoryRecord /\ e[x].parent = NoMemory
               /\ e[x].links = r[x].links /\ e[x].title = r[x].title
    <3>1. r[x] \in MemoryRecord /\ e[x] = [r[x] EXCEPT !.parent = NoMemory]
      BY <1>6, <1>7, RecordIs
    <3> HIDE DEF e
    <3> QED
      BY <3>1, SetParent
  <2>2. (\A x \in Memories \ D : e[x] = r[x]) /\ e = [x \in Memories |-> e[x]]
    OBVIOUS
  <2> HIDE DEF e
  <2> QED
    BY <2>1, <2>2
<1>9. File(e, cs)
  BY <1>5
<1> HIDE DEF e
<1>10. e \in [Memories -> Content]
  <2>1. \A x \in Memories : e[x] \in Content
    BY <1>7, <1>8 DEF Content
  <2> QED
    BY <1>8, <2>1
<1>11. /\ ram' = e /\ pending' \in Seq(QueueRow)
       /\ Rows(pending') = {row \in Rows(pending) : row.id \notin D}
                           \cup {[id |-> x, payload |-> ram'[x]] : x \in D}
  <2>1. IsFiniteSet(D)
    BY <1>6, MemoryAssumption, FS_Subset
  <2>2. cs \in Seq(D) /\ Rows(cs) = D
    BY <2>1, ListOf
  <2>3. cs \in Seq(Memories)
    BY <1>6, <2>2
  <2>4. \A x \in Rows(cs) : e[x] \in Written
    BY <1>8, <2>2 DEF Written
  <2> QED
    BY <1>9, <2>2, <2>3, <2>4, FiledAs
<1>12. Requested(D)
  BY <1>1, <1>2, <1>3, <1>6, <1>11 DEF Requested, ReadIn
<1>13. \A x \in Memories \ behind' : r[x] = ram[x]
  BY <1>3 DEF ReadIn
<1>14. \A x \in Memories : IsRecord(ram'[x]) <=> IsRecord(r[x])
  BY <1>6, <1>8, <1>11, IsHere
<1>15. \A x \in Memories : ram'[x] = r[x] \/ (ram'[x].parent = NoMemory /\ ram'[x].links = r[x].links)
  BY <1>8, <1>11
<1>16. NewIn(D)
  <2>1. \A x \in Memories : IsRecord(ram'[x]) => x \in made' /\ ram'[x].parent \in made' \cup {NoMemory}
    BY <1>1, <1>3, <1>14, <1>15 DEF ReadIn
  <2>2. \A x \in D : ram'[x] \in Written
    BY <1>8, <1>11 DEF Written
  <2>3. \A x \in Memories \ (behind' \cup D) : Alike(x)
    BY <1>8, <1>11, <1>13 DEF Alike
  <2>4. linking' \in [Linkers -> [from : Memories, to : Memories] \cup {NoLink}]
    BY <1>1, <1>2 DEF RecordsType
  <2> QED
    BY <1>10, <1>11, <2>1, <2>2, <2>3, <2>4 DEF NewIn
<1>17. ParentsAcyclic'
  <2>1. \A x \in Memories \ behind' :
          Here(x)' => (Here(x) /\ ram'[x].parent = ram[x].parent) \/ ram'[x].parent = NoMemory
    BY <1>13, <1>14, <1>15 DEF Here
  <2> QED
    BY <1>7, <2>1, ParentsKept DEF RecordsInv
<1>18. NothingDangles'
  <2>1. \A x \in Memories : x \notin behind' /\ Here(x) => Here(x)'
    BY <1>13, <1>14 DEF Here
  <2>2. \A x \in Memories \ behind' : Here(x)' =>
          \A y \in Refers(x)' : (Here(x) /\ y \in Refers(x)) \/ Here(y)' \/ y \in behind'
    BY <1>13, <1>14, <1>15 DEF Here, Refers
  <2> QED
    BY <1>2, <1>7, <2>1, <2>2, StaysThere DEF RecordsInv
<1> QED
  BY <1>12, <1>16, <1>17, <1>18, Requests DEF RecordsInv

-----------------------------------------------------------------------------
(* The writer, the files and the server.                                   *)

LEMMA WritesMemory ==
  ASSUME RecordsInv, write_memory, UNCHANGED <<index, yaml>>
  PROVE  RecordsInv'
<1> DEFINE row == Head(pending)
<1>1. /\ pending # <<>> /\ row.id \in Memories
      /\ disk' = [disk EXCEPT ![row.id] = row.payload] /\ pending' = Tail(pending)
      /\ UNCHANGED <<ram, linking, behind, made, torn, index, yaml>>
  BY DEF write_memory
<1>2. RecordsType
  BY DEF RecordsInv
<1>3. /\ pending' \in Seq(QueueRow) /\ row \in QueueRow
      /\ Rows(pending) = {row} \cup Rows(pending')
  BY <1>1, <1>2, FirstTaken DEF RecordsType
<1> HIDE DEF row
<1>4. row.payload \in Written
  BY <1>1, <1>3, RowParts
<1>5. Pending = {row.id} \cup Pending'
  <2>1. Pending' = {x.id : x \in Rows(pending')}
    BY DEF Pending, Rows
  <2> QED
    BY <1>3, <2>1, PendingRows
<1>6. RecordsType'
  BY <1>1, <1>2, <1>3, <1>4 DEF RecordsType
<1>7. MadeFirst'
  <2>1. Fits(row.id, row.payload)
    BY <1>1, <1>3 DEF RecordsInv, MadeFirst
  <2>2. \A m \in Memories : Fits(m, ram[m])' /\ Fits(m, disk[m])'
    BY <1>1, <1>2, <2>1 DEF RecordsInv, MadeFirst, Fits, RecordsType
  <2>3. \A x \in Rows(pending') : x.id \in Memories => Fits(x.id, x.payload)'
    BY <1>1, <1>3 DEF RecordsInv, MadeFirst, Fits
  <2> QED
    BY <2>2, <2>3 DEF MadeFirst, Rows
<1>8. MemoriesFiled'
  <2>1. ASSUME NEW m \in Memories, m \notin behind', NEW x \in Rows(pending'), x.id = m
        PROVE  Agrees(m, x.payload)'
    BY <1>1, <1>3, <2>1 DEF RecordsInv, MemoriesFiled, Agrees, Here
  <2>2. ASSUME NEW m \in Memories, m \notin behind', m \notin Pending' PROVE Agrees(m, disk[m])'
    <3>1. CASE m = row.id
      <4>1. Agrees(m, row.payload) /\ disk'[m] = row.payload
        BY <1>1, <1>2, <1>3, <2>2, <3>1 DEF RecordsInv, MemoriesFiled, RecordsType
      <4> QED
        BY <1>1, <4>1 DEF Agrees, Here
    <3>2. CASE m # row.id
      <4>1. Agrees(m, disk[m]) /\ disk'[m] = disk[m]
        BY <1>1, <1>2, <1>5, <2>2, <3>2 DEF RecordsInv, MemoriesFiled, RecordsType
      <4> QED
        BY <1>1, <4>1 DEF Agrees, Here
    <3> QED
      BY <3>1, <3>2
  <2> QED
    BY <2>1, <2>2 DEF MemoriesFiled, Rows
<1>9. FilesFiled'
  <2>1. \A f \in Files \ behind' : \A x \in Rows(pending') : x.id = f => index'[f] \in {Absent, x.payload}
    BY <1>1, <1>3 DEF RecordsInv, FilesFiled
  <2>2. \A f \in Files \ behind' : f \notin Pending' => index'[f] \in {Absent, yaml'[f]}
    BY <1>1, <1>5, PendingAssumption DEF RecordsInv, FilesFiled
  <2> QED
    BY <2>1, <2>2 DEF FilesFiled, Rows
<1>10. ParentsAcyclic' /\ NothingDangles'
  BY <1>1 DEF RecordsInv, ParentsAcyclic, NothingDangles, Here
<1> QED
  BY <1>6, <1>7, <1>8, <1>9, <1>10 DEF RecordsInv

\* A step about files leaves the memories alone, their rows and those that were read behind.
Beside ==
  /\ UNCHANGED <<ram, disk, linking, made, torn>>
  /\ pending' \in Seq(QueueRow) /\ behind \subseteq behind'
  /\ \A row \in QueueRow : row.id \in Memories => (row \in Rows(pending') <=> row \in Rows(pending))

LEMMA MemoriesStay ==
  ASSUME RecordsInv, Beside, index' \in [Files -> Entries], yaml' \in [Files -> Entries], FilesFiled'
  PROVE  RecordsInv'
<1>1. RecordsType'
  BY DEF RecordsInv, RecordsType, Beside
<1>2. /\ Rows(pending') \subseteq QueueRow /\ Rows(pending) \subseteq QueueRow
      /\ Pending' = {row.id : row \in Rows(pending')}
  <2>1. pending \in Seq(QueueRow) /\ pending' \in Seq(QueueRow)
    BY DEF RecordsInv, RecordsType, Beside
  <2> QED
    BY <2>1, RowsTyped DEF Pending, Rows
<1>3. \A m \in Memories : m \in Pending' <=> m \in Pending
  BY <1>2, PendingRows DEF Beside
<1>4. MadeFirst'
  <2>1. \A m \in Memories : Fits(m, ram[m])' /\ Fits(m, disk[m])'
    BY DEF RecordsInv, MadeFirst, Fits, Beside
  <2>2. \A x \in Rows(pending') : x.id \in Memories => Fits(x.id, x.payload)'
    BY <1>2 DEF RecordsInv, MadeFirst, Fits, Beside
  <2> QED
    BY <2>1, <2>2 DEF MadeFirst, Rows
<1>5. MemoriesFiled'
  <2>1. \A m, x : Agrees(m, x)' <=> Agrees(m, x)
    BY DEF Agrees, Here, Beside
  <2>2. ASSUME NEW m \in Memories, m \notin behind', NEW x \in Rows(pending'), x.id = m
        PROVE  Agrees(m, x.payload)
    <3>1. x \in Rows(pending) /\ m \notin behind
      BY <1>2, <2>2 DEF Beside
    <3> QED
      BY <2>2, <3>1 DEF RecordsInv, MemoriesFiled
  <2>3. \A m \in Memories \ behind' : m \notin Pending' => Agrees(m, disk[m])
    BY <1>3 DEF RecordsInv, MemoriesFiled, Beside
  <2>4. \A m \in Memories \ behind' :
          /\ \A x \in Rows(pending') : x.id = m => Agrees(m, x.payload)'
          /\ m \notin Pending' => Agrees(m, disk[m])'
    BY <2>1, <2>2, <2>3 DEF Beside, Agrees, Here
  <2> QED
    BY <2>4 DEF MemoriesFiled, Rows
<1>6. ParentsAcyclic' /\ NothingDangles'
  BY DEF RecordsInv, ParentsAcyclic, NothingDangles, Here, Beside
<1> QED
  BY <1>1, <1>4, <1>5, <1>6 DEF RecordsInv

\* What Store keeps: f has a new row, which its entry agrees with.
LEMMA Stored ==
  ASSUME RecordsInv, NEW f \in Files, NEW st \in Entries, pending' = enqueue(pending, f, st),
         index' = [index EXCEPT ![f] = st], yaml' = yaml, behind \subseteq behind',
         UNCHANGED <<ram, disk, linking, made, torn>>
  PROVE  RecordsInv'
<1> DEFINE new == [id |-> f, payload |-> st]
<1>1. RecordsType
  BY DEF RecordsInv
<1>2. /\ pending' \in Seq(QueueRow)
      /\ Rows(pending') = {row \in Rows(pending) : row.id # f} \cup {new}
  <2>1. new \in QueueRow /\ pending \in Seq(QueueRow)
    BY <1>1, FileRow DEF RecordsType
  <2>2. /\ enqueue(pending, f, st) \in Seq(QueueRow)
        /\ Rows(enqueue(pending, f, st)) = {row \in Rows(pending) : row.id # f} \cup {new}
    BY <2>1, Enqueued
  <2> QED
    BY <2>2
<1>3. new.id = f /\ new.payload = st
  OBVIOUS
<1> HIDE DEF new
<1>4. Pending' = Pending \cup {f}
  <2>1. Pending' = {row.id : row \in Rows(pending')}
    BY DEF Pending, Rows
  <2> QED
    BY <1>2, <1>3, <2>1, PendingRows
<1>5. Beside
  BY <1>2, <1>3, PendingAssumption DEF Beside
<1>6. FilesFiled'
  <2>1. ASSUME NEW g \in Files, g \notin behind', NEW row \in Rows(pending'), row.id = g
        PROVE  index'[g] \in {Absent, row.payload}
    BY <1>1, <1>2, <1>3, <2>1 DEF RecordsInv, FilesFiled, RecordsType
  <2>2. ASSUME NEW g \in Files, g \notin behind', g \notin Pending' PROVE index'[g] \in {Absent, yaml'[g]}
    BY <1>1, <1>4, <2>2 DEF RecordsInv, FilesFiled, RecordsType
  <2> QED
    BY <2>1, <2>2 DEF FilesFiled, Rows
<1>7. index' \in [Files -> Entries] /\ yaml' \in [Files -> Entries]
  BY <1>1 DEF RecordsType
<1> QED
  BY <1>5, <1>6, <1>7, MemoriesStay

\* Entries are read from files.yaml, behind the queue if there is a row.
LEMMA EntriesRead ==
  ASSUME RecordsInv, NEW S \in SUBSET Files, ReadBehind(S), pending' = pending, yaml' = yaml,
         index' \in [Files -> Entries],
         \A f \in Files : index'[f] = index[f] \/ index'[f] = Absent \/ (f \in S /\ index'[f] = yaml[f]),
         UNCHANGED <<ram, disk, linking, made, torn>>
  PROVE  RecordsInv'
<1>1. RecordsType /\ behind' = behind \cup (S \cap Pending) /\ Pending' = Pending
  BY DEF RecordsInv, ReadBehind, Pending
<1>2. Beside
  BY <1>1 DEF Beside, RecordsType
<1>3. FilesFiled'
  <2>1. ASSUME NEW g \in Files, g \notin behind', NEW row \in Rows(pending'), row.id = g
        PROVE  index'[g] \in {Absent, row.payload}
    BY <1>1, <2>1, PendingRows DEF RecordsInv, FilesFiled
  <2>2. ASSUME NEW g \in Files, g \notin behind', g \notin Pending' PROVE index'[g] \in {Absent, yaml'[g]}
    BY <1>1, <2>2 DEF RecordsInv, FilesFiled
  <2> QED
    BY <2>1, <2>2 DEF FilesFiled, Rows
<1> QED
  BY <1>1, <1>2, <1>3, MemoriesStay DEF RecordsType

LEMMA WritesFile ==
  ASSUME RecordsInv, write_file, UNCHANGED <<ram, disk, linking, made, torn>>
  PROVE  RecordsInv'
<1> DEFINE row == Head(pending)  f == row.id
<1>1. /\ pending # <<>> /\ f \in Files
      /\ IF row.payload = Absent THEN yaml' = yaml ELSE yaml' = [yaml EXCEPT ![f] = row.payload]
      /\ pending' = Tail(pending) /\ behind' = behind /\ index' = index
  BY DEF write_file
<1>2. RecordsType
  BY DEF RecordsInv
<1>3. /\ pending' \in Seq(QueueRow) /\ row \in QueueRow
      /\ Rows(pending) = {row} \cup Rows(pending')
  BY <1>1, <1>2, FirstTaken DEF RecordsType
<1> HIDE DEF row
<1>4. row.payload \in Entries
  BY <1>1, <1>3, RowParts
<1>5. Pending = {f} \cup Pending'
  <2>1. Pending' = {x.id : x \in Rows(pending')}
    BY DEF Pending, Rows
  <2> QED
    BY <1>3, <2>1, PendingRows
<1>6. Beside
  BY <1>1, <1>3, PendingAssumption DEF Beside
<1>7. index' \in [Files -> Entries] /\ yaml' \in [Files -> Entries]
  BY <1>1, <1>2, <1>4 DEF RecordsType
<1>8. FilesFiled'
  <2>1. ASSUME NEW g \in Files, g \notin behind', NEW x \in Rows(pending'), x.id = g
        PROVE  index'[g] \in {Absent, x.payload}
    BY <1>1, <1>3, <2>1 DEF RecordsInv, FilesFiled
  <2>2. ASSUME NEW g \in Files, g \notin behind', g \notin Pending' PROVE index'[g] \in {Absent, yaml'[g]}
    <3>1. CASE g = f
      <4>1. index[g] \in {Absent, row.payload}
        BY <1>1, <1>3, <2>2, <3>1 DEF RecordsInv, FilesFiled
      <4> QED
        BY <1>1, <1>2, <3>1, <4>1 DEF RecordsType
    <3>2. CASE g # f
      BY <1>1, <1>2, <1>5, <2>2, <3>2 DEF RecordsInv, FilesFiled, RecordsType
    <3> QED
      BY <3>1, <3>2
  <2> QED
    BY <2>1, <2>2 DEF FilesFiled, Rows
<1> QED
  BY <1>6, <1>7, <1>8, MemoriesStay

LEMMA Unmoved ==
  ASSUME RecordsInv,
         UNCHANGED <<pending, behind, ram, disk, linking, made, torn, index, yaml>>
  PROVE  RecordsInv'
BY DEF RecordsInv, RecordsType, MadeFirst, Fits, MemoriesFiled, FilesFiled, Agrees, Here, Rows, Pending,
       ParentsAcyclic, NothingDangles

LEMMA StatusesStored ==
  ASSUME NEW f \in Files
  PROVE  /\ \A r \in Uploaded(f) \cup extract(f) : r.st \in Entries
         /\ FileRecord("failed", FALSE).st \in Entries
BY DEF Uploaded, extract, FileRecord, FileStatuses, Entries

LEMMA FileRequest ==
  ASSUME RecordsInv, FileRequests, UNCHANGED memVars
  PROVE  RecordsInv'
<1>1. UNCHANGED <<ram, disk, linking, made, torn>> /\ RecordsType
  BY DEF memVars, RecordsInv
<1>2. ASSUME NEW f \in Files, NEW refused \in BOOLEAN, upload_files(f, refused) PROVE RecordsInv'
  <2>1. PICK r \in Uploaded(f) : Store(f, r)
    BY <1>2 DEF upload_files
  <2>2. /\ pending' = enqueue(pending, f, r.st) /\ index' = [index EXCEPT ![f] = r.st]
        /\ behind' = behind /\ yaml' = yaml /\ r.st \in Entries
    BY <1>2, <2>1, StatusesStored DEF Store, upload_files
  <2> QED
    BY <1>1, <2>2, Stored
<1>3. ASSUME NEW f \in Files, reextract(f) PROVE RecordsInv'
  <2>1. PICK r \in IF f \in resource THEN extract(f) ELSE {FileRecord("failed", FALSE)} : Store(f, r)
    BY <1>3 DEF reextract
  <2>2. /\ pending' = enqueue(pending, f, r.st) /\ index' = [index EXCEPT ![f] = r.st]
        /\ behind \subseteq behind' /\ yaml' = yaml /\ r.st \in Entries
    BY <1>3, <2>1, StatusesStored DEF Store, reextract, ReadBehind
  <2> QED
    BY <1>1, <2>2, Stored
<1>4. ASSUME NEW f \in Files, delete_file(f) PROVE RecordsInv'
  <2>1. /\ pending' = enqueue(pending, f, Absent) /\ index' = [index EXCEPT ![f] = Absent]
        /\ behind' = behind /\ yaml' = yaml /\ Absent \in Entries
    BY <1>4 DEF delete_file, Entries
  <2> QED
    BY <1>1, <2>1, Stored
<1>5. ASSUME NEW f \in Files, get_by_id(f) PROVE RecordsInv'
  <2>1. /\ index' = [index EXCEPT ![f] = yaml[f]] /\ ReadBehind({f})
        /\ pending' = pending /\ yaml' = yaml
    BY <1>5 DEF get_by_id
  <2>2. /\ index' \in [Files -> Entries]
        /\ \A g \in Files : index'[g] = index[g] \/ index'[g] = Absent \/ (g \in {f} /\ index'[g] = yaml[g])
    BY <1>1, <2>1 DEF RecordsType
  <2> QED
    BY <1>1, <2>1, <2>2, EntriesRead
<1>6. CASE list_files
  <2> DEFINE S == {f \in Files : yaml[f] # Absent}
  <2>1. index' = yaml /\ ReadBehind(S) /\ pending' = pending /\ yaml' = yaml
    BY <1>6 DEF list_files
  <2>2. /\ index' \in [Files -> Entries]
        /\ \A g \in Files : index'[g] = index[g] \/ index'[g] = Absent \/ (g \in S /\ index'[g] = yaml[g])
    BY <1>1, <2>1 DEF RecordsType
  <2>3. S \in SUBSET Files
    OBVIOUS
  <2> HIDE DEF S
  <2> QED
    BY <1>1, <2>1, <2>2, <2>3, EntriesRead
<1> QED
  BY <1>2, <1>3, <1>4, <1>5, <1>6 DEF FileRequests

LEMMA FileStep ==
  ASSUME RecordsInv, FilesNext, UNCHANGED memVars
  PROVE  RecordsInv'
<1>1. ASSUME NEW f \in Files, _transcribe_async(f) PROVE RecordsInv'
  BY <1>1, Unmoved DEF _transcribe_async, memVars
<1>2. CASE write_file
  BY <1>2, WritesFile DEF memVars
<1> QED
  BY <1>1, <1>2, FileRequest DEF FilesNext

LEMMA MemoryStep ==
  ASSUME RecordsInv, MemNext, UNCHANGED fileVars
  PROVE  RecordsInv'
<1>1. UNCHANGED <<index, yaml>>
  BY DEF fileVars
<1>2. 0 \in Titles /\ 1 \in Titles
  BY DEF Titles
<1>3. ASSUME NEW m \in Memories, NEW p \in Memories \cup {NoMemory}, NEW t \in Titles,
             memory_create(m, p) \/ memory_update(m, t, p) \/ memory_update_refused(m, t, p)
      PROVE  RecordsInv'
  BY <1>1, <1>3, MemoryCreated, Moves, Refuses
<1>4. ASSUME NEW m \in Memories, memory_update_title(m, 1) \/ memory_delete(m) \/ memory_delete_raises(m)
      PROVE  RecordsInv'
  BY <1>1, <1>2, <1>4, Retitles, Deletes, DeleteRaises
<1>5. ASSUME NEW m \in Memories, NEW x \in Memories,
             memory_unlink(m, x) \/ \E c \in Linkers : memory_link(c, m, x)
      PROVE  RecordsInv'
  BY <1>1, <1>5, Unlinks, Links
<1>6. ASSUME NEW c \in Linkers, link_added(c) PROVE RecordsInv'
  BY <1>1, <1>6, Added
<1>7. ASSUME list_memories \/ list_memories_full \/ write_memory PROVE RecordsInv'
  BY <1>1, <1>7, Lists, ListsInFull, WritesMemory
<1>8. CASE \E m \in Memories, p \in IF "parents" \in kinds THEN Memories \cup {NoMemory} ELSE {NoMemory} :
             memory_create(m, p)
  BY <1>2, <1>3, <1>8
<1>9. CASE \E m \in Memories, p \in Memories \cup {NoMemory}, t \in IF "titles" \in kinds THEN Titles ELSE {0} :
             memory_update(m, t, p) \/ memory_update_refused(m, t, p)
  BY <1>2, <1>3, <1>9
<1> QED
  BY <1>4, <1>5, <1>6, <1>7, <1>8, <1>9 DEF MemNext

LEMMA Restarted ==
  ASSUME RecordsInv, Restart
  PROVE  RecordsInv'
<1>1. /\ ram' = disk /\ disk' = disk /\ linking' = [c \in Linkers |-> NoLink] /\ torn' = {} /\ made' = made
      /\ index' = yaml /\ yaml' = yaml /\ pending' = pending /\ behind' = behind \cup Pending
  BY DEF Restart, memories_loaded, files_loaded
<1>2. RecordsType /\ Pending' = Pending /\ Rows(pending') = Rows(pending)
  BY <1>1 DEF RecordsInv, Pending
<1>3. RecordsType'
  BY <1>1, <1>2 DEF RecordsType, Content, Written
<1>4. MadeFirst'
  BY <1>1, <1>2 DEF RecordsInv, MadeFirst, Fits, Rows
<1>5. \A m \in Memories \ behind' : Agrees(m, disk[m])
  BY <1>1 DEF RecordsInv, MemoriesFiled
<1>6. MemoriesFiled'
  <2>1. \A m \in Memories \ behind' : \A row \in Rows(pending') : row.id # m
    BY <1>1, <1>2, PendingRows
  <2>2. \A m \in Memories \ behind' : Agrees(m, disk[m])'
    BY <1>1 DEF Agrees, Here
  <2> QED
    BY <2>1, <2>2 DEF MemoriesFiled, Rows
<1>7. FilesFiled'
  <2>1. \A f \in Files \ behind' : \A row \in Rows(pending') : row.id # f
    BY <1>1, <1>2, PendingRows
  <2>2. \A f \in Files \ behind' : index'[f] \in {Absent, yaml'[f]}
    BY <1>1
  <2> QED
    BY <2>1, <2>2 DEF FilesFiled, Rows
<1>8. ParentsAcyclic'
  <2>1. \A x \in Memories \ behind' : Here(x)' => Here(x) /\ ram'[x].parent = ram[x].parent
    BY <1>1, <1>5 DEF Agrees, Here
  <2> QED
    BY <1>1, <2>1, ParentsKept DEF RecordsInv
<1>9. NothingDangles'
  <2>1. \A x \in Memories : x \notin behind' /\ Here(x) => Here(x)'
    BY <1>1, <1>5 DEF Agrees, Here
  <2>2. \A x \in Memories \ behind' : Here(x)' => Here(x) /\ Refers(x)' = Refers(x)
    BY <1>1, <1>5 DEF Agrees, Here, Refers
  <2> QED
    BY <1>1, <1>2, <2>1, <2>2, StaysThere DEF RecordsInv
<1> QED
  BY <1>3, <1>4, <1>6, <1>7, <1>8, <1>9 DEF RecordsInv

-----------------------------------------------------------------------------
(* The theorems.                                                           *)

LEMMA RecordsInitInv == RecordsInit => RecordsInv
<1> SUFFICES ASSUME RecordsInit PROVE RecordsInv
  OBVIOUS
<1>1. /\ pending = <<>> /\ behind = {} /\ made = {}
      /\ ram = [m \in Memories |-> Absent] /\ disk = [m \in Memories |-> Absent]
      /\ linking = [c \in Linkers |-> NoLink]
      /\ index = [f \in Files |-> Absent] /\ yaml = [f \in Files |-> Absent]
  BY DEF RecordsInit, PendingInit, MemInit, FilesInit
<1>2. Rows(pending) = {} /\ \A m \in Memories : ~Here(m) /\ ~IsRecord(disk[m])
  BY <1>1, NotHere DEF Rows, Here
<1>3. RecordsType
  BY <1>1 DEF RecordsType, Content, Written, Entries
<1>4. MadeFirst /\ MemoriesFiled
  BY <1>1, <1>2 DEF MadeFirst, Fits, MemoriesFiled, Agrees, Here
<1>5. FilesFiled
  BY <1>1, <1>2 DEF FilesFiled
<1>6. ParentsAcyclic
  BY <1>2 DEF ParentsAcyclic
<1>7. NothingDangles
  BY <1>2 DEF NothingDangles
<1> QED
  BY <1>3, <1>4, <1>5, <1>6, <1>7 DEF RecordsInv

LEMMA RecordsNextInv == RecordsInv /\ [RecordsNext]_recordVars => RecordsInv'
<1> SUFFICES ASSUME RecordsInv, [RecordsNext]_recordVars PROVE RecordsInv'
  OBVIOUS
<1>1. CASE UNCHANGED recordVars
  BY <1>1, Unmoved DEF recordVars, memVars, fileVars
<1>2. CASE RecordsNext
  BY <1>2, MemoryStep, FileStep, Restarted DEF RecordsNext
<1> QED
  BY <1>1, <1>2

\* The inductive invariant: RAM, queue and files agree in what the requests rely on.
THEOREM RecordsInvariant == RecordsSpec => []RecordsInv
<1> QED
  BY RecordsInitInv, RecordsNextInv, PTL DEF RecordsSpec

\* MemoryService.update: a move refuses what would close a circle of parents, however the
\* memories of the circle were found.
THEOREM NoCircleOfParents == RecordsSpec => []ParentsAcyclic
<1>1. RecordsInv => ParentsAcyclic
  BY DEF RecordsInv
<1> QED
  BY <1>1, RecordsInvariant, PTL

\* delete_memory: whoever refers to a memory stops to, in RAM and, through the queue, in the files.
THEOREM NoReferenceDangles == RecordsSpec => []NothingDangles
<1>1. RecordsInv => NothingDangles
  BY DEF RecordsInv
<1> QED
  BY <1>1, RecordsInvariant, PTL

LEMMA SameRecord ==
  ASSUME NEW x \in MemoryRecord, NEW y \in MemoryRecord,
         x.parent = y.parent, x.links = y.links, x.title = y.title
  PROVE  x = y
BY DEF MemoryRecord

\* memory_store and file_store: a record that no write is pending for is in RAM as in its file.
THEOREM RecordsAreFiled == RecordsSpec => []RamIsFiled
<1>1. RecordsInv => RamIsFiled
  <2> SUFFICES ASSUME RecordsInv PROVE RamIsFiled
    OBVIOUS
  <2>1. RecordsType
    BY DEF RecordsInv
  <2>2. ASSUME NEW m \in Memories \ (Pending \cup behind \cup torn) PROVE ram[m] = disk[m] \/ ram[m] = Ghost
    <3>1. Agrees(m, disk[m]) /\ ram[m] \in Content /\ disk[m] \in Written
      BY <2>1, <2>2 DEF RecordsInv, MemoriesFiled, RecordsType
    <3>2. CASE IsRecord(disk[m])
      <4>1. ram[m] \in MemoryRecord /\ disk[m] \in MemoryRecord
        BY <3>1, <3>2 DEF Agrees, Here, IsRecord, Content, Written
      <4> QED
        BY <2>2, <3>1, <3>2, <4>1, SameRecord DEF Agrees
    <3>3. CASE ~IsRecord(disk[m])
      BY <3>1, <3>3, IsHere DEF Agrees, Here, IsRecord, Content, Written
    <3> QED
      BY <3>2, <3>3
  <2>3. \A f \in Files \ (Pending \cup behind) : index[f] # Absent => index[f] = yaml[f]
    BY DEF RecordsInv, FilesFiled
  <2> QED
    BY <2>2, <2>3 DEF RamIsFiled
<1> QED
  BY <1>1, RecordsInvariant, PTL
=============================================================================
