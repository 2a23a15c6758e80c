----------------------------- MODULE PipelineCatalog -----------------------------
(***************************************************************************)
(* Agents, pipelines and event rules: changed, exported and imported by    *)
(* requests that overlap, and used by the runs.                            *)
(***************************************************************************)
EXTENDS PipelineExchange

CONSTANTS Statuses, NoTarget, Scenarios

\* The answer "no target" is no index.
ASSUME TargetAssumption == NoTarget \notin Nat

VARIABLES
  row,       \* the issue's row in the table that the issues' files replaced: a status, or none
  announced  \* whether an event of a rule was sent

(***************************************************************************)
(* The event engine: what the event rules of a pipeline do when a step of  *)
(* a run ends, and where a rejected step sends the run.                    *)
(***************************************************************************)
Matching(p, event, source) == {u \in db.rules : u.pipeline = p /\ u.event = event /\ u.enabled /\ u.source = source}

\* Without the row nothing is set: the issue itself is in its file.
_action_set_issue_status(status) == row' = IF row = Absent THEN row ELSE status

\* An action that is not registered, as "redirect" is not, is skipped.
fire_event(p, event, source) ==
  LET rules == Matching(p, event, source)
  IN /\ IF \E u \in rules : u.action = "set_issue_status" THEN \E status \in Statuses : _action_set_issue_status(status)
        ELSE UNCHANGED row
     /\ announced' = (announced \/ \E u \in rules : u.action = "emit_event")

\* A step of a run ends; a run's steps are the pipeline's.
fire_pipeline_event ==
  /\ \E p \in db.pipelines, event \in Events : \E s \in StepsOf(db, p) : fire_event(p, event, s)
  /\ UNCHANGED <<defVars, file>>

\* The rule of the rejected step names the target; what is handed on is its index.
get_event_rule_for_step(p, s) == Matching(p, "step_rejected", s)
resolve_rejection_target(p, s) ==
  LET rules == get_event_rule_for_step(p, s)
  IN IF rules = {} THEN NoTarget
     ELSE LET t == (CHOOSE u \in rules : TRUE).target
          IN IF t \in StepsOf(db, p) THEN db.steps[t].index ELSE NoTarget

\* Mutant: a step may be sent back to itself.
reject_step_here(p, index, current) ==
  LET list == InOrder(db, p)
  IN IF index # NoTarget /\ index <= current /\ index + 1 \in DOMAIN list THEN list[index + 1] ELSE NoTarget

\* reject_step goes nowhere but back, and takes the index for a place among the steps.
reject_step(p, index, current) ==
  LET list == InOrder(db, p)
  IN IF index # NoTarget /\ index < current /\ index + 1 \in DOMAIN list THEN list[index + 1] ELSE NoTarget

\* A run has a row for every step of its pipeline and, for each time it was sent back, one more
\* for the step it was sent back to (again).  They are sorted by the indices of their steps.
RowsBefore(p, again, s) ==
  LET before == Before(db, p, db.steps[s].index)
  IN Cardinality(before) + Cardinality({k \in DOMAIN again : again[k] \in before})

\* The tool takes the run's current place among the steps for one among the rows.
RowAt(p, again, current) ==
  CHOOSE s \in StepsOf(db, p) :
    /\ RowsBefore(p, again, s) <= current
    /\ \A t \in StepsOf(db, p) : RowsBefore(p, again, t) <= current => db.steps[t].index <= db.steps[s].index

\* Where a rejection without a target of its own sends the run: a step, or it is refused.
finished_pipeline_step(p, again, current) ==
  reject_step(p, resolve_rejection_target(p, RowAt(p, again, current)), current)

(***************************************************************************)
(* The tables at the start                                                 *)
(***************************************************************************)
Contents == {Absent, "default", "edited"}
StepRows == [pipeline : Pipelines, agent : Agents, index : Nat]
RuleRows == [pipeline : Pipelines, event : Events, source : StepIds, target : StepIds, action : Actions, enabled : BOOLEAN]
Tables ==
  [agents : [Agents -> Contents], pipelines : SUBSET Pipelines, steps : [StepIds -> {NoStep} \cup StepRows],
   rules : SUBSET RuleRows, fresh : SUBSET StepIds]

\* Ids that are left name no step, and the step that an event rule starts from is one of its pipeline.
Sound(d) ==
  /\ d \in Tables /\ Accepted(d)
  /\ \A s \in d.fresh : d.steps[s] = NoStep
  /\ \A u \in d.rules : u.source \in StepsOf(d, u.pipeline)
TargetsOwn(d, others) == \A u \in d.rules \ others : u.target \in StepsOf(d, u.pipeline)

\* The indices of a pipeline's steps begin with 0 and leave nothing out.
GapFree(d, p) ==
  \A s \in StepsOf(d, p) : \A k \in 0..(d.steps[s].index - 1) : \E t \in StepsOf(d, p) : d.steps[t].index = k

\* Where an instance starts: tables as the requests leave them, with or without gaps.
ASSUME ScenariosAssumption ==
  \A s \in Scenarios :
    /\ Sound(s.db) /\ TargetsOwn(s.db, {})
    /\ s.gaps \/ \A p \in Pipelines : GapFree(s.db, p)
    /\ s.exported => "p" \in s.db.pipelines

(***************************************************************************)
(* All together                                                            *)
(***************************************************************************)
vars == <<defVars, file, row, announced>>

Init ==
  \E s \in Scenarios :
    /\ db = s.db
    /\ requests = [r \in Requests |-> [kind |-> s.requests[r], st |-> "new", with |-> Blank]]
    /\ thinned = {p \in s.db.pipelines : s.gaps}
    /\ moved = {} /\ file = IF s.exported THEN format_pipeline_export(s.db, "p") ELSE NoFile
    /\ row \in {Absent} \cup Statuses /\ announced = FALSE

Next ==
  \/ DefinitionRequest /\ UNCHANGED <<file, row, announced>>
  \/ ExchangeRequest /\ UNCHANGED <<row, announced>>
  \/ fire_pipeline_event

Spec == Init /\ [][Next]_vars

(***************************************************************************)
(* Properties                                                              *)
(***************************************************************************)

\* The steps of an event rule are steps of its pipeline, whatever requests overlap, unless an
\* update has given the rule another one (update_event_rule); no step has two rules for an event.
RulesStay ==
  /\ \A u \in db.rules \ moved : {u.source, u.target} \subseteq StepsOf(db, u.pipeline)
  /\ \A p \in db.pipelines, s \in StepIds : Cardinality(get_event_rule_for_step(p, s)) <= 1

\* The step that a run of p executes is the one at the run's current place.
StepPlace(p, s) == Cardinality(Before(db, p, db.steps[s].index))

\* Where the rule u sends a run, or that it does not.
SentBack(p, u, again) ==
  LET current == StepPlace(p, u.source)
      target  == StepPlace(p, u.target)
      to      == finished_pipeline_step(p, again, current)
  IN /\ to = NoTarget \/ (target <= StepPlace(p, to) /\ StepPlace(p, to) < current)
     /\ p \notin thinned => to = IF target < current THEN u.target ELSE NoTarget

\* A step whose rule names a step before it sends the run there, and with any other rule its
\* rejection is refused.  A pipeline that a step was removed from, or added to meanwhile, since its
\* steps were last put in order has indices that are no places: there the run may also be refused,
\* or stop short of the target, but never goes back behind it.  All that while no step before the
\* rejected one was repeated: after that the tool looks for the rule of another step.
RejectedToTarget ==
  \A p \in db.pipelines : \A u \in RulesOf(db, p) \ moved, n \in 0..2 : \A again \in [1..n -> StepsOf(db, p)] :
    /\ u.event = "step_rejected" /\ u.enabled
    /\ \A k \in 1..n : StepPlace(p, again[k]) >= StepPlace(p, u.source)
    => SentBack(p, u, again)

Shape(d, p) ==
  LET list == InOrder(d, p)
  IN [agents |-> [i \in DOMAIN list |-> d.steps[list[i]].agent],
      rules |-> {<<u.event, u.action, u.enabled, Position(list, u.source), Position(list, u.target)>> :
                 u \in {v \in RulesOf(d, p) : {v.source, v.target} \subseteq ToSet(list)}}]
FileShape(f) ==
  LET list == [i \in DOMAIN f.list |-> f.list[i].id]
  IN [agents |-> [i \in DOMAIN list |-> f.list[i].agent],
      rules |-> {<<u.event, u.action, u.enabled, Position(list, u.source), Position(list, u.target)>> :
                 u \in {v \in f.rule : {v.source, v.target} \subseteq ToSet(list)}}]

\* An imported pipeline has the agents of the file in their order, and its rules between the
\* same steps, whatever has happened to the pipeline and its agents since the export.
ImportedIsShaped ==
  \A r \in Requests :
    Reading(r, "import") /\ requests'[r].st = "done" => Shape(db', requests[r].with.p) = FileShape(requests[r].with)
ImportRestores == [][ImportedIsShaped]_vars
=================================================================================
