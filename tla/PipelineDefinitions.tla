--------------------------- MODULE PipelineDefinitions ---------------------------
(***************************************************************************)
(* AgentService and PipelineService: agents, pipelines, their steps and    *)
(* their event rules, as REST and the MCP server change them.              *)
(***************************************************************************)
EXTENDS Integers, FiniteSets, Sequences, SequencesExt, FiniteSetsExt

CONSTANTS Pipelines, StepIds, Agents, Requests, Events, Actions

\* An id is drawn once: StepIds bounds the steps ever made.
ASSUME DefinitionsAssumption == StepIds \subseteq Nat /\ IsFiniteSet(StepIds) /\ IsFiniteSet(Agents)

VARIABLES
  db,        \* [agents, pipelines, steps, rules, fresh]: ids are never used again
  requests,  \* request -> [kind, st, with]: what it has read stays with it
  thinned,   \* pipelines that a step was removed from, also while one was added
  moved      \* rules given another step by an update

defVars == <<db, requests, thinned, moved>>

(***************************************************************************)
(* The tables, with what SQLite checks of them.  A session reads outside   *)
(* of any transaction and locks the database from its first write to its   *)
(* commit: a request is its reads, one by one, and then its writes at      *)
(* once, or not at all.                                                    *)
(***************************************************************************)
NoStep == [pipeline |-> "none", agent |-> "none", index |-> -1]
Absent == "none"

\* Reading
StepsOf(d, p) == {s \in StepIds : d.steps[s] # NoStep /\ d.steps[s].pipeline = p}
Before(d, p, i) == {t \in StepsOf(d, p) : d.steps[t].index < i}
InOrder(d, p) ==
  [n \in 1..Cardinality(StepsOf(d, p)) |->
     CHOOSE s \in StepsOf(d, p) : Cardinality(Before(d, p, d.steps[s].index)) = n - 1]
RulesOf(d, p) == {u \in d.rules : u.pipeline = p}
Referring(d, gone) == {u \in d.rules : u.source \in gone \/ u.target \in gone}
Present(d) == {s \in StepIds : d.steps[s] # NoStep}

\* uq_pipeline_step_order
StepsUnique(d) ==
  \A s, t \in StepIds : s # t /\ d.steps[s] # NoStep /\ d.steps[s].pipeline = d.steps[t].pipeline => d.steps[s].index # d.steps[t].index

\* uq_pipeline_event_rule
Key(u) == <<u.pipeline, u.event, u.source>>
RulesUnique(d) == \A u, v \in d.rules : Key(u) = Key(v) => u = v

\* The foreign keys, which every connection switches on.
Referenced(d) ==
  /\ \A s \in StepIds : d.steps[s] # NoStep => d.steps[s].pipeline \in d.pipelines /\ d.agents[d.steps[s].agent] # Absent
  /\ \A u \in d.rules : u.pipeline \in d.pipelines /\ d.steps[u.source] # NoStep /\ d.steps[u.target] # NoStep

Accepted(d) == StepsUnique(d) /\ RulesUnique(d) /\ Referenced(d)

\* Writing
InsertStep(d, s, p, a, i) == [d EXCEPT !.steps[s] = [pipeline |-> p, agent |-> a, index |-> i], !.fresh = @ \ {s}]
\* Several steps, each with its agent and its index, at the ids that come next.
Nth(d, s) == Cardinality({t \in d.fresh : t <= s})
InsertSteps(d, p, new) ==
  LET ids == {s \in d.fresh : Nth(d, s) <= Len(new)}
      Step(s) == [pipeline |-> p, agent |-> new[Nth(d, s)].agent, index |-> new[Nth(d, s)].index]
  IN [d EXCEPT !.steps = [s \in StepIds |-> IF s \in ids THEN Step(s) ELSE d.steps[s]], !.fresh = @ \ ids]
DeleteSteps(d, gone) == [d EXCEPT !.steps = [s \in StepIds |-> IF s \in gone THEN NoStep ELSE d.steps[s]]]
DeletePipeline(d, p) ==
  [DeleteSteps(d, StepsOf(d, p)) EXCEPT !.pipelines = @ \ {p}, !.rules = @ \ RulesOf(d, p)]

(***************************************************************************)
(* Requests                                                                *)
(***************************************************************************)
Blank == [p |-> "none", agent |-> "none", list |-> <<>>, before |-> <<>>, seen |-> -1, rule |-> "none"]
New(r, kind) == requests[r].kind = kind /\ requests[r].st = "new"
Reading(r, kind) == requests[r].kind = kind /\ requests[r].st = "read"
Answers(r, answer) == requests' = [requests EXCEPT ![r].st = answer]
HasRead(r, found) == requests' = [requests EXCEPT ![r] = [@ EXCEPT !.st = "read", !.with = found]]

\* A statement that breaks a constraint undoes the request.
Commits(r, d) ==
  IF Accepted(d) THEN db' = d /\ Answers(r, "done") ELSE Answers(r, "failed") /\ UNCHANGED db

(***************************************************************************)
(* Agents                                                                  *)
(***************************************************************************)
create_agent(r) ==
  /\ New(r, "create_agent")
  /\ \E a \in Agents : db.agents[a] = Absent /\ Commits(r, [db EXCEPT !.agents[a] = "edited"])
  /\ UNCHANGED <<thinned, moved>>

update_agent(r) ==
  /\ New(r, "update_agent")
  /\ \E a \in Agents : db.agents[a] # Absent /\ Commits(r, [db EXCEPT !.agents[a] = "edited"])
  /\ UNCHANGED <<thinned, moved>>

\* The agent's steps would be left without one, which the table refuses.
delete_agent(r) ==
  /\ New(r, "delete_agent")
  /\ \E a \in Agents : db.agents[a] # Absent /\ Commits(r, [db EXCEPT !.agents[a] = Absent])
  /\ UNCHANGED <<thinned, moved>>

\* Looks for agents first: two of these may both find none, and both insert the defaults.
seed_agents_reads(r) ==
  /\ New(r, "seed_agents")
  /\ HasRead(r, [Blank EXCEPT !.seen = Cardinality({a \in Agents : db.agents[a] # Absent})])
  /\ UNCHANGED <<db, thinned, moved>>

\* One agent stands for the six defaults.
seed_agents(r) ==
  /\ Reading(r, "seed_agents")
  /\ IF requests[r].with.seen > 0 THEN Answers(r, "done") /\ UNCHANGED db
     ELSE \E a \in Agents : db.agents[a] = Absent /\ Commits(r, [db EXCEPT !.agents[a] = "default"])
  /\ UNCHANGED <<thinned, moved>>

(***************************************************************************)
(* Pipelines and steps                                                     *)
(***************************************************************************)
\* The order_index of the request is not used.
NextIndex(d, p) == IF StepsOf(d, p) = {} THEN 0 ELSE Max({d.steps[s].index : s \in StepsOf(d, p)}) + 1

\* A pipeline with a step, inserted before its largest index is looked for.
create_pipeline(r) ==
  /\ New(r, "create_pipeline")
  /\ \E p \in Pipelines \ db.pipelines, a \in Agents, s \in db.fresh :
       LET d == [db EXCEPT !.pipelines = @ \cup {p}]
       IN Commits(r, InsertStep(d, s, p, a, NextIndex(d, p))) /\ thinned' = thinned \ {p}
  /\ UNCHANGED moved

seed_pipelines_reads(r) ==
  /\ New(r, "seed_pipelines")
  /\ HasRead(r, [Blank EXCEPT !.seen = Cardinality(db.pipelines), !.list = SetToSeq({a \in Agents : db.agents[a] # Absent})])
  /\ UNCHANGED <<db, thinned, moved>>

\* A step for every agent found.
seed_pipelines(r) ==
  LET found == requests[r].with.list
  IN /\ Reading(r, "seed_pipelines")
     /\ Len(found) <= Cardinality(db.fresh)
     /\ IF requests[r].with.seen > 0 THEN Answers(r, "done") /\ UNCHANGED <<db, thinned>>
        ELSE \E p \in Pipelines \ db.pipelines :
               LET d == [db EXCEPT !.pipelines = @ \cup {p}]
                   steps == [i \in 1..Len(found) |-> [agent |-> found[i], index |-> i - 1]]
               IN Commits(r, InsertSteps(d, p, steps)) /\ thinned' = thinned \ {p}
     /\ UNCHANGED moved

\* Its steps, runs and rules go with it, but for a rule of another pipeline.
delete_pipeline(r) ==
  /\ New(r, "delete_pipeline")
  /\ \E p \in db.pipelines : Commits(r, DeletePipeline(db, p))
  /\ UNCHANGED <<thinned, moved>>

add_step_reads(r) ==
  /\ New(r, "add_step")
  /\ \E p \in Pipelines, a \in Agents : HasRead(r, [Blank EXCEPT !.p = p, !.agent = a, !.seen = NextIndex(db, p)])
  /\ UNCHANGED <<db, thinned, moved>>

add_step(r) ==
  LET found == requests[r].with
  IN /\ Reading(r, "add_step")
     /\ \E s \in db.fresh : Commits(r, InsertStep(db, s, found.p, found.agent, found.seen))
     /\ thinned' = IF found.seen # NextIndex(db, found.p) THEN thinned \cup {found.p} ELSE thinned
     /\ UNCHANGED moved

\* The step's runs go with it; the steps after it keep their indices.
remove_step(r) ==
  /\ New(r, "remove_step")
  /\ \E s \in Present(db) :
       LET d == DeleteSteps(db, {s})
       IN Commits(r, d) /\ thinned' = IF Accepted(d) THEN thinned \cup {db.steps[s].pipeline} ELSE thinned
  /\ UNCHANGED moved

\* The steps, one by one, with the indices they are to leave.
reorder_reads(r) ==
  /\ New(r, "reorder")
  /\ \E p \in db.pipelines : \E list \in SetToSeqs(StepsOf(db, p)) :
       HasRead(r, [Blank EXCEPT !.p = p, !.list = list, !.before = [s \in ToSet(list) |-> db.steps[s].index]])
  /\ UNCHANGED <<db, thinned, moved>>

\* A flush: an UPDATE for each step whose index has changed, by key; each is checked at once.
Changed(list, indices, before) == {s \in ToSet(list) : indices[s] # before[s]}
Update(d, changed, indices) ==
  [d EXCEPT !.steps = [s \in StepIds |-> IF s \in changed THEN [d.steps[s] EXCEPT !.index = indices[s]] ELSE d.steps[s]]]
Flushes(d, changed, indices) ==
  \A s \in changed : d.steps[s] # NoStep /\ StepsUnique(Update(d, {t \in changed : t <= s}, indices))

\* First past the end, then to their places.
At(list, i) == [s \in ToSet(list) |-> i + (CHOOSE k \in DOMAIN list : list[k] = s) - 1]
reorder_steps(r) ==
  LET found == requests[r].with
      end == At(found.list, Len(found.list))
      places == At(found.list, 0)
      first == Changed(found.list, end, found.before)
      parked == Update(db, first, end)
      second == Changed(found.list, places, end)
      placed == Update(parked, second, places)
  IN /\ Reading(r, "reorder")
     /\ IF Flushes(db, first, end) /\ Flushes(parked, second, places)
        THEN /\ Commits(r, placed)
             /\ thinned' = IF Accepted(placed) /\ StepsOf(placed, found.p) = ToSet(found.list) THEN thinned \ {found.p} ELSE thinned
        ELSE Answers(r, "failed") /\ UNCHANGED <<db, thinned>>
     /\ UNCHANGED moved

(***************************************************************************)
(* Event rules                                                             *)
(***************************************************************************)
Rule(p, event, source, target, action) ==
  [pipeline |-> p, event |-> event, source |-> source, target |-> target, action |-> action, enabled |-> TRUE]

\* Mutant: the target is not looked for among the pipeline's steps.
add_event_rule_reads_target(r) ==
  /\ New(r, "add_rule") \/ New(r, "add_rule_tool")
  /\ \E p \in db.pipelines, e \in Events, s, t \in Present(db), action \in Actions :
       /\ requests[r].kind = "add_rule" => action = "redirect"
       /\ IF s \in StepsOf(db, p) THEN HasRead(r, [Blank EXCEPT !.rule = Rule(p, e, s, t, action)])
          ELSE Answers(r, "failed")
  /\ UNCHANGED <<db, thinned, moved>>

\* REST leaves out the action of its request.
add_event_rule_reads(r) ==
  /\ New(r, "add_rule") \/ New(r, "add_rule_tool")
  /\ \E p \in db.pipelines, e \in Events, s, t \in Present(db), action \in Actions :
       /\ requests[r].kind = "add_rule" => action = "redirect"
       /\ IF {s, t} \subseteq StepsOf(db, p) THEN HasRead(r, [Blank EXCEPT !.rule = Rule(p, e, s, t, action)])
          ELSE Answers(r, "failed")
  /\ UNCHANGED <<db, thinned, moved>>

add_event_rule(r) ==
  LET u == requests[r].with.rule
  IN /\ requests[r].kind \in {"add_rule", "add_rule_tool"} /\ requests[r].st = "read"
     /\ IF \E v \in db.rules : Key(v) = Key(u) THEN Answers(r, "failed") /\ UNCHANGED db
        ELSE Commits(r, [db EXCEPT !.rules = @ \cup {u}])
     /\ UNCHANGED <<thinned, moved>>

remove_event_rule(r) ==
  /\ New(r, "remove_rule")
  /\ \E u \in db.rules : Commits(r, [db EXCEPT !.rules = @ \ {u}])
  /\ UNCHANGED <<thinned, moved>>

\* Nothing looks whose steps these are.
update_event_rule(r) ==
  /\ New(r, "update_rule")
  /\ \E u \in db.rules : \E v \in {[u EXCEPT !.enabled = ~ @]} \cup {[u EXCEPT !.target = t] : t \in StepIds} :
       LET d == [db EXCEPT !.rules = (@ \ {u}) \cup {v}]
       IN Commits(r, d) /\ moved' = IF Accepted(d) /\ (u \in moved \/ v.target # u.target) THEN moved \cup {v} ELSE moved
  /\ UNCHANGED thinned

DefinitionRequest ==
  \E r \in Requests :
    \/ create_agent(r) \/ update_agent(r) \/ delete_agent(r) \/ seed_agents_reads(r) \/ seed_agents(r)
    \/ create_pipeline(r) \/ seed_pipelines_reads(r) \/ seed_pipelines(r) \/ delete_pipeline(r)
    \/ add_step_reads(r) \/ add_step(r) \/ remove_step(r) \/ reorder_reads(r) \/ reorder_steps(r)
    \/ add_event_rule_reads(r) \/ add_event_rule(r) \/ remove_event_rule(r) \/ update_event_rule(r)
=================================================================================
