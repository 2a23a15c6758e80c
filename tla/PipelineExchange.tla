---------------------------- MODULE PipelineExchange ----------------------------
(***************************************************************************)
(* Export and import: a pipeline is written to a file with its steps,      *)
(* their agents and its event rules, and read from it again, over a        *)
(* pipeline of the same id or as a new one.                                *)
(***************************************************************************)
EXTENDS PipelineDefinitions

VARIABLE file   \* the last export: [p, steps, rules]

NoFile == [p |-> "none", steps |-> <<>>, rules |-> {}]
Position(list, s) == CHOOSE i \in DOMAIN list : list[i] = s

format_pipeline_step_export(d, s) ==
  [id |-> s, agent |-> d.steps[s].agent, content |-> d.agents[d.steps[s].agent], index |-> d.steps[s].index]
format_pipeline_export(d, p) ==
  LET list == InOrder(d, p)
  IN [p |-> p, steps |-> [i \in DOMAIN list |-> format_pipeline_step_export(d, list[i])], rules |-> RulesOf(d, p)]

\* One SELECT for the steps with their agents, another for the rules.
export_steps(r) ==
  /\ New(r, "export")
  /\ \E p \in db.pipelines : HasRead(r, [Blank EXCEPT !.p = p, !.list = format_pipeline_export(db, p).steps])
  /\ UNCHANGED <<db, thinned, moved, file>>

export_rules(r) ==
  LET found == requests[r].with
  IN /\ Reading(r, "export")
     /\ file' = [p |-> found.p, steps |-> found.list, rules |-> RulesOf(db, found.p)]
     /\ Answers(r, "done")
     /\ UNCHANGED <<db, thinned, moved>>

\* The user decides about a conflict that is shown to them; without one they decide nothing.
import_preview(r) ==
  /\ New(r, "import") /\ file # NoFile
  /\ \E choice \in IF file.p \in db.pipelines THEN {"overwrite", "skip"} ELSE {"skip"} :
       requests' = [requests EXCEPT ![r] = [@ EXCEPT !.st = "shown", !.with = [Blank EXCEPT !.p = file.p, !.list = file.steps, !.rule = file.rules, !.agent = choice]]]
  /\ UNCHANGED <<db, thinned, moved, file>>

\* Which agents of the file there are, and whether there is the pipeline.
import_confirm_reads(r) ==
  LET found == requests[r].with
  IN /\ requests[r].kind = "import" /\ requests[r].st = "shown"
     /\ IF found.p \in db.pipelines /\ found.agent # "overwrite" THEN Answers(r, "skipped")
        ELSE HasRead(r, [found EXCEPT !.before = [a \in Agents |-> db.agents[a] # Absent],
                                      !.seen = IF found.p \in db.pipelines THEN 1 ELSE 0])
     /\ UNCHANGED <<db, thinned, moved, file>>

\* Agents that were not there are made from the file, which fails if one is there by now.
_ensure_agent(d, found) ==
  LET missing == {i \in DOMAIN found.list : ~ found.before[found.list[i].agent]}
  IN [d EXCEPT !.agents = [a \in Agents |-> IF \E i \in missing : found.list[i].agent = a
                                            THEN (CHOOSE item \in ToSet(found.list) : item.agent = a).content ELSE @[a]]]
Clashes(found) == \E i \in DOMAIN found.list : LET a == found.list[i].agent IN ~ found.before[a] /\ db.agents[a] # Absent

\* New ids, the indices of the file.
_replace_steps(d, found) == InsertSteps(DeleteSteps(d, StepsOf(d, found.p)), found.p, found.list)

\* Mutant: the steps of a rule change places.
_import_event_rules_swapped(found) ==
  LET old == [i \in DOMAIN found.list |-> found.list[i].id]
      Renamed(s) == CHOOSE t \in db.fresh : Nth(db, t) = Position(old, s)
  IN {[u EXCEPT !.source = Renamed(u.target), !.target = Renamed(u.source)] : u \in {v \in found.rule : {v.source, v.target} \subseteq ToSet(old)}}

\* The steps of a rule are those at the same places; rules with other steps are left out.
_import_event_rules(found) ==
  LET old == [i \in DOMAIN found.list |-> found.list[i].id]
      Renamed(s) == CHOOSE t \in db.fresh : Nth(db, t) = Position(old, s)
  IN {[u EXCEPT !.source = Renamed(@), !.target = Renamed(@)] : u \in {v \in found.rule : {v.source, v.target} \subseteq ToSet(old)}}

\* A failed statement ends the transaction: the other items of the file fail too, and the commit.
\* Steps that a rule names cannot be deleted, and the rules would only be replaced after them.
import_confirm(r) ==
  LET found == requests[r].with
      named == _ensure_agent(IF found.seen = 0 THEN [db EXCEPT !.pipelines = @ \cup {found.p}] ELSE db, found)
      d == [_replace_steps(named, found) EXCEPT !.rules = @ \cup _import_event_rules(found)]
  IN /\ Reading(r, "import")
     /\ Len(found.list) <= Cardinality(db.fresh)
     /\ IF \/ Clashes(found)
           \/ found.seen = 0 /\ found.p \in db.pipelines
           \/ Referring(db, StepsOf(db, found.p)) # {}
        THEN Answers(r, "failed") /\ UNCHANGED <<db, thinned>>
        ELSE /\ Commits(r, d)
             /\ thinned' = IF ~ Accepted(d) THEN thinned
                           ELSE IF \E i \in DOMAIN found.list : found.list[i].index # i - 1 THEN thinned \cup {found.p} ELSE thinned \ {found.p}
     /\ UNCHANGED <<moved, file>>

\* The agents of the file, over those that are there or only beside them.
import_agents(r) ==
  /\ New(r, "import_agents") /\ file # NoFile
  /\ \E overwrite \in BOOLEAN :
       Commits(r, [db EXCEPT !.agents = [a \in Agents |->
         IF (\E item \in ToSet(file.steps) : item.agent = a) /\ (overwrite \/ @[a] = Absent)
         THEN (CHOOSE item \in ToSet(file.steps) : item.agent = a).content ELSE @[a]]])
  /\ UNCHANGED <<thinned, moved, file>>

ExchangeRequest ==
  \E r \in Requests : export_steps(r) \/ export_rules(r) \/ import_preview(r) \/ import_confirm_reads(r) \/ import_confirm(r) \/ import_agents(r)
=================================================================================
