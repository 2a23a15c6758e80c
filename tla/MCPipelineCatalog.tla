--------------------------- MODULE MCPipelineCatalog ---------------------------
(* Instances of PipelineCatalog. *)
EXTENDS PipelineCatalog

MCRequests == 1..3
MCSteps == 1..6
Step(p, a, i) == [pipeline |-> p, agent |-> a, index |-> i]
Db(content, pipelines, first, rules) ==
  [agents |-> content, pipelines |-> pipelines, rules |-> rules, fresh |-> MCSteps \ DOMAIN first,
   steps |-> [s \in MCSteps |-> IF s \in DOMAIN first THEN first[s] ELSE NoStep]]
Both == [a |-> "default", b |-> "edited"]
Back == Rule("p", "step_rejected", 2, 1, "redirect")
Done == Rule("p", "step_completed", 1, 2, "set_issue_status")

Plain == Db(Both, {"p", "q"}, <<Step("p", "a", 0), Step("p", "b", 1), Step("q", "b", 0)>>, {Back})
Turned == Db(Both, {"p"}, <<Step("p", "a", 2), Step("p", "b", 0), Step("p", "a", 1)>>, {})
Gap == Db(Both, {"p"}, <<Step("p", "a", 0), Step("p", "b", 2)>>, {Back, Done})
Nothing == Db([a |-> Absent, b |-> Absent], {}, <<>>, {})

Story(gaps, start, a, b, c) == [gaps |-> gaps, db |-> start, exported |-> FALSE, requests |-> <<a, b, c>>]
Exported(story) == [story EXCEPT !.exported = TRUE]
MCScenarios ==
  {Story(FALSE, Plain, "add_step", "add_rule", "remove_step"),
   Story(FALSE, Plain, "add_rule_tool", "update_rule", "remove_rule"),
   Story(FALSE, Plain, "add_step", "add_step", "add_rule"),
   Story(FALSE, Plain, "remove_rule", "remove_step", "reorder"),
   Story(FALSE, Plain, "delete_pipeline", "delete_agent", "add_step"),
   Story(FALSE, Plain, "export", "delete_pipeline", "import"),
   Story(FALSE, Turned, "reorder", "add_step", "reorder"),
   Story(FALSE, Turned, "export", "remove_step", "import"),
   Exported(Story(TRUE, Gap, "delete_pipeline", "delete_agent", "import")),
   Exported(Story(TRUE, Gap, "delete_pipeline", "import", "import")),
   Exported(Story(FALSE, Turned, "add_rule", "import", "import_agents")),
   Story(TRUE, Gap, "reorder", "add_step", "import_agents"),
   Story(FALSE, Nothing, "seed_agents", "seed_agents", "seed_pipelines"),
   Story(FALSE, Nothing, "create_agent", "create_pipeline", "seed_pipelines"),
   Story(FALSE, Plain, "export", "update_agent", "import_agents")}
=================================================================================
