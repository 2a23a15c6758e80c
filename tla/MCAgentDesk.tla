------------------------------ MODULE MCAgentDesk ------------------------------
(* Instances of AgentDesk. *)
EXTENDS AgentDesk

Asked(a, b, c) == [i \in 1..3 |-> <<a, b, c>>[i]]
Page(n, sockets, isShown, socket) == [mounts |-> n, feeds |-> sockets, shown |-> isShown, lost |-> socket]
Desk(asked, present) ==
  [calls |-> asked, sockets |-> present, questions |-> "done", news |-> {}, browsers |-> {}, token |-> "",
   notices |-> {Notice("none", {}, {})}, changes |-> {}, page |-> Page(0, {}, FALSE, NoSocket)]
Nothing == Desk(Asked("none", "none", "none"), {})
First == CHOOSE e \in Events : TRUE

\* One of those that say the same.
Told == {"agent_step_completed", "pipeline_paused", "pipeline_step_rejected", "queue_entry_removed", "terminal_created",
         "issue_finished", "task_updated", "memory_created", "memory_linked", "question_asked", "project_updated"}

MCCallers == 1..3
MCScenarios ==
  {Desk(Asked("ask", "ask", "ask"), {"w1"}),
   Desk(Asked("issue", "issue", "delete"), {"w1"}),
   Desk(Asked("issue", "delete", "delete"), {"w1", "w2"}),
   Desk(Asked("hermes", "manage", "manage"), {"w1"}),
   Desk(Asked("log", "issue", "delete"), {"w1"}),
   Desk(Asked("ask", "issue", "delete_project"), {"w1"}),
   Desk(Asked("step", "none", "none"), {"w1", "w2"}),
   Desk(Asked("step", "delete", "none"), {"w1"}),
   Desk(Asked("step", "issue", "delete_project"), {}),
   [Nothing EXCEPT !.questions = "new"],
   [Nothing EXCEPT !.news = Events, !.browsers = {"b1", "b2"}, !.token = "old"],
   [Nothing EXCEPT !.news = {First} \cup Changes, !.token = "old"],
   [Nothing EXCEPT !.news = {First} \cup Changes],
   [Nothing EXCEPT !.notices = {n \in Announcements : n.name \in Told}, !.changes = {First},
                   !.page = Page(1, {"b1"}, TRUE, NoSocket)],
   [Nothing EXCEPT !.notices = {n \in RunEvents : n.name = "pipeline_paused"}, !.changes = {First},
                   !.page = Page(2, {"b1", "b2"}, FALSE, NoSocket)],
   [Nothing EXCEPT !.notices = {n \in RunEvents : n.name = "pipeline_paused"}, !.changes = {First},
                   !.page = Page(1, {"b2", "b3"}, FALSE, "b1")],
   [Nothing EXCEPT !.notices = Mutations, !.changes = {First}, !.page = Page(0, {}, TRUE, NoSocket)],
   [Nothing EXCEPT !.notices = RunMutations, !.changes = Events, !.page = Page(0, {}, TRUE, NoSocket)]}
=================================================================================
