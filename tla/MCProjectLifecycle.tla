--------------------------- MODULE MCProjectLifecycle ---------------------------
(* Instances of ProjectLifecycle. *)
EXTENDS ProjectLifecycle

MCRequests == 1..3
MCCalls == {"k1", "k2"}
CallsOf == <<{"k1"}, MCCalls>>
Req(kind, p) == [kind |-> kind, p |-> p]
Story(configured, n, a, b, c) == [configured |-> configured, calls |-> IF n = 0 THEN {} ELSE CallsOf[n], requests |-> <<a, b, c>>]
MCScenarios ==
  {Story({"p"}, 2, Req("archive", "p"), Req("unarchive", "p"), Req("none", "p")),
   Story({"p"}, 1, Req("archive_tool", "p"), Req("unarchive_tool", "p"), Req("rebuild", "p")),
   Story({"p"}, 2, Req("enable", "p"), Req("disable", "p"), Req("none", "p")),
   Story({}, 1, Req("enable", "p"), Req("enable", "q"), Req("disable", "p")),
   Story({"p"}, 0, Req("disable", "p"), Req("archive", "p"), Req("enable", "p")),
   Story({"p"}, 1, Req("delete_plugin", "p"), Req("other", "p"), Req("enable_tool", "p")),
   Story({"p"}, 1, Req("delete", "p"), Req("archive", "p"), Req("enable", "q"))}
=================================================================================
