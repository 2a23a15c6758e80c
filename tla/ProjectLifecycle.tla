---------------------------- MODULE ProjectLifecycle ----------------------------
(***************************************************************************)
(* The projects and their plugins: a project is archived and unarchived,   *)
(* deleted and reloaded, which starts and stops its plugins and loads and  *)
(* unloads its records, while plugins are enabled, disabled and called.    *)
(***************************************************************************)
EXTENDS Plugins

CONSTANT Scenarios   \* [configured, calls, requests]: bound on what a behaviour does

ASSUME ScenariosAssumption ==
  \A s \in Scenarios, r \in Requests : s.requests[r].kind \in STRING /\ s.requests[r].p \in Projects

VARIABLES
  projects,      \* the row: "active", "archived" or "deleted"
  loaded         \* projects whose records are in RAM

vars == <<clientVars, managerVars, projects, loaded>>

\* The server has started with some projects active.
Init ==
  \E s \in Scenarios :
    /\ ClientsInit(s.calls)
    /\ state = [p \in Projects |-> None]
    /\ yaml = [p \in Projects |-> IF p \in s.configured THEN [plugin |-> "enabled", other |-> "disabled"] ELSE NoEntry]
    /\ requests = [r \in Requests |-> [kind |-> s.requests[r].kind, p |-> s.requests[r].p, st |-> "new", c |-> None, file |-> NoEntry]]
    /\ replaced = {}
    /\ projects = [p \in Projects |-> "active"]
    /\ loaded = Projects

\* _startup_plugins
Startup(p) ==
  /\ \A r \in Requests : requests[r].st = "new"
  /\ yaml[p].plugin = "enabled" /\ state[p] = None
  /\ start_plugins_for_project(p, TRUE)
  /\ UNCHANGED <<yaml, requests, projects, loaded>>

Archives(r) == requests[r].kind \in {"archive", "archive_tool"}
Unarchives(r) == requests[r].kind \in {"unarchive", "unarchive_tool"}

\* Refused for a project that is not there.
Commits(r, status) ==
  LET p == requests[r].p
  IN /\ requests[r].st = "new"
     /\ IF projects[p] = "deleted" THEN Answers(r) /\ UNCHANGED projects
        ELSE /\ projects' = [projects EXCEPT ![p] = status]
             /\ Awaits(r, "committed", None)
     /\ UNCHANGED <<clientVars, state, yaml, replaced, loaded>>

archive_project(r) == Archives(r) /\ Commits(r, "archived")
unarchive_project(r) == Unarchives(r) /\ Commits(r, "active")

\* The store, the plugins and the queue keep what they have of a deleted project.
delete_project(r) ==
  /\ Was(r, "delete", "new")
  /\ projects' = [projects EXCEPT ![requests[r].p] = "deleted"]
  /\ Answers(r)
  /\ UNCHANGED <<clientVars, state, yaml, replaced, loaded>>

archive_stops(r) ==
  /\ Archives(r) /\ requests[r].st = "committed"
  /\ stop_plugins_for_project(r, requests[r].p)
  /\ requests' = [Detached(requests[r].p) EXCEPT ![r].st = "stopping"]
  /\ UNCHANGED <<yaml, projects, loaded>>

archive_unloads(r) ==
  /\ Archives(r) /\ requests[r].st = "stopping" /\ leaving[r] = Remains
  /\ loaded' = loaded \ {requests[r].p}
  /\ Answers(r)
  /\ UNCHANGED <<clientVars, state, yaml, replaced, projects>>

unarchive_loads(r) ==
  LET p == requests[r].p
  IN /\ Unarchives(r) /\ requests[r].st = "committed"
     /\ loaded' = loaded \cup {p}
     /\ start_plugins_for_project(p, requests[r].kind = "unarchive")
     /\ Answers(r)
     /\ UNCHANGED <<yaml, projects>>

\* The row is looked at before the reload, with nothing awaited in between.
rebuild_index(r) ==
  LET p == requests[r].p
  IN /\ Was(r, "rebuild", "new")
     /\ loaded' = IF projects[p] = "active" THEN loaded \cup {p} ELSE loaded
     /\ Answers(r)
     /\ UNCHANGED <<clientVars, state, yaml, replaced, projects>>

ProjectRequest ==
  \/ \E p \in Projects : Startup(p)
  \/ \E r \in Requests :
       \/ archive_project(r) \/ archive_stops(r) \/ archive_unloads(r)
       \/ unarchive_project(r) \/ unarchive_loads(r)
       \/ delete_project(r) \/ rebuild_index(r)

Next ==
  \/ ProjectRequest
  \/ (PluginRequest \/ ClientsNext) /\ UNCHANGED <<projects, loaded>>

Spec == Init /\ [][Next]_vars

\* The connects, waits and calls of a call are bounded by time-outs, the background connect is not;
\* a lock that is left goes to a waiter.
LiveSpec ==
  /\ Spec
  /\ \A k \in Calls : WF_vars(ConnectStep(k) /\ UNCHANGED <<managerVars, projects, loaded>>)
  /\ \A k \in Calls : SF_vars(CallStep(k) /\ UNCHANGED <<managerVars, projects, loaded>>)

(***************************************************************************)
(* Properties                                                              *)
(***************************************************************************)
\* Two connects never run on one client, and a client that is neither disconnected while it
\* connects nor connected while a handler leaves it has one process at most: the background
\* connect, the calls that wait and a lost process exclude each other.
OneConnection ==
  \A c \in Clients : Cardinality(Connecting(c)) <= 1 /\ (c \notin torn => running[c] <= 1)

\* A process belongs to a plugin that a project has, or a handler is about to end it, unless it
\* was disconnected while it connected, connected again by a call, or lost its place to another
\* client.
NoOrphans ==
  \A c \in Clients :
    running[c] > 0 => c \in torn \cup revived \cup replaced \/ Leaves(c) # {} \/ \E p \in Projects : state[p] = c

\* A call of a plugin is answered.
CallsReturn == \A k \in Calls : calls[k].st # "idle" ~> calls[k].st = "ended"
=================================================================================
