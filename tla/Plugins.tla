-------------------------------- MODULE Plugins --------------------------------
(***************************************************************************)
(* PluginManager and plugins.yaml: which projects have which plugin.  One  *)
(* plugin is modelled in full, and the entry of another one in the file.   *)
(***************************************************************************)
EXTENDS PluginClients

CONSTANT Projects

VARIABLES
  state,         \* PluginManager._state: project -> its client of the plugin
  yaml,          \* plugins.yaml: project -> [plugin, other]
  requests,      \* request -> [kind, p, st, c, file]
  replaced       \* clients whose place in _state another one took

managerVars == <<state, yaml, requests, replaced>>
NoEntry == [plugin |-> "none", other |-> "none"]

\* The handlers end in an answer; what they found before an await stays with them.
Was(r, kind, st) == requests[r].kind = kind /\ requests[r].st = st
Answers(r) == requests' = [requests EXCEPT ![r].st = "done"]
Awaits(r, st, c) == requests' = [requests EXCEPT ![r] = [@ EXCEPT !.st = st, !.c = c]]

Unused == {c \in Clients : pre_connect[c] = "new"}

\* FastMCP keeps the first tool of a name: a later client of the plugin is not behind the gateway.
register_plugin_gateway(c) == gateway' = IF gateway = None THEN c ELSE gateway

\* The client takes its place, the gateway is registered and the connect starts in the background.
_start_one(p, c) ==
  /\ c \in Unused
  /\ state' = [state EXCEPT ![p] = c]
  /\ replaced' = replaced \cup ({state[p]} \ {None})
  /\ register_plugin_gateway(c)
  /\ pre_connect' = [pre_connect EXCEPT ![c] = "begin"]
  /\ UNCHANGED <<connected, connect_done, transport, connect_lock, running, calls, leaving, torn, revived>>

\* Without a server to register with, the place is given up again.
_start_failed(p) ==
  /\ state' = [state EXCEPT ![p] = None]
  /\ replaced' = replaced \cup ({state[p]} \ {None})
  /\ UNCHANGED clientVars

\* The plugins that plugins.yaml enables, but for those that run.
start_plugins_for_project(p, mcp) ==
  IF yaml[p].plugin # "enabled" \/ state[p] # None THEN UNCHANGED <<clientVars, state, replaced>>
  ELSE IF mcp THEN \E c \in Unused : _start_one(p, c) ELSE _start_failed(p)

\* The project's places are taken away, also from the handlers that wait to give one up.
Detached(p) == [r \in Requests |-> IF requests[r].p = p /\ requests[r].st = "disconnecting" THEN [requests[r] EXCEPT !.c = None] ELSE requests[r]]

stop_plugins_for_project(r, p) ==
  /\ state' = [state EXCEPT ![p] = None]
  /\ IF state[p] = None THEN UNCHANGED clientVars
     ELSE disconnect(r, state[p]) /\ UNCHANGED <<connect_lock, pre_connect, gateway, calls, revived>>
  /\ UNCHANGED replaced

set_plugin_config(p, enabled) == yaml' = [yaml EXCEPT ![p].plugin = IF enabled THEN "enabled" ELSE "disabled"]

\* A running plugin is not stopped first.
enable_plugin(r) ==
  LET p == requests[r].p
  IN /\ Was(r, "enable", "new")
     /\ set_plugin_config(p, TRUE)
     /\ \E c \in Unused : _start_one(p, c)
     /\ Answers(r)

\* The tool of the MCP server passes no server.
enable_plugin_tool(r) ==
  LET p == requests[r].p
  IN /\ Was(r, "enable_tool", "new")
     /\ set_plugin_config(p, TRUE)
     /\ _start_failed(p)
     /\ Answers(r)

\* DELETE writes back the file it has read at its start.
Unset(r, file) ==
  LET p == requests[r].p
  IN yaml' = [yaml EXCEPT ![p] = IF requests[r].kind = "delete_plugin" THEN [file EXCEPT !.plugin = "none"]
                                 ELSE [@ EXCEPT !.plugin = "disabled"]]

\* unregister_plugin_tools looks for names that are never registered: the gateway stays.
disable_plugin(r) ==
  LET p == requests[r].p
  IN /\ Was(r, "disable", "new") \/ Was(r, "delete_plugin", "new")
     /\ IF yaml[p].plugin = "none" THEN Answers(r) /\ UNCHANGED <<yaml, clientVars>>
        ELSE IF state[p] = None THEN Answers(r) /\ Unset(r, yaml[p]) /\ UNCHANGED clientVars
        ELSE /\ set_plugin_config(p, FALSE)
             /\ requests' = [requests EXCEPT ![r] = [@ EXCEPT !.st = "disconnecting", !.c = state[p], !.file = yaml[p]]]
             /\ disconnect(r, state[p]) /\ UNCHANGED <<connect_lock, pre_connect, gateway, calls, revived>>
     /\ UNCHANGED <<state, replaced>>

\* The place is given up, whoever has it now, unless the project's plugins have been stopped.
disabled(r) ==
  LET p == requests[r].p
  IN /\ requests[r].st = "disconnecting" /\ leaving[r] = Remains
     /\ IF requests[r].c = None THEN UNCHANGED <<state, replaced>>
        ELSE /\ state' = [state EXCEPT ![p] = None]
             /\ replaced' = replaced \cup ({state[p]} \ {requests[r].c, None})
     /\ IF requests[r].kind = "delete_plugin" THEN Unset(r, requests[r].file) ELSE UNCHANGED yaml
     /\ Answers(r)
     /\ UNCHANGED clientVars

\* PUT for the other plugin of the file.
upsert_other(r) ==
  /\ Was(r, "other", "new")
  /\ yaml' = [yaml EXCEPT ![requests[r].p].other = "enabled"]
  /\ Answers(r)
  /\ UNCHANGED <<state, replaced, clientVars>>

PluginRequest ==
  \E r \in Requests : enable_plugin(r) \/ enable_plugin_tool(r) \/ disable_plugin(r) \/ disabled(r) \/ upsert_other(r)

ClientsNext ==
  /\ \/ \E o \in Owners : ConnectStep(o)
     \/ \E k \in Calls : _gateway(k) \/ CallStep(k)
     \/ \E r \in Requests : LeaveStep(r)
     \/ \E c \in Clients : Dies(c)
  /\ UNCHANGED managerVars
=================================================================================
