----------------------------- MODULE PluginClients -----------------------------
(***************************************************************************)
(* PluginClient: a connection to the process of an MCP plugin, made in the *)
(* background when the plugin is started and again by the calls that find  *)
(* it closed.  A client is named when it is made; the lock, the flags and  *)
(* the transport are those of the client, the connects that run on it are  *)
(* the background task's and the calls', and those who leave it handlers   *)
(* that disconnect it.                                                     *)
(***************************************************************************)
EXTENDS Naturals, FiniteSets

CONSTANTS Clients, Calls, Requests, None

ASSUME ClientsAssumption == Clients \cap Calls = {} /\ None \notin Clients \cup Calls

VARIABLES
  connected,     \* PluginClient._connected
  connect_done,  \* PluginClient._connect_done: whether it is set
  transport,     \* PluginClient._transport_ctx: whether there is one to leave
  connect_lock,  \* PluginClient._connect_lock: the call that holds it
  running,       \* client -> how many live processes it has started that nobody is ending
  pre_connect,   \* PluginClient._pre_connect_task: how far its connect has come
  gateway,       \* the client behind the tool "<plugin>__call"
  calls,         \* call of the gateway -> [st, on, conn]
  leaving,       \* request -> [c, at]: what it has yet to leave in _exit_transport
  torn,          \* clients disconnected while a connect was to run or ran on them, or connected meanwhile
  revived        \* clients connected by a call

clientVars == <<connected, connect_done, transport, connect_lock, running, pre_connect, gateway, calls, leaving, torn, revived>>

Owners == Clients \cup Calls
Remains == [c |-> None, at |-> "no"]
NoCall == [st |-> "idle", on |-> None, conn |-> "no"]

\* Some of the calls are made.
ClientsInit(made) ==
  /\ connected = [c \in Clients |-> FALSE] /\ connect_done = [c \in Clients |-> FALSE]
  /\ transport = [c \in Clients |-> FALSE]
  /\ connect_lock = [c \in Clients |-> None]
  /\ running = [c \in Clients |-> 0]
  /\ pre_connect = [c \in Clients |-> "new"]
  /\ gateway = None
  /\ calls = [k \in Calls |-> IF k \in made THEN NoCall ELSE [NoCall EXCEPT !.st = "ended"]]
  /\ leaving = [r \in Requests |-> Remains]
  /\ torn = {} /\ revived = {}

(***************************************************************************)
(* connect(), on behalf of the background task of a client or of a call    *)
(***************************************************************************)
On(o) == IF o \in Calls THEN calls[o].on ELSE o
Phase(o) == IF o \in Calls THEN calls[o].conn ELSE pre_connect[o]
Connects(c, phases) == {o \in {c} \cup {k \in Calls : calls[k].on = c} : Phase(o) \in phases}
Connecting(c) == Connects(c, {"spawn", "init"})
Leaves(c) == {r \in Requests : leaving[r].c = c}
Tears(c) == torn' = torn \cup (IF Connects(c, {"begin", "spawn", "init"}) # {} THEN {c} ELSE {})

Goes(o, phase) ==
  IF o \in Calls THEN calls' = [calls EXCEPT ![o].conn = phase] /\ UNCHANGED pre_connect
  ELSE pre_connect' = [pre_connect EXCEPT ![o] = phase] /\ UNCHANGED calls

\* The transport is there before its process is, and takes the place of one that is being left.
connect(o) ==
  LET c == On(o)
  IN /\ Phase(o) = "begin"
     /\ IF connected[c] THEN Goes(o, "ok") /\ UNCHANGED <<transport, torn>>
        ELSE /\ Goes(o, "spawn")
             /\ transport' = [transport EXCEPT ![c] = TRUE]
             /\ torn' = IF Leaves(c) # {} THEN torn \cup {c} ELSE torn
     /\ UNCHANGED <<connected, connect_done, connect_lock, running, gateway, leaving, revived>>

_connect_stdio(o) ==
  /\ Phase(o) = "spawn"
  /\ running' = [running EXCEPT ![On(o)] = @ + 1]
  /\ Goes(o, "init")
  /\ UNCHANGED <<connected, connect_done, transport, connect_lock, gateway, leaving, torn, revived>>

\* The handshake needs the streams of a living process.
_init_session(o) ==
  LET c == On(o)
  IN /\ Phase(o) = "init" /\ running[c] > 0
     /\ connected' = [connected EXCEPT ![c] = TRUE]
     /\ connect_done' = [connect_done EXCEPT ![c] = TRUE]
     /\ Goes(o, "ok")
     /\ UNCHANGED <<transport, connect_lock, running, gateway, leaving, torn, revived>>

\* Leaving the transport ends the process; a transport that is being entered is only dropped.
Left(c) == IF transport[c] /\ running[c] > 0 THEN running[c] - 1 ELSE running[c]

\* Any failure, and a call's connect that takes too long.
_cleanup_on_connect_failure(o) ==
  LET c == On(o)
  IN /\ Phase(o) \in {"spawn", "init"}
     /\ connected' = [connected EXCEPT ![c] = FALSE]
     /\ connect_done' = [connect_done EXCEPT ![c] = TRUE]
     /\ running' = [running EXCEPT ![c] = IF Phase(o) = "init" THEN Left(c) ELSE @]
     /\ transport' = [transport EXCEPT ![c] = FALSE]
     /\ Goes(o, "failed")
     /\ UNCHANGED <<connect_lock, gateway, leaving, torn, revived>>

\* Mutant: the process is left to itself.
disconnect_flag(r, c) ==
  /\ connected' = [connected EXCEPT ![c] = FALSE]
  /\ connect_done' = [connect_done EXCEPT ![c] = FALSE]
  /\ Tears(c)
  /\ UNCHANGED <<running, transport, leaving>>

\* disconnect() does not look at the connects that run.  Without a session there is the
\* transport only, and with neither nothing to wait for.
disconnect(r, c) ==
  /\ connected' = [connected EXCEPT ![c] = FALSE]
  /\ connect_done' = [connect_done EXCEPT ![c] = FALSE]
  /\ Tears(c)
  /\ leaving' = IF transport[c]
                 THEN [leaving EXCEPT ![r] = [c |-> c, at |-> IF Connects(c, {"spawn"}) # {} THEN "transport" ELSE "session"]]
                 ELSE leaving
  /\ UNCHANGED <<running, transport>>

\* The session has been left, and the transport that is there by now is.
_exit_session(r) ==
  LET c == leaving[r].c
  IN /\ leaving[r].at = "session"
     /\ running' = [running EXCEPT ![c] = IF Connects(c, {"spawn"}) # {} THEN @ ELSE Left(c)]
     /\ leaving' = [leaving EXCEPT ![r] = IF transport[c] THEN [@ EXCEPT !.at = "transport"] ELSE Remains]
     /\ UNCHANGED <<connected, connect_done, transport, connect_lock, pre_connect, gateway, calls, torn, revived>>

\* The transport has been left, and the one that is there by now is forgotten.
_exit_transport(r) ==
  /\ leaving[r].at = "transport"
  /\ transport' = [transport EXCEPT ![leaving[r].c] = FALSE]
  /\ leaving' = [leaving EXCEPT ![r] = Remains]
  /\ UNCHANGED <<connected, connect_done, connect_lock, running, pre_connect, gateway, calls, torn, revived>>

\* The process ends; nobody is told.
Dies(c) ==
  /\ running[c] > 0
  /\ running' = [running EXCEPT ![c] = @ - 1]
  /\ UNCHANGED <<connected, connect_done, transport, connect_lock, pre_connect, gateway, calls, leaving, torn, revived>>

(***************************************************************************)
(* A call of the gateway                                                   *)
(***************************************************************************)
At(k, st) == calls' = [calls EXCEPT ![k].st = st]
Ends(k) == calls' = [calls EXCEPT ![k] = [NoCall EXCEPT !.st = "ended"]]

_gateway(k) ==
  /\ calls[k].st = "idle" /\ gateway # None
  /\ calls' = [calls EXCEPT ![k] = [@ EXCEPT !.on = gateway,
                                             !.st = IF connected[gateway] THEN "calling" ELSE "waiting"]]
  /\ UNCHANGED <<connected, connect_done, transport, connect_lock, running, pre_connect, gateway, leaving, torn, revived>>

\* Mutant: the background connect is not looked at.
ensure_connected_eager(k) ==
  LET c == calls[k].on
  IN /\ calls[k].st = "waiting"
     /\ IF connected[c] THEN At(k, "calling") ELSE At(k, "locking")
     /\ UNCHANGED <<connected, connect_done, transport, connect_lock, running, pre_connect, gateway, leaving, torn, revived>>

\* The event is set, or the wait for it takes too long (wait_for).
ensure_connected(k) ==
  LET c == calls[k].on
  IN /\ calls[k].st = "waiting"
     /\ IF connected[c] THEN At(k, "calling")
        ELSE IF Phase(c) \in {"begin", "spawn", "init"} THEN Ends(k)
        ELSE At(k, "locking")
     /\ UNCHANGED <<connected, connect_done, transport, connect_lock, running, pre_connect, gateway, leaving, torn, revived>>

connect_locked(k) ==
  LET c == calls[k].on
  IN /\ calls[k].st = "locking" /\ connect_lock[c] = None
     /\ IF connected[c] THEN At(k, "calling") /\ UNCHANGED <<connect_lock, revived>>
        ELSE /\ calls' = [calls EXCEPT ![k] = [@ EXCEPT !.st = "connecting", !.conn = "begin"]]
             /\ connect_lock' = [connect_lock EXCEPT ![c] = k]
             /\ revived' = revived \cup {c}
     /\ UNCHANGED <<connected, connect_done, transport, running, pre_connect, gateway, leaving, torn>>

\* Mutant: the lock is left on success only.
connect_ended_locked(k) ==
  LET c == calls[k].on
  IN /\ calls[k].st = "connecting" /\ calls[k].conn \in {"ok", "failed"}
     /\ connect_lock' = IF calls[k].conn = "ok" THEN [connect_lock EXCEPT ![c] = None] ELSE connect_lock
     /\ IF calls[k].conn = "ok" THEN calls' = [calls EXCEPT ![k] = [@ EXCEPT !.st = "calling", !.conn = "no"]] ELSE Ends(k)
     /\ UNCHANGED <<connected, connect_done, transport, running, pre_connect, gateway, leaving, torn, revived>>

\* The lock is left on success and on failure.
connect_ended(k) ==
  LET c == calls[k].on
  IN /\ calls[k].st = "connecting" /\ calls[k].conn \in {"ok", "failed"}
     /\ connect_lock' = [connect_lock EXCEPT ![c] = None]
     /\ IF calls[k].conn = "ok" THEN calls' = [calls EXCEPT ![k] = [@ EXCEPT !.st = "calling", !.conn = "no"]] ELSE Ends(k)
     /\ UNCHANGED <<connected, connect_done, transport, running, pre_connect, gateway, leaving, torn, revived>>

\* A result, a time-out, or the discovery that the process has gone.
call_tool(k) ==
  LET c == calls[k].on
  IN /\ calls[k].st = "calling"
     /\ Ends(k)
     /\ connected' = [connected EXCEPT ![c] = @ /\ running[c] > 0]
     /\ UNCHANGED <<connect_done, transport, connect_lock, running, pre_connect, gateway, leaving, torn, revived>>

ConnectStep(o) == connect(o) \/ _connect_stdio(o) \/ _init_session(o) \/ _cleanup_on_connect_failure(o)
CallStep(k) == ensure_connected(k) \/ connect_locked(k) \/ connect_ended(k) \/ call_tool(k)
LeaveStep(r) == _exit_session(r) \/ _exit_transport(r)
=================================================================================
