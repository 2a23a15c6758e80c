------------------------------- MODULE Terminals -------------------------------
(***************************************************************************)
(* The requests for terminals: POST /api/terminals and its variants, the   *)
(* deletion of a terminal and of the project, and the terminals of the     *)
(* steps of a pipeline.  A request runs up to its next await in one step.  *)
(***************************************************************************)
EXTENDS TerminalSessions

CONSTANT Callers

VARIABLES
  calls,         \* caller -> [kind, st, todo, t]: its request
  wiped,         \* terminals killed with their project
  crossed        \* kinds of terminals that two overlapping requests asked for

callVars == <<calls, wiped, crossed>>
termVars == <<registryVars, sessionVars, callVars>>
NoCall == [kind |-> "none", st |-> "none", todo |-> {}, t |-> None]

CallsInit(asked) ==
  /\ calls = [c \in Callers |-> IF asked[c] = "none" THEN NoCall ELSE [NoCall EXCEPT !.kind = asked[c], !.st = "new"]]
  /\ wiped = {} /\ crossed = {}

Closing == {calls[c].t : c \in {x \in Callers : calls[x].st = "closing"}} \ {None}
Others(c, kind, st) == \E d \in Callers \ {c} : calls[d].kind = kind /\ calls[d].st = st
step(c, st) == calls' = [calls EXCEPT ![c].st = st]
Ends(c) == calls' = [calls EXCEPT ![c] = NoCall]

\* Mutant: no guard.
create_terminal_unguarded(c) ==
  /\ calls[c].kind = "issue" /\ calls[c].st = "new"
  /\ step(c, "looking")
  /\ crossed' = crossed \cup {k \in {"issue"} : Others(c, k, "looking")}
  /\ UNCHANGED <<registryVars, sessionVars, wiped>>

\* POST /api/terminals for an issue: the guard comes before every await.
create_terminal(c) ==
  /\ calls[c].kind = "issue" /\ calls[c].st = "new"
  /\ IF list_active("issue") # {} THEN Ends(c) ELSE step(c, "looking")
  /\ crossed' = crossed \cup {k \in {"issue"} : Others(c, k, "looking")}
  /\ UNCHANGED <<registryVars, sessionVars, wiped>>

\* The other requests look their project up first.
get_project_path(c) ==
  /\ calls[c].kind \in {"ask", "manage", "log", "step"} /\ calls[c].st = "new"
  /\ step(c, "looking")
  /\ UNCHANGED <<registryVars, sessionVars, wiped, crossed>>

\* service.create, for an issue and for a step of a pipeline.
created(c) ==
  /\ calls[c].kind \in {"issue", "step"} /\ calls[c].st = "looking"
  /\ \E t \in Fresh :
       /\ create(t, calls[c].kind)
       /\ IF calls[c].kind = "issue" THEN Ends(c)
          ELSE calls' = [calls EXCEPT ![c] = [@ EXCEPT !.st = "created", !.t = t]]
  /\ UNCHANGED <<sessionVars, wiped, crossed>>

create_hermes_terminal(c) ==
  /\ calls[c].kind = "hermes" /\ calls[c].st = "new"
  /\ \E t \in Fresh : create(t, "hermes")
  /\ Ends(c)
  /\ UNCHANGED <<sessionVars, wiped, crossed>>

create_log_terminal(c) ==
  /\ calls[c].kind = "log" /\ calls[c].st = "looking"
  /\ \E t \in Fresh :
       /\ create_log(t)
       /\ sessions' = [sessions EXCEPT ![t] = t]
       /\ reader' = [reader EXCEPT ![t] = [NoReader EXCEPT !.st = "reading", !.t = t]]
  /\ Ends(c)
  /\ UNCHANGED <<ws, pty_dead, waiting, sock, shown, cut, overlapped, wiped, crossed>>

(***************************************************************************)
(* Taking terminals down                                                   *)
(***************************************************************************)
Connected(t) == sessions[t] # None /\ ws[sessions[t]] # None

\* The loop over the terminals to reap stops at the first one with a client, whose close it awaits.
teardown_to_next(c, dead, todo) ==
  \E t \in {x \in todo : Connected(x)}, before \in SUBSET {x \in todo : ~Connected(x)} :
    /\ recordings' = Saved(before \cup {t})
    /\ stop_readers(before \cup {t})
    /\ kill_all(dead \cup before)
    /\ calls' = [calls EXCEPT ![c] = [@ EXCEPT !.st = "closing", !.t = t, !.todo = todo \ (before \cup {t})]]

\* ... or runs to its end.
_teardown_terminal(dead, todo) ==
  /\ \A t \in todo : ~Connected(t)
  /\ recordings' = Saved(todo)
  /\ stop_readers(todo)

_create_terminal_base(c, dead, todo) ==
  /\ \/ teardown_to_next(c, dead, todo)
     \/ /\ _teardown_terminal(dead, todo)
        /\ \E t \in Fresh : replace(dead \cup todo, t, calls[c].kind)
        /\ Ends(c)
  /\ UNCHANGED <<output, ws, pty_dead, waiting, sock, shown, overlapped, wiped>>

\* POST /ask and /manage-agent reap what is filed under the same project and issue.
reap(c) ==
  /\ calls[c].kind \in {"ask", "manage"} /\ calls[c].st = "looking"
  /\ _create_terminal_base(c, {}, list_active(Place(calls[c].kind)))
  /\ crossed' = crossed \cup {k \in {calls[c].kind} : Others(c, k, "closing")}

reap_closed(c) ==
  /\ calls[c].kind \in {"ask", "manage"} /\ calls[c].st = "closing"
  /\ _create_terminal_base(c, {calls[c].t}, calls[c].todo)
  /\ UNCHANGED crossed

\* DELETE /api/terminals/{id}
delete_terminal(c) ==
  /\ calls[c].kind = "delete" /\ calls[c].st = "new"
  /\ \E t \in Terms :
       /\ process[t] # Absent
       /\ \/ teardown_to_next(c, {}, {t})
          \/ _teardown_terminal({}, {t}) /\ kill_all({t}) /\ Ends(c)
  /\ UNCHANGED <<output, ws, pty_dead, waiting, sock, shown, overlapped, wiped, crossed>>

delete_closed(c) ==
  /\ calls[c].kind = "delete" /\ calls[c].st = "closing"
  /\ kill_all({calls[c].t}) /\ Ends(c)
  /\ UNCHANGED <<recordings, output, sessionVars, wiped, crossed>>

\* DELETE /api/projects/{id} saves no recording.
delete_project(c) ==
  LET ts == list_active("issue") \cup list_active("project")
  IN /\ calls[c].kind = "delete_project" /\ calls[c].st = "new"
     /\ stop_readers(ts) /\ kill_all(ts) /\ Ends(c)
     /\ wiped' = wiped \cup ts
     /\ UNCHANGED <<recordings, output, ws, pty_dead, waiting, sock, shown, overlapped, crossed>>

(***************************************************************************)
(* The terminal of a step                                                  *)
(***************************************************************************)
\* A new session, whatever session the terminal has; without the terminal the step fails.
_run_step(c) ==
  LET t == calls[c].t
  IN /\ calls[c].kind = "step" /\ calls[c].st = "created"
     /\ IF is_alive(t)
        THEN /\ sessions' = [sessions EXCEPT ![t] = t]
             /\ reader' = _ensure_reader(t, t)
             /\ waiting' = waiting \cup {t}
             /\ overlapped' = overlapped \cup ({t} \cap (Closing \cup {x \in Terms : sessions[x] # None}))
             /\ step(c, "waiting")
        ELSE Ends(c) /\ UNCHANGED <<sessions, reader, waiting, overlapped>>
     /\ UNCHANGED <<registryVars, ws, pty_dead, sock, shown, cut, wiped, crossed>>

\* The step ends: the process died, or the agent has signalled the end of its step.
cleanup_terminal(c) ==
  LET t == calls[c].t
  IN /\ calls[c].kind = "step" /\ calls[c].st = "waiting"
     /\ t \notin waiting \/ process[t] = "running"
     /\ recordings' = Saved({t})
     /\ stop_readers({t}) /\ kill_all({t})
     /\ waiting' = waiting \ {t}
     /\ Ends(c)
     /\ UNCHANGED <<output, ws, pty_dead, sock, shown, overlapped, wiped, crossed>>

Working ==
  \E c \in Callers :
    \/ create_terminal(c) \/ get_project_path(c) \/ created(c)
    \/ create_hermes_terminal(c) \/ create_log_terminal(c)
    \/ reap(c) \/ reap_closed(c) \/ delete_terminal(c) \/ delete_closed(c) \/ delete_project(c)
    \/ _run_step(c) \/ cleanup_terminal(c)

TerminalsInit(asked, present) == RegistryInit /\ SessionsInit(present) /\ CallsInit(asked)

TerminalsNext ==
  \/ Working
  \/ (Reading \/ Connecting(Closing)) /\ UNCHANGED callVars
  \/ (\E t \in Terms : Exits(t)) /\ UNCHANGED <<sessionVars, callVars>>
=================================================================================
