---------------------------- MODULE TerminalSessions ----------------------------
(***************************************************************************)
(* The sessions of the terminals: the task that reads a terminal's output, *)
(* and the WebSocket connections that show it.  A TerminalSession is named  *)
(* after whoever makes it: a connection, or the operation that created the *)
(* terminal.  A handler keeps the session it has found while it waits.     *)
(***************************************************************************)
EXTENDS TerminalRegistry, Sequences

CONSTANTS Sockets, None

ASSUME SocketsAssumption == None \notin Terms \cup Sockets /\ Terms \cap Sockets = {}

VARIABLES
  sessions,      \* _sessions: terminal -> session
  ws,            \* session -> its WebSocket
  pty_dead,      \* session -> the event
  reader,        \* session -> [st, t, to]: the reader task
  waiting,       \* sessions whose pty_dead the executor of a step waits for
  sock,          \* connection -> where its handler is
  shown,         \* connection -> what its client has been sent
  cut,           \* terminals whose reader has been cancelled
  overlapped     \* terminals that got a session while being torn down

sessionVars == <<sessions, ws, pty_dead, reader, waiting, sock, shown, cut, overlapped>>
Objects == Terms \cup Sockets
NoReader == [st |-> "none", t |-> None, to |-> None, n |-> 0]

SessionsInit(present) ==
  /\ sessions = [t \in Terms |-> None]
  /\ ws = [o \in Objects |-> None]
  /\ pty_dead = [o \in Objects |-> FALSE]
  /\ reader = [o \in Objects |-> NoReader]
  /\ waiting = {}
  /\ sock = [w \in Sockets |-> [st |-> IF w \in present THEN "new" ELSE "closed", t |-> None, o |-> None]]
  /\ shown = [w \in Sockets |-> <<>>]
  /\ cut = {} /\ overlapped = {}

\* The reader of session o: it returns at once when the terminal is gone.
_ensure_reader(t, o) ==
  IF reader[o].st # "none" \/ ~is_alive(t) THEN reader
  ELSE [reader EXCEPT ![o] = [NoReader EXCEPT !.st = "reading", !.t = t]]

\* Everything that takes terminals down stops their readers and forgets their sessions.
stop_readers(ts) ==
  LET os == {sessions[t] : t \in ts} \ {None}
  IN /\ reader' = [o \in Objects |-> IF o \in os THEN NoReader ELSE reader[o]]
     /\ sessions' = [t \in Terms |-> IF t \in ts THEN None ELSE sessions[t]]
     /\ cut' = (cut \cup {reader[o].t : o \in os}) \ {None}

(***************************************************************************)
(* The reader                                                              *)
(***************************************************************************)
\* A piece of output is appended before anything is awaited, then sent.
reader_output(o) ==
  LET t == reader[o].t
  IN /\ reader[o].st = "reading" /\ process[t] = "running" /\ output[t] < MaxOutput
     /\ append_output(t)
     /\ reader' = [reader EXCEPT ![o] = IF ws[o] = None THEN @ ELSE [@ EXCEPT !.st = "sending", !.to = ws[o], !.n = output'[t]]]
     /\ UNCHANGED <<terminals, process, recordings, sessions, ws, pty_dead, waiting, sock, shown, cut, overlapped>>

\* The client gets it, or the connection has gone.
reader_sent(o, ok) ==
  LET w == reader[o].to
  IN /\ reader[o].st = "sending"
     /\ (ok => sock[w].st = "open")
     /\ reader' = [reader EXCEPT ![o] = [NoReader EXCEPT !.st = "reading", !.t = reader[o].t]]
     /\ shown' = IF ok THEN [shown EXCEPT ![w] = Append(@, reader[o].n)] ELSE shown
     /\ ws' = IF ok THEN ws ELSE [ws EXCEPT ![o] = None]
     /\ UNCHANGED <<registryVars, sessions, pty_dead, waiting, sock, cut, overlapped>>

\* The process has ended: the recording is saved and the waiters are told.
reader_eof(o) ==
  LET t == reader[o].t
  IN /\ reader[o].st = "reading" /\ process[t] \in {"exited", "killed"}
     /\ recordings' = Saved({t})
     /\ mark_closed(t)
     /\ pty_dead' = [pty_dead EXCEPT ![o] = TRUE]
     /\ waiting' = waiting \ {o}
     /\ reader' = [reader EXCEPT ![o] = NoReader]
     /\ UNCHANGED <<output, sessions, ws, sock, shown, cut, overlapped>>

(***************************************************************************)
(* A WebSocket connection                                                  *)
(***************************************************************************)
ws_connect(w, t) ==
  /\ sock[w].st = "new" /\ process[t] # Absent
  /\ sock' = [sock EXCEPT ![w] = [@ EXCEPT !.st = IF is_alive(t) THEN "accepting" ELSE "closed", !.t = t]]
  /\ UNCHANGED <<registryVars, sessions, ws, pty_dead, reader, waiting, shown, cut, overlapped>>

\* The session is found or made now, whatever became of the terminal.
register(w, t, closing) ==
  LET o == IF sessions[t] = None THEN w ELSE sessions[t]
  IN /\ sock' = [sock EXCEPT ![w] = [@ EXCEPT !.st = "open", !.o = o]]
     /\ sessions' = [sessions EXCEPT ![t] = o]
     /\ pty_dead' = [pty_dead EXCEPT ![o] = FALSE]
     /\ ws' = [ws EXCEPT ![o] = w]
     /\ reader' = _ensure_reader(t, o)
     /\ overlapped' = overlapped \cup ({t} \cap closing)

InOrder(ns) == [i \in 1..Cardinality(ns) |-> CHOOSE n \in ns : Cardinality({x \in ns : x <= n}) = i]

\* accept() is awaited: get_pty raises when the terminal has gone meanwhile.
ws_accepted(w, closing) ==
  LET t == sock[w].t
      b == get_buffered_output(t)
  IN /\ sock[w].st = "accepting"
     /\ \/ /\ ~is_alive(t) /\ sock' = [sock EXCEPT ![w].st = "closed"]
           /\ UNCHANGED <<sessions, ws, pty_dead, reader, shown, overlapped>>
        \/ /\ is_alive(t) /\ (b # {} \/ terminals[t] = "log")
           /\ sock' = [sock EXCEPT ![w].st = "replaying"]
           /\ shown' = [shown EXCEPT ![w] = InOrder(b)]
           /\ UNCHANGED <<sessions, ws, pty_dead, reader, overlapped>>
        \/ is_alive(t) /\ b = {} /\ terminals[t] # "log" /\ register(w, t, closing) /\ UNCHANGED shown
     /\ UNCHANGED <<registryVars, waiting, cut>>

\* The replay has been sent.
ws_replayed(w, closing) ==
  /\ sock[w].st = "replaying" /\ register(w, sock[w].t, closing)
  /\ UNCHANGED <<registryVars, waiting, shown, cut>>

\* Mutant: the last client to leave takes the reader with it.
ws_closed_stops(w) ==
  /\ sock[w].st = "open"
  /\ sock' = [sock EXCEPT ![w].st = "closed"]
  /\ ws' = [ws EXCEPT ![sock[w].o] = None]
  /\ reader' = [reader EXCEPT ![sock[w].o] = NoReader]
  /\ UNCHANGED <<registryVars, sessions, pty_dead, waiting, shown, cut, overlapped>>

\* The client goes away, or sends something after the process has ended.
ws_closed(w) ==
  /\ sock[w].st \in {"replaying", "open"}
  /\ sock' = [sock EXCEPT ![w].st = "closed"]
  /\ ws' = IF sock[w].st = "open" THEN [ws EXCEPT ![sock[w].o] = None] ELSE ws
  /\ UNCHANGED <<registryVars, sessions, pty_dead, reader, waiting, shown, cut, overlapped>>

Reading == \E o \in Objects : reader_output(o) \/ reader_eof(o) \/ \E ok \in BOOLEAN : reader_sent(o, ok)
Connecting(closing) ==
  \E w \in Sockets :
    (\E t \in Terms : ws_connect(w, t)) \/ ws_accepted(w, closing) \/ ws_replayed(w, closing) \/ ws_closed(w)
=================================================================================
