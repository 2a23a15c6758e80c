---------------------------- MODULE TerminalRegistry ----------------------------
(***************************************************************************)
(* TerminalService: the registry of the terminals with their buffers, and  *)
(* the recordings that outlive them.  A terminal is a process behind a PTY, *)
(* or a "log" that only shows what is pushed to it.                         *)
(* The output of a process is numbered in the order in which it is read.   *)
(***************************************************************************)
EXTENDS Naturals, FiniteSets

CONSTANTS
  Terms,         \* uuid4() of the terminals
  MaxOutput,     \* bound on the pieces of output of a process
  MaxBuffer,     \* terminal_max_buffer_bytes, in pieces of output
  Absent

ASSUME BoundsAssumption == MaxOutput \in Nat /\ MaxBuffer \in Nat \ {0}

\* Absent is no kind of terminal, no process and no output.
Kinds == {"issue", "ask", "manage", "hermes", "log", "step"}
ASSUME AbsentAssumption ==
  Absent \notin Kinds \cup {"running", "exited", "killed"} /\ \A b \in SUBSET (1..MaxOutput) : b # Absent

VARIABLES
  terminals,     \* TerminalService._terminals
  buffers,       \* TerminalService._buffers
  process,       \* what runs behind the PTY
  recordings,    \* the files of recordings_path
  output         \* number of pieces read from the PTY

registryVars == <<terminals, buffers, process, recordings, output>>

\* Who asks for a terminal decides the project and the issue it is filed under.
Place(kind) ==
  CASE kind \in {"issue", "log", "step"} -> "issue"
    [] kind = "ask" -> "project"
    [] kind \in {"manage", "hermes"} -> "system"

RegistryInit ==
  /\ terminals = [t \in Terms |-> Absent]
  /\ buffers = [t \in Terms |-> Absent]
  /\ process = [t \in Terms |-> Absent]
  /\ recordings = [t \in Terms |-> Absent]
  /\ output = [t \in Terms |-> 0]

is_alive(t) == terminals[t] # Absent
Fresh == {t \in Terms : ~is_alive(t) /\ process[t] = Absent}

list_active(place) == {t \in Terms : is_alive(t) /\ Place(terminals[t]) = place}

\* The newest MaxBuffer of the first n pieces.
Kept(n) == {i \in 1..n : i + MaxBuffer > n}

create_log(t) ==
  /\ t \in Fresh
  /\ terminals' = [terminals EXCEPT ![t] = "log"]
  /\ buffers' = [buffers EXCEPT ![t] = {}]
  /\ process' = [process EXCEPT ![t] = "log"]
  /\ UNCHANGED <<recordings, output>>

get_buffered_output(t) == IF buffers[t] = Absent THEN {} ELSE buffers[t]

append_output(t) ==
  /\ output' = [output EXCEPT ![t] = @ + 1]
  /\ buffers' = [buffers EXCEPT ![t] = IF @ = Absent THEN @
                                       ELSE {i \in @ \cup {output'[t]} : i + MaxBuffer > output'[t]}]

\* Mutant: the recording is written even when there is nothing to write.
Saved_always(ts) == [t \in Terms |-> IF t \in ts THEN get_buffered_output(t) ELSE recordings[t]]

\* _save_recording leaves the file alone when there is nothing to write.
Saved(ts) ==
  [t \in Terms |-> IF t \in ts /\ get_buffered_output(t) # {} THEN get_buffered_output(t) ELSE recordings[t]]

unregister(ts) ==
  /\ terminals' = [t \in Terms |-> IF t \in ts THEN Absent ELSE terminals[t]]
  /\ buffers' = [t \in Terms |-> IF t \in ts THEN Absent ELSE buffers[t]]

mark_closed(t) == unregister({t}) /\ UNCHANGED process

\* A terminal that is not registered any more is not killed again.
Killed(ts) == [t \in Terms |-> IF t \in ts /\ is_alive(t) /\ process[t] = "running" THEN "killed" ELSE process[t]]
kill_all(ts) == unregister(ts) /\ process' = Killed(ts)

\* The terminals in ts are killed and t is created, with nothing awaited in between.
replace(ts, t, kind) ==
  /\ t \in Fresh
  /\ terminals' = [x \in Terms |-> IF x = t THEN kind ELSE IF x \in ts THEN Absent ELSE terminals[x]]
  /\ buffers' = [x \in Terms |-> IF x = t THEN {} ELSE IF x \in ts THEN Absent ELSE buffers[x]]
  /\ process' = [Killed(ts) EXCEPT ![t] = "running"]

create(t, kind) == replace({}, t, kind) /\ UNCHANGED <<recordings, output>>

\* The process ends by itself.
Exits(t) ==
  /\ process[t] = "running"
  /\ process' = [process EXCEPT ![t] = "exited"]
  /\ UNCHANGED <<terminals, buffers, recordings, output>>

\* GET /terminals/{id}/recording: the live buffer, or else the file.
get_terminal_recording(t) ==
  IF get_buffered_output(t) # {} THEN get_buffered_output(t)
  ELSE IF recordings[t] # Absent THEN recordings[t] ELSE {}
=================================================================================
