------------------------------ MODULE DeskProofs ------------------------------
(***************************************************************************)
(* Proofs about AgentDesk, for any terminals, connections, requests,       *)
(* questions, events, browsers and scenarios.                              *)
(*                                                                         *)
(* Terminals.  That no output is lost (OutputKept) needs to know where a   *)
(* terminal stands: what is live has its output in its buffer, what is     *)
(* down or being taken down has been saved, and only the session of a      *)
(* terminal reads it, so that nothing is read after the save.  One terminal*)
(* to a place (OnePerPlace) follows the requests between their look at the *)
(* others and their creation: at most one, and it has all the others in    *)
(* hand.                                                                   *)
(*                                                                         *)
(* News.  A browser waits for an event, has been sent it or is lost; a call*)
(* to Telegram is counted by what it has been answered.  A page has one    *)
(* socket at a time and what it has shown is in no socket that is still to *)
(* be read.  What it keeps of the data rests on a fact about the keys: each*)
(* notice invalidates a prefix of every key it concerns (Reached).         *)
(***************************************************************************)
EXTENDS AgentDesk, TLAPS, FiniteSetTheorems

(***************************************************************************)
(* The output of the terminals                                             *)
(***************************************************************************)

\* Records are known by their fields; what a field may hold is said where it matters.
IsReader(r) == r \in [st : {r.st}, t : {r.t}, to : {r.to}, n : {r.n}]

IsSock(s) == s \in [st : {s.st}, t : {s.t}, o : {s.o}]

IsCall(c) == c \in [kind : {c.kind}, st : {c.st}, todo : SUBSET Terms, t : {c.t}]

\* Readers, connections and requests are about terminals.
TermTypes ==
  /\ terminals \in [Terms -> Kinds \cup {Absent}] /\ output \in [Terms -> 0..MaxOutput]
  /\ buffers = [t \in Terms |-> buffers[t]] /\ recordings = [t \in Terms |-> recordings[t]]
  /\ process = [t \in Terms |-> process[t]] /\ sessions \in [Terms -> Objects \cup {None}]
  /\ reader = [o \in Objects |-> reader[o]]
  /\ \A o \in Objects : IsReader(reader[o]) /\ (reader[o].st # "none" => reader[o].t \in Terms)
  /\ sock = [w \in Sockets |-> sock[w]]
  /\ \A w \in Sockets : IsSock(sock[w]) /\ (sock[w].st \in {"accepting", "replaying"} => sock[w].t \in Terms)
  /\ calls = [c \in Callers |-> calls[c]]
  /\ \A c \in Callers : IsCall(calls[c]) /\ (calls[c].st \in {"closing", "created", "waiting"} => calls[c].t \in Terms)

\* A terminal is what its process makes it.
Registered ==
  \A t \in Terms :
    /\ is_alive(t) => buffers[t] = Kept(output[t])
    /\ ~is_alive(t) => buffers[t] = Absent /\ process[t] # "running"
    /\ process[t] = Absent => ~is_alive(t) /\ output[t] = 0
    /\ output[t] = 0 => recordings[t] = Absent

\* What was read from t is in its recording.
Filed(t) == output[t] # 0 => recordings[t] = Kept(output[t])

\* A terminal is read by its own session only.
ReadBySession ==
  \A o \in Objects : reader[o].st # "none" =>
    /\ process[reader[o].t] # Absent
    /\ reader[o].t \notin overlapped => sessions[reader[o].t] = o

\* What is being taken down and what is down has been filed.
DownIsFiled ==
  /\ \A c \in Callers :
       /\ calls[c].st \in {"closing", "created", "waiting"} => process[calls[c].t] # Absent
       /\ \A t \in calls[c].todo : process[t] # Absent
  /\ \A t \in Terms \ (wiped \cup overlapped) :
       /\ process[t] # Absent /\ ~is_alive(t) => Filed(t)
       /\ t \in Closing /\ is_alive(t) => Filed(t) /\ sessions[t] = None

\* What OutputKept needs to be preserved.
OutputInv == TermTypes /\ Registered /\ ReadBySession /\ DownIsFiled

\* At most one request for a terminal of kind k is in state st.
OneAtATime(k, st) ==
  \A c, d \in Callers : calls[c].kind = k /\ calls[d].kind = k /\ calls[c].st = st /\ calls[d].st = st => c = d

\* Where no two requests have overlapped, an issue has one terminal and one request that looks for it,
\* which has found none; who reaps the others has all of them in hand.
PlaceInv ==
  /\ \A k \in {"issue", "ask", "manage"} \ crossed :
       /\ \A t, u \in Terms : terminals[t] = k /\ terminals[u] = k => t = u
       /\ k = "issue" =>
            /\ OneAtATime(k, "looking")
            /\ \A c \in Callers : calls[c].kind = k /\ calls[c].st = "looking" => \A t \in Terms : terminals[t] # k
       /\ k # "issue" =>
            /\ OneAtATime(k, "closing")
            /\ \A c \in Callers : calls[c].kind = k /\ calls[c].st = "closing" =>
                 \A t \in Terms : terminals[t] = k => t = calls[c].t \/ t \in calls[c].todo

\* What the buffer keeps of the output.
LEMMA KeptOutput ==
  /\ Kept(0) = {}
  /\ \A n \in 0..MaxOutput : n # 0 => Kept(n) # {}
  /\ \A n \in 0..MaxOutput : Kept(n) # Absent
  /\ \A n \in 0..MaxOutput - 1 : {i \in Kept(n) \cup {n + 1} : i + MaxBuffer > n + 1} = Kept(n + 1)
<1>0. MaxOutput \in Nat /\ MaxBuffer \in Nat /\ MaxBuffer > 0
  BY BoundsAssumption
<1>1. Kept(0) = {}
  BY DEF Kept
<1>2. ASSUME NEW n \in 0..MaxOutput, n # 0 PROVE Kept(n) # {}
  <2>1. n \in Kept(n)
    BY <1>0, <1>2 DEF Kept
  <2> QED
    BY <2>1
<1>3. ASSUME NEW n \in 0..MaxOutput PROVE Kept(n) # Absent
  <2>1. Kept(n) \in SUBSET (1..MaxOutput)
    BY <1>0 DEF Kept
  <2> QED
    BY <2>1, AbsentAssumption
<1>4. ASSUME NEW n \in 0..MaxOutput - 1 PROVE {i \in Kept(n) \cup {n + 1} : i + MaxBuffer > n + 1} = Kept(n + 1)
  BY <1>0 DEF Kept
<1> QED
  BY <1>1, <1>2, <1>3, <1>4

\* A recording that is saved has all that the buffer has; the others are left alone.
LEMMA Saves ==
  ASSUME TermTypes, Registered, NEW S, recordings' = Saved(S), output' = output
  PROVE  /\ recordings' = [t \in Terms |-> recordings'[t]]
         /\ \A t \in Terms :
              /\ Filed(t) => Filed(t)'
              /\ t \in S /\ is_alive(t) => Filed(t)'
              /\ output[t] = 0 => recordings'[t] = Absent
<1>1. recordings' = [t \in Terms |-> IF t \in S /\ get_buffered_output(t) # {} THEN get_buffered_output(t) ELSE recordings[t]]
  BY DEF Saved
<1>2. ASSUME NEW t \in Terms, is_alive(t) PROVE get_buffered_output(t) = Kept(output[t]) /\ output[t] \in 0..MaxOutput
  BY <1>2, KeptOutput DEF TermTypes, Registered, get_buffered_output
<1>3. ASSUME NEW t \in Terms, ~is_alive(t) PROVE get_buffered_output(t) = {}
  BY <1>3 DEF TermTypes, Registered, get_buffered_output
<1>4. ASSUME NEW t \in Terms
      PROVE  /\ Filed(t) => Filed(t)'
             /\ t \in S /\ is_alive(t) => Filed(t)'
             /\ output[t] = 0 => recordings'[t] = Absent
  <2>1. CASE is_alive(t)
    BY <1>1, <1>2, <2>1, KeptOutput DEF Filed, Registered
  <2>2. CASE ~is_alive(t)
    BY <1>1, <1>3, <2>2 DEF Filed, Registered
  <2> QED
    BY <2>1, <2>2
<1> QED
  BY <1>1, <1>4

\* The sessions of the terminals in S are forgotten, with their readers.
Stopped(S) ==
  /\ sessions' = [t \in Terms |-> IF t \in S THEN None ELSE sessions[t]]
  /\ reader' = [o \in Objects |-> reader'[o]]
  /\ \A o \in Objects :
       /\ IsReader(reader'[o]) /\ (reader'[o].st # "none" => reader'[o] = reader[o])
       /\ reader'[o].st # "none" /\ reader'[o].t \in S => reader'[o].t \in overlapped

\* Who stops the readers of terminals leaves none of them, but of those with two sessions.
LEMMA Stops ==
  ASSUME TermTypes, ReadBySession, NEW S \in SUBSET Terms, stop_readers(S)
  PROVE  Stopped(S)
<1> DEFINE os == {sessions[t] : t \in S} \ {None}
<1>1. /\ reader' = [o \in Objects |-> IF o \in os THEN NoReader ELSE reader[o]]
      /\ sessions' = [t \in Terms |-> IF t \in S THEN None ELSE sessions[t]]
  BY DEF stop_readers
<1>2. IsReader(NoReader) /\ NoReader.st = "none"
  BY DEF IsReader, NoReader
<1>3. \A o \in Objects : o # None
  BY SocketsAssumption DEF Objects
<1>4. ASSUME NEW o \in Objects, reader'[o].st # "none", reader'[o].t \in S PROVE reader'[o].t \in overlapped
  <2>1. reader'[o] = reader[o] /\ o \notin os
    BY <1>1, <1>2, <1>4
  <2>2. reader[o].t \notin overlapped => sessions[reader[o].t] = o
    BY <1>4, <2>1 DEF ReadBySession
  <2> QED
    BY <1>3, <1>4, <2>1, <2>2
<1> QED
  BY <1>1, <1>2, <1>4 DEF TermTypes, Stopped

\* At most one request moves; those it begins to take down are in S.
Called(S) ==
  /\ calls' = [c \in Callers |-> calls'[c]]
  /\ \A c \in Callers :
       \/ calls'[c] = calls[c]
       \/ /\ IsCall(calls'[c])
          /\ calls'[c].st \in {"closing", "created", "waiting"} => calls'[c].t \in Terms /\ process'[calls'[c].t] # Absent
          /\ \A t \in calls'[c].todo : process'[t] # Absent
  /\ \A t \in Closing' : t \in Closing \/ (t \in S /\ process[t] # Absent)

\* A request moves to y.
LEMMA Calls ==
  ASSUME TermTypes, NEW c \in Callers, NEW y, IsCall(y), calls' = [calls EXCEPT ![c] = y], NEW S,
         y.st \in {"closing", "created", "waiting"} => y.t \in Terms /\ process'[y.t] # Absent,
         \A t \in y.todo : process'[t] # Absent,
         y.st = "closing" => y.t \in S /\ process[y.t] # Absent
  PROVE  Called(S)
<1>1. /\ calls' = [d \in Callers |-> calls'[d]] /\ calls'[c] = y
      /\ \A d \in Callers \ {c} : calls'[d] = calls[d]
  BY DEF TermTypes
<1>2. ASSUME NEW t \in Closing', t \notin Closing PROVE t \in S /\ process[t] # Absent
  BY <1>1, <1>2 DEF Closing
<1> QED
  BY <1>1, <1>2 DEF Called

\* The terminals in U are killed and those in N created.
Replaced(U, N, kind) ==
  /\ terminals' = [x \in Terms |-> IF x \in N THEN kind ELSE IF x \in U THEN Absent ELSE terminals[x]]
  /\ buffers' = [x \in Terms |-> IF x \in N THEN {} ELSE IF x \in U THEN Absent ELSE buffers[x]]
  /\ process' = [x \in Terms |-> IF x \in N THEN "running" ELSE Killed(U)[x]]

\* Terminals are taken down and others made; nobody reads or connects meanwhile.
LEMMA Replaces ==
  ASSUME OutputInv, NEW S \in SUBSET Terms, NEW V \in SUBSET Terms, NEW U \in SUBSET Terms,
         NEW N \in SUBSET Fresh, NEW kind \in Kinds,
         recordings' = Saved(V), Stopped(S),
         Replaced(U, N, kind), Called(V \cap S), U \subseteq V \cup Closing \cup wiped',
         UNCHANGED <<output, sock, overlapped>>, wiped \subseteq wiped'
  PROVE  OutputInv'
<1> USE DEF OutputInv
<1>1. /\ recordings' = [t \in Terms |-> recordings'[t]]
      /\ \A t \in Terms :
           /\ Filed(t) => Filed(t)'
           /\ t \in V /\ is_alive(t) => Filed(t)'
           /\ output[t] = 0 => recordings'[t] = Absent
  BY Saves
<1>2. /\ sessions' = [t \in Terms |-> sessions'[t]] /\ reader' = [o \in Objects |-> reader'[o]]
      /\ \A t \in Terms : sessions'[t] = IF t \in S THEN None ELSE sessions[t]
      /\ \A o \in Objects : IsReader(reader'[o]) /\ (reader'[o].st # "none" => reader'[o] = reader[o])
      /\ \A o \in Objects : reader'[o].st # "none" /\ reader'[o].t \in S => reader'[o].t \in overlapped
  BY DEF Stopped
<1>3. /\ calls' = [d \in Callers |-> calls'[d]]
      /\ \A d \in Callers : IsCall(calls'[d]) /\ (calls'[d].st \in {"closing", "created", "waiting"} => calls'[d].t \in Terms)
      /\ \A t \in Closing' : t \in Closing \/ (t \in V /\ t \in S /\ process[t] # Absent)
  BY DEF Called, TermTypes
<1>4. /\ Absent \notin Kinds /\ Absent # "running" /\ Absent # "killed"
      /\ \A t \in N : ~is_alive(t) /\ process[t] = Absent /\ t \in Terms
  BY AbsentAssumption DEF Fresh
<1>5. ASSUME NEW t \in Terms
      PROVE  /\ t \in N => is_alive(t)' /\ process'[t] = "running" /\ buffers'[t] = {} /\ output[t] = 0
             /\ t \notin N /\ t \in U => ~is_alive(t)' /\ buffers'[t] = Absent /\ process'[t] # "running"
             /\ t \notin N /\ t \notin U =>
                  (is_alive(t)' <=> is_alive(t)) /\ buffers'[t] = buffers[t] /\ process'[t] = process[t]
             /\ t \notin N => (process'[t] = Absent <=> process[t] = Absent)
  BY <1>4 DEF is_alive, Killed, Registered, Replaced
<1>6. TermTypes'
  <2>1. /\ terminals' \in [Terms -> Kinds \cup {Absent}]
        /\ buffers' = [t \in Terms |-> buffers'[t]] /\ process' = [t \in Terms |-> process'[t]]
    BY DEF TermTypes, Replaced
  <2>2. sessions' \in [Terms -> Objects \cup {None}]
    BY DEF TermTypes, Stopped
  <2> QED
    BY <1>1, <1>2, <1>3, <2>1, <2>2 DEF TermTypes
<1>7. Registered'
  <2>1. ASSUME NEW t \in Terms, t \in N
        PROVE  /\ is_alive(t)' => buffers'[t] = Kept(output[t])
               /\ ~is_alive(t)' => buffers'[t] = Absent /\ process'[t] # "running"
               /\ process'[t] = Absent => ~is_alive(t)' /\ output[t] = 0
    BY <1>4, <1>5, <2>1, KeptOutput
  <2>2. ASSUME NEW t \in Terms, t \notin N, t \in U
        PROVE  /\ is_alive(t)' => buffers'[t] = Kept(output[t])
               /\ ~is_alive(t)' => buffers'[t] = Absent /\ process'[t] # "running"
               /\ process'[t] = Absent => ~is_alive(t)' /\ output[t] = 0
    BY <1>5, <2>2 DEF Registered
  <2>3. ASSUME NEW t \in Terms, t \notin N, t \notin U
        PROVE  /\ is_alive(t)' => buffers'[t] = Kept(output[t])
               /\ ~is_alive(t)' => buffers'[t] = Absent /\ process'[t] # "running"
               /\ process'[t] = Absent => ~is_alive(t)' /\ output[t] = 0
    BY <1>5, <2>3 DEF Registered
  <2> QED
    BY <1>1, <2>1, <2>2, <2>3, Zenon DEF Registered, is_alive, Kept
<1>8. ReadBySession'
  <2>1. ASSUME NEW o \in Objects, reader'[o].st # "none"
        PROVE  process'[reader'[o].t] # Absent /\ (reader'[o].t \notin overlapped => sessions'[reader'[o].t] = o)
    BY <1>2, <1>4, <1>5, <2>1 DEF ReadBySession, TermTypes
  <2> QED
    BY <2>1 DEF ReadBySession
<1>9. DownIsFiled'
  <2>1. ASSUME NEW d \in Callers, calls'[d].st \in {"closing", "created", "waiting"} PROVE process'[calls'[d].t] # Absent
    BY <1>3, <1>4, <1>5, <2>1 DEF DownIsFiled, TermTypes, Called
  <2>4. ASSUME NEW d \in Callers, NEW t \in calls'[d].todo PROVE process'[t] # Absent
    <3>1. t \in Terms
      BY <1>3, <2>4 DEF IsCall
    <3> QED
      BY <1>3, <1>4, <1>5, <2>4, <3>1 DEF DownIsFiled, Called
  <2>2. ASSUME NEW t \in Terms \ (wiped' \cup overlapped), process'[t] # Absent, ~is_alive(t)' PROVE Filed(t)'
    BY <1>1, <1>5, <2>2 DEF DownIsFiled
  <2>3. ASSUME NEW t \in Terms \ (wiped' \cup overlapped), t \in Closing', is_alive(t)' PROVE Filed(t)' /\ sessions'[t] = None
    <3>0. t \in Closing \cup (V \cap S) /\ process[t] # Absent
      <4>1. CASE t \in Closing
        BY <4>1 DEF Closing, DownIsFiled
      <4>2. CASE t \notin Closing
        BY <1>3, <2>3, <4>2
      <4> QED
        BY <4>1, <4>2
    <3>1. t \notin N
      BY <1>4, <3>0
    <3> QED
      BY <1>1, <1>2, <1>5, <2>3, <3>0, <3>1 DEF DownIsFiled
  <2> QED
    BY <2>1, <2>2, <2>3, <2>4 DEF DownIsFiled
<1> QED
  BY <1>6, <1>7, <1>8, <1>9

\* What the operations of the registry do to it.
LEMMA Replacing == ASSUME NEW U, NEW t, NEW kind, replace(U, t, kind) PROVE t \in Fresh /\ Replaced(U, {t}, kind)
<1>1. /\ terminals' = [x \in Terms |-> IF x \in {t} THEN kind ELSE IF x \in U THEN Absent ELSE terminals[x]]
      /\ buffers' = [x \in Terms |-> IF x \in {t} THEN {} ELSE IF x \in U THEN Absent ELSE buffers[x]]
      /\ process' = [x \in Terms |-> IF x \in {t} THEN "running" ELSE Killed(U)[x]]
  BY DEF replace, Killed
<1> QED
  BY <1>1 DEF replace, Replaced

LEMMA Killing == ASSUME NEW U, kill_all(U) PROVE Replaced(U, {}, "issue")
BY DEF kill_all, unregister, Killed, Replaced

LEMMA Untouched ==
  ASSUME TermTypes
  PROVE  /\ UNCHANGED <<terminals, buffers, process>> => Replaced({}, {}, "issue")
         /\ UNCHANGED recordings => recordings' = Saved({})
         /\ UNCHANGED <<sessions, reader>> => Stopped({})
BY DEF TermTypes, Replaced, Killed, Saved, Stopped

\* A request whose fields are given anew.
LEMMA CallOver == ASSUME TermTypes, NEW c \in Callers, Ends(c), NEW S PROVE Called(S)
<1>1. IsCall(NoCall) /\ NoCall.st = "none" /\ NoCall.todo = {}
  BY DEF IsCall, NoCall
<1>2. calls' = [calls EXCEPT ![c] = NoCall]
  BY DEF Ends
<1> QED
  BY <1>1, <1>2, Calls

\* A request that goes on keeps what it is about.
LEMMA CallStep ==
  ASSUME TermTypes, NEW c \in Callers, NEW st
  PROVE  LET x == [calls[c] EXCEPT !.st = st]
         IN  IsCall(x) /\ x.st = st /\ x.kind = calls[c].kind /\ x.todo = calls[c].todo /\ x.t = calls[c].t
<1>1. IsCall(calls[c])
  BY DEF TermTypes
<1> QED
  BY <1>1 DEF IsCall

\* Only the request itself moves.
LEMMA OnlyCalls ==
  ASSUME OutputInv, Called({}), UNCHANGED <<registryVars, sessionVars>>, wiped \subseteq wiped'
  PROVE  OutputInv'
<1>1. /\ Replaced({}, {}, "issue") /\ recordings' = Saved({}) /\ Stopped({})
  BY Untouched DEF OutputInv, registryVars, sessionVars
<1>2. "issue" \in Kinds /\ {} \in SUBSET Terms /\ {} \in SUBSET Fresh
  BY DEF Kinds
<1>3. UNCHANGED <<process, output, sock, overlapped>>
  BY DEF registryVars, sessionVars
<1> QED
  BY <1>1, <1>2, <1>3, Replaces

\* The loop that takes terminals down stops at one whose client it waits for.
LEMMA TearsDown ==
  ASSUME OutputInv, NEW c \in Callers, NEW dead \in SUBSET Terms, NEW todo \in SUBSET Terms,
         dead \subseteq Closing, \A t \in todo : process[t] # Absent,
         teardown_to_next(c, dead, todo), UNCHANGED <<output, sock, overlapped, wiped>>
  PROVE  OutputInv'
<1>1. PICK t \in todo, before \in SUBSET todo :
        /\ recordings' = Saved(before \cup {t})
        /\ stop_readers(before \cup {t})
        /\ kill_all(dead \cup before)
        /\ calls' = [calls EXCEPT ![c] = [calls[c] EXCEPT !.st = "closing", !.t = t, !.todo = todo \ (before \cup {t})]]
  BY Zenon DEF teardown_to_next
<1> DEFINE left == todo \ (before \cup {t})
           y == [calls[c] EXCEPT !.st = "closing", !.t = t, !.todo = left]
<1>2. IsCall(y) /\ y.st = "closing" /\ y.t = t /\ y.todo = left
  <2>1. IsCall(calls[c]) /\ left \in SUBSET Terms
    BY DEF OutputInv, TermTypes
  <2> HIDE DEF left
  <2>2. ASSUME NEW r \in SUBSET Terms
        PROVE  LET x == [calls[c] EXCEPT !.st = "closing", !.t = t, !.todo = r]
               IN  IsCall(x) /\ x.st = "closing" /\ x.t = t /\ x.todo = r
    BY <2>1 DEF IsCall
  <2> QED
    BY <2>1, <2>2, Zenon
<1> HIDE DEF y
<1> DEFINE S == before \cup {t}
           U == dead \cup before
<1>3. Replaced(U, {}, "issue") /\ "issue" \in Kinds
  BY <1>1, Killing DEF Kinds
<1>4. Stopped(S)
  BY <1>1, Stops DEF OutputInv
<1>5. \A x \in todo : process'[x] # Absent
  BY <1>3, AbsentAssumption DEF Replaced, Killed
<1>6. calls' = [calls EXCEPT ![c] = y] /\ recordings' = Saved(S)
  BY <1>1 DEF y
<1>7. Called(S \cap S)
  BY <1>1, <1>2, <1>5, <1>6, Calls DEF OutputInv
<1>8. S \in SUBSET Terms /\ U \in SUBSET Terms /\ {} \in SUBSET Fresh /\ U \subseteq S \cup Closing \cup wiped'
  BY <1>1
<1> HIDE DEF S, U
<1> QED
  BY <1>3, <1>4, <1>6, <1>7, <1>8, Replaces

\* ... or comes to its end and a new terminal is made.
LEMMA TearsAllDown ==
  ASSUME OutputInv, NEW c \in Callers, NEW dead \in SUBSET Terms, NEW todo \in SUBSET Terms,
         dead \subseteq Closing, \A t \in todo : process[t] # Absent, calls[c].kind \in Kinds,
         _create_terminal_base(c, dead, todo)
  PROVE  OutputInv'
<1>1. UNCHANGED <<output, sock, overlapped, wiped>>
  BY DEF _create_terminal_base
<1>2. CASE teardown_to_next(c, dead, todo)
  BY <1>1, <1>2, TearsDown
<1>3. CASE _teardown_terminal(dead, todo) /\ (\E t \in Fresh : replace(dead \cup todo, t, calls[c].kind)) /\ Ends(c)
  <2>1. PICK t \in Fresh : replace(dead \cup todo, t, calls[c].kind)
    BY <1>3
  <2>2. Replaced(dead \cup todo, {t}, calls[c].kind) /\ {t} \in SUBSET Fresh
    BY <2>1, Replacing
  <2>3. Stopped(todo) /\ recordings' = Saved(todo)
    BY <1>3, Stops DEF OutputInv, _teardown_terminal
  <2>4. Called(todo \cap todo)
    BY <1>3, CallOver DEF OutputInv
  <2>5. /\ dead \cup todo \subseteq todo \cup Closing \cup wiped' /\ dead \cup todo \in SUBSET Terms
    OBVIOUS
  <2> QED
    BY <1>1, <2>2, <2>3, <2>4, <2>5, Replaces
<1> QED
  BY <1>2, <1>3 DEF _create_terminal_base

\* The look at the other terminals.
LEMMA Looks ==
  ASSUME OutputInv, NEW c \in Callers, create_terminal(c) \/ get_project_path(c)
  PROVE  OutputInv'
<1>1. UNCHANGED <<registryVars, sessionVars, wiped>> /\ (Ends(c) \/ step(c, "looking"))
  BY DEF create_terminal, get_project_path
<1>2. CASE Ends(c)
  BY <1>1, <1>2, CallOver, OnlyCalls DEF OutputInv
<1>3. CASE step(c, "looking")
  <2> DEFINE y == [calls[c] EXCEPT !.st = "looking"]
  <2>1. IsCall(y) /\ y.st = "looking" /\ y.todo = calls[c].todo
    BY CallStep, Zenon DEF OutputInv
  <2>3. \A t \in calls[c].todo : process[t] # Absent
    BY DEF OutputInv, DownIsFiled
  <2>2. calls' = [calls EXCEPT ![c] = y] /\ process' = process
    BY <1>1, <1>3 DEF step, registryVars
  <2> HIDE DEF y
  <2>4. Called({})
    BY <2>1, <2>2, <2>3, Calls DEF OutputInv
  <2> QED
    BY <1>1, <2>4, OnlyCalls
<1> QED
  BY <1>1, <1>2, <1>3

\* The terminal of an issue, of a step, and the Hermes terminal.
LEMMA Creates ==
  ASSUME OutputInv, NEW c \in Callers, created(c) \/ create_hermes_terminal(c)
  PROVE  OutputInv'
<1>1. PICK t \in Fresh, kind \in Kinds :
        /\ create(t, kind)
        /\ Ends(c) \/ calls' = [calls EXCEPT ![c] = [calls[c] EXCEPT !.st = "created", !.t = t]]
  <2>1. CASE created(c)
    <3>1. PICK t \in Fresh :
            /\ create(t, calls[c].kind)
            /\ IF calls[c].kind = "issue" THEN Ends(c)
               ELSE calls' = [calls EXCEPT ![c] = [calls[c] EXCEPT !.st = "created", !.t = t]]
      BY <2>1, Zenon DEF created
    <3>2. calls[c].kind \in Kinds
      BY <2>1 DEF created, Kinds
    <3> QED
      BY <3>1, <3>2, Zenon
  <2>2. CASE create_hermes_terminal(c)
    BY <2>2 DEF create_hermes_terminal, Kinds
  <2> QED
    BY <2>1, <2>2
<1>2. UNCHANGED <<sessionVars, wiped, recordings, output>>
  BY <1>1 DEF create, created, create_hermes_terminal
<1>3. Replaced({}, {t}, kind) /\ {t} \in SUBSET Fresh
  BY <1>1, Replacing DEF create
<1>4. recordings' = Saved({}) /\ Stopped({}) /\ UNCHANGED <<output, sock, overlapped>>
  BY <1>2, Untouched DEF OutputInv, sessionVars
<1>5. CASE Ends(c)
  BY <1>2, <1>3, <1>4, <1>5, CallOver, Replaces DEF OutputInv
<1>6. CASE calls' = [calls EXCEPT ![c] = [calls[c] EXCEPT !.st = "created", !.t = t]]
  <2> DEFINE y == [calls[c] EXCEPT !.st = "created", !.t = t]
  <2>1. IsCall(y) /\ y.st = "created" /\ y.t = t /\ y.todo = calls[c].todo
    <3>1. IsCall(calls[c])
      BY DEF OutputInv, TermTypes
    <3>2. ASSUME NEW x PROVE LET z == [calls[c] EXCEPT !.st = "created", !.t = x]
                             IN  IsCall(z) /\ z.st = "created" /\ z.t = x /\ z.todo = calls[c].todo
      BY <3>1 DEF IsCall
    <3> QED
      BY <3>2, Zenon
  <2>2. calls' = [calls EXCEPT ![c] = y]
    BY <1>6
  <2> HIDE DEF y
  <2>3. /\ t \in Terms /\ process'[t] # Absent /\ \A x \in y.todo : process'[x] # Absent
    <3>1. \A x \in Terms : process[x] # Absent => process'[x] # Absent
      BY <1>3, AbsentAssumption DEF Replaced, Killed
    <3>2. \A x \in y.todo : x \in Terms /\ process[x] # Absent
      BY <2>1 DEF OutputInv, DownIsFiled, IsCall
    <3>3. t \in Terms /\ process'[t] = "running"
      BY <1>3 DEF Fresh, Replaced
    <3> QED
      BY <3>1, <3>2, <3>3, AbsentAssumption
  <2>4. Called({} \cap {})
    BY <2>1, <2>2, <2>3, Calls DEF OutputInv
  <2> QED
    BY <1>2, <1>3, <1>4, <2>4, Replaces
<1> QED
  BY <1>1, <1>5, <1>6

\* POST /ask and /manage-agent.
LEMMA Reaps ==
  ASSUME OutputInv, NEW c \in Callers, reap(c) \/ reap_closed(c)
  PROVE  OutputInv'
<1>1. CASE reap(c)
  <2> DEFINE todo == list_active(Place(calls[c].kind))
  <2>1. todo \in SUBSET Terms /\ \A t \in todo : process[t] # Absent
    BY DEF list_active, OutputInv, Registered
  <2>2. calls[c].kind \in Kinds /\ _create_terminal_base(c, {}, todo)
    BY <1>1 DEF reap, Kinds
  <2> HIDE DEF todo
  <2> QED
    BY <2>1, <2>2, TearsAllDown
<1>2. CASE reap_closed(c)
  <2>1. calls[c].t \in Terms /\ calls[c].todo \in SUBSET Terms /\ calls[c].st = "closing" /\ calls[c].kind \in Kinds
    BY <1>2 DEF reap_closed, Kinds, OutputInv, TermTypes, IsCall
  <2>2. {calls[c].t} \subseteq Closing /\ \A t \in calls[c].todo : process[t] # Absent
    BY <2>1, SocketsAssumption DEF Closing, OutputInv, DownIsFiled
  <2>3. _create_terminal_base(c, {calls[c].t}, calls[c].todo)
    BY <1>2 DEF reap_closed
  <2> QED
    BY <2>1, <2>2, <2>3, TearsAllDown
<1> QED
  BY <1>1, <1>2

\* What is deleted has been saved, but the terminals of a deleted project.
LEMMA Deletes ==
  ASSUME OutputInv, NEW c \in Callers, delete_terminal(c) \/ delete_closed(c) \/ delete_project(c) \/ cleanup_terminal(c)
  PROVE  OutputInv'
<1>0. "issue" \in Kinds /\ {} \in SUBSET Fresh /\ {} \in SUBSET Terms
  BY DEF Kinds
<1>1. CASE delete_terminal(c)
  <2>1. PICK t \in Terms :
          /\ process[t] # Absent
          /\ teardown_to_next(c, {}, {t}) \/ (_teardown_terminal({}, {t}) /\ kill_all({t}) /\ Ends(c))
    BY <1>1 DEF delete_terminal
  <2>2. UNCHANGED <<output, sock, overlapped, wiped>>
    BY <1>1 DEF delete_terminal
  <2>3. CASE teardown_to_next(c, {}, {t})
    BY <2>1, <2>2, <2>3, TearsDown
  <2>4. CASE _teardown_terminal({}, {t}) /\ kill_all({t}) /\ Ends(c)
    <3>1. recordings' = Saved({t}) /\ Stopped({t}) /\ Replaced({t}, {}, "issue")
      BY <2>4, Stops, Killing DEF _teardown_terminal, OutputInv
    <3> QED
      BY <1>0, <2>2, <2>4, <3>1, CallOver, Replaces DEF OutputInv
  <2> QED
    BY <2>1, <2>3, <2>4
<1>2. CASE delete_closed(c)
  <2>1. calls[c].t \in Terms /\ calls[c].st = "closing"
    BY <1>2 DEF delete_closed, OutputInv, TermTypes
  <2>2. {calls[c].t} \subseteq Closing
    BY <2>1, SocketsAssumption DEF Closing
  <2>3. Replaced({calls[c].t}, {}, "issue") /\ recordings' = Saved({}) /\ Stopped({})
    BY <1>2, Killing, Untouched DEF delete_closed, OutputInv, sessionVars
  <2>4. UNCHANGED <<output, sock, overlapped, wiped>> /\ Ends(c)
    BY <1>2 DEF delete_closed, sessionVars
  <2>5. {calls[c].t} \in SUBSET Terms /\ {calls[c].t} \subseteq {} \cup Closing \cup wiped'
    BY <2>1, <2>2
  <2> QED
    BY <1>0, <2>3, <2>4, <2>5, CallOver, Replaces DEF OutputInv
<1>3. CASE delete_project(c)
  <2> DEFINE ts == list_active("issue") \cup list_active("project")
  <2>1. ts \in SUBSET Terms /\ stop_readers(ts) /\ kill_all(ts) /\ wiped' = wiped \cup ts /\ Ends(c)
        /\ UNCHANGED <<recordings, output, sock, overlapped>>
    BY <1>3 DEF delete_project, list_active
  <2> HIDE DEF ts
  <2>2. Replaced(ts, {}, "issue") /\ recordings' = Saved({}) /\ Stopped(ts)
    BY <2>1, Killing, Stops, Untouched DEF OutputInv
  <2> QED
    BY <1>0, <2>1, <2>2, CallOver, Replaces DEF OutputInv
<1>4. CASE cleanup_terminal(c)
  <2> DEFINE t == calls[c].t
  <2>1. t \in Terms
    BY <1>4 DEF cleanup_terminal, OutputInv, TermTypes
  <2>2. /\ recordings' = Saved({t}) /\ stop_readers({t}) /\ kill_all({t}) /\ Ends(c)
        /\ UNCHANGED <<output, sock, overlapped, wiped>>
    BY <1>4 DEF cleanup_terminal
  <2> HIDE DEF t
  <2>3. Replaced({t}, {}, "issue") /\ Stopped({t})
    BY <2>1, <2>2, Killing, Stops DEF OutputInv
  <2> QED
    BY <1>0, <2>1, <2>2, <2>3, CallOver, Replaces DEF OutputInv
<1> QED
  BY <1>1, <1>2, <1>3, <1>4

\* Sessions, readers and connections move.
LEMMA Rereads ==
  ASSUME OutputInv, UNCHANGED <<registryVars, wiped>>, Called({}), overlapped \subseteq overlapped',
         sessions' \in [Terms -> Objects \cup {None}], reader' = [o \in Objects |-> reader'[o]],
         sock' = [w \in Sockets |-> sock'[w]],
         \A w \in Sockets : IsSock(sock'[w]) /\ (sock'[w].st \in {"accepting", "replaying"} => sock'[w].t \in Terms),
         \A o \in Objects :
           /\ IsReader(reader'[o])
           /\ reader'[o].st # "none" =>
                /\ reader'[o].t \in Terms /\ process[reader'[o].t] # Absent
                /\ reader'[o].t \notin overlapped' => sessions'[reader'[o].t] = o,
         \A t \in Closing \ overlapped' : sessions'[t] = sessions[t]
  PROVE  OutputInv'
<1> USE DEF OutputInv
<1>1. /\ UNCHANGED <<terminals, buffers, process, recordings, output>>
      /\ \A t \in Terms : (is_alive(t)' <=> is_alive(t)) /\ (Filed(t)' <=> Filed(t))
  BY DEF registryVars, is_alive, Filed, Kept
<1>2. TermTypes'
  BY <1>1 DEF TermTypes, Called
<1>3. Registered'
  BY <1>1 DEF Registered, Kept
<1>4. ReadBySession'
  BY <1>1 DEF ReadBySession
<1>5. DownIsFiled'
  <2>1. \A c \in Callers :
          /\ calls'[c].st \in {"closing", "created", "waiting"} => process'[calls'[c].t] # Absent
          /\ \A t \in calls'[c].todo : process'[t] # Absent
    BY <1>1 DEF DownIsFiled, Called
  <2>2. \A t \in Closing' : t \in Closing
    BY DEF Called
  <2>3. \A t \in Terms \ (wiped' \cup overlapped') : t \in Terms \ (wiped \cup overlapped)
    OBVIOUS
  <2> QED
    BY <1>1, <2>1, <2>2, <2>3 DEF DownIsFiled
<1> QED
  BY <1>2, <1>3, <1>4, <1>5

\* No request moves.
LEMMA NoCalls == ASSUME TermTypes, UNCHANGED calls, NEW S PROVE Called(S)
BY DEF Called, TermTypes, Closing

\* A session gets its reader, when it has none and the terminal is there.
LEMMA GetsReader ==
  ASSUME OutputInv, NEW t \in Terms, NEW o \in Objects, reader' = _ensure_reader(t, o)
  PROVE  /\ reader' = [x \in Objects |-> reader'[x]]
         /\ \A x \in Objects :
              /\ IsReader(reader'[x])
              /\ \/ reader'[x] = reader[x]
                 \/ x = o /\ reader'[x].st = "reading" /\ reader'[x].t = t /\ process[t] # Absent
<1>1. CASE reader[o].st # "none" \/ ~is_alive(t)
  BY <1>1 DEF _ensure_reader, OutputInv, TermTypes
<1>2. CASE ~(reader[o].st # "none" \/ ~is_alive(t))
  <2> DEFINE r == [NoReader EXCEPT !.st = "reading", !.t = t]
  <2>1. IsReader(r) /\ r.st = "reading" /\ r.t = t
    BY DEF NoReader, IsReader
  <2>2. reader' = [reader EXCEPT ![o] = r] /\ process[t] # Absent
    BY <1>2 DEF _ensure_reader, OutputInv, Registered
  <2> HIDE DEF r
  <2> QED
    BY <2>1, <2>2 DEF OutputInv, TermTypes
<1> QED
  BY <1>1, <1>2

\* A connection joins the session of its terminal, or makes one.
LEMMA Registers ==
  ASSUME OutputInv, NEW w \in Sockets, sock[w].t \in Terms, register(w, sock[w].t, Closing),
         UNCHANGED <<registryVars, callVars>>
  PROVE  OutputInv'
<1> DEFINE t == sock[w].t
           o == IF sessions[t] = None THEN w ELSE sessions[t]
<1>1. /\ sock' = [sock EXCEPT ![w] = [sock[w] EXCEPT !.st = "open", !.o = o]]
      /\ sessions' = [sessions EXCEPT ![t] = o]
      /\ reader' = _ensure_reader(t, o)
      /\ overlapped' = overlapped \cup ({t} \cap Closing)
  BY Zenon DEF register
<1>2. /\ sock' = [v \in Sockets |-> sock'[v]]
      /\ \A v \in Sockets : IsSock(sock'[v]) /\ (sock'[v].st \in {"accepting", "replaying"} => sock'[v].t \in Terms)
  <2>1. ASSUME NEW x PROVE LET y == [sock[w] EXCEPT !.st = "open", !.o = x] IN IsSock(y) /\ y.st = "open"
    BY DEF OutputInv, TermTypes, IsSock
  <2> DEFINE y == [sock[w] EXCEPT !.st = "open", !.o = o]
  <2> HIDE DEF o
  <2>2. IsSock(y) /\ y.st = "open"
    BY <2>1, Zenon
  <2>3. sock' = [sock EXCEPT ![w] = y]
    BY <1>1
  <2> HIDE DEF y
  <2> QED
    BY <2>2, <2>3 DEF OutputInv, TermTypes
<1>3. o \in Objects
  BY DEF OutputInv, TermTypes, Objects
<1> HIDE DEF o
<1>4. /\ reader' = [x \in Objects |-> reader'[x]]
      /\ \A x \in Objects :
           /\ IsReader(reader'[x])
           /\ \/ reader'[x] = reader[x]
              \/ x = o /\ reader'[x].st = "reading" /\ reader'[x].t = t /\ process[t] # Absent
  BY <1>1, <1>3, GetsReader
<1>5. sessions' \in [Terms -> Objects \cup {None}] /\ sessions'[t] = o /\ \A x \in Terms \ {t} : sessions'[x] = sessions[x]
  BY <1>1, <1>3 DEF OutputInv, TermTypes
<1>6. \A x \in Objects : reader[x].st # "none" => reader[x].t \in Terms /\ process[reader[x].t] # Absent
                                                /\ (reader[x].t \notin overlapped => sessions[reader[x].t] = x)
  BY DEF OutputInv, TermTypes, ReadBySession
<1>7. \A x \in Objects : x # None
  BY SocketsAssumption DEF Objects
<1>8. ASSUME NEW x \in Objects, reader'[x].st # "none"
      PROVE  /\ reader'[x].t \in Terms /\ process[reader'[x].t] # Absent
             /\ reader'[x].t \notin overlapped' => sessions'[reader'[x].t] = x
  <2>1. CASE reader'[x] = reader[x]
    <3>1. sessions[t] = x => sessions'[t] = x
      BY <1>5, <1>7 DEF o
    <3>2. \A u \in Terms \ {t} : sessions[u] = x => sessions'[u] = x
      BY <1>5
    <3> QED
      BY <1>1, <1>6, <1>8, <2>1, <3>1, <3>2
  <2>2. CASE reader'[x] # reader[x]
    BY <1>4, <1>5, <1>8, <2>2
  <2> QED
    BY <2>1, <2>2
<1> QED
  BY <1>1, <1>2, <1>4, <1>5, <1>8, NoCalls, Rereads DEF OutputInv, callVars

\* accept() and the replay may find the terminal gone or being taken down.
LEMMA Connections ==
  ASSUME OutputInv, Connecting(Closing), UNCHANGED callVars
  PROVE  OutputInv'
<1>1. ASSUME NEW w \in Sockets, NEW y, IsSock(y), y.st \in {"accepting", "replaying"} => y.t \in Terms,
             sock' = [sock EXCEPT ![w] = y], UNCHANGED <<registryVars, sessions, reader, overlapped>>
      PROVE  OutputInv'
  <2>1. /\ sock' = [v \in Sockets |-> sock'[v]]
        /\ \A v \in Sockets : IsSock(sock'[v]) /\ (sock'[v].st \in {"accepting", "replaying"} => sock'[v].t \in Terms)
    BY <1>1 DEF OutputInv, TermTypes
  <2>2. /\ sessions' \in [Terms -> Objects \cup {None}] /\ reader' = [o \in Objects |-> reader'[o]]
        /\ \A o \in Objects :
             /\ IsReader(reader'[o])
             /\ reader'[o].st # "none" =>
                  /\ reader'[o].t \in Terms /\ process[reader'[o].t] # Absent
                  /\ reader'[o].t \notin overlapped' => sessions'[reader'[o].t] = o
    BY <1>1 DEF OutputInv, TermTypes, ReadBySession
  <2>3. Called({}) /\ UNCHANGED <<registryVars, wiped>> /\ overlapped \subseteq overlapped' /\ sessions' = sessions
    BY <1>1, NoCalls DEF OutputInv, callVars
  <2> QED
    BY <2>1, <2>2, <2>3, Rereads
<1>2. ASSUME NEW w \in Sockets, NEW st
      PROVE  LET y == [sock[w] EXCEPT !.st = st] IN IsSock(y) /\ y.st = st /\ y.t = sock[w].t
  <2>1. IsSock(sock[w])
    BY DEF OutputInv, TermTypes
  <2> QED
    BY <2>1 DEF IsSock
<1>3. ASSUME NEW w \in Sockets, NEW t \in Terms, ws_connect(w, t) PROVE OutputInv'
  <2> DEFINE st == IF is_alive(t) THEN "accepting" ELSE "closed"
             y == [sock[w] EXCEPT !.st = st, !.t = t]
  <2>1. IsSock(y) /\ y.t = t
    <3>1. IsSock(sock[w])
      BY DEF OutputInv, TermTypes
    <3>2. ASSUME NEW x PROVE LET z == [sock[w] EXCEPT !.st = x, !.t = t] IN IsSock(z) /\ z.t = t
      BY <3>1 DEF IsSock
    <3> HIDE DEF st
    <3> QED
      BY <3>2, Zenon
  <2>2. sock' = [sock EXCEPT ![w] = y] /\ UNCHANGED <<registryVars, sessions, reader, overlapped>>
    BY <1>3 DEF ws_connect
  <2> HIDE DEF y
  <2> QED
    BY <1>1, <2>1, <2>2
<1>4. ASSUME NEW w \in Sockets, NEW st \in {"closed", "replaying"}, sock' = [sock EXCEPT ![w] = [sock[w] EXCEPT !.st = st]],
             st = "replaying" => sock[w].t \in Terms, UNCHANGED <<registryVars, sessions, reader, overlapped>>
      PROVE  OutputInv'
  <2> DEFINE y == [sock[w] EXCEPT !.st = st]
  <2>1. IsSock(y) /\ y.st = st /\ y.t = sock[w].t
    BY <1>2, Zenon
  <2>2. sock' = [sock EXCEPT ![w] = y]
    BY <1>4
  <2> HIDE DEF y
  <2> QED
    BY <1>1, <1>4, <2>1, <2>2
<1>5. ASSUME NEW w \in Sockets, ws_accepted(w, Closing) PROVE OutputInv'
  <2>1. sock[w].t \in Terms /\ UNCHANGED registryVars
    BY <1>5 DEF ws_accepted, OutputInv, TermTypes
  <2>2. CASE register(w, sock[w].t, Closing)
    BY <2>1, <2>2, Registers
  <2>3. CASE ~register(w, sock[w].t, Closing)
    <3>1. \E st \in {"closed", "replaying"} : sock' = [sock EXCEPT ![w] = [sock[w] EXCEPT !.st = st]]
      BY <1>5, <2>3 DEF ws_accepted
    <3>2. UNCHANGED <<sessions, reader, overlapped>>
      BY <1>5, <2>3 DEF ws_accepted
    <3> QED
      BY <1>4, <2>1, <3>1, <3>2
  <2> QED
    BY <2>2, <2>3
<1>6. ASSUME NEW w \in Sockets, ws_replayed(w, Closing) PROVE OutputInv'
  <2>1. sock[w].t \in Terms
    BY <1>6 DEF ws_replayed, OutputInv, TermTypes
  <2> QED
    BY <1>6, <2>1, Registers DEF ws_replayed
<1>7. ASSUME NEW w \in Sockets, ws_closed(w) PROVE OutputInv'
  BY <1>4, <1>7 DEF ws_closed
<1> QED
  BY <1>3, <1>5, <1>6, <1>7 DEF Connecting

\* The session of a step.
LEMMA RunsStep == ASSUME OutputInv, NEW c \in Callers, _run_step(c) PROVE OutputInv'
<1> DEFINE t == calls[c].t
<1>1. t \in Terms /\ UNCHANGED <<registryVars, sock, wiped>>
  BY DEF _run_step, OutputInv, TermTypes
<1>2. CASE is_alive(t)
  <2>1. /\ sessions' = [sessions EXCEPT ![t] = t] /\ reader' = _ensure_reader(t, t)
        /\ overlapped' = overlapped \cup ({t} \cap (Closing \cup {x \in Terms : sessions[x] # None}))
        /\ calls' = [calls EXCEPT ![c] = [calls[c] EXCEPT !.st = "waiting"]] /\ calls[c].st = "created"
    BY <1>2 DEF _run_step, step
  <2>2. Called({})
    <3> DEFINE y == [calls[c] EXCEPT !.st = "waiting"]
    <3>1. IsCall(y) /\ y.st = "waiting" /\ y.todo = calls[c].todo /\ y.t = calls[c].t
      BY CallStep, Zenon DEF OutputInv
    <3>2. calls' = [calls EXCEPT ![c] = y] /\ process' = process
      BY <1>1, <2>1 DEF registryVars
    <3>3. process[t] # Absent /\ \A x \in calls[c].todo : process[x] # Absent
      BY <2>1 DEF OutputInv, DownIsFiled
    <3> HIDE DEF y
    <3> QED
      BY <1>1, <3>1, <3>2, <3>3, Calls DEF OutputInv
  <2> HIDE DEF t
  <2>3. /\ reader' = [x \in Objects |-> reader'[x]]
        /\ \A x \in Objects :
             /\ IsReader(reader'[x])
             /\ \/ reader'[x] = reader[x]
                \/ x = t /\ reader'[x].st = "reading" /\ reader'[x].t = t /\ process[t] # Absent
    BY <1>1, <2>1, GetsReader DEF Objects
  <2>4. sessions' \in [Terms -> Objects \cup {None}] /\ sessions'[t] = t /\ \A x \in Terms \ {t} : sessions'[x] = sessions[x]
    BY <1>1, <2>1 DEF OutputInv, TermTypes, Objects
  <2>5. \A x \in Objects : reader[x].st # "none" => reader[x].t \in Terms /\ process[reader[x].t] # Absent
                                                  /\ (reader[x].t \notin overlapped => sessions[reader[x].t] = x)
    BY DEF OutputInv, TermTypes, ReadBySession
  <2>6. \A x \in Objects : x # None
    BY SocketsAssumption DEF Objects
  <2>7. ASSUME NEW x \in Objects, reader'[x].st # "none"
        PROVE  /\ reader'[x].t \in Terms /\ process[reader'[x].t] # Absent
               /\ reader'[x].t \notin overlapped' => sessions'[reader'[x].t] = x
    BY <1>1, <2>1, <2>3, <2>4, <2>5, <2>6, <2>7
  <2>8. /\ sock' = [w \in Sockets |-> sock'[w]]
        /\ \A w \in Sockets : IsSock(sock'[w]) /\ (sock'[w].st \in {"accepting", "replaying"} => sock'[w].t \in Terms)
    BY <1>1 DEF OutputInv, TermTypes
  <2> QED
    BY <1>1, <2>1, <2>2, <2>3, <2>4, <2>7, <2>8, Rereads
<1>3. CASE ~is_alive(t)
  <2>1. Ends(c) /\ UNCHANGED sessionVars
    BY <1>3 DEF _run_step, sessionVars
  <2>2. Called({})
    BY <2>1, CallOver DEF OutputInv
  <2> QED
    BY <1>1, <2>1, <2>2, OnlyCalls
<1> QED
  BY <1>2, <1>3

\* What is read is read by the session of a terminal that is not being taken down.
LEMMA ReadsOutput ==
  ASSUME OutputInv, NEW o \in Objects, reader_output(o), UNCHANGED callVars
  PROVE  OutputInv'
<1> DEFINE t == reader[o].t
           n == output[t] + 1
<1> USE DEF OutputInv
<1>1. /\ reader[o].st = "reading" /\ process[t] = "running" /\ output[t] < MaxOutput
      /\ reader' = [reader EXCEPT ![o] = IF ws[o] = None THEN reader[o]
                                         ELSE [reader[o] EXCEPT !.st = "sending", !.to = ws[o], !.n = output'[t]]]
      /\ UNCHANGED <<terminals, process, recordings, sessions, sock, overlapped, callVars>>
  BY DEF reader_output
<1>2. t \in Terms
  BY <1>1 DEF TermTypes
<1> HIDE DEF t
<1>3. /\ output[t] \in 0..MaxOutput - 1 /\ n \in 1..MaxOutput /\ output'[t] = n /\ output' \in [Terms -> 0..MaxOutput]
      /\ \A x \in Terms \ {t} : output'[x] = output[x]
  BY <1>1, <1>2, BoundsAssumption DEF reader_output, append_output, TermTypes, t
<1> HIDE DEF n
<1>4. is_alive(t) /\ buffers[t] = Kept(output[t]) /\ buffers[t] # Absent
  <2>1. is_alive(t)
    BY <1>1, <1>2 DEF Registered
  <2>2. Kept(output[t]) # Absent
    <3>1. output[t] \in 0..MaxOutput
      BY <1>3, BoundsAssumption
    <3> QED
      BY <3>1, KeptOutput
  <2> QED
    BY <1>2, <2>1, <2>2 DEF Registered
<1>5. /\ buffers' = [x \in Terms |-> buffers'[x]] /\ buffers'[t] = Kept(output'[t])
      /\ \A x \in Terms \ {t} : buffers'[x] = buffers[x]
  <2>1. buffers' = [buffers EXCEPT ![t] = IF buffers[t] = Absent THEN buffers[t]
                                          ELSE {i \in buffers[t] \cup {n} : i + MaxBuffer > n}]
    BY <1>1, <1>2, <1>3 DEF reader_output, append_output, t
  <2>2. {i \in Kept(output[t]) \cup {n} : i + MaxBuffer > n} = Kept(n)
    BY <1>3, KeptOutput DEF n
  <2> QED
    BY <1>2, <1>3, <1>4, <2>1, <2>2 DEF TermTypes
<1>6. /\ reader' = [x \in Objects |-> reader'[x]]
      /\ \A x \in Objects : /\ IsReader(reader'[x]) /\ reader'[x].t = reader[x].t
                            /\ (reader'[x].st # "none" => reader[x].st # "none")
  <2>1. ASSUME NEW v, NEW m
        PROVE  LET y == [reader[o] EXCEPT !.st = "sending", !.to = v, !.n = m] IN IsReader(y) /\ y.t = reader[o].t
    BY DEF TermTypes, IsReader
  <2> DEFINE y == [reader[o] EXCEPT !.st = "sending", !.to = ws[o], !.n = output'[t]]
  <2>2. IsReader(y) /\ y.t = reader[o].t
    BY <2>1, Zenon
  <2>3. reader' = [reader EXCEPT ![o] = IF ws[o] = None THEN reader[o] ELSE y]
    BY <1>1
  <2> HIDE DEF y
  <2> QED
    BY <1>1, <2>2, <2>3 DEF TermTypes
<1>7. TermTypes'
  BY <1>1, <1>3, <1>5, <1>6 DEF TermTypes, callVars
<1>8. Registered'
  <2>1. ASSUME NEW x \in Terms
        PROVE  /\ is_alive(x)' => buffers'[x] = Kept(output'[x])
               /\ ~is_alive(x)' => buffers'[x] = Absent /\ process'[x] # "running"
               /\ process'[x] = Absent => ~is_alive(x)' /\ output'[x] = 0
               /\ output'[x] = 0 => recordings'[x] = Absent
    <3>1. CASE x = t
      BY <1>1, <1>3, <1>4, <1>5, <3>1, AbsentAssumption DEF is_alive, t
    <3>2. CASE x # t
      BY <1>1, <1>3, <1>5, <3>2 DEF is_alive, Registered
    <3> QED
      BY <3>1, <3>2
  <2> QED
    BY <2>1 DEF Registered, Kept
<1>9. ReadBySession'
  BY <1>1, <1>6 DEF ReadBySession
<1>10. DownIsFiled'
  <2>1. Closing' = Closing
    BY <1>1 DEF Closing, callVars
  <2>2. t \in Closing => t \in wiped \cup overlapped
    <3>1. o # None
      BY SocketsAssumption DEF Objects
    <3>2. t \notin overlapped => sessions[t] = o
      BY <1>1 DEF ReadBySession, t
    <3> QED
      BY <1>2, <1>4, <3>1, <3>2 DEF DownIsFiled
  <2>3. \A x \in Terms \ {t} : (is_alive(x)' <=> is_alive(x)) /\ (Filed(x) => Filed(x)')
    BY <1>1, <1>3 DEF is_alive, Filed, Kept
  <2>4. t \in Terms /\ terminals'[t] # Absent
    BY <1>1, <1>2, <1>4 DEF is_alive
  <2>5. \A x \in Terms \ (wiped' \cup overlapped') :
          /\ process'[x] # Absent /\ ~is_alive(x)' => Filed(x)'
          /\ x \in Closing' /\ is_alive(x)' => Filed(x)' /\ sessions'[x] = None
    <3> SUFFICES ASSUME NEW x \in Terms \ (wiped' \cup overlapped')
                 PROVE  /\ process'[x] # Absent /\ ~is_alive(x)' => Filed(x)'
                        /\ x \in Closing' /\ is_alive(x)' => Filed(x)' /\ sessions'[x] = None
      OBVIOUS
    <3>1. UNCHANGED <<wiped, overlapped, process, sessions>>
      BY <1>1 DEF callVars
    <3>2. CASE x = t
      BY <2>1, <2>2, <2>4, <3>1, <3>2 DEF is_alive
    <3>3. CASE x # t
      BY <2>1, <2>3, <3>1, <3>3 DEF DownIsFiled
    <3> QED
      BY <3>2, <3>3
  <2> QED
    BY <1>1, <2>5 DEF DownIsFiled, callVars
<1> QED
  BY <1>7, <1>8, <1>9, <1>10

\* A message to the client, or the end of the output with the save.
LEMMA ReadsOn ==
  ASSUME OutputInv, NEW o \in Objects, (\E ok \in BOOLEAN : reader_sent(o, ok)) \/ reader_eof(o), UNCHANGED callVars
  PROVE  OutputInv'
<1> DEFINE t == reader[o].t
<1>0. IsReader(NoReader) /\ NoReader.st = "none"
  BY DEF NoReader, IsReader
<1>1. ASSUME NEW ok \in BOOLEAN, reader_sent(o, ok) PROVE OutputInv'
  <2> DEFINE r == [NoReader EXCEPT !.st = "reading", !.t = t]
  <2>1. IsReader(r) /\ r.st = "reading" /\ r.t = t
    BY DEF NoReader, IsReader
  <2>2. reader' = [reader EXCEPT ![o] = r] /\ reader[o].st # "none"
        /\ UNCHANGED <<registryVars, sessions, sock, overlapped>>
    BY <1>1 DEF reader_sent
  <2> HIDE DEF r
  <2>3. reader' = [x \in Objects |-> reader'[x]]
        /\ \A x \in Objects :
           /\ IsReader(reader'[x])
           /\ reader'[x].st # "none" =>
                /\ reader'[x].t \in Terms /\ process[reader'[x].t] # Absent
                /\ reader'[x].t \notin overlapped => sessions[reader'[x].t] = x
    BY <2>1, <2>2 DEF OutputInv, TermTypes, ReadBySession
  <2>4. Called({}) /\ UNCHANGED wiped
    BY NoCalls DEF OutputInv, callVars
  <2>5. /\ sock' = [w \in Sockets |-> sock'[w]] /\ sessions' \in [Terms -> Objects \cup {None}]
        /\ \A w \in Sockets : IsSock(sock'[w]) /\ (sock'[w].st \in {"accepting", "replaying"} => sock'[w].t \in Terms)
    BY <2>2 DEF OutputInv, TermTypes
  <2> QED
    BY <2>2, <2>3, <2>4, <2>5, Rereads
<1>2. CASE reader_eof(o)
  <2>1. /\ reader[o].st = "reading" /\ process[t] \in {"exited", "killed"} /\ recordings' = Saved({t})
        /\ unregister({t}) /\ reader' = [reader EXCEPT ![o] = NoReader]
        /\ UNCHANGED <<process, output, sessions, sock, overlapped>>
    BY <1>2 DEF reader_eof, mark_closed
  <2>2. t \in Terms
    BY <2>1 DEF OutputInv, TermTypes
  <2> HIDE DEF t
  <2>3. Replaced({t}, {}, "issue")
    BY <2>1 DEF unregister, Replaced, Killed, OutputInv, TermTypes
  <2>4. Stopped({})
    BY <1>0, <2>1 DEF Stopped, OutputInv, TermTypes
  <2>5. Called({t} \cap {}) /\ UNCHANGED wiped
    BY NoCalls DEF OutputInv, callVars
  <2>6. "issue" \in Kinds /\ {} \in SUBSET Fresh /\ {} \in SUBSET Terms /\ {t} \in SUBSET Terms
    BY <2>2 DEF Kinds
  <2> QED
    BY <2>1, <2>3, <2>4, <2>5, <2>6, Replaces
<1> QED
  BY <1>1, <1>2

\* A process ends by itself: its terminal stays until its reader has seen it.
LEMMA ProcessEnds ==
  ASSUME OutputInv, NEW t \in Terms, Exits(t), UNCHANGED <<sessionVars, callVars>>
  PROVE  OutputInv'
<1> USE DEF OutputInv
<1>1. /\ UNCHANGED <<terminals, buffers, recordings, output, sessions, reader, sock, calls, wiped, overlapped>>
      /\ process[t] = "running" /\ process' = [process EXCEPT ![t] = "exited"]
  BY DEF Exits, sessionVars, callVars
<1>2. /\ process' = [x \in Terms |-> process'[x]]
      /\ \A x \in Terms : /\ process'[x] = Absent <=> process[x] = Absent
                          /\ process'[x] = "running" => process[x] = "running"
                          /\ (is_alive(x)' <=> is_alive(x)) /\ (Filed(x)' <=> Filed(x))
  <2>1. /\ process' = [x \in Terms |-> process'[x]] /\ process'[t] = "exited"
        /\ \A x \in Terms \ {t} : process'[x] = process[x]
    BY <1>1 DEF TermTypes
  <2>2. Absent # "exited" /\ Absent # "running"
    BY AbsentAssumption
  <2>3. \A x \in Terms : (is_alive(x)' <=> is_alive(x)) /\ (Filed(x)' <=> Filed(x))
    BY <1>1 DEF is_alive, Filed, Kept
  <2> QED
    BY <1>1, <2>1, <2>2, <2>3
<1>3. TermTypes'
  BY <1>1, <1>2 DEF TermTypes
<1>4. Registered'
  BY <1>1, <1>2 DEF Registered, Kept
<1>5. ReadBySession'
  BY <1>1, <1>2 DEF ReadBySession, TermTypes
<1>6. DownIsFiled'
  <2>1. Closing' = Closing
    BY <1>1 DEF Closing
  <2>2. \A c \in Callers : calls[c].todo \subseteq Terms
    BY DEF TermTypes, IsCall
  <2> QED
    BY <1>1, <1>2, <2>1, <2>2 DEF DownIsFiled, TermTypes
<1> QED
  BY <1>3, <1>4, <1>5, <1>6

\* A terminal that is made with its reader.
LEMMA CreatesLog == ASSUME OutputInv, NEW c \in Callers, create_log_terminal(c) PROVE OutputInv'
<1> USE DEF OutputInv
<1>1. PICK t \in Fresh :
        /\ create_log(t)
        /\ sessions' = [sessions EXCEPT ![t] = t]
        /\ reader' = [reader EXCEPT ![t] = [NoReader EXCEPT !.st = "reading", !.t = t]]
  BY Zenon DEF create_log_terminal
<1>2. Ends(c) /\ UNCHANGED <<recordings, output, sock, overlapped, wiped>>
  BY <1>1 DEF create_log_terminal, create_log
<1>3. /\ t \in Terms /\ ~is_alive(t) /\ process[t] = Absent
      /\ terminals' = [terminals EXCEPT ![t] = "log"]
      /\ buffers' = [buffers EXCEPT ![t] = {}]
      /\ process' = [process EXCEPT ![t] = "log"]
  BY <1>1 DEF create_log, Fresh
<1>4. "log" \in Kinds /\ Absent # "log"
  BY AbsentAssumption DEF Kinds
<1>5. /\ reader' = [x \in Objects |-> reader'[x]]
      /\ \A x \in Objects \ {t} : reader'[x] = reader[x]
      /\ IsReader(reader'[t]) /\ reader'[t].t = t
  <2> DEFINE r == [NoReader EXCEPT !.st = "reading", !.t = t]
  <2>1. IsReader(r) /\ r.t = t
    BY DEF NoReader, IsReader
  <2>2. reader' = [reader EXCEPT ![t] = r]
    BY <1>1
  <2> HIDE DEF r
  <2> QED
    BY <1>3, <2>1, <2>2 DEF TermTypes, Objects
<1>6. /\ sessions' \in [Terms -> Objects \cup {None}] /\ sessions'[t] = t /\ \A x \in Terms \ {t} : sessions'[x] = sessions[x]
  BY <1>1, <1>3 DEF TermTypes, Objects
<1>7. /\ is_alive(t)' /\ process'[t] = "log" /\ buffers'[t] = {} /\ output[t] = 0
      /\ \A x \in Terms \ {t} : (is_alive(x)' <=> is_alive(x)) /\ process'[x] = process[x] /\ buffers'[x] = buffers[x]
  BY <1>3, <1>4 DEF TermTypes, Registered, is_alive
<1>8. Called({})
  BY <1>2, CallOver
<1>9. TermTypes'
  <2>1. /\ terminals' \in [Terms -> Kinds \cup {Absent}]
        /\ buffers' = [x \in Terms |-> buffers'[x]] /\ process' = [x \in Terms |-> process'[x]]
    BY <1>3, <1>4 DEF TermTypes
  <2>2. \A o \in Objects : IsReader(reader'[o]) /\ (reader'[o].st # "none" => reader'[o].t \in Terms)
    BY <1>3, <1>5 DEF TermTypes
  <2> QED
    BY <1>2, <1>5, <1>6, <1>8, <2>1, <2>2 DEF TermTypes, Called
<1>10. Registered'
  <2>1. \A x \in Terms :
          /\ terminals'[x] # Absent => buffers'[x] = Kept(output[x])
          /\ terminals'[x] = Absent => buffers'[x] = Absent /\ process'[x] # "running"
          /\ process'[x] = Absent => terminals'[x] = Absent /\ output[x] = 0
          /\ output[x] = 0 => recordings[x] = Absent
    BY <1>3, <1>4, <1>7, KeptOutput DEF Registered, is_alive
  <2> QED
    BY <1>2, <2>1 DEF Registered, is_alive, Kept
<1>11. ReadBySession'
  BY <1>2, <1>3, <1>4, <1>5, <1>6, <1>7 DEF ReadBySession, TermTypes
<1>12. DownIsFiled'
  <2>1. \A d \in Callers :
          /\ calls'[d].st \in {"closing", "created", "waiting"} => process'[calls'[d].t] # Absent
          /\ \A x \in calls'[d].todo : process'[x] # Absent
    <3>1. \A x \in Terms : process[x] # Absent => process'[x] # Absent
      BY <1>3, <1>4, <1>7
    <3>2. \A d \in Callers :
            /\ calls[d].todo \subseteq Terms
            /\ calls[d].st \in {"closing", "created", "waiting"} => calls[d].t \in Terms
      BY DEF TermTypes, IsCall
    <3>3. ASSUME NEW d \in Callers
          PROVE  /\ calls[d].st \in {"closing", "created", "waiting"} => process'[calls[d].t] # Absent
                 /\ \A x \in calls[d].todo : process'[x] # Absent
      <4>1. calls[d].st \in {"closing", "created", "waiting"} => process[calls[d].t] # Absent
        BY DEF DownIsFiled
      <4>2. \A x \in calls[d].todo : process[x] # Absent
        BY DEF DownIsFiled
      <4>3. \A x \in calls[d].todo : process'[x] # Absent
        BY <3>1, <3>2, <4>2
      <4>4. calls[d].st \in {"closing", "created", "waiting"} => process'[calls[d].t] # Absent
        BY <3>1, <3>2, <4>1
      <4> QED
        BY <4>3, <4>4
    <3> QED
      BY <1>8, <3>3 DEF Called
  <2>2. \A x \in Closing' : x \in Closing /\ x # t
    <3>1. \A x \in Closing : process[x] # Absent
      BY DEF Closing, DownIsFiled
    <3>2. \A x \in Closing' : x \in Closing
      BY <1>8 DEF Called
    <3> QED
      BY <1>3, <3>1, <3>2
  <2>3. \A x \in Terms : Filed(x)' <=> Filed(x)
    BY <1>2 DEF Filed, Kept
  <2> QED
    BY <1>2, <1>6, <1>7, <2>1, <2>2, <2>3 DEF DownIsFiled
<1> QED
  BY <1>9, <1>10, <1>11, <1>12

\* At first there is no terminal.
LEMMA OutputInit == Init => OutputInv
<1> SUFFICES ASSUME NEW s \in Scenarios, TerminalsInit(s.calls, s.sockets) PROVE OutputInv
  BY DEF Init
<1>1. RegistryInit /\ SessionsInit(s.sockets) /\ CallsInit(s.calls)
  BY DEF TerminalsInit
<1>2. IsReader(NoReader) /\ NoReader.st = "none"
  BY DEF IsReader, NoReader
<1>3. \A c \in Callers : IsCall(calls[c]) /\ calls[c].st \in {"none", "new"} /\ calls[c].todo = {}
  <2>1. IsCall(NoCall) /\ NoCall.st = "none" /\ NoCall.todo = {}
    BY DEF IsCall, NoCall
  <2>2. \A k : LET y == [NoCall EXCEPT !.kind = k, !.st = "new"] IN IsCall(y) /\ y.st = "new" /\ y.todo = {}
    BY DEF IsCall, NoCall
  <2>3. \A c \in Callers : calls[c] = IF s.calls[c] = "none" THEN NoCall ELSE [NoCall EXCEPT !.kind = s.calls[c], !.st = "new"]
    BY <1>1 DEF CallsInit
  <2>4. ASSUME NEW c \in Callers PROVE IsCall(calls[c]) /\ calls[c].st \in {"none", "new"} /\ calls[c].todo = {}
    <3>1. CASE s.calls[c] = "none"
      BY <2>1, <2>3, <3>1
    <3>2. CASE s.calls[c] # "none"
      <4>1. calls[c] = [NoCall EXCEPT !.kind = s.calls[c], !.st = "new"]
        BY <2>3, <3>2
      <4>2. IsCall(calls[c]) /\ calls[c].st = "new" /\ calls[c].todo = {}
        BY <2>2, <4>1, Zenon
      <4> QED
        BY <4>2
    <3> QED
      BY <3>1, <3>2
  <2> QED
    BY <2>4
<1>4. \A w \in Sockets : IsSock(sock[w]) /\ sock[w].st \in {"new", "closed"}
  BY <1>1 DEF SessionsInit, IsSock
<1>5. TermTypes
  <2>1. /\ terminals = [t \in Terms |-> Absent] /\ buffers = [t \in Terms |-> Absent] /\ process = [t \in Terms |-> Absent]
        /\ recordings = [t \in Terms |-> Absent] /\ output = [t \in Terms |-> 0]
        /\ sessions = [t \in Terms |-> None] /\ reader = [o \in Objects |-> NoReader]
        /\ sock = [w \in Sockets |-> sock[w]] /\ calls = [c \in Callers |-> calls[c]]
    BY <1>1 DEF RegistryInit, SessionsInit, CallsInit
  <2> QED
    BY <1>2, <1>3, <1>4, <2>1, BoundsAssumption DEF TermTypes
<1>6. Registered
  BY <1>1, AbsentAssumption DEF Registered, RegistryInit, is_alive
<1>7. ReadBySession
  BY <1>1, <1>2 DEF ReadBySession, SessionsInit
<1>8. DownIsFiled
  BY <1>1, <1>3 DEF DownIsFiled, RegistryInit, Closing
<1> QED
  BY <1>5, <1>6, <1>7, <1>8 DEF OutputInv

\* OutputInv is an invariant.
LEMMA OutputHolds == Spec => []OutputInv
<1>1. OutputInv /\ [Next]_vars => OutputInv'
  <2> SUFFICES ASSUME OutputInv, [Next]_vars PROVE OutputInv'
    OBVIOUS
  <2>1. CASE Working
    BY <2>1, Looks, Creates, Reaps, Deletes, RunsStep, CreatesLog DEF Working
  <2>2. CASE Reading /\ UNCHANGED callVars
    BY <2>2, ReadsOutput, ReadsOn DEF Reading
  <2>3. CASE Connecting(Closing) /\ UNCHANGED callVars
    BY <2>3, Connections
  <2>4. CASE (\E t \in Terms : Exits(t)) /\ UNCHANGED <<sessionVars, callVars>>
    BY <2>4, ProcessEnds
  <2>5. CASE UNCHANGED termVars
    <3>1. Called({}) /\ UNCHANGED <<registryVars, sessionVars, wiped>>
      BY <2>5, NoCalls DEF OutputInv, termVars, callVars
    <3> QED
      BY <3>1, OnlyCalls
  <2> QED
    BY <2>1, <2>2, <2>3, <2>4, <2>5 DEF Next, TerminalsNext, vars
<1> QED
  BY <1>1, OutputInit, PTL DEF Spec

\* All that was read from a terminal can be read again, from its buffer or its recording, whatever
\* readers, connections, deletions and replacements do (_save_recording before every teardown).
THEOREM OutputIsKept == Spec => []OutputKept
<1>1. OutputInv => OutputKept
  <2> SUFFICES ASSUME OutputInv, NEW t \in Terms \ (wiped \cup overlapped) PROVE get_terminal_recording(t) = Kept(output[t])
    BY DEF OutputKept
  <2>1. output[t] \in 0..MaxOutput
    BY DEF OutputInv, TermTypes
  <2>2. CASE is_alive(t)
    BY <2>1, <2>2, KeptOutput DEF OutputInv, Registered, get_terminal_recording, get_buffered_output
  <2>3. CASE ~is_alive(t)
    BY <2>1, <2>3, KeptOutput DEF OutputInv, Registered, DownIsFiled, Filed, get_terminal_recording,
       get_buffered_output
  <2> QED
    BY <2>2, <2>3
<1> QED
  BY <1>1, OutputHolds, PTL

(***************************************************************************)
(* The terminals of a place                                                *)
(***************************************************************************)

\* A request that is about to make a terminal no other one must make.
Vying(x) == (x.kind = "issue" /\ x.st = "looking") \/ (x.kind \in {"ask", "manage"} /\ x.st = "closing")

\* Nobody comes to vie, and no terminal of the kinds vied for is made.
LEMMA NobodyVies ==
  ASSUME PlaceInv, crossed \subseteq crossed',
         \A t \in Terms : terminals'[t] = terminals[t] \/ terminals'[t] \notin {"issue", "ask", "manage"},
         \A c \in Callers : Vying(calls'[c]) => calls'[c] = calls[c]
  PROVE  PlaceInv'
<1> SUFFICES ASSUME NEW k \in {"issue", "ask", "manage"} \ crossed'
             PROVE  /\ \A t, u \in Terms : terminals'[t] = k /\ terminals'[u] = k => t = u
                    /\ k = "issue" =>
                         /\ OneAtATime(k, "looking")'
                         /\ \A c \in Callers : calls'[c].kind = k /\ calls'[c].st = "looking" =>
                              \A t \in Terms : terminals'[t] # k
                    /\ k # "issue" =>
                         /\ OneAtATime(k, "closing")'
                         /\ \A c \in Callers : calls'[c].kind = k /\ calls'[c].st = "closing" =>
                              \A t \in Terms : terminals'[t] = k => t = calls'[c].t \/ t \in calls'[c].todo
  BY DEF PlaceInv
<1>1. k \in {"issue", "ask", "manage"} \ crossed /\ \A t \in Terms : terminals'[t] = k => terminals[t] = k
  OBVIOUS
<1>2. \A t, u \in Terms : terminals'[t] = k /\ terminals'[u] = k => t = u
  BY <1>1 DEF PlaceInv
<1>3. CASE k = "issue"
  BY <1>1, <1>2, <1>3 DEF PlaceInv, OneAtATime, Vying
<1>4. CASE k # "issue"
  BY <1>1, <1>2, <1>4 DEF PlaceInv, OneAtATime, Vying
<1> QED
  BY <1>3, <1>4

\* One request moves to x.
LEMMA CallMoves ==
  ASSUME TermTypes, NEW c \in Callers, NEW x, calls' = [calls EXCEPT ![c] = x]
  PROVE  calls'[c] = x /\ \A d \in Callers \ {c} : calls'[d] = calls[d]
BY DEF TermTypes

\* Who ends does not vie.
LEMMA OverVies == ASSUME TermTypes, NEW c \in Callers, Ends(c) PROVE \A d \in Callers : Vying(calls'[d]) => calls'[d] = calls[d]
<1>1. calls'[c] = NoCall /\ \A d \in Callers \ {c} : calls'[d] = calls[d]
  BY CallMoves DEF Ends
<1>2. ~Vying(NoCall)
  BY DEF Vying, NoCall
<1> QED
  BY <1>1, <1>2

\* The guard of create_terminal: nobody goes on to look when there is a terminal.
LEMMA LookingForIssue == ASSUME TermTypes, PlaceInv, NEW c \in Callers, create_terminal(c) PROVE PlaceInv'
<1>1. /\ calls[c].kind = "issue" /\ UNCHANGED terminals
      /\ crossed' = crossed \cup {k \in {"issue"} : Others(c, k, "looking")}
  BY DEF create_terminal, registryVars
<1>2. CASE Ends(c)
  BY <1>1, <1>2, OverVies, NobodyVies
<1>3. CASE list_active("issue") = {} /\ step(c, "looking")
  <2> DEFINE y == [calls[c] EXCEPT !.st = "looking"]
  <2>1. IsCall(y) /\ y.st = "looking" /\ y.kind = "issue"
    BY <1>1, CallStep, Zenon
  <2>2. calls' = [calls EXCEPT ![c] = y]
    BY <1>3 DEF step
  <2> HIDE DEF y
  <2>3. calls'[c] = y /\ \A d \in Callers \ {c} : calls'[d] = calls[d]
    BY <2>2, CallMoves
  <2>4. \A t \in Terms : terminals[t] # "issue"
    BY <1>3, AbsentAssumption DEF list_active, Place, is_alive, Kinds
  <2>5. ASSUME "issue" \notin crossed' PROVE \A d \in Callers \ {c} : ~(calls[d].kind = "issue" /\ calls[d].st = "looking")
    BY <1>1, <2>5 DEF Others
  <2>6. ASSUME NEW k \in {"ask", "manage"} \ crossed'
        PROVE  /\ \A t, u \in Terms : terminals'[t] = k /\ terminals'[u] = k => t = u
               /\ OneAtATime(k, "closing")'
               /\ \A d \in Callers : calls'[d].kind = k /\ calls'[d].st = "closing" =>
                    \A t \in Terms : terminals'[t] = k => t = calls'[d].t \/ t \in calls'[d].todo
    <3>1. k \in {"issue", "ask", "manage"} \ crossed /\ k # "issue"
      BY <1>1, <2>6
    <3>2. \A d \in Callers : calls'[d].kind = k => calls'[d] = calls[d]
      BY <2>1, <2>3, <3>1
    <3> QED
      BY <1>1, <3>1, <3>2 DEF PlaceInv, OneAtATime
  <2>7. ASSUME "issue" \notin crossed' PROVE OneAtATime("issue", "looking")'
    BY <2>3, <2>5, <2>7 DEF OneAtATime
  <2> QED
    BY <1>1, <2>4, <2>6, <2>7 DEF PlaceInv
<1> QED
  BY <1>2, <1>3 DEF create_terminal

\* The one that looked makes the terminal; no other was looking.
LEMMA IssueCreated == ASSUME TermTypes, PlaceInv, NEW c \in Callers, created(c) PROVE PlaceInv'
<1>1. PICK t \in Fresh :
        /\ create(t, calls[c].kind)
        /\ IF calls[c].kind = "issue" THEN Ends(c)
           ELSE calls' = [calls EXCEPT ![c] = [calls[c] EXCEPT !.st = "created", !.t = t]]
  BY Zenon DEF created
<1>2. /\ calls[c].kind \in {"issue", "step"} /\ calls[c].st = "looking" /\ crossed' = crossed
      /\ t \in Terms /\ terminals'[t] = calls[c].kind /\ \A u \in Terms \ {t} : terminals'[u] = terminals[u]
  BY <1>1 DEF created, create, replace, Fresh
<1>3. CASE calls[c].kind = "step"
  <2>1. calls' = [calls EXCEPT ![c] = [calls[c] EXCEPT !.st = "created", !.t = t]]
    BY <1>1, <1>3
  <2> DEFINE y == [calls[c] EXCEPT !.st = "created", !.t = t]
  <2>2. y.st = "created"
    BY DEF TermTypes, IsCall
  <2>3. calls'[c] = y /\ \A d \in Callers \ {c} : calls'[d] = calls[d]
    BY <2>1, CallMoves
  <2> HIDE DEF y
  <2> QED
    BY <1>2, <1>3, <2>2, <2>3, NobodyVies DEF Vying
<1>4. CASE calls[c].kind = "issue"
  <2>1. Ends(c)
    BY <1>1, <1>4
  <2>2. calls'[c] = NoCall /\ \A d \in Callers \ {c} : calls'[d] = calls[d]
    BY <2>1, CallMoves DEF Ends
  <2>3. NoCall.st = "none"
    BY DEF NoCall
  <2>4. ASSUME "issue" \notin crossed
        PROVE  /\ \A u \in Terms \ {t} : terminals'[u] # "issue"
               /\ \A d \in Callers : ~(calls'[d].kind = "issue" /\ calls'[d].st = "looking")
    BY <1>2, <1>4, <2>2, <2>3, <2>4 DEF PlaceInv, OneAtATime
  <2>5. ASSUME NEW k \in {"ask", "manage"} \ crossed'
        PROVE  /\ \A u, v \in Terms : terminals'[u] = k /\ terminals'[v] = k => u = v
               /\ OneAtATime(k, "closing")'
               /\ \A d \in Callers : calls'[d].kind = k /\ calls'[d].st = "closing" =>
                    \A u \in Terms : terminals'[u] = k => u = calls'[d].t \/ u \in calls'[d].todo
    <3>1. k \in {"issue", "ask", "manage"} \ crossed /\ k # "issue" /\ \A u \in Terms : terminals'[u] = k => terminals[u] = k
      BY <1>2, <1>4, <2>5
    <3>2. \A d \in Callers : calls'[d].st = "closing" => calls'[d] = calls[d]
      BY <2>2, <2>3
    <3> QED
      BY <3>1, <3>2 DEF PlaceInv, OneAtATime
  <2> QED
    BY <1>2, <2>4, <2>5 DEF PlaceInv, OneAtATime
<1> QED
  BY <1>2, <1>3, <1>4

\* Request c is the only one to take the terminals of kind k down, and goes over all of them.
Takes(c, k, S) ==
  k \notin crossed' =>
    /\ \A t \in Terms : terminals[t] = k => t \in S
    /\ \A d \in Callers \ {c} : ~(calls[d].kind = k /\ calls[d].st = "closing")

\* The step of one request for kind k leaves the other places as they are.
LEMMA OthersKeepPlace ==
  ASSUME PlaceInv, NEW c \in Callers, NEW k, crossed \subseteq crossed', calls[c].kind = k, calls'[c].kind \in {k, "none"},
         \A d \in Callers \ {c} : calls'[d] = calls[d],
         \A t \in Terms : terminals'[t] \in {k, Absent, terminals[t]},
         k \in {"ask", "manage"},
         k \notin crossed' =>
           /\ \A t, u \in Terms : terminals'[t] = k /\ terminals'[u] = k => t = u
           /\ OneAtATime(k, "closing")'
           /\ \A d \in Callers : calls'[d].kind = k /\ calls'[d].st = "closing" =>
                \A t \in Terms : terminals'[t] = k => t = calls'[d].t \/ t \in calls'[d].todo
  PROVE  PlaceInv'
<1>1. ASSUME NEW j \in {"issue", "ask", "manage"} \ crossed'
      PROVE  /\ \A t, u \in Terms : terminals'[t] = j /\ terminals'[u] = j => t = u
             /\ j = "issue" =>
                  /\ OneAtATime(j, "looking")'
                  /\ \A d \in Callers : calls'[d].kind = j /\ calls'[d].st = "looking" =>
                       \A t \in Terms : terminals'[t] # j
             /\ j # "issue" =>
                  /\ OneAtATime(j, "closing")'
                  /\ \A d \in Callers : calls'[d].kind = j /\ calls'[d].st = "closing" =>
                       \A t \in Terms : terminals'[t] = j => t = calls'[d].t \/ t \in calls'[d].todo
  <2>1. CASE j = k
    BY <1>1, <2>1
  <2>2. CASE j # k
    <3>1. j \in {"issue", "ask", "manage"} \ crossed /\ j # Absent /\ j # "none"
      BY <1>1, AbsentAssumption DEF Kinds
    <3>2. /\ \A t \in Terms : terminals'[t] = j => terminals[t] = j
          /\ \A d \in Callers : calls'[d].kind = j => calls'[d] = calls[d]
      BY <2>2, <3>1
    <3> QED
      BY <3>1, <3>2 DEF PlaceInv, OneAtATime
  <2> QED
    BY <2>1, <2>2
<1> QED
  BY <1>1, Zenon DEF PlaceInv

\* All the others are taken down before the new one is made.
LEMMA BaseKeepsPlace ==
  ASSUME TermTypes, PlaceInv, NEW c \in Callers, NEW dead \in SUBSET Terms, NEW todo \in SUBSET Terms,
         calls[c].kind \in {"ask", "manage"}, crossed \subseteq crossed', Takes(c, calls[c].kind, dead \cup todo),
         _create_terminal_base(c, dead, todo)
  PROVE  PlaceInv'
<1>k. PICK k : k = calls[c].kind
  OBVIOUS
<1>0. k # Absent /\ k # "none" /\ k \in {"ask", "manage"}
  BY <1>k, AbsentAssumption DEF Kinds
<1>1. CASE teardown_to_next(c, dead, todo)
  <2>1. PICK t \in todo, before \in SUBSET todo :
          /\ kill_all(dead \cup before)
          /\ calls' = [calls EXCEPT ![c] = [calls[c] EXCEPT !.st = "closing", !.t = t, !.todo = todo \ (before \cup {t})]]
    BY <1>1, Zenon DEF teardown_to_next
  <2> DEFINE left == todo \ (before \cup {t})
             y == [calls[c] EXCEPT !.st = "closing", !.t = t, !.todo = left]
  <2>2. y.st = "closing" /\ y.t = t /\ y.todo = left /\ y.kind = k
    <3>1. IsCall(calls[c])
      BY DEF TermTypes
    <3>2. \A r : LET x == [calls[c] EXCEPT !.st = "closing", !.t = t, !.todo = r]
                 IN  x.st = "closing" /\ x.t = t /\ x.todo = r /\ x.kind = k
      BY <1>k, <3>1 DEF IsCall
    <3> HIDE DEF left
    <3> QED
      BY <3>2, Zenon
  <2>3. calls' = [calls EXCEPT ![c] = y]
    BY <2>1
  <2> HIDE DEF y
  <2>4. calls'[c] = y /\ \A d \in Callers \ {c} : calls'[d] = calls[d]
    BY <2>3, CallMoves
  <2>5. \A u \in Terms : terminals'[u] = IF u \in dead \cup before THEN Absent ELSE terminals[u]
    BY <2>1 DEF kill_all, unregister
  <2>6. ASSUME k \notin crossed'
        PROVE  /\ \A u, v \in Terms : terminals'[u] = k /\ terminals'[v] = k => u = v
               /\ OneAtATime(k, "closing")'
               /\ \A d \in Callers : calls'[d].kind = k /\ calls'[d].st = "closing" =>
                    \A u \in Terms : terminals'[u] = k => u = calls'[d].t \/ u \in calls'[d].todo
    <3>1. /\ \A u \in Terms : terminals[u] = k => u \in dead \cup todo
          /\ \A d \in Callers \ {c} : ~(calls[d].kind = k /\ calls[d].st = "closing")
          /\ k \in {"issue", "ask", "manage"} \ crossed
      BY <1>0, <1>k, <2>6 DEF Takes
    <3>2. \A u \in Terms : terminals'[u] = k => terminals[u] = k /\ u \in {t} \cup left
      BY <1>0, <2>5, <3>1
    <3>3. \A u, v \in Terms : terminals'[u] = k /\ terminals'[v] = k => u = v
      BY <3>1, <3>2 DEF PlaceInv
    <3>4. \A d \in Callers : calls'[d].kind = k /\ calls'[d].st = "closing" => d = c
      BY <2>4, <3>1
    <3> QED
      BY <2>2, <2>4, <3>2, <3>3, <3>4 DEF OneAtATime
  <2>7. /\ calls'[c].kind \in {k, "none"} /\ \A u \in Terms : terminals'[u] \in {k, Absent, terminals[u]}
    BY <2>2, <2>4, <2>5
  <2> QED
    BY <1>0, <1>k, <2>4, <2>6, <2>7, OthersKeepPlace
<1>2. CASE _teardown_terminal(dead, todo) /\ (\E t \in Fresh : replace(dead \cup todo, t, calls[c].kind)) /\ Ends(c)
  <2>1. PICK t \in Fresh : replace(dead \cup todo, t, k)
    BY <1>2, <1>k
  <2>2. \A u \in Terms : terminals'[u] = IF u = t THEN k ELSE IF u \in dead \cup todo THEN Absent ELSE terminals[u]
    BY <2>1 DEF replace
  <2>3. calls'[c].kind = "none" /\ \A d \in Callers \ {c} : calls'[d] = calls[d]
    <3>1. calls'[c] = NoCall /\ \A d \in Callers \ {c} : calls'[d] = calls[d]
      BY <1>2, CallMoves DEF Ends
    <3> QED
      BY <3>1 DEF NoCall
  <2>4. ASSUME k \notin crossed'
        PROVE  /\ \A u, v \in Terms : terminals'[u] = k /\ terminals'[v] = k => u = v
               /\ OneAtATime(k, "closing")'
               /\ \A d \in Callers : calls'[d].kind = k /\ calls'[d].st = "closing" =>
                    \A u \in Terms : terminals'[u] = k => u = calls'[d].t \/ u \in calls'[d].todo
    <3>1. /\ \A u \in Terms : terminals[u] = k => u \in dead \cup todo
          /\ \A d \in Callers \ {c} : ~(calls[d].kind = k /\ calls[d].st = "closing")
      BY <1>k, <2>4 DEF Takes
    <3>2. \A u \in Terms : terminals'[u] = k => u = t
      BY <1>0, <2>2, <3>1
    <3>3. \A d \in Callers : ~(calls'[d].kind = k /\ calls'[d].st = "closing")
      BY <1>0, <2>3, <3>1
    <3>4. OneAtATime(k, "closing")'
      BY <3>3 DEF OneAtATime
    <3> QED
      BY <3>2, <3>3, <3>4
  <2>5. \A u \in Terms : terminals'[u] \in {k, Absent, terminals[u]}
    BY <2>2
  <2> QED
    BY <1>0, <1>k, <2>3, <2>4, <2>5, OthersKeepPlace
<1> QED
  BY <1>1, <1>2 DEF _create_terminal_base

\* A request reaps what it has found, and what it goes on with after a close is all that is left.
LEMMA ReapsPlace == ASSUME TermTypes, PlaceInv, NEW c \in Callers, reap(c) \/ reap_closed(c) PROVE PlaceInv'
<1>1. CASE reap(c)
  <2> DEFINE k == calls[c].kind
             todo == list_active(Place(k))
  <2>1. /\ k \in {"ask", "manage"} /\ crossed' = crossed \cup {x \in {k} : Others(c, x, "closing")}
        /\ _create_terminal_base(c, {}, todo) /\ todo \in SUBSET Terms
    BY <1>1 DEF reap, list_active
  <2>2. \A t \in Terms : terminals[t] = k => t \in todo
    BY <2>1, AbsentAssumption DEF list_active, is_alive, Kinds
  <2>3. k \notin crossed' => \A d \in Callers \ {c} : ~(calls[d].kind = k /\ calls[d].st = "closing")
    BY <2>1 DEF Others
  <2>4. Takes(c, k, {} \cup todo)
    BY <2>2, <2>3 DEF Takes
  <2> HIDE DEF todo
  <2> QED
    BY <2>1, <2>4, BaseKeepsPlace
<1>2. CASE reap_closed(c)
  <2> DEFINE k == calls[c].kind
  <2>1. /\ k \in {"ask", "manage"} /\ calls[c].st = "closing" /\ crossed' = crossed
        /\ _create_terminal_base(c, {calls[c].t}, calls[c].todo)
    BY <1>2 DEF reap_closed
  <2>2. {calls[c].t} \in SUBSET Terms /\ calls[c].todo \in SUBSET Terms
    BY <2>1 DEF TermTypes, IsCall
  <2>3. Takes(c, k, {calls[c].t} \cup calls[c].todo)
    BY <2>1 DEF Takes, PlaceInv, OneAtATime
  <2> QED
    BY <2>1, <2>2, <2>3, BaseKeepsPlace
<1> QED
  BY <1>1, <1>2

\* Who waits or looks its project up does not vie.
LEMMA StepVies ==
  ASSUME TermTypes, NEW c \in Callers, NEW st, step(c, st),
         st # "closing" /\ (calls[c].kind # "issue" \/ st # "looking")
  PROVE  \A d \in Callers : Vying(calls'[d]) => calls'[d] = calls[d]
<1> DEFINE y == [calls[c] EXCEPT !.st = st]
<1>1. IsCall(y) /\ y.st = st /\ y.kind = calls[c].kind
  BY CallStep, Zenon
<1>2. calls' = [calls EXCEPT ![c] = y]
  BY DEF step
<1> HIDE DEF y
<1>3. calls'[c] = y /\ \A d \in Callers \ {c} : calls'[d] = calls[d]
  BY <1>2, CallMoves
<1> QED
  BY <1>1, <1>3 DEF Vying

\* Lookups, terminals of other kinds, and steps.
LEMMA FirstMoves == ASSUME TermTypes, PlaceInv, NEW c \in Callers,
    get_project_path(c) \/ create_hermes_terminal(c) \/ create_log_terminal(c) \/ _run_step(c)
  PROVE PlaceInv'
<1>1. CASE get_project_path(c)
  <2>1. step(c, "looking") /\ calls[c].kind # "issue" /\ UNCHANGED <<terminals, crossed>>
    BY <1>1 DEF get_project_path, registryVars
  <2> QED
    BY <2>1, StepVies, NobodyVies
<1>2. CASE create_hermes_terminal(c)
  <2>1. PICK t \in Fresh : create(t, "hermes")
    BY <1>2 DEF create_hermes_terminal
  <2>2. \A u \in Terms : terminals'[u] = terminals[u] \/ terminals'[u] = "hermes"
    BY <2>1 DEF create, replace
  <2>3. Ends(c) /\ crossed' = crossed
    BY <1>2 DEF create_hermes_terminal
  <2> QED
    BY <2>2, <2>3, OverVies, NobodyVies
<1>3. CASE create_log_terminal(c)
  <2>1. PICK t \in Fresh : create_log(t)
    BY <1>3 DEF create_log_terminal
  <2>2. \A u \in Terms : terminals'[u] = terminals[u] \/ terminals'[u] = "log"
    BY <2>1 DEF create_log, TermTypes
  <2>3. Ends(c) /\ crossed' = crossed
    BY <1>3 DEF create_log_terminal
  <2> QED
    BY <2>2, <2>3, OverVies, NobodyVies
<1>4. CASE _run_step(c)
  <2>1. UNCHANGED <<terminals, crossed>> /\ (step(c, "waiting") \/ Ends(c))
    BY <1>4 DEF _run_step, registryVars
  <2>2. CASE step(c, "waiting")
    BY <2>1, <2>2, StepVies, NobodyVies
  <2>3. CASE Ends(c)
    BY <2>1, <2>3, OverVies, NobodyVies
  <2> QED
    BY <2>1, <2>2, <2>3
<1> QED
  BY <1>1, <1>2, <1>3, <1>4

\* Where terminals are taken down there are no more than before.
LEMMA KilledPlace ==
  ASSUME PlaceInv, NEW S, kill_all(S) \/ unregister(S), crossed \subseteq crossed',
         \A d \in Callers : Vying(calls'[d]) => calls'[d] = calls[d]
  PROVE  PlaceInv'
<1>1. \A u \in Terms : terminals'[u] = terminals[u] \/ terminals'[u] = Absent
  BY DEF kill_all, unregister
<1>2. Absent \notin {"issue", "ask", "manage"}
  BY AbsentAssumption DEF Kinds
<1> QED
  BY <1>1, <1>2, NobodyVies

\* Deletions only take terminals down.
LEMMA DeletesPlace == ASSUME TermTypes, PlaceInv, NEW c \in Callers,
    delete_terminal(c) \/ delete_closed(c) \/ delete_project(c) \/ cleanup_terminal(c)
  PROVE PlaceInv'
<1>1. CASE delete_terminal(c)
  <2>1. PICK t \in Terms :
          teardown_to_next(c, {}, {t}) \/ (_teardown_terminal({}, {t}) /\ kill_all({t}) /\ Ends(c))
    BY <1>1 DEF delete_terminal
  <2>2. crossed' = crossed /\ calls[c].kind = "delete"
    BY <1>1 DEF delete_terminal
  <2>3. CASE teardown_to_next(c, {}, {t})
    <3>1. PICK u \in {t}, before \in SUBSET {t} :
            /\ kill_all({} \cup before)
            /\ calls' = [calls EXCEPT ![c] = [calls[c] EXCEPT !.st = "closing", !.t = u, !.todo = {t} \ (before \cup {u})]]
      BY <2>3, Zenon DEF teardown_to_next
    <3>2. \A r : LET y == [calls[c] EXCEPT !.st = "closing", !.t = u, !.todo = r] IN y.kind = "delete"
      BY <2>2 DEF TermTypes, IsCall
    <3>3. PICK r : calls' = [calls EXCEPT ![c] = [calls[c] EXCEPT !.st = "closing", !.t = u, !.todo = r]]
      BY <3>1
    <3> DEFINE y == [calls[c] EXCEPT !.st = "closing", !.t = u, !.todo = r]
    <3>4. y.kind = "delete"
      BY <3>2, Zenon
    <3>5. calls' = [calls EXCEPT ![c] = y]
      BY <3>3
    <3> HIDE DEF y
    <3>6. calls'[c] = y /\ \A d \in Callers \ {c} : calls'[d] = calls[d]
      BY <3>5, CallMoves
    <3>7. \A d \in Callers : Vying(calls'[d]) => calls'[d] = calls[d]
      BY <3>4, <3>6 DEF Vying
    <3> QED
      BY <2>2, <3>1, <3>7, KilledPlace
  <2>4. CASE kill_all({t}) /\ Ends(c)
    BY <2>2, <2>4, OverVies, KilledPlace
  <2> QED
    BY <2>1, <2>3, <2>4
<1>2. CASE delete_closed(c) \/ cleanup_terminal(c)
  <2>1. kill_all({calls[c].t}) /\ Ends(c) /\ crossed' = crossed
    BY <1>2 DEF delete_closed, cleanup_terminal
  <2> QED
    BY <2>1, OverVies, KilledPlace
<1>3. CASE delete_project(c)
  <2>1. PICK S : kill_all(S) /\ Ends(c) /\ crossed' = crossed
    BY <1>3 DEF delete_project
  <2> QED
    BY <2>1, OverVies, KilledPlace
<1> QED
  BY <1>1, <1>2, <1>3

\* At first there is no terminal.
LEMMA PlaceInit == Init => PlaceInv
<1> SUFFICES ASSUME NEW s \in Scenarios, TerminalsInit(s.calls, s.sockets) PROVE PlaceInv
  BY DEF Init
<1>1. \A t \in Terms : terminals[t] = Absent
  BY DEF TerminalsInit, RegistryInit
<1>2. \A c \in Callers : calls[c].st \in {"none", "new"}
  BY DEF TerminalsInit, CallsInit, NoCall
<1>3. Absent \notin {"issue", "ask", "manage"}
  BY AbsentAssumption DEF Kinds
<1> QED
  BY <1>1, <1>2, <1>3 DEF PlaceInv, OneAtATime

\* PlaceInv is an invariant.
LEMMA PlaceHolds == Spec => []PlaceInv
<1>1. TermTypes /\ PlaceInv /\ [Next]_vars => PlaceInv'
  <2> SUFFICES ASSUME TermTypes, PlaceInv, [Next]_vars PROVE PlaceInv'
    OBVIOUS
  <2>1. CASE Working
    BY <2>1, LookingForIssue, IssueCreated, ReapsPlace, FirstMoves, DeletesPlace DEF Working
  <2>2. ASSUME UNCHANGED callVars PROVE \A d \in Callers : Vying(calls'[d]) => calls'[d] = calls[d]
    BY <2>2 DEF callVars
  <2>3. CASE UNCHANGED <<terminals, callVars>>
    BY <2>2, <2>3, NobodyVies DEF callVars
  <2>4. CASE Reading /\ UNCHANGED callVars
    <3>1. UNCHANGED terminals \/ \E t : unregister({t})
      BY <2>4 DEF Reading, reader_output, reader_eof, reader_sent, mark_closed, registryVars
    <3>2. crossed \subseteq crossed'
      BY <2>4 DEF callVars
    <3> QED
      BY <2>2, <2>3, <2>4, <3>1, <3>2, KilledPlace
  <2>5. CASE Connecting(Closing) /\ UNCHANGED callVars
    <3>1. UNCHANGED terminals
      BY <2>5 DEF Connecting, ws_connect, ws_accepted, ws_replayed, ws_closed, registryVars
    <3> QED
      BY <2>3, <2>5, <3>1
  <2>6. CASE (\E t \in Terms : Exits(t)) /\ UNCHANGED <<sessionVars, callVars>>
    BY <2>3, <2>6 DEF Exits
  <2>7. CASE UNCHANGED termVars
    BY <2>3, <2>7 DEF termVars, registryVars, callVars
  <2> QED
    BY <2>1, <2>4, <2>5, <2>6, <2>7 DEF Next, TerminalsNext, vars
<1>2. Spec => []TermTypes
  BY OutputHolds, PTL DEF OutputInv
<1> QED
  BY <1>1, <1>2, PlaceInit, PTL DEF Spec

\* An issue has one terminal by request and a project one to ask in, unless requests overlapped between
\* looking and creating (create_terminal, _create_terminal_base).
THEOREM PlacesHaveOne == Spec => []OnePerPlace
<1>1. PlaceInv => OnePerPlace
  <2> SUFFICES ASSUME PlaceInv, NEW k \in {"issue", "ask", "manage"} \ crossed
               PROVE  Cardinality({t \in Terms : terminals[t] = k}) <= 1
    BY DEF OnePerPlace
  <2> DEFINE S == {t \in Terms : terminals[t] = k}
  <2>1. \A t, u \in S : t = u
    BY DEF PlaceInv
  <2>2. S = {} \/ \E t : S = {t}
    BY <2>1
  <2> HIDE DEF S
  <2>3. Cardinality(S) \in {0, 1}
    BY <2>2, FS_EmptySet, FS_Singleton
  <2> QED
    BY <2>3 DEF S
<1> QED
  BY <1>1, PlaceHolds, PTL

(***************************************************************************)
(* Questions                                                               *)
(***************************************************************************)

\* A row of the table, and what the store keeps of it.
QuestionRows == [status : {"none", "pending", "answered", "timed_out"}, answer : Answers \cup {NoAnswer}]

\* The questions and the answers that are posted.
QuestionTypes ==
  /\ rows \in [Asks -> QuestionRows] /\ store \in [Asks -> QuestionRows]
  /\ event \in [Asks -> BOOLEAN] /\ filed \in [Asks -> SUBSET Answers]
  /\ ask = [q \in Asks |-> ask[q]] /\ posts = [a \in Answers |-> posts[a]]

\* A question is in the table before the store knows it, and whatever has answered it by then is
\* in the row that the store is given.
Filing ==
  \A q \in Asks :
    /\ ask[q] = "new" => rows[q].status = "none" /\ filed[q] = {} /\ store[q].status = "none"
    /\ ask[q] = "refreshing" => store[q].status = "none" /\ rows[q].status # "none"
    /\ ask[q] = "refreshing" /\ filed[q] = {} => rows[q].status = "pending"
    /\ event[q] => store[q].status # "pending"

\* PendingIsAwaited with what it needs to be preserved.
QuestionInv == QuestionTypes /\ Filing /\ PendingIsAwaited

\* An agent asks, waits, is answered, gives up or is cut off.
LEMMA Asking ==
  ASSUME QuestionInv, NEW q \in Asks,
         \/ create_question(q) \/ put(q) \/ ask_answered(q)
         \/ ask_timeout(q) \/ timeout_commit(q) \/ timeout(q) \/ ask_broken(q)
  PROVE  QuestionInv'
<1> USE DEF QuestionInv
<1>1. CASE create_question(q)
  <2>1. QuestionTypes'
    BY <1>1 DEF create_question, QuestionTypes, QuestionRows
  <2>2. Filing' /\ PendingIsAwaited'
    BY <1>1 DEF create_question, QuestionTypes, QuestionRows, Filing, PendingIsAwaited
  <2> QED
    BY <2>1, <2>2
<1>2. CASE put(q)
  <2>1. PICK seen \in {rows[q], [NoQuestion EXCEPT !.status = "pending"]} : store' = [store EXCEPT ![q] = seen]
    BY <1>2 DEF put
  <2>2. /\ seen \in QuestionRows /\ seen.status # "none"
        /\ filed[q] = {} => seen.status = "pending"
    BY <1>2 DEF put, QuestionTypes, QuestionRows, Filing, NoQuestion
  <2>3. QuestionTypes'
    BY <1>2, <2>1, <2>2 DEF put, QuestionTypes
  <2>4. Filing'
    BY <1>2, <2>1 DEF put, QuestionTypes, Filing
  <2>5. PendingIsAwaited'
    BY <1>2, <2>1, <2>2 DEF put, QuestionTypes, PendingIsAwaited
  <2> QED
    BY <2>3, <2>4, <2>5
<1>3. CASE ask_answered(q)
  BY <1>3 DEF ask_answered, QuestionTypes, Filing, PendingIsAwaited
<1>4. CASE ask_timeout(q)
  BY <1>4 DEF ask_timeout, QuestionTypes, Filing, PendingIsAwaited
<1>5. CASE timeout_commit(q)
  <2>1. QuestionTypes'
    BY <1>5 DEF timeout_commit, QuestionTypes, QuestionRows
  <2>2. Filing' /\ PendingIsAwaited'
    BY <1>5 DEF timeout_commit, QuestionTypes, QuestionRows, Filing, PendingIsAwaited
  <2> QED
    BY <2>1, <2>2
<1>6. CASE timeout(q)
  <2>1. QuestionTypes'
    BY <1>6 DEF timeout, store_timeout, QuestionTypes, QuestionRows
  <2>2. Filing' /\ PendingIsAwaited'
    BY <1>6 DEF timeout, store_timeout, QuestionTypes, QuestionRows, Filing, PendingIsAwaited
  <2> QED
    BY <2>1, <2>2
<1>7. CASE ask_broken(q)
  BY <1>7 DEF ask_broken, QuestionTypes, Filing, PendingIsAwaited
<1> QED
  BY <1>1, <1>2, <1>3, <1>4, <1>5, <1>6, <1>7

\* A user answers in the table, then the store is told.
LEMMA Answering ==
  ASSUME QuestionInv, NEW a \in Answers, answered(a) \/ \E q \in Asks : answer_question(a, q)
  PROVE  QuestionInv'
<1> USE DEF QuestionInv
<1>1. CASE answered(a)
  <2>1. CASE store[posts[a]].status = "none"
    <3>1. /\ UNCHANGED <<store, event, rows, ask, told, filed>> /\ posts' = [posts EXCEPT ![a] = "done"]
      BY <1>1, <2>1 DEF answered, store_answer
    <3> QED
      BY <3>1 DEF QuestionTypes, Filing, PendingIsAwaited
  <2>2. CASE store[posts[a]].status # "none"
    <3>1. store' = [store EXCEPT ![posts[a]] = [status |-> "answered", answer |-> a]] /\ posts[a] \in Asks
      BY <1>1, <2>2 DEF answered, store_answer
    <3>2. QuestionTypes'
      BY <1>1, <2>2, <3>1 DEF answered, store_answer, QuestionTypes, QuestionRows
    <3>3. Filing'
      BY <1>1, <2>2, <3>1 DEF answered, store_answer, QuestionTypes, Filing
    <3>4. PendingIsAwaited'
      BY <1>1, <2>2, <3>1 DEF answered, store_answer, QuestionTypes, PendingIsAwaited
    <3> QED
      BY <3>2, <3>3, <3>4
  <2> QED
    BY <2>1, <2>2
<1>2. ASSUME NEW q \in Asks, answer_question(a, q) PROVE QuestionInv'
  <2>1. QuestionTypes'
    BY <1>2 DEF answer_question, QuestionTypes, QuestionRows
  <2>2. rows'[q].status = "answered" /\ a \in filed'[q] /\ ask[q] # "new"
    BY <1>2 DEF answer_question, QuestionTypes, Filing
  <2>3. /\ UNCHANGED <<store, event, ask>>
        /\ \A p \in Asks \ {q} : rows'[p] = rows[p] /\ filed'[p] = filed[p]
    BY <1>2 DEF answer_question, QuestionTypes
  <2>4. Filing'
    BY <2>2, <2>3 DEF Filing
  <2>5. PendingIsAwaited'
    BY <2>2, <2>3 DEF PendingIsAwaited
  <2> QED
    BY <2>1, <2>4, <2>5
<1> QED
  BY <1>1, <1>2

\* After a restart the table keeps what was pending, but the store has nothing.
LEMMA Restarting == ASSUME QuestionInv, QuestionsRestart PROVE QuestionInv'
BY DEF QuestionInv, QuestionTypes, QuestionRows, Filing, PendingIsAwaited, QuestionsRestart, NoQuestion

\* QuestionInv is an invariant.
LEMMA QuestionsHold == Spec => []QuestionInv
<1>1. Init => QuestionInv
  <2> SUFFICES ASSUME NEW st \in {"new", "done"}, QuestionsInit(st) PROVE QuestionInv
    BY ScenariosAssumption DEF Init
  <2> QED
    BY DEF QuestionsInit, NoQuestion, QuestionInv, QuestionTypes, QuestionRows, Filing, PendingIsAwaited
<1>2. QuestionInv /\ [Next]_vars => QuestionInv'
  <2>1. QuestionInv /\ QuestionsNext => QuestionInv'
    BY Asking, Answering, Restarting DEF QuestionsNext
  <2>2. QuestionInv /\ UNCHANGED questionVars => QuestionInv'
    BY DEF questionVars, QuestionInv, QuestionTypes, Filing, PendingIsAwaited
  <2> QED
    BY <2>1, <2>2 DEF Next, vars
<1> QED
  BY <1>1, <1>2, PTL DEF Spec

\* The pending questions of the store are those of agents that wait, or whose call was cancelled
\* or failed; and an agent that waits is shown (QuestionStore and ask_user_question, over time-outs,
\* late answers, cancelled calls, failing commits and restarts).
THEOREM QuestionsAreAwaited == Spec => []PendingIsAwaited
<1>1. QuestionInv => PendingIsAwaited
  BY DEF QuestionInv
<1> QED
  BY <1>1, QuestionsHold, PTL

(***************************************************************************)
(* Settings                                                                *)
(***************************************************************************)

\* The settings of Telegram.
SettingValues == {"", "new", "old", "true", "false"}

Configs == [bot_token : SettingValues, chat_id : SettingValues, enabled : SettingValues]

IsChange(c) == c \in [at : {c.at}, key : {c.key}, got : Configs, n : Nat, alone : BOOLEAN]

\* A request that no other change has met has read what the settings are now: its own value and
\* those it has got to.
ReadSoFar(r, k) == k = change[r].key \/ \E i \in 1..change[r].n - 1 : ReadOrder[i] = k

\* ConfigFollows with what it needs of the requests under way.
SettingsInv ==
  /\ settings \in Configs /\ conf \in Configs /\ change = [r \in Changes |-> change[r]]
  /\ \A r \in Changes : IsChange(change[r])
  /\ \A r \in Changes : change[r].at = "reading" =>
       /\ change[r].n >= 1
       /\ change[r].alone => \A k \in Keys : ReadSoFar(r, k) => change[r].got[k] = settings[k]
  /\ ConfigFollows

\* Reading and writing one of the settings.
LEMMA ConfigOf ==
  ASSUME NEW v \in Configs, NEW k \in Keys
  PROVE  v[k] \in SettingValues
BY DEF Configs, Keys, SettingValues

LEMMA ConfigSet ==
  ASSUME NEW v \in Configs, NEW k \in Keys, NEW x \in SettingValues
  PROVE  [v EXCEPT ![k] = x] \in Configs /\ [v EXCEPT ![k] = x][k] = x
BY DEF Configs, Keys, SettingValues

LEMMA ConfigRest ==
  ASSUME NEW v \in Configs, NEW k \in Keys, NEW j \in Keys \ {k}, NEW x
  PROVE  [v EXCEPT ![k] = x][j] = v[j]
BY DEF Configs, Keys, SettingValues

\* A request that is met by another is not alone any more; nothing else of it changes.
LEMMA MetRows ==
  ASSUME SettingsInv, NEW r \in Changes
  PROVE  /\ Met(r) = [q \in Changes |-> Met(r)[q]]
         /\ \A q \in Changes :
              /\ IsChange(Met(r)[q])
              /\ Met(r)[q].at = change[q].at /\ Met(r)[q].key = change[q].key /\ Met(r)[q].got = change[q].got
              /\ Met(r)[q].n = change[q].n /\ (q # r => ~Met(r)[q].alone)
BY DEF SettingsInv, Met, IsChange

\* Whatever a request writes, no other that is under way counts as alone.
LEMMA Commit ==
  ASSUME SettingsInv, NEW r \in Changes, NEW new \in Configs, Commits(new), conf' = conf,
         NEW x, IsChange(x), change' = [Met(r) EXCEPT ![r] = x],
         x.at = "reading" => x.n = 1 /\ x.got[x.key] = new[x.key]
  PROVE  SettingsInv'
<1>1. change' = [q \in Changes |-> change'[q]] /\ change'[r] = x
  BY MetRows
<1>2. ASSUME NEW q \in Changes, q # r
      PROVE  IsChange(change'[q]) /\ change'[q].at = change[q].at /\ change'[q].n = change[q].n /\ ~change'[q].alone
  BY MetRows, <1>2
<1>3. ASSUME NEW q \in Changes, change'[q].at = "reading"
      PROVE  /\ change'[q].n >= 1
             /\ change'[q].alone => \A k \in Keys : ReadSoFar(q, k)' => change'[q].got[k] = settings'[k]
  <2>1. CASE q = r
    BY <1>1, <1>3, <2>1 DEF ReadSoFar, Commits
  <2>2. CASE q # r
    BY <1>2, <1>3, <2>2 DEF SettingsInv
  <2> QED
    BY <2>1, <2>2
<1>4. \A q \in Changes : IsChange(change'[q])
  BY <1>1, <1>2
<1> QED
  BY <1>1, <1>3, <1>4 DEF SettingsInv, ConfigFollows, Commits

\* A request has written its value and reads the others.
LEMMA ChangeStarted ==
  ASSUME NEW k, NEW v \in Configs
  PROVE  LET x == [NoChange EXCEPT !.at = "reading", !.key = k, !.n = 1, !.got = v]
         IN  IsChange(x) /\ x.n = 1 /\ x.key = k /\ x.got = v
BY DEF NoChange, IsChange

\* A request that met no other ends with what the settings are.
LEMMA SettingsRequests ==
  ASSUME SettingsInv, NEW r \in Changes, SettingsNext(r)
  PROVE  SettingsInv'
<1>0. /\ IsChange(NoChange) /\ IsChange(Over) /\ Over.at = "over" /\ _DEFAULTS \in Configs
      /\ \A k \in Keys : Values(k) \subseteq SettingValues
  <2>1. _DEFAULTS \in Configs
    BY DEF _DEFAULTS, Configs, SettingValues
  <2>2. IsChange(NoChange)
    BY <2>1 DEF NoChange, IsChange
  <2>3. IsChange(Over) /\ Over.at = "over"
    BY <2>2 DEF Over, IsChange
  <2>4. \A k \in Keys : Values(k) \subseteq SettingValues
    BY DEF Keys, Values, SettingValues
  <2> QED
    BY <2>1, <2>2, <2>3, <2>4
<1>1. ASSUME NEW k \in Keys, NEW v \in SettingValues, set_untold(r, k, v) PROVE SettingsInv'
  <2>1. [settings EXCEPT ![k] = v] \in Configs
    BY ConfigSet DEF SettingsInv
  <2> QED
    BY <1>0, <1>1, <2>1, Commit DEF set_untold
<1>2. ASSUME NEW k \in Keys, NEW v \in Values(k), update_setting(r, k, v) PROVE SettingsInv'
  <2> DEFINE x == [NoChange EXCEPT !.at = "reading", !.key = k, !.n = 1,
               !.got = [_DEFAULTS EXCEPT ![k] = v],
               !.alone = \A q \in Changes : change[q].at # "reading"]
  <2>0. v \in SettingValues /\ settings \in Configs
    BY <1>0 DEF SettingsInv
  <2>1. [settings EXCEPT ![k] = v] \in Configs /\ [settings EXCEPT ![k] = v][k] = v
    BY <2>0, ConfigSet
  <2>2. [_DEFAULTS EXCEPT ![k] = v] \in Configs /\ [_DEFAULTS EXCEPT ![k] = v][k] = v
    BY <1>0, <2>0, ConfigSet
  <2>3. IsChange(x) /\ x.n = 1 /\ x.key = k /\ x.got = [_DEFAULTS EXCEPT ![k] = v]
    <3> DEFINE y == [NoChange EXCEPT !.at = "reading", !.key = k, !.n = 1, !.got = [_DEFAULTS EXCEPT ![k] = v]]
    <3>1. IsChange(y) /\ y.n = 1 /\ y.key = k /\ y.got = [_DEFAULTS EXCEPT ![k] = v]
      BY <2>2, ChangeStarted
    <3>2. x = [y EXCEPT !.alone = \A q \in Changes : change[q].at # "reading"]
      OBVIOUS
    <3> HIDE DEF x, y
    <3> QED
      BY <3>1, <3>2 DEF IsChange
  <2> HIDE DEF x
  <2>4. change' = [Met(r) EXCEPT ![r] = x] /\ Commits([settings EXCEPT ![k] = v]) /\ conf' = conf
    BY <1>2 DEF update_setting, x
  <2>5. x.got[x.key] = [settings EXCEPT ![k] = v][x.key]
    BY <2>1, <2>2, <2>3
  <2> QED
    BY <2>1, <2>3, <2>4, <2>5, Commit
<1>3. ASSUME NEW k \in Keys, reset(r, k) PROVE SettingsInv'
  <2>1. _DEFAULTS[k] \in SettingValues
    BY <1>0, ConfigOf
  <2> QED
    BY <1>1, <1>3, <2>1 DEF reset
<1>4. CASE reset_all(r)
  BY <1>0, <1>4, Commit DEF reset_all
<1>5. CASE _reconfigure_telegram(r)
  <2> DEFINE c == change[r]
             x == [c EXCEPT !.got = Got(r), !.n = @ + 1]
  <2>1. /\ IsChange(c) /\ c.n \in 1..2 /\ c.at = "reading"
    BY <1>5 DEF _reconfigure_telegram, SettingsInv, IsChange, ReadOrder
  <2>2. Got(r) \in Configs
    BY <2>1, ConfigOf, ConfigSet DEF Got, SettingsInv, ReadOrder, IsChange, Keys
  <2>3. IsChange(x) /\ x.at = "reading" /\ x.key = c.key /\ x.n = c.n + 1 /\ x.got = Got(r) /\ x.alone = c.alone
    <3>1. c.n + 1 \in Nat /\ IsChange(c)
      BY <2>1
    <3>2. ASSUME NEW m \in Nat, NEW v \in Configs
          PROVE  LET y == [c EXCEPT !.got = v, !.n = m]
                 IN  IsChange(y) /\ y.at = c.at /\ y.key = c.key /\ y.n = m /\ y.got = v /\ y.alone = c.alone
      BY <2>1 DEF IsChange
    <3> QED
      BY <2>1, <2>2, <3>1, <3>2, Zenon
  <2> HIDE DEF x
  <2>4. change' = [change EXCEPT ![r] = x] /\ settings' = settings /\ conf' = conf /\ followed' = followed
    BY <1>5, <2>1 DEF _reconfigure_telegram, x, SettingsInv
  <2>5. ASSUME c.alone, NEW k \in Keys, ReadSoFar(r, k)' PROVE Got(r)[k] = settings[k]
    <3>1. ReadSoFar(r, k) \/ k = ReadOrder[c.n]
      BY <2>1, <2>3, <2>4, <2>5 DEF ReadSoFar, SettingsInv, IsChange
    <3>2. CASE k = ReadOrder[c.n] /\ k # c.key
      <4>1. Got(r) = [change[r].got EXCEPT ![k] = settings[k]]
        BY <2>1, <3>2 DEF Got
      <4> QED
        BY <2>1, <4>1, ConfigOf, ConfigSet DEF SettingsInv, IsChange
    <3>3. CASE ReadSoFar(r, k) /\ (k # ReadOrder[c.n] \/ k = c.key)
      <4>1. c.got[k] = settings[k]
        BY <2>1, <2>5, <3>3 DEF SettingsInv
      <4> QED
        BY <2>1, <3>3, <4>1, ConfigRest, ConfigSet, ConfigOf DEF Got, IsChange
    <3>4. CASE k = ReadOrder[c.n] /\ k = c.key
      BY <3>3, <3>4 DEF ReadSoFar
    <3> QED
      BY <3>1, <3>2, <3>3, <3>4
  <2>6. change' = [q \in Changes |-> change'[q]] /\ change'[r] = x /\ \A q \in Changes \ {r} : change'[q] = change[q]
    BY <2>3, <2>4 DEF SettingsInv
  <2>7. \A q \in Changes : IsChange(change'[q])
    BY <2>3, <2>6 DEF SettingsInv
  <2>8. ASSUME NEW q \in Changes \ {r}
        PROVE  change'[q] = change[q] /\ \A k \in Keys : ReadSoFar(q, k)' <=> ReadSoFar(q, k)
    BY <2>6 DEF ReadSoFar
  <2>9. settings' \in Configs /\ conf' \in Configs /\ ConfigFollows'
    BY <2>4 DEF SettingsInv, ConfigFollows
  <2>10. x.alone => \A k \in Keys : ReadSoFar(r, k)' => x.got[k] = settings'[k]
    BY <2>3, <2>4, <2>5
  <2>11. ASSUME NEW q \in Changes, change'[q].at = "reading"
         PROVE  /\ change'[q].n >= 1
                /\ change'[q].alone => \A k \in Keys : ReadSoFar(q, k)' => change'[q].got[k] = settings'[k]
    <3>1. CASE q = r
      BY <2>1, <2>3, <2>6, <2>10, <3>1
    <3>2. CASE q # r
      BY <2>4, <2>8, <2>11, <3>2 DEF SettingsInv
    <3> QED
      BY <3>1, <3>2
  <2> QED
    BY <2>6, <2>7, <2>9, <2>11 DEF SettingsInv
<1>6. CASE configured(r)
  <2>1. IsChange(change[r]) /\ change[r].n = 3 /\ change[r].at = "reading" /\ ReadOrder[3] = "enabled"
    BY <1>6 DEF configured, SettingsInv, ReadOrder
  <2>2. Got(r) \in Configs
    BY <2>1, ConfigOf, ConfigSet DEF Got, SettingsInv, IsChange, Keys
  <2>3. ASSUME change[r].alone, NEW k \in Keys PROVE Got(r)[k] = settings[k]
    <3>1. k = "enabled" \/ ReadSoFar(r, k)
      BY <2>1 DEF ReadSoFar, ReadOrder, Keys
    <3>2. CASE k = "enabled" /\ k # change[r].key
      <4>1. Got(r) = [change[r].got EXCEPT ![k] = settings[k]]
        BY <2>1, <3>2 DEF Got
      <4> QED
        BY <2>1, <4>1, ConfigOf, ConfigSet DEF SettingsInv, IsChange
    <3>3. CASE ReadSoFar(r, k) /\ (k # "enabled" \/ k = change[r].key)
      <4>1. change[r].got[k] = settings[k]
        BY <2>1, <2>3, <3>3 DEF SettingsInv
      <4> QED
        BY <2>1, <3>3, <4>1, ConfigRest, ConfigSet, ConfigOf DEF Got, IsChange, Keys
    <3>4. k = change[r].key => ReadSoFar(r, k)
      BY DEF ReadSoFar
    <3> QED
      BY <3>1, <3>2, <3>3, <3>4
  <2>4. /\ settings' = settings /\ conf' = configure(Got(r)) /\ followed' = change[r].alone
        /\ change' = [change EXCEPT ![r] = Over]
    BY <1>6 DEF configured
  <2>5. conf' \in Configs /\ \A k \in Keys : Got(r)[k] \in {"", conf'[k]}
    <3>1. /\ conf'.bot_token = IF Got(r).bot_token # "" THEN Got(r).bot_token ELSE conf.bot_token
          /\ conf'.chat_id = IF Got(r).chat_id # "" THEN Got(r).chat_id ELSE conf.chat_id
          /\ conf'.enabled = Got(r).enabled
      BY <2>4 DEF configure
    <3>2. conf' \in Configs
      BY <2>2, <2>4 DEF configure, Configs, SettingsInv
    <3>3. /\ Got(r)["bot_token"] \in {"", conf'["bot_token"]}
          /\ Got(r)["chat_id"] \in {"", conf'["chat_id"]}
          /\ Got(r)["enabled"] \in {"", conf'["enabled"]}
      BY <3>1
    <3> QED
      BY <3>2, <3>3 DEF Keys
  <2>6. \A q \in Changes : IsChange(change'[q])
    BY <1>0, <2>4 DEF SettingsInv
  <2>7. ASSUME NEW q \in Changes \ {r}
        PROVE  change'[q] = change[q] /\ \A k \in Keys : ReadSoFar(q, k)' <=> ReadSoFar(q, k)
    BY <2>4 DEF ReadSoFar, SettingsInv
  <2>8. change' = [q \in Changes |-> change'[q]] /\ change'[r].at = "over"
    BY <1>0, <2>4 DEF SettingsInv
  <2> QED
    BY <2>3, <2>4, <2>5, <2>6, <2>7, <2>8 DEF SettingsInv, ConfigFollows
<1> QED
  BY <1>1, <1>2, <1>3, <1>4, <1>5, <1>6, <1>0 DEF SettingsNext

(***************************************************************************)
(* The announcement of an event                                            *)
(***************************************************************************)

\* An emit is about browsers; w has been sent e.
IsEmit(x) == x \in [at : {x.at}, todo : SUBSET Browsers, all : SUBSET Browsers, lost : SUBSET Browsers, tries : Nat]

Hears(w, e) == \E n \in 1..Len(heard[w]) : heard[w][n] = e

\* The emits, what was sent and who is connected.
EmitTypes ==
  /\ emit = [e \in Events |-> emit[e]] /\ \A e \in Events : IsEmit(emit[e])
  /\ heard \in [Browsers -> Seq(Events)] /\ sends \in [Events -> Seq(Outcomes)]
  /\ clients \in SUBSET Browsers /\ online \in SUBSET Browsers

\* A call to Telegram is made again after one without an answer and once only, as long as the
\* configuration is what it was when the event was or was not logged.
SendState(e) ==
  /\ emit[e].at \in {"idle", "never", "browsers"} => sends[e] = <<>> /\ e \notin logged
  /\ emit[e].at \in {"browsers", "queue"} => emit[e].tries = 0
  /\ e \notin moved =>
       /\ emit[e].at = "queue" => sends[e] = <<>> /\ (e \in logged <=> ~is_configured)
       /\ emit[e].at \in {"pacing", "posting"} =>
            /\ e \notin logged /\ \A k \in 1..Len(sends[e]) : sends[e][k] \in Retriable
            /\ Len(sends[e]) <= 1
            /\ emit[e].at = "pacing" => emit[e].tries = Len(sends[e])
            /\ emit[e].at = "posting" => emit[e].tries = Len(sends[e]) + 1
       /\ emit[e].at = "done" =>
            /\ e \in logged <=> Len(sends[e]) = 0
            /\ Len(sends[e]) <= 2 /\ \A k \in 1..Len(sends[e]) - 1 : sends[e][k] \in Retriable
            /\ Len(sends[e]) = 1 => sends[e][1] \notin Retriable

\* The browsers of an emit are those of its beginning: each is waiting, sent to, or lost.
HearState(e) ==
  /\ emit[e].todo \subseteq emit[e].all
  /\ emit[e].at \notin {"idle", "never", "browsers"} => emit[e].todo = {}
  /\ \A w \in Browsers :
       /\ emit[e].at \in {"idle", "never"} \/ w \in emit[e].todo \/ w \notin emit[e].all => ~Hears(w, e)
       /\ emit[e].at \notin {"idle", "never"} /\ w \in emit[e].all \ (emit[e].todo \cup emit[e].lost) => Hears(w, e)
       /\ \A m, n \in 1..Len(heard[w]) : heard[w][m] = e /\ heard[w][n] = e => m = n

\* What HeardOnce and ClientsHear need to be preserved.
EmitInv == EmitTypes /\ \A e \in Events : SendState(e) /\ HearState(e) /\ (e \in due => emit[e].at = "never")

\* The emit of e moves to x.
LEMMA Moved ==
  ASSUME EmitTypes, NEW e \in Events, NEW x, IsEmit(x), Moves(e, x)
  PROVE  /\ emit' = [d \in Events |-> emit'[d]] /\ emit'[e] = x
         /\ \A d \in Events \ {e} : emit'[d] = emit[d]
BY DEF EmitTypes, Moves

\* What an event has come to is not touched by what happens to another one.
LEMMA OthersSend ==
  ASSUME NEW d \in Events, SendState(d), emit'[d] = emit[d], sends'[d] = sends[d],
         d \in logged' <=> d \in logged, d \notin moved' => d \notin moved /\ conf' = conf
  PROVE  SendState(d)'
BY DEF SendState, is_configured

\* So is who has heard of it.
LEMMA OthersHear ==
  ASSUME NEW d \in Events, HearState(d), heard' = heard,
         emit'[d].at = emit[d].at, emit'[d].todo = emit[d].todo, emit'[d].all = emit[d].all,
         emit[d].lost \subseteq emit'[d].lost
  PROVE  HearState(d)'
BY DEF HearState, Hears

\* An emit moves on; the browsers it is for have been served or wait as before.
LEMMA MovesOn ==
  ASSUME EmitInv, NEW e \in Events, NEW x, IsEmit(x), Moves(e, x),
         heard' = heard, clients' \in SUBSET Browsers, online' \in SUBSET Browsers, due' \subseteq due,
         sends' \in [Events -> Seq(Outcomes)], conf' = conf, moved' = moved,
         \A d \in Events \ {e} : sends'[d] = sends[d] /\ (d \in logged' <=> d \in logged),
         x.todo = emit[e].todo, x.all = emit[e].all, x.lost = emit[e].lost,
         emit[e].at \notin {"idle", "never"}, x.at \notin {"idle", "never", "browsers"}, emit[e].todo = {},
         SendState(e)'
  PROVE  EmitInv'
<1>1. /\ emit' = [d \in Events |-> emit'[d]] /\ emit'[e] = x
      /\ \A d \in Events \ {e} : emit'[d] = emit[d]
  BY Moved DEF EmitInv
<1>2. EmitTypes'
  BY <1>1 DEF EmitInv, EmitTypes
<1>3. ASSUME NEW d \in Events \ {e} PROVE SendState(d)' /\ HearState(d)' /\ (d \in due' => emit'[d].at = "never")
  BY <1>1, <1>3, OthersSend, OthersHear DEF EmitInv
<1>4. HearState(e)'
  <2>1. \A w \in Browsers : Hears(w, e)' <=> Hears(w, e)
    BY DEF Hears
  <2>2. /\ emit'[e].at \notin {"idle", "never", "browsers"} /\ emit'[e].todo = {} /\ emit'[e].all = emit[e].all
        /\ emit'[e].lost = emit[e].lost
    BY <1>1
  <2> QED
    BY <2>1, <2>2 DEF EmitInv, HearState
<1>5. e \notin due'
  BY DEF EmitInv
<1> QED
  BY <1>2, <1>3, <1>4, <1>5 DEF EmitInv

\* An announcement begins: the emit is idle, its browsers are the clients of this moment.
LEMMA Emits == ASSUME EmitInv, NEW e \in Events, emits(e), due' \subseteq due PROVE EmitInv'
<1> DEFINE x == [NoEmit EXCEPT !.at = "browsers", !.todo = clients, !.all = clients]
<1>1. IsEmit(x) /\ x.at = "browsers" /\ x.todo = clients /\ x.all = clients /\ x.lost = {} /\ x.tries = 0
  BY DEF NoEmit, IsEmit, EmitInv, EmitTypes
<1>2. /\ emit[e].at = "idle" /\ Moves(e, x)
      /\ UNCHANGED <<conf, clients, heard, logged, sends, moved, online>>
  BY DEF emits
<1> HIDE DEF x
<1>3. /\ emit' = [d \in Events |-> emit'[d]] /\ emit'[e] = x
      /\ \A d \in Events \ {e} : emit'[d] = emit[d]
  BY <1>1, <1>2, Moved DEF EmitInv
<1>4. EmitTypes'
  BY <1>1, <1>2, <1>3 DEF EmitInv, EmitTypes
<1>5. ASSUME NEW d \in Events \ {e} PROVE SendState(d)' /\ HearState(d)' /\ (d \in due' => emit'[d].at = "never")
  BY <1>2, <1>3, OthersSend, OthersHear DEF EmitInv
<1>6. SendState(e)'
  BY <1>1, <1>2, <1>3 DEF EmitInv, SendState
<1>7. HearState(e)'
  BY <1>1, <1>2, <1>3 DEF EmitInv, HearState, Hears
<1>8. e \notin due'
  BY <1>2 DEF EmitInv
<1> QED
  BY <1>4, <1>5, <1>6, <1>7, <1>8 DEF EmitInv

\* A browser is sent the event or is lost.
LEMMA Sends ==
  ASSUME EmitInv, NEW e \in Events, NEW w \in Browsers, NEW ok \in BOOLEAN, send_text(e, w, ok), due' \subseteq due
  PROVE  EmitInv'
<1> DEFINE x == [emit[e] EXCEPT !.todo = @ \ {w}, !.lost = IF ok THEN @ ELSE @ \cup {w}]
<1>1. /\ emit[e].at = "browsers" /\ w \in emit[e].todo /\ Moves(e, x)
      /\ heard' = IF ok THEN [heard EXCEPT ![w] = Append(@, e)] ELSE heard
      /\ UNCHANGED <<conf, clients, logged, sends, moved, online>>
  BY DEF send_text
<1>2. /\ IsEmit(x) /\ x.at = "browsers" /\ x.todo = emit[e].todo \ {w} /\ x.all = emit[e].all
      /\ x.tries = emit[e].tries /\ x.lost = IF ok THEN emit[e].lost ELSE emit[e].lost \cup {w}
  <2>1. IsEmit(emit[e])
    BY DEF EmitInv, EmitTypes
  <2> DEFINE T == emit[e].todo \ {w}
             L == IF ok THEN emit[e].lost ELSE emit[e].lost \cup {w}
  <2>2. T \in SUBSET Browsers /\ L \in SUBSET Browsers
    BY DEF IsEmit, EmitInv, EmitTypes
  <2>3. x = [emit[e] EXCEPT !.todo = T, !.lost = L]
    OBVIOUS
  <2> HIDE DEF T, L, x
  <2>4. IsEmit(x) /\ x.at = emit[e].at /\ x.todo = T /\ x.all = emit[e].all /\ x.tries = emit[e].tries /\ x.lost = L
    BY <2>1, <2>2, <2>3 DEF IsEmit
  <2> QED
    BY <1>1, <2>4 DEF T, L
<1> HIDE DEF x
<1>3. /\ emit' = [d \in Events |-> emit'[d]] /\ emit'[e] = x
      /\ \A d \in Events \ {e} : emit'[d] = emit[d]
  BY <1>1, <1>2, Moved DEF EmitInv
<1>4. heard' \in [Browsers -> Seq(Events)] /\ \A v \in Browsers \ {w} : heard'[v] = heard[v]
  BY <1>1 DEF EmitInv, EmitTypes
<1>5. CASE ok
  <2>1. /\ heard[w] \in Seq(Events) /\ heard'[w] = Append(heard[w], e)
    BY <1>1, <1>5 DEF EmitInv, EmitTypes
  <2>2. /\ Len(heard'[w]) = Len(heard[w]) + 1 /\ heard'[w][Len(heard[w]) + 1] = e /\ Len(heard[w]) \in Nat
        /\ \A n \in 1..Len(heard[w]) : heard'[w][n] = heard[w][n]
    BY <2>1
  <2>3. ASSUME NEW d \in Events \ {e} PROVE HearState(d)'
    <3>1. \A v \in Browsers : Hears(v, d)' <=> Hears(v, d)
      BY <1>4, <2>2 DEF Hears
    <3>2. ASSUME NEW v \in Browsers, NEW m \in 1..Len(heard'[v]), NEW n \in 1..Len(heard'[v]),
                 heard'[v][m] = d, heard'[v][n] = d
          PROVE  m = n
      <4>1. m \in 1..Len(heard[v]) /\ n \in 1..Len(heard[v]) /\ heard[v][m] = d /\ heard[v][n] = d
        BY <1>4, <2>2, <3>2
      <4> QED
        BY <4>1 DEF EmitInv, HearState
    <3> QED
      BY <1>3, <3>1, <3>2 DEF EmitInv, HearState
  <2>4. Hears(w, e)' /\ \A v \in Browsers \ {w} : Hears(v, e)' <=> Hears(v, e)
    BY <1>4, <2>2 DEF Hears
  <2>5. ASSUME NEW v \in Browsers, NEW m \in 1..Len(heard'[v]), NEW n \in 1..Len(heard'[v]), heard'[v][m] = e, heard'[v][n] = e
        PROVE  m = n
    <3>1. ~Hears(w, e)
      BY <1>1 DEF EmitInv, HearState
    <3> QED
      BY <1>4, <2>2, <2>5, <3>1 DEF EmitInv, HearState, Hears
  <2>6. HearState(e)'
    BY <1>1, <1>2, <1>3, <1>5, <2>4, <2>5 DEF EmitInv, HearState
  <2> QED
    BY <2>3, <2>6, <1>1, <1>2, <1>3, <1>4, OthersSend DEF EmitInv, EmitTypes, SendState
<1>6. CASE ~ok
  <2>1. heard' = heard
    BY <1>1, <1>6
  <2>2. HearState(e)'
    BY <1>1, <1>2, <1>3, <1>6, <2>1 DEF EmitInv, HearState, Hears
  <2> QED
    BY <2>1, <2>2, <1>1, <1>2, <1>3, <1>4, OthersSend, OthersHear DEF EmitInv, EmitTypes, SendState
<1> QED
  BY <1>5, <1>6

\* An emit goes on after the browsers: it is logged, queued, paced, posted, and posted again.
LEMMA Announces ==
  ASSUME EmitInv, NEW e \in Events,
         \/ sent_and_logged(e) \/ telegram_notify(e) \/ _do_send(e)
         \/ \E o \in Outcomes : _send_with_retry(e, o),
         due' \subseteq due
  PROVE  EmitInv'
<1>0. IsEmit(emit[e]) /\ HearState(e) /\ SendState(e)
  BY DEF EmitInv, EmitTypes
<1>1. CASE sent_and_logged(e)
  <2> DEFINE x == [emit[e] EXCEPT !.at = "queue"]
  <2>1. /\ IsEmit(x) /\ x.at = "queue" /\ x.todo = emit[e].todo /\ x.all = emit[e].all
        /\ x.lost = emit[e].lost /\ x.tries = emit[e].tries
    BY <1>0 DEF IsEmit
  <2>2. /\ emit[e].at = "browsers" /\ emit[e].todo = {} /\ Moves(e, x) /\ clients' = clients \ emit[e].lost
        /\ logged' = IF is_configured THEN logged ELSE logged \cup {e}
        /\ UNCHANGED <<conf, heard, sends, moved, online>>
    BY <1>1 DEF sent_and_logged, _handle_event
  <2> HIDE DEF x
  <2>3. emit'[e] = x
    BY <2>1, <2>2, Moved DEF EmitInv
  <2>4. SendState(e)'
    BY <1>0, <2>1, <2>2, <2>3 DEF SendState, is_configured
  <2> QED
    BY <2>1, <2>2, <2>4, MovesOn DEF EmitInv, EmitTypes
<1>2. CASE telegram_notify(e)
  <2> DEFINE x == [emit[e] EXCEPT !.at = IF is_configured THEN "pacing" ELSE "done"]
  <2>1. /\ IsEmit(x) /\ x.at = (IF is_configured THEN "pacing" ELSE "done") /\ x.todo = emit[e].todo /\ x.all = emit[e].all
        /\ x.lost = emit[e].lost /\ x.tries = emit[e].tries
    BY <1>0 DEF IsEmit
  <2>2. /\ emit[e].at = "queue" /\ Moves(e, x)
        /\ UNCHANGED <<conf, clients, heard, logged, sends, moved, online>>
    BY <1>2 DEF telegram_notify
  <2> HIDE DEF x
  <2>3. emit'[e] = x
    BY <2>1, <2>2, Moved DEF EmitInv
  <2>4. sends[e] \in Seq(Outcomes)
    BY DEF EmitInv, EmitTypes
  <2>5. emit[e].todo = {}
    BY <1>0, <2>2 DEF HearState
  <2>6. CASE is_configured
    <3>1. x.at = "pacing"
      BY <2>1, <2>6
    <3>2. SendState(e)'
      BY <1>0, <2>1, <2>2, <2>3, <2>4, <2>6, <3>1 DEF SendState
    <3> QED
      BY <2>1, <2>2, <2>5, <3>1, <3>2, MovesOn DEF EmitInv, EmitTypes
  <2>7. CASE ~is_configured
    <3>1. x.at = "done"
      BY <2>1, <2>7
    <3>2. SendState(e)'
      BY <1>0, <2>1, <2>2, <2>3, <2>4, <2>7, <3>1 DEF SendState
    <3> QED
      BY <2>1, <2>2, <2>5, <3>1, <3>2, MovesOn DEF EmitInv, EmitTypes
  <2> QED
    BY <2>6, <2>7
<1>3. CASE _do_send(e)
  <2> DEFINE x == [emit[e] EXCEPT !.at = "posting", !.tries = @ + 1]
  <2>1. /\ IsEmit(x) /\ x.at = "posting" /\ x.todo = emit[e].todo /\ x.all = emit[e].all
        /\ x.lost = emit[e].lost /\ x.tries = emit[e].tries + 1
    <3>1. emit[e].tries + 1 \in Nat
      BY <1>0 DEF IsEmit
    <3>2. ASSUME NEW m \in Nat
          PROVE  LET y == [emit[e] EXCEPT !.at = "posting", !.tries = m]
                 IN  /\ IsEmit(y) /\ y.at = "posting" /\ y.todo = emit[e].todo /\ y.all = emit[e].all
                     /\ y.lost = emit[e].lost /\ y.tries = m
      BY <1>0 DEF IsEmit
    <3> QED
      BY <3>1, <3>2, Zenon
  <2>2. /\ emit[e].at = "pacing" /\ Moves(e, x)
        /\ UNCHANGED <<conf, clients, heard, logged, sends, moved, online>>
    BY <1>3 DEF _do_send
  <2> HIDE DEF x
  <2>3. emit'[e] = x
    BY <2>1, <2>2, Moved DEF EmitInv
  <2>4. SendState(e)'
    <3>1. sends[e] \in Seq(Outcomes)
      BY DEF EmitInv, EmitTypes
    <3> QED
      BY <1>0, <2>1, <2>2, <2>3, <3>1 DEF SendState
  <2>5. emit[e].todo = {}
    BY <1>0, <2>2 DEF HearState
  <2> QED
    BY <2>1, <2>2, <2>4, <2>5, MovesOn DEF EmitInv, EmitTypes
<1>4. ASSUME NEW o \in Outcomes, _send_with_retry(e, o) PROVE EmitInv'
  <2> DEFINE x == [emit[e] EXCEPT !.at = After(o, emit[e].tries)]
  <2>1. /\ IsEmit(x) /\ x.at = After(o, emit[e].tries) /\ x.todo = emit[e].todo /\ x.all = emit[e].all
        /\ x.lost = emit[e].lost /\ x.tries = emit[e].tries /\ x.tries \in Nat
    BY <1>0 DEF IsEmit
  <2>2. /\ emit[e].at = "posting" /\ Moves(e, x) /\ sends' = [sends EXCEPT ![e] = Append(@, o)]
        /\ UNCHANGED <<conf, clients, heard, logged, moved, online>>
    BY <1>4 DEF _send_with_retry
  <2> HIDE DEF x
  <2>3. emit'[e] = x
    BY <2>1, <2>2, Moved DEF EmitInv
  <2>4. /\ sends[e] \in Seq(Outcomes) /\ sends' \in [Events -> Seq(Outcomes)]
        /\ sends'[e] = Append(sends[e], o) /\ \A d \in Events \ {e} : sends'[d] = sends[d]
    BY <2>2 DEF EmitInv, EmitTypes
  <2>5. /\ Len(sends'[e]) = Len(sends[e]) + 1 /\ Len(sends[e]) \in Nat /\ sends'[e][Len(sends[e]) + 1] = o
        /\ \A k \in 1..Len(sends[e]) : sends'[e][k] = sends[e][k]
    BY <2>4
  <2>6. SendState(e)'
    <3>1. CASE o \in Retriable /\ emit[e].tries <= 1
      <4>1. x.at = "pacing"
        BY <2>1, <3>1 DEF After, _MAX_RETRIES
      <4> QED
        BY <1>0, <2>1, <2>2, <2>3, <2>5, <3>1, <4>1 DEF SendState
    <3>2. CASE ~(o \in Retriable /\ emit[e].tries <= 1)
      <4>1. x.at = "done"
        BY <2>1, <3>2 DEF After, _MAX_RETRIES
      <4> QED
        BY <1>0, <2>1, <2>2, <2>3, <2>5, <3>2, <4>1 DEF SendState
    <3> QED
      BY <3>1, <3>2
  <2>7. emit[e].todo = {} /\ x.at \notin {"idle", "never", "browsers"}
    BY <1>0, <2>1, <2>2 DEF HearState, After
  <2> QED
    BY <2>1, <2>2, <2>4, <2>6, <2>7, MovesOn DEF EmitInv, EmitTypes
<1> QED
  BY <1>1, <1>2, <1>3, <1>4

(***************************************************************************)
(* Announcements with everything else                                      *)
(***************************************************************************)

\* A browser joins, or leaves and is lost to the emits under way.
LEMMA Browsing ==
  ASSUME EmitInv, NEW w \in Browsers, events_ws(w) \/ events_ws_ends(w), due' \subseteq due
  PROVE  EmitInv'
<1>1. CASE events_ws(w)
  <2>1. EmitTypes'
    BY <1>1 DEF events_ws, EmitInv, EmitTypes
  <2>2. \A d \in Events : SendState(d)' /\ HearState(d)'
    BY <1>1, OthersSend, OthersHear DEF events_ws, EmitInv
  <2> QED
    BY <1>1, <2>1, <2>2 DEF events_ws, EmitInv
<1>2. CASE events_ws_ends(w)
  <2>1. ASSUME NEW d \in Events
        PROVE  /\ IsEmit(emit'[d]) /\ emit'[d].at = emit[d].at /\ emit'[d].todo = emit[d].todo
               /\ emit'[d].all = emit[d].all /\ emit'[d].tries = emit[d].tries /\ emit[d].lost \subseteq emit'[d].lost
    <3>1. emit'[d] = [emit[d] EXCEPT !.lost = @ \cup ({w} \cap emit[d].all)]
      BY <1>2 DEF events_ws_ends, Leaves
    <3> QED
      BY <3>1 DEF EmitInv, EmitTypes, IsEmit
  <2>2. EmitTypes'
    BY <1>2, <2>1 DEF events_ws_ends, EmitInv, EmitTypes
  <2>3. ASSUME NEW d \in Events PROVE SendState(d)'
    BY <1>2, <2>1 DEF events_ws_ends, EmitInv, SendState, is_configured
  <2>4. ASSUME NEW d \in Events PROVE HearState(d)'
    BY <1>2, <2>1, OthersHear DEF events_ws_ends, EmitInv
  <2> QED
    BY <2>1, <2>2, <2>3, <2>4 DEF EmitInv
<1> QED
  BY <1>1, <1>2

\* A change of the configuration while events are announced.
LEMMA SettingsMeetEmits ==
  ASSUME EmitInv, NEW r \in Changes, SettingsNext(r), due' \subseteq due
  PROVE  EmitInv'
<1>1. /\ UNCHANGED <<clients, emit, heard, logged, sends, online>>
      /\ \/ UNCHANGED <<conf, moved>>
         \/ moved' = moved \cup {e \in Events : emit[e].at \notin {"idle", "done", "never"}}
  BY DEF SettingsNext, set_untold, update_setting, reset, reset_all, _reconfigure_telegram, configured
<1>2. EmitTypes'
  BY <1>1 DEF EmitInv, EmitTypes
<1>3. ASSUME NEW e \in Events PROVE SendState(e)'
  <2>1. CASE UNCHANGED <<conf, moved>>
    BY <1>1, <2>1 DEF EmitInv, SendState, is_configured
  <2>2. CASE moved' = moved \cup {d \in Events : emit[d].at \notin {"idle", "done", "never"}}
    BY <1>1, <2>2 DEF EmitInv, SendState
  <2> QED
    BY <1>1, <2>1, <2>2
<1>4. ASSUME NEW e \in Events PROVE HearState(e)'
  BY <1>1, OthersHear DEF EmitInv
<1> QED
  BY <1>1, <1>2, <1>3, <1>4 DEF EmitInv

\* Of all this a page changes what may still be connected and, with a change on the server, the
\* event that announces it.
LEMMA PageLeaves ==
  ASSUME FeedNext
  PROVE  /\ UNCHANGED <<settings, conf, change, clients, heard, logged, sends, moved, followed>> /\ due' \subseteq due
         /\ online' = online \/ \E w \in Browsers : online' \in {online \cup {w}, online \ {w}}
         /\ emit' = emit \/ \E e \in Events : server_change(e)
<1> USE DEF serverVars, changeVars, noteVars
<1>1. CASE mount
  BY <1>1 DEF mount, connect
<1>2. CASE unmount
  BY <1>2 DEF unmount
<1>3. CASE CacheNext
  BY <1>3 DEF CacheNext
<1>4. ASSUME NEW w \in Browsers, onopen(w) \/ onmessage(w) PROVE UNCHANGED <<noteVars, due>>
  BY <1>4 DEF onopen, onmessage
<1>5. ASSUME NEW w \in Browsers, onclose(w)
      PROVE  UNCHANGED <<settings, conf, change, clients, heard, logged, sends, moved, followed, emit, due>>
             /\ online' = online \ {w}
  BY <1>5 DEF onclose
<1>6. ASSUME NEW t \in Browsers, reconnect(t)
      PROVE  UNCHANGED <<settings, conf, change, clients, heard, logged, sends, moved, followed, emit, due>>
             /\ (online' = online \/ \E w \in Browsers : online' = online \cup {w})
  BY <1>6 DEF reconnect, connect
<1>7. ASSUME NEW e \in Events, mutate(e) \/ mutation_made(e) \/ onSuccess(e) \/ onError(e)
      PROVE  /\ UNCHANGED <<settings, conf, change, clients, heard, logged, sends, moved, followed, emit, online>>
             /\ due' \subseteq due
  BY <1>7 DEF mutate, mutation_made, onSuccess, onError
<1>8. ASSUME NEW e \in Events, server_change(e)
      PROVE  UNCHANGED <<settings, conf, change, clients, heard, logged, sends, moved, followed, online>> /\ due' \subseteq due
  BY <1>8 DEF server_change
<1> QED
  BY <1>1, <1>2, <1>3, <1>4, <1>5, <1>6, <1>7, <1>8 DEF FeedNext

\* A page connects, closes, or has a change made that is announced.
LEMMA PagesMeetEmits == ASSUME EmitInv, FeedNext PROVE EmitInv'
<1>1. /\ UNCHANGED <<settings, conf, change, clients, heard, logged, sends, moved, followed>> /\ due' \subseteq due
      /\ online' \in SUBSET Browsers
      /\ emit' = emit \/ \E e \in Events : server_change(e)
  <2>1. online \in SUBSET Browsers
    BY DEF EmitInv, EmitTypes
  <2> QED
    BY <2>1, PageLeaves
<1>2. CASE emit' = emit
  <2>1. EmitTypes'
    BY <1>1, <1>2 DEF EmitInv, EmitTypes
  <2>2. \A d \in Events : SendState(d)' /\ HearState(d)'
    BY <1>1, <1>2, OthersSend, OthersHear DEF EmitInv
  <2> QED
    BY <1>1, <1>2, <2>1, <2>2 DEF EmitInv
<1>3. ASSUME NEW e \in Events, server_change(e) PROVE EmitInv'
  <2>1. e \in due /\ due' = due \ {e} /\ Moves(e, NoEmit) /\ emit[e].at = "never"
    BY <1>3 DEF server_change, Moves, EmitInv
  <2>2. IsEmit(NoEmit) /\ NoEmit.at = "idle" /\ NoEmit.todo = {} /\ NoEmit.all = {} /\ NoEmit.lost = {}
    BY DEF IsEmit, NoEmit
  <2>3. /\ emit' = [d \in Events |-> emit'[d]] /\ emit'[e] = NoEmit
        /\ \A d \in Events \ {e} : emit'[d] = emit[d]
    BY <2>1, <2>2, Moved DEF EmitInv
  <2>4. EmitTypes'
    BY <1>1, <2>2, <2>3 DEF EmitInv, EmitTypes
  <2>5. ASSUME NEW d \in Events \ {e} PROVE SendState(d)' /\ HearState(d)' /\ (d \in due' => emit'[d].at = "never")
    BY <1>1, <2>1, <2>3, OthersSend, OthersHear DEF EmitInv
  <2>6. SendState(e)' /\ HearState(e)'
    BY <1>1, <2>1, <2>2, <2>3 DEF EmitInv, SendState, HearState, Hears
  <2> QED
    BY <2>1, <2>4, <2>5, <2>6 DEF EmitInv
<1> QED
  BY <1>1, <1>2, <1>3

\* The settings are where they were.
LEMMA SettingsStay == ASSUME SettingsInv, UNCHANGED <<settings, conf, change, followed>> PROVE SettingsInv'
<1>1. \A r \in Changes, k \in Keys : ReadSoFar(r, k)' <=> ReadSoFar(r, k)
  BY DEF ReadSoFar
<1>2. ConfigFollows'
  BY DEF SettingsInv, ConfigFollows
<1> QED
  BY <1>1, <1>2 DEF SettingsInv

\* SettingsInv and EmitInv are invariants.
LEMMA NewsHold == Spec => [](SettingsInv /\ EmitInv)
<1>1. Init => SettingsInv /\ EmitInv
  <2> SUFFICES ASSUME NEW s \in Scenarios, NotificationsInit(s.news, s.browsers, s.token), due = s.changes,
                      s.token \in SettingValues, s.news \cap s.changes = {}, s.browsers \subseteq Browsers
               PROVE  SettingsInv /\ EmitInv
    BY ScenariosAssumption DEF Init, FeedInit, SettingValues
  <2>1. SettingsInv
    BY DEF NotificationsInit, SettingsInv, IsChange, ConfigFollows, NoChange, Over, _DEFAULTS, Configs, SettingValues
  <2>2. \A e \in Events : emit[e] = (IF e \in s.news THEN NoEmit ELSE [NoEmit EXCEPT !.at = "never"])
    BY DEF NotificationsInit
  <2>3. ASSUME NEW e \in Events
        PROVE  /\ IsEmit(emit[e]) /\ emit[e].at \in {"idle", "never"} /\ (e \notin s.news => emit[e].at = "never")
               /\ emit[e].todo = {} /\ emit[e].all = {}
    <3>1. IsEmit(NoEmit) /\ NoEmit.at = "idle" /\ NoEmit.todo = {} /\ NoEmit.all = {}
      BY DEF NoEmit, IsEmit
    <3>2. /\ IsEmit([NoEmit EXCEPT !.at = "never"]) /\ [NoEmit EXCEPT !.at = "never"].at = "never"
          /\ [NoEmit EXCEPT !.at = "never"].todo = {} /\ [NoEmit EXCEPT !.at = "never"].all = {}
      BY DEF NoEmit, IsEmit
    <3> QED
      BY <2>2, <3>1, <3>2
  <2>4. EmitTypes
    <3>1. /\ emit = [e \in Events |-> emit[e]] /\ heard \in [Browsers -> Seq(Events)]
          /\ sends \in [Events -> Seq(Outcomes)] /\ clients = {} /\ online = s.browsers
      <4>1. /\ emit = [e \in Events |-> emit[e]] /\ clients = {} /\ online = s.browsers
            /\ heard = [w \in Browsers |-> <<>>] /\ sends = [e \in Events |-> <<>>]
        BY DEF NotificationsInit
      <4> QED
        BY <4>1
    <3> QED
      BY <2>3, <3>1 DEF EmitTypes
  <2>5. ASSUME NEW e \in Events PROVE SendState(e) /\ HearState(e)
    <3>1. sends[e] = <<>> /\ e \notin logged /\ \A w \in Browsers : heard[w] = <<>>
      BY DEF NotificationsInit
    <3>2. \A w \in Browsers : Len(heard[w]) = 0 /\ ~Hears(w, e)
      BY <3>1 DEF Hears
    <3>3. HearState(e)
      BY <2>3, <3>2 DEF HearState
    <3>4. SendState(e)
      BY <2>3, <3>1 DEF SendState
    <3> QED
      BY <3>3, <3>4
  <2> QED
    BY <2>1, <2>3, <2>4, <2>5 DEF EmitInv
<1>2. SettingsInv /\ [Next]_vars => SettingsInv'
  <2>1. ASSUME SettingsInv, NotificationsNext PROVE SettingsInv'
    <3>1. ASSUME NEW e \in Events, EmitNext(e) PROVE UNCHANGED <<settings, conf, change, followed>>
      BY <3>1 DEF EmitNext, emits, sent_and_logged, telegram_notify, _do_send, send_text, _send_with_retry
    <3>2. ASSUME NEW w \in Browsers, events_ws(w) \/ events_ws_ends(w) PROVE UNCHANGED <<settings, conf, change, followed>>
      BY <3>2 DEF events_ws, events_ws_ends
    <3>3. UNCHANGED <<settings, conf, change, followed>> => SettingsInv'
      BY <2>1, SettingsStay
    <3> QED
      BY <2>1, <3>1, <3>2, <3>3, SettingsRequests DEF NotificationsNext
  <2>2. SettingsInv /\ UNCHANGED <<settings, conf, change, followed>> => SettingsInv'
    BY SettingsStay
  <2>3. FeedNext => UNCHANGED <<settings, conf, change, followed>>
    BY PageLeaves
  <2> QED
    BY <2>1, <2>2, <2>3 DEF Next, vars, noteVars
<1>3. EmitInv /\ [Next]_vars => EmitInv'
  <2>1. ASSUME EmitInv, NotificationsNext, due' \subseteq due PROVE EmitInv'
    <3>1. ASSUME NEW e \in Events, EmitNext(e) PROVE EmitInv'
      BY <2>1, <3>1, Emits, Sends, Announces DEF EmitNext
    <3> QED
      BY <2>1, <3>1, Browsing, SettingsMeetEmits DEF NotificationsNext
  <2>2. ASSUME EmitInv, UNCHANGED <<noteVars, feedVars>> PROVE EmitInv'
    <3>1. \A d \in Events : SendState(d)' /\ HearState(d)'
      BY <2>2, OthersSend, OthersHear DEF EmitInv, noteVars
    <3> QED
      BY <2>2, <3>1 DEF EmitInv, EmitTypes, noteVars, feedVars
  <2> QED
    BY <2>1, <2>2, PagesMeetEmits DEF Next, vars, feedVars
<1> QED
  BY <1>1, <1>2, <1>3, PTL DEF Spec

\* TelegramService uses what the settings say once a request has changed them alone
\* (update_setting, _reconfigure_telegram).
THEOREM SettingsAreFollowed == Spec => []ConfigFollows
<1>1. SettingsInv => ConfigFollows
  BY DEF SettingsInv
<1> QED
  BY <1>1, NewsHold, PTL

\* Every event is in the log or has been posted once, or twice when the first call had no answer
\* (_handle_event, _send_with_retry).
THEOREM EventsAreHeardOnce == Spec => []HeardOnce
<1>1. EmitInv => HeardOnce
  BY DEF EmitInv, EmitTypes, SendState, HeardOnce
<1> QED
  BY <1>1, NewsHold, PTL

\* Every browser connected at the emit is sent the event once, whatever becomes of the others
\* (EventService.emit).
THEOREM ConnectedClientsHear == Spec => []ClientsHear
<1>1. EmitInv => ClientsHear
  <2> SUFFICES ASSUME EmitInv, NEW e \in Events, emit[e].at \notin {"idle", "never", "browsers"},
                      NEW w \in emit[e].all \ emit[e].lost
               PROVE  Cardinality({n \in DOMAIN heard[w] : heard[w][n] = e}) = 1
    BY DEF ClientsHear
  <2>1. w \in Browsers /\ heard[w] \in Seq(Events)
    BY DEF EmitInv, EmitTypes, IsEmit
  <2>2. PICK n \in 1..Len(heard[w]) : heard[w][n] = e
    BY <2>1 DEF EmitInv, HearState, Hears
  <2>3. {m \in DOMAIN heard[w] : heard[w][m] = e} = {n}
    BY <2>1, <2>2 DEF EmitInv, HearState
  <2> QED
    BY <2>3, FS_Singleton
<1> QED
  BY <1>1, NewsHold, PTL

(***************************************************************************)
(* What a page shows of the events                                         *)
(***************************************************************************)

\* A socket in use; one in use or still to be made; an event sent to it that it has not handled.
Live(w) == readyState[w] \in {"connecting", "open", "closing"}

Usable(w) == Live(w) \/ readyState[w] = "none"

Unread(w, e) == \E n \in read[w] + 1..Len(heard[w]) : heard[w][n] = e

\* The sockets of the page and what it has shown.
SocketTypes ==
  /\ readyState = [w \in Browsers |-> readyState[w]]
  /\ read \in [Browsers -> Nat] /\ toasts \in [Events -> Nat]
  /\ \A w \in Browsers : readyState[w] \in {"never", "none", "connecting", "open", "closing", "closed"}

\* The server knows nothing of a socket before the page has made it.
Unmade ==
  \A w \in Browsers : readyState[w] = "none" =>
    w \notin online \cup clients /\ heard[w] = <<>> /\ \A e \in Events : w \notin emit[e].all

\* One socket at a time, the one of wsRef, and no timeout is left when it is there or the page
\* has been left.
OneSocket ==
  /\ \A v, w \in Browsers : Live(v) /\ Live(w) => v = w
  /\ \A w \in Browsers : Live(w) => IF cleanedUp THEN readyState[w] # "open" ELSE w = wsRef
  /\ IF cleanedUp \/ \E w \in Browsers : Live(w) THEN timers = {} ELSE timers \subseteq {timerRef}

\* What has been shown is never to be read again, by a socket in use or a later one.
ShownIsOver ==
  \A e \in Events : toasts[e] > 0 =>
    /\ toasts[e] = 1 /\ emit[e].at \notin {"idle", "never"}
    /\ \A w \in Browsers : Usable(w) => w \notin emit[e].todo /\ ~Unread(w, e)

\* ShownOnce needs one socket at a time.
PageInv == SocketTypes /\ Unmade /\ (~twin => OneSocket /\ ShownIsOver)

\* At first the page is not mounted, or has lost its connection.
LEMMA PageInit == ASSUME Init PROVE PageInv
<1>1. PICK s \in Scenarios : NotificationsInit(s.news, s.browsers, s.token) /\ FeedInit(s.notices, s.changes, s.page)
  BY DEF Init
<1>2. s.browsers \subseteq Browsers \ s.page.feeds
  BY <1>1, ScenariosAssumption
<1>3. /\ readyState = [w \in Browsers |-> IF w = s.page.lost THEN "closed" ELSE IF w \in s.page.feeds THEN "none" ELSE "never"]
      /\ read = [w \in Browsers |-> 0] /\ toasts = [e \in Events |-> 0]
      /\ timers = {s.page.lost} \ {NoSocket} /\ timerRef = s.page.lost /\ cleanedUp = (s.page.lost = NoSocket)
  BY <1>1 DEF FeedInit
<1>4. /\ online = s.browsers /\ clients = {} /\ \A w \in Browsers : heard[w] = <<>>
      /\ \A e \in Events : emit[e].all = {}
  <2>1. NoEmit.all = {} /\ [NoEmit EXCEPT !.at = "never"].all = {}
    BY DEF NoEmit
  <2> QED
    BY <1>1, <2>1 DEF NotificationsInit
<1>5. SocketTypes
  BY <1>3 DEF SocketTypes
<1>6. Unmade
  BY <1>2, <1>3, <1>4 DEF Unmade
<1>7. \A w \in Browsers : ~Live(w)
  BY <1>3 DEF Live
<1>8. OneSocket
  BY <1>3, <1>7 DEF OneSocket
<1>9. ShownIsOver
  BY <1>3 DEF ShownIsOver
<1> QED
  BY <1>5, <1>6, <1>8, <1>9 DEF PageInv

\* The server's side: what is sent and to whom.
LEMMA ServerMeetsPages ==
  ASSUME PageInv, EmitInv, NotificationsNext, UNCHANGED feedVars
  PROVE  PageInv'
<1> USE DEF feedVars
<1>1. SocketTypes' /\ (OneSocket => OneSocket') /\ \A w \in Browsers : Usable(w)' <=> Usable(w)
  BY DEF PageInv, SocketTypes, OneSocket, Live, Usable
<1>2. CASE UNCHANGED <<emit, clients, online, heard>>
  BY <1>1, <1>2 DEF PageInv, Unmade, ShownIsOver, Unread
<1>3. ASSUME NEW w \in Browsers, events_ws(w) PROVE PageInv'
  BY <1>1, <1>3 DEF events_ws, PageInv, Unmade, ShownIsOver, Unread
<1>4. ASSUME NEW w \in Browsers, events_ws_ends(w) PROVE PageInv'
  <2>1. ASSUME NEW d \in Events
        PROVE  emit'[d].at = emit[d].at /\ emit'[d].todo = emit[d].todo /\ emit'[d].all = emit[d].all
    <3>1. emit'[d] = [emit[d] EXCEPT !.lost = @ \cup ({w} \cap emit[d].all)]
      BY <1>4 DEF events_ws_ends, Leaves
    <3> QED
      BY <3>1 DEF EmitInv, EmitTypes, IsEmit
  <2>2. clients' \subseteq clients /\ UNCHANGED <<online, heard>>
    BY <1>4 DEF events_ws_ends
  <2>3. Unmade'
    BY <2>1, <2>2 DEF PageInv, Unmade
  <2>4. ShownIsOver => ShownIsOver'
    BY <1>1, <2>1, <2>2 DEF ShownIsOver, Unread
  <2> QED
    BY <1>1, <2>3, <2>4 DEF PageInv
<1>5. ASSUME NEW e \in Events, emits(e) PROVE PageInv'
  <2>1. /\ emit[e].at = "idle" /\ emit'[e].todo = clients /\ emit'[e].all = clients /\ emit'[e].at = "browsers"
        /\ \A d \in Events \ {e} : emit'[d] = emit[d]
        /\ UNCHANGED <<clients, online, heard>>
    <3>1. emit' = [emit EXCEPT ![e] = [NoEmit EXCEPT !.at = "browsers", !.todo = clients, !.all = clients]]
      BY <1>5 DEF emits, Moves
    <3> QED
      BY <1>5, <3>1 DEF emits, NoEmit, EmitInv, EmitTypes
  <2>2. ~twin => toasts[e] = 0
    BY <2>1 DEF PageInv, ShownIsOver, SocketTypes
  <2> QED
    BY <1>1, <2>1, <2>2 DEF PageInv, Unmade, ShownIsOver, Unread
<1>6. ASSUME NEW e \in Events, sent_and_logged(e) \/ telegram_notify(e) \/ _do_send(e)
                               \/ \E o \in Outcomes : _send_with_retry(e, o)
      PROVE  PageInv'
  <2>1. /\ emit[e].at \notin {"idle", "never"}
        /\ emit'[e].at \notin {"idle", "never"} /\ emit'[e].todo = emit[e].todo /\ emit'[e].all = emit[e].all
        /\ \A d \in Events \ {e} : emit'[d] = emit[d]
        /\ online' = online /\ heard' = heard /\ clients' \subseteq clients
    <3> USE DEF Moves, EmitInv, EmitTypes, IsEmit
    <3>1. CASE sent_and_logged(e)
      BY <3>1 DEF sent_and_logged
    <3>2. CASE telegram_notify(e)
      BY <3>2 DEF telegram_notify
    <3>3. CASE _do_send(e)
      BY <3>3 DEF _do_send
    <3>4. ASSUME NEW o \in Outcomes, _send_with_retry(e, o)
          PROVE  /\ emit[e].at = "posting"
                 /\ emit'[e].at \in {"pacing", "done"} /\ emit'[e].todo = emit[e].todo /\ emit'[e].all = emit[e].all
                 /\ \A d \in Events \ {e} : emit'[d] = emit[d]
                 /\ online' = online /\ heard' = heard /\ clients' \subseteq clients
      BY <3>4 DEF _send_with_retry, After
    <3> QED
      BY <1>6, <3>1, <3>2, <3>3, <3>4
  <2> QED
    BY <1>1, <2>1 DEF PageInv, Unmade, ShownIsOver, Unread
<1>7. ASSUME NEW e \in Events, NEW w \in Browsers, NEW ok \in BOOLEAN, send_text(e, w, ok) PROVE PageInv'
  <2>1. /\ emit[e].at = "browsers" /\ emit'[e].at = "browsers"
        /\ emit'[e].todo = emit[e].todo \ {w} /\ emit'[e].all = emit[e].all
        /\ \A d \in Events \ {e} : emit'[d] = emit[d]
        /\ UNCHANGED <<clients, online>> /\ w \in emit[e].todo
        /\ heard' = heard \/ heard' = [heard EXCEPT ![w] = Append(@, e)]
    BY <1>7 DEF send_text, Moves, EmitInv, EmitTypes, IsEmit
  <2>2. w \in emit[e].all /\ heard \in [Browsers -> Seq(Events)]
    BY <2>1 DEF EmitInv, EmitTypes, HearState
  <2>3. readyState[w] # "none" /\ \A v \in Browsers \ {w} : heard'[v] = heard[v]
    BY <2>1, <2>2 DEF PageInv, Unmade
  <2>4. Unmade'
    BY <2>1, <2>3 DEF PageInv, Unmade
  <2>5. ASSUME NEW d \in Events \ {e}, Unread(w, d)' PROVE Unread(w, d)
    <3>1. CASE heard' = heard
      BY <2>5, <3>1 DEF Unread
    <3>2. CASE heard' = [heard EXCEPT ![w] = Append(@, e)]
      <4>1. heard[w] \in Seq(Events) /\ heard'[w] = Append(heard[w], e)
        BY <2>2, <3>2
      <4> QED
        BY <2>5, <4>1 DEF Unread, PageInv, SocketTypes
    <3> QED
      BY <2>1, <3>1, <3>2
  <2>6. ASSUME ~twin PROVE ShownIsOver'
    <3>1. ASSUME NEW d \in Events, toasts[d] > 0, NEW v \in Browsers, Usable(v) PROVE v \notin emit'[d].todo /\ ~Unread(v, d)'
      <4>1. v \notin emit[d].todo /\ ~Unread(v, d)
        BY <2>6, <3>1 DEF PageInv, ShownIsOver
      <4>2. CASE v = w
        BY <2>1, <2>5, <4>1, <4>2
      <4>3. CASE v # w
        BY <2>1, <2>3, <4>1, <4>3 DEF Unread
      <4> QED
        BY <4>2, <4>3
    <3> QED
      BY <1>1, <2>1, <2>6, <3>1 DEF PageInv, ShownIsOver
  <2> QED
    BY <1>1, <2>4, <2>6 DEF PageInv
<1>8. ASSUME NEW r \in Changes, SettingsNext(r) PROVE UNCHANGED <<emit, clients, online, heard>>
  BY <1>8 DEF SettingsNext, set_untold, update_setting, reset, reset_all, _reconfigure_telegram, configured
<1> QED
  BY <1>2, <1>3, <1>4, <1>5, <1>6, <1>7, <1>8 DEF NotificationsNext, EmitNext

\* A change is made whose announcement is still to come.
LEMMA PageMeetsServer ==
  ASSUME PageInv, EmitInv, NEW e \in Events, server_change(e)
  PROVE  PageInv'
<1>1. /\ emit[e].at = "never" /\ emit'[e].all = {} /\ emit'[e].todo = {}
      /\ \A d \in Events \ {e} : emit'[d] = emit[d]
  BY DEF server_change, EmitInv, EmitTypes, NoEmit
<1>2. UNCHANGED <<clients, heard, online, socketVars>>
  BY DEF server_change, serverVars
<1> USE DEF socketVars
<1>3. SocketTypes' /\ (OneSocket => OneSocket') /\ \A w \in Browsers : Usable(w)' <=> Usable(w)
  BY <1>2 DEF PageInv, SocketTypes, OneSocket, Live, Usable
<1>4. Unmade'
  BY <1>1, <1>2 DEF PageInv, Unmade
<1>5. ~twin => toasts[e] = 0
  BY <1>1 DEF PageInv, ShownIsOver, SocketTypes
<1>6. ASSUME ~twin PROVE ShownIsOver'
  BY <1>1, <1>2, <1>3, <1>5, <1>6 DEF PageInv, ShownIsOver, Unread
<1> QED
  BY <1>2, <1>3, <1>4, <1>6 DEF PageInv

\* A new socket is made where there is none.
LEMMA Connects ==
  ASSUME PageInv, NEW w \in Browsers, connect(w), UNCHANGED <<clients, emit, heard, read, toasts>>,
         ~cleanedUp',
         ~twin' => ~twin /\ timers' = {} /\ \A v \in Browsers : ~Live(v)
  PROVE  PageInv'
<1>1. readyState[w] = "none" /\ readyState' = [readyState EXCEPT ![w] = "connecting"] /\ wsRef' = w /\ online' = online \cup {w}
  BY DEF connect
<1>2. SocketTypes' /\ readyState'[w] = "connecting" /\ \A v \in Browsers \ {w} : readyState'[v] = readyState[v]
  BY <1>1 DEF PageInv, SocketTypes
<1>3. Unmade'
  BY <1>1, <1>2 DEF PageInv, Unmade
<1>4. ASSUME ~twin' PROVE OneSocket'
  BY <1>1, <1>2, <1>4 DEF OneSocket, Live
<1>5. ASSUME ~twin' PROVE ShownIsOver'
  <2>1. \A v \in Browsers : Usable(v)' => Usable(v)
    BY <1>1, <1>2 DEF Usable, Live
  <2> QED
    BY <1>5, <2>1 DEF PageInv, ShownIsOver, Unread
<1> QED
  BY <1>2, <1>3, <1>4, <1>5 DEF PageInv

\* A socket changes its state, or the timeouts do; none comes into use.
LEMMA SocketSteps ==
  ASSUME PageInv, UNCHANGED <<clients, emit, heard, read, toasts, twin>>,
         online' \subseteq online,
         readyState' = [w \in Browsers |-> readyState'[w]],
         \A w \in Browsers : readyState'[w] = readyState[w]
                             \/ (Live(w) /\ readyState'[w] \in {"open", "closing", "closed"}),
         ~twin => OneSocket'
  PROVE  PageInv'
<1>1. SocketTypes' /\ \A w \in Browsers : Usable(w)' => Usable(w)
  BY DEF PageInv, SocketTypes, Usable, Live
<1>2. Unmade'
  BY DEF PageInv, Unmade
<1>3. ASSUME ~twin PROVE ShownIsOver'
  BY <1>1, <1>3 DEF PageInv, ShownIsOver, Unread
<1> QED
  BY <1>1, <1>2, <1>3 DEF PageInv

\* A message is shown once: it is in no other socket's hands, and never again in this one's.
LEMMA Messages ==
  ASSUME PageInv, EmitInv, NEW w \in Browsers, onmessage(w)
  PROVE  PageInv'
<1>0. heard[w] \in Seq(Events) /\ read[w] \in Nat /\ Len(heard[w]) \in Nat
  BY DEF EmitInv, EmitTypes, PageInv, SocketTypes
<1>7. PICK e \in Events : e = heard[w][read[w] + 1]
  BY <1>0 DEF onmessage
<1>1. /\ readyState[w] = "open" /\ read[w] < Len(heard[w]) /\ read' = [read EXCEPT ![w] = @ + 1]
      /\ toasts' = toasts \/ (~cleanedUp /\ toasts' = [toasts EXCEPT ![e] = @ + 1])
      /\ UNCHANGED <<clients, online, emit, heard, readyState, timers, timerRef, cleanedUp, wsRef, twin>>
  BY <1>7 DEF onmessage, showToast, serverVars
<1>2. e \in Events /\ read[w] + 1 \in 1..Len(heard[w]) /\ read[w] + 1 \in Nat
  BY <1>0, <1>1
<1>3. SocketTypes' /\ Unmade' /\ (OneSocket => OneSocket') /\ \A v \in Browsers : Usable(v)' <=> Usable(v)
  <2>1. SocketTypes'
    BY <1>1, <1>2 DEF PageInv, SocketTypes
  <2>2. Unmade'
    BY <1>1 DEF PageInv, Unmade
  <2>3. OneSocket => OneSocket'
    BY <1>1 DEF OneSocket, Live
  <2> QED
    BY <1>1, <2>1, <2>2, <2>3 DEF Live, Usable
<1>4. ASSUME NEW v \in Browsers, NEW d \in Events, Unread(v, d)' PROVE Unread(v, d)
  BY <1>0, <1>1, <1>4 DEF Unread, PageInv, SocketTypes
<1>5. Unread(w, e) /\ Usable(w)
  BY <1>1, <1>2, <1>7 DEF Unread, Usable, Live
<1>6. ASSUME ~twin PROVE ShownIsOver'
  <2>1. toasts[e] = 0
    BY <1>2, <1>5, <1>6 DEF PageInv, ShownIsOver, SocketTypes
  <2>2. Hears(w, e)
    BY <1>2, <1>7 DEF Hears
  <2>3. emit[e].at \notin {"idle", "never"} /\ w \notin emit[e].todo
    BY <1>2, <2>2 DEF EmitInv, HearState
  <2>4. ~Unread(w, e)'
    <3>1. read'[w] = read[w] + 1 /\ heard' = heard /\ heard[w][read[w] + 1] = e
      BY <1>1, <1>7 DEF PageInv, SocketTypes
    <3>2. \A n \in read[w] + 2..Len(heard[w]) : heard[w][n] # e
      BY <1>0, <1>2, <3>1 DEF EmitInv, HearState
    <3>3. \A n \in read'[w] + 1..Len(heard'[w]) : heard'[w][n] # e
      BY <1>0, <3>1, <3>2
    <3> QED
      BY <1>1, <3>3 DEF Unread
  <2>5. ASSUME NEW v \in Browsers, v # w, Usable(v) PROVE v \notin emit[e].todo /\ ~Unread(v, e)
    <3>1. readyState[v] = "none"
      BY <1>1, <1>6, <2>5 DEF PageInv, OneSocket, Usable, Live
    <3>2. heard[v] = <<>> /\ v \notin emit[e].all
      BY <1>2, <3>1 DEF PageInv, Unmade
    <3> QED
      BY <1>2, <3>2 DEF Unread, EmitInv, HearState, PageInv, SocketTypes
  <2>6. ASSUME NEW d \in Events, toasts'[d] > 0, d # e
        PROVE  /\ toasts'[d] = 1 /\ emit[d].at \notin {"idle", "never"}
               /\ \A v \in Browsers : Usable(v) => v \notin emit[d].todo /\ ~Unread(v, d)'
    BY <1>1, <1>4, <1>6, <2>6 DEF PageInv, ShownIsOver, SocketTypes
  <2>7. toasts'[e] <= 1
    BY <1>1, <1>2, <2>1 DEF PageInv, SocketTypes
  <2>8. ASSUME NEW v \in Browsers, Usable(v) PROVE v \notin emit[e].todo /\ ~Unread(v, e)'
    <3>1. CASE v = w
      BY <2>3, <2>4, <3>1
    <3>2. CASE v # w
      BY <1>2, <1>4, <2>5, <2>8, <3>2
    <3> QED
      BY <3>1, <3>2
  <2>9. toasts'[e] > 0 => toasts'[e] = 1
    BY <1>2, <1>3, <2>7 DEF SocketTypes
  <2>10. ASSUME NEW d \in Events, toasts'[d] > 0
         PROVE  /\ toasts'[d] = 1 /\ emit[d].at \notin {"idle", "never"}
                /\ \A v \in Browsers : Usable(v) => v \notin emit[d].todo /\ ~Unread(v, d)'
    <3>1. CASE d = e
      BY <2>3, <2>8, <2>9, <2>10, <3>1
    <3>2. CASE d # e
      BY <2>6, <2>10, <3>2
    <3> QED
      BY <3>1, <3>2
  <2> QED
    BY <1>1, <1>3, <2>10 DEF ShownIsOver
<1> QED
  BY <1>1, <1>3, <1>6 DEF PageInv

\* What a page does keeps PageInv.
LEMMA PagesStep == ASSUME PageInv, EmitInv, FeedNext PROVE PageInv'
<1> USE DEF serverVars
<1>1. CASE mount
  <2>1. /\ cleanedUp /\ ~cleanedUp' /\ UNCHANGED <<clients, emit, heard, read, toasts, timers, timerRef>>
        /\ twin' = (twin \/ \E w \in Browsers : readyState[w] \in {"connecting", "closing"})
    BY <1>1 DEF mount
  <2>2. PICK w \in Browsers : connect(w)
    BY <1>1 DEF mount
  <2>3. ~twin' => ~twin /\ timers' = {} /\ \A v \in Browsers : ~Live(v)
    BY <2>1 DEF PageInv, OneSocket, Live
  <2> QED
    BY <2>1, <2>2, <2>3, Connects
<1>2. CASE unmount
  <2>1. /\ ~cleanedUp /\ cleanedUp' /\ timers' = timers \ {timerRef}
        /\ readyState' = [w \in Browsers |-> IF w = wsRef /\ readyState[w] = "open" THEN "closing" ELSE readyState[w]]
        /\ UNCHANGED <<clients, emit, heard, read, toasts, twin, online, timerRef>>
    BY <1>2 DEF unmount, timers_cleared
  <2>2. ASSUME ~twin PROVE OneSocket'
    BY <2>1, <2>2 DEF PageInv, OneSocket, Live
  <2> QED
    BY <2>1, <2>2, SocketSteps DEF Live
<1>3. CASE CacheNext
  BY <1>3 DEF CacheNext, noteVars, socketVars, PageInv, SocketTypes, Unmade, OneSocket, ShownIsOver, Live, Usable,
     Unread
<1>4. ASSUME NEW w \in Browsers, onopen(w) PROVE PageInv'
  <2>1. /\ readyState[w] = "connecting"
        /\ readyState' = [readyState EXCEPT ![w] = IF cleanedUp THEN "closing" ELSE "open"]
        /\ UNCHANGED <<clients, emit, heard, read, toasts, twin, online, timers, timerRef, cleanedUp, wsRef>>
    BY <1>4 DEF onopen
  <2>2. ASSUME ~twin PROVE OneSocket'
    BY <2>1, <2>2 DEF PageInv, OneSocket, Live, SocketTypes
  <2> QED
    BY <2>1, <2>2, SocketSteps DEF Live, PageInv, SocketTypes
<1>5. ASSUME NEW w \in Browsers, onclose(w) PROVE PageInv'
  <2>1. /\ Live(w) /\ readyState' = [readyState EXCEPT ![w] = "closed"] /\ online' = online \ {w}
        /\ IF cleanedUp THEN UNCHANGED <<timers, timerRef>> ELSE timers' = timers \cup {w} /\ timerRef' = w
        /\ UNCHANGED <<clients, emit, heard, read, toasts, twin, cleanedUp, wsRef>>
    BY <1>5 DEF onclose, Live, Reconnects
  <2>2. ASSUME ~twin PROVE OneSocket'
    BY <2>1, <2>2 DEF PageInv, OneSocket, Live, SocketTypes
  <2> QED
    BY <2>1, <2>2, SocketSteps DEF Live, PageInv, SocketTypes
<1>6. ASSUME NEW t \in Browsers, reconnect(t) PROVE PageInv'
  <2>1. /\ t \in timers /\ timers' = timers \ {t}
        /\ UNCHANGED <<clients, emit, heard, read, toasts, twin, cleanedUp, timerRef>>
    BY <1>6 DEF reconnect
  <2>2. CASE cleanedUp
    <3>1. UNCHANGED <<readyState, wsRef, online>> /\ (~twin => FALSE)
      BY <1>6, <2>1, <2>2 DEF reconnect, PageInv, OneSocket
    <3> QED
      BY <2>1, <3>1, SocketSteps DEF PageInv, SocketTypes
  <2>3. CASE ~cleanedUp
    <3>1. PICK w \in Browsers : connect(w)
      BY <1>6, <2>3 DEF reconnect
    <3>2. ~twin => timers' = {} /\ \A v \in Browsers : ~Live(v)
      BY <2>1, <2>3 DEF PageInv, OneSocket
    <3> QED
      BY <2>1, <2>3, <3>1, <3>2, Connects
  <2> QED
    BY <2>2, <2>3
<1>7. ASSUME NEW e \in Events, mutate(e) \/ mutation_made(e) \/ onSuccess(e) \/ onError(e) PROVE PageInv'
  <2>1. UNCHANGED <<clients, online, emit, heard, socketVars>>
    BY <1>7 DEF mutate, mutation_made, onSuccess, onError
  <2> QED
    BY <2>1 DEF socketVars, PageInv, SocketTypes, Unmade, OneSocket, ShownIsOver, Live, Usable, Unread
<1> QED
  BY <1>1, <1>2, <1>3, <1>4, <1>5, <1>6, <1>7, Messages, PageMeetsServer DEF FeedNext

\* PageInv is an invariant.
LEMMA PagesHold == Spec => []PageInv
<1>1. Init => PageInv
  BY PageInit
<1>2. PageInv /\ EmitInv /\ [Next]_vars => PageInv'
  <2> SUFFICES ASSUME PageInv, EmitInv, [Next]_vars PROVE PageInv'
    OBVIOUS
  <2>1. CASE UNCHANGED <<noteVars, feedVars>>
    BY <2>1 DEF noteVars, feedVars, PageInv, SocketTypes, Unmade, OneSocket, ShownIsOver, Live, Usable, Unread
  <2> QED
    BY <2>1, ServerMeetsPages, PagesStep DEF Next, vars
<1> QED
  BY <1>1, <1>2, NewsHold, PTL DEF Spec

\* An event is shown once over reconnects, unmounts and mounts of the provider, unless it was mounted
\* while an older socket was connecting or closing (event-context.tsx).
THEOREM EventsAreShownOnce == Spec => []ShownOnce
<1>1. PageInv => ShownOnce
  <2> SUFFICES ASSUME PageInv, ~twin, NEW e \in Events PROVE toasts[e] <= 1
    BY DEF ShownOnce
  <2>1. toasts[e] \in Nat /\ (toasts[e] > 0 => toasts[e] = 1)
    BY DEF PageInv, SocketTypes, ShownIsOver
  <2> QED
    BY <2>1
<1> QED
  BY <1>1, PagesHold, PTL

(***************************************************************************)
(* What a notice concerns and what it invalidates                          *)
(***************************************************************************)

\* The keys of notice n reach each query that shows its change, but those known not to be, and
\* never the absence of a query.
Reached(n) == /\ \A q \in n.shows : Covers(n.keys, q) \/ [name |-> n.name, q |-> q] \in Unheeded
              /\ ~Covers(n.keys, NoQuery)

\* The keys that are the beginnings of others.
LEMMA KeysCover ==
  /\ \A k \in {projectKeys.list, projectKeys.detail, projectKeys.links} : IsPrefix(projectKeys.all, k)
  /\ \A k \in {issueKeys.list, issueKeys.tags, issueKeys.detail, issueKeys.feedback} : IsPrefix(issueKeys.all, k)
  /\ IsPrefix(<<"queue", "position">>, queueKeys.position)
  /\ \A k \in {questionKeys.issue, questionKeys.pending, questionKeys.count} : IsPrefix(questionKeys.all, k)
  /\ \A k \in {memoryKeys.list, memoryKeys.search} : IsPrefix(memoryKeys.all, k)
  /\ \A k \in {pipelineRunKeys.byIssue, pipelineRunKeys.detail, pipelineRunKeys.active} : IsPrefix(pipelineRunKeys.all, k)
  /\ \A k \in {terminalKeys.issue, terminalKeys.count, terminalKeys.ask, terminalKeys.manageAgent} :
       IsPrefix(terminalKeys.all, k)
  /\ \A k \in {pipelineKeys.detail, pipelineKeys.rules} : IsPrefix(pipelineKeys.all, k)
BY DEF IsPrefix, projectKeys, issueKeys, queueKeys, questionKeys, memoryKeys, pipelineRunKeys, terminalKeys,
   pipelineKeys

\* To invalidate a key is to invalidate its query.
LEMMA KeyCoversItself == ASSUME NEW K, NEW q \in K PROVE Covers(K, q)
BY DEF IsPrefix, Covers

\* No key is the beginning of the empty one.
LEMMA NoKeyIsEmpty ==
  /\ \A k \in {projectKeys.all, projectKeys.detail, projectKeys.dashboard, projectKeys.links} : ~IsPrefix(k, NoQuery)
  /\ \A k \in {issueKeys.all, issueKeys.detail, issueKeys.feedback, relationKeys.issue, fileKeys.all} : ~IsPrefix(k, NoQuery)
  /\ \A k \in {queueKeys.queued, queueKeys.running, queueKeys.status, queueKeys.position, <<"queue", "position">>} :
       ~IsPrefix(k, NoQuery)
  /\ \A k \in {questionKeys.all, questionKeys.pending, questionKeys.count, memoryKeys.all, memoryKeys.detail} :
       ~IsPrefix(k, NoQuery)
  /\ \A k \in {pipelineRunKeys.all, pipelineRunKeys.messages, pipelineKeys.all} : ~IsPrefix(k, NoQuery)
  /\ \A k \in {terminalKeys.all, terminalKeys.count, terminalKeys.manageAgent} : ~IsPrefix(k, NoQuery)
BY DEF IsPrefix, NoQuery, projectKeys, issueKeys, relationKeys, fileKeys, queueKeys, questionKeys, memoryKeys,
   pipelineRunKeys, terminalKeys, pipelineKeys

\* The notices, one group after the other.
LEMMA RStepEvents == ASSUME NEW n \in StepEvents PROVE Reached(n)
<1>1. ~Covers(n.keys, NoQuery)
  BY NoKeyIsEmpty DEF StepEvents, Notice, Covers, ForIssue, Named
<1>2. \A q \in n.shows : Covers(n.keys, q) \/ [name |-> n.name, q |-> q] \in Unheeded
  BY KeysCover, KeyCoversItself DEF StepEvents, Notice, Covers, ForIssue, Named, ShownByRun
<1> QED
  BY <1>1, <1>2 DEF Reached

LEMMA RRunEvents == ASSUME NEW n \in RunEvents PROVE Reached(n)
<1>1. ~Covers(n.keys, NoQuery)
  BY NoKeyIsEmpty DEF RunEvents, Notice, Covers, ForIssue, Named
<1>2. \A q \in n.shows : Covers(n.keys, q) \/ [name |-> n.name, q |-> q] \in Unheeded
  BY KeysCover, KeyCoversItself DEF RunEvents, Notice, Covers, ForIssue, Named, ShownByRun, Unheeded
<1> QED
  BY <1>1, <1>2 DEF Reached

LEMMA RQueueEvents == ASSUME NEW n \in QueueEvents PROVE Reached(n)
<1>1. ~Covers(n.keys, NoQuery)
  BY NoKeyIsEmpty DEF QueueEvents, Notice, Covers, ForIssue, QueueNews, Named, queueKeys
<1>2. \A q \in n.shows : Covers(n.keys, q) \/ [name |-> n.name, q |-> q] \in Unheeded
  BY KeysCover, KeyCoversItself DEF QueueEvents, Notice, Covers, ForIssue, QueueNews, Named, ShownByQueue, queueKeys
<1> QED
  BY <1>1, <1>2 DEF Reached

LEMMA RTerminalEvents == ASSUME NEW n \in TerminalEvents PROVE Reached(n)
<1>1. ~Covers(n.keys, NoQuery)
  BY NoKeyIsEmpty DEF TerminalEvents, Notice, Covers, ForIssue, TerminalNews
<1>2. \A q \in n.shows : Covers(n.keys, q) \/ [name |-> n.name, q |-> q] \in Unheeded
  BY KeysCover, KeyCoversItself DEF TerminalEvents, Notice, Covers, ForIssue, TerminalNews
<1> QED
  BY <1>1, <1>2 DEF Reached

LEMMA RIssueEvents == ASSUME NEW n \in IssueEvents PROVE Reached(n)
<1>1. ~Covers(n.keys, NoQuery)
  BY NoKeyIsEmpty DEF IssueEvents, Notice, Covers, ForIssue
<1>2. \A q \in n.shows : Covers(n.keys, q) \/ [name |-> n.name, q |-> q] \in Unheeded
  BY KeysCover, KeyCoversItself DEF IssueEvents, Notice, Covers, ForIssue
<1> QED
  BY <1>1, <1>2 DEF Reached

LEMMA RMemoryEvents == ASSUME NEW n \in MemoryEvents PROVE Reached(n)
<1>1. ~Covers(n.keys, NoQuery)
  BY NoKeyIsEmpty DEF MemoryEvents, Notice, Covers, ForProject, MemoryNews, Named
<1>2. \A q \in n.shows : Covers(n.keys, q) \/ [name |-> n.name, q |-> q] \in Unheeded
  <2>1. CASE n.shows = ShownByMemory /\ n.keys = MemoryNews
    <3>1. /\ n.shows = {memoryKeys.list, memoryKeys.search, memoryKeys.detail}
          /\ memoryKeys.all \in n.keys /\ memoryKeys.detail \in n.keys
      BY <2>1 DEF ShownByMemory, MemoryNews, Named
    <3> QED
      BY <3>1, KeysCover, KeyCoversItself DEF Covers
  <2>2. CASE n.shows = {memoryKeys.detail} /\ n.name \in {"memory_linked", "memory_unlinked"}
    BY <2>2 DEF Unheeded
  <2> QED
    BY <2>1, <2>2 DEF MemoryEvents, Notice
<1> QED
  BY <1>1, <1>2 DEF Reached

LEMMA RQuestionEvents == ASSUME NEW n \in QuestionEvents PROVE Reached(n)
<1>1. ~Covers(n.keys, NoQuery)
  BY NoKeyIsEmpty DEF QuestionEvents, Notice, Covers, ForIssue, Named
<1>2. \A q \in n.shows : Covers(n.keys, q) \/ [name |-> n.name, q |-> q] \in Unheeded
  BY KeysCover, KeyCoversItself DEF QuestionEvents, Notice, Covers, ForIssue, Named
<1> QED
  BY <1>1, <1>2 DEF Reached

LEMMA RProjectEvents == ASSUME NEW n \in ProjectEvents PROVE Reached(n)
<1>1. ~Covers(n.keys, NoQuery)
  BY NoKeyIsEmpty DEF ProjectEvents, Notice, Covers, ForProject
<1>2. \A q \in n.shows : Covers(n.keys, q) \/ [name |-> n.name, q |-> q] \in Unheeded
  <2>1. n.name = "project_updated" /\ n.shows = {projectKeys.list, projectKeys.detail} /\ n.keys = {projectKeys.detail}
    BY DEF ProjectEvents, Notice, ForProject
  <2>2. [name |-> "project_updated", q |-> projectKeys.list] \in Unheeded
    BY DEF Unheeded
  <2> QED
    BY <2>1, <2>2, KeyCoversItself
<1> QED
  BY <1>1, <1>2 DEF Reached

LEMMA RQueueMutations == ASSUME NEW n \in QueueMutations PROVE Reached(n)
<1>1. ~Covers(n.keys, NoQuery)
  BY NoKeyIsEmpty DEF QueueMutations, Notice, Covers, Named, queueKeys
<1>2. \A q \in n.shows : Covers(n.keys, q) \/ [name |-> n.name, q |-> q] \in Unheeded
  BY KeysCover, KeyCoversItself DEF QueueMutations, Notice, Covers, Named, queueKeys
<1> QED
  BY <1>1, <1>2 DEF Reached

LEMMA RIssueMutations == ASSUME NEW n \in IssueMutations PROVE Reached(n)
<1>1. ~Covers(n.keys, NoQuery)
  BY NoKeyIsEmpty DEF IssueMutations, Notice, Covers
<1>2. \A q \in n.shows : Covers(n.keys, q) \/ [name |-> n.name, q |-> q] \in Unheeded
  BY KeysCover, KeyCoversItself DEF IssueMutations, Notice, Covers
<1> QED
  BY <1>1, <1>2 DEF Reached

LEMMA RIssuePartMutations == ASSUME NEW n \in IssuePartMutations PROVE Reached(n)
<1>1. ~Covers(n.keys, NoQuery)
  BY NoKeyIsEmpty DEF IssuePartMutations, Notice, Covers
<1>2. \A q \in n.shows : Covers(n.keys, q) \/ [name |-> n.name, q |-> q] \in Unheeded
  BY KeysCover, KeyCoversItself DEF IssuePartMutations, Notice, Covers
<1> QED
  BY <1>1, <1>2 DEF Reached

LEMMA RBulkMutations == ASSUME NEW n \in BulkMutations PROVE Reached(n)
<1>1. ~Covers(n.keys, NoQuery)
  BY NoKeyIsEmpty DEF BulkMutations, Notice, Covers
<1>2. \A q \in n.shows : Covers(n.keys, q) \/ [name |-> n.name, q |-> q] \in Unheeded
  BY KeysCover, KeyCoversItself DEF BulkMutations, Notice, Covers
<1> QED
  BY <1>1, <1>2 DEF Reached

LEMMA RRelationMutations == ASSUME NEW n \in RelationMutations PROVE Reached(n)
<1>1. ~Covers(n.keys, NoQuery)
  BY NoKeyIsEmpty DEF RelationMutations, Notice, Covers, Named
<1>2. \A q \in n.shows : Covers(n.keys, q) \/ [name |-> n.name, q |-> q] \in Unheeded
  <2>1. n.shows = {relationKeys.issue, relationKeys.other, relationKeys.blocked} /\ n.keys = {relationKeys.issue}
    BY DEF RelationMutations, Notice, Named, relationKeys
  <2>2. \A q \in {relationKeys.other, relationKeys.blocked} : [name |-> n.name, q |-> q] \in Unheeded
    BY DEF Unheeded
  <2> QED
    BY <2>1, <2>2, KeyCoversItself
<1> QED
  BY <1>1, <1>2 DEF Reached

LEMMA RQuestionMutations == ASSUME NEW n \in QuestionMutations PROVE Reached(n)
<1>1. ~Covers(n.keys, NoQuery)
  BY NoKeyIsEmpty DEF QuestionMutations, Notice, Covers, Named
<1>2. \A q \in n.shows : Covers(n.keys, q) \/ [name |-> n.name, q |-> q] \in Unheeded
  BY KeysCover, KeyCoversItself DEF QuestionMutations, Notice, Covers, Named
<1> QED
  BY <1>1, <1>2 DEF Reached

LEMMA RRunMutations == ASSUME NEW n \in RunMutations PROVE Reached(n)
<1>1. ~Covers(n.keys, NoQuery)
  BY NoKeyIsEmpty DEF RunMutations, Notice, Covers, Named
<1>2. \A q \in n.shows : Covers(n.keys, q) \/ [name |-> n.name, q |-> q] \in Unheeded
  BY KeysCover, KeyCoversItself DEF RunMutations, Notice, Covers, Named
<1> QED
  BY <1>1, <1>2 DEF Reached

LEMMA RTerminalMutations == ASSUME NEW n \in TerminalMutations PROVE Reached(n)
<1>1. ~Covers(n.keys, NoQuery)
  BY NoKeyIsEmpty DEF TerminalMutations, Notice, Covers, Named
<1>2. \A q \in n.shows : Covers(n.keys, q) \/ [name |-> n.name, q |-> q] \in Unheeded
  BY KeysCover, KeyCoversItself DEF TerminalMutations, Notice, Covers, Named
<1> QED
  BY <1>1, <1>2 DEF Reached

LEMMA RProjectMutations == ASSUME NEW n \in ProjectMutations PROVE Reached(n)
<1>1. ~Covers(n.keys, NoQuery)
  BY NoKeyIsEmpty DEF ProjectMutations, Notice, Covers
<1>2. \A q \in n.shows : Covers(n.keys, q) \/ [name |-> n.name, q |-> q] \in Unheeded
  BY KeysCover, KeyCoversItself DEF ProjectMutations, Notice, Covers, Unheeded
<1> QED
  BY <1>1, <1>2 DEF Reached

LEMMA RArchiveMutations == ASSUME NEW n \in ArchiveMutations PROVE Reached(n)
<1>1. ~Covers(n.keys, NoQuery)
  BY NoKeyIsEmpty DEF ArchiveMutations, Notice, Covers, Named
<1>2. \A q \in n.shows : Covers(n.keys, q) \/ [name |-> n.name, q |-> q] \in Unheeded
  <2>1. /\ n.shows = {projectKeys.list, projectKeys.detail, projectKeys.dashboard}
        /\ n.keys = {projectKeys.all, projectKeys.detail, projectKeys.dashboard}
    BY DEF ArchiveMutations, Notice, Named
  <2> QED
    BY <2>1, KeysCover, KeyCoversItself DEF Covers
<1> QED
  BY <1>1, <1>2 DEF Reached

LEMMA RLinkMutations == ASSUME NEW n \in LinkMutations PROVE Reached(n)
<1>1. ~Covers(n.keys, NoQuery)
  BY NoKeyIsEmpty DEF LinkMutations, Notice, Covers
<1>2. \A q \in n.shows : Covers(n.keys, q) \/ [name |-> n.name, q |-> q] \in Unheeded
  BY KeysCover, KeyCoversItself DEF LinkMutations, Notice, Covers
<1> QED
  BY <1>1, <1>2 DEF Reached

LEMMA RFileMutations == ASSUME NEW n \in FileMutations PROVE Reached(n)
<1>1. ~Covers(n.keys, NoQuery)
  BY NoKeyIsEmpty DEF FileMutations, Notice, Covers
<1>2. \A q \in n.shows : Covers(n.keys, q) \/ [name |-> n.name, q |-> q] \in Unheeded
  BY KeysCover, KeyCoversItself DEF FileMutations, Notice, Covers
<1> QED
  BY <1>1, <1>2 DEF Reached

LEMMA RPipelineMutations == ASSUME NEW n \in PipelineMutations PROVE Reached(n)
<1>1. ~Covers(n.keys, NoQuery)
  BY NoKeyIsEmpty DEF PipelineMutations, Notice, Covers, Named
<1>2. \A q \in n.shows : Covers(n.keys, q) \/ [name |-> n.name, q |-> q] \in Unheeded
  <2>1. n.shows = {pipelineKeys.all, pipelineKeys.detail} /\ n.keys = {pipelineKeys.all}
    BY DEF PipelineMutations, Notice, Named
  <2>2. Covers(n.keys, pipelineKeys.all) /\ Covers(n.keys, pipelineKeys.detail)
    BY <2>1, KeysCover, KeyCoversItself DEF Covers
  <2> QED
    BY <2>1, <2>2
<1> QED
  BY <1>1, <1>2 DEF Reached

LEMMA RRuleMutations == ASSUME NEW n \in RuleMutations PROVE Reached(n)
<1>1. ~Covers(n.keys, NoQuery)
  BY NoKeyIsEmpty DEF RuleMutations, Notice, Covers, Named
<1>2. \A q \in n.shows : Covers(n.keys, q) \/ [name |-> n.name, q |-> q] \in Unheeded
  <2>1. n.shows \subseteq {pipelineKeys.all, pipelineKeys.detail, pipelineKeys.rules} /\ n.keys = {pipelineKeys.all}
    BY DEF RuleMutations, Notice, Named
  <2>2. Covers(n.keys, pipelineKeys.all)
    BY <2>1, KeyCoversItself
  <2>3. Covers(n.keys, pipelineKeys.detail) /\ Covers(n.keys, pipelineKeys.rules)
    BY <2>1, KeysCover DEF Covers
  <2> QED
    BY <2>1, <2>2, <2>3
<1> QED
  BY <1>1, <1>2 DEF Reached

(***************************************************************************)
(* What a page keeps of the data                                           *)
(***************************************************************************)

\* The changes the page was told of after its first answer, or before it asked.
Told == noticed \ early

\* The cache, the notice and the query.
CacheTypes ==
  /\ data = [has |-> data.has, stale |-> data.stale, loaded |-> data.loaded]
  /\ data.stale \in BOOLEAN /\ data.loaded \in BOOLEAN
  /\ notice \in Announcements \cup Mutations \cup {Notice("none", {}, {})} /\ query \in notice.shows \cup {NoQuery}

\* Where a query is shown, what the page is told of has been done.
ToldIsMade == query # NoQuery => noticed \subseteq made /\ \A e \in Events : emit[e].at # "never" => e \in made

\* What the page was told of before the server answered is in the answer.
Answered ==
  /\ query = NoQuery => data.stale /\ fetch = Idle
  /\ ~data.loaded => data.stale
  /\ Covers(notice.keys, query) =>
       \A e \in Told : (e \in data.has \/ data.stale) /\ (fetch.at = "served" => e \in fetch.has)

\* What ShownIsCurrent needs to be preserved.
CacheInv == CacheTypes /\ ToldIsMade /\ Answered

\* Every notice of the frontend reaches what it concerns.
LEMMA Reach == \A n \in Announcements \cup Mutations \cup {Notice("none", {}, {})} : Reached(n)
<1>1. Reached(Notice("none", {}, {}))
  BY DEF Reached, Notice, Covers
<1>2. \A n \in Announcements : Reached(n)
  BY RStepEvents, RRunEvents, RQueueEvents, RTerminalEvents, RIssueEvents, RMemoryEvents, RQuestionEvents,
     RProjectEvents
  DEF Announcements
<1>3. \A n \in Mutations : Reached(n)
  BY RQueueMutations, RIssueMutations, RIssuePartMutations, RBulkMutations, RRelationMutations, RQuestionMutations,
     RRunMutations, RTerminalMutations, RProjectMutations, RArchiveMutations, RLinkMutations, RFileMutations,
     RPipelineMutations, RRuleMutations
  DEF Mutations
<1> QED
  BY <1>1, <1>2, <1>3

\* At first nothing is cached.
LEMMA CacheInit == ASSUME Init PROVE CacheInv
<1>1. PICK s \in Scenarios : NotificationsInit(s.news, s.browsers, s.token) /\ FeedInit(s.notices, s.changes, s.page)
  BY DEF Init
<1>2. /\ data = [has |-> {}, stale |-> TRUE, loaded |-> FALSE] /\ fetch = Idle /\ noticed = {} /\ made = {}
      /\ notice \in s.notices /\ query \in IF s.page.shown THEN notice.shows ELSE {NoQuery}
  BY <1>1 DEF FeedInit, NoData
<1>3. s.notices \subseteq Announcements \cup Mutations \cup {Notice("none", {}, {})}
      /\ (s.page.shown => s.news \cap Events = {})
  BY ScenariosAssumption
<1>4. CacheTypes
  BY <1>2, <1>3 DEF CacheTypes
<1>5. ToldIsMade
  <2>1. \A e \in Events : e \notin s.news => emit[e].at = "never"
    BY <1>1 DEF NotificationsInit, NoEmit
  <2> QED
    BY <1>2, <1>3, <2>1 DEF ToldIsMade
<1>6. Answered
  BY <1>2 DEF Answered, Told, Idle
<1> QED
  BY <1>4, <1>5, <1>6 DEF CacheInv

\* An invalidation: what the answer under way lacks is read again, unless it is the first one.
LEMMA Invalidates ==
  ASSUME CacheInv, NEW e, invalidateQueries(e), UNCHANGED <<made, emit>>, query # NoQuery => e \in made
  PROVE  CacheInv'
<1>1. ~Covers(notice.keys, NoQuery) /\ UNCHANGED <<query, notice>> /\ noticed' = noticed \cup {e}
  BY Reach DEF CacheInv, CacheTypes, Reached, invalidateQueries
<1>2. ToldIsMade'
  BY <1>1 DEF CacheInv, ToldIsMade
<1>3. CASE Covers(notice.keys, query)
  <2>1. /\ data' = [data EXCEPT !.stale = TRUE] /\ fetch' = (IF fetch = Idle \/ data.loaded THEN Sent ELSE fetch)
        /\ early' = IF ~data.loaded /\ fetch # Idle THEN early \cup {e} ELSE early
    BY <1>3 DEF invalidateQueries, restarted
  <2>2. /\ data' = [has |-> data'.has, stale |-> data'.stale, loaded |-> data'.loaded]
        /\ data'.stale = TRUE /\ data'.loaded = data.loaded /\ data'.has = data.has
    BY <2>1 DEF CacheInv, CacheTypes
  <2>3. CacheTypes'
    BY <1>1, <2>2 DEF CacheInv, CacheTypes
  <2>4. query # NoQuery
    BY <1>1, <1>3
  <2>5. \A d \in Told' : fetch'.at = "served" => d \in fetch'.has
    BY <1>1, <1>3, <2>1 DEF CacheInv, Answered, Told, Sent
  <2> QED
    BY <1>1, <1>2, <2>2, <2>3, <2>4, <2>5 DEF CacheInv, Answered
<1>4. CASE ~Covers(notice.keys, query)
  <2>1. UNCHANGED <<data, fetch, early>>
    BY <1>4 DEF invalidateQueries
  <2>2. CacheTypes' /\ Answered'
    BY <1>1, <1>4, <2>1 DEF CacheInv, CacheTypes, Answered
  <2> QED
    BY <1>2, <2>2 DEF CacheInv
<1> QED
  BY <1>3, <1>4

\* The cache is left alone; no announcement runs ahead of its change.
LEMMA CacheStays ==
  ASSUME CacheInv, UNCHANGED cacheVars, made \subseteq made',
         \A e \in Events : emit'[e].at # "never" => emit[e].at # "never" \/ e \in made'
  PROVE  CacheInv'
<1>1. CacheTypes' /\ Answered'
  BY DEF CacheInv, CacheTypes, Answered, Told, cacheVars
<1>2. ToldIsMade'
  BY DEF CacheInv, ToldIsMade, cacheVars
<1> QED
  BY <1>1, <1>2 DEF CacheInv

\* A request for the data is sent, served, answered or fails.
LEMMA CacheSteps == ASSUME CacheInv, CacheNext PROVE CacheInv'
<1>0. UNCHANGED <<emit, made, query, notice, noticed, early>>
  BY DEF CacheNext, noteVars, changeVars, refetch, served, answered_fetch, failed_fetch
<1>1. ToldIsMade'
  BY <1>0 DEF CacheInv, ToldIsMade
<1>2. CASE refetch \/ failed_fetch
  <2>1. data' = data /\ (fetch' = Idle \/ (query # NoQuery /\ fetch' = Sent))
    BY <1>2 DEF refetch, failed_fetch
  <2>2. CacheTypes'
    BY <1>0, <2>1 DEF CacheInv, CacheTypes
  <2>3. Answered'
    BY <1>0, <2>1 DEF CacheInv, Answered, Told, Sent, Idle
  <2> QED
    BY <1>1, <2>2, <2>3 DEF CacheInv
<1>3. CASE served
  <2>1. data' = data /\ fetch' = [at |-> "served", has |-> made] /\ query # NoQuery
    BY <1>3 DEF served, CacheInv, Answered, Idle
  <2>2. CacheTypes'
    BY <1>0, <2>1 DEF CacheInv, CacheTypes
  <2>3. Answered'
    BY <1>0, <2>1 DEF CacheInv, Answered, ToldIsMade, Told
  <2> QED
    BY <1>1, <2>2, <2>3 DEF CacheInv
<1>4. CASE answered_fetch
  <2>1. /\ fetch.at = "served" /\ fetch' = Idle /\ query # NoQuery
        /\ data' = [has |-> fetch.has, stale |-> FALSE, loaded |-> TRUE]
    BY <1>4 DEF answered_fetch, CacheInv, Answered, Idle
  <2>2. CacheTypes'
    BY <1>0, <2>1 DEF CacheInv, CacheTypes
  <2>3. Answered'
    BY <1>0, <2>1 DEF CacheInv, Answered, Told, Idle
  <2> QED
    BY <1>1, <2>2, <2>3 DEF CacheInv
<1> QED
  BY <1>2, <1>3, <1>4 DEF CacheNext

\* No announcement moves before its change.
LEMMA NewsWaits == ASSUME EmitInv, NotificationsNext PROVE \A e \in Events : emit'[e].at # "never" => emit[e].at # "never"
<1>1. ASSUME NEW e \in Events, EmitNext(e) PROVE /\ emit[e].at # "never" /\ \A d \in Events \ {e} : emit'[d] = emit[d]
  BY <1>1 DEF EmitNext, emits, sent_and_logged, telegram_notify, _do_send, send_text, _send_with_retry, Moves,
     EmitInv, EmitTypes
<1>2. ASSUME NEW w \in Browsers, events_ws_ends(w), NEW d \in Events PROVE emit'[d].at = emit[d].at
  <2>1. emit'[d] = [emit[d] EXCEPT !.lost = @ \cup ({w} \cap emit[d].all)]
    BY <1>2 DEF events_ws_ends, Leaves
  <2> QED
    BY <2>1 DEF EmitInv, EmitTypes, IsEmit
<1>3. ASSUME NEW w \in Browsers, events_ws(w) PROVE emit' = emit
  BY <1>3 DEF events_ws
<1>4. ASSUME NEW r \in Changes, SettingsNext(r) PROVE emit' = emit
  BY <1>4 DEF SettingsNext, set_untold, update_setting, reset, reset_all, _reconfigure_telegram, configured
<1> QED
  BY <1>1, <1>2, <1>3, <1>4 DEF NotificationsNext

\* Events and answers to mutations invalidate; the rest leaves the cache alone.
LEMMA PageReads == ASSUME CacheInv, EmitInv, PageInv, FeedNext PROVE CacheInv'
<1>1. CASE mount \/ unmount
  BY <1>1, CacheStays DEF mount, unmount, changeVars
<1>2. ASSUME NEW w \in Browsers, onopen(w) \/ onclose(w) \/ reconnect(w) PROVE CacheInv'
  BY <1>2, CacheStays DEF onopen, onclose, reconnect, changeVars
<1>3. ASSUME NEW e \in Events, mutate(e) \/ mutation_made(e) \/ onError(e) PROVE CacheInv'
  BY <1>3, CacheStays DEF mutate, mutation_made, onError
<1>4. ASSUME NEW e \in Events, server_change(e) PROVE CacheInv'
  <2>1. \A d \in Events : d # e => emit'[d] = emit[d]
    BY <1>4 DEF server_change, EmitInv, EmitTypes
  <2> QED
    BY <1>4, <2>1, CacheStays DEF server_change
<1>5. ASSUME NEW e \in Events, onSuccess(e) PROVE CacheInv'
  BY <1>5, Invalidates DEF onSuccess
<1>6. ASSUME NEW w \in Browsers, onmessage(w) PROVE CacheInv'
  <2>1. heard[w] \in Seq(Events) /\ read[w] < Len(heard[w]) /\ UNCHANGED <<emit, made>>
    BY <1>6 DEF onmessage, EmitInv, EmitTypes, changeVars
  <2>2. CASE cleanedUp
    BY <1>6, <2>1, <2>2, CacheStays DEF onmessage
  <2>3. CASE ~cleanedUp
    <3>1. PICK e : e = heard[w][read[w] + 1] /\ invalidateQueries(e)
      BY <1>6, <2>3 DEF onmessage
    <3>2. e \in Events /\ Hears(w, e)
      BY <2>1, <3>1 DEF PageInv, SocketTypes, Hears
    <3>3. emit[e].at # "never"
      BY <3>2 DEF EmitInv, HearState
    <3> QED
      BY <2>1, <3>1, <3>2, <3>3, Invalidates DEF CacheInv, ToldIsMade
  <2> QED
    BY <2>2, <2>3
<1> QED
  BY <1>1, <1>2, <1>3, <1>4, <1>5, <1>6, CacheSteps DEF FeedNext

\* What a page shows includes every change it was told of or will be read again, over requests under
\* way and cancelled ones, but for the queries no key of the notice reaches (use-event-invalidation, the hooks).
THEOREM CacheCurrent == Spec => []ShownIsCurrent
<1>1. Init => CacheInv
  BY CacheInit
<1>2. CacheInv /\ EmitInv /\ PageInv /\ [Next]_vars => CacheInv'
  <2> SUFFICES ASSUME CacheInv, EmitInv, PageInv, [Next]_vars PROVE CacheInv'
    OBVIOUS
  <2>1. CASE UNCHANGED <<noteVars, feedVars>>
    BY <2>1, CacheStays DEF noteVars, feedVars, cacheVars
  <2>2. CASE NotificationsNext /\ UNCHANGED feedVars
    BY <2>2, NewsWaits, CacheStays DEF feedVars, cacheVars
  <2> QED
    BY <2>1, <2>2, PageReads DEF Next, vars
<1>3. CacheInv => ShownIsCurrent
  <2> SUFFICES ASSUME CacheInv, [name |-> notice.name, q |-> query] \notin Unheeded, NEW e \in noticed \ early
               PROVE  e \in data.has \/ data.stale
    BY DEF ShownIsCurrent
  <2> QED
    BY Reach DEF CacheInv, CacheTypes, Answered, Reached, Told
<1> QED
  BY <1>1, <1>2, <1>3, NewsHold, PagesHold, PTL DEF Spec
================================================================================
