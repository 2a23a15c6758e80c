------------------------------ MODULE PluginProofs ------------------------------
(***************************************************************************)
(* Proofs about ProjectLifecycle, for any projects, clients, calls and     *)
(* requests.  That the connects of a client exclude each other takes the   *)
(* order in which a call gets to connect: after the background task has    *)
(* ended, and with the lock.  That a process has an owner takes what a     *)
(* handler knows of the client whose place it is about to give up.         *)
(***************************************************************************)
EXTENDS ProjectLifecycle, TLAPS, FiniteSetTheorems

(***************************************************************************)
(* The inductive invariant                                                 *)
(***************************************************************************)
Phases == {"new", "begin", "spawn", "init", "ok", "failed"}
Ongoing == {"begin", "spawn", "init"}
Stages == {"idle", "waiting", "locking", "connecting", "calling", "ended"}

CallStates == [st : Stages, on : Clients \cup {None}, conn : Phases \cup {"no"}]

Departures == {Remains} \cup [c : Clients, at : {"session", "transport"}]

ClientTypes ==
  /\ connected \in [Clients -> BOOLEAN] /\ transport \in [Clients -> BOOLEAN]
  /\ connect_lock \in [Clients -> Calls \cup {None}]
  /\ running \in [Clients -> Nat]
  /\ pre_connect \in [Clients -> Phases]
  /\ gateway \in Clients \cup {None}
  /\ calls \in [Calls -> CallStates]
  /\ leaving \in [Requests -> Departures]

\* A call connects when the background task of its client has ended, and holds the lock.
InTurn ==
  /\ gateway # None => pre_connect[gateway] # "new"
  /\ \A k \in Calls :
       LET c == calls[k].on
       IN /\ calls[k].conn # "no" <=> calls[k].st = "connecting"
          /\ calls[k].st \notin {"idle", "ended"} => c \in Clients /\ pre_connect[c] # "new"
          /\ calls[k].st \in {"locking", "connecting"} => pre_connect[c] \notin Ongoing
          /\ calls[k].st = "connecting" => connect_lock[c] = k /\ c \in revived

\* Some connect of the client is in one of the phases.
Has(c, phases) == pre_connect[c] \in phases \/ \E k \in Calls : calls[k].on = c /\ calls[k].conn \in phases

\* A handler is about to end what runs on the client.
Ending(c) == \E r \in Requests : leaving[r].c = c /\ leaving[r].at = "session"

\* The process of a client that was left alone is the one its transport and its flag are about.
Held ==
  \A c \in Clients \ torn :
    /\ running[c] <= 1
    /\ running[c] > 0 \/ Has(c, {"spawn", "init"}) => transport[c]
    /\ Has(c, {"spawn"}) => running[c] = 0
    /\ running[c] > 0 /\ ~connected[c] => Has(c, {"init"}) \/ Ending(c)
    /\ Leaves(c) # {} => ~connected[c] /\ ~Has(c, {"spawn", "init"})
    /\ \A r \in Leaves(c) : leaving[r].at = "transport" => running[c] = 0

CInv == ClientTypes /\ InTurn /\ Held

\* The exceptions of NoOrphans, and what a client may yet do.
Excepted == torn \cup revived \cup replaced
Alive(c) == running[c] > 0 \/ Has(c, Ongoing)

Entries == [plugin : {"none", "enabled", "disabled"}, other : {"none", "enabled", "disabled"}]
Handlers == [kind : STRING, p : Projects, st : {"new", "committed", "stopping", "disconnecting", "done"},
             c : Clients \cup {None}, file : Entries]

ManagerTypes ==
  /\ state \in [Projects -> Clients \cup {None}]
  /\ yaml \in [Projects -> Entries]
  /\ requests \in [Requests -> Handlers]

\* A handler leaves a client only where it waits for that.
Departing == \A r \in Requests : leaving[r] # Remains => requests[r].st \in {"disconnecting", "stopping"}

Owned ==
  /\ \A p \in Projects : state[p] # None => pre_connect[state[p]] # "new"
  /\ \A c \in Clients : Alive(c) => c \in Excepted \/ Ending(c) \/ \E p \in Projects : state[p] = c
  /\ \A r \in Requests :
       requests[r].st = "disconnecting" /\ requests[r].c # None =>
         \/ requests[r].c \in Excepted
         \/ (Alive(requests[r].c) => Ending(requests[r].c)) /\ pre_connect[requests[r].c] # "new"
  /\ \A c \in Clients : Leaves(c) # {} => pre_connect[c] # "new" /\ (c \in torn \cup revived \/ ~Has(c, Ongoing))

IInv == CInv /\ ManagerTypes /\ Departing /\ Owned

(***************************************************************************)
(* Reading the operators of PluginClients                                  *)
(***************************************************************************)
LEMMA CallsAreNotClients == \A k \in Calls : k \notin Clients
  BY ClientsAssumption

LEMMA ConnectsAreHad ==
  ASSUME NEW c \in Clients, NEW phases
  PROVE  Connects(c, phases) # {} <=> Has(c, phases)
  BY CallsAreNotClients DEF Connects, Phase, Has

LEMMA OfAClient ==
  ASSUME NEW c \in Clients
  PROVE  /\ On(c) = c /\ Phase(c) = pre_connect[c]
         /\ \A phase : Goes(c, phase) <=> (pre_connect' = [pre_connect EXCEPT ![c] = phase] /\ UNCHANGED calls)
  BY CallsAreNotClients DEF On, Phase, Goes

LEMMA OfACall ==
  ASSUME NEW k \in Calls
  PROVE  /\ On(k) = calls[k].on /\ Phase(k) = calls[k].conn
         /\ \A phase : Goes(k, phase) <=> (calls' = [calls EXCEPT ![k].conn = phase] /\ UNCHANGED pre_connect)
  BY DEF On, Phase, Goes

\* Nobody connects while the background task does, and one call at a time does after it.
LEMMA OneAtATime ==
  ASSUME CInv, NEW c \in Clients
  PROVE  /\ pre_connect[c] \in Ongoing => \A k \in Calls : calls[k].on = c => calls[k].conn = "no"
         /\ \A j, k \in Calls : calls[j].conn # "no" /\ calls[k].conn # "no" /\ calls[j].on = c /\ calls[k].on = c => j = k
  BY DEF CInv, ClientTypes, CallStates, InTurn

(***************************************************************************)
(* Steps of the clients                                                    *)
(***************************************************************************)
LEMMA BackgroundStep ==
  ASSUME CInv, NEW c \in Clients, ConnectStep(c) PROVE CInv'
<1> USE DEF CInv, ClientTypes, CallStates, Phases
<1>0. /\ On(c) = c /\ Phase(c) = pre_connect[c]
      /\ \A phase : Goes(c, phase) <=> (pre_connect' = [pre_connect EXCEPT ![c] = phase] /\ UNCHANGED calls)
  BY OfAClient
<1>1. CASE connect(c)
  <2>1. CASE connected[c]
    <3>1. /\ pre_connect[c] = "begin" /\ pre_connect' = [pre_connect EXCEPT ![c] = "ok"]
          /\ UNCHANGED <<calls, transport, connected, connect_lock, running, gateway, leaving, torn, revived>>
      BY <1>0, <1>1, <2>1 DEF connect
    <3>2. InTurn' BY <3>1 DEF InTurn, Ongoing
    <3>3. Held' BY <3>1 DEF Held, Has, Leaves, Ending
    <3> QED BY <3>1, <3>2, <3>3
  <2>2. CASE ~connected[c]
    <3>1. /\ pre_connect[c] = "begin" /\ pre_connect' = [pre_connect EXCEPT ![c] = "spawn"]
          /\ transport' = [transport EXCEPT ![c] = TRUE]
          /\ torn' = IF Leaves(c) # {} THEN torn \cup {c} ELSE torn
          /\ UNCHANGED <<calls, connected, connect_lock, running, gateway, leaving, revived>>
      BY <1>0, <1>1, <2>2 DEF connect
    <3>2. InTurn' BY <3>1 DEF InTurn, Ongoing
    <3>3. c \notin torn' => running[c] = 0
      BY <2>2, <3>1, OneAtATime DEF Held, Has, Leaves, Ending, Ongoing
    <3>4. ~Has(c, {"init"})'
      BY <3>1, OneAtATime DEF Has, Ongoing
    <3>5. Held'
      BY <3>1, <3>3, <3>4 DEF Held, Has, Leaves, Ending
    <3> QED BY <3>1, <3>2, <3>5
  <2> QED BY <2>1, <2>2
<1>2. CASE _connect_stdio(c)
  <2>1. /\ pre_connect[c] = "spawn" /\ pre_connect' = [pre_connect EXCEPT ![c] = "init"]
        /\ running' = [running EXCEPT ![c] = @ + 1]
        /\ UNCHANGED <<calls, connected, transport, connect_lock, gateway, leaving, torn, revived>>
    BY <1>0, <1>2 DEF _connect_stdio
  <2>2. InTurn' BY <2>1 DEF InTurn, Ongoing
  <2>3. ~Has(c, {"spawn"})'
    BY <2>1, OneAtATime DEF Has, Ongoing
  <2>4. Held' BY <2>1, <2>3 DEF Held, Has, Leaves, Ending
  <2> QED BY <2>1, <2>2, <2>4
<1>3. CASE _init_session(c)
  <2>1. ClientTypes' BY <1>0, <1>3 DEF _init_session
  <2>2. InTurn' BY <1>0, <1>3 DEF _init_session, InTurn, Ongoing
  <2>3. \A d : Leaves(d)' = Leaves(d) /\ (Ending(d)' <=> Ending(d))
    BY <1>3 DEF _init_session, Leaves, Ending
  <2>4. c \in torn \/ Leaves(c) = {}
    BY <1>0, <1>3 DEF _init_session, Held, Has
  <2>5. /\ connected' = [connected EXCEPT ![c] = TRUE]
        /\ pre_connect[c] = "init" /\ pre_connect' = [pre_connect EXCEPT ![c] = "ok"]
        /\ UNCHANGED <<calls, leaving, torn, running, transport>>
    BY <1>0, <1>3 DEF _init_session
  <2>6. Held' BY <2>3, <2>4, <2>5, OneAtATime DEF Held, Has, Ongoing
  <2> QED BY <2>1, <2>2, <2>6
<1>4. CASE _cleanup_on_connect_failure(c)
  <2>1. ClientTypes' BY <1>0, <1>4 DEF _cleanup_on_connect_failure, Left
  <2>2. InTurn' BY <1>0, <1>4 DEF _cleanup_on_connect_failure, InTurn, Ongoing
  <2>3. Held' BY <1>0, <1>4, OneAtATime DEF _cleanup_on_connect_failure, Left, Held, Has, Leaves, Ending, Ongoing
  <2> QED BY <2>1, <2>2, <2>3
<1> QED
  BY <1>1, <1>2, <1>3, <1>4 DEF ConnectStep

LEMMA CallConnects ==
  ASSUME CInv, NEW k \in Calls, ConnectStep(k) PROVE CInv'
<1> USE DEF CInv, ClientTypes, CallStates, Phases
<1> DEFINE c == calls[k].on
<1>1. /\ On(k) = c /\ Phase(k) = calls[k].conn
      /\ \A phase : Goes(k, phase) <=> (calls' = [calls EXCEPT ![k].conn = phase] /\ UNCHANGED pre_connect)
  BY OfACall
<1>2. calls[k].st = "connecting" /\ c \in Clients /\ calls[k].conn \in Ongoing
  BY <1>1 DEF ConnectStep, connect, _connect_stdio, _init_session, _cleanup_on_connect_failure, InTurn, Ongoing
<1>3. /\ pre_connect[c] \notin Ongoing
      /\ \A j \in Calls \ {k} : calls[j].on = c => calls[j].conn = "no"
  BY <1>2, OneAtATime DEF InTurn, Ongoing
<1> HIDE DEF c
<1>4. CASE connect(k)
  <2>1. CASE connected[c]
    <3>1. /\ calls[k].conn = "begin" /\ calls' = [calls EXCEPT ![k].conn = "ok"]
          /\ UNCHANGED <<pre_connect, transport, connected, connect_lock, running, gateway, leaving, torn, revived>>
      BY <1>1, <1>4, <2>1 DEF connect
    <3>2. InTurn' BY <3>1 DEF InTurn
    <3>3. Held' BY <3>1 DEF Held, Has, Leaves, Ending
    <3> QED BY <3>1, <3>2, <3>3
  <2>2. CASE ~connected[c]
    <3>1. /\ calls[k].conn = "begin" /\ calls' = [calls EXCEPT ![k].conn = "spawn"]
          /\ transport' = [transport EXCEPT ![c] = TRUE]
          /\ torn' = IF Leaves(c) # {} THEN torn \cup {c} ELSE torn
          /\ UNCHANGED <<pre_connect, connected, connect_lock, running, gateway, leaving, revived>>
      BY <1>1, <1>4, <2>2 DEF connect
    <3>2. InTurn' BY <3>1 DEF InTurn
    <3>3. ~Has(c, {"init"}) /\ ~Has(c, {"init"})'
      BY <1>2, <1>3, <3>1 DEF Has, Ongoing, c
    <3>4. c \notin torn' => running[c] = 0
      BY <1>2, <2>2, <3>1, <3>3 DEF Held, Leaves, Ending
    <3>5. Held'
      BY <1>2, <3>1, <3>3, <3>4 DEF Held, Has, Leaves, Ending, c
    <3> QED BY <3>1, <3>2, <3>5
  <2> QED BY <2>1, <2>2
<1>5. CASE _connect_stdio(k)
  <2>1. /\ calls[k].conn = "spawn" /\ calls' = [calls EXCEPT ![k].conn = "init"]
        /\ running' = [running EXCEPT ![c] = @ + 1]
        /\ UNCHANGED <<pre_connect, connected, transport, connect_lock, gateway, leaving, torn, revived>>
    BY <1>1, <1>5 DEF _connect_stdio
  <2>2. InTurn' BY <2>1 DEF InTurn
  <2>3. ~Has(c, {"spawn"})' /\ Has(c, {"init"})'
    BY <1>2, <1>3, <2>1 DEF Has, Ongoing, c
  <2>4. Held' BY <1>2, <2>1, <2>3 DEF Held, Has, Leaves, Ending, c
  <2> QED BY <1>2, <2>1, <2>2, <2>4
<1>6. CASE _init_session(k)
  <2>1. /\ calls[k].conn = "init" /\ calls' = [calls EXCEPT ![k].conn = "ok"]
        /\ connected' = [connected EXCEPT ![c] = TRUE]
        /\ UNCHANGED <<pre_connect, transport, connect_lock, running, gateway, leaving, torn, revived>>
    BY <1>1, <1>6 DEF _init_session
  <2>2. InTurn' BY <2>1 DEF InTurn
  <2>3. Held' BY <1>2, <2>1 DEF Held, Has, Leaves, Ending, c
  <2> QED BY <1>2, <2>1, <2>2, <2>3
<1>7. CASE _cleanup_on_connect_failure(k)
  <2>1. /\ calls[k].conn \in {"spawn", "init"} /\ calls' = [calls EXCEPT ![k].conn = "failed"]
        /\ connected' = [connected EXCEPT ![c] = FALSE]
        /\ running' = [running EXCEPT ![c] = IF calls[k].conn = "init" THEN Left(c) ELSE @]
        /\ transport' = [transport EXCEPT ![c] = FALSE]
        /\ UNCHANGED <<pre_connect, connect_lock, gateway, leaving, torn, revived>>
    BY <1>1, <1>7 DEF _cleanup_on_connect_failure
  <2>2. InTurn' BY <2>1 DEF InTurn
  <2>3. ClientTypes' BY <1>2, <2>1 DEF Left
  <2>4. ~Has(c, {"spawn", "init"})' /\ ~Has(c, {"spawn"})'
    BY <1>2, <1>3, <2>1 DEF Has, Ongoing, c
  <2>5. c \notin torn => running'[c] = 0
    BY <1>2, <2>1 DEF Held, Has, Leaves, Ending, Left, c
  <2>6. Held' BY <1>2, <2>1, <2>3, <2>4, <2>5 DEF Held, Has, Leaves, Ending, c
  <2> QED BY <2>2, <2>3, <2>6
<1> QED
  BY <1>4, <1>5, <1>6, <1>7 DEF ConnectStep

\* What a call does before, between and after.
LEMMA CallMoves ==
  ASSUME NEW call \in CallStates, NEW st \in Stages
  PROVE  /\ [call EXCEPT !.st = st] \in CallStates
         /\ \A conn \in {"begin", "no"} : [call EXCEPT !.st = st, !.conn = conn] \in CallStates
         /\ \A c \in Clients : [call EXCEPT !.on = c, !.st = st] \in CallStates
         /\ [NoCall EXCEPT !.st = "ended"] \in CallStates
  BY DEF CallStates, Phases, Stages, NoCall

LEMMA CallsStayTyped ==
  ASSUME ClientTypes, NEW k \in Calls, _gateway(k) \/ CallStep(k) PROVE calls' \in [Calls -> CallStates]
<1> USE DEF ClientTypes
<1>1. \A call \in CallStates : \A st \in Stages : [call EXCEPT !.st = st] \in CallStates
  BY CallMoves
<1>2. calls[k] \in CallStates /\ \A st \in {"calling", "waiting", "locking", "connecting"} : st \in Stages
  BY DEF Stages
<1>3. Ends(k) => calls' \in [Calls -> CallStates]
  BY <1>2, CallMoves DEF Ends
<1>4. \A st \in {"calling", "locking"} : At(k, st) => calls' \in [Calls -> CallStates]
  <2> SUFFICES ASSUME NEW st \in {"calling", "locking"}, At(k, st) PROVE calls' \in [Calls -> CallStates]
    OBVIOUS
  <2>1. [calls[k] EXCEPT !.st = st] \in CallStates
    BY <1>1, <1>2
  <2> QED
    BY <1>2, <2>1 DEF At
<1>5. CASE _gateway(k)
  <2>1. PICK st \in {"calling", "waiting"} : calls' = [calls EXCEPT ![k] = [@ EXCEPT !.on = gateway, !.st = st]]
    BY <1>5 DEF _gateway
  <2>2. [calls[k] EXCEPT !.on = gateway, !.st = st] \in CallStates
    BY <1>2, <1>5, CallMoves DEF _gateway
  <2> QED
    BY <2>1, <2>2
<1>6. CASE ensure_connected(k)
  BY <1>3, <1>6, <1>4 DEF ensure_connected
<1>7. CASE connect_locked(k)
  <2>1. [calls[k] EXCEPT !.st = "connecting", !.conn = "begin"] \in CallStates
    BY <1>2, CallMoves
  <2>2. \/ At(k, "calling")
        \/ calls' = [calls EXCEPT ![k] = [@ EXCEPT !.st = "connecting", !.conn = "begin"]]
    BY <1>7 DEF connect_locked
  <2> QED
    BY <1>4, <2>1, <2>2
<1>8. CASE connect_ended(k)
  BY <1>2, <1>3, <1>8, CallMoves DEF connect_ended
<1>9. CASE call_tool(k)
  BY <1>3, <1>9 DEF call_tool
<1> QED
  BY <1>5, <1>6, <1>7, <1>8, <1>9 DEF CallStep

LEMMA HeldByOthers ==
  ASSUME Held, NEW k \in Calls, \A j \in Calls \ {k} : calls'[j] = calls[j],
         calls[k].conn \notin {"spawn", "init"}, calls'[k].conn \notin {"spawn", "init"},
         UNCHANGED <<connected, transport, running, pre_connect, leaving, torn>>
  PROVE  Held'
<1>1. \A c : \A phases \in {{"spawn"}, {"init"}, {"spawn", "init"}} : Has(c, phases)' <=> Has(c, phases)
  BY DEF Has
<1> QED
  BY <1>1 DEF Held, Leaves, Ending

LEMMA GatewaySteps ==
  ASSUME CInv, NEW k \in Calls, _gateway(k) \/ CallStep(k) PROVE CInv'
<1> USE DEF CInv, ClientTypes, NoCall
<1>0. calls' \in [Calls -> CallStates]
  BY CallsStayTyped
<1> USE DEF CallStates
<1>1. CASE _gateway(k)
  <2>1. ClientTypes' BY <1>0, <1>1 DEF _gateway
  <2>2. InTurn' BY <1>1 DEF _gateway, InTurn, Ongoing
  <2>3. /\ calls[k].conn = "no" /\ calls'[k].conn = "no" /\ \A j \in Calls \ {k} : calls'[j] = calls[j]
        /\ UNCHANGED <<connected, transport, running, pre_connect, leaving, torn>>
    BY <1>1 DEF _gateway, InTurn
  <2>4. Held' BY <2>3, HeldByOthers
  <2> QED BY <2>1, <2>2, <2>4
<1>2. CASE ensure_connected(k)
  <2>0. calls[k].on \in Clients /\ Phase(calls[k].on) = pre_connect[calls[k].on]
    BY <1>2, OfAClient DEF ensure_connected, InTurn
  <2>1. ClientTypes' BY <1>0, <1>2 DEF ensure_connected
  <2>2. InTurn' BY <2>0, <1>2 DEF ensure_connected, At, Ends, InTurn, Ongoing
  <2>3. /\ calls[k].conn = "no" /\ calls'[k].conn = "no" /\ \A j \in Calls \ {k} : calls'[j] = calls[j]
        /\ UNCHANGED <<connected, transport, running, pre_connect, leaving, torn>>
    BY <1>2 DEF ensure_connected, At, Ends, InTurn
  <2>4. Held' BY <2>3, HeldByOthers
  <2> QED BY <2>1, <2>2, <2>4
<1>3. CASE connect_locked(k)
  <2> DEFINE c == calls[k].on
  <2>0. c \in Clients /\ calls[k].conn = "no"
    BY <1>3 DEF connect_locked, InTurn
  <2>1. CASE connected[c]
    <3>1. /\ calls[k].st = "locking" /\ calls' = [calls EXCEPT ![k].st = "calling"]
          /\ UNCHANGED <<connected, transport, running, pre_connect, leaving, torn, connect_lock, gateway, revived>>
      BY <1>3, <2>1 DEF connect_locked, At
    <3>2. ClientTypes' BY <1>0, <3>1
    <3>3. InTurn' BY <3>1 DEF InTurn
    <3>4. Held' BY <2>0, <3>1, HeldByOthers
    <3> QED BY <3>2, <3>3, <3>4
  <2>2. CASE ~connected[c]
    <3>1. /\ calls[k].st = "locking" /\ connect_lock[c] = None
          /\ calls' = [calls EXCEPT ![k] = [@ EXCEPT !.st = "connecting", !.conn = "begin"]]
          /\ connect_lock' = [connect_lock EXCEPT ![c] = k]
          /\ revived' = revived \cup {c}
          /\ UNCHANGED <<connected, transport, running, pre_connect, gateway, leaving, torn>>
      BY <1>3, <2>2 DEF connect_locked
    <3>2. ClientTypes' BY <1>0, <3>1
    <3>3. \A j \in Calls : calls[j].on = c => calls[j].st # "connecting"
      BY <3>1, ClientsAssumption DEF InTurn
    <3>4. InTurn' BY <2>0, <3>1, <3>3 DEF InTurn
    <3>5. calls'[k].conn = "begin" /\ \A j \in Calls \ {k} : calls'[j] = calls[j] BY <3>1
    <3>6. Held' BY <2>0, <3>1, <3>5, HeldByOthers
    <3> QED BY <3>2, <3>4, <3>6
  <2> QED BY <2>1, <2>2
<1>4. CASE connect_ended(k)
  <2> DEFINE c == calls[k].on
  <2>0. /\ calls[k].st = "connecting" /\ calls[k].conn \in {"ok", "failed"}
        /\ connect_lock' = [connect_lock EXCEPT ![c] = None]
        /\ UNCHANGED <<connected, transport, running, pre_connect, gateway, leaving, torn, revived>>
    BY <1>4 DEF connect_ended
  <2>1. \A j \in Calls \ {k} : calls[j].on = c => calls[j].st # "connecting"
    BY <2>0 DEF InTurn
  <2>2. ClientTypes' BY <1>0, <2>0
  <2>3. CASE calls' = [calls EXCEPT ![k] = [@ EXCEPT !.st = "calling", !.conn = "no"]]
    <3>1. InTurn' BY <2>0, <2>1, <2>3 DEF InTurn
    <3>2. calls'[k].conn = "no" /\ \A j \in Calls \ {k} : calls'[j] = calls[j] BY <2>3
    <3>3. Held' BY <2>0, <3>2, HeldByOthers
    <3> QED BY <2>2, <3>1, <3>3
  <2>4. CASE Ends(k)
    <3>1. InTurn' BY <2>0, <2>1, <2>4 DEF Ends, InTurn
    <3>2. calls'[k].conn = "no" /\ \A j \in Calls \ {k} : calls'[j] = calls[j] BY <2>4 DEF Ends
    <3>3. Held' BY <2>0, <3>2, HeldByOthers
    <3> QED BY <2>2, <3>1, <3>3
  <2> QED BY <1>4, <2>3, <2>4 DEF connect_ended
<1>5. CASE call_tool(k)
  <2>1. ClientTypes' BY <1>0, <1>5 DEF call_tool
  <2>2. InTurn' BY <1>5 DEF call_tool, Ends, InTurn
  <2>3. Held' BY <1>5 DEF call_tool, Ends, InTurn, Held, Has, Leaves, Ending
  <2> QED BY <2>1, <2>2, <2>3
<1> QED
  BY <1>1, <1>2, <1>3, <1>4, <1>5 DEF CallStep

LEMMA DeathStep ==
  ASSUME CInv, NEW c \in Clients, Dies(c) PROVE CInv'
<1> USE DEF CInv, ClientTypes, CallStates
<1>1. ClientTypes' BY DEF Dies
<1>2. InTurn' BY DEF Dies, InTurn
<1>3. Held' BY DEF Dies, Held, Has, Leaves, Ending
<1> QED BY <1>1, <1>2, <1>3

(***************************************************************************)
(* Steps of the manager                                                    *)
(***************************************************************************)
Disconnects(r, c) == leaving[r] = Remains /\ disconnect(r, c) /\ UNCHANGED <<connect_lock, pre_connect, gateway, calls, revived>>

\* A client that nobody is connecting is about to lose its process; another keeps it and is torn.
LEMMA DisconnectStep ==
  ASSUME CInv, NEW r \in Requests, NEW c \in Clients, Disconnects(r, c)
  PROVE  /\ CInv'
         /\ c \in torn' \/ ((running'[c] > 0 => Ending(c)') /\ ~Has(c, Ongoing)')
         /\ torn \subseteq torn' /\ running' = running
         /\ \A q \in Requests \ {r} : leaving'[q] = leaving[q]
         /\ leaving'[r] # Remains => leaving'[r].c = c
<1> USE DEF CInv, ClientTypes, Disconnects, disconnect, Tears
<1> DEFINE at == IF Connects(c, {"spawn"}) # {} THEN "transport" ELSE "session"
<1>0. /\ Connects(c, {"spawn"}) # {} <=> Has(c, {"spawn"})
      /\ Connects(c, {"begin", "spawn", "init"}) # {} <=> Has(c, Ongoing)
  BY ConnectsAreHad DEF Ongoing
<1>1. leaving' = IF transport[c] THEN [leaving EXCEPT ![r] = [c |-> c, at |-> at]] ELSE leaving
  OBVIOUS
<1>2. [c |-> c, at |-> at] \in Departures /\ (~Has(c, {"spawn"}) => at = "session")
  BY <1>0 DEF Departures
<1> HIDE DEF at
<1>3. ClientTypes'
  BY <1>1, <1>2
<1>4. InTurn'
  BY DEF InTurn
<1>5. /\ \A phases : \A d : Has(d, phases)' <=> Has(d, phases)
      /\ c \in torn' \/ ~Has(c, Ongoing)
      /\ torn \subseteq torn' /\ running' = running /\ transport' = transport
      /\ connected' = [connected EXCEPT ![c] = FALSE]
  BY <1>0 DEF Has
<1>6. ~Has(c, Ongoing) => ~Has(c, {"spawn"}) /\ ~Has(c, {"init"}) /\ ~Has(c, {"spawn", "init"})
  BY DEF Has, Ongoing
<1>7. /\ \A q \in Requests : leaving[q].c = c => leaving'[q].c = c /\ (leaving'[q] = leaving[q] \/ q = r)
      /\ \A q \in Requests \ {r} : leaving'[q] = leaving[q]
      /\ leaving'[r] = leaving[r] \/ (leaving'[r] = [c |-> c, at |-> at] /\ transport[c])
      /\ transport[c] => leaving'[r] = [c |-> c, at |-> at]
  BY <1>1, <1>2 DEF Remains, Departures
<1>8. c \in torn' \/ (running[c] > 0 => Ending(c)')
  BY <1>2, <1>5, <1>6, <1>7 DEF Held, Ending
<1>9. \A d \in Clients : d # c => Leaves(d)' = Leaves(d) /\ (Ending(d)' <=> Ending(d))
  BY <1>7, ClientsAssumption DEF Leaves, Ending, Remains, Disconnects
<1>10. Held'
  <2> SUFFICES ASSUME NEW d \in Clients \ torn'
      PROVE  /\ running'[d] <= 1
             /\ running'[d] > 0 \/ Has(d, {"spawn", "init"})' => transport'[d]
             /\ Has(d, {"spawn"})' => running'[d] = 0
             /\ running'[d] > 0 /\ ~connected'[d] => Has(d, {"init"})' \/ Ending(d)'
             /\ Leaves(d)' # {} => ~connected'[d] /\ ~Has(d, {"spawn", "init"})'
             /\ \A q \in Leaves(d)' : leaving'[q].at = "transport" => running'[d] = 0
    BY DEF Held
  <2>1. CASE d # c
    <3>1. \A q \in Leaves(d) : leaving'[q] = leaving[q]
      BY <1>7, <2>1, ClientsAssumption DEF Leaves, Remains, Disconnects
    <3> QED
      BY <1>5, <1>9, <2>1, <3>1 DEF Held
  <2>2. CASE d = c
    <3>1. \A q \in Leaves(c)' : leaving'[q].at = "transport" => q \in Leaves(c) /\ leaving[q].at = "transport"
      BY <1>2, <1>5, <1>6, <1>7, <2>2, ClientsAssumption DEF Leaves, Remains, Disconnects
    <3> QED
      BY <1>5, <1>6, <1>8, <2>2, <3>1 DEF Held
  <2> QED
    BY <2>1, <2>2
<1> QED
  BY <1>3, <1>4, <1>5, <1>7, <1>8, <1>10 DEF Remains

\* The process of a client that nobody connects ends with the session; the rest is forgetting.
LEMMA LeavesStep ==
  ASSUME CInv, NEW r \in Requests, LeaveStep(r)
  PROVE  /\ CInv'
         /\ leaving[r] # Remains /\ leaving[r].c \in Clients
         /\ leaving'[r].c \in {leaving[r].c, None} /\ \A q \in Requests \ {r} : leaving'[q] = leaving[q]
         /\ \A d \in Clients : /\ running'[d] <= running[d]
                               /\ Ending(d) /\ ~Ending(d)' => d \in torn \/ running'[d] = 0
         /\ UNCHANGED <<torn, revived, calls, pre_connect>>
<1> USE DEF CInv, ClientTypes
<1> DEFINE c == leaving[r].c
<1>0. leaving[r] # Remains /\ c \in Clients /\ leaving[r] = [c |-> c, at |-> leaving[r].at]
  BY DEF LeaveStep, _exit_session, _exit_transport, Departures, Remains
<1>1. (\A phases : \A d : Has(d, phases)' <=> Has(d, phases)) /\ UNCHANGED <<torn, revived, calls, pre_connect, connected>>
  BY DEF LeaveStep, _exit_session, _exit_transport, Has
<1>2. InTurn'
  BY DEF LeaveStep, _exit_session, _exit_transport, InTurn
<1>3. \A d \in Clients : \A q \in Requests : leaving'[q].c = d => leaving[q].c = d
  BY <1>0, ClientsAssumption DEF LeaveStep, _exit_session, _exit_transport, Remains, Departures
<1>4. \A d \in Clients : Leaves(d)' \subseteq Leaves(d)
  BY <1>3 DEF Leaves
<1>5. CASE _exit_session(r)
  <2>1. running' = [running EXCEPT ![c] = IF Connects(c, {"spawn"}) # {} THEN @ ELSE Left(c)] /\ transport' = transport
    BY <1>5 DEF _exit_session
  <2>2. leaving' = [leaving EXCEPT ![r] = IF transport[c] THEN [c |-> c, at |-> "transport"] ELSE Remains]
    <3>1. [leaving[r] EXCEPT !.at = "transport"] = [c |-> c, at |-> "transport"]
      BY <1>0
    <3> QED
      BY <1>5, <3>1 DEF _exit_session
  <2>3. running' \in [Clients -> Nat] /\ \A d \in Clients : running'[d] <= running[d] /\ (d # c => running'[d] = running[d])
    <3>1. Left(c) \in Nat /\ Left(c) <= running[c]
      BY <1>0 DEF Left
    <3> QED
      BY <1>0, <2>1, <3>1
  <2>4. leaving' \in [Requests -> Departures]
    BY <1>0, <2>2 DEF Departures
  <2>5. ClientTypes'
    BY <1>5, <2>3, <2>4 DEF _exit_session
  <2>6. c \in torn \/ running'[c] = 0
    <3>1. c \notin torn => ~Has(c, {"spawn"}) /\ running[c] <= 1 /\ (running[c] > 0 => transport[c])
      BY <1>0 DEF Held, Leaves, Has
    <3>2. Connects(c, {"spawn"}) # {} <=> Has(c, {"spawn"})
      BY <1>0, ConnectsAreHad
    <3> QED
      BY <1>0, <2>1, <3>1, <3>2 DEF Left
  <2>7. \A d \in Clients : Ending(d) /\ ~Ending(d)' => d = c
    BY <2>2 DEF Ending
  <2>8. Held'
    <3> SUFFICES ASSUME NEW d \in Clients \ torn
        PROVE  /\ running'[d] <= 1
               /\ running'[d] > 0 \/ Has(d, {"spawn", "init"})' => transport'[d]
               /\ Has(d, {"spawn"})' => running'[d] = 0
               /\ running'[d] > 0 /\ ~connected'[d] => Has(d, {"init"})' \/ Ending(d)'
               /\ Leaves(d)' # {} => ~connected'[d] /\ ~Has(d, {"spawn", "init"})'
               /\ \A q \in Leaves(d)' : leaving'[q].at = "transport" => running'[d] = 0
      BY <1>1 DEF Held, Leaves, Ending
    <3>1. CASE d = c
      BY <1>1, <1>4, <2>1, <2>6, <3>1 DEF Held
    <3>2. CASE d # c
      <4>1. running'[d] = running[d]
        BY <2>3, <3>2
      <4>2. \A q \in Leaves(d)' : leaving'[q] = leaving[q] /\ q \in Leaves(d)
        BY <1>0, <1>4, <2>2, <3>2 DEF Leaves
      <4> QED
        BY <1>1, <1>4, <2>1, <2>7, <3>2, <4>1, <4>2 DEF Held
    <3> QED
      BY <3>1, <3>2
  <2> QED
    BY <1>0, <1>1, <1>2, <2>2, <2>3, <2>5, <2>6, <2>7, <2>8 DEF Remains
<1>6. CASE _exit_transport(r)
  <2>1. transport' = [transport EXCEPT ![c] = FALSE] /\ leaving' = [leaving EXCEPT ![r] = Remains] /\ running' = running
    BY <1>6 DEF _exit_transport
  <2>2. ClientTypes'
    BY <1>0, <1>6 DEF _exit_transport, Departures
  <2>3. \A d \in Clients : Ending(d) => Ending(d)'
    BY <1>6, <2>1 DEF _exit_transport, Ending
  <2>4. c \in torn \/ (running[c] = 0 /\ ~Has(c, {"spawn", "init"}))
    BY <1>0, <1>6 DEF _exit_transport, Held, Leaves
  <2>5. \A q \in Requests : leaving'[q] = leaving[q] \/ leaving'[q] = Remains
    BY <2>1
  <2>6. Held'
    BY <1>1, <1>4, <2>1, <2>3, <2>4, <2>5 DEF Held, Leaves, Remains
  <2> QED
    BY <1>0, <1>1, <1>2, <2>1, <2>2, <2>3, <2>6 DEF Remains
<1> QED
  BY <1>5, <1>6 DEF LeaveStep

LEMMA StartStep ==
  ASSUME CInv, ManagerTypes, NEW p \in Projects, NEW c \in Unused, _start_one(p, c) PROVE CInv'
<1> USE DEF CInv, ClientTypes, _start_one, register_plugin_gateway, Unused, Phases
<1>1. ClientTypes'
  OBVIOUS
<1>2. InTurn'
  BY DEF InTurn, Ongoing
<1>3. Held'
  BY DEF InTurn, Held, Has, Leaves, Ending
<1> QED
  BY <1>1, <1>2, <1>3

LEMMA ClientsKept ==
  ASSUME CInv, UNCHANGED clientVars PROVE CInv'
  BY DEF CInv, ClientTypes, InTurn, Held, Has, Leaves, Ending, clientVars

(***************************************************************************)
(* All steps                                                               *)
(***************************************************************************)
LEMMA ClientsStep ==
  ASSUME CInv, ClientsNext PROVE CInv'
<1>1. ASSUME NEW o \in Owners, ConnectStep(o) PROVE CInv'
  BY <1>1, BackgroundStep, CallConnects DEF Owners
<1> QED
  BY <1>1, GatewaySteps, LeavesStep, DeathStep DEF ClientsNext

\* What a request does to the clients: nothing, or it starts one, or disconnects one.
LEMMA PlaceSteps ==
  ASSUME ManagerTypes, NEW p \in Projects, NEW mcp
  PROVE  /\ start_plugins_for_project(p, mcp) =>
              \/ UNCHANGED <<clientVars, state, replaced>>
              \/ \E c \in Unused : _start_one(p, c)
              \/ _start_failed(p)
         /\ \A r \in Requests : leaving[r] = Remains /\ stop_plugins_for_project(r, p) =>
              \/ state[p] = None /\ UNCHANGED clientVars
              \/ state[p] \in Clients /\ Disconnects(r, state[p])
  BY DEF start_plugins_for_project, stop_plugins_for_project, Disconnects, ManagerTypes

LEMMA RequestSteps ==
  ASSUME ManagerTypes, Departing, ProjectRequest \/ PluginRequest
  PROVE  \/ UNCHANGED clientVars
         \/ \E p \in Projects : \E c \in Unused : _start_one(p, c)
         \/ \E r \in Requests : \E c \in Clients : Disconnects(r, c)
<1>0. \A r \in Requests : requests[r].st \in {"new", "committed"} => leaving[r] = Remains
  BY DEF Departing
<1>1. \A r \in Requests : requests[r].p \in Projects
  BY DEF ManagerTypes, Handlers
<1>2. CASE ProjectRequest
  <2>1. ASSUME NEW p \in Projects, NEW mcp, start_plugins_for_project(p, mcp)
        PROVE  UNCHANGED clientVars \/ \E c \in Unused : _start_one(p, c)
    BY <2>1, PlaceSteps DEF _start_failed
  <2>2. ASSUME NEW r \in Requests, archive_stops(r)
        PROVE  UNCHANGED clientVars \/ \E c \in Clients : Disconnects(r, c)
    BY <1>0, <1>1, <2>2, PlaceSteps DEF archive_stops
  <2>3. ASSUME NEW r \in Requests, archive_project(r) \/ unarchive_project(r) \/ archive_unloads(r)
                                    \/ delete_project(r) \/ rebuild_index(r)
        PROVE  UNCHANGED clientVars
    BY <2>3 DEF archive_project, archive_unloads, unarchive_project, delete_project, rebuild_index, Commits
  <2> QED
    BY <1>1, <1>2, <2>1, <2>2, <2>3 DEF ProjectRequest, Startup, unarchive_loads
<1>3. CASE PluginRequest
  BY <1>0, <1>1, <1>3
     DEF PluginRequest, Was, enable_plugin, enable_plugin_tool, disable_plugin, disabled, upsert_other,
         _start_failed, Disconnects, ManagerTypes, Handlers
<1> QED
  BY <1>2, <1>3

LEMMA CStep ==
  ASSUME CInv, ManagerTypes, Departing, [Next]_vars PROVE CInv'
<1>1. CASE ProjectRequest \/ PluginRequest
  BY <1>1, RequestSteps, ClientsKept, StartStep, DisconnectStep
<1>2. CASE ClientsNext
  BY <1>2, ClientsStep
<1>3. CASE UNCHANGED vars
  BY <1>3, ClientsKept DEF vars
<1> QED
  BY <1>1, <1>2, <1>3 DEF Next

LEMMA DepartingStep ==
  ASSUME CInv, ManagerTypes, Departing, [Next]_vars PROVE Departing'
<1>1. ASSUME UNCHANGED leaving, \A r \in Requests : requests'[r].st = requests[r].st \/ leaving[r] = Remains
      PROVE  Departing'
  BY <1>1 DEF Departing
<1>2. ASSUME NEW r \in Requests, requests'[r].st \in {"disconnecting", "stopping"},
             \A q \in Requests \ {r} : leaving'[q] = leaving[q] /\ requests'[q].st = requests[q].st
      PROVE  Departing'
  BY <1>2 DEF Departing
<1>0. \A r \in Requests : requests[r].st \in {"new", "committed"} => leaving[r] = Remains
  BY DEF Departing
<1>3. \A r \in Requests : requests[r] \in Handlers
  BY DEF ManagerTypes
<1>4. \A r \in Requests : Answers(r) => \A q \in Requests : q # r => requests'[q] = requests[q]
  BY DEF Answers, ManagerTypes
<1>5. CASE ProjectRequest
  <2>1. ASSUME NEW p \in Projects, Startup(p) PROVE Departing'
    <3>1. UNCHANGED <<requests, leaving>>
      BY <2>1 DEF Startup, start_plugins_for_project, _start_one, _start_failed, clientVars
    <3> QED
      BY <1>1, <3>1
  <2>2. ASSUME NEW r \in Requests, archive_stops(r) PROVE Departing'
    <3>1. \A q \in Requests : Detached(requests[r].p)[q].st = requests[q].st
      BY <1>3 DEF Detached, Handlers
    <3>0. Detached(requests[r].p) \in [Requests -> Handlers]
      <4>1. \A h \in Handlers : [h EXCEPT !.c = None] \in Handlers
        BY DEF Handlers
      <4> QED
        BY <1>3, <4>1 DEF Detached, Handlers
    <3>2. requests'[r].st = "stopping" /\ \A q \in Requests \ {r} : requests'[q].st = requests[q].st
      BY <2>2, <3>0, <3>1 DEF archive_stops, Handlers
    <3>3. \A q \in Requests \ {r} : leaving'[q] = leaving[q]
      BY <2>2 DEF archive_stops, stop_plugins_for_project, disconnect, clientVars, CInv, ClientTypes
    <3> QED
      BY <1>2, <3>2, <3>3
  <2>3. ASSUME NEW r \in Requests,
               archive_project(r) \/ unarchive_project(r) \/ archive_unloads(r) \/ unarchive_loads(r)
                 \/ delete_project(r) \/ rebuild_index(r)
        PROVE  Departing'
    <3>1. UNCHANGED leaving
      BY <2>3 DEF archive_project, unarchive_project, archive_unloads, unarchive_loads, delete_project,
                  rebuild_index, Commits, clientVars, start_plugins_for_project, _start_one, _start_failed
    <3>2. requests[r].st \in {"new", "committed"} \/ leaving[r] = Remains
      BY <2>3 DEF archive_project, unarchive_project, archive_unloads, unarchive_loads, delete_project,
                  rebuild_index, Commits, Was
    <3>3. \A q \in Requests : q # r => requests'[q] = requests[q]
      BY <1>4, <2>3 DEF archive_project, unarchive_project, archive_unloads, unarchive_loads, delete_project,
                        rebuild_index, Commits, Awaits, ManagerTypes
    <3>4. \A q \in Requests : requests'[q].st = requests[q].st \/ leaving[q] = Remains
      BY <1>0, <3>2, <3>3
    <3> QED
      BY <1>1, <3>1, <3>4
  <2> QED
    BY <1>5, <2>1, <2>2, <2>3 DEF ProjectRequest
<1>6. CASE PluginRequest
  <2>1. ASSUME NEW r \in Requests, enable_plugin(r) \/ enable_plugin_tool(r) \/ disabled(r) \/ upsert_other(r)
        PROVE  Departing'
    <3>1. UNCHANGED leaving
      BY <2>1 DEF enable_plugin, enable_plugin_tool, disabled, upsert_other, clientVars, _start_one, _start_failed
    <3>2. requests[r].st = "new" \/ leaving[r] = Remains
      BY <2>1 DEF enable_plugin, enable_plugin_tool, disabled, upsert_other, Was
    <3>3. \A q \in Requests : q # r => requests'[q] = requests[q]
      BY <1>4, <2>1 DEF enable_plugin, enable_plugin_tool, disabled, upsert_other
    <3>4. \A q \in Requests : requests'[q].st = requests[q].st \/ leaving[q] = Remains
      BY <1>0, <3>2, <3>3
    <3> QED
      BY <1>1, <3>1, <3>4
  <2>2. ASSUME NEW r \in Requests, disable_plugin(r) PROVE Departing'
    <3>1. CASE Answers(r) /\ UNCHANGED clientVars
      <4>1. requests[r].st = "new" /\ UNCHANGED leaving
        BY <2>2, <3>1 DEF disable_plugin, Was, clientVars
      <4> QED
        BY <1>0, <1>1, <1>4, <3>1, <4>1
    <3>2. CASE ~(Answers(r) /\ UNCHANGED clientVars)
      <4>1. /\ requests' = [requests EXCEPT ![r] = [@ EXCEPT !.st = "disconnecting", !.c = state[requests[r].p],
                                                          !.file = yaml[requests[r].p]]]
            /\ disconnect(r, state[requests[r].p])
        BY <2>2, <3>2 DEF disable_plugin
      <4>2. requests'[r].st = "disconnecting" /\ \A q \in Requests \ {r} : requests'[q].st = requests[q].st
        BY <1>3, <4>1 DEF ManagerTypes, Handlers
      <4>3. \A q \in Requests \ {r} : leaving'[q] = leaving[q]
        BY <4>1 DEF disconnect, CInv, ClientTypes
      <4> QED
        BY <1>2, <4>2, <4>3
    <3> QED
      BY <3>1, <3>2
  <2> QED
    BY <1>6, <2>1, <2>2 DEF PluginRequest
<1>7. CASE ClientsNext
  <2>1. UNCHANGED requests
    BY <1>7 DEF ClientsNext, managerVars
  <2>2. UNCHANGED leaving \/ \E r \in Requests : LeaveStep(r)
    BY <1>7 DEF ClientsNext, ConnectStep, connect, _connect_stdio, _init_session, _cleanup_on_connect_failure,
                _gateway, CallStep, ensure_connected, connect_locked, connect_ended, call_tool, Dies
  <2>3. ASSUME NEW r \in Requests, LeaveStep(r) PROVE Departing'
    BY <2>1, <2>3, LeavesStep DEF Departing
  <2> QED
    BY <1>1, <2>1, <2>2, <2>3
<1>8. CASE UNCHANGED vars
  BY <1>1, <1>8 DEF vars, clientVars, managerVars
<1> QED
  BY <1>5, <1>6, <1>7, <1>8 DEF Next

\* A handler's record, and an entry of the file, under the changes they go through.
LEMMA HandlerMoves ==
  ASSUME NEW h \in Handlers, NEW c \in Clients \cup {None}, NEW file \in Entries
  PROVE  /\ [h EXCEPT !.st = "done"] \in Handlers /\ [h EXCEPT !.st = "stopping"] \in Handlers
         /\ [h EXCEPT !.st = "committed", !.c = c] \in Handlers
         /\ [h EXCEPT !.st = "disconnecting", !.c = c, !.file = file] \in Handlers
         /\ [h EXCEPT !.c = None] \in Handlers
  BY DEF Handlers

LEMMA EntryMoves ==
  ASSUME NEW e \in Entries
  PROVE  /\ \A x \in {"none", "enabled", "disabled"} : [e EXCEPT !.plugin = x] \in Entries
         /\ [e EXCEPT !.other = "enabled"] \in Entries
  BY DEF Entries

LEMMA ManagerTypesStep ==
  ASSUME ManagerTypes, CInv, [Next]_vars PROVE ManagerTypes'
<1> USE DEF ManagerTypes
<1>1. \A p \in Projects : \A c \in Unused : _start_one(p, c) => state' \in [Projects -> Clients \cup {None}]
  BY DEF _start_one, Unused
<1>2. \A p \in Projects : _start_failed(p) => state' \in [Projects -> Clients \cup {None}]
  BY DEF _start_failed
<1>3. \A p \in Projects : \A mcp : start_plugins_for_project(p, mcp) => state' \in [Projects -> Clients \cup {None}]
  BY <1>1, <1>2, PlaceSteps
<1>4. \A r \in Requests : requests[r] \in Handlers /\ requests[r].p \in Projects /\ requests[r].file \in Entries
  BY DEF Handlers
<1>5. ASSUME NEW r \in Requests, Answers(r) PROVE requests' \in [Requests -> Handlers]
  BY <1>4, <1>5, HandlerMoves, EntryMoves DEF Answers
<1>6. ASSUME NEW p \in Projects, NEW enabled, set_plugin_config(p, enabled) PROVE yaml' \in [Projects -> Entries]
  BY <1>6, EntryMoves DEF set_plugin_config
<1>7. ASSUME NEW r \in Requests, NEW file \in Entries, Unset(r, file) PROVE yaml' \in [Projects -> Entries]
  BY <1>4, <1>7, EntryMoves DEF Unset
<1>8. CASE ProjectRequest
  <2>1. ASSUME NEW p \in Projects, Startup(p) PROVE ManagerTypes'
    BY <1>3, <2>1 DEF Startup
  <2>2. ASSUME NEW r \in Requests, archive_project(r) \/ unarchive_project(r) PROVE ManagerTypes'
    <3>1. ASSUME Awaits(r, "committed", None) PROVE requests' \in [Requests -> Handlers]
      BY <1>4, <3>1, HandlerMoves DEF Awaits
    <3> QED
      BY <1>5, <2>2, <3>1 DEF archive_project, unarchive_project, Commits
  <2>3. ASSUME NEW r \in Requests, archive_stops(r) PROVE ManagerTypes'
    <3>1. Detached(requests[r].p) \in [Requests -> Handlers]
      BY <1>4, HandlerMoves DEF Detached
    <3>2. [Detached(requests[r].p) EXCEPT ![r].st = "stopping"] \in [Requests -> Handlers]
      BY <1>4, <3>1, HandlerMoves
    <3>3. state' \in [Projects -> Clients \cup {None}] /\ UNCHANGED yaml
      BY <2>3 DEF archive_stops, stop_plugins_for_project
    <3> QED
      BY <2>3, <3>2, <3>3 DEF archive_stops
  <2>4. ASSUME NEW r \in Requests, unarchive_loads(r) PROVE ManagerTypes'
    BY <1>3, <1>4, <1>5, <2>4 DEF unarchive_loads
  <2>5. ASSUME NEW r \in Requests, archive_unloads(r) \/ delete_project(r) \/ rebuild_index(r) PROVE ManagerTypes'
    BY <1>5, <2>5 DEF archive_unloads, delete_project, rebuild_index
  <2> QED
    BY <1>8, <2>1, <2>2, <2>3, <2>4, <2>5 DEF ProjectRequest
<1>9. CASE PluginRequest
  <2>1. ASSUME NEW r \in Requests, enable_plugin(r) PROVE ManagerTypes'
    BY <1>1, <1>4, <1>5, <1>6, <2>1 DEF enable_plugin
  <2>2. ASSUME NEW r \in Requests, enable_plugin_tool(r) PROVE ManagerTypes'
    BY <1>2, <1>4, <1>5, <1>6, <2>2 DEF enable_plugin_tool
  <2>3. ASSUME NEW r \in Requests, disable_plugin(r) PROVE ManagerTypes'
    <3> DEFINE p == requests[r].p
    <3>1. p \in Projects /\ UNCHANGED state
      BY <1>4, <2>3 DEF disable_plugin
    <3>2. CASE yaml[p].plugin = "none"
      BY <1>5, <2>3, <3>2 DEF disable_plugin
    <3>3. CASE yaml[p].plugin # "none" /\ state[p] = None
      <4>1. Answers(r) /\ Unset(r, yaml[p])
        BY <2>3, <3>3 DEF disable_plugin
      <4>2. yaml[p] \in Entries
        BY <3>1
      <4> QED
        BY <1>5, <1>7, <3>1, <4>1, <4>2
    <3>4. CASE yaml[p].plugin # "none" /\ state[p] # None
      <4>1. /\ set_plugin_config(p, FALSE)
            /\ requests' = [requests EXCEPT ![r] = [@ EXCEPT !.st = "disconnecting", !.c = state[p], !.file = yaml[p]]]
        BY <2>3, <3>4 DEF disable_plugin
      <4>2. [requests[r] EXCEPT !.st = "disconnecting", !.c = state[p], !.file = yaml[p]] \in Handlers
        BY <1>4, <3>1, HandlerMoves
      <4> QED
        BY <1>6, <3>1, <4>1, <4>2
    <3> QED
      BY <3>2, <3>3, <3>4
  <2>4. ASSUME NEW r \in Requests, disabled(r) PROVE ManagerTypes'
    BY <1>4, <1>5, <1>7, <2>4 DEF disabled
  <2>5. ASSUME NEW r \in Requests, upsert_other(r) PROVE ManagerTypes'
    BY <1>4, <1>5, <2>5, EntryMoves DEF upsert_other
  <2> QED
    BY <1>9, <2>1, <2>2, <2>3, <2>4, <2>5 DEF PluginRequest
<1>10. CASE ClientsNext \/ UNCHANGED vars
  BY <1>10 DEF ClientsNext, managerVars, vars
<1> QED
  BY <1>8, <1>9, <1>10 DEF Next

(***************************************************************************)
(* Who owns a process                                                      *)
(***************************************************************************)
\* A client comes to life through a call only, and a handler that has left it has ended it.
LEMMA ClientsRevive ==
  ASSUME CInv, ClientsNext
  PROVE  /\ torn \subseteq torn' /\ revived \subseteq revived'
         /\ \A c \in Clients : /\ Alive(c)' => Alive(c) \/ c \in revived'
                               /\ Has(c, Ongoing)' => Has(c, Ongoing) \/ c \in revived'
                               /\ pre_connect[c] # "new" => pre_connect'[c] # "new"
                               /\ Leaves(c)' \subseteq Leaves(c)
                               /\ Ending(c) => Ending(c)' \/ c \in torn \/ running'[c] = 0
<1> USE DEF CInv, ClientTypes, CallStates
<1>1. ASSUME NEW b \in Clients, ConnectStep(b)
      PROVE  /\ UNCHANGED <<revived, calls, leaving>> /\ torn \subseteq torn' /\ pre_connect[b] \in Ongoing
             /\ \A d \in Clients \ {b} : running'[d] = running[d] /\ pre_connect'[d] = pre_connect[d]
             /\ pre_connect'[b] # "new"
  BY <1>1, OfAClient DEF ConnectStep, connect, _connect_stdio, _init_session, _cleanup_on_connect_failure, Ongoing
<1>2. ASSUME NEW b \in Calls, ConnectStep(b)
      PROVE  /\ UNCHANGED <<revived, pre_connect, leaving>> /\ torn \subseteq torn' /\ calls[b].on \in revived
             /\ \A d \in Clients \ {calls[b].on} : running'[d] = running[d]
             /\ \A j \in Calls : calls'[j].on = calls[j].on
             /\ \A j \in Calls \ {b} : calls'[j] = calls[j]
  <2>1. calls[b].conn \in Ongoing
    BY <1>2, OfACall DEF ConnectStep, connect, _connect_stdio, _init_session, _cleanup_on_connect_failure, Ongoing
  <2> QED
    BY <1>2, <2>1, OfACall DEF ConnectStep, connect, _connect_stdio, _init_session, _cleanup_on_connect_failure, InTurn, Ongoing
<1>3. ASSUME NEW k \in Calls, _gateway(k) \/ CallStep(k)
      PROVE  /\ UNCHANGED <<torn, running, pre_connect, leaving>> /\ revived \subseteq revived'
             /\ \A j \in Calls \ {k} : calls'[j] = calls[j]
             /\ calls'[k].conn \in Ongoing => calls'[k].on \in revived'
  <2>1. CASE _gateway(k)
    BY <2>1 DEF _gateway, InTurn, Ongoing
  <2>2. CASE ensure_connected(k)
    BY <2>2 DEF ensure_connected, At, Ends, NoCall, InTurn, Ongoing
  <2>3. CASE connect_locked(k)
    <3>1. CASE connected[calls[k].on]
      BY <2>3, <3>1 DEF connect_locked, At, InTurn, Ongoing
    <3>2. CASE ~connected[calls[k].on]
      <4>1. /\ calls' = [calls EXCEPT ![k] = [@ EXCEPT !.st = "connecting", !.conn = "begin"]]
            /\ revived' = revived \cup {calls[k].on}
            /\ UNCHANGED <<torn, running, pre_connect, leaving>>
        BY <2>3, <3>2 DEF connect_locked
      <4> QED
        BY <4>1
    <3> QED
      BY <3>1, <3>2
  <2>4. CASE connect_ended(k)
    <3>1. CASE calls[k].conn = "ok"
      <4>1. calls' = [calls EXCEPT ![k] = [@ EXCEPT !.st = "calling", !.conn = "no"]] /\ UNCHANGED <<torn, running, pre_connect, leaving, revived>>
        BY <2>4, <3>1 DEF connect_ended
      <4> QED
        BY <4>1 DEF Ongoing
    <3>2. CASE calls[k].conn # "ok"
      BY <2>4, <3>2 DEF connect_ended, Ends, NoCall, Ongoing
    <3> QED
      BY <3>1, <3>2
  <2>5. CASE call_tool(k)
    BY <2>5 DEF call_tool, Ends, NoCall, InTurn, Ongoing
  <2> QED
    BY <1>3, <2>1, <2>2, <2>3, <2>4, <2>5 DEF CallStep
<1>4. ASSUME NEW b \in Clients, Dies(b)
      PROVE  /\ UNCHANGED <<torn, revived, pre_connect, calls, leaving>>
             /\ \A d \in Clients : running'[d] > 0 => running[d] > 0
  BY <1>4 DEF Dies
<1>5. CASE \E o \in Owners : ConnectStep(o)
  BY <1>1, <1>2, <1>5 DEF Owners, Alive, Has, Ongoing, Leaves, Ending
<1>6. CASE \E k \in Calls : _gateway(k) \/ CallStep(k)
  BY <1>3, <1>6 DEF Alive, Has, Leaves, Ending
<1>7. CASE \E c \in Clients : Dies(c)
  BY <1>4, <1>7 DEF Alive, Has, Leaves, Ending
<1>8. CASE \E r \in Requests : LeaveStep(r)
  <2>1. PICK r \in Requests : LeaveStep(r)
    BY <1>8
  <2>2. /\ leaving'[r].c \in {leaving[r].c, None} /\ \A q \in Requests \ {r} : leaving'[q] = leaving[q]
        /\ \A d \in Clients : /\ running'[d] <= running[d]
                              /\ Ending(d) /\ ~Ending(d)' => d \in torn \/ running'[d] = 0
        /\ UNCHANGED <<torn, revived, calls, pre_connect>> /\ running' \in [Clients -> Nat]
    BY <2>1, LeavesStep
  <2> QED
    BY <2>2, ClientsAssumption DEF Alive, Has, Leaves
<1> QED
  BY <1>5, <1>6, <1>7, <1>8 DEF ClientsNext

\* The handlers that wait to give up a place have not learnt of a client.
LearnsNothing ==
  \A r \in Requests : requests'[r].st = "disconnecting" /\ requests'[r].c # None =>
    requests[r].st = "disconnecting" /\ requests'[r].c = requests[r].c

LEMMA PlacesKept ==
  ASSUME IInv, UNCHANGED <<clientVars, state, replaced>>, LearnsNothing PROVE Owned'
  BY DEF IInv, Owned, LearnsNothing, Alive, Has, Excepted, Leaves, Ending, clientVars

LEMMA OwnedByClients ==
  ASSUME IInv, ClientsNext PROVE Owned'
<1> USE DEF IInv, CInv, ClientTypes, ManagerTypes, Handlers
<1>1. /\ UNCHANGED <<state, requests, replaced>>
      /\ torn \subseteq torn' /\ revived \subseteq revived' /\ Excepted \subseteq Excepted'
      /\ \A c \in Clients : /\ Alive(c)' => Alive(c) \/ c \in revived'
                            /\ Has(c, Ongoing)' => Has(c, Ongoing) \/ c \in revived'
                            /\ pre_connect[c] # "new" => pre_connect'[c] # "new"
                            /\ Leaves(c)' \subseteq Leaves(c)
                            /\ Ending(c) => Ending(c)' \/ c \in torn \/ running'[c] = 0
  BY ClientsRevive DEF ClientsNext, managerVars, Excepted
<1>2. \A c \in Clients : Leaves(c)' # {} => pre_connect'[c] # "new" /\ (c \in torn' \cup revived' \/ ~Has(c, Ongoing)')
  BY <1>1 DEF Owned
<1>3. ASSUME NEW c \in Clients, Ending(c), Alive(c)', c \notin Excepted' PROVE Ending(c)'
  <2>1. Leaves(c) # {} /\ c \notin torn \cup revived
    BY <1>1, <1>3 DEF Ending, Leaves, Excepted
  <2>2. ~Has(c, Ongoing) /\ c \notin revived'
    BY <1>3, <2>1 DEF Owned, Excepted
  <2> QED
    BY <1>1, <1>3, <2>1, <2>2 DEF Alive
<1>4. \A c \in Clients : Alive(c)' => c \in Excepted' \/ Ending(c)' \/ \E p \in Projects : state'[p] = c
  BY <1>1, <1>3 DEF Owned, Excepted
<1>5. ASSUME NEW r \in Requests, NEW c \in Clients, requests'[r].st = "disconnecting", requests'[r].c = c
      PROVE  c \in Excepted' \/ ((Alive(c)' => Ending(c)') /\ pre_connect'[c] # "new")
  BY <1>1, <1>3, <1>5, ClientsAssumption DEF Owned, Excepted
<1>6. \A r \in Requests : requests'[r].c \in Clients \cup {None}
  BY <1>1
<1> QED
  BY <1>1, <1>2, <1>4, <1>5, <1>6 DEF Owned

LEMMA OwnedByStart ==
  ASSUME IInv, NEW p \in Projects, NEW c \in Unused, _start_one(p, c), LearnsNothing PROVE Owned'
<1> USE DEF IInv, CInv, ClientTypes, ManagerTypes, Handlers, _start_one, Unused
<1>1. \A q \in Projects : state'[q] # None => pre_connect'[state'[q]] # "new"
  BY DEF Owned
<1>2. \A d \in Clients : d # c => (Alive(d)' <=> Alive(d)) /\ pre_connect'[d] = pre_connect[d]
  BY DEF Alive, Has
<1>0. \A d \in Clients : Leaves(d)' = Leaves(d) /\ (Ending(d)' <=> Ending(d))
  BY DEF Leaves, Ending
<1>3. Excepted \subseteq Excepted' /\ (state[p] # None => state[p] \in Excepted')
  BY DEF Excepted
<1>4. state'[p] = c /\ \A q \in Projects \ {p} : state'[q] = state[q]
  OBVIOUS
<1>5. \A d \in Clients : Alive(d)' => d \in Excepted' \/ Ending(d)' \/ \E q \in Projects : state'[q] = d
  BY <1>0, <1>2, <1>3, <1>4, ClientsAssumption DEF Owned
<1>6. \A r \in Requests : \A d \in Clients :
        requests'[r].st = "disconnecting" /\ requests'[r].c = d => d \in Excepted' \/ ((Alive(d)' => Ending(d)') /\ pre_connect'[d] # "new")
  BY <1>0, <1>2, <1>3, ClientsAssumption DEF Owned, LearnsNothing
<1>7. \A r \in Requests : requests'[r].st = "disconnecting" /\ requests'[r].c # None => requests'[r].c \in Clients
  BY DEF LearnsNothing
<1>8. \A d \in Clients : Leaves(d)' # {} => pre_connect'[d] # "new" /\ (d \in torn' \cup revived' \/ ~Has(d, Ongoing)')
  BY <1>0, <1>2 DEF Owned, Has
<1> QED
  BY <1>1, <1>5, <1>6, <1>7, <1>8 DEF Owned

LEMMA OwnedByFailure ==
  ASSUME IInv, NEW p \in Projects, _start_failed(p), LearnsNothing PROVE Owned'
<1> USE DEF IInv, ManagerTypes, Handlers, _start_failed, clientVars
<1>1. \A d \in Clients : (Alive(d)' <=> Alive(d)) /\ pre_connect'[d] = pre_connect[d]
  BY DEF Alive, Has
<1>4. /\ \A d \in Clients : Leaves(d)' = Leaves(d) /\ (Ending(d)' <=> Ending(d)) /\ (Has(d, Ongoing)' <=> Has(d, Ongoing))
      /\ UNCHANGED <<torn, revived>>
  BY DEF Leaves, Ending, Has
<1>2. Excepted \subseteq Excepted' /\ (state[p] # None => state[p] \in Excepted')
  BY DEF Excepted
<1>3. state'[p] = None /\ \A q \in Projects \ {p} : state'[q] = state[q]
  OBVIOUS
<1> QED
  BY <1>1, <1>2, <1>3, <1>4, ClientsAssumption DEF Owned, LearnsNothing

\* What a disconnect leaves: nobody else is touched, and the client is torn or about to be ended.
LEMMA Disconnected ==
  ASSUME CInv, NEW r \in Requests, NEW c \in Clients, Disconnects(r, c), UNCHANGED replaced
  PROVE  /\ \A d \in Clients : /\ (Alive(d)' <=> Alive(d)) /\ (Has(d, Ongoing)' <=> Has(d, Ongoing))
                               /\ Ending(d) => Ending(d)'
                               /\ d # c => Leaves(d)' = Leaves(d)
         /\ Excepted \subseteq Excepted' /\ torn \subseteq torn' /\ UNCHANGED <<pre_connect, revived>>
         /\ c \in Excepted' \/ (Alive(c)' => Ending(c)')
         /\ c \in torn' \/ ~Has(c, Ongoing)'
<1>1. /\ c \in torn' \/ ((running'[c] > 0 => Ending(c)') /\ ~Has(c, Ongoing)')
      /\ torn \subseteq torn' /\ running' = running
      /\ \A q \in Requests \ {r} : leaving'[q] = leaving[q]
      /\ leaving'[r] # Remains => leaving'[r].c = c
  BY DisconnectStep
<1>2. UNCHANGED <<pre_connect, calls, revived>> /\ leaving[r] = Remains
  BY DEF Disconnects
<1>3. \A d \in Clients : Has(d, Ongoing)' <=> Has(d, Ongoing)
  BY <1>2 DEF Has
<1>4. \A d \in Clients : (Ending(d) => Ending(d)') /\ (d # c => Leaves(d)' = Leaves(d))
  BY <1>1, <1>2, ClientsAssumption DEF Ending, Leaves, Remains
<1> QED
  BY <1>1, <1>2, <1>3, <1>4 DEF Alive, Excepted

LEMMA OwnedByDisconnect ==
  ASSUME IInv, NEW r \in Requests, NEW p \in Projects, NEW c \in Clients, state[p] = c, Disconnects(r, c), UNCHANGED replaced,
         \A q \in Projects : state'[q] = state[q] \/ (q = p /\ state'[q] = None),
         \A q \in Requests : requests'[q].st = "disconnecting" /\ requests'[q].c # None =>
           \/ requests[q].st = "disconnecting" /\ requests'[q].c = requests[q].c
           \/ requests'[q].c = c
  PROVE  Owned'
<1> USE DEF IInv, ManagerTypes, Handlers
<1>1. /\ \A d \in Clients : /\ (Alive(d)' <=> Alive(d)) /\ (Has(d, Ongoing)' <=> Has(d, Ongoing))
                            /\ Ending(d) => Ending(d)'
                            /\ d # c => Leaves(d)' = Leaves(d)
      /\ Excepted \subseteq Excepted' /\ torn \subseteq torn' /\ UNCHANGED <<pre_connect, revived>>
      /\ c \in Excepted' \/ (Alive(c)' => Ending(c)')
      /\ c \in torn' \/ ~Has(c, Ongoing)'
  BY Disconnected
<1>2. pre_connect[c] # "new"
  BY ClientsAssumption DEF Owned
<1>3. \A q \in Projects : state'[q] # None => pre_connect'[state'[q]] # "new"
  BY <1>1 DEF Owned
<1>4. \A d \in Clients : Alive(d)' => d \in Excepted' \/ Ending(d)' \/ \E q \in Projects : state'[q] = d
  BY <1>1, ClientsAssumption DEF Owned
<1>5. \A d \in Clients : Leaves(d)' # {} => pre_connect'[d] # "new" /\ (d \in torn' \cup revived' \/ ~Has(d, Ongoing)')
  BY <1>1, <1>2 DEF Owned
<1>6. ASSUME NEW q \in Requests, NEW d \in Clients, requests'[q].st = "disconnecting", requests'[q].c = d
      PROVE  d \in Excepted' \/ ((Alive(d)' => Ending(d)') /\ pre_connect'[d] # "new")
  <2>1. CASE d = c
    BY <1>1, <1>2, <2>1
  <2>2. CASE requests[q].st = "disconnecting" /\ requests[q].c = d
    BY <1>1, <2>2, ClientsAssumption DEF Owned
  <2> QED
    BY <1>6, <2>1, <2>2, ClientsAssumption
<1>7. \A q \in Requests : requests'[q].st = "disconnecting" /\ requests'[q].c # None => requests'[q].c \in Clients
  OBVIOUS
<1> QED
  BY <1>3, <1>4, <1>5, <1>6, <1>7 DEF Owned

LEMMA OwnedByStop ==
  ASSUME IInv, NEW r \in Requests, NEW p \in Projects, leaving[r] = Remains, stop_plugins_for_project(r, p), LearnsNothing
  PROVE  Owned'
<1> USE DEF IInv, ManagerTypes, Handlers
<1>1. state'[p] = None /\ (\A q \in Projects \ {p} : state'[q] = state[q]) /\ UNCHANGED replaced
  BY DEF stop_plugins_for_project
<1>2. CASE state[p] = None
  <2>1. UNCHANGED clientVars
    BY <1>2, PlaceSteps, ClientsAssumption
  <2>2. UNCHANGED state
    BY <1>2 DEF stop_plugins_for_project
  <2> QED
    BY <1>1, <2>1, <2>2, PlacesKept
<1>3. CASE state[p] # None
  <2>1. PICK c \in Clients : state[p] = c /\ Disconnects(r, c)
    BY <1>3, PlaceSteps
  <2> QED
    BY <1>1, <2>1, OwnedByDisconnect DEF LearnsNothing
<1> QED
  BY <1>2, <1>3

LEMMA OwnedByDisable ==
  ASSUME IInv, NEW r \in Requests, disable_plugin(r) PROVE Owned'
<1> USE DEF IInv, ManagerTypes, Handlers
<1> DEFINE p == requests[r].p
<1>1. CASE UNCHANGED clientVars /\ Answers(r)
  <2>1. LearnsNothing /\ UNCHANGED <<state, replaced>>
    BY <1>1 DEF disable_plugin, Answers, LearnsNothing
  <2> QED
    BY <1>1, <2>1, PlacesKept
<1>2. CASE yaml[p].plugin # "none" /\ state[p] # None
  <2>1. PICK c \in Clients : state[p] = c
    BY <1>2
  <2>2. leaving[r] = Remains
    BY DEF disable_plugin, Was, Departing
  <2>3. /\ Disconnects(r, c) /\ UNCHANGED <<state, replaced>>
        /\ requests' = [requests EXCEPT ![r] = [@ EXCEPT !.st = "disconnecting", !.c = c, !.file = yaml[p]]]
    BY <1>2, <2>1, <2>2 DEF disable_plugin, Disconnects
  <2>4. requests'[r].c = c /\ \A q \in Requests \ {r} : requests'[q] = requests[q]
    BY <2>3
  <2> QED
    BY <2>1, <2>3, <2>4, OwnedByDisconnect
<1> QED
  BY <1>1, <1>2 DEF disable_plugin

LEMMA OwnedByDisabled ==
  ASSUME IInv, NEW r \in Requests, disabled(r) PROVE Owned'
<1> USE DEF IInv, ManagerTypes, Handlers
<1> DEFINE p == requests[r].p
<1>1. LearnsNothing /\ UNCHANGED clientVars
  BY DEF disabled, Answers, LearnsNothing
<1>2. CASE requests[r].c = None
  BY <1>1, <1>2, PlacesKept DEF disabled
<1>3. CASE requests[r].c # None
  <2>1. /\ requests[r].st = "disconnecting" /\ replaced \subseteq replaced'
        /\ state'[p] = None /\ \A q \in Projects \ {p} : state'[q] = state[q]
        /\ state[p] \notin {None, requests[r].c} => state[p] \in replaced'
    BY <1>3 DEF disabled
  <2>2. \A d \in Clients : (Alive(d)' <=> Alive(d)) /\ pre_connect'[d] = pre_connect[d]
    BY <1>1 DEF Alive, Has, clientVars
  <2>5. /\ \A d \in Clients : Leaves(d)' = Leaves(d) /\ (Ending(d)' <=> Ending(d)) /\ (Has(d, Ongoing)' <=> Has(d, Ongoing))
        /\ UNCHANGED <<torn, revived>>
    BY <1>1 DEF Leaves, Ending, Has, clientVars
  <2>3. Excepted \subseteq Excepted' /\ (state[p] \notin {None, requests[r].c} => state[p] \in Excepted')
    BY <1>1, <2>1 DEF Excepted, clientVars
  <2>4. requests[r].c \in Excepted \/ (Alive(requests[r].c) => Ending(requests[r].c))
    BY <1>3, <2>1 DEF Owned
  <2> QED
    BY <1>1, <2>1, <2>2, <2>3, <2>4, <2>5, ClientsAssumption DEF Owned, LearnsNothing
<1> QED
  BY <1>2, <1>3

LEMMA OwnedStep ==
  ASSUME IInv, [Next]_vars PROVE Owned'
<1> USE DEF IInv, ManagerTypes, Handlers
<1>1. CASE ProjectRequest
  <2>1. \A p \in Projects : \A mcp : start_plugins_for_project(p, mcp) /\ LearnsNothing => Owned'
    BY PlaceSteps, PlacesKept, OwnedByStart, OwnedByFailure
  <2>2. ASSUME NEW p \in Projects, Startup(p) PROVE Owned'
    BY <2>1, <2>2 DEF Startup, LearnsNothing
  <2>3. ASSUME NEW r \in Requests, archive_stops(r) PROVE Owned'
    <3>1. LearnsNothing /\ leaving[r] = Remains
      BY <2>3 DEF archive_stops, Detached, LearnsNothing, Departing
    <3> QED
      BY <2>3, <3>1, OwnedByStop DEF archive_stops
  <2>4. ASSUME NEW r \in Requests, unarchive_loads(r) PROVE Owned'
    <3>1. LearnsNothing
      BY <2>4 DEF unarchive_loads, Answers, LearnsNothing
    <3> QED
      BY <2>1, <2>4, <3>1 DEF unarchive_loads
  <2>5. ASSUME NEW r \in Requests,
               archive_project(r) \/ unarchive_project(r) \/ archive_unloads(r) \/ delete_project(r) \/ rebuild_index(r)
        PROVE  Owned'
    <3>1. LearnsNothing /\ UNCHANGED <<clientVars, state, replaced>>
      BY <2>5 DEF archive_project, unarchive_project, archive_unloads, delete_project, rebuild_index,
                  Commits, Answers, Awaits, LearnsNothing
    <3> QED
      BY <3>1, PlacesKept
  <2> QED
    BY <1>1, <2>2, <2>3, <2>4, <2>5 DEF ProjectRequest
<1>2. CASE PluginRequest
  <2>1. ASSUME NEW r \in Requests, enable_plugin(r) \/ enable_plugin_tool(r) PROVE Owned'
    <3>1. LearnsNothing
      BY <2>1 DEF enable_plugin, enable_plugin_tool, Answers, LearnsNothing
    <3> QED
      BY <2>1, <3>1, OwnedByStart, OwnedByFailure DEF enable_plugin, enable_plugin_tool
  <2>2. ASSUME NEW r \in Requests, upsert_other(r) PROVE Owned'
    <3>1. LearnsNothing
      BY <2>2 DEF upsert_other, Answers, LearnsNothing
    <3> QED
      BY <2>2, <3>1, PlacesKept DEF upsert_other
  <2> QED
    BY <1>2, <2>1, <2>2, OwnedByDisable, OwnedByDisabled DEF PluginRequest
<1>3. CASE ClientsNext
  BY <1>3, OwnedByClients
<1>4. CASE UNCHANGED vars
  BY <1>4, PlacesKept DEF vars, managerVars, LearnsNothing
<1> QED
  BY <1>1, <1>2, <1>3, <1>4 DEF Next

(***************************************************************************)
(* The theorems                                                            *)
(***************************************************************************)
LEMMA InitInv == Init => IInv
<1> SUFFICES ASSUME NEW s \in Scenarios, ClientsInit(s.calls),
                    state = [p \in Projects |-> None],
                    yaml = [p \in Projects |-> IF p \in s.configured THEN [plugin |-> "enabled", other |-> "disabled"] ELSE NoEntry],
                    requests = [r \in Requests |-> [kind |-> s.requests[r].kind, p |-> s.requests[r].p,
                                                    st |-> "new", c |-> None, file |-> NoEntry]],
                    replaced = {}
             PROVE  IInv
  BY DEF Init
<1> USE DEF ClientsInit, NoCall, NoEntry
<1>1. ClientTypes
  BY DEF ClientTypes, CallStates, Phases, Stages, Departures
<1>2. InTurn
  BY DEF InTurn
<1>3. Held
  BY ClientsAssumption DEF Held, Has, Leaves, Remains
<1>4. ManagerTypes
  BY ScenariosAssumption DEF ManagerTypes, Handlers, Entries
<1>5. Owned
  BY ClientsAssumption DEF Owned, Alive, Has, Ongoing, Leaves, Remains
<1>6. Departing
  BY DEF Departing
<1> QED
  BY <1>1, <1>2, <1>3, <1>4, <1>5, <1>6 DEF IInv, CInv

LEMMA StepInv == IInv /\ [Next]_vars => IInv'
  BY CStep, ManagerTypesStep, DepartingStep, OwnedStep DEF IInv

\* Connects of one client exclude each other: the background task comes first, the calls take turns.
LEMMA InvOneConnection == IInv => OneConnection
<1> SUFFICES ASSUME IInv, NEW c \in Clients
             PROVE  Cardinality(Connecting(c)) <= 1 /\ (c \notin torn => running[c] <= 1)
  BY DEF OneConnection
<1>1. \A o1, o2 \in Connecting(c) : o1 = o2
  <2>1. CInv
    BY DEF IInv
  <2>2. \A o \in Connecting(c) : \/ o = c /\ pre_connect[c] \in Ongoing
                                 \/ o \in Calls /\ calls[o].on = c /\ calls[o].conn # "no"
    BY CallsAreNotClients DEF Connecting, Connects, Phase, Ongoing
  <2> QED
    BY <2>1, <2>2, OneAtATime
<1>2. Connecting(c) = {} \/ \E o : Connecting(c) = {o}
  BY <1>1
<1>3. Cardinality(Connecting(c)) <= 1
  <2>1. CASE Connecting(c) = {}
    BY <2>1, FS_EmptySet
  <2>2. ASSUME NEW o, Connecting(c) = {o} PROVE Cardinality(Connecting(c)) = 1
    BY <2>2, FS_Singleton
  <2> QED
    BY <1>2, <2>1, <2>2
<1> QED
  BY <1>3 DEF IInv, CInv, Held

LEMMA InvNoOrphans == IInv => NoOrphans
  BY DEF IInv, Owned, NoOrphans, Alive, Excepted, Ending, Leaves

\* Two connects never run on one client, and a client that is left alone has one process at most,
\* for any number of clients and calls.
THEOREM OneConnectionEach == Spec => []OneConnection
  BY InitInv, StepInv, InvOneConnection, PTL DEF Spec

\* Every process that was not disconnected while it connected, connected again by a call or
\* replaced is the plugin of some project, for any number of projects and requests.
THEOREM ProcessesHaveOwners == Spec => []NoOrphans
  BY InitInv, StepInv, InvNoOrphans, PTL DEF Spec
================================================================================
