------------------------------- MODULE AgentDesk -------------------------------
(***************************************************************************)
(* What a user and the agents see of each other: the terminals the agents  *)
(* run in, the questions they ask and the events a user is told.  A        *)
(* behaviour is about one scenario: the requests that are made, the        *)
(* connections, whether questions are asked, what is announced.            *)
(***************************************************************************)
EXTENDS Terminals, Questions, EventFeed

CONSTANT Scenarios

\* What the API takes; an event is announced once; a socket of the page is not connected before
\* the page has made it; where the page shows a query, what the server tells is its changes.
ASSUME ScenariosAssumption ==
  \A s \in Scenarios :
    /\ s.calls \in [Callers -> {"none", "issue", "ask", "manage", "hermes", "log", "step", "delete", "delete_project"}]
    /\ s.questions \in {"new", "done"}
    /\ s.token \in {"", "old"}
    /\ s.news \cap s.changes = {} /\ (s.page.shown => s.news \cap Events = {})
    /\ s.browsers \subseteq Browsers \ s.page.feeds
    /\ s.page.mounts \in Nat
    /\ s.notices \subseteq Announcements \cup Mutations \cup {Notice("none", {}, {})}

vars == <<termVars, questionVars, noteVars, feedVars>>

Init ==
  \E s \in Scenarios :
    /\ TerminalsInit(s.calls, s.sockets) /\ QuestionsInit(s.questions)
    /\ NotificationsInit(s.news, s.browsers, s.token)
    /\ FeedInit(s.notices, s.changes, s.page)

Next ==
  \/ TerminalsNext /\ UNCHANGED <<questionVars, noteVars, feedVars>>
  \/ QuestionsNext /\ UNCHANGED <<termVars, noteVars, feedVars>>
  \/ NotificationsNext /\ UNCHANGED <<termVars, questionVars, feedVars>>
  \/ FeedNext /\ UNCHANGED <<termVars, questionVars>>

Spec == Init /\ [][Next]_vars

\* The event loop runs the readers; a message to a client is delivered or its connection fails.
LiveSpec ==
  /\ Spec
  /\ \A o \in Objects :
       WF_vars((reader_eof(o) \/ \E ok \in BOOLEAN : reader_sent(o, ok))
               /\ UNCHANGED <<callVars, questionVars, noteVars, feedVars>>)

(***************************************************************************)
(* Properties                                                              *)
(***************************************************************************)
\* All that was read from a terminal can be read again up to the size of the buffer, while it
\* is open and after it has ended, but for those killed with their project and those that got
\* a second session or a session while they were taken down.
OutputKept ==
  \A t \in Terms \ (wiped \cup overlapped) : get_terminal_recording(t) = Kept(output[t])

\* An issue has one terminal by request and a project one terminal to ask in, unless two
\* requests overlapped between the look at the others and the creation.
OnePerPlace ==
  \A k \in {"issue", "ask", "manage"} \ crossed : Cardinality({t \in Terms : terminals[t] = k}) <= 1

\* The pipeline hears of the end of the process it waits for, whoever joins, leaves or replaces
\* whom on the terminal, unless somebody takes the terminal down.
ExitIsNoticed ==
  \A t \in Terms : (t \in waiting /\ process[t] = "exited") ~> (t \notin waiting \/ t \in cut)

\* The list of the pending questions has only questions an agent waits for, or whose call was
\* cancelled or failed (nothing takes these from the store before an answer or a restart); and it
\* has the question of every agent that waits, unless it was answered before the store knew it.
\* So an agent that was answered or told of its time-out, or that a restart has cut off, leaves
\* no question behind.
PendingIsAwaited ==
  \A q \in Asks :
    /\ store[q].status = "pending" => ask[q] \in {"waiting", "timing out", "committed", "broken"}
    /\ ask[q] = "waiting" /\ ~event[q] /\ filed[q] = {} => store[q].status = "pending"

\* Every event is announced once: in the log or, where Telegram is configured, by at most
\* two calls, the second only after one without an answer, unless the configuration changes
\* while listeners are served.
HeardOnce ==
  \A e \in Events \ moved : emit[e].at = "done" =>
    LET n == Len(sends[e]) IN
    /\ e \in logged <=> n = 0
    /\ n <= 2 /\ \A k \in 1..n - 1 : sends[e][k] \in Retriable
    /\ n = 1 => sends[e][1] \notin Retriable

\* Every browser that is connected when an event is emitted is sent it once, unless its own
\* connection fails or closes, whatever becomes of the others.
ClientsHear ==
  \A e \in Events : emit[e].at \notin {"idle", "never", "browsers"} =>
    \A w \in emit[e].all \ emit[e].lost : Cardinality({n \in DOMAIN heard[w] : heard[w][n] = e}) = 1

\* TelegramService uses what the settings say once a request to change one has been answered,
\* unless two overlapped or the last change was a reset or by the tool, which do not tell it.
ConfigFollows == followed => \A k \in Keys : settings[k] \in {"", conf[k]}

\* The changes no key of the notice reaches, though a query shows them.
Unheeded ==
  [name : {n.name : n \in RunEvents}, q : ShownByRun]
  \cup [name : {"memory_linked", "memory_unlinked"}, q : {memoryKeys.detail}]
  \cup [name : {"project_updated"}, q : {projectKeys.list}]
  \cup [name : {n.name : n \in RelationMutations}, q : {relationKeys.other, relationKeys.blocked}]
  \cup [name : {n.name : n \in ProjectMutations}, q : {projectKeys.dashboard}]

\* Once the page has been told of a change, by an event or by the answer to its own request,
\* what it shows includes the change or is marked to be read again, whatever request was under
\* way, unless that was the first one for the query.
ShownIsCurrent ==
  [name |-> notice.name, q |-> query] \notin Unheeded =>
    \A e \in noticed \ early : e \in data.has \/ data.stale

\* An event is shown once, however often the connection is lost and the page is left and
\* entered, unless it is entered while an older socket of its is connecting or closing.
ShownOnce == ~twin => \A e \in Events : toasts[e] <= 1
=================================================================================
