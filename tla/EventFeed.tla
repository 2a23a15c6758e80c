------------------------------- MODULE EventFeed -------------------------------
(***************************************************************************)
(* A page of the frontend: its connection to /api/events/ws                *)
(* (frontend/src/shared/context/event-context.tsx), what it shows of the   *)
(* events and how they make it read again what it has cached.  A socket is *)
(* one of the Browsers of Notifications, which send it the events.         *)
(*                                                                         *)
(* The page shows one query; how long it waits before it connects again    *)
(* (backoff), the pings and the sounds are left out.                       *)
(***************************************************************************)
EXTENDS Notifications, QueryKeys

CONSTANT NoSocket

ASSUME NoSocketAssumption == NoSocket \notin Browsers

VARIABLES
  cleanedUp,   \* cleanedUpRef: no effect of the provider is in force
  wsRef,
  readyState,  \* socket -> WebSocket.readyState, "none" before it is made; bound: some are "never"
  read,        \* socket -> messages handled
  timers,      \* timeouts that will connect again, by the socket whose close set them
  timerRef,    \* reconnectTimeoutRef
  notice,      \* what the changes of the behaviour are about
  due,         \* bound: changes that may still be made
  made,        \* changes the server has made
  requests,    \* mutations of the page that have not been answered
  query,       \* the query that is shown
  data,        \* what the cache has of it: the changes it includes, stale, loaded
  fetch,       \* the request under way: where it is, the changes it includes
  \* history
  noticed,     \* changes the page has been told of
  early,       \* ... while the first answer to the query was awaited
  toasts,      \* event -> how often it has been shown
  twin,        \* the provider has been mounted while an older socket was connecting or closing
  mounts       \* bound: times it may still be mounted

feedVars == <<cleanedUp, wsRef, readyState, read, timers, timerRef, notice, due, made, requests, query, data, fetch,
              noticed, early, toasts, twin, mounts>>
cacheVars == <<query, notice, data, fetch, noticed, early>>
serverVars == <<settings, conf, change, clients, heard, logged, sends, moved, followed>>
socketVars == <<cleanedUp, wsRef, readyState, read, timers, timerRef, toasts, twin, mounts>>
changeVars == <<due, made, requests>>

(***************************************************************************)
(* What the server announces                                               *)
(***************************************************************************)
\* The keys one message invalidates: those of its type, then those of its issue or project.
ForIssue == {issueKeys.detail, issueKeys.all}
ForProject == {projectKeys.detail}
QueueNews == Named(queueKeys, {"queued", "running", "status"}) \cup {<<"queue", "position">>}
TerminalNews == {terminalKeys.all, queueKeys.running, queueKeys.status}
MemoryNews == {memoryKeys.all, memoryKeys.detail} \cup ForProject

ShownByRun == Named(pipelineRunKeys, {"byIssue", "detail", "active"})
ShownByQueue == Named(queueKeys, DOMAIN queueKeys)
ShownByMemory == Named(memoryKeys, {"list", "search", "detail"})

StepEvents ==
  {Notice(n, ShownByRun, {pipelineRunKeys.all} \cup ForIssue) :
     n \in {"agent_step_started", "agent_step_completed", "agent_step_failed", "pipeline_completed"}}

\* These have no project, or are of no type the page knows.
RunEvents ==
  {Notice(n, ShownByRun, {}) : n \in {"pipeline_step_advanced", "pipeline_paused", "pipeline_resumed"}}
  \cup {Notice("pipeline_step_rejected", ShownByRun, ForIssue)}

QueueEvents ==
  {Notice(n, ShownByQueue, QueueNews \cup ForIssue) : n \in {"queue_entry_created", "queue_entry_removed"}}

TerminalEvents ==
  {Notice("terminal_created", {terminalKeys.issue, terminalKeys.count}, TerminalNews \cup ForIssue)}

IssueEvents ==
  {Notice(n, {issueKeys.list, issueKeys.detail}, ForIssue) : n \in {"issue_status_changed", "issue_content_updated"}}
  \cup {Notice("issue_finished", {issueKeys.list, issueKeys.detail}, {queueKeys.queued, queueKeys.status} \cup ForIssue),
        Notice("task_updated", {issueKeys.detail}, ForIssue)}

\* A link is told with from_id and to_id, not with the memory_id a detail is known by.
MemoryEvents ==
  {Notice(n, ShownByMemory, MemoryNews) : n \in {"memory_created", "memory_updated", "memory_deleted"}}
  \cup {Notice(n, {memoryKeys.detail}, {memoryKeys.all} \cup ForProject) : n \in {"memory_linked", "memory_unlinked"}}

QuestionEvents ==
  {Notice(n, Named(questionKeys, {"issue", "pending", "count"}), {questionKeys.all} \cup ForIssue) :
     n \in {"question_asked", "question_answered"}}

ProjectEvents == {Notice("project_updated", {projectKeys.list, projectKeys.detail}, ForProject)}

Announcements ==
  UNION {StepEvents, RunEvents, QueueEvents, TerminalEvents, IssueEvents, MemoryEvents, QuestionEvents, ProjectEvents}

\* buildToastContent: of these the user sees nothing.
Silent ==
  {"task_updated", "agent_step_started", "agent_step_completed", "project_updated", "memory_created",
   "memory_updated", "memory_deleted", "memory_linked", "memory_unlinked", "question_asked", "question_answered"}

(***************************************************************************)
(* The query cache (TanStack Query)                                        *)
(***************************************************************************)
NoQuery == <<>>  \* nothing is shown
Idle == [at |-> "idle", has |-> {}]
Sent == [at |-> "sent", has |-> {}]
NoData == [has |-> {}, stale |-> TRUE, loaded |-> FALSE]

\* page.lost is NoSocket, or a connection that has just been lost.
FeedInit(notices, news, page) ==
  /\ cleanedUp = (page.lost = NoSocket) /\ wsRef = page.lost
  /\ readyState = [w \in Browsers |-> IF w = page.lost THEN "closed" ELSE IF w \in page.feeds THEN "none" ELSE "never"]
  /\ read = [w \in Browsers |-> 0]
  /\ timers = {page.lost} \ {NoSocket} /\ timerRef = page.lost
  /\ notice \in notices /\ query \in IF page.shown THEN notice.shows ELSE {NoQuery}
  /\ due = news /\ made = {} /\ requests = {}
  /\ data = NoData /\ fetch = Idle
  /\ noticed = {} /\ early = {} /\ toasts = [e \in Events |-> 0]
  /\ twin = FALSE /\ mounts = page.mounts

\* The query is shown, polled, or the window gets the focus: one request at a time.
refetch ==
  /\ query # NoQuery /\ fetch = Idle /\ fetch' = Sent
  /\ UNCHANGED <<query, notice, data, noticed, early>>

served ==
  /\ fetch.at = "sent" /\ fetch' = [at |-> "served", has |-> made]
  /\ UNCHANGED <<query, notice, data, noticed, early>>

answered_fetch ==
  /\ fetch.at = "served" /\ fetch' = Idle
  /\ data' = [has |-> fetch.has, stale |-> FALSE, loaded |-> TRUE]
  /\ UNCHANGED <<query, notice, noticed, early>>

failed_fetch ==
  /\ fetch # Idle /\ fetch' = Idle
  /\ UNCHANGED <<query, notice, data, noticed, early>>

\* Mutant: a request that is under way is left to end.
restarted_joins == IF fetch = Idle THEN Sent ELSE fetch

\* A request under way is given up and made again, but for the first.
restarted == IF fetch = Idle \/ data.loaded THEN Sent ELSE fetch

\* invalidateQueries for the keys of a notice.
invalidateQueries(e) ==
  /\ noticed' = noticed \cup {e}
  /\ IF Covers(notice.keys, query)
     THEN /\ data' = [data EXCEPT !.stale = TRUE]
          /\ fetch' = restarted
          /\ early' = IF ~data.loaded /\ fetch # Idle THEN early \cup {e} ELSE early
     ELSE UNCHANGED <<data, fetch, early>>
  /\ UNCHANGED <<query, notice>>

(***************************************************************************)
(* Changes: the server's, which are announced, and the page's own          *)
(***************************************************************************)
server_change(e) ==
  /\ e \in due /\ notice \in Announcements
  /\ due' = due \ {e} /\ made' = made \cup {e}
  /\ emit' = [emit EXCEPT ![e] = NoEmit]
  /\ UNCHANGED <<serverVars, online, socketVars, requests, cacheVars>>

mutate(e) ==
  /\ e \in due /\ notice \in Mutations
  /\ due' = due \ {e} /\ requests' = requests \cup {e}
  /\ UNCHANGED <<serverVars, online, emit, socketVars, made, cacheVars>>

mutation_made(e) ==
  /\ e \in requests \ made /\ made' = made \cup {e}
  /\ UNCHANGED <<serverVars, online, emit, socketVars, due, requests, cacheVars>>

onSuccess(e) ==
  /\ e \in requests \cap made /\ requests' = requests \ {e}
  /\ invalidateQueries(e)
  /\ UNCHANGED <<serverVars, online, emit, socketVars, due, made>>

\* Refused, or done and the answer lost: nothing is read again.
onError(e) ==
  /\ e \in requests /\ requests' = requests \ {e}
  /\ UNCHANGED <<serverVars, online, emit, socketVars, due, made, cacheVars>>

(***************************************************************************)
(* The connection                                                          *)
(***************************************************************************)
connect(w) ==
  /\ readyState[w] = "none"
  /\ readyState' = [readyState EXCEPT ![w] = "connecting"]
  /\ wsRef' = w
  /\ online' = online \cup {w}

\* The effect of the provider; it connects whatever has become of older sockets.
mount ==
  /\ cleanedUp /\ mounts > 0
  /\ cleanedUp' = FALSE /\ mounts' = mounts - 1
  /\ twin' = (twin \/ \E w \in Browsers : readyState[w] \in {"connecting", "closing"})
  /\ \E w \in Browsers : connect(w)
  /\ UNCHANGED <<serverVars, emit, read, timers, timerRef, toasts, changeVars, cacheVars>>

\* Mutant: the timeout goes on.
timers_left == timers

timers_cleared == timers \ {timerRef}

\* Its cleanup: a socket that is connecting goes on, its close comes later.
unmount ==
  /\ ~cleanedUp /\ cleanedUp' = TRUE
  /\ timers' = timers_cleared
  /\ readyState' = [w \in Browsers |-> IF w = wsRef /\ readyState[w] = "open" THEN "closing" ELSE readyState[w]]
  /\ wsRef' = NoSocket
  /\ UNCHANGED <<serverVars, online, emit, read, timerRef, toasts, twin, mounts, changeVars, cacheVars>>

\* The server has accepted the socket.
onopen(w) ==
  /\ readyState[w] = "connecting" /\ w \notin online
  /\ readyState' = [readyState EXCEPT ![w] = IF cleanedUp THEN "closing" ELSE "open"]
  /\ UNCHANGED <<serverVars, online, emit, cleanedUp, wsRef, read, timers, timerRef, toasts, twin, mounts,
                 changeVars, cacheVars>>

showToast(e) == toasts' = IF notice.name \in Silent THEN toasts ELSE [toasts EXCEPT ![e] = @ + 1]

onmessage(w) ==
  /\ readyState[w] = "open" /\ read[w] < Len(heard[w])
  /\ read' = [read EXCEPT ![w] = @ + 1]
  /\ LET e == heard[w][read[w] + 1] IN
     IF cleanedUp THEN UNCHANGED <<toasts, cacheVars>> ELSE showToast(e) /\ invalidateQueries(e)
  /\ UNCHANGED <<serverVars, online, emit, cleanedUp, wsRef, readyState, timers, timerRef, twin, mounts,
                 changeVars>>

Reconnects(w) == timers' = timers \cup {w} /\ timerRef' = w

\* The server is away, the network fails (onerror closes), or the close asked for has ended.
onclose(w) ==
  /\ readyState[w] \in {"connecting", "open", "closing"}
  /\ readyState' = [readyState EXCEPT ![w] = "closed"]
  /\ online' = online \ {w}
  /\ IF cleanedUp THEN UNCHANGED <<timers, timerRef>> ELSE Reconnects(w)
  /\ UNCHANGED <<serverVars, emit, cleanedUp, wsRef, read, toasts, twin, mounts, changeVars, cacheVars>>

reconnect(t) ==
  /\ t \in timers /\ timers' = timers \ {t}
  /\ IF cleanedUp THEN UNCHANGED <<readyState, wsRef, online>> ELSE \E w \in Browsers : connect(w)
  /\ UNCHANGED <<serverVars, emit, cleanedUp, read, timerRef, toasts, twin, mounts, changeVars, cacheVars>>

CacheNext ==
  /\ refetch \/ served \/ answered_fetch \/ failed_fetch
  /\ UNCHANGED <<noteVars, socketVars, changeVars>>

FeedNext ==
  \/ mount \/ unmount \/ CacheNext
  \/ \E w \in Browsers : onopen(w) \/ onmessage(w) \/ onclose(w) \/ reconnect(w)
  \/ \E e \in Events : server_change(e) \/ mutate(e) \/ mutation_made(e) \/ onSuccess(e) \/ onError(e)
=================================================================================
