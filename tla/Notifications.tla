----------------------------- MODULE Notifications -----------------------------
(***************************************************************************)
(* How an event reaches the browsers, the notification log and Telegram:   *)
(* EventService and its notifiers, TelegramService and its retry, and the  *)
(* settings it is configured from (backend/app/services/).                 *)
(*                                                                         *)
(* emit awaits the notifiers one after the other; several emits and        *)
(* several requests about settings are under way at a time.                *)
(***************************************************************************)
EXTENDS Naturals, Sequences, FiniteSets

CONSTANTS
  Events,      \* events of interest: a finished issue, a question
  Browsers,    \* web sockets of /api/events/ws
  Changes         \* requests about settings

VARIABLES
  settings,    \* rows of the settings table, or the defaults
  conf,        \* TelegramService: _token, _default_chat_id, _notifications_enabled
  change,      \* where a request about settings is
  online,      \* bound: browsers that have not connected yet; one that returns is another
  clients,     \* WebSocketNotifier._clients
  emit,        \* event -> the emit of it
  heard,       \* browser -> events it has been sent
  logged,      \* events in notifications.log
  sends,       \* event -> what became of the calls to Telegram
  \* history
  moved,       \* events whose emit has seen a change of conf
  followed     \* conf is what a PUT left that no other change of the settings met

noteVars == <<settings, conf, change, online, clients, emit, heard, logged, sends, moved, followed>>

Keys == {"bot_token", "chat_id", "enabled"}
Values(k) == IF k = "enabled" THEN {"true", "false"} ELSE {"", "new"}
_DEFAULTS == [bot_token |-> "", chat_id |-> "", enabled |-> "false"]
ReadOrder == <<"bot_token", "chat_id", "enabled">>
_MAX_RETRIES == 1

NoChange == [at |-> "idle", key |-> "", got |-> _DEFAULTS, n |-> 0, alone |-> FALSE]
Over == [NoChange EXCEPT !.at = "over"]
NoEmit == [at |-> "idle", todo |-> {}, all |-> {}, lost |-> {}, tries |-> 0]

\* The environment's token and chat, or what startup read from the table.
NotificationsInit(asked, present, token) ==
  /\ settings = _DEFAULTS
  /\ conf = [bot_token |-> token, chat_id |-> "old", enabled |-> IF token = "" THEN "false" ELSE "true"]
  /\ change = [r \in Changes |-> IF r \in asked THEN NoChange ELSE Over]
  /\ online = present
  /\ clients = {}
  /\ emit = [e \in Events |-> IF e \in asked THEN NoEmit ELSE [NoEmit EXCEPT !.at = "never"]]
  /\ heard = [w \in Browsers |-> <<>>]
  /\ logged = {} /\ sends = [e \in Events |-> <<>>]
  /\ moved = {} /\ followed = FALSE

is_configured == conf.bot_token # "" /\ conf.chat_id # "" /\ conf.enabled = "true"

(***************************************************************************)
(* Settings                                                                *)
(***************************************************************************)
\* SettingsService.set and a commit: what the requests under way have read may be old now.
Commits(new) ==
  /\ settings' = new /\ followed' = FALSE

Met(r) == [q \in Changes |-> [change[q] EXCEPT !.alone = @ /\ q = r]]

update_setting(r, k, v) ==
  /\ change[r].at = "idle"
  /\ Commits([settings EXCEPT ![k] = v])
  /\ change' = [Met(r) EXCEPT ![r] = [NoChange EXCEPT !.at = "reading", !.key = k, !.n = 1,
               !.got = [_DEFAULTS EXCEPT ![k] = v],
               !.alone = \A q \in Changes : change[q].at # "reading"]]
  /\ UNCHANGED <<conf, clients, emit, heard, logged, sends, moved, online>>

\* The tool update_setting and every reset: TelegramService is not told.
set_untold(r, k, v) ==
  /\ change[r].at = "idle"
  /\ Commits([settings EXCEPT ![k] = v])
  /\ change' = [Met(r) EXCEPT ![r] = Over]
  /\ UNCHANGED <<conf, clients, emit, heard, logged, sends, moved, online>>

reset(r, k) == set_untold(r, k, _DEFAULTS[k])

reset_all(r) ==
  /\ change[r].at = "idle"
  /\ Commits(_DEFAULTS)
  /\ change' = [Met(r) EXCEPT ![r] = Over]
  /\ UNCHANGED <<conf, clients, emit, heard, logged, sends, moved, online>>

\* The session has the row of its own key; the others are read one by one.
Got(r) ==
  LET k == ReadOrder[change[r].n]
  IN  [change[r].got EXCEPT ![k] = IF k = change[r].key THEN @ ELSE settings[k]]

_reconfigure_telegram(r) ==
  /\ change[r].at = "reading" /\ change[r].n < Len(ReadOrder)
  /\ change' = [change EXCEPT ![r].got = Got(r), ![r].n = @ + 1]
  /\ UNCHANGED <<settings, conf, clients, emit, heard, logged, sends, moved, followed, online>>

\* Mutant: a switch that is off counts as not set, as an empty text does.
configure_on_only(v) ==
  [bot_token |-> IF v.bot_token # "" THEN v.bot_token ELSE conf.bot_token,
   chat_id   |-> IF v.chat_id # "" THEN v.chat_id ELSE conf.chat_id,
   enabled   |-> IF v.enabled = "true" THEN v.enabled ELSE conf.enabled]

\* An empty token or chat leaves the one in use.
configure(v) ==
  [bot_token |-> IF v.bot_token # "" THEN v.bot_token ELSE conf.bot_token,
   chat_id   |-> IF v.chat_id # "" THEN v.chat_id ELSE conf.chat_id,
   enabled   |-> v.enabled]

configured(r) ==
  /\ change[r].at = "reading" /\ change[r].n = Len(ReadOrder)
  /\ conf' = configure(Got(r))
  /\ followed' = change[r].alone
  /\ moved' = moved \cup {e \in Events : emit[e].at \notin {"idle", "done", "never"}}
  /\ change' = [change EXCEPT ![r] = Over]
  /\ UNCHANGED <<settings, clients, emit, heard, logged, sends, online>>

(***************************************************************************)
(* Browsers                                                                *)
(***************************************************************************)
Leaves(e, W) == [emit[e] EXCEPT !.lost = @ \cup (W \cap emit[e].all)]

events_ws(w) ==
  /\ w \in online /\ online' = online \ {w}
  /\ clients' = clients \cup {w}
  /\ UNCHANGED <<settings, conf, change, emit, heard, logged, sends, moved, followed>>

\* The client closes, or a keepalive cannot be sent.
events_ws_ends(w) ==
  /\ w \in clients /\ clients' = clients \ {w}
  /\ emit' = [e \in Events |-> Leaves(e, {w})]
  /\ UNCHANGED <<settings, conf, change, heard, logged, sends, moved, followed, online>>

(***************************************************************************)
(* One emit                                                                *)
(***************************************************************************)
Moves(e, x) == emit' = [emit EXCEPT ![e] = x]

\* The clients of this moment, whoever joins or leaves while they are served.
emits(e) ==
  /\ emit[e].at = "idle"
  /\ Moves(e, [NoEmit EXCEPT !.at = "browsers", !.todo = clients, !.all = clients])
  /\ UNCHANGED <<settings, conf, change, clients, heard, logged, sends, moved, followed, online>>

\* Mutant: the first that cannot be reached ends the round.
send_text_stops(e, w, ok) ==
  /\ emit[e].at = "browsers" /\ w \in emit[e].todo
  /\ heard' = IF ok THEN [heard EXCEPT ![w] = Append(@, e)] ELSE heard
  /\ Moves(e, [emit[e] EXCEPT !.todo = IF ok THEN @ \ {w} ELSE {},
                              !.lost = IF ok THEN @ ELSE @ \cup {w}])
  /\ UNCHANGED <<settings, conf, change, clients, logged, sends, moved, followed, online>>

send_text(e, w, ok) ==
  /\ emit[e].at = "browsers" /\ w \in emit[e].todo
  /\ heard' = IF ok THEN [heard EXCEPT ![w] = Append(@, e)] ELSE heard
  /\ Moves(e, [emit[e] EXCEPT !.todo = @ \ {w}, !.lost = IF ok THEN @ ELSE @ \cup {w}])
  /\ UNCHANGED <<settings, conf, change, clients, logged, sends, moved, followed, online>>

\* Mutant: the log is kept beside Telegram too.
_handle_event_always(e) == logged' = logged \cup {e}

\* NotificationService._handle_event: what Telegram will be sent is not logged.
_handle_event(e) == logged' = IF is_configured THEN logged ELSE logged \cup {e}

\* The dead are dropped; the log is written without an await; then the queue's listener.
sent_and_logged(e) ==
  /\ emit[e].at = "browsers" /\ emit[e].todo = {}
  /\ clients' = clients \ emit[e].lost
  /\ _handle_event(e)
  /\ Moves(e, [emit[e] EXCEPT !.at = "queue"])
  /\ UNCHANGED <<settings, conf, change, heard, sends, moved, followed, online>>

\* TelegramNotifier.notify and send_message look at the configuration without an await.
telegram_notify(e) ==
  /\ emit[e].at = "queue"
  /\ Moves(e, [emit[e] EXCEPT !.at = IF is_configured THEN "pacing" ELSE "done"])
  /\ UNCHANGED <<settings, conf, change, clients, heard, logged, sends, moved, followed, online>>

\* _enforce_rate_limit may sleep; the token is the one in use when it is over.
_do_send(e) ==
  /\ emit[e].at = "pacing"
  /\ Moves(e, [emit[e] EXCEPT !.at = "posting", !.tries = @ + 1])
  /\ UNCHANGED <<settings, conf, change, clients, heard, logged, sends, moved, followed, online>>

\* refused: ok = false or a 4xx; failed: a 5xx or a network error.
Outcomes == {"sent", "refused", "failed", "time-out"}
Retriable == {"failed", "time-out"}

After(o, n) == IF o \in Retriable /\ n <= _MAX_RETRIES THEN "pacing" ELSE "done"

\* A time-out says nothing about the message, which may have arrived.
_send_with_retry(e, o) ==
  /\ emit[e].at = "posting"
  /\ sends' = [sends EXCEPT ![e] = Append(@, o)]
  /\ Moves(e, [emit[e] EXCEPT !.at = After(o, emit[e].tries)])
  /\ UNCHANGED <<settings, conf, change, clients, heard, logged, moved, followed, online>>

SettingsNext(r) ==
  \/ \E k \in Keys : \E v \in Values(k) : set_untold(r, k, v) \/ update_setting(r, k, v)
  \/ \E k \in Keys : reset(r, k)
  \/ reset_all(r)
  \/ _reconfigure_telegram(r)
  \/ configured(r)

EmitNext(e) ==
  \/ emits(e) \/ sent_and_logged(e) \/ telegram_notify(e) \/ _do_send(e)
  \/ \E w \in Browsers, ok \in BOOLEAN : send_text(e, w, ok)
  \/ \E o \in Outcomes : _send_with_retry(e, o)

NotificationsNext ==
  \/ \E r \in Changes : SettingsNext(r)
  \/ \E w \in Browsers : events_ws(w) \/ events_ws_ends(w)
  \/ \E e \in Events : EmitNext(e)
=================================================================================
