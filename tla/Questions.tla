------------------------------- MODULE Questions -------------------------------
(***************************************************************************)
(* The questions agents ask the user: a row in the database for the        *)
(* history, and the QuestionStore in RAM with an event on which the tool   *)
(* ask_user_question waits, until it is answered or the time is up.        *)
(***************************************************************************)
EXTENDS Naturals

CONSTANTS Asks, Answers, NoAnswer

VARIABLES
  rows,          \* questions in the database; an ask makes one question
  store,         \* QuestionStore._questions
  event,         \* QuestionStore._events: whether it is set
  ask,           \* where the tool is in its call
  told,          \* what the agent has been told
  posts,         \* answer -> [st, q]: POST /api/questions/{id}/answer
  filed          \* question -> the answers committed for it

questionVars == <<rows, store, event, ask, told, posts, filed>>
NoQuestion == [status |-> "none", answer |-> NoAnswer]

QuestionsInit(st) ==
  /\ rows = [q \in Asks |-> NoQuestion] /\ store = [q \in Asks |-> NoQuestion]
  /\ event = [q \in Asks |-> FALSE]
  /\ ask = [q \in Asks |-> st]
  /\ told = [q \in Asks |-> NoAnswer]
  /\ posts = [a \in Answers |-> st]
  /\ filed = [q \in Asks |-> {}]

\* QuestionService.create commits the row; it can be listed and answered from here on.
create_question(q) ==
  /\ ask[q] = "new"
  /\ rows' = [rows EXCEPT ![q].status = "pending"]
  /\ ask' = [ask EXCEPT ![q] = "refreshing"]
  /\ UNCHANGED <<store, event, told, posts, filed>>

\* ... and reads it back before the store knows it.
put(q) ==
  /\ ask[q] = "refreshing"
  /\ \E seen \in {rows[q], [NoQuestion EXCEPT !.status = "pending"]} : store' = [store EXCEPT ![q] = seen]
  /\ event' = [event EXCEPT ![q] = FALSE]
  /\ ask' = [ask EXCEPT ![q] = "waiting"]
  /\ UNCHANGED <<rows, told, posts, filed>>

ask_answered(q) ==
  /\ ask[q] = "waiting" /\ event[q]
  /\ told' = [told EXCEPT ![q] = store[q].answer]
  /\ ask' = [ask EXCEPT ![q] = "answered"]
  /\ UNCHANGED <<rows, store, event, posts, filed>>

\* The time is up; the event is not looked at again.
ask_timeout(q) ==
  /\ ask[q] = "waiting" /\ ~event[q]
  /\ ask' = [ask EXCEPT ![q] = "timing out"]
  /\ UNCHANGED <<rows, store, event, told, posts, filed>>

timeout_commit(q) ==
  /\ ask[q] = "timing out"
  /\ rows' = [rows EXCEPT ![q].status = "timed_out"]
  /\ ask' = [ask EXCEPT ![q] = "committed"]
  /\ UNCHANGED <<store, event, told, posts, filed>>

\* Mutant: only the history has the time-out.
store_timeout_forgotten(q) == store

store_timeout(q) == [store EXCEPT ![q].status = "timed_out"]

timeout(q) ==
  /\ ask[q] = "committed"
  /\ store' = store_timeout(q)
  /\ event' = [event EXCEPT ![q] = TRUE]
  /\ ask' = [ask EXCEPT ![q] = "timed out"]
  /\ UNCHANGED <<rows, told, posts, filed>>

\* The call ends at one of its awaits: it is cancelled, which the tool does not catch, or a
\* commit fails, that of the time-out included.  The store is told nothing.
ask_broken(q) ==
  /\ ask[q] \in {"refreshing", "waiting", "timing out", "committed"}
  /\ ask' = [ask EXCEPT ![q] = "broken"]
  /\ UNCHANGED <<rows, store, event, told, posts, filed>>

\* An answer is taken whatever the status of the question.
answer_question(a, q) ==
  /\ posts[a] = "new" /\ rows[q].status # "none"
  /\ rows' = [rows EXCEPT ![q] = [status |-> "answered", answer |-> a]]
  /\ filed' = [filed EXCEPT ![q] = @ \cup {a}]
  /\ posts' = [posts EXCEPT ![a] = q]
  /\ UNCHANGED <<store, event, ask, told>>

\* QuestionStore.answer: nothing happens to a question the store does not have.
store_answer(a, q) ==
  IF store[q].status = "none" THEN UNCHANGED <<store, event>>
  ELSE /\ store' = [store EXCEPT ![q] = [status |-> "answered", answer |-> a]]
       /\ event' = [event EXCEPT ![q] = TRUE]

answered(a) ==
  /\ posts[a] \in Asks
  /\ store_answer(a, posts[a])
  /\ posts' = [posts EXCEPT ![a] = "done"]
  /\ UNCHANGED <<rows, ask, told, filed>>

\* The server stops: the store and every call are lost.
QuestionsRestart ==
  /\ store' = [q \in Asks |-> NoQuestion]
  /\ event' = [q \in Asks |-> FALSE]
  /\ ask' = [q \in Asks |-> IF ask[q] = "new" THEN "new" ELSE "lost"]
  /\ posts' = [a \in Answers |-> IF posts[a] \in Asks THEN "done" ELSE posts[a]]
  /\ UNCHANGED <<rows, told, filed>>

QuestionsNext ==
  \/ \E q \in Asks :
       \/ create_question(q) \/ put(q) \/ ask_answered(q)
       \/ ask_timeout(q) \/ timeout_commit(q) \/ timeout(q) \/ ask_broken(q)
  \/ \E a \in Answers : answered(a) \/ \E q \in Asks : answer_question(a, q)
  \/ QuestionsRestart
=================================================================================
