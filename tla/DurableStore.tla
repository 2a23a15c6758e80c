----------------------------- MODULE DurableStore -----------------------------
(***************************************************************************)
(* What the write-behind storage promises: a store whose requests are      *)
(* answered from a view in memory.  A request that succeeds changes the    *)
(* content at once; writing behind, restarting and reloading do not change *)
(* it, and a record with no write outstanding is never read back as        *)
(* something else.  The content of a record is lost only when its write is *)
(* given up.  The loss is then due to be told, and stays so until it is    *)
(* told or the process ends: of a loss the end of the process cuts off     *)
(* nobody hears.                                                           *)
(***************************************************************************)
CONSTANTS
  Keys,      \* record ids
  Contents,  \* what a record may contain
  None       \* no record

VARIABLES
  content,  \* key -> what the last request that succeeded left, or None
  view,     \* key -> what requests are answered from, or None
  pending,  \* the keys whose last request is not yet written
  due       \* the keys of which a loss is still to be told

vars == <<content, view, pending, due>>

Optional == Contents \cup {None}

Init ==
  /\ content = [k \in Keys |-> None]
  /\ view = [k \in Keys |-> None]
  /\ pending = {}
  /\ due = {}

\* A request succeeds: it writes or, with None, removes record k.
Put(k, c) ==
  /\ content' = [content EXCEPT ![k] = c]
  /\ view' = [view EXCEPT ![k] = c]
  /\ pending' = pending \cup {k}
  /\ UNCHANGED due

\* A request fails half-way: the view has its effect, the content has not.
Refuse(k, c) ==
  /\ view' = [view EXCEPT ![k] = c]
  /\ UNCHANGED <<content, pending, due>>

\* The view is forgotten or read again.  Only a record with an outstanding write
\* may be shown otherwise than it is.
Show ==
  /\ view' \in [Keys -> Optional]
  /\ \A k \in Keys \ pending : view'[k] \in {view[k], content[k], None}
  /\ UNCHANGED <<content, pending, due>>

\* The write of k is done.
Flush(k) ==
  /\ pending' = pending \ {k}
  /\ UNCHANGED <<content, view, due>>

\* The write of k is given up.
Lose(k) ==
  /\ k \in pending
  /\ pending' = pending \ {k}
  /\ due' = due \cup {k}
  /\ \E c \in Optional : content' = [content EXCEPT ![k] = c]
  /\ UNCHANGED view

\* The loss of k is told.
Tell(k) ==
  /\ due' = due \ {k}
  /\ UNCHANGED <<content, view, pending>>

\* The process ends: nothing is shown, and what was still to be told is not.
End ==
  /\ view' = [k \in Keys |-> None]
  /\ due' = {}
  /\ UNCHANGED <<content, pending>>

Next ==
  \/ \E k \in Keys, c \in Optional : Put(k, c) \/ Refuse(k, c)
  \/ Show \/ End
  \/ \E k \in Keys : Flush(k) \/ Lose(k) \/ Tell(k)

Spec == Init /\ [][Next]_vars
=============================================================================
