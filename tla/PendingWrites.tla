------------------------------ MODULE PendingWrites ------------------------------
(***************************************************************************)
(* The queue of pending writes (backend/app/storage/write_queue.py) as the *)
(* memories and the files of a project see it: one row per record, the     *)
(* last payload, in the order of the last request.  What the writer does   *)
(* between taking a row and removing it is the subject of WriteBehind.     *)
(***************************************************************************)
EXTENDS Naturals, Sequences, FiniteSets

CONSTANTS
  Memories, Files,   \* ids of the two kinds of record
  Absent,            \* no record, and the payload of a delete
  Ghost,             \* an index entry whose record is None
  Mixtures           \* bound: sets of kinds of request, of which a behaviour has one; "two"
                     \* is for two memories at most

ASSUME PendingAssumption ==
  /\ Memories \cap Files = {} /\ Absent # Ghost
  /\ \A s \in Mixtures : s \subseteq {"parents", "links", "titles", "list", "crash", "two",
                                       "audio", "image", "document"}

VARIABLES
  pending,           \* rows of pending_writes, by id
  kinds,             \* the kinds of request of this behaviour
  behind             \* history: records that were read from a file with a write pending

Pending == {pending[k].id : k \in DOMAIN pending}

\* The rows of other records, in their order.
Remaining(q, ids) ==
  LET kept  == {k \in DOMAIN q : q[k].id \notin ids}
      place == [k \in kept |-> Cardinality({j \in kept : j <= k})]
  IN  [n \in 1..Cardinality(kept) |-> q[CHOOSE k \in kept : place[k] = n]]

enqueue(q, id, payload) == Append(Remaining(q, {id}), [id |-> id, payload |-> payload])

\* The records of S have been read from their files.
ReadBehind(S) == behind' = behind \cup (S \cap Pending)

\* One after the other; `ids` has no id twice.
enqueue_all(q, ids, content) ==
  Remaining(q, {ids[k] : k \in DOMAIN ids})
    \o [k \in DOMAIN ids |-> [id |-> ids[k], payload |-> content[ids[k]]]]

PendingInit == pending = <<>> /\ kinds \in Mixtures /\ behind = {}
=================================================================================
