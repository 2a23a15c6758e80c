----------------------------- MODULE WriteBehind ------------------------------
(***************************************************************************)
(* The storage of one project (backend/app/storage): records served from   *)
(* RAM, a durable queue of pending writes in SQLite, a writer task that    *)
(* moves them to YAML and markdown files, and the loader that reads the    *)
(* files back at a start.                                                  *)
(*                                                                         *)
(* The stores are synchronous, so a request is one action.  So is a drain  *)
(* of the queue for the other coroutines: the writer awaits only when the  *)
(* queue is empty.  What can happen inside it is a failure or the end of   *)
(* the process, so it has a step per file, and holder says who has the     *)
(* event loop.                                                             *)
(***************************************************************************)
EXTENDS Naturals, FiniteSets

CONSTANTS
  Issues, Memories, Files,  \* record ids of each store, drawn once each
  Heads, Texts, \* what the two parts of a record may hold
  Blank,        \* the text of a record that has none
  None,         \* "nothing there"
  Deleted,      \* the payload of a row whose action is "delete"
  BatchLimit,   \* rows per batch of the writer
  FlushLimit,   \* rows of the last flush, at a shutdown
  MaxRetries,   \* MAX_RETRIES
  Marks,        \* bound: the fields "marks" an instance considers
  Events        \* bound: the rare events an instance considers

Keys == Issues \cup Memories \cup Files

\* head: issue.yaml, the frontmatter of a memory, the entry of a file.
\* text: the markdown files of an issue.  marks: which of its deleted_at, category,
\* finished_at and tags are there; not every reader reads them.
Record == [head : Heads, text : Texts \cup {Blank}, marks : SUBSET Marks]

Rec(h, t, s) == [head |-> h, text |-> t, marks |-> s]

ASSUME WriteBehindAssumption ==
  /\ None \notin Record \cup Keys \cup {Deleted}
  /\ Deleted \notin Record
  /\ Issues \cap Memories = {}
  /\ Issues \cap Files = {}
  /\ Memories \cap Files = {}
  /\ BatchLimit \in Nat \ {0}
  /\ FlushLimit \in Nat \ {0}
  /\ MaxRetries \in Nat \ {0}
  /\ "deleted" \in Marks
  /\ Marks \subseteq {"deleted", "category", "finished", "tags"}
  /\ Events \subseteq {"crash", "disk", "sqlite", "admin"}

VARIABLES
  \* what a crash leaves
  project,  \* the project's row: "none", "active" or "archived"
  row,      \* key -> payload of its row in pending_writes, or None
  before,   \* <<j, k>>: the row of j has a lower id than that of k
  retry,    \* key -> retry_count of its row, up to MaxRetries
  disk,     \* key -> the record its files make up, or None
  born,     \* ids that have been drawn
  \* the process
  ram,      \* key -> record in the RAM store, or None
  writer,   \* the writer task: "off", "on", or "dead" of an exception
  holder,   \* who runs: "down", nobody ("idle"), "writer", "flush"
  batch,    \* rows the holder has still to process
  cur,      \* the key it is at
  step,     \* how far it is: "take", "head", "text", "done", "give"
  due       \* keys of the write_failed events that are scheduled

durable == <<project, row, before, retry, disk, born>>
table   == <<row, before, retry>>
process == <<ram, writer, holder, batch, cur, step, due>>
work    == <<holder, batch, cur, step, due>>
vars    == <<durable, process>>

Pending == {k \in Keys : row[k] # None}

Set(f, k, v) == [f EXCEPT ![k] = v]

\* The loader reads none of the marks.
Load(r) == IF r = None THEN None ELSE Rec(r.head, r.text, {})

\* load_issue does not read finished_at, and makes "" of a missing deleted_at, which is
\* not None: the issue reads as deleted.
Fallback(k) ==
  IF disk[k] = None \/ k \notin Issues THEN disk[k]
  ELSE Rec(disk[k].head, disk[k].text, (disk[k].marks \cap {"category"}) \cup {"deleted"})

\* load_issue, load_memory, load_file: RAM, else the files.
Loaded(k) == IF ram[k] # None THEN ram[k] ELSE Fallback(k)

\* What the pending row, or else the disk, says a record is.
Durable(k) ==
  IF row[k] = None THEN disk[k] ELSE IF row[k] = Deleted THEN None ELSE row[k]

Init ==
  /\ project \in {"none", "active"}
  /\ row = [k \in Keys |-> None]
  /\ before = {}
  /\ retry = [k \in Keys |-> 0]
  /\ disk = [k \in Keys |-> None]
  /\ born = {}
  /\ ram = [k \in Keys |-> None]
  /\ writer = "off"
  /\ holder = "down"
  /\ batch = {}
  /\ cur = None
  /\ step = "take"
  /\ due = {}

-----------------------------------------------------------------------------
(* WriteQueue.                                                             *)

Without(k) == {p \in before : p[1] # k /\ p[2] # k}

\* DELETE of the key's row and INSERT of a new one, in one transaction.
Enqueue(k, payload) ==
  /\ row' = Set(row, k, payload)
  /\ before' = Without(k) \cup {<<j, k>> : j \in Pending \ {k}}
  /\ retry' = Set(retry, k, 0)

RemoveRow(k) ==
  /\ row' = Set(row, k, None)
  /\ before' = Without(k)
  /\ retry' = Set(retry, k, 0)

\* dequeue_batch: the first n rows ORDER BY id.
IsBatch(S, n) ==
  /\ S \subseteq Pending
  /\ \A p \in before : p[2] \in S => p[1] \in S
  /\ Cardinality(S) = IF Cardinality(Pending) < n THEN Cardinality(Pending) ELSE n

-----------------------------------------------------------------------------
(* Requests.                                                               *)

\* The event loop is free and the project exists.
Ready == holder = "idle" /\ project # "none"

Put(k, r) ==
  /\ ram' = Set(ram, k, r)
  /\ Enqueue(k, r)
  /\ UNCHANGED <<project, disk, writer, work>>

\* The database refuses the first statement of enqueue: the request fails after
\* RAM has been changed.
Refuse(k, r) ==
  /\ "sqlite" \in Events
  /\ ram' = Set(ram, k, r)
  /\ UNCHANGED <<project, table, disk, writer, work>>

Store(k, r) == Put(k, r) \/ Refuse(k, r)

Create(k, h) ==
  /\ Ready
  /\ k \notin born
  /\ born' = born \cup {k}
  /\ \E s \in SUBSET (Marks \ {"deleted", "finished"}) :
       (k \notin Issues => s = {}) /\ Store(k, Rec(h, Blank, s))

UpdateHead(k, h) ==
  /\ Ready
  /\ Loaded(k) # None
  /\ Store(k, Rec(h, Loaded(k).text, Loaded(k).marks))
  /\ UNCHANGED born

UpdateText(k, t) ==
  /\ Ready
  /\ k \in Issues
  /\ Loaded(k) # None
  /\ Store(k, Rec(Loaded(k).head, t, Loaded(k).marks))
  /\ UNCHANGED born

\* The category and the tags are set and cleared, finished_at is only set.
UpdateMarks(k, s) ==
  /\ Ready
  /\ k \in Issues
  /\ Loaded(k) # None
  /\ Loaded(k).marks \cap {"finished"} \subseteq s
  /\ Loaded(k).marks \cap {"deleted"} = s \cap {"deleted"}
  /\ Store(k, Rec(Loaded(k).head, Loaded(k).text, s))
  /\ UNCHANGED born

\* DELETE of an issue.
SoftDelete(k) ==
  /\ Ready
  /\ k \in Issues
  /\ Loaded(k) # None
  /\ Store(k, Rec(Loaded(k).head, Loaded(k).text, Loaded(k).marks \cup {"deleted"}))
  /\ UNCHANGED born

Restore(k) ==
  /\ Ready
  /\ k \in Issues
  /\ Loaded(k) # None
  /\ "deleted" \in Loaded(k).marks
  /\ Store(k, Rec(Loaded(k).head, Loaded(k).text, Loaded(k).marks \ {"deleted"}))
  /\ UNCHANGED born

\* DELETE of a memory or a file.
Remove(k) ==
  /\ Ready
  /\ k \notin Issues
  /\ Loaded(k) # None
  /\ ram' = Set(ram, k, None)
  /\ \/ Enqueue(k, Deleted)
     \/ "sqlite" \in Events /\ UNCHANGED table
  /\ UNCHANGED <<project, disk, born, writer, work>>

\* What the removal of an issue's folder leaves of it: nothing, or any part of it
\* where it fails, or where the process ends, half-way.
LeftOf(k) ==
  IF "disk" \in Events /\ disk[k] # None
  THEN {None, disk[k], Rec(disk[k].head, Blank, disk[k].marks)} ELSE {None}

\* permanently_delete: the row first, then the files.
Purge(k) ==
  /\ Ready
  /\ k \in Issues
  /\ Loaded(k) # None
  /\ ram' = Set(ram, k, None)
  /\ \/ Enqueue(k, Deleted) /\ \E r \in LeftOf(k) : disk' = Set(disk, k, r)
     \/ "sqlite" \in Events /\ UNCHANGED <<table, disk>>
  /\ UNCHANGED <<project, born, writer, work>>

\* A GET of a record that is not in RAM puts what the files say there.
ReadThrough(k) ==
  /\ Ready
  /\ ram[k] = None
  /\ disk[k] # None
  /\ ram' = Set(ram, k, Fallback(k))
  /\ UNCHANGED <<durable, writer, work>>

-----------------------------------------------------------------------------
(* Projects, start and stop.                                               *)

LoadAll == [k \in Keys |-> Load(disk[k])]
Nothing == [k \in Keys |-> None]

CreateProject ==
  /\ holder = "idle"
  /\ project = "none"
  /\ project' = "active"
  /\ UNCHANGED <<table, disk, born, process>>

Archive ==
  /\ "admin" \in Events
  /\ Ready
  /\ project' = "archived"
  /\ ram' = Nothing
  /\ UNCHANGED <<table, disk, born, writer, work>>

\* It does not ask whether the project is archived.
Unarchive ==
  /\ "admin" \in Events
  /\ Ready
  /\ project' = "active"
  /\ ram' = LoadAll
  /\ UNCHANGED <<table, disk, born, writer, work>>

\* rebuild-index.
Reload ==
  /\ "admin" \in Events
  /\ Ready
  /\ project = "active"
  /\ ram' = LoadAll
  /\ UNCHANGED <<durable, writer, work>>

\* The active project is read into RAM, and only then is the writer started,
\* which replays the rows of the last run.  Without a project it is not started,
\* and nothing starts it later.
Start ==
  /\ holder = "down"
  /\ holder' = "idle"
  /\ ram' = IF project = "active" THEN LoadAll ELSE Nothing
  /\ writer' = IF project = "active" THEN "on" ELSE "off"
  /\ UNCHANGED <<durable, batch, cur, step, due>>

Halt ==
  /\ ram' = Nothing
  /\ writer' = "off"
  /\ holder' = "down"
  /\ batch' = {}
  /\ cur' = None
  /\ step' = "take"
  /\ due' = {}
  /\ UNCHANGED durable

\* BackgroundWriter.stop: one batch, no retries.  Of a task that died of an
\* exception it raises that exception and flushes nothing.
Stop ==
  /\ holder = "idle"
  /\ writer # "dead"
  /\ holder' = "flush"
  /\ writer' = "off"
  /\ \E S \in SUBSET Pending : IsBatch(S, FlushLimit) /\ batch' = S
  /\ UNCHANGED <<durable, ram, cur, step, due>>

StopDead == holder = "idle" /\ writer = "dead" /\ Halt

Stopped == holder = "flush" /\ batch = {} /\ cur = None /\ Halt

Crash == "crash" \in Events /\ holder # "down" /\ Halt

-----------------------------------------------------------------------------
(* The writer.                                                             *)

\* The loop takes the next batch, or sleeps.  When it wakes, the events it scheduled
\* before its sleep have been emitted: the event loop keeps the order.
NextBatch ==
  /\ writer = "on"
  /\ holder = "writer" \/ (holder = "idle" /\ due = {})
  /\ batch = {} /\ cur = None
  /\ Pending # {}
  /\ \E S \in SUBSET Pending : IsBatch(S, BatchLimit) /\ batch' = S
  /\ holder' = "writer"
  /\ UNCHANGED <<durable, ram, writer, cur, step, due>>

Sleep ==
  /\ holder = "writer"
  /\ cur = None
  /\ Pending = {}
  /\ holder' = "idle"
  /\ UNCHANGED <<durable, ram, writer, batch, cur, step, due>>

Take ==
  /\ holder \in {"writer", "flush"}
  /\ cur = None
  /\ \E k \in batch :
       /\ \A j \in batch : <<j, k>> \in before => j = k
       /\ cur' = k
       /\ batch' = batch \ {k}
  /\ step' = "head"
  /\ UNCHANGED <<durable, ram, writer, holder, due>>

At(s) == holder \in {"writer", "flush"} /\ cur # None /\ step = s

\* Record r as its files have it, with text t; issue.yaml does not hold the tags.
Filed(r, t) == Rec(r.head, t, r.marks \ {"tags"})

\* _write_to_disk: issue.yaml, or the only file there is.
WriteHead ==
  /\ At("head")
  /\ row[cur] # Deleted
  /\ disk' = Set(disk, cur,
       Filed(row[cur], IF cur \notin Issues THEN row[cur].text
                       ELSE IF disk[cur] = None THEN Blank ELSE disk[cur].text))
  /\ step' = "text"
  /\ UNCHANGED <<project, table, born, ram, writer, holder, batch, cur, due>>

\* Mutant: the row is taken for written once issue.yaml is.
WriteTextSkipped ==
  /\ At("text")
  /\ step' = "done"
  /\ UNCHANGED <<durable, ram, writer, holder, batch, cur, due>>

\* The markdown files of an issue, and the index.
WriteText ==
  /\ At("text")
  /\ disk' = Set(disk, cur, Filed(row[cur], row[cur].text))
  /\ step' = "done"
  /\ UNCHANGED <<project, table, born, ram, writer, holder, batch, cur, due>>

\* delete_from_disk: of a file only the text goes, its entry in files.yaml stays.
DeleteFromDisk ==
  /\ At("head")
  /\ row[cur] = Deleted
  /\ disk' = IF cur \in Files THEN disk ELSE Set(disk, cur, None)
  /\ step' = "done"
  /\ UNCHANGED <<project, table, born, ram, writer, holder, batch, cur, due>>

Finish ==
  /\ cur' = None
  /\ step' = "take"
  /\ UNCHANGED <<project, born, ram, writer, holder, batch>>

Done ==
  /\ At("done")
  /\ RemoveRow(cur)
  /\ Finish
  /\ UNCHANGED <<disk, due>>

\* Mutant: a loop that does not count its attempts.
FailUncounted ==
  /\ "disk" \in Events
  /\ holder \in {"writer", "flush"} /\ cur # None /\ step # "give"
  /\ Finish
  /\ UNCHANGED <<table, disk, due>>

\* The files cannot be written: what was written so far stays.  The loop counts
\* the attempt, and at the last one goes on to give the row up; the flush leaves it.
\* The count is committed: an attempt that a crash keeps from giving up still counts.
Fail ==
  /\ "disk" \in Events
  /\ holder \in {"writer", "flush"} /\ cur # None /\ step # "give"
  /\ IF step = "head" /\ row[cur] = Deleted /\ cur \in Issues
     THEN \E r \in LeftOf(cur) : disk' = Set(disk, cur, r)
     ELSE UNCHANGED disk
  /\ UNCHANGED <<row, before, due>>
  /\ \/ holder = "flush" /\ UNCHANGED retry /\ Finish
     \/ /\ holder = "writer"
        /\ retry[cur] + 1 < MaxRetries
        /\ retry' = Set(retry, cur, retry[cur] + 1)
        /\ Finish
     \/ /\ holder = "writer"
        /\ retry[cur] + 1 >= MaxRetries
        /\ retry' = Set(retry, cur, MaxRetries)
        /\ step' = "give"
        /\ UNCHANGED <<project, born, ram, writer, holder, batch, cur>>

\* The removal of the row is committed, and only then is the event scheduled; it is
\* a task of its own, which a crash or a shutdown may keep from ever running.
GiveUp ==
  /\ At("give")
  /\ RemoveRow(cur)
  /\ due' = due \cup {cur}
  /\ Finish
  /\ UNCHANGED disk

\* write_failed is emitted, to whoever is connected.
Announce(k) ==
  /\ holder = "idle"
  /\ k \in due
  /\ due' = due \ {k}
  /\ UNCHANGED <<durable, ram, writer, holder, batch, cur, step>>

\* The database raises where the loop does not catch it: its task ends, while
\* _running stays set.
WriterDies ==
  /\ "sqlite" \in Events
  /\ writer = "on"
  /\ holder \in {"idle", "writer"}
  /\ writer' = "dead"
  /\ holder' = "idle"
  /\ batch' = {}
  /\ cur' = None
  /\ step' = "take"
  /\ UNCHANGED <<durable, ram, due>>

-----------------------------------------------------------------------------
Request ==
  \/ \E k \in Keys, h \in Heads : Create(k, h) \/ UpdateHead(k, h)
  \/ \E k \in Keys, t \in Texts : UpdateText(k, t)
  \/ \E k \in Keys, s \in SUBSET Marks : UpdateMarks(k, s)
  \/ \E k \in Keys : SoftDelete(k) \/ Restore(k) \/ Remove(k) \/ Purge(k) \/ ReadThrough(k)

Projects == CreateProject \/ Archive \/ Unarchive \/ Reload

Process == Start \/ Stop \/ StopDead \/ Stopped \/ Crash

Write ==
  \/ NextBatch \/ Sleep \/ Take
  \/ WriteHead \/ WriteText \/ DeleteFromDisk \/ Done \/ Fail \/ GiveUp

Tell == \E k \in Keys : Announce(k)

Next == Request \/ Projects \/ Process \/ Write \/ WriterDies \/ Tell

Spec == Init /\ [][Next]_vars

\* The event loop runs the writer again and again, after its sleep and inside a drain
\* without a break, and what the writer has scheduled.
FairSpec == Spec /\ WF_vars(Write \/ Tell)

-----------------------------------------------------------------------------
(* Properties.                                                             *)

TypeOK ==
  /\ project \in {"none", "active", "archived"}
  /\ row \in [Keys -> Record \cup {Deleted, None}]
  /\ before \in SUBSET (Keys \X Keys)
  /\ retry \in [Keys -> 0 .. MaxRetries]
  /\ disk \in [Keys -> Record \cup {None}]
  /\ born \in SUBSET Keys
  /\ ram \in [Keys -> Record \cup {None}]
  /\ writer \in {"off", "on", "dead"}
  /\ holder \in {"down", "idle", "writer", "flush"}
  /\ batch \in SUBSET Keys
  /\ cur \in Keys \cup {None}
  /\ step \in {"take", "head", "text", "done", "give"}
  /\ due \in SUBSET Keys

\* The storage is a durable store: through crashes between any two files, retries,
\* restarts, reloads and shutdowns, what a request has left in a record stays until
\* the next request or until its write is given up, and only a record with a write
\* outstanding is read back as something else.  Giving up schedules a write_failed
\* event, which goes unsent only if the process ends first.  Files are not part of the
\* promise (their entries are never deleted), nor are deleted_at, category, finished_at
\* and tags (the loader does not read them).
Part(r) == IF r = None THEN None ELSE <<r.head, r.text>>
Kept    == Issues \cup Memories

Promised    == [k \in Kept |-> Part(Durable(k))]
Shown       == [k \in Kept |-> Part(ram[k])]
Outstanding == Pending \cap Kept
Untold      == due \cap Kept

Promise == INSTANCE DurableStore WITH
  Keys     <- Kept,
  Contents <- Heads \X (Texts \cup {Blank}),
  content  <- Promised,
  view     <- Shown,
  pending  <- Outstanding,
  due      <- Untold

RefinesDurableStore == Promise!Spec

\* While the writer task lives, every row leaves the queue, written or given up,
\* whatever requests arrive meanwhile and however often its write fails; and a loss
\* is announced unless the process is stopped, or ends, before.
WriterDrains ==
  \A k \in Keys :
    /\ row[k] # None /\ writer = "on" ~> row[k] = None \/ writer # "on"
    /\ k \in due ~> k \notin due \/ holder = "flush"
=============================================================================
