-------------------------- MODULE WriteBehindProofs --------------------------
(***************************************************************************)
(* Proofs about WriteBehind, for every set of records and contents, every  *)
(* batch size and number of retries, and every choice of events.           *)
(*                                                                         *)
(* IInv is inductive.  What the writer holds is pending and belongs to it  *)
(* alone (HoldsPending), and a row it is about to delete is on disk        *)
(* (WrittenWhenDone): with that, deleting the row changes nothing of what  *)
(* the store promises.  The refinement has one lemma per kind of step: a   *)
(* request, a change of RAM, and a step of the writer.                     *)
(***************************************************************************)
EXTENDS WriteBehind, TLAPS

\* The files of k say what its row says.
Written(k) ==
  IF row[k] = Deleted THEN k \in Files \/ disk[k] = None
  ELSE disk[k] = Filed(row[k], row[k].text)

HoldsPending ==
  /\ batch \subseteq Pending
  /\ cur # None => cur \in Pending \ batch
  /\ holder \in {"down", "idle"} => batch = {} /\ cur = None

WrittenWhenDone ==
  cur # None =>
    /\ step = "text" => row[cur] # Deleted
    /\ step = "done" => Written(cur)

IInv == TypeOK /\ HoldsPending /\ WrittenWhenDone

-----------------------------------------------------------------------------
(* Records.                                                                *)

LEMMA RecType ==
  ASSUME NEW h \in Heads, NEW t \in Texts \cup {Blank}, NEW s \in SUBSET Marks
  PROVE  /\ Rec(h, t, s) \in Record
         /\ Rec(h, t, s).head = h
         /\ Rec(h, t, s).text = t
         /\ Rec(h, t, s).marks = s
BY DEF Rec, Record

LEMMA RecordParts ==
  ASSUME NEW r \in Record
  PROVE  /\ r.head \in Heads
         /\ r.text \in Texts \cup {Blank}
         /\ r.marks \in SUBSET Marks
         /\ r # None
         /\ r # Deleted
BY WriteBehindAssumption DEF Record

\* The store promises nothing of the marks.
LEMMA PartRec ==
  ASSUME NEW r \in Record, NEW s \in SUBSET Marks
  PROVE  /\ Rec(r.head, r.text, s) \in Record
         /\ Part(Rec(r.head, r.text, s)) = Part(r)
<1>1. Rec(r.head, r.text, s) \in Record
  BY RecordParts, RecType
<1>2. Rec(r.head, r.text, s) # None /\ r # None
  BY <1>1, RecordParts
<1> QED
  BY <1>1, <1>2, RecordParts, RecType DEF Part

\* What is written to the files of a record is a record with the same parts.
LEMMA FiledRec ==
  ASSUME NEW r \in Record
  PROVE  /\ \A t \in Texts \cup {Blank} : Filed(r, t) \in Record
         /\ Part(Filed(r, r.text)) = Part(r)
<1>1. r.marks \ {"tags"} \in SUBSET Marks
  BY RecordParts
<1> QED
  BY <1>1, RecordParts, RecType, PartRec DEF Filed

\* What reading a file makes of a record is a record with the same parts.
LEMMA ReadBack ==
  ASSUME TypeOK, NEW k \in Keys
  PROVE  /\ Load(disk[k]) \in Record \cup {None}
         /\ Fallback(k) \in Record \cup {None}
         /\ Part(Load(disk[k])) = Part(disk[k])
         /\ Part(Fallback(k)) = Part(disk[k])
<1>1. CASE disk[k] = None
  BY <1>1 DEF Load, Fallback, Part
<1>2. CASE disk[k] # None
  <2>1. disk[k] \in Record
    BY <1>2 DEF TypeOK
  <2>2. {} \in SUBSET Marks
    OBVIOUS
  <2>3. (disk[k].marks \cap {"category"}) \cup {"deleted"} \in SUBSET Marks
    BY <2>1, RecordParts, WriteBehindAssumption
  <2> QED
    BY <1>2, <2>1, <2>2, <2>3, PartRec DEF Load, Fallback
<1> QED
  BY <1>1, <1>2

LEMMA LoadedType ==
  ASSUME TypeOK, NEW k \in Keys PROVE Loaded(k) \in Record \cup {None}
BY ReadBack DEF Loaded, TypeOK

-----------------------------------------------------------------------------
(* The inductive invariant.                                                *)

\* The types of the queue's columns.
TableOK ==
  /\ row \in [Keys -> Record \cup {Deleted, None}]
  /\ before \in SUBSET (Keys \X Keys)
  /\ retry \in [Keys -> 0 .. MaxRetries]

LEMMA EnqueueType ==
  ASSUME TypeOK, NEW k \in Keys, NEW p \in Record \cup {Deleted}, Enqueue(k, p)
  PROVE  TableOK'
BY WriteBehindAssumption DEF TypeOK, TableOK, Enqueue, Set, Without, Pending

LEMMA RemoveRowType ==
  ASSUME TypeOK, NEW k \in Keys, RemoveRow(k)
  PROVE  TableOK'
BY WriteBehindAssumption DEF TypeOK, TableOK, RemoveRow, Set, Without

\* A request that writes record r leaves the types, and the writer, alone.
LEMMA StoreInv ==
  ASSUME IInv, NEW k \in Keys, NEW r \in Record,
         holder = "idle", Store(k, r), born' \in SUBSET Keys
  PROVE  IInv'
<1>1. TableOK'
  BY EnqueueType DEF IInv, Store, Put, Refuse, table, TypeOK, TableOK
<1>2. TypeOK'
  BY <1>1 DEF IInv, Store, Put, Refuse, work, Set, TypeOK, TableOK
<1>3. HoldsPending' /\ WrittenWhenDone'
  BY DEF IInv, HoldsPending, WrittenWhenDone, Store, Put, Refuse, work
<1> QED
  BY <1>2, <1>3 DEF IInv

\* So does one that deletes a record.
LEMMA DeleteInv ==
  ASSUME IInv, NEW k \in Keys, holder = "idle",
         Enqueue(k, Deleted) \/ UNCHANGED table,
         disk' \in [Keys -> Record \cup {None}],
         ram' = Set(ram, k, None),
         UNCHANGED <<project, born, writer, work>>
  PROVE  IInv'
<1>1. TableOK'
  BY EnqueueType DEF IInv, table, TypeOK, TableOK
<1>2. TypeOK'
  BY <1>1 DEF IInv, work, Set, TypeOK, TableOK
<1>3. HoldsPending' /\ WrittenWhenDone'
  BY DEF IInv, HoldsPending, WrittenWhenDone, work
<1> QED
  BY <1>2, <1>3 DEF IInv

\* What a removal leaves of an issue's files is a record or nothing.
LEMMA LeftOfType ==
  ASSUME TypeOK, NEW k \in Keys, NEW r \in LeftOf(k) PROVE r \in Record \cup {None}
<1>1. CASE r \in {None, disk[k]}
  BY <1>1 DEF TypeOK
<1>2. CASE disk[k] # None /\ r = Rec(disk[k].head, Blank, disk[k].marks)
  <2>1. disk[k] \in Record
    BY <1>2 DEF TypeOK
  <2>2. disk[k].head \in Heads /\ disk[k].marks \in SUBSET Marks
    BY <2>1, RecordParts
  <2> QED
    BY <1>2, <2>2, RecType
<1> QED
  BY <1>1, <1>2 DEF LeftOf

\* What each request writes is a record.
LEMMA UpdatedType ==
  ASSUME TypeOK, NEW k \in Keys, Loaded(k) # None
  PROVE  /\ \A h \in Heads : Rec(h, Loaded(k).text, Loaded(k).marks) \in Record
         /\ \A t \in Texts : Rec(Loaded(k).head, t, Loaded(k).marks) \in Record
         /\ \A s \in SUBSET Marks : Rec(Loaded(k).head, Loaded(k).text, s) \in Record
         /\ Loaded(k).marks \cup {"deleted"} \in SUBSET Marks
         /\ Loaded(k).marks \ {"deleted"} \in SUBSET Marks
<1>1. Loaded(k) \in Record
  BY LoadedType
<1>2. /\ Loaded(k).head \in Heads
      /\ Loaded(k).text \in Texts \cup {Blank}
      /\ Loaded(k).marks \in SUBSET Marks
  BY <1>1, RecordParts
<1>3. "deleted" \in Marks
  BY WriteBehindAssumption
<1> QED
  BY <1>2, <1>3, RecType

LEMMA RequestInv ==
  ASSUME IInv, Request PROVE IInv'
<1>1. TypeOK /\ (Ready => holder = "idle")
  BY DEF IInv, Ready
<1>2. ASSUME NEW k \in Keys, NEW h \in Heads, Create(k, h) PROVE IInv'
  <2>1. PICK s \in SUBSET Marks : Store(k, Rec(h, Blank, s))
    BY <1>2 DEF Create
  <2>2. Rec(h, Blank, s) \in Record /\ born' \in SUBSET Keys
    BY <1>1, <1>2, RecType DEF Create, TypeOK
  <2> QED
    BY <1>1, <1>2, <2>1, <2>2, StoreInv DEF Create
<1>3. ASSUME NEW k \in Keys, NEW h \in Heads, UpdateHead(k, h) PROVE IInv'
  <2>1. Rec(h, Loaded(k).text, Loaded(k).marks) \in Record /\ born' \in SUBSET Keys
    BY <1>1, <1>3, UpdatedType DEF UpdateHead, TypeOK
  <2> QED
    BY <1>1, <1>3, <2>1, StoreInv DEF UpdateHead
<1>4. ASSUME NEW k \in Keys, NEW t \in Texts, UpdateText(k, t) PROVE IInv'
  <2>1. Rec(Loaded(k).head, t, Loaded(k).marks) \in Record /\ born' \in SUBSET Keys
    BY <1>1, <1>4, UpdatedType DEF UpdateText, TypeOK
  <2> QED
    BY <1>1, <1>4, <2>1, StoreInv DEF UpdateText
<1>5. ASSUME NEW k \in Keys, NEW s \in SUBSET Marks, UpdateMarks(k, s) PROVE IInv'
  <2>1. Rec(Loaded(k).head, Loaded(k).text, s) \in Record /\ born' \in SUBSET Keys
    BY <1>1, <1>5, UpdatedType DEF UpdateMarks, TypeOK
  <2> QED
    BY <1>1, <1>5, <2>1, StoreInv DEF UpdateMarks
<1>6. ASSUME NEW k \in Keys, SoftDelete(k) \/ Restore(k) PROVE IInv'
  <2>1. PICK s \in SUBSET Marks : Store(k, Rec(Loaded(k).head, Loaded(k).text, s))
    BY <1>1, <1>6, UpdatedType DEF SoftDelete, Restore
  <2>2. Rec(Loaded(k).head, Loaded(k).text, s) \in Record /\ born' \in SUBSET Keys
    BY <1>1, <1>6, UpdatedType DEF SoftDelete, Restore, TypeOK
  <2> QED
    BY <1>1, <1>6, <2>1, <2>2, StoreInv DEF SoftDelete, Restore
<1>7. ASSUME NEW k \in Keys, Remove(k) PROVE IInv'
  BY <1>1, <1>7, DeleteInv DEF Remove, TypeOK
<1>8. ASSUME NEW k \in Keys, Purge(k) PROVE IInv'
  <2>1. disk' \in [Keys -> Record \cup {None}]
    BY <1>1, <1>8, LeftOfType DEF Purge, TypeOK, Set
  <2> QED
    BY <1>1, <1>8, <2>1, DeleteInv DEF Purge, table
<1>9. ASSUME NEW k \in Keys, ReadThrough(k) PROVE IInv'
  <2>1. TypeOK'
    BY <1>1, <1>9, ReadBack DEF ReadThrough, TypeOK, durable, work, Set
  <2>2. HoldsPending' /\ WrittenWhenDone'
    BY <1>9 DEF IInv, HoldsPending, WrittenWhenDone, Written, Pending, ReadThrough, durable, work
  <2> QED
    BY <2>1, <2>2 DEF IInv
<1> QED
  BY <1>2, <1>3, <1>4, <1>5, <1>6, <1>7, <1>8, <1>9 DEF Request

LEMMA LoadAllType ==
  ASSUME TypeOK
  PROVE  LoadAll \in [Keys -> Record \cup {None}] /\ Nothing \in [Keys -> Record \cup {None}]
BY ReadBack DEF LoadAll, Nothing

LEMMA ProjectsInv ==
  ASSUME IInv, Projects PROVE IInv'
<1>1. ram' \in [Keys -> Record \cup {None}]
  BY LoadAllType
     DEF IInv, TypeOK, Projects, CreateProject, Archive, Unarchive, Reload, process
<1>2. TypeOK'
  BY <1>1 DEF IInv, TypeOK, Projects, CreateProject, Archive, Unarchive, Reload,
              table, durable, process, work
<1>3. HoldsPending' /\ WrittenWhenDone'
  BY DEF IInv, HoldsPending, WrittenWhenDone, Written, Pending, Ready,
         Projects, CreateProject, Archive, Unarchive, Reload, table, durable, process, work
<1> QED
  BY <1>2, <1>3 DEF IInv

LEMMA HaltInv ==
  ASSUME IInv, Halt PROVE IInv'
BY LoadAllType DEF IInv, TypeOK, HoldsPending, WrittenWhenDone, Halt, durable

LEMMA ProcessInv ==
  ASSUME IInv, Process PROVE IInv'
<1>1. CASE Start
  <2>1. TypeOK'
    BY <1>1, LoadAllType DEF IInv, TypeOK, Start, durable
  <2> QED
    BY <1>1, <2>1 DEF IInv, HoldsPending, WrittenWhenDone, Start, durable
<1>2. CASE Stop
  <2>1. TypeOK'
    BY <1>2 DEF IInv, TypeOK, Stop, durable, Pending
  <2> QED
    BY <1>2, <2>1 DEF IInv, HoldsPending, WrittenWhenDone, Stop, IsBatch, Pending, durable
<1>3. CASE StopDead \/ Stopped \/ Crash
  BY <1>3, HaltInv DEF StopDead, Stopped, Crash
<1> QED
  BY <1>1, <1>2, <1>3 DEF Process

\* The rows the writer does not hold stay as they are when it ends one.
LEMMA FinishInv ==
  ASSUME IInv, holder \in {"writer", "flush"}, cur # None, Finish,
         UNCHANGED row \/ RemoveRow(cur)
  PROVE  HoldsPending' /\ WrittenWhenDone'
<1>1. batch' \subseteq Pending'
  BY DEF IInv, TypeOK, HoldsPending, Pending, RemoveRow, Set, Finish
<1> QED
  BY <1>1 DEF HoldsPending, WrittenWhenDone, Finish

\* The record in the row the writer is at.
LEMMA CurrentRow ==
  ASSUME IInv, cur # None
  PROVE  /\ cur \in Keys
         /\ row[cur] \in Record \cup {Deleted}
         /\ row[cur] # None
BY DEF IInv, TypeOK, HoldsPending, Pending

LEMMA WriteHeadInv ==
  ASSUME IInv, WriteHead PROVE IInv'
<1>1. cur # None /\ cur \in Keys /\ row[cur] \in Record
  BY CurrentRow DEF WriteHead, At
<1>2. disk[cur] # None => disk[cur].text \in Texts \cup {Blank}
  BY <1>1, RecordParts DEF IInv, TypeOK
<1>3. row[cur].text \in Texts \cup {Blank}
  BY <1>1, RecordParts
<1>4. \A t \in Texts \cup {Blank} : Filed(row[cur], t) \in Record
  BY <1>1, FiledRec
<1>5. PICK t \in Texts \cup {Blank} : disk' = Set(disk, cur, Filed(row[cur], t))
  BY <1>2, <1>3 DEF WriteHead
<1>6. disk' \in [Keys -> Record \cup {None}]
  BY <1>1, <1>4, <1>5 DEF Set, IInv, TypeOK
<1>7. TypeOK'
  BY <1>6 DEF IInv, TypeOK, WriteHead, table
<1>8. HoldsPending' /\ WrittenWhenDone'
  BY DEF IInv, HoldsPending, WrittenWhenDone, Written, Pending, WriteHead, At, table
<1> QED
  BY <1>7, <1>8 DEF IInv

LEMMA WriteTextInv ==
  ASSUME IInv, WriteText PROVE IInv'
<1>1. cur # None /\ cur \in Keys /\ row[cur] \in Record
  BY CurrentRow DEF WriteText, At, IInv, WrittenWhenDone
<1>2. Filed(row[cur], row[cur].text) \in Record
  BY <1>1, RecordParts, FiledRec
<1>3. disk' \in [Keys -> Record \cup {None}] /\ disk'[cur] = Filed(row[cur], row[cur].text)
  BY <1>1, <1>2 DEF WriteText, Set, IInv, TypeOK
<1>4. TypeOK'
  BY <1>3 DEF IInv, TypeOK, WriteText, table
<1>5. HoldsPending'
  BY DEF IInv, HoldsPending, Pending, WriteText, table
<1>6. WrittenWhenDone'
  BY <1>1, <1>3, RecordParts DEF WrittenWhenDone, Written, WriteText, table
<1> QED
  BY <1>4, <1>5, <1>6 DEF IInv

LEMMA DeleteFromDiskInv ==
  ASSUME IInv, DeleteFromDisk PROVE IInv'
<1>1. cur # None /\ cur \in Keys /\ row[cur] = Deleted
  BY CurrentRow DEF DeleteFromDisk, At
<1>2. TypeOK'
  BY <1>1 DEF IInv, TypeOK, DeleteFromDisk, table, Set
<1>3. HoldsPending'
  BY DEF IInv, HoldsPending, Pending, DeleteFromDisk, table
<1>4. WrittenWhenDone'
  BY <1>1 DEF IInv, TypeOK, WrittenWhenDone, Written, DeleteFromDisk, table, Set
<1> QED
  BY <1>2, <1>3, <1>4 DEF IInv

LEMMA DoneInv ==
  ASSUME IInv, Done PROVE IInv'
<1>1. cur # None /\ cur \in Keys
  BY CurrentRow DEF Done, At
<1>2. TypeOK'
  BY <1>1, RemoveRowType DEF IInv, TypeOK, TableOK, Done, Finish
<1>3. HoldsPending' /\ WrittenWhenDone'
  BY <1>1, FinishInv DEF Done, At
<1> QED
  BY <1>2, <1>3 DEF IInv

LEMMA FailInv ==
  ASSUME IInv, Fail PROVE IInv'
<1>1. cur # None /\ cur \in Keys
  BY CurrentRow DEF Fail
<1>2. disk' \in [Keys -> Record \cup {None}]
  BY <1>1, LeftOfType DEF IInv, TypeOK, Fail, Set
<1>3. retry' \in [Keys -> 0 .. MaxRetries]
  BY <1>1, WriteBehindAssumption DEF Fail, IInv, TypeOK, Set
<1>4. UNCHANGED <<row, before>>
  BY DEF Fail
<1>5. CASE Finish
  <2>1. TypeOK'
    BY <1>2, <1>3, <1>4, <1>5 DEF IInv, TypeOK, Fail, Finish
  <2>2. HoldsPending' /\ WrittenWhenDone'
    BY <1>1, <1>4, <1>5, FinishInv DEF Fail
  <2> QED
    BY <2>1, <2>2 DEF IInv
<1>6. CASE step' = "give" /\ UNCHANGED <<project, born, ram, writer, holder, batch, cur>>
  <2>1. TypeOK'
    BY <1>2, <1>3, <1>4, <1>6 DEF IInv, TypeOK, Fail
  <2>2. HoldsPending' /\ WrittenWhenDone'
    BY <1>4, <1>6 DEF IInv, HoldsPending, WrittenWhenDone, Pending
  <2> QED
    BY <2>1, <2>2 DEF IInv
<1> QED
  BY <1>5, <1>6 DEF Fail

LEMMA GiveUpInv ==
  ASSUME IInv, GiveUp PROVE IInv'
<1>1. cur # None /\ cur \in Keys
  BY CurrentRow DEF GiveUp, At
<1>2. TypeOK'
  BY <1>1, RemoveRowType DEF IInv, TypeOK, TableOK, GiveUp, Finish
<1>3. HoldsPending' /\ WrittenWhenDone'
  BY <1>1, FinishInv DEF GiveUp, At
<1> QED
  BY <1>2, <1>3 DEF IInv

LEMMA WriteInv ==
  ASSUME IInv, Write PROVE IInv'
<1>1. CASE NextBatch
  <2>1. TypeOK'
    BY <1>1 DEF IInv, TypeOK, NextBatch, durable, Pending
  <2> QED
    BY <1>1, <2>1 DEF IInv, HoldsPending, WrittenWhenDone, NextBatch, IsBatch, Pending, durable
<1>2. CASE Sleep
  BY <1>2 DEF IInv, TypeOK, HoldsPending, WrittenWhenDone, Sleep, durable, Pending
<1>3. CASE Take
  <2>1. PICK k \in batch : cur' = k /\ batch' = batch \ {k}
    BY <1>3 DEF Take
  <2>2. TypeOK'
    BY <1>3, <2>1 DEF IInv, TypeOK, Take, durable
  <2>3. HoldsPending' /\ WrittenWhenDone'
    BY <1>3, <2>1 DEF IInv, HoldsPending, WrittenWhenDone, Take, Pending, durable
  <2> QED
    BY <2>2, <2>3 DEF IInv
<1> QED
  BY <1>1, <1>2, <1>3, WriteHeadInv, WriteTextInv, DeleteFromDiskInv, DoneInv, FailInv, GiveUpInv DEF Write

LEMMA WriterDiesInv ==
  ASSUME IInv, WriterDies PROVE IInv'
BY DEF IInv, TypeOK, HoldsPending, WrittenWhenDone, WriterDies, durable

LEMMA TellInv ==
  ASSUME IInv, Tell PROVE IInv'
BY DEF IInv, TypeOK, HoldsPending, WrittenWhenDone, Written, Pending, Tell, Announce, durable

\* IInv holds in every reachable state: the types, what the writer holds, and that a
\* row is only deleted when its record is on disk.
THEOREM Invariant == Spec => []IInv
<1>1. Init => IInv
  BY WriteBehindAssumption DEF Init, IInv, TypeOK, HoldsPending, WrittenWhenDone
<1>2. IInv /\ [Next]_vars => IInv'
  <2> SUFFICES ASSUME IInv, [Next]_vars PROVE IInv'
    OBVIOUS
  <2>1. CASE UNCHANGED vars
    BY <2>1 DEF IInv, TypeOK, HoldsPending, WrittenWhenDone, Written, Pending,
                vars, durable, process
  <2>2. CASE Next
    BY <2>2, RequestInv, ProjectsInv, ProcessInv, WriteInv, WriterDiesInv, TellInv DEF Next
  <2> QED
    BY <2>1, <2>2
<1> QED
  BY <1>1, <1>2, PTL DEF Spec

\* TypeOK: the variables keep their types.
THEOREM TypeCorrect == Spec => []TypeOK
<1>1. IInv => TypeOK
  BY DEF IInv
<1> QED
  BY <1>1, Invariant, PTL

-----------------------------------------------------------------------------
(* The storage implements the durable store.                               *)

StoreContents == Heads \X (Texts \cup {Blank})
Unpromised    == UNCHANGED <<Promised, Shown, Outstanding, Untold>>

LEMMA KeptKeys == Kept \subseteq Keys /\ Kept \cap Files = {}
BY WriteBehindAssumption DEF Kept, Keys

\* A record, as the store promises it.
LEMMA PartType ==
  ASSUME NEW r \in Record \cup {None} PROVE Part(r) \in StoreContents \cup {None}
<1>1. CASE r = None
  BY <1>1 DEF Part
<1>2. CASE r # None
  <2>1. r \in Record
    BY <1>2
  <2>2. r.head \in Heads /\ r.text \in Texts \cup {Blank}
    BY <2>1, RecordParts
  <2> QED
    BY <1>2, <2>2 DEF Part, StoreContents
<1> QED
  BY <1>1, <1>2

\* A step that keeps the rows and the files of all records but k changes at most the
\* content of k.
LEMMA PromisedExcept ==
  ASSUME TypeOK, NEW k \in Keys, NEW p \in Record \cup {Deleted, None}, NEW d \in Record \cup {None},
         row' = Set(row, k, p), disk' = Set(disk, k, d)
  PROVE  /\ Promised' = [Promised EXCEPT ![k] = Part(Durable(k)')]
         /\ Durable(k)' = IF p = None THEN d ELSE IF p = Deleted THEN None ELSE p
         /\ Pending' = IF p = None THEN Pending \ {k} ELSE Pending \cup {k}
<1>1. \A j \in Keys \ {k} : Durable(j)' = Durable(j)
  BY DEF TypeOK, Durable, Set
<1>2. row'[k] = p /\ disk'[k] = d
  BY DEF TypeOK, Set
<1>3. \A j \in Keys \ {k} : Part(Durable(j))' = Part(Durable(j))
  BY <1>1 DEF Part
<1>4. Promised' = [Promised EXCEPT ![k] = Part(Durable(k)')]
  <2>1. Promised' = [j \in Kept |-> Part(Durable(j))']
    BY DEF Promised
  <2>2. (Part(Durable(k)))' = Part(Durable(k)')
    BY DEF Part
  <2> QED
    BY <1>3, <2>1, <2>2, KeptKeys DEF Promised
<1>5. Durable(k)' = IF p = None THEN d ELSE IF p = Deleted THEN None ELSE p
  BY <1>2 DEF Durable
<1>6. Pending' = IF p = None THEN Pending \ {k} ELSE Pending \cup {k}
  BY <1>2 DEF TypeOK, Pending, Set
<1> QED
  BY <1>4, <1>5, <1>6

LEMMA ShownExcept ==
  ASSUME TypeOK, NEW k \in Keys, NEW r, ram' = Set(ram, k, r)
  PROVE  Shown' = [Shown EXCEPT ![k] = Part(r)]
<1>1. \A j \in Keys : ram'[j] = IF j = k THEN r ELSE ram[j]
  BY DEF TypeOK, Set
<1>2. Shown' = [j \in Kept |-> Part(ram'[j])]
  BY DEF Shown, Part
<1> QED
  BY <1>1, <1>2, KeptKeys DEF Shown

\* Rows and files that stay keep the content and what is outstanding.
LEMMA PromisedStays ==
  ASSUME UNCHANGED <<row, disk>> PROVE UNCHANGED <<Promised, Outstanding>>
BY DEF Promised, Outstanding, Pending, Durable, Part

LEMMA ShownStays ==
  ASSUME UNCHANGED ram PROVE UNCHANGED Shown
BY DEF Shown, Part

LEMMA Stutters ==
  ASSUME Unpromised PROVE [Promise!Next]_Promise!vars
BY DEF Unpromised, Promise!vars

\* The four kinds of step the store takes.
LEMMA PutStep ==
  ASSUME NEW k \in Kept, NEW c \in StoreContents \cup {None},
         Promised' = [Promised EXCEPT ![k] = c],
         Shown' = [Shown EXCEPT ![k] = c],
         Outstanding' = Outstanding \cup {k},
         UNCHANGED Untold
  PROVE  [Promise!Next]_Promise!vars
<1>1. Promise!Put(k, c)
  BY DEF Promise!Put
<1>2. c \in Promise!Optional
  BY DEF Promise!Optional, StoreContents
<1> QED
  BY <1>1, <1>2 DEF Promise!Next

LEMMA RefuseStep ==
  ASSUME NEW k \in Kept, NEW c \in StoreContents \cup {None},
         Shown' = [Shown EXCEPT ![k] = c],
         UNCHANGED <<Promised, Outstanding, Untold>>
  PROVE  [Promise!Next]_Promise!vars
<1>1. Promise!Refuse(k, c)
  BY DEF Promise!Refuse
<1>2. c \in Promise!Optional
  BY DEF Promise!Optional, StoreContents
<1> QED
  BY <1>1, <1>2 DEF Promise!Next

LEMMA ShowStep ==
  ASSUME Shown' \in [Kept -> StoreContents \cup {None}],
         \A k \in Kept \ Outstanding : Shown'[k] \in {Shown[k], Promised[k], None},
         UNCHANGED <<Promised, Outstanding, Untold>>
  PROVE  [Promise!Next]_Promise!vars
<1>1. Promise!Show
  BY DEF Promise!Show, Promise!Optional, StoreContents
<1> QED
  BY <1>1 DEF Promise!Next

LEMMA FlushStep ==
  ASSUME NEW k \in Kept, Outstanding' = Outstanding \ {k},
         UNCHANGED <<Promised, Shown, Untold>>
  PROVE  [Promise!Next]_Promise!vars
<1>1. Promise!Flush(k)
  BY DEF Promise!Flush
<1> QED
  BY <1>1 DEF Promise!Next

LEMMA LoseStep ==
  ASSUME NEW k \in Kept, k \in Outstanding, NEW c \in StoreContents \cup {None},
         Promised' = [Promised EXCEPT ![k] = c],
         Outstanding' = Outstanding \ {k},
         Untold' = Untold \cup {k},
         UNCHANGED Shown
  PROVE  [Promise!Next]_Promise!vars
<1>1. c \in Promise!Optional
  BY DEF Promise!Optional, StoreContents
<1>2. Promise!Lose(k)
  BY <1>1 DEF Promise!Lose
<1> QED
  BY <1>2 DEF Promise!Next

LEMMA TellStep ==
  ASSUME NEW k \in Kept, Untold' = Untold \ {k}, UNCHANGED <<Promised, Shown, Outstanding>>
  PROVE  [Promise!Next]_Promise!vars
<1>1. Promise!Tell(k)
  BY DEF Promise!Tell
<1> QED
  BY <1>1 DEF Promise!Next

LEMMA EndStep ==
  ASSUME Shown' = [k \in Kept |-> None], Untold' = {}, UNCHANGED <<Promised, Outstanding>>
  PROVE  [Promise!Next]_Promise!vars
<1>1. Promise!End
  BY DEF Promise!End
<1> QED
  BY <1>1 DEF Promise!Next

-----------------------------------------------------------------------------
\* A request that leaves a row with what it leaves in RAM is a Put.
LEMMA EnqueueRefines ==
  ASSUME IInv, NEW k \in Keys, NEW p \in Record \cup {Deleted}, NEW r \in Record \cup {None},
         NEW d \in Record \cup {None},
         r = IF p = Deleted THEN None ELSE p,
         Enqueue(k, p), ram' = Set(ram, k, r), disk' = Set(disk, k, d), UNCHANGED due
  PROVE  [Promise!Next]_Promise!vars
<1>1. p # None
  BY WriteBehindAssumption
<1>2. TypeOK
  BY DEF IInv
<1>3. /\ Promised' = [Promised EXCEPT ![k] = Part(Durable(k)')]
      /\ Durable(k)' = r
      /\ Pending' = Pending \cup {k}
  BY <1>1, <1>2, PromisedExcept DEF Enqueue
<1>4. Promised' = [Promised EXCEPT ![k] = Part(r)] /\ Shown' = [Shown EXCEPT ![k] = Part(r)]
  BY <1>2, <1>3, ShownExcept
<1>5. CASE k \in Kept
  <2>1. Part(r) \in StoreContents \cup {None}
    BY PartType
  <2>2. Outstanding' = Outstanding \cup {k}
    BY <1>3, <1>5 DEF Outstanding
  <2>3. UNCHANGED Untold
    BY DEF Untold
  <2> QED
    BY <1>4, <1>5, <2>1, <2>2, <2>3, PutStep
<1>6. CASE k \notin Kept
  <2>1. UNCHANGED <<Promised, Shown>>
    BY <1>4, <1>6, ZenonT(60) DEF Promised, Shown
  <2>2. UNCHANGED <<Outstanding, Untold>>
    BY <1>3, <1>6 DEF Outstanding, Untold
  <2> QED
    BY <2>1, <2>2, Stutters DEF Unpromised
<1> QED
  BY <1>5, <1>6

\* One that the database refuses changes what is shown.
LEMMA RefusedRefines ==
  ASSUME IInv, NEW k \in Keys, NEW r \in Record \cup {None},
         ram' = Set(ram, k, r), UNCHANGED <<table, disk, due>>
  PROVE  [Promise!Next]_Promise!vars
<1>1. TypeOK
  BY DEF IInv
<1>2. Shown' = [Shown EXCEPT ![k] = Part(r)]
  BY <1>1, ShownExcept
<1>3. UNCHANGED <<Promised, Outstanding, Untold>>
  BY PromisedStays DEF table, Untold
<1>4. CASE k \in Kept
  BY <1>2, <1>3, <1>4, PartType, RefuseStep
<1>5. CASE k \notin Kept
  <2>1. UNCHANGED Shown
    BY <1>2, <1>5 DEF Shown
  <2> QED
    BY <1>3, <2>1, Stutters DEF Unpromised
<1> QED
  BY <1>4, <1>5

LEMMA StoreRefines ==
  ASSUME IInv, NEW k \in Keys, NEW r \in Record, Store(k, r)
  PROVE  [Promise!Next]_Promise!vars
<1>1. CASE Put(k, r)
  <2>1. disk' = Set(disk, k, disk[k]) /\ disk[k] \in Record \cup {None}
    BY <1>1 DEF Put, Set, IInv, TypeOK
  <2>2. r = IF r = Deleted THEN None ELSE r
    BY WriteBehindAssumption
  <2> QED
    BY <1>1, <2>1, <2>2, EnqueueRefines DEF Put, work
<1>2. CASE Refuse(k, r)
  BY <1>2, RefusedRefines DEF Refuse, work
<1> QED
  BY <1>1, <1>2 DEF Store

\* RAM that is forgotten, or read from the files, shows what is promised except of
\* records with a write outstanding.
LEMMA ReadRefines ==
  ASSUME IInv, ram' \in [Keys -> Record \cup {None}], UNCHANGED <<table, disk, due>>,
         \A k \in Keys : Part(ram'[k]) \in {Part(ram[k]), Part(disk[k]), None}
  PROVE  [Promise!Next]_Promise!vars
<1>1. UNCHANGED <<Promised, Outstanding, Untold>>
  BY PromisedStays DEF table, Untold
<1>2. \A k \in Kept : Shown'[k] = Part(ram'[k])
  BY DEF Shown, Part
<1>3. Shown' = [k \in Kept |-> Part(ram'[k])]
  BY DEF Shown, Part
<1>4. Shown' \in [Kept -> StoreContents \cup {None}]
  <2>1. \A k \in Kept : Part(ram'[k]) \in StoreContents \cup {None}
    BY KeptKeys, PartType
  <2> QED
    BY <1>3, <2>1
<1>5. \A k \in Kept \ Outstanding : Shown'[k] \in {Shown[k], Promised[k], None}
  <2> TAKE k \in Kept \ Outstanding
  <2>1. row[k] = None
    BY KeptKeys DEF Outstanding, Pending
  <2>2. Promised[k] = Part(disk[k]) /\ Shown[k] = Part(ram[k])
    BY <2>1 DEF Promised, Shown, Durable
  <2> QED
    BY <1>2, <2>2, KeptKeys
<1> QED
  BY <1>1, <1>4, <1>5, ShowStep

LEMMA LoadAllRefines ==
  ASSUME IInv, ram' \in {ram, LoadAll, Nothing}, UNCHANGED <<table, disk, due>>
  PROVE  [Promise!Next]_Promise!vars
<1>1. ram' \in [Keys -> Record \cup {None}]
  BY LoadAllType DEF IInv, TypeOK
<1>2. ASSUME NEW k \in Keys PROVE Part(ram'[k]) \in {Part(ram[k]), Part(disk[k]), None}
  <2>1. Part(Load(disk[k])) = Part(disk[k])
    BY ReadBack DEF IInv
  <2>2. LoadAll[k] = Load(disk[k]) /\ Nothing[k] = None /\ Part(None) = None
    BY DEF LoadAll, Nothing, Part
  <2> QED
    BY <2>1, <2>2
<1> QED
  BY <1>1, <1>2, ReadRefines

LEMMA RequestRefines ==
  ASSUME IInv, Request PROVE [Promise!Next]_Promise!vars
<1>1. TypeOK
  BY DEF IInv
<1>2. ASSUME NEW k \in Keys, NEW h \in Heads, Create(k, h) PROVE [Promise!Next]_Promise!vars
  <2>1. PICK s \in SUBSET Marks : Store(k, Rec(h, Blank, s))
    BY <1>2 DEF Create
  <2>2. Rec(h, Blank, s) \in Record
    BY RecType
  <2> QED
    BY <2>1, <2>2, StoreRefines
<1>3. ASSUME NEW k \in Keys, NEW h \in Heads, UpdateHead(k, h)
      PROVE  [Promise!Next]_Promise!vars
  BY <1>1, <1>3, UpdatedType, StoreRefines DEF UpdateHead
<1>4. ASSUME NEW k \in Keys, NEW t \in Texts, UpdateText(k, t)
      PROVE  [Promise!Next]_Promise!vars
  BY <1>1, <1>4, UpdatedType, StoreRefines DEF UpdateText
<1>5. ASSUME NEW k \in Keys, SoftDelete(k) \/ Restore(k) PROVE [Promise!Next]_Promise!vars
  BY <1>1, <1>5, UpdatedType, StoreRefines DEF SoftDelete, Restore
<1>9. ASSUME NEW k \in Keys, NEW s \in SUBSET Marks, UpdateMarks(k, s)
      PROVE  [Promise!Next]_Promise!vars
  BY <1>1, <1>9, UpdatedType, StoreRefines DEF UpdateMarks
<1>6. ASSUME NEW k \in Keys, Remove(k) PROVE [Promise!Next]_Promise!vars
  <2>1. CASE Enqueue(k, Deleted)
    <3>1. disk' = Set(disk, k, disk[k]) /\ disk[k] \in Record \cup {None}
      BY <1>1, <1>6 DEF Remove, Set, TypeOK
    <3> QED
      BY <1>6, <2>1, <3>1, EnqueueRefines DEF Remove, work
  <2>2. CASE UNCHANGED table
    BY <1>6, <2>2, RefusedRefines DEF Remove, work
  <2> QED
    BY <1>6, <2>1, <2>2 DEF Remove
<1>7. ASSUME NEW k \in Keys, Purge(k) PROVE [Promise!Next]_Promise!vars
  <2>1. ASSUME Enqueue(k, Deleted), NEW r \in LeftOf(k), disk' = Set(disk, k, r)
        PROVE  [Promise!Next]_Promise!vars
    <3>1. r \in Record \cup {None}
      BY <1>1, LeftOfType
    <3> QED
      BY <1>7, <2>1, <3>1, EnqueueRefines DEF Purge, work
  <2>2. CASE UNCHANGED <<table, disk>>
    BY <1>7, <2>2, RefusedRefines DEF Purge, work
  <2> QED
    BY <1>7, <2>1, <2>2 DEF Purge
<1>8. ASSUME NEW k \in Keys, ReadThrough(k) PROVE [Promise!Next]_Promise!vars
  <2>1. ram' = Set(ram, k, Fallback(k)) /\ UNCHANGED <<table, disk, due>>
    BY <1>8 DEF ReadThrough, durable, table, work
  <2>2. /\ Fallback(k) \in Record \cup {None}
        /\ Part(Fallback(k)) = Part(disk[k])
    BY <1>1, ReadBack
  <2>3. /\ ram' \in [Keys -> Record \cup {None}]
        /\ \A j \in Keys : ram'[j] = IF j = k THEN Fallback(k) ELSE ram[j]
    BY <1>1, <2>1, <2>2 DEF Set, TypeOK
  <2>4. \A j \in Keys : Part(ram'[j]) \in {Part(ram[j]), Part(disk[j]), None}
    BY <2>2, <2>3
  <2> QED
    BY <2>1, <2>3, <2>4, ReadRefines
<1> QED
  BY <1>2, <1>3, <1>4, <1>5, <1>6, <1>7, <1>8, <1>9 DEF Request

LEMMA ProjectsRefine ==
  ASSUME IInv, Projects PROVE [Promise!Next]_Promise!vars
<1>1. ram' \in {ram, LoadAll, Nothing} /\ UNCHANGED <<table, disk, due>>
  BY DEF Projects, CreateProject, Archive, Unarchive, Reload, process, work, table, durable
<1> QED
  BY <1>1, LoadAllRefines

LEMMA HaltRefines ==
  ASSUME IInv, Halt PROVE [Promise!Next]_Promise!vars
<1>1. UNCHANGED <<Promised, Outstanding>>
  BY PromisedStays DEF Halt, durable
<1>2. Shown' = [k \in Kept |-> None]
  BY KeptKeys DEF Halt, Shown, Part, Nothing
<1>3. Untold' = {}
  BY DEF Halt, Untold
<1> QED
  BY <1>1, <1>2, <1>3, EndStep

LEMMA ProcessRefines ==
  ASSUME IInv, Process PROVE [Promise!Next]_Promise!vars
<1>1. CASE Start \/ Stop
  <2>1. ram' \in {ram, LoadAll, Nothing} /\ UNCHANGED <<table, disk, due>>
    BY <1>1 DEF Start, Stop, table, durable
  <2> QED
    BY <2>1, LoadAllRefines
<1>2. CASE StopDead \/ Stopped \/ Crash
  BY <1>2, HaltRefines DEF StopDead, Stopped, Crash
<1> QED
  BY <1>1, <1>2 DEF Process

\* Writing the files of the row the writer is at changes nothing that is promised: the
\* row still says what the record is.
LEMMA WriteFileRefines ==
  ASSUME IInv, NEW k \in Keys, k = cur, cur # None, UNCHANGED <<row, ram, due>>,
         NEW d \in Record \cup {None}, disk' = Set(disk, k, d)
  PROVE  [Promise!Next]_Promise!vars
<1>1. /\ TypeOK
      /\ k \in Keys
      /\ row[k] \in Record \cup {Deleted}
      /\ row[k] # None
  BY CurrentRow DEF IInv
<1>2. row' = Set(row, k, row[k])
  BY <1>1 DEF TypeOK, Set
<1>3. Promised' = [Promised EXCEPT ![k] = Part(Durable(k)')]
  BY <1>1, <1>2, PromisedExcept
<1>4. Durable(k)' = Durable(k)
  BY <1>1 DEF Durable
<1>5. Promised' = Promised
  BY <1>3, <1>4 DEF Promised
<1>6. UNCHANGED <<Outstanding, Untold, Shown>>
  BY ShownStays DEF Outstanding, Untold, Pending
<1> QED
  BY <1>5, <1>6, Stutters DEF Unpromised

LEMMA DoneRefines ==
  ASSUME IInv, Done PROVE [Promise!Next]_Promise!vars
<1>0. PICK k \in Keys : k = cur /\ cur # None
  BY CurrentRow DEF Done, At
<1>1. /\ TypeOK
      /\ k \in Keys
      /\ row[k] \in Record \cup {Deleted}
      /\ row[k] # None
      /\ Written(k)
  BY <1>0, CurrentRow DEF IInv, WrittenWhenDone, Done, At
<1>2. /\ row' = Set(row, k, None)
      /\ disk' = Set(disk, k, disk[k])
      /\ disk[k] \in Record \cup {None}
  BY <1>0, <1>1 DEF Done, RemoveRow, TypeOK, Set
<1>3. /\ Promised' = [Promised EXCEPT ![k] = Part(Durable(k)')]
      /\ Durable(k)' = disk[k]
      /\ Pending' = Pending \ {k}
  BY <1>1, <1>2, PromisedExcept
<1>4. UNCHANGED <<Shown, Untold>>
  BY ShownStays DEF Untold, Done, Finish
<1>5. CASE k \in Kept
  <2>1. Part(Durable(k)) = Part(disk[k])
    BY <1>1, <1>5, KeptKeys, FiledRec, WriteBehindAssumption DEF Written, Durable
  <2>2. Promised' = Promised
    BY <1>3, <2>1 DEF Promised
  <2>3. Outstanding' = Outstanding \ {k}
    BY <1>3 DEF Outstanding
  <2> QED
    BY <1>4, <1>5, <2>2, <2>3, FlushStep
<1>6. CASE k \notin Kept
  <2>1. UNCHANGED <<Promised, Outstanding>>
    BY <1>3, <1>6 DEF Promised, Outstanding
  <2> QED
    BY <1>4, <2>1, Stutters DEF Unpromised
<1> QED
  BY <1>5, <1>6

\* A write that fails changes nothing that is promised: its row stays.
LEMMA FailRefines ==
  ASSUME IInv, Fail PROVE [Promise!Next]_Promise!vars
<1>0. PICK k \in Keys : k = cur /\ cur # None
  BY CurrentRow DEF Fail
<1>1. /\ TypeOK
      /\ row[k] \in Record \cup {Deleted}
      /\ row[k] # None
  BY <1>0, CurrentRow DEF IInv
<1>2. PICK d \in Record \cup {None} : disk' = Set(disk, k, d)
  <2>1. CASE UNCHANGED disk
    <3>1. disk' = Set(disk, k, disk[k]) /\ disk[k] \in Record \cup {None}
      BY <1>1, <2>1 DEF TypeOK, Set
    <3> QED
      BY <3>1
  <2>2. CASE \E r \in LeftOf(k) : disk' = Set(disk, k, r)
    BY <1>1, <2>2, LeftOfType
  <2> QED
    BY <1>0, <2>1, <2>2 DEF Fail
<1>3. UNCHANGED <<row, due, ram>>
  BY DEF Fail, Finish
<1> QED
  BY <1>0, <1>2, <1>3, WriteFileRefines

\* A row that is given up loses the content, and the loss is to be told.
LEMMA GiveUpRefines ==
  ASSUME IInv, GiveUp PROVE [Promise!Next]_Promise!vars
<1>0. PICK k \in Keys : k = cur /\ cur # None
  BY CurrentRow DEF GiveUp, At
<1>1. /\ TypeOK
      /\ row[k] \in Record \cup {Deleted}
      /\ row[k] # None
      /\ disk[k] \in Record \cup {None}
  BY <1>0, CurrentRow DEF IInv, TypeOK
<1>2. row' = Set(row, k, None) /\ disk' = Set(disk, k, disk[k])
  BY <1>0, <1>1 DEF GiveUp, RemoveRow, Set, TypeOK
<1>3. /\ Promised' = [Promised EXCEPT ![k] = Part(Durable(k)')]
      /\ Durable(k)' = disk[k]
      /\ Pending' = Pending \ {k}
  BY <1>1, <1>2, PromisedExcept
<1>4. UNCHANGED Shown
  BY ShownStays DEF GiveUp, Finish
<1>5. due' = due \cup {k}
  BY <1>0 DEF GiveUp
<1>6. CASE k \in Kept
  <2>1. Part(disk[k]) \in StoreContents \cup {None}
    BY <1>1, PartType
  <2>2. /\ k \in Outstanding
        /\ Outstanding' = Outstanding \ {k}
        /\ Untold' = Untold \cup {k}
    BY <1>1, <1>3, <1>5, <1>6 DEF Outstanding, Untold, Pending
  <2> QED
    BY <1>3, <1>4, <1>6, <2>1, <2>2, LoseStep
<1>7. CASE k \notin Kept
  <2>1. UNCHANGED <<Promised, Outstanding, Untold>>
    BY <1>3, <1>5, <1>7 DEF Promised, Outstanding, Untold
  <2> QED
    BY <1>4, <2>1, Stutters DEF Unpromised
<1> QED
  BY <1>6, <1>7

LEMMA TellRefines ==
  ASSUME IInv, Tell PROVE [Promise!Next]_Promise!vars
<1>1. PICK k \in Keys : Announce(k)
  BY DEF Tell
<1>2. UNCHANGED <<Promised, Outstanding, Shown>>
  BY <1>1, PromisedStays, ShownStays DEF Announce, durable
<1>3. Untold' = Untold \ {k}
  BY <1>1 DEF Announce, Untold
<1>4. CASE k \in Kept
  BY <1>2, <1>3, <1>4, TellStep
<1>5. CASE k \notin Kept
  <2>1. UNCHANGED Untold
    BY <1>3, <1>5 DEF Untold
  <2> QED
    BY <1>2, <2>1, Stutters DEF Unpromised
<1> QED
  BY <1>4, <1>5

LEMMA WriteRefines ==
  ASSUME IInv, Write PROVE [Promise!Next]_Promise!vars
<1>1. CASE NextBatch \/ Sleep \/ Take
  BY <1>1, LoadAllRefines DEF NextBatch, Sleep, Take, durable, table
<1>2. CASE WriteHead \/ WriteText \/ DeleteFromDisk
  <2>1. PICK k \in Keys : k = cur /\ cur # None /\ disk[k] \in Record \cup {None}
    BY <1>2, CurrentRow DEF WriteHead, WriteText, DeleteFromDisk, At, IInv, TypeOK
  <2>2. disk' \in [Keys -> Record \cup {None}]
    BY <1>2, WriteHeadInv, WriteTextInv, DeleteFromDiskInv DEF IInv, TypeOK
  <2>3. \A j \in Keys \ {k} : disk'[j] = disk[j]
    BY <1>2, <2>1 DEF WriteHead, WriteText, DeleteFromDisk, IInv, TypeOK, Set
  <2>4. disk' = Set(disk, k, disk'[k])
    BY <2>2, <2>3 DEF IInv, TypeOK, Set
  <2>5. PICK d \in Record \cup {None} : disk' = Set(disk, k, d)
    BY <2>2, <2>4
  <2>6. UNCHANGED <<row, ram, due>>
    BY <1>2 DEF WriteHead, WriteText, DeleteFromDisk, table
  <2> QED
    BY <2>1, <2>5, <2>6, WriteFileRefines
<1> QED
  BY <1>1, <1>2, DoneRefines, FailRefines, GiveUpRefines DEF Write

LEMMA NextRefines ==
  ASSUME IInv, [Next]_vars PROVE [Promise!Next]_Promise!vars
<1>1. CASE UNCHANGED vars
  BY <1>1, LoadAllRefines DEF vars, durable, process, table
<1>2. CASE WriterDies
  BY <1>2, LoadAllRefines DEF WriterDies, durable, table
<1> QED
  BY <1>1, <1>2, RequestRefines, ProjectsRefine, ProcessRefines, WriteRefines, TellRefines DEF Next

\* RefinesDurableStore: whatever crashes, retries, restarts and reloads do, an accepted
\* request is on disk or still in the queue until its write is given up, and the loss
\* is announced unless the process ends first.
THEOREM Refinement == Spec => RefinesDurableStore
<1>1. Init => Promise!Init
  <2> SUFFICES ASSUME Init PROVE Promise!Init
    OBVIOUS
  <2>1. Pending = {} /\ due = {}
    BY DEF Init, Pending
  <2>2. \A k \in Kept : Durable(k) = None /\ ram[k] = None
    BY KeptKeys DEF Init, Durable
  <2> QED
    BY <2>1, <2>2 DEF Promise!Init, Promised, Shown, Outstanding, Untold, Part
<1>2. IInv /\ [Next]_vars => [Promise!Next]_Promise!vars
  BY NextRefines
<1> QED
  BY <1>1, <1>2, Invariant, PTL DEF Spec, RefinesDurableStore, Promise!Spec

=============================================================================
