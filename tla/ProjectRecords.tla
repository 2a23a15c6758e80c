----------------------------- MODULE ProjectRecords -----------------------------
(***************************************************************************)
(* The memories and the files of a project over one queue of writes, and a *)
(* server that may stop at any time.                                       *)
(***************************************************************************)
EXTENDS MemoryGraph, ProjectFiles

recordVars == <<pending, kinds, behind, memVars, fileVars>>

RecordsInit == PendingInit /\ MemInit /\ FilesInit

\* The projects are loaded before the writer is started; the queue is a database.
Restart ==
  /\ "crash" \in kinds
  /\ memories_loaded /\ files_loaded
  /\ behind' = behind \cup Pending
  /\ UNCHANGED <<pending, kinds>>

RecordsNext ==
  \/ MemNext /\ UNCHANGED <<kinds, fileVars>>
  \/ FilesNext /\ UNCHANGED <<kinds, memVars>>
  \/ Restart

RecordsSpec == RecordsInit /\ [][RecordsNext]_recordVars

(***************************************************************************)
(* Properties                                                              *)
(***************************************************************************)
\* Of any memories there is one whose parent is not among them, whatever is moved, deleted and
\* found again in its file: no circle of parents, unless a restart or a look-up read one of the
\* records that make it behind the queue.
ParentsAcyclic ==
  \A S \in SUBSET (Memories \ behind) :
    S # {} => \E m \in S : Here(m) => ram[m].parent \notin S

\* A parent or the other end of a link is there, but for records that were read from
\* files behind the queue.
NothingDangles ==
  \A m \in Memories : Here(m) /\ m \notin behind =>
    \A x \in ({ram[m].parent} \ {NoMemory}) \cup ram[m].links : Here(x) \/ x \in behind

\* What RAM holds is what the file holds or will hold, but for refused updates that left a
\* title behind, and for records read behind the queue.
RamIsFiled ==
  /\ \A m \in Memories \ (Pending \cup behind \cup torn) : ram[m] = disk[m] \/ ram[m] = Ghost
  /\ \A f \in Files \ (Pending \cup behind) : index[f] # Absent => index[f] = yaml[f]
=================================================================================
