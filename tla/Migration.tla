------------------------------- MODULE Migration -------------------------------
(***************************************************************************)
(* What a start does to the records of the projects: the rows of the old   *)
(* database are dumped into .manager_ai/ once (migration/db_to_files.py),  *)
(* old statuses are put right, then the write queue is injected and RAM is *)
(* loaded from the files (main.py).  The process may end at every await.   *)
(*                                                                         *)
(* A record is an issue, a memory or a file; an issue's feedback and a     *)
(* file's text are written to the disk at once, not through the queue.     *)
(***************************************************************************)
EXTENDS Naturals

CONSTANTS
  Projects,
  MaxStarts    \* bound: starts of the server

VARIABLES
  rows,        \* the database: project -> kinds of rows it has
  legacy,      \* projects with an issue whose status is "Completed"
  where,       \* project -> "active", "archived" or "missing" (its folder)
  disk,        \* project -> kinds of records and parts in its files
  sealed,      \* projects with a .migration_done
  ram,         \* memory_store: project -> kinds of records
  pending,     \* the write queue's own database, which outlives the process
  server,      \* "down", "migrating", "fixing", "loading", "serving"
  todo,        \* active projects migrate_all_projects has still to visit
  dump,        \* project that is being dumped and the next kind
  starts,
  \* history
  passes,      \* project -> starts that visited it and ended their fix-up
  exported     \* projects sealed after a dump

migrationVars == <<rows, legacy, where, disk, sealed, ram, pending, server, todo, dump, starts,
                   passes, exported>>

Records == {"issue", "memory", "file"}
Parts == {"feedback", "text"}
NoDump == [project |-> "none", next |-> "none"]

\* What the tables, the folders and the server are before the first start.
MigrationInit(tables, old, folders, files, n) ==
  /\ rows = tables /\ legacy = old /\ where = folders /\ disk = files
  /\ sealed = {} /\ exported = {}
  /\ ram = [p \in Projects |-> {}] /\ pending = [p \in Projects |-> {}]
  /\ server = "down" /\ todo = {} /\ dump = NoDump
  /\ starts = n /\ passes = [p \in Projects |-> 0]

Active == {p \in Projects : where[p] # "archived"}

(***************************************************************************)
(* The start                                                               *)
(***************************************************************************)
lifespan ==
  /\ server = "down" /\ starts < MaxStarts
  /\ starts' = starts + 1
  /\ server' = "migrating" /\ todo' = Active
  /\ UNCHANGED <<rows, legacy, where, disk, sealed, ram, pending, dump, passes, exported>>

\* The index files are written by the background writer, from the records it has filed.
Populated(p) == disk[p] \cap Records # {}

Visited(p) == todo' = todo \ {p}

\* Without its folder, or sealed, a project is skipped; with files it is sealed as it is.
skip(p) ==
  /\ server = "migrating" /\ dump = NoDump /\ p \in todo /\ Visited(p)
  /\ where[p] = "missing" \/ p \in sealed \/ Populated(p)
  /\ sealed' = IF where[p] = "missing" THEN sealed ELSE sealed \cup {p}
  /\ UNCHANGED <<rows, legacy, where, disk, ram, pending, server, dump, starts, passes, exported>>

migrate_project(p) ==
  /\ server = "migrating" /\ dump = NoDump /\ p \in todo /\ Visited(p)
  /\ where[p] # "missing" /\ p \notin sealed /\ ~Populated(p)
  /\ dump' = [project |-> p, next |-> "issue"]
  /\ UNCHANGED <<rows, legacy, where, disk, sealed, ram, pending, server, starts, passes, exported>>

After(kind) == CASE kind = "issue" -> "memory" [] kind = "memory" -> "file" [] OTHER -> "seal"
PartOf(kind) == CASE kind = "issue" -> {"feedback"} [] kind = "file" -> {"text"} [] OTHER -> {}

\* create_issue, create_memory, create_file: RAM, and the queue if one has been injected, which
\* none is before the load; the part is written to its file at once.
dump_kind(p, kind) ==
  /\ dump = [project |-> p, next |-> kind]
  /\ kind \in Records /\ ~(kind = "issue" /\ p \in legacy)
  /\ ram' = [ram EXCEPT ![p] = @ \cup (rows[p] \cap {kind})]
  /\ disk' = [disk EXCEPT ![p] = @ \cup (rows[p] \cap PartOf(kind))]
  /\ dump' = [project |-> p, next |-> After(kind)]
  /\ UNCHANGED <<rows, legacy, where, sealed, pending, server, todo, starts, passes, exported>>

\* No member of IssueStatus is stored as "Completed": the SELECT raises, the project is left.
_dump_issues_fails(p) ==
  /\ dump = [project |-> p, next |-> "issue"] /\ p \in legacy
  /\ dump' = NoDump
  /\ UNCHANGED <<rows, legacy, where, disk, sealed, ram, pending, server, todo, starts, passes, exported>>

_seal_sentinel(p) ==
  /\ dump = [project |-> p, next |-> "seal"]
  /\ sealed' = sealed \cup {p} /\ exported' = exported \cup {p}
  /\ dump' = NoDump
  /\ UNCHANGED <<rows, legacy, where, disk, ram, pending, server, todo, starts, passes>>

migrate_all_projects ==
  /\ server = "migrating" /\ todo = {} /\ dump = NoDump
  /\ server' = "fixing"
  /\ UNCHANGED <<rows, legacy, where, disk, sealed, ram, pending, todo, dump, starts, passes, exported>>

\* Mutant: the fix-up does not commit.
StillLegacy_all == legacy

\* The UPDATE is of all projects, archived ones too.
StillLegacy == {}

_startup_fixup_statuses ==
  /\ server = "fixing"
  /\ legacy' = StillLegacy
  /\ passes' = [p \in Projects |-> IF where[p] = "active" /\ passes[p] < 2 THEN passes[p] + 1 ELSE passes[p]]
  /\ server' = "loading"
  /\ UNCHANGED <<rows, where, disk, sealed, ram, pending, todo, dump, starts, exported>>

\* init_project puts what the files say in the place of what RAM had.
Loaded(p) == disk[p] \cap Records

_startup_load_projects ==
  /\ server = "loading"
  /\ ram' = [p \in Projects |-> CASE where[p] = "active" -> Loaded(p)
                                  [] where[p] = "missing" -> {}
                                  [] OTHER -> ram[p]]
  /\ server' = "serving"
  /\ UNCHANGED <<rows, legacy, where, disk, sealed, pending, todo, dump, starts, passes, exported>>

(***************************************************************************)
(* While the server runs                                                   *)
(***************************************************************************)
\* A new record of a kind.
create(p, kind) ==
  /\ server = "serving" /\ where[p] = "active" /\ kind \notin ram[p]
  /\ ram' = [ram EXCEPT ![p] = @ \cup {kind}]
  /\ pending' = [pending EXCEPT ![p] = @ \cup {kind}]
  /\ UNCHANGED <<rows, legacy, where, disk, sealed, server, todo, dump, starts, passes, exported>>

BackgroundWriter(p) ==
  /\ server = "serving" /\ where[p] # "missing" /\ pending[p] # {}
  /\ disk' = [disk EXCEPT ![p] = @ \cup pending[p]]
  /\ pending' = [pending EXCEPT ![p] = {}]
  /\ UNCHANGED <<rows, legacy, where, sealed, ram, server, todo, dump, starts, passes, exported>>

\* The project is loaded; its rows wait for the next start.
unarchive_project(p) ==
  /\ server = "serving" /\ where[p] = "archived"
  /\ where' = [where EXCEPT ![p] = "active"]
  /\ ram' = [ram EXCEPT ![p] = Loaded(p)]
  /\ UNCHANGED <<rows, legacy, disk, sealed, pending, server, todo, dump, starts, passes, exported>>

\* The user brings the folder back, with the files another machine has committed or none.
folder_returns(p, cloned) ==
  /\ server = "down" /\ where[p] = "missing"
  /\ where' = [where EXCEPT ![p] = "active"]
  /\ disk' = [disk EXCEPT ![p] = cloned]
  /\ UNCHANGED <<rows, legacy, sealed, ram, pending, server, todo, dump, starts, passes, exported>>

\* The process ends, orderly or not; the queue's database and the files stay.
ends ==
  /\ server # "down"
  /\ server' = "down" /\ todo' = {} /\ dump' = NoDump
  /\ ram' = [p \in Projects |-> {}]
  /\ UNCHANGED <<rows, legacy, where, disk, sealed, pending, starts, passes, exported>>

MigrationNext ==
  \/ lifespan \/ migrate_all_projects \/ _startup_fixup_statuses \/ _startup_load_projects \/ ends
  \/ \E p \in Projects :
       \/ skip(p) \/ migrate_project(p) \/ _dump_issues_fails(p) \/ _seal_sentinel(p)
       \/ BackgroundWriter(p) \/ unarchive_project(p)
       \/ \E kind \in Records : dump_kind(p, kind) \/ create(p, kind)
       \/ \E cloned \in {{}, {"memory"}, {"issue", "feedback"}} : folder_returns(p, cloned)
=================================================================================
