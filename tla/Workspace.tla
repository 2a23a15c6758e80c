------------------------------- MODULE Workspace -------------------------------
(***************************************************************************)
(* What the server keeps in the folders of the projects besides the        *)
(* records themselves: the migration from the database, the skills, whose  *)
(* records they are.  A behaviour is about one scenario.                   *)
(***************************************************************************)
EXTENDS Migration, SkillLibrary, ProjectFolder

CONSTANT Scenarios

ASSUME WorkspaceAssumption ==
  \A s \in Scenarios :
    /\ s.folders \in [Projects -> {"active", "archived", "missing"}]
    /\ s.filed \in [Kept -> Ids \cup {NoId}]

vars == <<migrationVars, skillVars, folderVars>>

Init ==
  \E s \in Scenarios :
    /\ MigrationInit(s.tables, s.old, s.folders, s.files, s.starts)
    /\ SkillsInit(s.calls)
    /\ FolderInit(s.filed, s.asked)

Next ==
  \/ MigrationNext /\ UNCHANGED <<skillVars, folderVars>>
  \/ SkillsNext /\ UNCHANGED <<migrationVars, folderVars>>
  \/ FolderNext /\ UNCHANGED <<migrationVars, skillVars>>

Spec == Init /\ [][Next]_vars

(***************************************************************************)
(* Properties                                                              *)
(***************************************************************************)
\* Two starts that were not cut migrate or seal every active project, also one that has issues
\* of the old status "Completed", however often the process ended in between.
TwoStartsSeal == \A p \in Projects : passes[p] = 2 => p \in sealed

\* Between requests the section of CLAUDE.md lists the files of .claude/skills and a skill has
\* a row if and only if it has a file: the section unless something was cut, failed or edited,
\* the row unless, too, two requests were about that skill at once.
SkillsAgree ==
  Under = {} /\ ~torn =>
    /\ section = Files(copies)
    /\ \A n \in Skills \ mixed : Cardinality(assigned[n]) = (IF copies[n] # 0 THEN 1 ELSE 0)

\* A record the health check has put right keeps the id of manager.json in its file and in the
\* index, until a copy of another id that RAM or the queue had is changed or written.
RightStays == \A k \in Kept : right[k] # NoId => filed[k] = right[k] /\ index[k] = right[k]

\* What the docstring of db_to_files.py says of the migration: the rows of a project that has
\* been dumped and sealed are in its files, or wait in the queue.
MigratedIsFiled ==
  server = "serving" =>
    \A p \in exported : where[p] = "active" => rows[p] \cap Records \subseteq disk[p] \cup pending[p]
=================================================================================
