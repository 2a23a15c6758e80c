----------------------------- MODULE ProjectFolder -----------------------------
(***************************************************************************)
(* Whose records a project's folder has: the id in manager.json, in the    *)
(* index and in the file of every record, in RAM and in the queue, and the *)
(* health check that puts the ids of the files right (routers/projects.py, *)
(* services/project_service.py).                                           *)
(***************************************************************************)
EXTENDS Naturals, FiniteSets

CONSTANTS
  Ids,         \* project ids
  NoId,
  Kept,        \* records of the folder
  MaxFolder    \* bound: requests and edits from outside

VARIABLES
  project,     \* the row's id, or NoId
  manager_json,\* the id in the file, or NoId: missing, unreadable, without an id
  filed,       \* record -> id in its own file, or NoId: no file
  index,       \* record -> id in the index file
  held,        \* record -> id of the copy in RAM
  queued,      \* record -> id of the copy that waits to be written
  asked,       \* requests and edits so far
  \* history
  right        \* record -> the id a health check has left it with, or NoId

folderVars == <<project, manager_json, filed, index, held, queued, asked, right>>

None == [k \in Kept |-> NoId]

FolderInit(files, n) ==
  /\ project = NoId /\ manager_json \in IF n < MaxFolder THEN Ids \cup {NoId} ELSE {NoId}
  /\ filed = files /\ index = files
  /\ held = None /\ queued = None /\ asked = n /\ right = None

Request == asked < MaxFolder /\ asked' = asked + 1

\* The id of manager.json is used again; the records are not loaded.
create_project(id) ==
  /\ Request /\ project = NoId
  /\ id \in IF manager_json = NoId THEN Ids ELSE {manager_json}
  /\ project' = id
  /\ UNCHANGED <<manager_json, filed, index, held, queued, right>>

\* The folder and RAM stay.
delete_project ==
  /\ Request /\ project # NoId /\ project' = NoId
  /\ UNCHANGED <<manager_json, filed, index, held, queued, right>>

\* clear_all_caches empties RAM; the queue is left.
install_manager_json ==
  /\ Request /\ project # NoId
  /\ manager_json' = project
  /\ held' = None
  /\ UNCHANGED <<project, filed, index, queued, right>>

\* A start, or rebuild-index: RAM is what the files say.
load ==
  /\ Request /\ project # NoId
  /\ held' = filed
  /\ index' \in {index, filed}     \* rebuild-index makes the index of the files again
  /\ UNCHANGED <<project, manager_json, filed, queued, right>>

\* load_* takes the file where RAM has no copy.
Copy(k) == IF held[k] # NoId THEN held[k] ELSE filed[k]

\* Any change of a record writes the whole of it, with the id the copy has.
update_record(k) ==
  /\ Request /\ project # NoId /\ Copy(k) # NoId
  /\ held' = [held EXCEPT ![k] = Copy(k)]
  /\ queued' = [queued EXCEPT ![k] = Copy(k)]
  /\ right' = IF Copy(k) = right[k] THEN right ELSE [right EXCEPT ![k] = NoId]
  /\ UNCHANGED <<project, manager_json, filed, index>>

create_record(k) ==
  /\ Request /\ project # NoId /\ Copy(k) = NoId
  /\ held' = [held EXCEPT ![k] = project]
  /\ queued' = [queued EXCEPT ![k] = project]
  /\ right' = [right EXCEPT ![k] = NoId]
  /\ UNCHANGED <<project, manager_json, filed, index>>

\* The record's file, and the index rebuilt from the files.
write_record(k) ==
  /\ queued[k] # NoId
  /\ filed' = [filed EXCEPT ![k] = queued[k]]
  /\ index' = filed'
  /\ queued' = [queued EXCEPT ![k] = NoId]
  /\ UNCHANGED <<project, manager_json, held, asked, right>>

Wrong(ids) == {k \in Kept : ids[k] \notin {NoId, manager_json}}
Fixed(ids) == [k \in Kept |-> IF k \in Wrong(ids) THEN manager_json ELSE ids[k]]

\* Mutant: the index files alone are put right.
_fix_files_not(ids) == ids

_fix_files(ids) == Fixed(ids)

\* project_health: the index and the files, by the id of manager.json, never RAM or the queue;
\* the check is made twice, the answer is the second's.
_check_resource_consistency ==
  /\ Request /\ project # NoId /\ manager_json # NoId
  /\ index' = Fixed(index) /\ filed' = _fix_files(filed)
  /\ right' = [k \in Kept |-> IF filed[k] # NoId /\ queued[k] \in {NoId, manager_json}
                              THEN manager_json ELSE NoId]
  /\ UNCHANGED <<project, manager_json, held, queued>>

\* Somebody copies or pulls a record's file and the index of another project.
pull(k, id) ==
  /\ Request /\ id \in Ids
  /\ filed' = [filed EXCEPT ![k] = id] /\ index' = [index EXCEPT ![k] = id]
  /\ right' = [right EXCEPT ![k] = NoId]
  /\ UNCHANGED <<project, manager_json, held, queued>>

FolderNext ==
  \/ \E id \in Ids : create_project(id)
  \/ delete_project \/ install_manager_json \/ load \/ _check_resource_consistency
  \/ \E k \in Kept :
       \/ update_record(k) \/ create_record(k) \/ write_record(k)
       \/ \E id \in Ids : pull(k, id)
=================================================================================
