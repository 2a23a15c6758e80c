------------------------------ MODULE ProjectFiles ------------------------------
(***************************************************************************)
(* The files uploaded to a project: FileService                            *)
(* (backend/app/services/file_service.py) over file_store.py, the routes   *)
(* and tools that read them, and what is on disk: the upload itself, its   *)
(* extracted text, and files.yaml, which lists them.                       *)
(*                                                                         *)
(* A recording is transcribed in a thread while requests go on.  Every     *)
(* other operation acts in one piece after it has found the project.       *)
(***************************************************************************)
EXTENDS PendingWrites

CONSTANTS
  KindOf      \* file -> "audio", "image" or "document"

ASSUME FilesAssumption == KindOf \in [Files -> {"audio", "image", "document"}]

VARIABLES
  fram,       \* file -> its record in RAM, or Ghost, or Absent
  index,      \* file -> the status its entry in the RAM index shows, or Absent
  yaml,       \* file -> the status in files.yaml, or Absent
  resource,   \* uploads that are in resources/
  cached,     \* files whose text is in files/<id>.txt
  transcribing, \* file -> "no", or the record the thread holds is the one in RAM or another
  \* history
  known       \* files that have been uploaded

fileVars == <<fram, index, yaml, resource, cached, transcribing, known>>

FilesInit ==
  /\ fram = [f \in Files |-> Absent]
  /\ index = [f \in Files |-> Absent]
  /\ yaml = [f \in Files |-> Absent]
  /\ resource = {} /\ cached = {} /\ known = {}
  /\ transcribing = [f \in Files |-> "no"]

FileStatuses == {"pending", "ok", "failed", "unsupported", "skipped"}
FileRecord(st, text) == [st |-> st, text |-> text]
Recorded(f) == fram[f] \notin {Absent, Ghost}

(***************************************************************************)
(* file_store                                                              *)
(***************************************************************************)
\* create_file and update_file: RAM, the text's file, the writer.
Store(f, r) ==
  /\ fram' = [fram EXCEPT ![f] = r]
  /\ index' = [index EXCEPT ![f] = r.st]
  /\ cached' = IF r.text THEN cached \cup {f} ELSE cached \ {f}
  /\ pending' = enqueue(pending, f, r.st)

\* load_file: what the record is, from files.yaml if RAM has none.
Reads(f)     == ~Recorded(f) /\ yaml[f] # Absent
load_file(f) == IF Reads(f) THEN FileRecord(yaml[f], f \in cached) ELSE fram[f]
FileFound(f) == load_file(f) \notin {Absent, Ghost}

(***************************************************************************)
(* FileService                                                             *)
(***************************************************************************)
\* What extract makes of a document or, on request, of a recording; it may be empty.
extract(f) == IF KindOf[f] = "image" THEN {FileRecord("unsupported", FALSE)}
              ELSE {FileRecord("ok", TRUE), FileRecord("ok", FALSE), FileRecord("failed", FALSE)}

Uploaded(f) == CASE KindOf[f] = "image" -> {FileRecord("skipped", FALSE)}
                 [] KindOf[f] = "audio" -> {FileRecord("pending", FALSE)}
                 [] OTHER               -> extract(f)

\* One file of a request.  Its transcription is started after the last file, so a file
\* that is refused leaves the recordings before it without one.
upload_files(f, refused) ==
  /\ f \notin known /\ known' = known \cup {f}
  /\ \E r \in Uploaded(f) : Store(f, r)
  /\ resource' = resource \cup {f}
  /\ transcribing' = [transcribing EXCEPT ![f] = IF KindOf[f] = "audio" /\ ~refused THEN "own" ELSE "no"]
  /\ UNCHANGED <<behind, yaml>>

\* `logger` is not defined in file_service.py: after the text has been assigned to the
\* record the log call raises, its handler raises again, and update_file is not reached.
_transcribe_async(f) ==
  /\ transcribing[f] # "no"
  /\ \E ok \in BOOLEAN :
       fram' = IF ok /\ transcribing[f] = "own" THEN [fram EXCEPT ![f] = FileRecord("ok", TRUE)] ELSE fram
  /\ transcribing' = [transcribing EXCEPT ![f] = "no"]
  /\ UNCHANGED <<behind, pending, index, yaml, resource, cached, known>>

reextract(f) ==
  /\ FileFound(f)
  /\ \E r \in IF f \in resource THEN extract(f) ELSE {FileRecord("failed", FALSE)} : Store(f, r)
  /\ ReadBehind(IF Reads(f) THEN {f} ELSE {})
  /\ UNCHANGED <<yaml, resource, transcribing, known>>

\* The record the thread holds is not the one in RAM any more.
Orphan(f) == transcribing' = IF transcribing[f] = "own" THEN [transcribing EXCEPT ![f] = "other"] ELSE transcribing

delete_file(f) ==
  /\ FileFound(f)
  /\ resource' = resource \ {f}
  /\ fram' = [fram EXCEPT ![f] = Absent] /\ index' = [index EXCEPT ![f] = Absent]
  /\ cached' = cached \ {f}
  /\ pending' = enqueue(pending, f, Absent)
  /\ Orphan(f)
  /\ UNCHANGED <<behind, yaml, known>>

\* get_by_id for content, preview, download and read_project_file.
get_by_id(f) ==
  /\ Reads(f)
  /\ fram' = [fram EXCEPT ![f] = load_file(f)]
  /\ index' = [index EXCEPT ![f] = yaml[f]]
  /\ ReadBehind({f})
  /\ UNCHANGED <<pending, yaml, resource, cached, transcribing, known>>

\* list_files without an entry in RAM takes those of files.yaml, without records.
list_files ==
  /\ \A f \in Files : index[f] = Absent
  /\ fram' = [f \in Files |-> IF yaml[f] # Absent THEN Ghost ELSE fram[f]]
  /\ index' = yaml
  /\ ReadBehind({f \in Files : yaml[f] # Absent})
  /\ UNCHANGED <<pending, yaml, resource, cached, transcribing, known>>

(***************************************************************************)
(* The writer and the server                                               *)
(***************************************************************************)
\* A deletion removes the text and leaves the entry of files.yaml (delete_from_disk).
write_file ==
  /\ pending # <<>> /\ Head(pending).id \in Files
  /\ LET f == Head(pending).id IN
       IF Head(pending).payload = Absent
       THEN cached' = cached \ {f} /\ UNCHANGED yaml
       ELSE yaml' = [yaml EXCEPT ![f] = Head(pending).payload] /\ UNCHANGED cached
  /\ pending' = Tail(pending)
  /\ UNCHANGED <<behind, fram, index, resource, transcribing, known>>

\* The loader reads no text; recover_pending_transcriptions raises at its log call.
files_loaded ==
  /\ fram' = [f \in Files |-> IF yaml[f] = Absent THEN Absent ELSE FileRecord(yaml[f], FALSE)]
  /\ index' = yaml
  /\ transcribing' = [f \in Files |-> "no"]
  /\ UNCHANGED <<yaml, resource, cached, known>>

FileRequests ==
  \/ \E f \in Files : \/ /\ KindOf[f] \in kinds
                         /\ \E refused \in BOOLEAN : upload_files(f, refused)
                      \/ reextract(f) \/ delete_file(f) \/ get_by_id(f)
  \/ list_files

FilesNext ==
  \/ FileRequests
  \/ \E f \in Files : _transcribe_async(f)
  \/ write_file
=================================================================================
