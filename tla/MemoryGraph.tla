------------------------------ MODULE MemoryGraph ------------------------------
(***************************************************************************)
(* The memories of a project: MemoryService                                *)
(* (backend/app/services/memory_service.py) over memory_store.py, its MCP  *)
(* tools, and the files that the writer keeps for them.                    *)
(*                                                                         *)
(* A memory has a parent and links to others.  A handler awaits the list   *)
(* of projects and then acts in one piece; only link looks two memories up *)
(* one after the other.  load_memory falls back to the file: a memory that *)
(* was deleted is found again until the writer has removed its file.       *)
(***************************************************************************)
EXTENDS PendingWrites, SequencesExt

CONSTANTS
  NoMemory,   \* no parent
  Linkers     \* slots for link calls in progress

Titles == {0, 1}
MemoryRecord == [parent : Memories \cup {NoMemory}, links : SUBSET Memories, title : Titles]

ASSUME MemoryAssumption ==
  /\ IsFiniteSet(Memories) /\ NoMemory \notin Memories
  /\ {Absent, Ghost} \cap MemoryRecord = {}

VARIABLES
  ram,        \* memory -> its record in RAM, or Ghost, or Absent
  disk,       \* memory -> its file
  linking,    \* slot -> the link call in progress
  \* history
  made,       \* memories that have been created: an id is a uuid
  torn        \* memories that a refused update has changed

memVars == <<ram, disk, linking, made, torn>>

Record(p) == [parent |-> p, links |-> {}, title |-> 0]
NoLink    == [from |-> NoMemory, to |-> NoMemory]

MemInit ==
  /\ ram = [m \in Memories |-> Absent]
  /\ disk = [m \in Memories |-> Absent]
  /\ linking = [c \in Linkers |-> NoLink]
  /\ made = {} /\ torn = {}

IsRecord(x) == x \notin {Absent, Ghost}
Here(m)     == IsRecord(ram[m])

(***************************************************************************)
(* memory_store                                                            *)
(***************************************************************************)
\* load_memory leaves what it read in RAM.
Loads(m)          == ~Here(m) /\ IsRecord(disk[m])
Loaded(S)         == [m \in Memories |-> IF m \in S /\ Loads(m) THEN disk[m] ELSE ram[m]]
load_memory(m)    == Loaded({m})[m]
LoadBehind(S)     == ReadBehind({m \in S : Loads(m)})

\* RAM is `content` from now on, and the writer is asked to write the memories `ids`.
File(content, ids) ==
  /\ ram' = content
  /\ pending' = enqueue_all(pending, ids, content)

Children(r, m) == {x \in Memories : IsRecord(r[x]) /\ r[x].parent = m}
Linking(r, m)  == {x \in Memories : IsRecord(r[x]) /\ m \in r[x].links}

\* Mutant: links to the memory are left.
detached_children(r, m) ==
  [x \in Memories |-> IF x = m THEN Absent
                      ELSE IF x \in Children(r, m) THEN [r[x] EXCEPT !.parent = NoMemory] ELSE r[x]]

detached(r, m) ==
  [x \in Memories |->
     IF x = m THEN Absent
     ELSE IF IsRecord(r[x])
          THEN [r[x] EXCEPT !.parent = IF @ = m THEN NoMemory ELSE @, !.links = @ \ {m}]
          ELSE r[x]]

\* Children first, then the memories that link to it, then the memory.  The row of a child that
\* links to it, too, is the second one.
delete_memory(r, m) ==
  \E cs \in SetToSeqs(Children(r, m) \ Linking(r, m)), ls \in SetToSeqs(Linking(r, m)) :
    File(detached(r, m), cs \o ls \o <<m>>)

(***************************************************************************)
(* Tools                                                                   *)
(***************************************************************************)
memory_create(m, p) ==
  /\ m \notin made /\ made' = made \cup {m}
  /\ p # NoMemory => IsRecord(load_memory(p))
  /\ File([Loaded({p} \cap Memories) EXCEPT ![m] = Record(p)], <<m>>)
  /\ LoadBehind({p} \cap Memories)
  /\ UNCHANGED <<disk, linking, torn>>

Found(m) == IsRecord(load_memory(m))

\* What the walk of _would_create_cycle visits from p until it meets m, loading it: no more than
\* p and the parents of what it visits, of those that are found.
Walk(m, p) ==
  LET there     == {x \in Memories : Found(x)}
      Closed(W) == \A x \in W \ {m} : {load_memory(x).parent} \cap there \subseteq W
  IN  {x \in there : \A W \in SUBSET there : {p} \cap there \subseteq W /\ Closed(W) => x \in W}

\* Mutant: only the parent itself is looked at.
_would_create_cycle_one(m, p) == IsRecord(load_memory(p)) /\ m = load_memory(p).parent

_would_create_cycle(m, p) == m \in Walk(m, p)

memory_update_title(m, t) ==
  /\ Found(m)
  /\ File([Loaded({m}) EXCEPT ![m].title = t], <<m>>)
  /\ LoadBehind({m})
  /\ UNCHANGED <<disk, linking, made, torn>>

\* Mutant: the change is made in RAM only.
memory_update_unfiled(m, t, p) ==
  /\ Found(m) /\ p # m
  /\ p # NoMemory => IsRecord(load_memory(p)) /\ ~_would_create_cycle(m, p)
  /\ File([Loaded({m} \cup Walk(m, p)) EXCEPT ![m].title = t, ![m].parent = p], <<>>)
  /\ LoadBehind({m} \cup Walk(m, p))
  /\ UNCHANGED <<disk, linking, made, torn>>

memory_update(m, t, p) ==
  /\ Found(m) /\ p # m
  /\ p # NoMemory => IsRecord(load_memory(p)) /\ ~_would_create_cycle(m, p)
  /\ File([Loaded({m} \cup Walk(m, p)) EXCEPT ![m].title = t, ![m].parent = p], <<m>>)
  /\ LoadBehind({m} \cup Walk(m, p))
  /\ UNCHANGED <<disk, linking, made, torn>>

\* The title has been assigned to the record in RAM when the parent is refused.
memory_update_refused(m, t, p) ==
  /\ Found(m) /\ p # NoMemory
  /\ p = m \/ ~IsRecord(load_memory(p)) \/ _would_create_cycle(m, p)
  /\ LET S == {m} \cup (IF p = m THEN {} ELSE Walk(m, p))
     IN ram' = [Loaded(S) EXCEPT ![m].title = t] /\ LoadBehind(S)
  /\ torn' = IF load_memory(m).title = t THEN torn ELSE torn \cup {m}
  /\ UNCHANGED <<pending, disk, linking, made>>

memory_delete(m) ==
  /\ Found(m) /\ \A x \in Memories : Loaded({m})[x] # Ghost
  /\ delete_memory(Loaded({m}), m)
  /\ LoadBehind({m})
  /\ UNCHANGED <<disk, linking, made, torn>>

\* The loop over the children meets a record that is None: those before it are detached.
memory_delete_raises(m) ==
  LET r == Loaded({m}) IN
  /\ Found(m) /\ \E x \in Memories : r[x] = Ghost
  /\ \E D \in SUBSET Children(r, m) : \E cs \in SetToSeqs(D) :
       File([x \in Memories |-> IF x \in D THEN [r[x] EXCEPT !.parent = NoMemory] ELSE r[x]], cs)
  /\ LoadBehind({m})
  /\ UNCHANGED <<disk, linking, made, torn>>

memory_link(c, m, x) ==
  /\ linking[c] = NoLink /\ m # x
  /\ ram' = Loaded({m}) /\ LoadBehind({m})
  /\ linking' = IF Found(m) THEN [linking EXCEPT ![c] = [from |-> m, to |-> x]] ELSE linking
  /\ UNCHANGED <<pending, disk, made, torn>>

\* The second look-up; add_link raises when the first memory is gone by now.
link_added(c) ==
  LET m == linking[c].from  x == linking[c].to  r == Loaded({x}) IN
  /\ linking[c] # NoLink
  /\ IF IsRecord(r[x]) /\ IsRecord(r[m]) THEN File([r EXCEPT ![m].links = @ \cup {x}], <<m>>)
                                         ELSE File(r, <<>>)
  /\ LoadBehind({x})
  /\ linking' = [linking EXCEPT ![c] = NoLink]
  /\ UNCHANGED <<disk, made, torn>>

memory_unlink(m, x) ==
  /\ Found(m) /\ x \in load_memory(m).links
  /\ File([Loaded({m}) EXCEPT ![m].links = @ \ {x}], <<m>>)
  /\ LoadBehind({m})
  /\ UNCHANGED <<disk, linking, made, torn>>

\* list_memories without an entry in RAM takes the ones of the file, without records.
list_memories ==
  /\ \A m \in Memories : ram[m] = Absent
  /\ ram' = [m \in Memories |-> IF IsRecord(disk[m]) THEN Ghost ELSE Absent]
  /\ UNCHANGED <<pending, disk, linking, behind, made, torn>>

\* list_memories_full (counts, get_related, search) then loads each.
list_memories_full ==
  /\ \A m \in Memories : ram[m] = Absent
  /\ ram' = Loaded(Memories) /\ LoadBehind(Memories)
  /\ UNCHANGED <<pending, disk, linking, made, torn>>

(***************************************************************************)
(* The writer and the server                                               *)
(***************************************************************************)
write_memory ==
  /\ pending # <<>> /\ Head(pending).id \in Memories
  /\ disk' = [disk EXCEPT ![Head(pending).id] = Head(pending).payload]
  /\ pending' = Tail(pending)
  /\ UNCHANGED <<ram, linking, behind, made, torn>>

\* The files are loaded before the writer has written what was pending.
memories_loaded ==
  /\ ram' = disk
  /\ linking' = [c \in Linkers |-> NoLink]
  /\ torn' = {}
  /\ UNCHANGED <<disk, made>>

MemNext ==
  \/ \E m \in Memories, p \in IF "parents" \in kinds THEN Memories \cup {NoMemory} ELSE {NoMemory} :
       /\ kinds \cap {"parents", "links", "titles", "list"} # {}
       /\ "two" \in kinds => Cardinality(made) < 2
       /\ memory_create(m, p)
  \/ /\ "parents" \in kinds
     /\ \E m \in Memories, p \in Memories \cup {NoMemory}, t \in IF "titles" \in kinds THEN Titles ELSE {0} :
          memory_update(m, t, p) \/ memory_update_refused(m, t, p)
  \/ "titles" \in kinds /\ \E m \in Memories : memory_update_title(m, 1)
  \/ \E m \in Memories : memory_delete(m) \/ memory_delete_raises(m)
  \/ "links" \in kinds /\ \E m, x \in Memories : memory_unlink(m, x) \/ \E c \in Linkers : memory_link(c, m, x)
  \/ \E c \in Linkers : link_added(c)
  \/ "list" \in kinds /\ (list_memories \/ list_memories_full)
  \/ write_memory
=================================================================================
