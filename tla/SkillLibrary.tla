------------------------------ MODULE SkillLibrary ------------------------------
(***************************************************************************)
(* The skills of a project: a row, a copy of the library's file and the    *)
(* Manager AI section of CLAUDE.md, which a user may edit                  *)
(* (services/skill_library_service.py, routers/project_skills.py).         *)
(*                                                                         *)
(* No constraint of the table makes a name unique.  An assignment copies   *)
(* the file and rewrites the section between two awaits, a removal deletes *)
(* the file before it deletes the row and the section comes last.          *)
(***************************************************************************)
EXTENDS Naturals, FiniteSets

CONSTANTS
  Skills, NoSkill,
  SkillCalls,  \* requests to assign or to remove a skill
  MaxEdits     \* bound: edits of CLAUDE.md by the user and of the library

VARIABLES
  library,     \* name -> version of the file in the library, 0: none
  assigned,    \* project_skills: name -> requests whose rows it has
  copies,      \* .claude/skills: name -> version copied, 0: none
  marks,       \* the markers in CLAUDE.md: "none", "both", "begin"
  section,     \* names between them
  call,        \* request -> where it is, the skill, the rows it has found
  edits,
  \* history
  mixed,       \* names two requests have been about at once
  torn         \* a request has been cut or has failed half-way, or the user has edited the section

skillVars == <<library, assigned, copies, marks, section, call, edits, mixed, torn>>

Idle == [at |-> "idle", name |-> NoSkill, found |-> {}]

SkillsInit(calls) ==
  /\ library = [n \in Skills |-> 1]
  /\ assigned = [n \in Skills |-> {}] /\ copies = [n \in Skills |-> 0]
  /\ marks = "none" /\ section = {}
  /\ call = [r \in SkillCalls |-> IF r \in calls THEN Idle ELSE [Idle EXCEPT !.at = "done"]]
  /\ edits = IF calls = {} THEN MaxEdits ELSE 0
  /\ mixed = {} /\ torn = FALSE

Files(c) == {n \in Skills : c[n] # 0}
Under == {r \in SkillCalls : call[r].at \notin {"idle", "done"}}
Goes(r, to) == call' = [call EXCEPT ![r].at = to]

\* Mutant: a section is rewritten, never taken away.
_update_claude_md_keeps(c) ==
  IF Files(c) # {}
  THEN /\ section' = Files(c)
       /\ marks' = "both"
  ELSE UNCHANGED <<section, marks>>

\* With no skill left the section goes; where there is none it is appended.
_update_claude_md(c) ==
  /\ section' = Files(c)
  /\ marks' = IF Files(c) = {} THEN "none" ELSE "both"

\* Without the end marker index() raises ValueError.
Raises == marks = "begin"

\* The SELECT, in one session per request.
selects(r, n, kind) ==
  /\ call[r].at = "idle"
  /\ kind = "assigning" => library[n] # 0
  /\ call' = [call EXCEPT ![r] = [at |-> kind, name |-> n, found |-> assigned[n]]]
  /\ mixed' = IF \E q \in Under : call[q].name = n THEN mixed \cup {n} ELSE mixed
  /\ UNCHANGED <<library, assigned, copies, marks, section, edits, torn>>

\* scalar_one_or_none: 409 or 404; two rows of a name raise, whatever is asked; copy2 raises
\* when the file has been deleted since it was looked for.
refused(r) ==
  /\ \/ call[r].at = "assigning" /\ (call[r].found # {} \/ library[call[r].name] = 0)
     \/ call[r].at = "removing" /\ Cardinality(call[r].found) # 1
  /\ Goes(r, "done")
  /\ UNCHANGED <<library, assigned, copies, marks, section, edits, mixed, torn>>

\* copy2 and the section, then the INSERT waits for its turn.
assign(r) ==
  /\ call[r].at = "assigning" /\ call[r].found = {} /\ library[call[r].name] # 0
  /\ copies' = [copies EXCEPT ![call[r].name] = library[call[r].name]]
  /\ IF Raises
     THEN /\ Goes(r, "done") /\ torn' = TRUE
          /\ UNCHANGED <<marks, section>>
     ELSE /\ _update_claude_md(copies')
          /\ Goes(r, "inserting")
          /\ UNCHANGED torn
  /\ UNCHANGED <<library, assigned, edits, mixed>>

Locked == \E r \in SkillCalls : call[r].at = "deleted"

assigns(r) ==
  /\ call[r].at = "inserting" /\ ~Locked
  /\ assigned' = [assigned EXCEPT ![call[r].name] = @ \cup {r}]
  /\ Goes(r, "done")
  /\ UNCHANGED <<library, copies, marks, section, edits, mixed, torn>>

unassign(r) ==
  /\ call[r].at = "removing" /\ Cardinality(call[r].found) = 1
  /\ copies' = [copies EXCEPT ![call[r].name] = 0]
  /\ Goes(r, "deleting")
  /\ UNCHANGED <<library, assigned, marks, section, edits, mixed, torn>>

\* The DELETE holds the write lock until the commit.
unassigned(r) ==
  /\ call[r].at = "deleting" /\ ~Locked
  /\ IF Raises
     THEN /\ Goes(r, "done") /\ torn' = TRUE
          /\ UNCHANGED <<marks, section>>
     ELSE /\ _update_claude_md(copies)
          /\ Goes(r, "deleted")
          /\ UNCHANGED torn
  /\ UNCHANGED <<library, assigned, copies, edits, mixed>>

\* A row that is gone already is deleted with a warning.
unassign_skill(r) ==
  /\ call[r].at = "deleted"
  /\ assigned' = [assigned EXCEPT ![call[r].name] = @ \ call[r].found]
  /\ Goes(r, "done")
  /\ UNCHANGED <<library, copies, marks, section, edits, mixed, torn>>

\* create refuses a name that exists; update_content leaves the copies of the projects alone.
create_skill(n) ==
  /\ edits < MaxEdits /\ library[n] = 0
  /\ library' = [library EXCEPT ![n] = 1] /\ edits' = edits + 1
  /\ UNCHANGED <<assigned, copies, marks, section, call, mixed, torn>>

update_content(n) ==
  /\ edits < MaxEdits /\ library[n] # 0
  /\ library' = [library EXCEPT ![n] = @ + 1] /\ edits' = edits + 1
  /\ UNCHANGED <<assigned, copies, marks, section, call, mixed, torn>>

\* The user deletes a library file, CLAUDE.md or the end marker, or puts the marker back.
user_deletes(n) ==
  /\ edits < MaxEdits /\ library[n] # 0
  /\ library' = [library EXCEPT ![n] = 0] /\ edits' = edits + 1
  /\ UNCHANGED <<assigned, copies, marks, section, call, mixed, torn>>

user_edits(m) ==
  /\ edits < MaxEdits /\ edits' = edits + 1
  /\ marks # "none" /\ m # marks
  /\ marks' = m /\ torn' = TRUE
  /\ section' = IF m = "none" THEN {} ELSE section
  /\ UNCHANGED <<library, assigned, copies, call, mixed>>

\* The server ends: what has not been committed is not there.
SkillsCrash ==
  /\ Under # {}
  /\ call' = [r \in SkillCalls |-> IF r \in Under THEN [call[r] EXCEPT !.at = "done"] ELSE call[r]]
  /\ torn' = TRUE
  /\ UNCHANGED <<library, assigned, copies, marks, section, edits, mixed>>

SkillsNext ==
  \/ \E r \in SkillCalls :
       \/ \E n \in Skills : selects(r, n, "assigning") \/ selects(r, n, "removing")
       \/ refused(r) \/ assign(r) \/ assigns(r) \/ unassign(r) \/ unassigned(r) \/ unassign_skill(r)
  \/ \E n \in Skills : create_skill(n) \/ update_content(n) \/ user_deletes(n)
  \/ \E m \in {"none", "both", "begin"} : user_edits(m)
  \/ SkillsCrash
=================================================================================
