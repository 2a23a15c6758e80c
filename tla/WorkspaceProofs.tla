---------------------------- MODULE WorkspaceProofs ----------------------------
(***************************************************************************)
(* Proofs about Workspace, for any projects, records, skills, requests,    *)
(* starts and edits.  The three parts share no variable: each has an       *)
(* inductive invariant of its own, and the steps of the other two leave it *)
(* alone.                                                                  *)
(***************************************************************************)
EXTENDS Workspace, TLAPS, FiniteSetTheorems

(***************************************************************************)
(* The migration                                                           *)
(***************************************************************************)
\* The first start that gets through the fix-up puts every status right, so in the next one no
\* dump fails: whoever has been visited is sealed, and when the visits are over all are.
Dumping(p) == dump # NoDump /\ dump.project = p

MigrationInv ==
  /\ where = [p \in Projects |-> where[p]]
  /\ passes = [p \in Projects |-> passes[p]] /\ \A p \in Projects : passes[p] \in 0..2
  /\ \A p \in Projects : passes[p] > 0 => legacy = {}
  /\ server = "fixing" => todo = {} /\ dump = NoDump
  /\ server \in {"migrating", "fixing"} /\ legacy = {} =>
       \A p \in Projects : where[p] = "active" => p \in todo \/ p \in sealed \/ Dumping(p)
  /\ TwoStartsSeal

\* A visit, and the three stages of a dump.
LEMMA Visits ==
  ASSUME MigrationInv, NEW p \in Projects,
         \/ skip(p) \/ migrate_project(p) \/ _dump_issues_fails(p) \/ _seal_sentinel(p)
         \/ \E kind \in Records : dump_kind(p, kind)
  PROVE  MigrationInv'
<1> USE DEF MigrationInv, TwoStartsSeal, Dumping, NoDump
<1>1. CASE skip(p)
  BY <1>1 DEF skip, Visited
<1>2. CASE migrate_project(p)
  BY <1>2 DEF migrate_project, Visited
<1>3. CASE _dump_issues_fails(p)
  BY <1>3 DEF _dump_issues_fails
<1>4. CASE _seal_sentinel(p)
  BY <1>4 DEF _seal_sentinel
<1>5. ASSUME NEW kind \in Records, dump_kind(p, kind) PROVE MigrationInv'
  BY <1>5 DEF dump_kind, Records, After
<1> QED
  BY <1>1, <1>2, <1>3, <1>4, <1>5

\* The stages of a start.
LEMMA Stages ==
  ASSUME MigrationInv,
         lifespan \/ migrate_all_projects \/ _startup_fixup_statuses \/ _startup_load_projects \/ ends
  PROVE  MigrationInv'
<1> USE DEF MigrationInv, TwoStartsSeal, Dumping
<1>1. CASE lifespan
  BY <1>1 DEF lifespan, Active
<1>2. CASE migrate_all_projects
  BY <1>2 DEF migrate_all_projects
<1>3. CASE _startup_fixup_statuses
  <2>1. ASSUME NEW p \in Projects, passes'[p] = 2 PROVE p \in sealed'
    <3>1. CASE where[p] = "active" /\ passes[p] < 2
      BY <1>3, <2>1, <3>1 DEF _startup_fixup_statuses
    <3>2. CASE ~(where[p] = "active" /\ passes[p] < 2)
      BY <1>3, <2>1, <3>2 DEF _startup_fixup_statuses
    <3> QED
      BY <3>1, <3>2
  <2>2. legacy' = {} /\ server' = "loading"
    BY <1>3 DEF _startup_fixup_statuses, StillLegacy
  <2>3. passes' = [p \in Projects |-> passes'[p]] /\ \A p \in Projects : passes'[p] \in 0..2
    BY <1>3 DEF _startup_fixup_statuses
  <2> QED
    BY <1>3, <2>1, <2>2, <2>3 DEF _startup_fixup_statuses
<1>4. CASE _startup_load_projects
  BY <1>4 DEF _startup_load_projects
<1>5. CASE ends
  BY <1>5 DEF ends
<1> QED
  BY <1>1, <1>2, <1>3, <1>4, <1>5

\* What happens between two starts.
LEMMA Service ==
  ASSUME MigrationInv, NEW p \in Projects,
         \/ BackgroundWriter(p) \/ unarchive_project(p)
         \/ \E kind \in Records : create(p, kind)
         \/ \E cloned \in {{}, {"memory"}, {"issue", "feedback"}} : folder_returns(p, cloned)
  PROVE  MigrationInv'
<1> USE DEF MigrationInv, TwoStartsSeal, Dumping
<1>1. CASE BackgroundWriter(p)
  BY <1>1 DEF BackgroundWriter
<1>2. CASE unarchive_project(p)
  BY <1>2 DEF unarchive_project
<1>3. ASSUME NEW kind \in Records, create(p, kind) PROVE MigrationInv'
  BY <1>3 DEF create
<1>4. ASSUME NEW cloned, folder_returns(p, cloned) PROVE MigrationInv'
  BY <1>4 DEF folder_returns
<1> QED
  BY <1>1, <1>2, <1>3, <1>4

LEMMA MigrationStep ==
  ASSUME MigrationInv, MigrationNext \/ UNCHANGED migrationVars PROVE MigrationInv'
<1>1. CASE UNCHANGED migrationVars
  BY <1>1 DEF migrationVars, MigrationInv, TwoStartsSeal, Dumping
<1>2. CASE MigrationNext
  BY <1>2, Visits, Stages, Service DEF MigrationNext
<1> QED
  BY <1>1, <1>2

\* Two starts that were not cut migrate or seal every active project: for any number of
\* projects and of starts that are cut at any await in between.
THEOREM TwoStartsMigrate == Spec => []TwoStartsSeal
<1>1. Init => MigrationInv
  BY WorkspaceAssumption DEF Init, MigrationInit, MigrationInv, TwoStartsSeal
<1>2. MigrationInv /\ [Next]_vars => MigrationInv'
  BY MigrationStep DEF Next, vars
<1>3. MigrationInv => TwoStartsSeal
  BY DEF MigrationInv
<1> QED
  BY <1>1, <1>2, <1>3, PTL DEF Spec

(***************************************************************************)
(* The skills                                                              *)
(***************************************************************************)
IsCall(c) == c \in [at : {"idle", "assigning", "inserting", "removing", "deleting", "deleted", "done"},
                    name : {c.name}, found : {c.found}]

SkillShape ==
  /\ assigned = [n \in Skills |-> assigned[n]] /\ copies = [n \in Skills |-> copies[n]]
  /\ call = [r \in SkillCalls |-> call[r]] /\ \A r \in SkillCalls : IsCall(call[r])
  /\ \A r \in Under : call[r].name \in Skills
  /\ section \subseteq Skills

\* The section lists the files, but for one that a removal has deleted and has still to take out.
Listing ==
  \A n \in Skills :
    \/ n \in section <=> copies[n] # 0
    \/ \E r \in SkillCalls : call[r].at = "deleting" /\ call[r].name = n

\* A row and a file, or neither.
Whole(n) == Cardinality(assigned[n]) = IF copies[n] # 0 THEN 1 ELSE 0

\* What a request has found is still so, and it has done a half of what it does.
Halfway(r, n) ==
  /\ call[r].found = assigned[n]
  /\ call[r].at \in {"assigning", "removing"} => Whole(n)
  /\ call[r].at = "inserting" => assigned[n] = {} /\ copies[n] # 0
  /\ call[r].at \in {"deleting", "deleted"} => copies[n] = 0

Agreeing ==
  \A n \in Skills \ mixed :
    /\ \A r \in Under : call[r].name = n => Halfway(r, n)
    /\ (\A r \in Under : call[r].name # n) => Whole(n)

SkillInv ==
  /\ SkillShape
  /\ \A q, r \in Under : call[q].name = call[r].name => q = r \/ call[r].name \in mixed
  /\ ~torn => Listing /\ Agreeing

\* A request goes on or ends: the other skills and the other requests stay as they are.
LEMMA GoesOn ==
  ASSUME SkillInv, NEW r \in Under, NEW k \in Skills, call[r].name = k,
         NEW to \in {"inserting", "deleting", "deleted", "done"}, Goes(r, to),
         assigned' = [n \in Skills |-> assigned'[n]], copies' = [n \in Skills |-> copies'[n]],
         section' \subseteq Skills, mixed' = mixed, torn => torn',
         \A n \in Skills : n # k => assigned'[n] = assigned[n] /\ copies'[n] = copies[n],
         ~torn' => Listing',
         ~torn' /\ k \notin mixed => IF to = "done" THEN Whole(k)' ELSE Halfway(r, k)'
  PROVE  SkillInv'
<1>1. r \in SkillCalls /\ k \in Skills /\ IsCall(call[r])
  BY DEF SkillInv, SkillShape, Under
<1>2. /\ call' = [q \in SkillCalls |-> call'[q]]
      /\ \A q \in SkillCalls : q # r => call'[q] = call[q]
      /\ call'[r].at = to /\ call'[r].name = k /\ call'[r].found = call[r].found /\ IsCall(call'[r])
  BY <1>1 DEF Goes, SkillInv, SkillShape, IsCall
<1>3. Under' \subseteq Under /\ \A q \in Under : q # r => q \in Under'
  BY <1>1, <1>2 DEF Under
<1>4. r \in Under' <=> to # "done"
  BY <1>1, <1>2 DEF Under
<1>5. \A q \in Under : q \in SkillCalls
  BY DEF Under
<1>6. SkillShape'
  BY <1>1, <1>2, <1>3, <1>5 DEF SkillInv, SkillShape
<1>7. \A p, q \in Under' : call'[p].name = call'[q].name => p = q \/ call'[q].name \in mixed'
  BY <1>2, <1>3, <1>5 DEF SkillInv
<1>8. ASSUME ~torn', NEW n \in Skills, n \notin mixed
      PROVE  /\ \A q \in Under' : call'[q].name = n => Halfway(q, n)'
             /\ (\A q \in Under' : call'[q].name # n) => Whole(n)'
  <2>1. /\ \A q \in Under : call[q].name = n => Halfway(q, n)
        /\ (\A q \in Under : call[q].name # n) => Whole(n)
    BY <1>8 DEF SkillInv, Agreeing
  <2>2. CASE n = k
    <3>1. \A q \in Under' : call'[q].name = n => q = r
      BY <1>2, <1>3, <1>5, <1>8, <2>2 DEF SkillInv
    <3>2. IF to = "done" THEN Whole(n)' ELSE Halfway(r, n)'
      BY <1>8, <2>2
    <3>3. ASSUME NEW q \in Under', call'[q].name = n PROVE Halfway(q, n)'
      <4>1. q = r /\ to # "done"
        BY <1>4, <3>1, <3>3
      <4> QED
        BY <4>1, <3>2
    <3>4. ASSUME \A q \in Under' : call'[q].name # n PROVE Whole(n)'
      BY <1>2, <1>4, <2>2, <3>2, <3>4
    <3> QED
      BY <3>3, <3>4
  <2>3. CASE n # k
    <3>1. assigned'[n] = assigned[n] /\ copies'[n] = copies[n]
      BY <2>3
    <3>2. Whole(n)' <=> Whole(n)
      BY <3>1 DEF Whole
    <3>3. \A q \in Under' : call'[q].name = n => q # r /\ call'[q] = call[q]
      BY <1>2, <1>3, <1>5, <2>3
    <3>4. \A q \in Under' : call'[q].name = n => Halfway(q, n)'
      BY <1>3, <2>1, <3>1, <3>2, <3>3 DEF Halfway
    <3>5. ASSUME \A q \in Under' : call'[q].name # n PROVE Whole(n)'
      BY <1>2, <1>3, <1>5, <2>1, <2>3, <3>2, <3>5
    <3> QED
      BY <3>4, <3>5
  <2> QED
    BY <2>2, <2>3
<1>9. ~torn' => Agreeing'
  BY <1>8 DEF Agreeing
<1> QED
  BY <1>6, <1>7, <1>9 DEF SkillInv

\* The steps of a request after its SELECT.
LEMMA RequestStep ==
  ASSUME SkillInv, NEW r \in SkillCalls,
         \/ refused(r) \/ assign(r) \/ assigns(r) \/ unassign(r) \/ unassigned(r) \/ unassign_skill(r)
  PROVE  SkillInv'
<1>1. r \in Under
  BY DEF Under, refused, assign, assigns, unassign, unassigned, unassign_skill
<1>2. PICK k \in Skills : call[r].name = k
  BY <1>1 DEF SkillInv, SkillShape
<1>3. IsCall(call[r]) /\ SkillShape
  BY DEF SkillInv, SkillShape
<1>4. ~torn /\ k \notin mixed => Halfway(r, k)
  BY <1>1, <1>2 DEF SkillInv, Agreeing
<1>5. \A to : Goes(r, to) => /\ call'[r].at = to /\ call'[r].found = call[r].found
                            /\ \A q \in SkillCalls : q # r => call'[q] = call[q]
  BY <1>3 DEF Goes, SkillShape, IsCall
<1>6. CASE refused(r)
  <2>1. UNCHANGED <<copies, section, assigned, mixed, torn>> /\ Goes(r, "done")
        /\ call[r].at \in {"assigning", "removing"}
    BY <1>6 DEF refused
  <2>2. ~torn' => Listing'
    BY <1>5, <2>1 DEF SkillInv, Listing
  <2>3. ~torn' /\ k \notin mixed => Whole(k)'
    BY <1>4, <2>1 DEF Halfway, Whole
  <2> QED
    BY <1>1, <1>2, <1>3, <2>1, <2>2, <2>3, GoesOn DEF SkillShape
<1>7. CASE assign(r)
  <2>1. /\ copies' = [copies EXCEPT ![k] = library[k]] /\ library[k] # 0
        /\ call[r].found = {} /\ call[r].at = "assigning" /\ UNCHANGED <<assigned, mixed>>
    BY <1>2, <1>7 DEF assign
  <2>2. /\ copies'[k] # 0 /\ copies' = [n \in Skills |-> copies'[n]]
        /\ \A n \in Skills : n # k => copies'[n] = copies[n]
    BY <1>3, <2>1 DEF SkillShape
  <2>3. ~torn /\ k \notin mixed => assigned'[k] = {}
    BY <1>4, <2>1 DEF Halfway
  <2>4. CASE Raises
    <3>1. Goes(r, "done") /\ torn' = TRUE /\ UNCHANGED section
      BY <1>7, <2>4 DEF assign
    <3> QED
      BY <1>1, <1>2, <1>3, <2>1, <2>2, <3>1, GoesOn DEF SkillShape
  <2>5. CASE ~Raises
    <3>1. Goes(r, "inserting") /\ UNCHANGED torn /\ section' = Files(copies')
      BY <1>7, <2>5 DEF assign, _update_claude_md
    <3>2. section' \subseteq Skills /\ Listing'
      BY <3>1 DEF Listing, Files
    <3>3. call'[r].at = "inserting" /\ call'[r].found = {}
      BY <1>5, <2>1, <3>1
    <3>4. ~torn' /\ k \notin mixed => Halfway(r, k)'
      BY <2>2, <2>3, <3>1, <3>3 DEF Halfway
    <3> QED
      BY <1>1, <1>2, <1>3, <2>1, <2>2, <3>1, <3>2, <3>4, GoesOn DEF SkillShape
  <2> QED
    BY <2>4, <2>5
<1>8. CASE assigns(r)
  <2>1. /\ assigned' = [assigned EXCEPT ![k] = @ \cup {r}] /\ UNCHANGED <<copies, section, mixed, torn>>
        /\ Goes(r, "done") /\ call[r].at = "inserting"
    BY <1>2, <1>8 DEF assigns
  <2>2. /\ assigned'[k] = assigned[k] \cup {r} /\ assigned' = [n \in Skills |-> assigned'[n]]
        /\ \A n \in Skills : n # k => assigned'[n] = assigned[n]
    BY <1>3, <2>1 DEF SkillShape
  <2>3. ~torn' => Listing'
    BY <1>5, <2>1 DEF SkillInv, Listing
  <2>4. ~torn' /\ k \notin mixed => Whole(k)'
    <3>1. ~torn /\ k \notin mixed => assigned'[k] = {r} /\ copies'[k] # 0
      BY <1>4, <2>1, <2>2 DEF Halfway
    <3>2. Cardinality({r}) = 1
      BY FS_Singleton
    <3> QED
      BY <2>1, <3>1, <3>2 DEF Whole
  <2> QED
    BY <1>1, <1>2, <1>3, <2>1, <2>2, <2>3, <2>4, GoesOn DEF SkillShape
<1>9. CASE unassign(r)
  <2>1. /\ copies' = [copies EXCEPT ![k] = 0] /\ UNCHANGED <<assigned, section, mixed, torn>>
        /\ Goes(r, "deleting") /\ call[r].at = "removing"
    BY <1>2, <1>9 DEF unassign
  <2>2. /\ copies'[k] = 0 /\ copies' = [n \in Skills |-> copies'[n]]
        /\ \A n \in Skills : n # k => copies'[n] = copies[n]
    BY <1>3, <2>1 DEF SkillShape
  <2>3. \A q \in SkillCalls : call[q].at = "deleting" => call'[q] = call[q]
    BY <1>5, <2>1
  <2>4. call'[r].at = "deleting" /\ call'[r].name = k
    BY <1>2, <1>3, <2>1 DEF Goes, SkillShape, IsCall
  <2>5. ~torn' => Listing'
    BY <2>1, <2>2, <2>3, <2>4 DEF SkillInv, Listing
  <2>6. ~torn' /\ k \notin mixed => Halfway(r, k)'
    BY <1>4, <1>5, <2>1, <2>2 DEF Halfway
  <2> QED
    BY <1>1, <1>2, <1>3, <2>1, <2>2, <2>5, <2>6, GoesOn DEF SkillShape
<1>10. CASE unassigned(r)
  <2>1. UNCHANGED <<assigned, copies, mixed>> /\ call[r].at = "deleting"
    BY <1>10 DEF unassigned
  <2>2. CASE Raises
    <3>1. Goes(r, "done") /\ torn' = TRUE /\ UNCHANGED section
      BY <1>10, <2>2 DEF unassigned
    <3> QED
      BY <1>1, <1>2, <1>3, <2>1, <3>1, GoesOn DEF SkillShape
  <2>3. CASE ~Raises
    <3>1. Goes(r, "deleted") /\ UNCHANGED torn /\ section' = Files(copies')
      BY <1>10, <2>1, <2>3 DEF unassigned, _update_claude_md
    <3>2. section' \subseteq Skills /\ Listing'
      BY <3>1 DEF Listing, Files
    <3>3. ~torn' /\ k \notin mixed => Halfway(r, k)'
      BY <1>4, <1>5, <2>1, <3>1 DEF Halfway
    <3> QED
      BY <1>1, <1>2, <1>3, <2>1, <3>1, <3>2, <3>3, GoesOn DEF SkillShape
  <2> QED
    BY <2>2, <2>3
<1>11. CASE unassign_skill(r)
  <2>1. /\ assigned' = [assigned EXCEPT ![k] = @ \ call[r].found] /\ UNCHANGED <<copies, section, mixed, torn>>
        /\ Goes(r, "done") /\ call[r].at = "deleted"
    BY <1>2, <1>11 DEF unassign_skill
  <2>2. /\ assigned'[k] = assigned[k] \ call[r].found /\ assigned' = [n \in Skills |-> assigned'[n]]
        /\ \A n \in Skills : n # k => assigned'[n] = assigned[n]
    BY <1>3, <2>1 DEF SkillShape
  <2>3. ~torn' => Listing'
    BY <1>5, <2>1 DEF SkillInv, Listing
  <2>4. ~torn' /\ k \notin mixed => Whole(k)'
    <3>1. ~torn /\ k \notin mixed => assigned'[k] = {} /\ copies'[k] = 0
      BY <1>4, <2>1, <2>2 DEF Halfway
    <3>2. Cardinality({}) = 0
      BY FS_EmptySet
    <3> QED
      BY <2>1, <3>1, <3>2 DEF Whole
  <2> QED
    BY <1>1, <1>2, <1>3, <2>1, <2>2, <2>3, <2>4, GoesOn DEF SkillShape
<1> QED
  BY <1>6, <1>7, <1>8, <1>9, <1>10, <1>11

\* The SELECT of a request: from here on a second request makes its skill a mixed one.
LEMMA Selects ==
  ASSUME SkillInv, NEW r \in SkillCalls, NEW k \in Skills, NEW kind \in {"assigning", "removing"}, selects(r, k, kind)
  PROVE  SkillInv'
<1>1. /\ call' = [call EXCEPT ![r] = [at |-> kind, name |-> k, found |-> assigned[k]]]
      /\ UNCHANGED <<assigned, copies, section, torn>> /\ call[r].at = "idle"
      /\ mixed' = IF \E q \in Under : call[q].name = k THEN mixed \cup {k} ELSE mixed
  BY DEF selects
<1>2. /\ call'[r].at = kind /\ call'[r].name = k /\ call'[r].found = assigned[k] /\ IsCall(call'[r])
      /\ \A q \in SkillCalls : q # r => call'[q] = call[q]
      /\ call' = [q \in SkillCalls |-> call'[q]]
  BY <1>1 DEF SkillInv, SkillShape, IsCall
<1>3. r \notin Under /\ Under' = Under \cup {r} /\ \A q \in Under : q \in SkillCalls /\ q # r
  BY <1>1, <1>2 DEF Under
<1>4. SkillShape'
  BY <1>1, <1>2, <1>3 DEF SkillInv, SkillShape
<1>5. \A q, p \in Under' : call'[q].name = call'[p].name => q = p \/ call'[p].name \in mixed'
  BY <1>1, <1>2, <1>3 DEF SkillInv
<1>6. ~torn' => Listing'
  BY <1>1, <1>2 DEF SkillInv, Listing
<1>7. ASSUME ~torn', NEW n \in Skills, n \notin mixed'
      PROVE  /\ \A q \in Under' : call'[q].name = n => Halfway(q, n)'
             /\ (\A q \in Under' : call'[q].name # n) => Whole(n)'
  <2>1. /\ \A q \in Under : call[q].name = n => Halfway(q, n)
        /\ (\A q \in Under : call[q].name # n) => Whole(n)
    BY <1>1, <1>7 DEF SkillInv, Agreeing
  <2>2. Whole(n)' <=> Whole(n)
    BY <1>1 DEF Whole
  <2>3. CASE n = k
    <3>1. \A q \in Under : call[q].name # n
      BY <1>1, <1>7, <2>3
    <3>2. Whole(n)
      BY <2>1, <3>1
    <3>3. Halfway(r, n)'
      BY <1>1, <1>2, <2>2, <2>3, <3>2 DEF Halfway
    <3> QED
      BY <1>2, <1>3, <2>2, <3>1, <3>2, <3>3
  <2>4. CASE n # k
    <3>1. \A q \in Under : call'[q] = call[q]
      BY <1>2, <1>3
    <3>2. \A q \in Under' : call'[q].name = n => Halfway(q, n)'
      BY <1>1, <1>2, <1>3, <2>1, <2>2, <2>4, <3>1 DEF Halfway
    <3> QED
      BY <1>3, <2>1, <2>2, <3>1, <3>2
  <2> QED
    BY <2>3, <2>4
<1> QED
  BY <1>4, <1>5, <1>6, <1>7 DEF SkillInv, Agreeing

LEMMA SkillStep ==
  ASSUME SkillInv, SkillsNext \/ UNCHANGED skillVars PROVE SkillInv'
<1>1. ASSUME UNCHANGED <<assigned, copies, section, call, mixed, torn>> PROVE SkillInv'
  BY <1>1 DEF SkillInv, SkillShape, Under, Listing, Agreeing, Halfway, Whole
<1>2. ASSUME UNCHANGED <<assigned, copies, call, mixed>>, torn', section' \subseteq Skills PROVE SkillInv'
  BY <1>2 DEF SkillInv, SkillShape, Under
<1>3. CASE SkillsCrash
  <2>1. /\ call' = [r \in SkillCalls |-> IF r \in Under THEN [call[r] EXCEPT !.at = "done"] ELSE call[r]]
        /\ torn' /\ UNCHANGED <<assigned, copies, section, mixed>>
    BY <1>3 DEF SkillsCrash
  <2>2. \A r \in SkillCalls : call'[r].at \in {"idle", "done"} /\ IsCall(call'[r])
    BY <2>1 DEF SkillInv, SkillShape, IsCall, Under
  <2>3. Under' = {}
    BY <2>2 DEF Under
  <2> QED
    BY <2>1, <2>2, <2>3 DEF SkillInv, SkillShape
<1>4. ASSUME NEW m, user_edits(m) PROVE SkillInv'
  BY <1>4, <1>2 DEF user_edits, SkillInv, SkillShape
<1> QED
  BY <1>1, <1>3, <1>4, RequestStep, Selects DEF SkillsNext, skillVars, create_skill, update_content, user_deletes

\* Row, file and section of a skill agree between requests: for any number of skills, requests,
\* edits and restarts.
THEOREM SkillsStayInStep == Spec => []SkillsAgree
<1>1. Init => SkillInv
  <2>1. ASSUME NEW calls, SkillsInit(calls) PROVE SkillInv
    <3>1. SkillShape /\ Under = {} /\ Listing
      BY <2>1 DEF SkillsInit, SkillShape, Under, Idle, IsCall, Listing
    <3>2. Cardinality({}) = 0
      BY FS_EmptySet
    <3> QED
      BY <2>1, <3>1, <3>2 DEF SkillsInit, SkillInv, Agreeing, Whole
  <2> QED
    BY <2>1 DEF Init
<1>2. SkillInv /\ [Next]_vars => SkillInv'
  BY SkillStep DEF Next, vars
<1>3. SkillInv => SkillsAgree
  <2> SUFFICES ASSUME SkillInv, Under = {}, ~torn
               PROVE  /\ section = Files(copies)
                      /\ \A n \in Skills \ mixed : Cardinality(assigned[n]) = (IF copies[n] # 0 THEN 1 ELSE 0)
    BY DEF SkillsAgree
  <2>1. \A r \in SkillCalls : call[r].at # "deleting"
    BY DEF Under
  <2> QED
    BY <2>1 DEF SkillInv, SkillShape, Listing, Files, Agreeing, Whole
<1> QED
  BY <1>1, <1>2, <1>3, PTL DEF Spec

(***************************************************************************)
(* The records of a folder                                                 *)
(***************************************************************************)
\* What waits to be written for a record that was put right has the right id.
FolderInv ==
  /\ filed = [k \in Kept |-> filed[k]] /\ index = [k \in Kept |-> index[k]]
  /\ queued = [k \in Kept |-> queued[k]] /\ right = [k \in Kept |-> right[k]]
  /\ \A k \in Kept : filed[k] # NoId => index[k] # NoId
  /\ \A k \in Kept : right[k] # NoId => queued[k] \in {NoId, right[k]}
  /\ RightStays

LEMMA FolderStep ==
  ASSUME FolderInv, FolderNext \/ UNCHANGED folderVars PROVE FolderInv'
<1> USE DEF FolderInv, RightStays
<1>1. CASE UNCHANGED <<filed, index, queued, right>>
  BY <1>1
<1>2. CASE load
  BY <1>2 DEF load
<1>3. CASE _check_resource_consistency
  BY <1>3 DEF _check_resource_consistency, _fix_files, Fixed, Wrong
<1>4. ASSUME NEW k \in Kept, update_record(k) PROVE FolderInv'
  BY <1>4 DEF update_record
<1>5. ASSUME NEW k \in Kept, create_record(k) PROVE FolderInv'
  BY <1>5 DEF create_record
<1>6. ASSUME NEW k \in Kept, write_record(k) PROVE FolderInv'
  BY <1>6 DEF write_record
<1>7. ASSUME NEW k \in Kept, NEW id \in Ids, pull(k, id) PROVE FolderInv'
  BY <1>7 DEF pull
<1> QED
  BY <1>1, <1>2, <1>3, <1>4, <1>5, <1>6, <1>7
     DEF FolderNext, folderVars, create_project, delete_project, install_manager_json

\* A record that was put right keeps its id, for any number of records, ids and requests.
THEOREM RightIdsStay == Spec => []RightStays
<1>1. Init => FolderInv
  BY WorkspaceAssumption DEF Init, FolderInit, None, FolderInv, RightStays
<1>2. FolderInv /\ [Next]_vars => FolderInv'
  BY FolderStep DEF Next, vars
<1>3. FolderInv => RightStays
  BY DEF FolderInv
<1> QED
  BY <1>1, <1>2, <1>3, PTL DEF Spec
================================================================================
