----------------------------- MODULE CatalogProofs -----------------------------
(***************************************************************************)
(* Proofs about PipelineCatalog, for any pipelines, agents, events and     *)
(* requests, and any finite set of step ids.                               *)
(*                                                                         *)
(* A request acts on what it read before others wrote.  The invariant says *)
(* what is still true of it (FoundOK): a step that was one of a pipeline   *)
(* is so or is gone (Known), because ids are taken once and no request     *)
(* moves a step; the constraints refuse the rest (Accepted), so that the   *)
(* tables stay Sound.  What no constraint keeps is that the indices of a   *)
(* pipeline's steps begin with 0 and leave nothing out (GapFree): every    *)
(* request keeps it for the pipelines that are not thinned.  A reordering  *)
(* of steps that were read before another was added is accepted only if    *)
(* nothing stands where it puts them, and then there is no gap either      *)
(* (StepsReordered, by counting: NoRoom).                                  *)
(*                                                                         *)
(* With GapFree an index is a place (IndexIsPlace), and a step has the row *)
(* at its place while no step before it was repeated (RowIsStep): the way  *)
(* of a rejected step rests on both.  An import takes the first ids left, in  *)
(* the order of the file (NewStepsInOrder), so that the rules it renames   *)
(* are between the same places as in the file.                             *)
(***************************************************************************)
EXTENDS PipelineCatalog, TLAPS, FiniteSetTheorems

(***************************************************************************)
(* Counting                                                                *)
(***************************************************************************)
Rank(S, g, s) == Cardinality({t \in S : g[t] <= g[s]})
Place(S, s) == Cardinality({t \in S : t <= s})

\* Of n things that are numbered each has a rank of its own in 1..n, in the order of the numbers.
AreRanked(S, g) ==
  /\ Cardinality(S) \in Nat
  /\ \A s \in S : Rank(S, g, s) \in 1..Cardinality(S)
  /\ \A s, t \in S : Rank(S, g, s) = Rank(S, g, t) => s = t
  /\ \A s, t \in S : g[s] < g[t] => Rank(S, g, s) < Rank(S, g, t)
  /\ \A n \in 1..Cardinality(S) : \E s \in S : Rank(S, g, s) = n

LEMMA Ranked ==
  ASSUME NEW S, IsFiniteSet(S), NEW g \in [S -> Nat], \A s, t \in S : g[s] = g[t] => s = t
  PROVE  AreRanked(S, g)
<1> DEFINE Upto(s) == {t \in S : g[t] <= g[s]}
           f == [s \in S |-> Rank(S, g, s)]
<1>1. \A s \in S : /\ Upto(s) \in SUBSET S /\ IsFiniteSet(Upto(s)) /\ Upto(s) # {}
                   /\ Rank(S, g, s) \in Nat /\ Rank(S, g, s) <= Cardinality(S)
  BY FS_Subset, FS_CardinalityType DEF Rank
<1>2. Cardinality(S) \in Nat
  BY FS_CardinalityType
<1>3. \A s \in S : Rank(S, g, s) \in 1..Cardinality(S)
  <2>1. \A s \in S : Rank(S, g, s) # 0
    BY <1>1, FS_EmptySet DEF Rank
  <2> HIDE DEF Upto
  <2> QED
    BY <1>1, <1>2, <2>1
<1>4. ASSUME NEW s \in S, NEW t \in S, g[s] < g[t] PROVE Rank(S, g, s) < Rank(S, g, t)
  <2>1. Upto(s) \in SUBSET Upto(t)
    <3>1. \A x \in S : g[x] <= g[s] => g[x] <= g[t]
      BY <1>4
    <3> QED
      BY <3>1
  <2>2. t \in Upto(t) /\ t \notin Upto(s)
    BY <1>4
  <2>3. Cardinality(Upto(s)) <= Cardinality(Upto(t)) /\ (Cardinality(Upto(t)) = Cardinality(Upto(s)) => Upto(t) = Upto(s))
    <3> HIDE DEF Upto
    <3> QED
      BY <1>1, <2>1, FS_Subset
  <2>4. Rank(S, g, s) = Cardinality(Upto(s)) /\ Rank(S, g, t) = Cardinality(Upto(t))
    BY DEF Rank
  <2> HIDE DEF Upto
  <2> QED
    BY <1>1, <2>2, <2>3, <2>4
<1>5. \A s, t \in S : Rank(S, g, s) = Rank(S, g, t) => s = t
  <2> SUFFICES ASSUME NEW s \in S, NEW t \in S, s # t PROVE Rank(S, g, s) # Rank(S, g, t)
    OBVIOUS
  <2>1. g[s] < g[t] \/ g[t] < g[s]
    OBVIOUS
  <2>2. Rank(S, g, s) \in Nat /\ Rank(S, g, t) \in Nat
    BY <1>1
  <2> QED
    BY <1>4, <2>1, <2>2
<1>6. \A n \in 1..Cardinality(S) : \E s \in S : Rank(S, g, s) = n
  <2>1. f \in Injection(S, 1..Cardinality(S))
    BY <1>3, <1>5 DEF Injection, IsInjective
  <2>2. IsFiniteSet(1..Cardinality(S)) /\ Cardinality(1..Cardinality(S)) = Cardinality(S)
    BY <1>2, FS_Interval
  <2>3. f \in Surjection(S, 1..Cardinality(S))
    <3> HIDE DEF f
    <3> QED
      BY <2>1, <2>2, FS_Injection
  <2> QED
    BY <2>3 DEF Surjection
<1> QED
  BY <1>2, <1>3, <1>4, <1>5, <1>6 DEF AreRanked

LEMMA Places ==
  ASSUME NEW S \in SUBSET Nat, IsFiniteSet(S)
  PROVE  /\ Cardinality(S) \in Nat
         /\ \A s \in S : Place(S, s) \in 1..Cardinality(S)
         /\ \A s, t \in S : Place(S, s) = Place(S, t) => s = t
         /\ \A s, t \in S : s < t => Place(S, s) < Place(S, t)
         /\ \A n \in 1..Cardinality(S) : \E s \in S : Place(S, s) = n
<1> DEFINE g == [x \in S |-> x]
<1>1. ASSUME NEW s \in S PROVE Place(S, s) = Rank(S, g, s)
  <2>1. {t \in S : t <= s} = {t \in S : g[t] <= g[s]}
    OBVIOUS
  <2> QED
    BY <2>1 DEF Place, Rank
<1>2. g \in [S -> Nat] /\ (\A s, t \in S : g[s] = g[t] => s = t) /\ (\A s, t \in S : s < t => g[s] < g[t])
  OBVIOUS
<1> HIDE DEF g
<1>3. AreRanked(S, g)
  BY <1>2, Ranked
<1> QED
  BY <1>1, <1>2, <1>3 DEF AreRanked

\* The number at the last place is the largest.
LEMMA Largest ==
  ASSUME NEW S \in SUBSET Nat, IsFiniteSet(S), S # {}
  PROVE  Max(S) \in S /\ \A y \in S : Max(S) >= y
<1>1. Cardinality(S) \in Nat \ {0}
  BY FS_CardinalityType, FS_EmptySet
<1>2. PICK x \in S : Place(S, x) = Cardinality(S)
  BY <1>1, Places
<1>3. \A y \in S : ~ (x < y)
  <2> SUFFICES ASSUME NEW y \in S, x < y PROVE FALSE
    OBVIOUS
  <2>1. Place(S, x) < Place(S, y) /\ Place(S, y) \in 1..Cardinality(S)
    BY Places
  <2> QED
    BY <1>1, <1>2, <2>1
<1>4. \E z \in S : \A y \in S : z >= y
  BY <1>3
<1> QED
  BY <1>4 DEF Max

\* Numbers that begin with 0 and leave nothing out: there are as many below each as it says.
LEMMA Counted ==
  ASSUME NEW S, IsFiniteSet(S), NEW g \in [S -> Nat], \A s, t \in S : g[s] = g[t] => s = t,
         NEW i \in Nat, \A k \in 0..(i - 1) : \E t \in S : g[t] = k
  PROVE  Cardinality({t \in S : g[t] < i}) = i
<1> DEFINE B == {t \in S : g[t] < i}  f == [t \in B |-> g[t]]
<1>1. IsFiniteSet(B)
  BY FS_Subset
<1>2. f \in Bijection(B, 0..(i - 1))
  <2>1. f \in [B -> 0..(i - 1)]
    OBVIOUS
  <2>2. \A s, t \in B : f[s] = f[t] => s = t
    OBVIOUS
  <2>3. \A k \in 0..(i - 1) : \E t \in B : f[t] = k
    OBVIOUS
  <2> HIDE DEF f, B
  <2> QED
    BY <2>1, <2>2, <2>3 DEF Bijection, Injection, Surjection, IsInjective
<1>3. Cardinality(0..(i - 1)) = Cardinality(B)
  <2> HIDE DEF f, B
  <2> QED
    BY <1>1, <1>2, FS_Bijection DEF ExistsBijection
<1>4. Cardinality(0..(i - 1)) = i
  BY FS_Interval
<1> QED
  BY <1>3, <1>4

\* n members cannot take n places of their own and hold one more.
Crowded(n, list, holder) ==
  /\ \A k \in 0..n : holder[k] \in {list[i] : i \in 1..n}
  /\ \A k, l \in 0..n : holder[k] = holder[l] => k = l

LEMMA NoRoom == ASSUME NEW n \in Nat, NEW list, NEW holder PROVE ~ Crowded(n, list, holder)
<1> SUFFICES ASSUME \A k \in 0..n : holder[k] \in {list[i] : i \in 1..n},
                    \A k, l \in 0..n : holder[k] = holder[l] => k = l
             PROVE  FALSE
  BY DEF Crowded
<1> DEFINE T == {list[i] : i \in 1..n}
           at == [x \in T |-> CHOOSE i \in 1..n : list[i] = x]
           f == [k \in 0..n |-> at[holder[k]]]
<1>1. \A x \in T : at[x] \in 1..n /\ list[at[x]] = x
  OBVIOUS
<1> HIDE DEF T, at
<1>2. f \in [0..n -> 1..n]
  BY <1>1 DEF T
<1>3. \A k, l \in 0..n : f[k] = f[l] => k = l
  BY <1>1 DEF T
<1>4. IsFiniteSet(0..n) /\ Cardinality(0..n) = n + 1 /\ IsFiniteSet(1..n) /\ Cardinality(1..n) = n
  BY FS_Interval
<1> HIDE DEF f
<1>5. \E k, l \in 0..n : k # l /\ f[k] = f[l]
  <2>1. Cardinality(1..n) < Cardinality(0..n)
    BY <1>4
  <2> QED
    BY <1>2, <1>4, <2>1, FS_PigeonHole
<1> QED
  BY <1>3, <1>5

(***************************************************************************)
(* The inductive invariant                                                 *)
(***************************************************************************)
\* What is to be proved of the tables, with the rules and the pipelines it excepts.
Good(d, gaps, others) ==
  /\ Sound(d) /\ TargetsOwn(d, others)
  /\ \A p \in Pipelines \ gaps : GapFree(d, p)

\* A step that was one of p is so or is gone.
Known(d, p, s) == s \in StepIds \ d.fresh /\ (d.steps[s] = NoStep \/ d.steps[s].pipeline = p)

\* A file has the steps in their order, each once.
FileSteps == [id : StepIds, agent : Agents, content : Contents, index : Nat]
FileList(list) ==
  /\ list \in Seq(FileSteps)
  /\ \A i, j \in DOMAIN list : i < j => list[i].index < list[j].index
  /\ \A i, j \in DOMAIN list : list[i].id = list[j].id => i = j
FileRules(p) == {u \in RuleRows : u.pipeline = p}
FileOK(f) == f.p \in Pipelines /\ FileList(f.steps) /\ f.rules \subseteq FileRules(f.p)

IsFound(found) ==
  found \in [p : {found.p}, agent : {found.agent}, list : {found.list}, before : {found.before},
             seen : {found.seen}, rule : {found.rule}]
IsRequest(q) == q \in [kind : {q.kind}, st : {q.st}, with : {q.with}] /\ IsFound(q.with)

\* What a request of each kind has read, and what the tables still say of it.
FoundOK(d, kind, found) ==
  /\ kind = "add_step" => found.p \in Pipelines /\ found.agent \in Agents /\ found.seen \in Nat
  /\ kind = "seed_pipelines" => found.list \in Seq(Agents)
  /\ kind = "reorder" =>
       /\ found.p \in Pipelines /\ found.list \in Seq(StepIds)
       /\ \A i, j \in DOMAIN found.list : found.list[i] = found.list[j] => i = j
       /\ \A i \in DOMAIN found.list : Known(d, found.p, found.list[i])
  /\ kind \in {"add_rule", "add_rule_tool"} =>
       /\ found.rule \in RuleRows
       /\ Known(d, found.rule.pipeline, found.rule.source) /\ Known(d, found.rule.pipeline, found.rule.target)
  /\ kind = "export" => found.p \in Pipelines /\ FileList(found.list)
  /\ kind = "import" => found.p \in Pipelines /\ FileList(found.list) /\ found.rule \subseteq FileRules(found.p)

RequestsOK(d) ==
  /\ requests = [r \in Requests |-> requests[r]]
  /\ \A r \in Requests : IsRequest(requests[r])
  /\ \A r \in Requests : requests[r].st \in {"shown", "read"} => FoundOK(d, requests[r].kind, requests[r].with)

CatalogInv == Good(db, thinned, moved) /\ RequestsOK(db) /\ (file = NoFile \/ FileOK(file))

(***************************************************************************)
(* What the steps have in common                                           *)
(***************************************************************************)
\* Ids are taken once, and a step stays in its pipeline as long as it is there.
Follows(old, d) ==
  /\ d.fresh \subseteq old.fresh
  /\ \A s \in StepIds \ old.fresh :
       d.steps[s] = NoStep \/ (old.steps[s] # NoStep /\ d.steps[s].pipeline = old.steps[s].pipeline)

LEMMA KnownStays ==
  ASSUME NEW old, NEW d, Follows(old, d), NEW p, NEW s, Known(old, p, s) PROVE Known(d, p, s)
BY DEF Follows, Known

LEMMA FoundStays ==
  ASSUME NEW old, NEW d, Follows(old, d), NEW kind, NEW found, FoundOK(old, kind, found)
  PROVE  FoundOK(d, kind, found)
BY KnownStays DEF FoundOK

\* A request goes on as q.
LEMMA RequestGoesOn ==
  ASSUME RequestsOK(db), Follows(db, db'), NEW r \in Requests, NEW q, IsRequest(q),
         requests' = [requests EXCEPT ![r] = q], q.st \in {"shown", "read"} => FoundOK(db', q.kind, q.with)
  PROVE  RequestsOK(db)'
<1>1. requests' = [t \in Requests |-> IF t = r THEN q ELSE requests[t]]
  BY DEF RequestsOK
<1>2. \A t \in Requests : IsRequest(requests'[t])
  BY <1>1 DEF RequestsOK
<1>3. ASSUME NEW t \in Requests, requests'[t].st \in {"shown", "read"}
      PROVE  FoundOK(db', requests'[t].kind, requests'[t].with)
  BY <1>1, <1>3, FoundStays DEF RequestsOK
<1> QED
  BY <1>1, <1>2, <1>3 DEF RequestsOK, IsRequest, IsFound, FoundOK, Known

LEMMA Answered ==
  ASSUME RequestsOK(db), NEW r \in Requests, NEW answer, answer \notin {"shown", "read"}, Answers(r, answer), Follows(db, db')
  PROVE  RequestsOK(db)'
<1> DEFINE q == [requests[r] EXCEPT !.st = answer]
<1>1. IsRequest(q) /\ q.st = answer
  BY DEF RequestsOK, IsRequest
<1>2. requests' = [requests EXCEPT ![r] = q]
  BY DEF Answers
<1> QED
  BY <1>1, <1>2, RequestGoesOn

LEMMA FollowsItself == Follows(db, db)
BY DEF Follows

\* A request that changes no table.
LEMMA Ends ==
  ASSUME CatalogInv, NEW r \in Requests, NEW answer, answer \in {"done", "failed", "skipped"}, Answers(r, answer),
         UNCHANGED db, Good(db, thinned', moved'), file' = file \/ FileOK(file')
  PROVE  CatalogInv'
<1>1. RequestsOK(db)'
  BY Answered, FollowsItself DEF CatalogInv
<1> QED
  BY <1>1 DEF CatalogInv, Good, FileOK

LEMMA Reads ==
  ASSUME CatalogInv, NEW r \in Requests, NEW found, HasRead(r, found), UNCHANGED <<db, thinned, moved, file>>,
         IsFound(found), FoundOK(db, requests[r].kind, found)
  PROVE  CatalogInv'
<1> DEFINE q == [requests[r] EXCEPT !.st = "read", !.with = found]
<1>1. IsRequest(q) /\ q.kind = requests[r].kind /\ q.with = found
  BY DEF CatalogInv, RequestsOK, IsRequest
<1>2. requests' = [requests EXCEPT ![r] = q]
  BY DEF HasRead
<1>3. RequestsOK(db)'
  BY <1>1, <1>2, RequestGoesOn, FollowsItself DEF CatalogInv
<1> QED
  BY <1>3 DEF CatalogInv, Good

LEMMA Writes ==
  ASSUME CatalogInv, NEW r \in Requests, NEW d, Commits(r, d), UNCHANGED file,
         Accepted(d) => Good(d, thinned', moved') /\ Follows(db, d),
         ~ Accepted(d) => Good(db, thinned', moved')
  PROVE  CatalogInv'
<1>1. CASE Accepted(d)
  <2>1. db' = d /\ Answers(r, "done")
    BY <1>1 DEF Commits
  <2>2. RequestsOK(db)'
    BY <1>1, <2>1, Answered DEF CatalogInv
  <2> QED
    BY <1>1, <2>1, <2>2 DEF CatalogInv, Good
<1>2. CASE ~ Accepted(d)
  <2>1. db' = db /\ Answers(r, "failed")
    BY <1>2 DEF Commits
  <2> QED
    BY <1>2, <2>1, Ends
<1> QED
  BY <1>1, <1>2

\* Tables that were good and are accepted again: what has to be said of new rules, new steps and gaps.
LEMMA Keeps ==
  ASSUME NEW old, NEW gaps, NEW others, Good(old, gaps, others),
         NEW d, NEW gaps2, NEW others2, d \in Tables, Accepted(d), Follows(old, d), others \subseteq others2,
         \A s \in d.fresh : d.steps[s] = NoStep,
         \A u \in d.rules : \/ u \in old.rules
                            \/ /\ u.source \in StepsOf(d, u.pipeline)
                               /\ u \in others2 \/ u.target \in StepsOf(d, u.pipeline),
         \A p \in Pipelines \ gaps2 : GapFree(d, p)
  PROVE  Good(d, gaps2, others2)
<1>1. ASSUME NEW s \in StepIds, NEW p, s \in StepsOf(old, p), d.steps[s] # NoStep PROVE s \in StepsOf(d, p)
  <2>1. old.steps[s] # NoStep /\ old.steps[s].pipeline = p /\ s \notin old.fresh
    BY <1>1 DEF StepsOf, Good, Sound
  <2> QED
    BY <1>1, <2>1 DEF StepsOf, Follows
<1>2. ASSUME NEW u \in d.rules
      PROVE  u.source \in StepsOf(d, u.pipeline) /\ (u \in others2 \/ u.target \in StepsOf(d, u.pipeline))
  <2>1. CASE u \in old.rules
    <3>1. u.source \in StepIds /\ u.target \in StepIds
      BY DEF Tables, RuleRows
    <3>2. d.steps[u.source] # NoStep /\ d.steps[u.target] # NoStep
      BY DEF Accepted, Referenced
    <3>3. u.source \in StepsOf(old, u.pipeline) /\ (u \in others \/ u.target \in StepsOf(old, u.pipeline))
      BY <2>1 DEF Good, Sound, TargetsOwn
    <3> QED
      BY <1>1, <3>1, <3>2, <3>3
  <2> QED
    BY <2>1
<1> QED
  BY <1>2 DEF Good, Sound, TargetsOwn

LEMMA SameGap ==
  ASSUME NEW old, NEW d, NEW p, StepsOf(d, p) = StepsOf(old, p), GapFree(old, p),
         \A s \in StepsOf(old, p) : d.steps[s].index = old.steps[s].index
  PROVE  GapFree(d, p)
BY DEF GapFree

LEMMA Without ==
  ASSUME NEW d, Accepted(d), NEW p, p \notin d.pipelines PROVE StepsOf(d, p) = {} /\ GapFree(d, p)
BY DEF Accepted, Referenced, StepsOf, GapFree

LEMMA FieldsOf ==
  ASSUME NEW d, d \in Tables
  PROVE  /\ d.agents \in [Agents -> Contents] /\ d.pipelines \subseteq Pipelines
         /\ d.steps \in [StepIds -> {NoStep} \cup StepRows] /\ d.rules \subseteq RuleRows /\ d.fresh \subseteq StepIds
BY DEF Tables

\* Other steps, rules or pipelines, and nothing else.
LEMMA SameSteps ==
  ASSUME CatalogInv, NEW d, d \in Tables, Accepted(d), d.steps = db.steps, d.fresh = db.fresh, NEW others2, moved \subseteq others2,
         \A u \in d.rules : \/ u \in db.rules
                            \/ /\ u.source \in StepsOf(d, u.pipeline)
                               /\ u \in others2 \/ u.target \in StepsOf(d, u.pipeline)
  PROVE  Good(d, thinned, others2) /\ Follows(db, d)
<1>1. Follows(db, d)
  BY DEF Follows
<1>2. \A s \in d.fresh : d.steps[s] = NoStep
  BY DEF CatalogInv, Good, Sound
<1>3. \A p \in Pipelines \ thinned : GapFree(d, p)
  BY DEF CatalogInv, Good, GapFree, StepsOf
<1> QED
  BY <1>1, <1>2, <1>3, Keeps DEF CatalogInv

(***************************************************************************)
(* Agents                                                                  *)
(***************************************************************************)
LEMMA AgentsWritten ==
  ASSUME CatalogInv, NEW r \in Requests, NEW agents, agents \in [Agents -> Contents],
         Commits(r, [db EXCEPT !.agents = agents]), UNCHANGED <<thinned, moved, file>>
  PROVE  CatalogInv'
<1> DEFINE d == [db EXCEPT !.agents = agents]
<1>1. d \in Tables /\ d.rules = db.rules /\ d.steps = db.steps /\ d.fresh = db.fresh
  BY DEF CatalogInv, Good, Sound, Tables
<1> HIDE DEF d
<1>2. Accepted(d) => Good(d, thinned, moved) /\ Follows(db, d)
  BY <1>1, SameSteps
<1> QED
  BY <1>2, Writes DEF d, CatalogInv

LEMMA AgentWritten ==
  ASSUME CatalogInv, NEW r \in Requests, NEW a \in Agents, NEW content \in Contents,
         Commits(r, [db EXCEPT !.agents[a] = content]), UNCHANGED <<thinned, moved, file>>
  PROVE  CatalogInv'
<1> DEFINE agents == [db.agents EXCEPT ![a] = content]
<1>1. agents \in [Agents -> Contents]
  BY DEF CatalogInv, Good, Sound, Tables
<1>2. [db EXCEPT !.agents[a] = content] = [db EXCEPT !.agents = agents]
  OBVIOUS
<1> QED
  BY <1>1, <1>2, AgentsWritten

LEMMA NothingRead ==
  ASSUME NEW n PROVE IsFound([Blank EXCEPT !.seen = n])
BY DEF IsFound, Blank

LEMMA AgentRequests ==
  ASSUME CatalogInv, NEW r \in Requests, UNCHANGED file,
         create_agent(r) \/ update_agent(r) \/ delete_agent(r) \/ seed_agents_reads(r) \/ seed_agents(r)
  PROVE  CatalogInv'
<1>1. CASE create_agent(r)
  BY <1>1, AgentWritten DEF create_agent, Contents
<1>2. CASE update_agent(r)
  BY <1>2, AgentWritten DEF update_agent, Contents
<1>3. CASE delete_agent(r)
  BY <1>3, AgentWritten DEF delete_agent, Contents
<1>4. CASE seed_agents_reads(r)
  <2>1. requests[r].kind = "seed_agents" /\ UNCHANGED <<db, thinned, moved, file>>
    BY <1>4 DEF seed_agents_reads, New
  <2>2. PICK n : HasRead(r, [Blank EXCEPT !.seen = n])
    BY <1>4 DEF seed_agents_reads
  <2>3. \A found : FoundOK(db, requests[r].kind, found)
    BY <2>1 DEF FoundOK
  <2> QED
    BY <2>1, <2>2, <2>3, NothingRead, Reads
<1>5. CASE seed_agents(r)
  <2>1. UNCHANGED <<thinned, moved, file>>
    BY <1>5 DEF seed_agents
  <2>2. CASE Answers(r, "done") /\ UNCHANGED db
    BY <2>1, <2>2, Ends DEF CatalogInv
  <2>3. CASE \E a \in Agents : Commits(r, [db EXCEPT !.agents[a] = "default"])
    BY <2>1, <2>3, AgentWritten DEF Contents
  <2> QED
    BY <1>5, <2>2, <2>3 DEF seed_agents
<1> QED
  BY <1>1, <1>2, <1>3, <1>4, <1>5

(***************************************************************************)
(* Pipelines and steps                                                     *)
(***************************************************************************)
LEMMA NextIsNew ==
  ASSUME NEW d, d \in Tables, NEW p
  PROVE  /\ NextIndex(d, p) \in Nat
         /\ NextIndex(d, p) = 0 => StepsOf(d, p) = {}
         /\ NextIndex(d, p) # 0 => \E t \in StepsOf(d, p) : d.steps[t].index = NextIndex(d, p) - 1
         /\ \A t \in StepsOf(d, p) : d.steps[t].index < NextIndex(d, p)
<1> DEFINE S == StepsOf(d, p)
           Indices == {d.steps[s].index : s \in S}
           f == [s \in S |-> d.steps[s].index]
<1>1. \A s \in S : d.steps[s].index \in Nat
  BY DEF Tables, StepsOf, StepRows
<1>2. IsFiniteSet(S)
  BY DefinitionsAssumption, FS_Subset DEF StepsOf
<1>3. IsFiniteSet(Indices)
  <2>1. f \in Surjection(S, Indices)
    BY DEF Surjection
  <2> HIDE DEF f, S, Indices
  <2> QED
    BY <1>2, <2>1, FS_Surjection
<1>4. CASE S = {}
  BY <1>4 DEF NextIndex
<1>5. CASE S # {}
  <2>1. Indices \in SUBSET Nat /\ Indices # {}
    BY <1>1, <1>5
  <2>2. Max(Indices) \in Indices /\ \A y \in Indices : Max(Indices) >= y
    <3> HIDE DEF Indices
    <3> QED
      BY <1>3, <2>1, Largest
  <2>3. NextIndex(d, p) = Max(Indices) + 1 /\ Max(Indices) \in Nat
    BY <1>5, <2>1, <2>2 DEF NextIndex
  <2>4. PICK t \in S : d.steps[t].index = Max(Indices)
    BY <2>2
  <2>5. \A s \in S : d.steps[s].index <= Max(Indices)
    BY <1>1, <2>2, <2>3
  <2> HIDE DEF Indices
  <2> QED
    BY <1>1, <2>3, <2>4, <2>5
<1> QED
  BY <1>4, <1>5

\* The ids of new steps are the first ones left, each the place of one of them.
Ids(d, new) == {s \in d.fresh : Nth(d, s) <= Len(new)}

LEMMA IdsTaken ==
  ASSUME NEW d, d.fresh \subseteq StepIds, NEW new, Len(new) \in Nat, DOMAIN new = 1..Len(new), Len(new) <= Cardinality(d.fresh)
  PROVE  /\ Ids(d, new) \subseteq d.fresh
         /\ \A s \in Ids(d, new) : Nth(d, s) \in DOMAIN new
         /\ \A i \in DOMAIN new : \E s \in Ids(d, new) : Nth(d, s) = i
         /\ \A s, t \in Ids(d, new) : Nth(d, s) = Nth(d, t) => s = t
         /\ \A s, t \in d.fresh : s < t => Nth(d, s) < Nth(d, t)
         /\ \A s, t \in d.fresh : Nth(d, s) = Nth(d, t) => s = t
<1>1. d.fresh \in SUBSET Nat /\ IsFiniteSet(d.fresh)
  BY DefinitionsAssumption, FS_Subset
<1>2. \A s : Nth(d, s) = Place(d.fresh, s)
  BY DEF Nth, Place
<1>3. /\ Cardinality(d.fresh) \in Nat
      /\ \A s \in d.fresh : Nth(d, s) \in 1..Cardinality(d.fresh)
      /\ \A s, t \in d.fresh : Nth(d, s) = Nth(d, t) => s = t
      /\ \A s, t \in d.fresh : s < t => Nth(d, s) < Nth(d, t)
      /\ \A n \in 1..Cardinality(d.fresh) : \E s \in d.fresh : Nth(d, s) = n
  BY <1>1, <1>2, Places
<1>4. \A i \in DOMAIN new : \E s \in Ids(d, new) : Nth(d, s) = i
  <2> TAKE i \in DOMAIN new
  <2>1. i \in 1..Cardinality(d.fresh) /\ i <= Len(new)
    BY <1>3
  <2>2. PICK s \in d.fresh : Nth(d, s) = i
    BY <1>3, <2>1
  <2> QED
    BY <2>1, <2>2 DEF Ids
<1>5. \A s \in Ids(d, new) : Nth(d, s) \in DOMAIN new
  BY <1>3 DEF Ids
<1> QED
  BY <1>3, <1>4, <1>5 DEF Ids

\* Agents and indices for new steps, and what has become of the tables when they are there.
NewSteps(d, new) ==
  /\ Len(new) \in Nat /\ DOMAIN new = 1..Len(new) /\ Len(new) <= Cardinality(d.fresh)
  /\ \A i \in DOMAIN new : new[i].agent \in Agents /\ new[i].index \in Nat
Inserted(old, p, new, d) ==
  /\ d \in Tables /\ d.rules = old.rules /\ d.agents = old.agents /\ d.pipelines = old.pipelines
  /\ d.fresh = old.fresh \ Ids(old, new)
  /\ \A s \in Ids(old, new) :
       d.steps[s].agent = new[Nth(old, s)].agent /\ d.steps[s].index = new[Nth(old, s)].index
  /\ \A s \in StepIds \ Ids(old, new) : d.steps[s] = old.steps[s]
  /\ StepsOf(d, p) = StepsOf(old, p) \cup Ids(old, new)
  /\ \A q : q # p => StepsOf(d, q) = StepsOf(old, q)

LEMMA StepsInserted ==
  ASSUME NEW d0, d0 \in Tables, \A s \in d0.fresh : d0.steps[s] = NoStep, NEW p \in Pipelines, NEW new, NewSteps(d0, new)
  PROVE  Inserted(d0, p, new, InsertSteps(d0, p, new))
<1> DEFINE d == InsertSteps(d0, p, new)
           Step(s) == [pipeline |-> p, agent |-> new[Nth(d0, s)].agent, index |-> new[Nth(d0, s)].index]
           ids == Ids(d0, new)
           steps == [s \in StepIds |-> IF s \in ids THEN Step(s) ELSE d0.steps[s]]
<1>1. d0.fresh \subseteq StepIds /\ ids \subseteq d0.fresh /\ \A s \in ids : Nth(d0, s) \in DOMAIN new
  BY IdsTaken, FieldsOf DEF NewSteps
<1>2. d = [d0 EXCEPT !.steps = steps, !.fresh = @ \ ids]
  BY DEF InsertSteps, Ids
<1> HIDE DEF ids, d
<1>3. \A s \in ids : Step(s) \in StepRows /\ Step(s) # NoStep
  BY <1>1 DEF StepRows, NoStep, NewSteps
<1>4. steps \in [StepIds -> {NoStep} \cup StepRows]
  BY <1>3, FieldsOf
<1>5. /\ d.rules = d0.rules /\ d.agents = d0.agents /\ d.pipelines = d0.pipelines
      /\ d.fresh = d0.fresh \ ids /\ d.steps = steps /\ d \in Tables
  <2> HIDE DEF steps
  <2> QED
    BY <1>2, <1>4 DEF Tables
<1>6. \A s \in ids : /\ s \in StepIds /\ d.steps[s] = Step(s) /\ Step(s).pipeline = p
                   /\ Step(s).agent = new[Nth(d0, s)].agent /\ Step(s).index = new[Nth(d0, s)].index
  BY <1>1, <1>5
<1>7. \A s \in StepIds \ ids : d.steps[s] = d0.steps[s]
  BY <1>5
<1>8. \A s \in ids : d0.steps[s] = NoStep
  BY <1>1
<1> HIDE DEF Step, steps
<1>9. StepsOf(d, p) = StepsOf(d0, p) \cup ids
  BY <1>3, <1>6, <1>7, <1>8 DEF StepsOf
<1>10. \A q : q # p => StepsOf(d, q) = StepsOf(d0, q)
  BY <1>6, <1>7, <1>8 DEF StepsOf
<1> QED
  BY <1>5, <1>6, <1>7, <1>9, <1>10 DEF ids, d, Inserted

LEMMA StepInserted ==
  ASSUME CatalogInv, NEW d0, d0 \in Tables, d0.steps = db.steps, d0.fresh = db.fresh, d0.rules = db.rules,
         NEW s \in db.fresh, NEW p \in Pipelines, NEW a \in Agents, NEW i \in Nat,
         NEW gaps2, thinned \ {p} \subseteq gaps2, p \in gaps2 \/ (i = NextIndex(d0, p) /\ GapFree(db, p)),
         Accepted(InsertStep(d0, s, p, a, i))
  PROVE  Good(InsertStep(d0, s, p, a, i), gaps2, moved) /\ Follows(db, InsertStep(d0, s, p, a, i))
<1> DEFINE step == [pipeline |-> p, agent |-> a, index |-> i]
           d == InsertStep(d0, s, p, a, i)
<1>1. step \in StepRows /\ step # NoStep /\ step.pipeline = p /\ step.index = i
  BY DEF StepRows, NoStep
<1>2. d = [d0 EXCEPT !.steps[s] = step, !.fresh = @ \ {s}]
  BY DEF InsertStep
<1> HIDE DEF step, d
<1>3. s \in StepIds /\ db.steps[s] = NoStep
  BY DEF CatalogInv, Good, Sound, Tables
<1>4. /\ d.steps = [d0.steps EXCEPT ![s] = step] /\ d.fresh = d0.fresh \ {s} /\ d.rules = d0.rules /\ d \in Tables
  BY <1>1, <1>2, <1>3 DEF Tables
<1>5. d.steps[s] = step /\ \A t \in StepIds \ {s} : d.steps[t] = db.steps[t]
  BY <1>3, <1>4, FieldsOf
<1>6. Follows(db, d) /\ \A t \in d.fresh : d.steps[t] = NoStep
  <2>1. \A t \in db.fresh : t \in StepIds /\ db.steps[t] = NoStep
    BY DEF CatalogInv, Good, Sound, Tables
  <2> QED
    BY <1>4, <1>5, <2>1 DEF Follows
<1>7. \A q : q # p => StepsOf(d, q) = StepsOf(db, q)
  BY <1>1, <1>3, <1>5 DEF StepsOf
<1>8. StepsOf(d, p) = StepsOf(db, p) \cup {s} /\ s \notin StepsOf(db, p)
  BY <1>1, <1>3, <1>5 DEF StepsOf
<1>9. ASSUME i = NextIndex(d0, p), GapFree(db, p) PROVE GapFree(d, p)
  <2>1. StepsOf(d0, p) = StepsOf(db, p)
    BY DEF StepsOf
  <2>2. /\ i = 0 => StepsOf(db, p) = {}
        /\ i # 0 => \E t \in StepsOf(db, p) : db.steps[t].index = i - 1
    BY <1>9, <2>1, NextIsNew
  <2>3. \A t \in StepsOf(db, p) : t \in StepIds /\ d.steps[t] = db.steps[t]
    BY <1>5, <1>8 DEF StepsOf
  <2>4. ASSUME NEW k \in 0..(i - 1) PROVE \E t \in StepsOf(db, p) : db.steps[t].index = k
    <3>1. PICK t \in StepsOf(db, p) : db.steps[t].index = i - 1
      BY <2>2, <2>4
    <3>2. k = i - 1 \/ k \in 0..(i - 1 - 1)
      BY <2>4
    <3> QED
      BY <1>9, <3>1, <3>2 DEF GapFree
  <2>5. ASSUME NEW t \in StepsOf(db, p), NEW k \in 0..(db.steps[t].index - 1)
        PROVE  \E v \in StepsOf(db, p) : db.steps[v].index = k
    BY <1>9, <2>5 DEF GapFree
  <2> QED
    BY <1>1, <1>5, <1>8, <2>3, <2>4, <2>5 DEF GapFree
<1>10. \A q \in Pipelines \ gaps2 : GapFree(d, q)
  <2> TAKE q \in Pipelines \ gaps2
  <2>1. CASE q = p
    BY <1>9, <2>1
  <2>2. CASE q # p
    <3>1. StepsOf(d, q) = StepsOf(db, q) /\ GapFree(db, q)
      BY <1>7, <2>2 DEF CatalogInv, Good
    <3>2. \A t \in StepsOf(db, q) : d.steps[t] = db.steps[t]
      BY <1>3, <1>5 DEF StepsOf
    <3> QED
      BY <3>1, <3>2, SameGap
  <2> QED
    BY <2>1, <2>2
<1>11. Accepted(d)
  BY DEF d
<1>12. Good(d, gaps2, moved)
  BY <1>4, <1>6, <1>10, <1>11, Keeps DEF CatalogInv
<1> QED
  BY <1>6, <1>12 DEF d

LEMMA Listed ==
  ASSUME NEW S, IsFiniteSet(S) PROVE SetToSeq(S) \in Seq(S)
<1>1. PICK n \in Nat : ExistsBijection(1..n, S)
  BY FS_NatBijection
<1>2. n = Cardinality(S)
  BY <1>1, FS_CountingElements
<1>3. \E f \in [1..Cardinality(S) -> S] : IsInjective(f)
  BY <1>1, <1>2 DEF ExistsBijection, Bijection, Injection
<1>4. SetToSeq(S) \in [1..Cardinality(S) -> S]
  BY <1>3 DEF SetToSeq
<1> QED
  BY <1>2, <1>4

LEMMA PipelineCreated ==
  ASSUME CatalogInv, NEW r \in Requests, UNCHANGED file, create_pipeline(r) PROVE CatalogInv'
<1>1. PICK p \in Pipelines \ db.pipelines, a \in Agents, s \in db.fresh :
        LET d == [db EXCEPT !.pipelines = @ \cup {p}]
        IN Commits(r, InsertStep(d, s, p, a, NextIndex(d, p))) /\ thinned' = thinned \ {p}
  BY DEF create_pipeline
<1> DEFINE d0 == [db EXCEPT !.pipelines = @ \cup {p}]
           i == NextIndex(d0, p)
           d == InsertStep(d0, s, p, a, i)
<1>2. UNCHANGED moved /\ Commits(r, d) /\ thinned' = thinned \ {p}
  BY <1>1 DEF create_pipeline
<1>3. d0 \in Tables /\ d0.steps = db.steps /\ d0.fresh = db.fresh /\ d0.rules = db.rules
  BY DEF CatalogInv, Good, Sound, Tables
<1> HIDE DEF d0
<1>4. i \in Nat
  BY <1>3, NextIsNew
<1>5. GapFree(db, p)
  BY Without DEF CatalogInv, Good, Sound
<1>6. Accepted(d) => Good(d, thinned', moved') /\ Follows(db, d)
  BY <1>2, <1>3, <1>4, <1>5, StepInserted
<1>7. Good(db, thinned', moved')
  BY <1>2, <1>5 DEF CatalogInv, Good
<1> HIDE DEF d
<1> QED
  BY <1>2, <1>6, <1>7, Writes

LEMMA StepAdded ==
  ASSUME CatalogInv, NEW r \in Requests, UNCHANGED file, add_step(r) PROVE CatalogInv'
<1> DEFINE found == requests[r].with
<1>1. PICK s \in db.fresh : Commits(r, InsertStep(db, s, found.p, found.agent, found.seen))
  BY DEF add_step
<1>2. found.p \in Pipelines /\ found.agent \in Agents /\ found.seen \in Nat
  BY DEF add_step, Reading, CatalogInv, RequestsOK, FoundOK
<1>3. /\ UNCHANGED moved
      /\ thinned' = IF found.seen # NextIndex(db, found.p) THEN thinned \cup {found.p} ELSE thinned
  BY DEF add_step
<1> DEFINE d == InsertStep(db, s, found.p, found.agent, found.seen)
<1> HIDE DEF found
<1>4. db \in Tables
  BY DEF CatalogInv, Good, Sound
<1>5. found.p \in thinned' \/ (found.seen = NextIndex(db, found.p) /\ GapFree(db, found.p))
  BY <1>2, <1>3 DEF CatalogInv, Good
<1>6. Accepted(d) => Good(d, thinned', moved') /\ Follows(db, d)
  BY <1>2, <1>3, <1>4, <1>5, StepInserted
<1>7. Good(db, thinned', moved')
  BY <1>3 DEF CatalogInv, Good
<1> HIDE DEF d
<1> QED
  BY <1>1, <1>3, <1>6, <1>7, Writes DEF d

\* Steps that go, and what goes with them.
LEMMA StepsDeleted ==
  ASSUME NEW d0, d0 \in Tables, NEW gone
  PROVE  LET d == DeleteSteps(d0, gone)
         IN  /\ d \in Tables /\ d.rules = d0.rules /\ d.agents = d0.agents /\ d.pipelines = d0.pipelines /\ d.fresh = d0.fresh
             /\ \A s \in StepIds : d.steps[s] = IF s \in gone THEN NoStep ELSE d0.steps[s]
             /\ \A q : StepsOf(d, q) = StepsOf(d0, q) \ gone
<1> DEFINE steps == [s \in StepIds |-> IF s \in gone THEN NoStep ELSE d0.steps[s]]
           d == DeleteSteps(d0, gone)
<1>1. steps \in [StepIds -> {NoStep} \cup StepRows]
  BY FieldsOf
<1>2. d = [d0 EXCEPT !.steps = steps]
  BY DEF DeleteSteps
<1>3. /\ d \in Tables /\ d.rules = d0.rules /\ d.agents = d0.agents /\ d.pipelines = d0.pipelines /\ d.fresh = d0.fresh
      /\ d.steps = steps
  <2> HIDE DEF steps
  <2> QED
    BY <1>1, <1>2 DEF Tables
<1> HIDE DEF d
<1>4. \A s \in StepIds : d.steps[s] = IF s \in gone THEN NoStep ELSE d0.steps[s]
  BY <1>3
<1>5. \A q : StepsOf(d, q) = StepsOf(d0, q) \ gone
  BY <1>4 DEF StepsOf
<1> QED
  BY <1>3, <1>4, <1>5 DEF d

LEMMA FewerRules ==
  ASSUME CatalogInv, NEW d, d \in Tables, Accepted(d), NEW gone, d.rules \subseteq db.rules, d.fresh = db.fresh,
         \A s \in StepIds : d.steps[s] = IF s \in gone THEN NoStep ELSE db.steps[s],
         NEW gaps2, \A p \in Pipelines \ gaps2 : GapFree(d, p)
  PROVE  Good(d, gaps2, moved) /\ Follows(db, d)
<1>1. Follows(db, d)
  BY DEF Follows
<1>2. \A s \in d.fresh : d.steps[s] = NoStep
  BY FieldsOf DEF CatalogInv, Good, Sound
<1> QED
  BY <1>1, <1>2, Keeps DEF CatalogInv

LEMMA StepRemoved ==
  ASSUME CatalogInv, NEW r \in Requests, UNCHANGED file, remove_step(r) PROVE CatalogInv'
<1>1. PICK s \in Present(db) :
        LET d == DeleteSteps(db, {s})
        IN Commits(r, d) /\ thinned' = IF Accepted(d) THEN thinned \cup {db.steps[s].pipeline} ELSE thinned
  BY DEF remove_step
<1> DEFINE d == DeleteSteps(db, {s})
<1>2. UNCHANGED moved /\ Commits(r, d) /\ thinned' = IF Accepted(d) THEN thinned \cup {db.steps[s].pipeline} ELSE thinned
  BY <1>1 DEF remove_step
<1>3. /\ d \in Tables /\ d.rules = db.rules /\ d.fresh = db.fresh
      /\ \A t \in StepIds : d.steps[t] = IF t \in {s} THEN NoStep ELSE db.steps[t]
      /\ \A q : StepsOf(d, q) = StepsOf(db, q) \ {s}
  BY StepsDeleted DEF CatalogInv, Good, Sound
<1> HIDE DEF d
<1>4. ASSUME Accepted(d), NEW p \in Pipelines \ thinned' PROVE GapFree(d, p)
  <2>1. p \notin thinned /\ p # db.steps[s].pipeline
    BY <1>2, <1>4
  <2>2. StepsOf(d, p) = StepsOf(db, p) /\ \A t \in StepsOf(db, p) : d.steps[t] = db.steps[t]
    BY <1>3, <2>1 DEF StepsOf
  <2> QED
    BY <2>1, <2>2, SameGap DEF CatalogInv, Good
<1>5. Accepted(d) => Good(d, thinned', moved') /\ Follows(db, d)
  BY <1>2, <1>3, <1>4, FewerRules
<1>6. ~ Accepted(d) => Good(db, thinned', moved')
  BY <1>2 DEF CatalogInv
<1> QED
  BY <1>2, <1>5, <1>6, Writes

LEMMA PipelineDeleted ==
  ASSUME CatalogInv, NEW r \in Requests, UNCHANGED file, delete_pipeline(r) PROVE CatalogInv'
<1>1. PICK p \in db.pipelines : Commits(r, DeletePipeline(db, p))
  BY DEF delete_pipeline
<1> DEFINE gone == StepsOf(db, p)
           e == DeleteSteps(db, gone)
           d == DeletePipeline(db, p)
<1>2. UNCHANGED <<thinned, moved>>
  BY DEF delete_pipeline
<1>3. /\ e \in Tables /\ e.rules = db.rules /\ e.fresh = db.fresh
      /\ \A t \in StepIds : e.steps[t] = IF t \in gone THEN NoStep ELSE db.steps[t]
      /\ \A q : StepsOf(e, q) = StepsOf(db, q) \ gone
  BY StepsDeleted DEF CatalogInv, Good, Sound
<1>4. d = [e EXCEPT !.pipelines = @ \ {p}, !.rules = @ \ RulesOf(db, p)]
  BY DEF DeletePipeline
<1> HIDE DEF d, e
<1>5. d \in Tables /\ d.rules \subseteq db.rules /\ d.fresh = db.fresh /\ d.steps = e.steps
  BY <1>3, <1>4 DEF Tables
<1>6. ASSUME NEW q \in Pipelines \ thinned PROVE GapFree(d, q)
  <2>1. StepsOf(d, q) = StepsOf(db, q) \ gone
    BY <1>3, <1>5 DEF StepsOf
  <2>2. StepsOf(d, q) = {} \/ StepsOf(d, q) = StepsOf(db, q)
    BY <2>1 DEF StepsOf
  <2>3. \A t \in StepsOf(d, q) : d.steps[t] = db.steps[t]
    BY <1>3, <1>5, <2>1 DEF StepsOf
  <2>4. GapFree(db, q)
    BY DEF CatalogInv, Good
  <2> QED
    BY <2>2, <2>3, <2>4 DEF GapFree
<1>7. Accepted(d) => Good(d, thinned, moved) /\ Follows(db, d)
  <2>1. \A t \in StepIds : d.steps[t] = IF t \in gone THEN NoStep ELSE db.steps[t]
    BY <1>3, <1>5
  <2> QED
    BY <1>5, <1>6, <2>1, FewerRules
<1>8. Commits(r, d)
  BY <1>1 DEF d
<1>9. Good(db, thinned, moved)
  BY DEF CatalogInv
<1> QED
  BY <1>2, <1>7, <1>8, <1>9, Writes

LEMMA PipelinesSeeded ==
  ASSUME CatalogInv, NEW r \in Requests, UNCHANGED file, seed_pipelines(r) PROVE CatalogInv'
<1> DEFINE found == requests[r].with.list
           steps == [i \in 1..Len(found) |-> [agent |-> found[i], index |-> i - 1]]
<1>1. found \in Seq(Agents)
  BY DEF seed_pipelines, Reading, CatalogInv, RequestsOK, FoundOK
<1>2. UNCHANGED moved /\ Len(found) <= Cardinality(db.fresh)
  BY DEF seed_pipelines
<1>3. CASE Answers(r, "done") /\ UNCHANGED <<db, thinned>>
  BY <1>2, <1>3, Ends DEF CatalogInv
<1>4. CASE \E p \in Pipelines \ db.pipelines :
             LET d == [db EXCEPT !.pipelines = @ \cup {p}]
             IN Commits(r, InsertSteps(d, p, steps)) /\ thinned' = thinned \ {p}
  <2>1. PICK p \in Pipelines \ db.pipelines :
             LET d == [db EXCEPT !.pipelines = @ \cup {p}]
             IN Commits(r, InsertSteps(d, p, steps)) /\ thinned' = thinned \ {p}
    BY <1>4
  <2> DEFINE d0 == [db EXCEPT !.pipelines = @ \cup {p}]
             d == InsertSteps(d0, p, steps)
             ids == Ids(d0, steps)
  <2>2. Commits(r, d) /\ thinned' = thinned \ {p}
    BY <2>1
  <2>3. d0 \in Tables /\ d0.steps = db.steps /\ d0.fresh = db.fresh /\ d0.rules = db.rules
    BY DEF CatalogInv, Good, Sound, Tables
  <2>4. /\ Len(steps) = Len(found) /\ Len(steps) \in Nat /\ DOMAIN steps = 1..Len(steps)
        /\ \A i \in DOMAIN steps : steps[i].agent \in Agents /\ steps[i].index = i - 1 /\ steps[i].index \in Nat
    BY <1>1
  <2> HIDE DEF d0, steps
  <2>5. \A s \in d0.fresh : d0.steps[s] = NoStep
    BY <2>3 DEF CatalogInv, Good, Sound
  <2>6. StepsOf(db, p) = {}
    BY Without DEF CatalogInv, Good, Sound
  <2>7. /\ d \in Tables /\ d.rules = db.rules /\ d.fresh = db.fresh \ ids
        /\ \A s \in ids : d.steps[s].index = steps[Nth(d0, s)].index
        /\ \A s \in StepIds \ ids : d.steps[s] = db.steps[s]
        /\ StepsOf(d, p) = ids
        /\ \A q : q # p => StepsOf(d, q) = StepsOf(db, q)
    <3>1. \A q : StepsOf(d0, q) = StepsOf(db, q)
      BY <2>3 DEF StepsOf
    <3>2. Inserted(d0, p, steps, d)
      BY <1>2, <2>3, <2>4, <2>5, StepsInserted DEF NewSteps
    <3> HIDE DEF d
    <3>3. \A s \in ids : d.steps[s].index = steps[Nth(d0, s)].index
      BY <3>2 DEF Inserted
    <3>4. \A s \in StepIds \ ids : d.steps[s] = db.steps[s]
      BY <2>3, <3>2 DEF Inserted
    <3>5. StepsOf(d, p) = ids /\ \A q : q # p => StepsOf(d, q) = StepsOf(db, q)
      BY <2>6, <3>1, <3>2 DEF Inserted
    <3>6. d \in Tables /\ d.rules = db.rules /\ d.fresh = db.fresh \ ids
      BY <2>3, <3>2 DEF Inserted
    <3> QED
      BY <3>3, <3>4, <3>5, <3>6
  <2>8. /\ ids \subseteq d0.fresh /\ d0.fresh \subseteq StepIds
        /\ \A s \in ids : Nth(d0, s) \in DOMAIN steps
        /\ \A i \in DOMAIN steps : \E s \in ids : Nth(d0, s) = i
    BY <1>2, <2>3, <2>4, IdsTaken, FieldsOf
  <2> HIDE DEF d, ids
  <2>9. GapFree(d, p)
    <3> SUFFICES ASSUME NEW s \in ids, NEW k \in 0..(d.steps[s].index - 1)
                 PROVE  \E t \in ids : d.steps[t].index = k
      BY <2>7 DEF GapFree
    <3>1. d.steps[s].index = Nth(d0, s) - 1 /\ Nth(d0, s) \in 1..Len(steps)
      BY <2>4, <2>7, <2>8
    <3>2. k + 1 \in DOMAIN steps
      BY <2>4, <3>1
    <3>3. PICK t \in ids : Nth(d0, t) = k + 1
      BY <2>8, <3>2
    <3>4. d.steps[t].index = k
      BY <2>4, <2>7, <3>2, <3>3
    <3> QED
      BY <3>4
  <2>10. ASSUME NEW q \in Pipelines \ thinned' PROVE GapFree(d, q)
    <3>1. CASE q = p
      BY <2>9, <3>1
    <3>2. CASE q # p
      <4>1. StepsOf(d, q) = StepsOf(db, q) /\ GapFree(db, q)
        BY <2>2, <2>7, <3>2 DEF CatalogInv, Good
      <4>2. \A s \in StepsOf(db, q) : s \in StepIds \ ids
        BY <2>3, <2>5, <2>8 DEF StepsOf
      <4>3. \A s \in StepsOf(db, q) : d.steps[s].index = db.steps[s].index
        BY <2>7, <4>2
      <4> QED
        BY <4>1, <4>3, SameGap
    <3> QED
      BY <3>1, <3>2
  <2>11. Follows(db, d) /\ \A s \in d.fresh : d.steps[s] = NoStep
    BY <2>3, <2>5, <2>7, <2>8 DEF Follows
  <2>12. Accepted(d) => Good(d, thinned', moved') /\ Follows(db, d)
    BY <1>2, <2>7, <2>10, <2>11, Keeps DEF CatalogInv
  <2>13. Good(db, thinned', moved')
    BY <1>2, <2>2, <2>6 DEF CatalogInv, Good, GapFree
  <2> QED
    BY <2>2, <2>12, <2>13, Writes
<1> QED
  BY <1>3, <1>4 DEF seed_pipelines

LEMMA PipelinesRead ==
  ASSUME CatalogInv, NEW r \in Requests, UNCHANGED file,
         seed_pipelines_reads(r) \/ add_step_reads(r) \/ reorder_reads(r)
  PROVE  CatalogInv'
<1>1. CASE seed_pipelines_reads(r)
  <2> DEFINE S == {a \in Agents : db.agents[a] # Absent}
             found == [Blank EXCEPT !.seen = Cardinality(db.pipelines), !.list = SetToSeq(S)]
  <2>1. HasRead(r, found) /\ UNCHANGED <<db, thinned, moved, file>> /\ requests[r].kind = "seed_pipelines"
    BY <1>1 DEF seed_pipelines_reads, New
  <2>2. IsFiniteSet(S) /\ S \subseteq Agents
    BY DefinitionsAssumption, FS_Subset
  <2>3. SetToSeq(S) \in Seq(Agents)
    <3> HIDE DEF S
    <3> QED
      BY <2>2, Listed
  <2>4. IsFound(found) /\ found.list = SetToSeq(S)
    BY DEF IsFound, Blank
  <2> HIDE DEF found
  <2>5. FoundOK(db, requests[r].kind, found)
    BY <2>1, <2>3, <2>4 DEF FoundOK
  <2> QED
    BY <2>1, <2>4, <2>5, Reads
<1>2. CASE add_step_reads(r)
  <2>1. PICK p \in Pipelines, a \in Agents : HasRead(r, [Blank EXCEPT !.p = p, !.agent = a, !.seen = NextIndex(db, p)])
    BY <1>2 DEF add_step_reads
  <2> DEFINE found == [Blank EXCEPT !.p = p, !.agent = a, !.seen = NextIndex(db, p)]
  <2>2. UNCHANGED <<db, thinned, moved, file>> /\ requests[r].kind = "add_step"
    BY <1>2 DEF add_step_reads, New
  <2>3. NextIndex(db, p) \in Nat
    BY NextIsNew DEF CatalogInv, Good, Sound
  <2>4. IsFound(found) /\ found.p = p /\ found.agent = a /\ found.seen = NextIndex(db, p)
    BY DEF IsFound, Blank
  <2>5. HasRead(r, found)
    BY <2>1
  <2> HIDE DEF found
  <2>6. FoundOK(db, requests[r].kind, found)
    BY <2>2, <2>3, <2>4 DEF FoundOK
  <2> QED
    BY <2>2, <2>4, <2>5, <2>6, Reads
<1>3. CASE reorder_reads(r)
  <2>1. PICK p \in db.pipelines : \E list \in SetToSeqs(StepsOf(db, p)) :
          HasRead(r, [Blank EXCEPT !.p = p, !.list = list, !.before = [s \in ToSet(list) |-> db.steps[s].index]])
    BY <1>3 DEF reorder_reads
  <2>2. PICK list \in SetToSeqs(StepsOf(db, p)) :
          HasRead(r, [Blank EXCEPT !.p = p, !.list = list, !.before = [s \in ToSet(list) |-> db.steps[s].index]])
    BY <2>1
  <2> DEFINE found == [Blank EXCEPT !.p = p, !.list = list, !.before = [s \in ToSet(list) |-> db.steps[s].index]]
  <2>3. UNCHANGED <<db, thinned, moved, file>> /\ requests[r].kind = "reorder"
    BY <1>3 DEF reorder_reads, New
  <2>4. IsFiniteSet(StepsOf(db, p)) /\ Cardinality(StepsOf(db, p)) \in Nat
    BY DefinitionsAssumption, FS_Subset, FS_CardinalityType DEF StepsOf
  <2>5. list \in [1..Cardinality(StepsOf(db, p)) -> StepsOf(db, p)]
    BY DEF SetToSeqs
  <2>6. \A i, j \in DOMAIN list : list[i] = list[j] => i = j
    BY <2>5 DEF SetToSeqs
  <2>7. list \in Seq(StepIds)
    <3>1. StepsOf(db, p) \subseteq StepIds
      BY DEF StepsOf
    <3> QED
      BY <2>4, <2>5, <3>1
  <2>8. \A s \in StepsOf(db, p) : Known(db, p, s)
    BY DEF StepsOf, Known, CatalogInv, Good, Sound
  <2>9. IsFound(found) /\ found.p = p /\ found.list = list
    BY DEF IsFound, Blank
  <2>10. HasRead(r, found)
    BY <2>2
  <2>11. p \in Pipelines
    BY FieldsOf DEF CatalogInv, Good, Sound
  <2> HIDE DEF found
  <2>12. FoundOK(db, requests[r].kind, found)
    BY <2>3, <2>5, <2>6, <2>7, <2>8, <2>9, <2>11 DEF FoundOK
  <2> QED
    BY <2>3, <2>9, <2>10, <2>12, Reads
<1> QED
  BY <1>1, <1>2, <1>3

(***************************************************************************)
(* Event rules                                                             *)
(***************************************************************************)
LEMMA KnownStep ==
  ASSUME NEW d, NEW p, NEW s, Known(d, p, s), d.steps[s] # NoStep PROVE s \in StepsOf(d, p)
BY DEF Known, StepsOf

LEMMA RuleRead ==
  ASSUME CatalogInv, NEW r \in Requests, UNCHANGED file, add_event_rule_reads(r) PROVE CatalogInv'
<1>1. UNCHANGED <<db, thinned, moved, file>> /\ requests[r].kind \in {"add_rule", "add_rule_tool"}
  BY DEF add_event_rule_reads, New
<1>2. CASE Answers(r, "failed")
  BY <1>1, <1>2, Ends DEF CatalogInv
<1>3. CASE \E p \in db.pipelines, e \in Events, s, t \in Present(db), action \in Actions :
             {s, t} \subseteq StepsOf(db, p) /\ HasRead(r, [Blank EXCEPT !.rule = Rule(p, e, s, t, action)])
  <2>1. PICK p \in db.pipelines, e \in Events, s \in Present(db), t \in Present(db), action \in Actions :
             {s, t} \subseteq StepsOf(db, p) /\ HasRead(r, [Blank EXCEPT !.rule = Rule(p, e, s, t, action)])
    BY <1>3
  <2> DEFINE u == Rule(p, e, s, t, action)
             found == [Blank EXCEPT !.rule = u]
  <2>2. p \in Pipelines /\ s \in StepIds /\ t \in StepIds
    BY FieldsOf DEF CatalogInv, Good, Sound, Present
  <2>3. u \in RuleRows /\ u.pipeline = p /\ u.source = s /\ u.target = t
    BY <2>2 DEF RuleRows, Rule
  <2> HIDE DEF u
  <2>4. \A x \in StepsOf(db, p) : Known(db, p, x)
    BY DEF Known, StepsOf, CatalogInv, Good, Sound
  <2>5. Known(db, u.pipeline, u.source) /\ Known(db, u.pipeline, u.target)
    BY <2>1, <2>3, <2>4
  <2>6. IsFound(found) /\ found.rule = u
    BY DEF IsFound, Blank
  <2>7. HasRead(r, found)
    BY <2>1 DEF u
  <2> HIDE DEF found
  <2>8. FoundOK(db, requests[r].kind, found)
    BY <1>1, <2>3, <2>5, <2>6 DEF FoundOK
  <2> QED
    BY <1>1, <2>6, <2>7, <2>8, Reads
<1> QED
  BY <1>2, <1>3 DEF add_event_rule_reads

LEMMA RuleAdded ==
  ASSUME CatalogInv, NEW r \in Requests, UNCHANGED file, add_event_rule(r) PROVE CatalogInv'
<1> DEFINE u == requests[r].with.rule
           d == [db EXCEPT !.rules = @ \cup {u}]
<1>1. UNCHANGED <<thinned, moved, file>>
  BY DEF add_event_rule
<1>2. CASE Answers(r, "failed") /\ UNCHANGED db
  BY <1>1, <1>2, Ends DEF CatalogInv
<1>3. CASE Commits(r, d)
  <2>1. u \in RuleRows /\ Known(db, u.pipeline, u.source) /\ Known(db, u.pipeline, u.target)
    BY DEF add_event_rule, CatalogInv, RequestsOK, FoundOK
  <2> HIDE DEF u
  <2>2. d \in Tables /\ d.rules = db.rules \cup {u} /\ d.steps = db.steps /\ d.fresh = db.fresh
    BY <2>1 DEF CatalogInv, Good, Sound, Tables
  <2> HIDE DEF d
  <2>3. ASSUME Accepted(d) PROVE Good(d, thinned, moved) /\ Follows(db, d)
    <3>1. d.steps[u.source] # NoStep /\ d.steps[u.target] # NoStep
      BY <2>2, <2>3 DEF Accepted, Referenced
    <3>2. {u.source, u.target} \subseteq StepsOf(d, u.pipeline)
      BY <2>1, <2>2, <3>1 DEF Known, StepsOf
    <3> QED
      BY <2>2, <2>3, <3>2, SameSteps
  <2>4. Good(db, thinned, moved)
    BY DEF CatalogInv
  <2> QED
    BY <1>1, <1>3, <2>3, <2>4, Writes
<1> QED
  BY <1>2, <1>3 DEF add_event_rule

LEMMA RuleRemoved ==
  ASSUME CatalogInv, NEW r \in Requests, UNCHANGED file, remove_event_rule(r) PROVE CatalogInv'
<1>1. PICK u \in db.rules : Commits(r, [db EXCEPT !.rules = @ \ {u}])
  BY DEF remove_event_rule
<1> DEFINE d == [db EXCEPT !.rules = @ \ {u}]
<1>2. UNCHANGED <<thinned, moved, file>> /\ Commits(r, d)
  BY <1>1 DEF remove_event_rule
<1>3. d \in Tables /\ d.rules \subseteq db.rules /\ d.steps = db.steps /\ d.fresh = db.fresh
  BY DEF CatalogInv, Good, Sound, Tables
<1> HIDE DEF d
<1>4. Accepted(d) => Good(d, thinned, moved) /\ Follows(db, d)
  BY <1>3, SameSteps
<1>5. Good(db, thinned, moved)
  BY DEF CatalogInv
<1> QED
  BY <1>2, <1>4, <1>5, Writes

LEMMA RuleUpdated ==
  ASSUME CatalogInv, NEW r \in Requests, UNCHANGED file, update_event_rule(r) PROVE CatalogInv'
<1>1. PICK u \in db.rules : \E v \in {[u EXCEPT !.enabled = ~ @]} \cup {[u EXCEPT !.target = t] : t \in StepIds} :
       LET d == [db EXCEPT !.rules = (@ \ {u}) \cup {v}]
       IN Commits(r, d) /\ moved' = IF Accepted(d) /\ (u \in moved \/ v.target # u.target) THEN moved \cup {v} ELSE moved
  BY DEF update_event_rule
<1>2. PICK v \in {[u EXCEPT !.enabled = ~ @]} \cup {[u EXCEPT !.target = t] : t \in StepIds} :
       LET d == [db EXCEPT !.rules = (@ \ {u}) \cup {v}]
       IN Commits(r, d) /\ moved' = IF Accepted(d) /\ (u \in moved \/ v.target # u.target) THEN moved \cup {v} ELSE moved
  BY <1>1
<1> DEFINE d == [db EXCEPT !.rules = (@ \ {u}) \cup {v}]
<1>3. /\ UNCHANGED thinned /\ Commits(r, d)
      /\ moved' = IF Accepted(d) /\ (u \in moved \/ v.target # u.target) THEN moved \cup {v} ELSE moved
  BY <1>2 DEF update_event_rule
<1>4. u \in RuleRows
  BY FieldsOf DEF CatalogInv, Good, Sound
<1>5. v \in RuleRows /\ v.source = u.source /\ v.pipeline = u.pipeline
  BY <1>4 DEF RuleRows
<1>6. d \in Tables /\ d.rules = (db.rules \ {u}) \cup {v} /\ d.steps = db.steps /\ d.fresh = db.fresh
  BY <1>5 DEF CatalogInv, Good, Sound, Tables
<1> HIDE DEF d
<1>7. ASSUME Accepted(d) PROVE Good(d, thinned', moved') /\ Follows(db, d)
  <2>1. \A q : StepsOf(d, q) = StepsOf(db, q)
    BY <1>6 DEF StepsOf
  <2>2. v.source \in StepsOf(d, v.pipeline)
    BY <1>5, <2>1 DEF CatalogInv, Good, Sound
  <2>3. v \in moved' \/ v.target \in StepsOf(d, v.pipeline)
    BY <1>3, <1>5, <1>7, <2>1 DEF CatalogInv, Good, TargetsOwn
  <2>4. moved \subseteq moved'
    BY <1>3
  <2>5. \A x \in d.rules : x \in db.rules \/ x = v
    BY <1>6
  <2> QED
    BY <1>3, <1>6, <1>7, <2>2, <2>3, <2>4, <2>5, SameSteps
<1>8. ~ Accepted(d) => Good(db, thinned', moved')
  BY <1>3 DEF CatalogInv
<1> QED
  BY <1>3, <1>7, <1>8, Writes

(***************************************************************************)
(* Files                                                                   *)
(***************************************************************************)
NumberBefore(d, p, s) == Cardinality(Before(d, p, d.steps[s].index))
AreOrdered(d, p, list) ==
  /\ Cardinality(StepsOf(d, p)) \in Nat /\ list \in [1..Cardinality(StepsOf(d, p)) -> StepsOf(d, p)]
  /\ \A i \in DOMAIN list : NumberBefore(d, p, list[i]) = i - 1
  /\ \A i, j \in DOMAIN list : i < j => d.steps[list[i]].index < d.steps[list[j]].index
  /\ \A s \in StepsOf(d, p) : NumberBefore(d, p, s) \in Nat /\ NumberBefore(d, p, s) + 1 \in DOMAIN list
  /\ \A s, t \in StepsOf(d, p) : NumberBefore(d, p, s) = NumberBefore(d, p, t) => s = t

LEMMA NumberedOnce ==
  ASSUME NEW d, d \in Tables, Accepted(d), NEW p
  PROVE  /\ IsFiniteSet(StepsOf(d, p))
         /\ \A s \in StepsOf(d, p) : d.steps[s].index \in Nat
         /\ \A s, t \in StepsOf(d, p) : d.steps[s].index = d.steps[t].index => s = t
<1>1. IsFiniteSet(StepsOf(d, p))
  BY DefinitionsAssumption, FS_Subset DEF StepsOf
<1>2. \A s \in StepsOf(d, p) : d.steps[s].index \in Nat
  BY DEF Tables, StepsOf, StepRows
<1>3. \A s, t \in StepsOf(d, p) : d.steps[s].index = d.steps[t].index => s = t
  BY DEF Accepted, StepsUnique, StepsOf
<1> QED
  BY <1>1, <1>2, <1>3

LEMMA Ordered ==
  ASSUME NEW d, d \in Tables, Accepted(d), NEW p PROVE AreOrdered(d, p, InOrder(d, p))
<1> DEFINE S == StepsOf(d, p)
           g == [s \in S |-> d.steps[s].index]
           before(s) == Before(d, p, d.steps[s].index)
           list == InOrder(d, p)
<1>1. IsFiniteSet(S) /\ g \in [S -> Nat] /\ (\A s, t \in S : g[s] = g[t] => s = t)
  BY NumberedOnce
<1>2. AreRanked(S, g)
  <2> HIDE DEF S, g
  <2> QED
    BY <1>1, Ranked
<1>3. ASSUME NEW s \in S
      PROVE  NumberBefore(d, p, s) \in Nat /\ Rank(S, g, s) = NumberBefore(d, p, s) + 1
  <2>1. before(s) \subseteq S /\ s \notin before(s) /\ d.steps[s].index \in Nat
    BY <1>1 DEF Before
  <2>2. {t \in S : g[t] <= g[s]} = before(s) \cup {s}
    BY <1>1 DEF Before
  <2>3. IsFiniteSet(before(s))
    BY <1>1, <2>1, FS_Subset
  <2>4. Cardinality(before(s)) \in Nat /\ Cardinality(before(s) \cup {s}) = Cardinality(before(s)) + 1
    BY <2>1, <2>3, FS_CardinalityType, FS_AddElement
  <2> QED
    BY <2>2, <2>4 DEF Rank, NumberBefore
<1>4. DOMAIN list = 1..Cardinality(S) /\ Cardinality(S) \in Nat
  BY <1>2 DEF InOrder, AreRanked
<1>5. ASSUME NEW i \in 1..Cardinality(S) PROVE list[i] \in S /\ NumberBefore(d, p, list[i]) = i - 1
  <2>1. list[i] = CHOOSE s \in S : NumberBefore(d, p, s) = i - 1
    BY DEF InOrder, NumberBefore
  <2>2. PICK s \in S : Rank(S, g, s) = i
    BY <1>2 DEF AreRanked
  <2>3. NumberBefore(d, p, s) = i - 1
    BY <1>3, <2>2
  <2> HIDE DEF S, g, list
  <2> QED
    BY <2>1, <2>3
<1> HIDE DEF S, g, list
<1>6. ASSUME NEW s \in S PROVE NumberBefore(d, p, s) + 1 \in 1..Cardinality(S)
  BY <1>2, <1>3 DEF AreRanked
<1>7. ASSUME NEW s \in S, NEW t \in S, NumberBefore(d, p, s) = NumberBefore(d, p, t) PROVE s = t
  BY <1>2, <1>3, <1>7 DEF AreRanked
<1>8. ASSUME NEW i \in 1..Cardinality(S), NEW j \in 1..Cardinality(S), i < j
      PROVE  d.steps[list[i]].index < d.steps[list[j]].index
  <2>1. Rank(S, g, list[i]) = i /\ Rank(S, g, list[j]) = j /\ list[i] \in S /\ list[j] \in S
    BY <1>3, <1>4, <1>5
  <2>2. ~ (g[list[j]] < g[list[i]]) /\ g[list[i]] # g[list[j]]
    BY <1>1, <1>2, <1>8, <2>1 DEF AreRanked
  <2>3. g[list[i]] \in Nat /\ g[list[j]] \in Nat
    BY <1>1, <2>1
  <2>4. g[list[i]] = d.steps[list[i]].index /\ g[list[j]] = d.steps[list[j]].index
    BY <2>1 DEF g
  <2> QED
    BY <2>2, <2>3, <2>4
<1>9. list \in [1..Cardinality(S) -> S]
  BY <1>4, <1>5 DEF list, InOrder, S
<1> QED
  BY <1>3, <1>4, <1>5, <1>6, <1>7, <1>8, <1>9 DEF AreOrdered, S, list

LEMMA Exported ==
  ASSUME NEW d, d \in Tables, Accepted(d), NEW p \in Pipelines PROVE FileOK(format_pipeline_export(d, p))
<1> DEFINE list == InOrder(d, p)
           n == Cardinality(StepsOf(d, p))
           items == [i \in DOMAIN list |-> format_pipeline_step_export(d, list[i])]
           f == format_pipeline_export(d, p)
<1>1. f.p = p /\ f.steps = items /\ f.rules = RulesOf(d, p)
  BY DEF format_pipeline_export
<1>2. AreOrdered(d, p, list)
  BY Ordered
<1> HIDE DEF list, f
<1>3. n \in Nat /\ list \in [1..n -> StepsOf(d, p)]
  BY <1>2 DEF AreOrdered
<1>4. ASSUME NEW s \in StepsOf(d, p)
      PROVE  /\ format_pipeline_step_export(d, s) \in FileSteps
             /\ format_pipeline_step_export(d, s).index = d.steps[s].index /\ format_pipeline_step_export(d, s).id = s
  <2>1. s \in StepIds /\ d.steps[s] \in StepRows
    BY FieldsOf DEF StepsOf
  <2>2. d.steps[s].agent \in Agents /\ d.steps[s].index \in Nat
    BY <2>1 DEF StepRows
  <2>3. d.agents[d.steps[s].agent] \in Contents
    BY <2>2, FieldsOf
  <2> QED
    BY <2>1, <2>2, <2>3 DEF format_pipeline_step_export, FileSteps
<1>5. DOMAIN items = 1..n /\ \A i \in 1..n : /\ items[i] \in FileSteps /\ items[i].id = list[i]
                                             /\ items[i].index = d.steps[list[i]].index
  BY <1>3, <1>4
<1>6. items \in [1..n -> FileSteps]
  <2>1. \A i \in 1..n : format_pipeline_step_export(d, list[i]) \in FileSteps
    BY <1>3, <1>4
  <2> QED
    BY <1>3, <2>1
<1>7. \A i, j \in DOMAIN items : i < j => items[i].index < items[j].index
  BY <1>2, <1>3, <1>5 DEF AreOrdered
<1>8. ASSUME NEW i \in DOMAIN items, NEW j \in DOMAIN items, items[i].id = items[j].id PROVE i = j
  <2>1. i \in 1..n /\ j \in 1..n /\ list[i] = list[j]
    BY <1>5, <1>8
  <2>2. NumberBefore(d, p, list[i]) = i - 1 /\ NumberBefore(d, p, list[j]) = j - 1
    BY <1>2, <1>3, <2>1 DEF AreOrdered
  <2> QED
    BY <1>3, <2>1, <2>2
<1> HIDE DEF items
<1>9. items \in Seq(FileSteps)
  BY <1>3, <1>6
<1>10. FileList(items)
  BY <1>7, <1>8, <1>9 DEF FileList
<1>11. RulesOf(d, p) \subseteq FileRules(p)
  BY FieldsOf DEF RulesOf, FileRules
<1> QED
  BY <1>1, <1>10, <1>11 DEF FileOK, f

LEMMA ExportRequests ==
  ASSUME CatalogInv, NEW r \in Requests, export_steps(r) \/ export_rules(r) PROVE CatalogInv'
<1>1. CASE export_steps(r)
  <2>1. PICK p \in db.pipelines : HasRead(r, [Blank EXCEPT !.p = p, !.list = format_pipeline_export(db, p).steps])
    BY <1>1 DEF export_steps
  <2> DEFINE list == format_pipeline_export(db, p).steps
             found == [Blank EXCEPT !.p = p, !.list = list]
  <2>2. UNCHANGED <<db, thinned, moved, file>> /\ requests[r].kind = "export" /\ HasRead(r, found)
    BY <1>1, <2>1 DEF export_steps, New
  <2>3. p \in Pipelines
    BY FieldsOf DEF CatalogInv, Good, Sound
  <2>4. FileList(list)
    BY <2>3, Exported DEF CatalogInv, Good, Sound, FileOK
  <2> HIDE DEF list
  <2>5. IsFound(found) /\ found.p = p /\ found.list = list
    BY DEF IsFound, Blank
  <2> HIDE DEF found
  <2>6. FoundOK(db, requests[r].kind, found)
    BY <2>2, <2>3, <2>4, <2>5 DEF FoundOK
  <2> QED
    BY <2>2, <2>5, <2>6, Reads
<1>2. CASE export_rules(r)
  <2> DEFINE found == requests[r].with
  <2>1. /\ UNCHANGED <<db, thinned, moved>> /\ Answers(r, "done")
        /\ file' = [p |-> found.p, steps |-> found.list, rules |-> RulesOf(db, found.p)]
    BY <1>2 DEF export_rules
  <2>2. found.p \in Pipelines /\ FileList(found.list)
    BY <1>2 DEF export_rules, Reading, CatalogInv, RequestsOK, FoundOK
  <2>3. RulesOf(db, found.p) \subseteq FileRules(found.p)
    BY FieldsOf DEF RulesOf, FileRules, CatalogInv, Good, Sound
  <2>4. FileOK(file')
    BY <2>1, <2>2, <2>3 DEF FileOK
  <2> QED
    BY <2>1, <2>4, Ends DEF CatalogInv
<1> QED
  BY <1>1, <1>2

LEMMA ImportShown ==
  ASSUME CatalogInv, NEW r \in Requests, import_preview(r) PROVE CatalogInv'
<1>1. PICK choice : requests' = [requests EXCEPT ![r] =
        [@ EXCEPT !.st = "shown", !.with = [Blank EXCEPT !.p = file.p, !.list = file.steps, !.rule = file.rules, !.agent = choice]]]
  BY DEF import_preview
<1> DEFINE found == [Blank EXCEPT !.p = file.p, !.list = file.steps, !.rule = file.rules, !.agent = choice]
           q == [requests[r] EXCEPT !.st = "shown", !.with = found]
<1>2. UNCHANGED <<db, thinned, moved, file>> /\ requests[r].kind = "import" /\ FileOK(file)
  BY DEF import_preview, New, CatalogInv
<1>3. IsFound(found) /\ found.p = file.p /\ found.list = file.steps /\ found.rule = file.rules
  BY DEF IsFound, Blank
<1>4. requests' = [requests EXCEPT ![r] = q]
  BY <1>1
<1> HIDE DEF found
<1>5. FoundOK(db, "import", found)
  BY <1>2, <1>3 DEF FoundOK, FileOK
<1>6. IsRequest(q) /\ q.st = "shown" /\ q.kind = "import" /\ q.with = found
  BY <1>2, <1>3 DEF IsRequest, CatalogInv, RequestsOK
<1> HIDE DEF q
<1>7. db' = db
  BY <1>2
<1>8. RequestsOK(db)'
  BY <1>4, <1>5, <1>6, <1>7, RequestGoesOn, FollowsItself DEF CatalogInv
<1> QED
  BY <1>2, <1>8 DEF CatalogInv, Good

LEMMA ImportRead ==
  ASSUME CatalogInv, NEW r \in Requests, import_confirm_reads(r) PROVE CatalogInv'
<1> DEFINE found == requests[r].with
           read == [found EXCEPT !.before = [a \in Agents |-> db.agents[a] # Absent],
                                 !.seen = IF found.p \in db.pipelines THEN 1 ELSE 0]
<1>1. UNCHANGED <<db, thinned, moved, file>> /\ requests[r].kind = "import" /\ requests[r].st = "shown"
  BY DEF import_confirm_reads
<1>2. CASE Answers(r, "skipped")
  BY <1>1, <1>2, Ends DEF CatalogInv
<1>3. CASE HasRead(r, read)
  <2>1. IsFound(found) /\ FoundOK(db, "import", found)
    BY <1>1 DEF CatalogInv, RequestsOK, IsRequest
  <2> HIDE DEF found
  <2>2. IsFound(read) /\ read.p = found.p /\ read.list = found.list /\ read.rule = found.rule
    BY <2>1 DEF IsFound
  <2> HIDE DEF read
  <2>3. FoundOK(db, requests[r].kind, read)
    BY <1>1, <2>1, <2>2 DEF FoundOK
  <2> QED
    BY <1>1, <1>3, <2>2, <2>3, Reads
<1> QED
  BY <1>2, <1>3 DEF import_confirm_reads

LEMMA AgentsImported ==
  ASSUME CatalogInv, NEW r \in Requests, import_agents(r) PROVE CatalogInv'
<1>1. PICK overwrite \in BOOLEAN :
       Commits(r, [db EXCEPT !.agents = [a \in Agents |->
         IF (\E item \in ToSet(file.steps) : item.agent = a) /\ (overwrite \/ @[a] = Absent)
         THEN (CHOOSE item \in ToSet(file.steps) : item.agent = a).content ELSE @[a]]])
  BY DEF import_agents
<1> DEFINE agents == [a \in Agents |->
         IF (\E item \in ToSet(file.steps) : item.agent = a) /\ (overwrite \/ db.agents[a] = Absent)
         THEN (CHOOSE item \in ToSet(file.steps) : item.agent = a).content ELSE db.agents[a]]
<1>2. UNCHANGED <<thinned, moved, file>> /\ FileOK(file)
  BY DEF import_agents, CatalogInv
<1>3. \A item \in ToSet(file.steps) : item.content \in Contents
  <2>1. file.steps \in Seq(FileSteps) /\ \A item \in FileSteps : item.content \in Contents
    BY <1>2 DEF FileOK, FileList, FileSteps
  <2>2. ToSet(file.steps) = {file.steps[i] : i \in DOMAIN file.steps}
    BY DEF ToSet
  <2>3. \A i \in DOMAIN file.steps : file.steps[i] \in FileSteps
    BY <2>1
  <2> QED
    BY <2>1, <2>2, <2>3
<1>4. db.agents \in [Agents -> Contents]
  BY FieldsOf DEF CatalogInv, Good, Sound
<1>5. agents \in [Agents -> Contents]
  BY <1>3, <1>4
<1>6. Commits(r, [db EXCEPT !.agents = agents])
  BY <1>1
<1> HIDE DEF agents
<1> QED
  BY <1>2, <1>5, <1>6, AgentsWritten

LEMMA AgentsEnsured ==
  ASSUME NEW d, d \in Tables, NEW found, found.list \in Seq(FileSteps)
  PROVE  LET e == _ensure_agent(d, found)
         IN e \in Tables /\ e.pipelines = d.pipelines /\ e.steps = d.steps /\ e.rules = d.rules /\ e.fresh = d.fresh
<1> DEFINE missing == {i \in DOMAIN found.list : ~ found.before[found.list[i].agent]}
           agents == [a \in Agents |-> IF \E i \in missing : found.list[i].agent = a
                                       THEN (CHOOSE item \in ToSet(found.list) : item.agent = a).content ELSE d.agents[a]]
<1>1. \A item \in ToSet(found.list) : item.content \in Contents
  <2>1. ToSet(found.list) = {found.list[i] : i \in DOMAIN found.list}
    BY DEF ToSet
  <2>2. \A i \in DOMAIN found.list : found.list[i] \in FileSteps
    OBVIOUS
  <2> QED
    BY <2>1, <2>2 DEF FileSteps
<1>2. \A i \in missing : found.list[i] \in ToSet(found.list)
  BY DEF ToSet
<1> HIDE DEF missing
<1>3. agents \in [Agents -> Contents]
  <2>1. ASSUME NEW a \in Agents, NEW i \in missing, found.list[i].agent = a
        PROVE  (CHOOSE item \in ToSet(found.list) : item.agent = a).content \in Contents
    BY <1>1, <1>2, <2>1
  <2> QED
    BY <2>1, FieldsOf
<1>4. _ensure_agent(d, found) = [d EXCEPT !.agents = agents]
  BY DEF _ensure_agent, missing
<1> HIDE DEF agents
<1> QED
  BY <1>3, <1>4 DEF Tables

\* The tables that import_confirm commits.
Named(found) == _ensure_agent(IF found.seen = 0 THEN [db EXCEPT !.pipelines = @ \cup {found.p}] ELSE db, found)
Imported(found) == [_replace_steps(Named(found), found) EXCEPT !.rules = @ \cup _import_event_rules(found)]
Importing(r) ==
  /\ Reading(r, "import")
  /\ Len(requests[r].with.list) <= Cardinality(db.fresh)
  /\ Referring(db, StepsOf(db, requests[r].with.p)) = {}

LEMMA NewIds ==
  ASSUME CatalogInv, NEW r \in Requests, Importing(r)
  PROVE  LET found == requests[r].with
         IN  /\ found.p \in Pipelines /\ FileList(found.list) /\ found.rule \subseteq FileRules(found.p)
             /\ NewSteps(db, found.list)
<1> DEFINE found == requests[r].with
<1>1. found.p \in Pipelines /\ FileList(found.list) /\ found.rule \subseteq FileRules(found.p)
  BY DEF Importing, Reading, CatalogInv, RequestsOK, FoundOK
<1>2. Len(found.list) <= Cardinality(db.fresh)
  BY DEF Importing
<1> HIDE DEF found
<1>3. found.list \in Seq(FileSteps)
  BY <1>1 DEF FileList
<1>4. \A i \in DOMAIN found.list : found.list[i] \in FileSteps
  BY <1>3
<1>5. \A i \in DOMAIN found.list : found.list[i].agent \in Agents /\ found.list[i].index \in Nat
  BY <1>4 DEF FileSteps
<1>6. Len(found.list) \in Nat /\ DOMAIN found.list = 1..Len(found.list)
  BY <1>3
<1> QED
  BY <1>1, <1>2, <1>5, <1>6 DEF found, NewSteps

LEMMA StepsReplaced ==
  ASSUME CatalogInv, NEW r \in Requests, Importing(r)
  PROVE  LET found == requests[r].with
             d == _replace_steps(Named(found), found)
             ids == Ids(db, found.list)
         IN  /\ d \in Tables /\ d.rules = db.rules /\ d.fresh = db.fresh \ ids
             /\ \A s \in ids : d.steps[s].agent = found.list[Nth(db, s)].agent /\ d.steps[s].index = found.list[Nth(db, s)].index
             /\ \A s \in StepIds \ ids : d.steps[s] = IF s \in StepsOf(db, found.p) THEN NoStep ELSE db.steps[s]
             /\ StepsOf(d, found.p) = ids
             /\ \A q : q # found.p => StepsOf(d, q) = StepsOf(db, q)
<1> DEFINE found == requests[r].with
           p == found.p
           d0 == IF found.seen = 0 THEN [db EXCEPT !.pipelines = @ \cup {found.p}] ELSE db
           named == Named(found)
           gone == StepsOf(named, p)
           e == DeleteSteps(named, gone)
           d == _replace_steps(named, found)
           ids == Ids(db, found.list)
<1>1. p \in Pipelines /\ FileList(found.list) /\ NewSteps(db, found.list)
  BY NewIds
<1> HIDE DEF found
<1>2. d0 \in Tables /\ d0.steps = db.steps /\ d0.rules = db.rules /\ d0.fresh = db.fresh
  BY <1>1 DEF CatalogInv, Good, Sound, Tables
<1> HIDE DEF d0
<1>3. named = _ensure_agent(d0, found)
  BY DEF Named, d0
<1> HIDE DEF named
<1>4. named \in Tables /\ named.steps = db.steps /\ named.rules = db.rules /\ named.fresh = db.fresh
  BY <1>1, <1>2, <1>3, AgentsEnsured DEF FileList
<1>5. \A q : StepsOf(named, q) = StepsOf(db, q)
  BY <1>4 DEF StepsOf
<1>6. /\ e \in Tables /\ e.rules = db.rules /\ e.fresh = db.fresh
      /\ \A s \in StepIds : e.steps[s] = IF s \in StepsOf(db, p) THEN NoStep ELSE db.steps[s]
      /\ \A q : StepsOf(e, q) = StepsOf(db, q) \ StepsOf(db, p)
  BY <1>4, <1>5, StepsDeleted
<1>7. d = InsertSteps(e, p, found.list)
  BY DEF _replace_steps
<1> HIDE DEF e, d
<1>8. Ids(e, found.list) = ids /\ NewSteps(e, found.list) /\ \A s : Nth(e, s) = Nth(db, s)
  BY <1>1, <1>6 DEF Ids, Nth, NewSteps
<1>9. \A s \in e.fresh : e.steps[s] = NoStep
  BY <1>6, FieldsOf DEF CatalogInv, Good, Sound
<1>10. Inserted(e, p, found.list, d)
  BY <1>1, <1>6, <1>7, <1>8, <1>9, StepsInserted
<1> HIDE DEF ids
<1>11. d \in Tables /\ d.rules = db.rules /\ d.fresh = db.fresh \ ids
  BY <1>6, <1>8, <1>10 DEF Inserted
<1>12. \A s \in ids : d.steps[s].agent = found.list[Nth(db, s)].agent /\ d.steps[s].index = found.list[Nth(db, s)].index
  BY <1>8, <1>10 DEF Inserted
<1>13. \A s \in StepIds \ ids : d.steps[s] = IF s \in StepsOf(db, p) THEN NoStep ELSE db.steps[s]
  BY <1>6, <1>8, <1>10 DEF Inserted
<1>14. StepsOf(d, p) = ids
  BY <1>6, <1>8, <1>10 DEF Inserted
<1>15. \A q : q # p => StepsOf(d, q) = StepsOf(db, q)
  <2>1. \A q : q # p => StepsOf(e, q) = StepsOf(db, q)
    BY <1>6 DEF StepsOf
  <2> QED
    BY <1>10, <2>1 DEF Inserted
<1> QED
  BY <1>11, <1>12, <1>13, <1>14, <1>15 DEF found, d, named, ids

Old(found) == [i \in DOMAIN found.list |-> found.list[i].id]
Renamed(found, s) == CHOOSE t \in db.fresh : Nth(db, t) = Position(Old(found), s)
Kept(found) == {v \in found.rule : {v.source, v.target} \subseteq ToSet(Old(found))}

LEMMA StepRenamed ==
  ASSUME CatalogInv, NEW found, FileList(found.list), NewSteps(db, found.list), NEW s \in ToSet(Old(found))
  PROVE  /\ Renamed(found, s) \in Ids(db, found.list)
         /\ Nth(db, Renamed(found, s)) = Position(Old(found), s)
         /\ Position(Old(found), s) \in DOMAIN found.list /\ found.list[Position(Old(found), s)].id = s
<1> DEFINE old == Old(found)
           n == Position(old, s)
<1>1. DOMAIN old = DOMAIN found.list /\ \A i \in DOMAIN old : old[i] = found.list[i].id
  BY DEF Old
<1>2. \E i \in DOMAIN old : old[i] = s
  BY DEF ToSet
<1> HIDE DEF old
<1>3. n \in DOMAIN old /\ old[n] = s
  BY <1>2 DEF Position
<1> HIDE DEF n
<1>4. Len(found.list) \in Nat /\ DOMAIN found.list = 1..Len(found.list) /\ Len(found.list) <= Cardinality(db.fresh)
  BY DEF NewSteps
<1>5. db.fresh \subseteq StepIds
  BY FieldsOf DEF CatalogInv, Good, Sound
<1>6. \A i \in DOMAIN found.list : \E t \in Ids(db, found.list) : Nth(db, t) = i
  BY <1>4, <1>5, IdsTaken
<1>7. PICK t \in Ids(db, found.list) : Nth(db, t) = n
  BY <1>1, <1>3, <1>6
<1>8. Ids(db, found.list) = {x \in db.fresh : Nth(db, x) <= Len(found.list)}
  BY DEF Ids
<1>9. Renamed(found, s) \in db.fresh /\ Nth(db, Renamed(found, s)) = n
  BY <1>7, <1>8 DEF Renamed, n, old
<1>10. Renamed(found, s) \in Ids(db, found.list)
  BY <1>7, <1>8, <1>9
<1> QED
  BY <1>1, <1>3, <1>9, <1>10 DEF n, old

LEMMA RulesImported ==
  ASSUME CatalogInv, NEW found, FileList(found.list), NewSteps(db, found.list), found.rule \subseteq FileRules(found.p)
  PROVE  /\ _import_event_rules(found) = {[v EXCEPT !.source = Renamed(found, @), !.target = Renamed(found, @)] : v \in Kept(found)}
         /\ \A u \in _import_event_rules(found) :
              /\ u \in RuleRows /\ u.pipeline = found.p
              /\ u.source \in Ids(db, found.list) /\ u.target \in Ids(db, found.list)
<1>1. _import_event_rules(found) = {[v EXCEPT !.source = Renamed(found, @), !.target = Renamed(found, @)] : v \in Kept(found)}
  BY DEF _import_event_rules, Renamed, Old, Kept
<1>2. ASSUME NEW v \in Kept(found)
      PROVE  LET u == [v EXCEPT !.source = Renamed(found, @), !.target = Renamed(found, @)]
             IN  /\ u \in RuleRows /\ u.pipeline = found.p
                 /\ u.source \in Ids(db, found.list) /\ u.target \in Ids(db, found.list)
  <2>1. v \in RuleRows /\ v.pipeline = found.p /\ v.source \in ToSet(Old(found)) /\ v.target \in ToSet(Old(found))
    BY DEF Kept, FileRules
  <2>2. Renamed(found, v.source) \in Ids(db, found.list) /\ Renamed(found, v.target) \in Ids(db, found.list)
    BY <2>1, StepRenamed
  <2>3. Ids(db, found.list) \subseteq StepIds
    BY FieldsOf DEF Ids, CatalogInv, Good, Sound
  <2> QED
    BY <2>1, <2>2, <2>3 DEF RuleRows
<1>3. ASSUME NEW u \in _import_event_rules(found)
      PROVE  /\ u \in RuleRows /\ u.pipeline = found.p
             /\ u.source \in Ids(db, found.list) /\ u.target \in Ids(db, found.list)
  <2>1. PICK v \in Kept(found) : u = [v EXCEPT !.source = Renamed(found, @), !.target = Renamed(found, @)]
    BY <1>1
  <2> QED
    BY <1>2, <2>1
<1> QED
  <2> HIDE DEF _import_event_rules
  <2> QED
    BY <1>1, <1>3

\* The steps and rules that were imported are all that the pipeline has.
LEMMA ImportedTables ==
  ASSUME CatalogInv, NEW r \in Requests, Importing(r)
  PROVE  LET found == requests[r].with
             d == Imported(found)
             ids == Ids(db, found.list)
         IN  /\ d \in Tables /\ d.rules = db.rules \cup _import_event_rules(found) /\ d.fresh = db.fresh \ ids
             /\ \A s \in ids : d.steps[s].agent = found.list[Nth(db, s)].agent /\ d.steps[s].index = found.list[Nth(db, s)].index
             /\ \A s \in StepIds \ ids : d.steps[s] = IF s \in StepsOf(db, found.p) THEN NoStep ELSE db.steps[s]
             /\ StepsOf(d, found.p) = ids
             /\ \A q : q # found.p => StepsOf(d, q) = StepsOf(db, q)
<1> DEFINE found == requests[r].with
           new == _import_event_rules(found)
           e == _replace_steps(Named(found), found)
           d == Imported(found)
           ids == Ids(db, found.list)
<1>1. FileList(found.list) /\ found.rule \subseteq FileRules(found.p) /\ NewSteps(db, found.list)
  BY NewIds
<1>2. /\ e \in Tables /\ e.rules = db.rules /\ e.fresh = db.fresh \ ids
      /\ \A s \in ids : e.steps[s].agent = found.list[Nth(db, s)].agent /\ e.steps[s].index = found.list[Nth(db, s)].index
      /\ \A s \in StepIds \ ids : e.steps[s] = IF s \in StepsOf(db, found.p) THEN NoStep ELSE db.steps[s]
      /\ StepsOf(e, found.p) = ids
      /\ \A q : q # found.p => StepsOf(e, q) = StepsOf(db, q)
  BY StepsReplaced
<1> HIDE DEF found
<1>3. new \subseteq RuleRows
  BY <1>1, RulesImported
<1>4. d = [e EXCEPT !.rules = @ \cup new]
  BY DEF Imported
<1> HIDE DEF d, e, new, ids
<1>5. d \in Tables /\ d.rules = db.rules \cup new /\ d.fresh = e.fresh /\ d.steps = e.steps
  BY <1>2, <1>3, <1>4 DEF Tables
<1>6. \A q : StepsOf(d, q) = StepsOf(e, q)
  BY <1>5 DEF StepsOf
<1> QED
  BY <1>2, <1>5, <1>6 DEF found, d, new, ids

LEMMA ImportConfirmed ==
  ASSUME CatalogInv, NEW r \in Requests, import_confirm(r) PROVE CatalogInv'
<1> DEFINE found == requests[r].with
           p == found.p
           d == Imported(found)
           ids == Ids(db, found.list)
           gap == \E i \in DOMAIN found.list : found.list[i].index # i - 1
<1>1. UNCHANGED <<moved, file>>
  BY DEF import_confirm
<1>2. CASE Answers(r, "failed") /\ UNCHANGED <<db, thinned>>
  BY <1>1, <1>2, Ends DEF CatalogInv
<1>3. CASE /\ Importing(r) /\ Commits(r, d)
           /\ thinned' = IF ~ Accepted(d) THEN thinned ELSE IF gap THEN thinned \cup {p} ELSE thinned \ {p}
  <2>1. p \in Pipelines /\ FileList(found.list) /\ found.rule \subseteq FileRules(p) /\ NewSteps(db, found.list)
    BY <1>3, NewIds
  <2>2. /\ d \in Tables /\ d.rules = db.rules \cup _import_event_rules(found) /\ d.fresh = db.fresh \ ids
        /\ \A s \in ids : d.steps[s].index = found.list[Nth(db, s)].index
        /\ \A s \in StepIds \ ids : d.steps[s] = IF s \in StepsOf(db, p) THEN NoStep ELSE db.steps[s]
        /\ StepsOf(d, p) = ids
        /\ \A q : q # p => StepsOf(d, q) = StepsOf(db, q)
    BY <1>3, ImportedTables
  <2> HIDE DEF found, d
  <2>3. \A u \in _import_event_rules(found) :
           u.source \in StepsOf(d, u.pipeline) /\ u.target \in StepsOf(d, u.pipeline)
    <3>1. \A u \in _import_event_rules(found) : u.pipeline = p /\ u.source \in ids /\ u.target \in ids
      BY <2>1, RulesImported
    <3> QED
      BY <2>2, <3>1
  <2>4. db.fresh \subseteq StepIds /\ \A s \in db.fresh : db.steps[s] = NoStep
    BY FieldsOf DEF CatalogInv, Good, Sound
  <2>5. ids \subseteq db.fresh /\ (\A s \in ids : Nth(db, s) \in DOMAIN found.list)
        /\ \A i \in DOMAIN found.list : \E s \in ids : Nth(db, s) = i
    BY <2>1, <2>4, IdsTaken DEF NewSteps
  <2> HIDE DEF ids
  <2>6. Follows(db, d) /\ \A s \in d.fresh : d.steps[s] = NoStep
    <3>1. \A s \in StepIds \ ids : d.steps[s] = NoStep \/ d.steps[s] = db.steps[s]
      BY <2>2
    <3>2. \A s \in d.fresh : d.steps[s] = NoStep
      BY <2>2, <2>4, <3>1
    <3>3. \A s \in StepIds \ db.fresh : s \in StepIds \ ids
      BY <2>5
    <3> QED
      BY <2>2, <3>1, <3>2, <3>3 DEF Follows
  <2>7. ASSUME ~ gap PROVE GapFree(d, p)
    <3> SUFFICES ASSUME NEW s \in ids, NEW k \in 0..(d.steps[s].index - 1)
                 PROVE  \E t \in ids : d.steps[t].index = k
      BY <2>2 DEF GapFree
    <3>1. Len(found.list) \in Nat /\ DOMAIN found.list = 1..Len(found.list)
      BY <2>1 DEF NewSteps
    <3>2. d.steps[s].index = Nth(db, s) - 1 /\ Nth(db, s) \in 1..Len(found.list)
      BY <2>2, <2>5, <2>7, <3>1
    <3>3. k + 1 \in DOMAIN found.list
      BY <3>1, <3>2
    <3>4. PICK t \in ids : Nth(db, t) = k + 1
      BY <2>5, <3>3
    <3>5. d.steps[t].index = k
      BY <2>2, <2>7, <3>3, <3>4
    <3> QED
      BY <3>5
  <2>8. ASSUME Accepted(d), NEW q \in Pipelines \ thinned' PROVE GapFree(d, q)
    <3>1. CASE q = p
      BY <1>3, <2>7, <2>8, <3>1
    <3>2. CASE q # p
      <4>1. StepsOf(d, q) = StepsOf(db, q) /\ GapFree(db, q)
        BY <1>3, <2>2, <2>8, <3>2 DEF CatalogInv, Good
      <4>2. \A s \in StepsOf(db, q) : s \in StepIds \ ids /\ s \notin StepsOf(db, p)
        BY <2>4, <2>5, <3>2 DEF StepsOf
      <4>3. \A s \in StepsOf(db, q) : d.steps[s].index = db.steps[s].index
        BY <2>2, <4>2
      <4> QED
        BY <4>1, <4>3, SameGap
    <3> QED
      BY <3>1, <3>2
  <2>9. \A u \in d.rules : u \in db.rules \/ (u.source \in StepsOf(d, u.pipeline) /\ u.target \in StepsOf(d, u.pipeline))
    BY <2>2, <2>3
  <2>10. Accepted(d) => Good(d, thinned', moved') /\ Follows(db, d)
    BY <1>1, <2>2, <2>6, <2>8, <2>9, Keeps DEF CatalogInv
  <2>11. ~ Accepted(d) => Good(db, thinned', moved')
    BY <1>1, <1>3 DEF CatalogInv
  <2> QED
    BY <1>1, <1>3, <2>10, <2>11, Writes
<1>4. CASE ~ (Answers(r, "failed") /\ UNCHANGED <<db, thinned>>)
  <2>1. Importing(r)
    BY <1>4 DEF import_confirm, Importing
  <2>2. Commits(r, d) /\ thinned' = IF ~ Accepted(d) THEN thinned ELSE IF gap THEN thinned \cup {p} ELSE thinned \ {p}
    BY <1>4 DEF import_confirm, Imported, Named
  <2> QED
    BY <1>3, <2>1, <2>2
<1> QED
  BY <1>2, <1>4

(***************************************************************************)
(* The steps in a new order                                                *)
(***************************************************************************)
\* An index changes, and nothing else.
Reindexed(old, d, changed, indices) ==
  /\ d \in Tables /\ d.rules = old.rules /\ d.fresh = old.fresh
  /\ \A s \in StepIds : (d.steps[s] = NoStep) = (old.steps[s] = NoStep)
  /\ \A s \in StepIds : old.steps[s] # NoStep => d.steps[s].pipeline = old.steps[s].pipeline
  /\ \A s \in changed : d.steps[s].index = indices[s]
  /\ \A s \in StepIds \ changed : d.steps[s] = old.steps[s]

LEMMA Updated ==
  ASSUME NEW d, d \in Tables, NEW changed \in SUBSET StepIds, NEW indices, \A s \in changed : indices[s] \in Nat,
         \A s \in changed : d.steps[s] # NoStep
  PROVE  Reindexed(d, Update(d, changed, indices), changed, indices)
<1> DEFINE steps == [s \in StepIds |-> IF s \in changed THEN [d.steps[s] EXCEPT !.index = indices[s]] ELSE d.steps[s]]
           e == Update(d, changed, indices)
<1>1. e = [d EXCEPT !.steps = steps]
  BY DEF Update
<1>2. d.steps \in [StepIds -> {NoStep} \cup StepRows]
  BY FieldsOf
<1>3. ASSUME NEW s \in changed
      PROVE  steps[s] \in StepRows /\ steps[s].pipeline = d.steps[s].pipeline /\ steps[s].index = indices[s]
  <2>1. d.steps[s] \in StepRows
    BY <1>2
  <2> QED
    BY <2>1 DEF StepRows
<1>4. NoStep \notin StepRows
  BY DEF NoStep, StepRows
<1>5. \A s \in StepIds \ changed : steps[s] = d.steps[s]
  OBVIOUS
<1>6. steps \in [StepIds -> {NoStep} \cup StepRows]
  <2>1. \A s \in StepIds : steps[s] \in {NoStep} \cup StepRows
    BY <1>2, <1>3, <1>5
  <2> QED
    BY <2>1
<1> HIDE DEF e, steps
<1>7. e \in Tables /\ e.rules = d.rules /\ e.fresh = d.fresh /\ e.steps = steps
  BY <1>1, <1>6 DEF Tables
<1>8. \A s \in StepIds : (e.steps[s] = NoStep) = (d.steps[s] = NoStep)
  BY <1>3, <1>4, <1>5, <1>7
<1>9. \A s \in StepIds : d.steps[s] # NoStep => e.steps[s].pipeline = d.steps[s].pipeline
  BY <1>3, <1>5, <1>7
<1> QED
  BY <1>3, <1>5, <1>7, <1>8, <1>9 DEF Reindexed, e

\* The indices of a list of steps from i on.
AreAt(list, i, indices) ==
  /\ \A s \in ToSet(list) : indices[s] \in Nat /\ i <= indices[s] /\ indices[s] < i + Len(list)
  /\ \A k \in DOMAIN list : list[k] \in ToSet(list) /\ indices[list[k]] = i + k - 1

LEMMA PlaceAt ==
  ASSUME NEW list, list \in Seq(StepIds), \A i, j \in DOMAIN list : list[i] = list[j] => i = j, NEW i \in Nat
  PROVE  AreAt(list, i, At(list, i))
<1>1. ToSet(list) = {list[k] : k \in DOMAIN list}
  BY DEF ToSet
<1>2. Len(list) \in Nat /\ DOMAIN list = 1..Len(list)
  OBVIOUS
<1>3. ASSUME NEW k \in DOMAIN list PROVE list[k] \in ToSet(list) /\ At(list, i)[list[k]] = i + k - 1
  <2>1. (CHOOSE j \in DOMAIN list : list[j] = list[k]) = k
    OBVIOUS
  <2> QED
    BY <1>1, <2>1 DEF At
<1>4. ASSUME NEW s \in ToSet(list)
      PROVE  At(list, i)[s] \in Nat /\ i <= At(list, i)[s] /\ At(list, i)[s] < i + Len(list)
  <2>1. PICK k \in DOMAIN list : s = list[k]
    BY <1>1
  <2> QED
    BY <1>2, <1>3, <2>1
<1> QED
  BY <1>3, <1>4 DEF AreAt

LEMMA StepsReordered ==
  ASSUME CatalogInv, NEW r \in Requests, UNCHANGED file, reorder_steps(r) PROVE CatalogInv'
<1> DEFINE found == requests[r].with
           p == found.p
           list == found.list
           L == ToSet(list)
           end == At(list, Len(list))
           places == At(list, 0)
           first == Changed(list, end, found.before)
           parked == Update(db, first, end)
           second == Changed(list, places, end)
           placed == Update(parked, second, places)
<1>1. UNCHANGED moved
  BY DEF reorder_steps
<1>2. CASE Answers(r, "failed") /\ UNCHANGED <<db, thinned>>
  BY <1>1, <1>2, Ends DEF CatalogInv
<1>3. CASE /\ Reading(r, "reorder") /\ Flushes(db, first, end) /\ Flushes(parked, second, places) /\ Commits(r, placed)
           /\ thinned' = IF Accepted(placed) /\ StepsOf(placed, p) = L THEN thinned \ {p} ELSE thinned
  <2>1. /\ p \in Pipelines /\ list \in Seq(StepIds)
        /\ \A i, j \in DOMAIN list : list[i] = list[j] => i = j
        /\ \A i \in DOMAIN list : Known(db, p, list[i])
    BY <1>3 DEF Reading, CatalogInv, RequestsOK, FoundOK
  <2>2. Len(list) \in Nat /\ DOMAIN list = 1..Len(list) /\ L \subseteq StepIds
    BY <2>1 DEF ToSet
  <2>3. AreAt(list, Len(list), end) /\ AreAt(list, 0, places)
    BY <2>1, <2>2, PlaceAt
  <2> HIDE DEF end, places
  <2>4. \A s \in L : end[s] \in Nat /\ places[s] \in Nat /\ places[s] < Len(list) /\ end[s] >= Len(list)
    BY <2>3, <2>2 DEF AreAt
  <2>5. \A k \in DOMAIN list : list[k] \in L /\ places[list[k]] = k - 1
    BY <2>3, <2>2 DEF AreAt
  <2>6. first \subseteq L
    BY DEF Changed
  <2>7. second = L
    BY <2>2, <2>4 DEF Changed
  <2> HIDE DEF found
  <2>8. Reindexed(db, parked, first, end)
    <3>1. db \in Tables /\ \A s \in first : db.steps[s] # NoStep
      BY <1>3 DEF Flushes, CatalogInv, Good, Sound
    <3> HIDE DEF first
    <3> QED
      BY <2>2, <2>4, <2>6, <3>1, Updated
  <2> HIDE DEF first, parked, second
  <2>9. Reindexed(parked, placed, L, places)
    <3>1. parked \in Tables /\ \A s \in L : parked.steps[s] # NoStep
      BY <1>3, <2>7, <2>8 DEF Flushes, Reindexed
    <3> HIDE DEF L
    <3> QED
      BY <2>2, <2>4, <2>7, <3>1, Updated
  <2>10. \A s \in L : db.steps[s] # NoStep
    BY <1>3, <2>2, <2>7, <2>8 DEF Flushes, Reindexed
  <2> HIDE DEF placed
  <2>11. \A q : StepsOf(placed, q) = StepsOf(db, q)
    BY <2>8, <2>9 DEF Reindexed, StepsOf
  <2>12. L \subseteq StepsOf(db, p)
    <3>1. \A s \in L : Known(db, p, s)
      BY <2>1 DEF ToSet
    <3> QED
      BY <2>10, <3>1, KnownStep
  <2>13. (\A s \in L : placed.steps[s].index = places[s]) /\ \A s \in StepIds \ L : placed.steps[s] = db.steps[s]
    BY <2>6, <2>8, <2>9 DEF Reindexed
  <2>14. ASSUME Accepted(placed), p \notin thinned' PROVE GapFree(placed, p)
    <3> SUFFICES ASSUME NEW s \in StepsOf(placed, p), NEW k \in 0..(placed.steps[s].index - 1),
                        \A t \in StepsOf(placed, p) : placed.steps[t].index # k
                 PROVE  FALSE
      BY DEF GapFree
    <3>1. \A j \in 0..(Len(list) - 1) : \E t \in L : t \in StepsOf(placed, p) /\ placed.steps[t].index = j
      <4> TAKE j \in 0..(Len(list) - 1)
      <4>1. j + 1 \in DOMAIN list
        BY <2>2
      <4>2. list[j + 1] \in L /\ places[list[j + 1]] = j
        BY <2>5, <4>1
      <4> QED
        BY <2>11, <2>12, <2>13, <4>2
    <3>2. k \in Nat /\ k >= Len(list)
      BY <2>2, <3>1
    <3>3. s \notin L
      BY <2>4, <2>13, <3>2
    <3>4. GapFree(db, p) /\ s \in StepsOf(db, p) /\ s \in StepIds /\ placed.steps[s] = db.steps[s]
      <4>1. p \notin thinned
        BY <1>3, <2>14, <3>3
      <4> QED
        BY <2>1, <2>11, <2>13, <3>3, <4>1 DEF CatalogInv, Good, StepsOf
    <3>5. \A j \in 0..k : \E t \in StepsOf(db, p) : db.steps[t].index = j
      <4>1. db.steps[s].index \in Nat
        BY <3>4, NumberedOnce DEF CatalogInv, Good, Sound
      <4> QED
        BY <3>2, <3>4, <4>1 DEF GapFree
    <3> DEFINE holder == [j \in 0..Len(list) |->
                 CHOOSE t \in StepsOf(db, p) : db.steps[t].index = IF j = Len(list) THEN k ELSE j]
    <3>6. ASSUME NEW j \in 0..Len(list)
          PROVE  holder[j] \in StepsOf(db, p) /\ db.steps[holder[j]].index = IF j = Len(list) THEN k ELSE j
      <4>1. (IF j = Len(list) THEN k ELSE j) \in 0..k
        BY <2>2, <3>2
      <4> QED
        BY <3>5, <4>1
    <3> HIDE DEF holder
    <3>7. ASSUME NEW j \in 0..Len(list) PROVE holder[j] \in L
      <4> SUFFICES ASSUME holder[j] \notin L PROVE FALSE
        OBVIOUS
      <4>1. holder[j] \in StepsOf(placed, p) /\ placed.steps[holder[j]].index = IF j = Len(list) THEN k ELSE j
        BY <2>11, <2>13, <3>6 DEF StepsOf
      <4>2. j # Len(list) /\ j \in 0..(Len(list) - 1)
        BY <2>2, <4>1
      <4>3. PICK t \in L : t \in StepsOf(placed, p) /\ placed.steps[t].index = j
        BY <3>1, <4>2
      <4>4. t = holder[j]
        BY <2>9, <2>14, <4>1, <4>2, <4>3, NumberedOnce DEF Reindexed
      <4> QED
        BY <4>3, <4>4
    <3>8. \A j, l \in 0..Len(list) : holder[j] = holder[l] => j = l
      <4> TAKE j, l \in 0..Len(list)
      <4> HAVE holder[j] = holder[l]
      <4>1. (IF j = Len(list) THEN k ELSE j) = (IF l = Len(list) THEN k ELSE l)
        BY <3>6
      <4> QED
        BY <2>2, <3>2, <4>1
    <3>9. \A j \in 0..Len(list) : holder[j] \in {list[i] : i \in 1..Len(list)}
      BY <2>2, <3>7 DEF ToSet
    <3> HIDE DEF list
    <3>10. Crowded(Len(list), list, holder)
      BY <3>8, <3>9 DEF Crowded
    <3> QED
      BY <2>2, <3>10, NoRoom
  <2>15. ASSUME Accepted(placed), NEW q \in Pipelines \ thinned' PROVE GapFree(placed, q)
    <3>1. CASE q = p
      BY <2>14, <2>15, <3>1
    <3>2. CASE q # p
      <4>1. GapFree(db, q)
        BY <1>3, <3>2 DEF CatalogInv, Good
      <4>2. \A s \in StepsOf(db, q) : s \in StepIds \ L
        BY <2>12, <3>2 DEF StepsOf
      <4> QED
        BY <2>11, <2>13, <4>1, <4>2, SameGap
    <3> QED
      BY <3>1, <3>2
  <2>16. placed \in Tables /\ placed.rules = db.rules /\ placed.fresh = db.fresh
    BY <2>8, <2>9 DEF Reindexed
  <2>17. /\ \A s \in StepIds : (placed.steps[s] = NoStep) = (db.steps[s] = NoStep)
         /\ \A s \in StepIds : db.steps[s] # NoStep => placed.steps[s].pipeline = db.steps[s].pipeline
    BY <2>8, <2>9 DEF Reindexed
  <2>18. Follows(db, placed) /\ \A s \in placed.fresh : placed.steps[s] = NoStep
    BY <2>16, <2>17, FieldsOf DEF Follows, CatalogInv, Good, Sound
  <2>19. Accepted(placed) => Good(placed, thinned', moved') /\ Follows(db, placed)
    BY <1>1, <2>15, <2>16, <2>18, Keeps DEF CatalogInv
  <2>20. ~ Accepted(placed) => Good(db, thinned', moved')
    BY <1>1, <1>3 DEF CatalogInv
  <2> QED
    BY <1>3, <2>19, <2>20, Writes
<1> QED
  BY <1>2, <1>3 DEF reorder_steps

(***************************************************************************)
(* The invariant                                                           *)
(***************************************************************************)
LEMMA Starts == Init => CatalogInv
<1> SUFFICES ASSUME Init PROVE CatalogInv
  OBVIOUS
<1>1. PICK s \in Scenarios :
        /\ db = s.db
        /\ requests = [r \in Requests |-> [kind |-> s.requests[r], st |-> "new", with |-> Blank]]
        /\ thinned = {p \in s.db.pipelines : s.gaps}
        /\ moved = {} /\ file = IF s.exported THEN format_pipeline_export(s.db, "p") ELSE NoFile
  BY DEF Init
<1>2. /\ Sound(db) /\ TargetsOwn(db, {})
      /\ s.gaps \/ \A p \in Pipelines : GapFree(db, p)
      /\ s.exported => "p" \in db.pipelines
  BY <1>1, ScenariosAssumption
<1>3. \A p \in Pipelines \ thinned : GapFree(db, p)
  BY <1>1, <1>2, Without DEF Sound
<1>4. RequestsOK(db)
  <2>1. IsFound(Blank)
    BY DEF IsFound, Blank
  <2> HIDE DEF Blank
  <2>2. ASSUME NEW r \in Requests PROVE IsRequest(requests[r]) /\ requests[r].st = "new"
    BY <1>1, <2>1 DEF IsRequest
  <2>3. requests = [r \in Requests |-> requests[r]]
    BY <1>1
  <2> QED
    BY <2>2, <2>3 DEF RequestsOK
<1>5. file = NoFile \/ FileOK(file)
  <2>1. s.exported => "p" \in Pipelines
    BY <1>2, FieldsOf DEF Sound
  <2> QED
    BY <1>1, <1>2, <2>1, Exported DEF Sound
<1> QED
  BY <1>1, <1>2, <1>3, <1>4, <1>5 DEF CatalogInv, Good

LEMMA Steps == CatalogInv /\ [Next]_vars => CatalogInv'
<1> SUFFICES ASSUME CatalogInv, [Next]_vars PROVE CatalogInv'
  OBVIOUS
<1>1. CASE DefinitionRequest /\ UNCHANGED <<file, row, announced>>
  <2>1. PICK r \in Requests :
    \/ create_agent(r) \/ update_agent(r) \/ delete_agent(r) \/ seed_agents_reads(r) \/ seed_agents(r)
    \/ create_pipeline(r) \/ seed_pipelines_reads(r) \/ seed_pipelines(r) \/ delete_pipeline(r)
    \/ add_step_reads(r) \/ add_step(r) \/ remove_step(r) \/ reorder_reads(r) \/ reorder_steps(r)
    \/ add_event_rule_reads(r) \/ add_event_rule(r) \/ remove_event_rule(r) \/ update_event_rule(r)
    BY <1>1 DEF DefinitionRequest
  <2>2. UNCHANGED file
    BY <1>1
  <2>3. CASE create_agent(r) \/ update_agent(r) \/ delete_agent(r) \/ seed_agents_reads(r) \/ seed_agents(r)
    BY <2>2, <2>3, AgentRequests
  <2>4. CASE create_pipeline(r) \/ seed_pipelines(r) \/ delete_pipeline(r)
    BY <2>2, <2>4, PipelineCreated, PipelinesSeeded, PipelineDeleted
  <2>5. CASE seed_pipelines_reads(r) \/ add_step_reads(r) \/ reorder_reads(r)
    BY <2>2, <2>5, PipelinesRead
  <2>6. CASE add_step(r) \/ remove_step(r) \/ reorder_steps(r)
    BY <2>2, <2>6, StepAdded, StepRemoved, StepsReordered
  <2>7. CASE add_event_rule_reads(r) \/ add_event_rule(r) \/ remove_event_rule(r) \/ update_event_rule(r)
    BY <2>2, <2>7, RuleRead, RuleAdded, RuleRemoved, RuleUpdated
  <2> QED
    BY <2>1, <2>3, <2>4, <2>5, <2>6, <2>7
<1>2. CASE ExchangeRequest /\ UNCHANGED <<row, announced>>
  <2>1. PICK r \in Requests : \/ export_steps(r) \/ export_rules(r) \/ import_preview(r)
                              \/ import_confirm_reads(r) \/ import_confirm(r) \/ import_agents(r)
    BY <1>2 DEF ExchangeRequest
  <2> QED
    BY <2>1, ExportRequests, ImportShown, ImportRead, ImportConfirmed, AgentsImported
<1>3. CASE UNCHANGED <<defVars, file>>
  BY <1>3 DEF defVars, CatalogInv, Good, RequestsOK
<1> QED
  BY <1>1, <1>2, <1>3 DEF Next, vars, fire_pipeline_event

\* The tables, what requests have read of them and the exported file fit together in every state.
THEOREM CatalogIsSound == Spec => []CatalogInv
BY Starts, Steps, PTL DEF Spec

(***************************************************************************)
(* Event rules                                                             *)
(***************************************************************************)
LEMMA OneRule ==
  ASSUME CatalogInv, NEW p, NEW s, NEW event, NEW u \in Matching(p, event, s) PROVE Matching(p, event, s) = {u}
BY DEF Matching, CatalogInv, Good, Sound, Accepted, RulesUnique, Key

LEMMA RulesAreOwn == CatalogInv => RulesStay
<1> SUFFICES ASSUME CatalogInv PROVE RulesStay
  OBVIOUS
<1>1. \A u \in db.rules \ moved : {u.source, u.target} \subseteq StepsOf(db, u.pipeline)
  BY DEF CatalogInv, Good, Sound, TargetsOwn
<1>2. ASSUME NEW p \in db.pipelines, NEW s \in StepIds PROVE Cardinality(get_event_rule_for_step(p, s)) <= 1
  <2> DEFINE rules == get_event_rule_for_step(p, s)
  <2>1. CASE rules = {}
    BY <2>1, FS_EmptySet
  <2>2. CASE rules # {}
    <3>1. PICK u : u \in rules
      BY <2>2
    <3>2. rules = {u}
      BY <3>1, OneRule DEF get_event_rule_for_step
    <3>3. Cardinality({u}) = 1
      BY FS_Singleton
    <3> QED
      BY <3>2, <3>3
  <2> QED
    BY <2>1, <2>2
<1> QED
  BY <1>1, <1>2 DEF RulesStay

\* The steps of an event rule stay steps of its pipeline, and no step gets two rules for a rejection.
THEOREM RulesAlwaysStay == Spec => []RulesStay
BY CatalogIsSound, RulesAreOwn, PTL

\* Where no index is left out, a step's index is the number of the steps before it.
LEMMA IndexIsPlace ==
  ASSUME NEW d, d \in Tables, Accepted(d), NEW p, GapFree(d, p), NEW s \in StepsOf(d, p)
  PROVE  NumberBefore(d, p, s) = d.steps[s].index
<1> DEFINE S == StepsOf(d, p)
           g == [t \in S |-> d.steps[t].index]
           i == d.steps[s].index
<1>1. IsFiniteSet(S) /\ g \in [S -> Nat] /\ (\A t, v \in S : g[t] = g[v] => t = v) /\ i \in Nat
  BY NumberedOnce
<1>2. \A k \in 0..(i - 1) : \E t \in S : g[t] = k
  BY DEF GapFree
<1>3. {t \in S : g[t] < i} = Before(d, p, i)
  BY DEF Before
<1> HIDE DEF g, S, i
<1>4. Cardinality({t \in S : g[t] < i}) = i
  BY <1>1, <1>2, Counted
<1> QED
  BY <1>3, <1>4 DEF NumberBefore, i

\* Places grow with the indices.
LEMMA PlacesGrow ==
  ASSUME NEW d, NEW p, AreOrdered(d, p, InOrder(d, p)), NEW s \in StepsOf(d, p), NEW t \in StepsOf(d, p),
         d.steps[s].index \in Nat, d.steps[t].index \in Nat, d.steps[s].index < d.steps[t].index
  PROVE  NumberBefore(d, p, s) < NumberBefore(d, p, t)
<1> DEFINE list == InOrder(d, p)
           i == NumberBefore(d, p, s)
           j == NumberBefore(d, p, t)
<1> HIDE DEF list
<1>1. AreOrdered(d, p, list)
  BY DEF list
<1>2. i \in Nat /\ j \in Nat /\ i + 1 \in DOMAIN list /\ j + 1 \in DOMAIN list
  BY <1>1 DEF AreOrdered
<1>3. list[i + 1] \in StepsOf(d, p) /\ NumberBefore(d, p, list[i + 1]) = i
  BY <1>1, <1>2 DEF AreOrdered
<1>4. list[j + 1] \in StepsOf(d, p) /\ NumberBefore(d, p, list[j + 1]) = j
  BY <1>1, <1>2 DEF AreOrdered
<1>5. list[i + 1] = s /\ list[j + 1] = t
  BY <1>1, <1>3, <1>4 DEF AreOrdered
<1>6. CASE i < j
  BY <1>6
<1>7. CASE j < i
  <2>1. d.steps[list[j + 1]].index < d.steps[list[i + 1]].index
    BY <1>1, <1>2, <1>7 DEF AreOrdered
  <2> QED
    BY <1>5, <2>1
<1>8. CASE i = j
  BY <1>5, <1>8
<1> QED
  BY <1>2, <1>6, <1>7, <1>8

\* No more steps come before a step than its index counts.
LEMMA PlaceInIndex ==
  ASSUME NEW d, d \in Tables, Accepted(d), NEW p, NEW s \in StepsOf(d, p)
  PROVE  NumberBefore(d, p, s) <= d.steps[s].index
<1> DEFINE i == d.steps[s].index
           B == Before(d, p, i)
           f == [t \in B |-> d.steps[t].index]
<1>1. i \in Nat /\ \A t \in B : d.steps[t].index \in Nat /\ d.steps[t].index < i
  BY NumberedOnce DEF Before
<1>2. \A t, v \in B : d.steps[t].index = d.steps[v].index => t = v
  BY NumberedOnce DEF Before
<1> HIDE DEF B, i
<1>3. f \in [B -> 0..(i - 1)]
  BY <1>1
<1>4. \A t, v \in B : f[t] = f[v] => t = v
  BY <1>2
<1>5. f \in Injection(B, 0..(i - 1))
  BY <1>3, <1>4 DEF Injection, IsInjective
<1> HIDE DEF f
<1>6. IsFiniteSet(0..(i - 1)) /\ Cardinality(0..(i - 1)) = i
  BY <1>1, FS_Interval
<1>7. Cardinality(B) <= i
  BY <1>5, <1>6, FS_Injection
<1> QED
  BY <1>7 DEF NumberBefore, B, i

\* While no step before it was repeated, the row at a step's place is the step's own.
LEMMA RowIsStep ==
  ASSUME db \in Tables, Accepted(db), NEW p, NEW s \in StepsOf(db, p), NEW n \in Nat,
         NEW again \in [1..n -> StepsOf(db, p)],
         \A k \in 1..n : StepPlace(p, again[k]) >= StepPlace(p, s)
  PROVE  RowAt(p, again, StepPlace(p, s)) = s
<1> DEFINE S == StepsOf(db, p)
           current == StepPlace(p, s)
           extra(t) == {k \in DOMAIN again : again[k] \in Before(db, p, db.steps[t].index)}
<1>1. AreOrdered(db, p, InOrder(db, p))
  BY Ordered
<1>2. /\ \A t \in S : db.steps[t].index \in Nat
      /\ \A t, v \in S : db.steps[t].index = db.steps[v].index => t = v
  BY NumberedOnce
<1>3. \A t \in S : StepPlace(p, t) = NumberBefore(db, p, t) /\ StepPlace(p, t) \in Nat
  BY <1>1 DEF StepPlace, NumberBefore, AreOrdered
<1>4. \A t, v \in S : db.steps[t].index < db.steps[v].index => StepPlace(p, t) < StepPlace(p, v)
  BY <1>1, <1>2, <1>3, PlacesGrow
<1>5. DOMAIN again = 1..n /\ \A k \in 1..n : again[k] \in S
  OBVIOUS
<1>6. \A t \in S : RowsBefore(p, again, t) = StepPlace(p, t) + Cardinality(extra(t))
  BY DEF RowsBefore, StepPlace
<1>7. \A t \in S : Cardinality(extra(t)) \in Nat
  <2> SUFFICES ASSUME NEW t \in S PROVE Cardinality(extra(t)) \in Nat
    OBVIOUS
  <2>1. IsFiniteSet(1..n)
    BY FS_Interval
  <2>2. extra(t) \subseteq 1..n
    BY <1>5
  <2> QED
    BY <2>1, <2>2, FS_Subset, FS_CardinalityType
<1>8. extra(s) = {}
  <2> SUFFICES ASSUME NEW k \in 1..n, again[k] \in Before(db, p, db.steps[s].index) PROVE FALSE
    BY <1>5
  <2>1. again[k] \in S /\ db.steps[again[k]].index < db.steps[s].index
    BY DEF Before
  <2>2. StepPlace(p, again[k]) < StepPlace(p, s)
    BY <1>4, <2>1
  <2> QED
    BY <1>3, <2>1, <2>2
<1>9. RowsBefore(p, again, s) = current
  <2>1. Cardinality(extra(s)) = 0
    BY <1>8, FS_EmptySet
  <2> QED
    BY <1>3, <1>6, <2>1
<1> HIDE DEF extra
<1>10. ASSUME NEW t \in S, RowsBefore(p, again, t) <= current PROVE db.steps[t].index <= db.steps[s].index
  <2> SUFFICES ASSUME db.steps[s].index < db.steps[t].index PROVE FALSE
    BY <1>2
  <2>1. current < StepPlace(p, t)
    BY <1>4
  <2> QED
    BY <1>3, <1>6, <1>7, <1>10, <2>1
<1> DEFINE Is(v) == /\ RowsBefore(p, again, v) <= current
                    /\ \A t \in S : RowsBefore(p, again, t) <= current => db.steps[t].index <= db.steps[v].index
<1>11. Is(s)
  BY <1>3, <1>9, <1>10
<1>12. ASSUME NEW v \in S, Is(v) PROVE v = s
  <2>1. RowsBefore(p, again, v) <= current /\ RowsBefore(p, again, s) <= current
    BY <1>11, <1>12
  <2>2. db.steps[s].index <= db.steps[v].index
    BY <1>12, <2>1
  <2>3. db.steps[v].index <= db.steps[s].index
    BY <1>10, <2>1
  <2> QED
    BY <1>2, <2>2, <2>3
<1>13. RowAt(p, again, current) = CHOOSE v \in S : Is(v)
  BY DEF RowAt
<1> HIDE DEF Is, S
<1>14. s \in S
  BY DEF S
<1>15. (CHOOSE v \in S : Is(v)) = s
  BY <1>11, <1>12, <1>14
<1> QED
  BY <1>13, <1>15

LEMMA RejectedGoes == CatalogInv => RejectedToTarget
<1> SUFFICES ASSUME CatalogInv, NEW p \in db.pipelines, NEW u \in RulesOf(db, p) \ moved, NEW n \in 0..2,
                    NEW again \in [1..n -> StepsOf(db, p)], u.event = "step_rejected", u.enabled,
                    \A k \in 1..n : StepPlace(p, again[k]) >= StepPlace(p, u.source)
             PROVE  SentBack(p, u, again)
  BY DEF RejectedToTarget
<1> DEFINE s == u.source
           t == u.target
           current == StepPlace(p, s)
           list == InOrder(db, p)
           i == db.steps[t].index
           to == finished_pipeline_step(p, again, current)
<1>1. db \in Tables /\ Accepted(db)
  BY DEF CatalogInv, Good, Sound
<1>2. u \in db.rules /\ u.pipeline = p
  BY DEF RulesOf
<1>3. s \in StepsOf(db, p) /\ t \in StepsOf(db, p)
  BY <1>2 DEF CatalogInv, Good, Sound, TargetsOwn
<1>4. get_event_rule_for_step(p, s) = {u}
  <2>1. u \in Matching(p, "step_rejected", s)
    BY <1>2 DEF Matching
  <2> QED
    BY <2>1, OneRule DEF get_event_rule_for_step
<1>5. resolve_rejection_target(p, s) = i
  BY <1>3, <1>4 DEF resolve_rejection_target
<1>6. RowAt(p, again, current) = s
  BY <1>1, <1>3, RowIsStep
<1>7. to = reject_step(p, i, current)
  BY <1>5, <1>6 DEF finished_pipeline_step
<1>8. AreOrdered(db, p, list)
  BY <1>1, Ordered
<1>9. i \in Nat
  BY <1>1, <1>3, NumberedOnce
<1>10. \A v \in StepsOf(db, p) : StepPlace(p, v) = NumberBefore(db, p, v) /\ StepPlace(p, v) \in Nat
  BY <1>8 DEF StepPlace, NumberBefore, AreOrdered
<1>11. StepPlace(p, t) <= i
  BY <1>1, <1>3, <1>10, PlaceInIndex
<1> HIDE DEF list, i, to
<1>12. ASSUME i < current
       PROVE  to = list[i + 1] /\ list[i + 1] \in StepsOf(db, p) /\ StepPlace(p, list[i + 1]) = i
  <2>1. current \in Nat /\ current + 1 \in DOMAIN list /\ DOMAIN list = 1..Cardinality(StepsOf(db, p))
        /\ Cardinality(StepsOf(db, p)) \in Nat
    BY <1>3, <1>8, <1>10 DEF AreOrdered
  <2>2. i + 1 \in DOMAIN list
    BY <1>9, <1>12, <2>1
  <2>3. i # NoTarget
    BY <1>9, TargetAssumption
  <2>4. to = list[i + 1]
    BY <1>7, <1>12, <2>2, <2>3 DEF reject_step, list
  <2>5. list[i + 1] \in StepsOf(db, p) /\ NumberBefore(db, p, list[i + 1]) = i
    BY <1>8, <1>9, <2>2 DEF AreOrdered
  <2> QED
    BY <1>10, <2>4, <2>5
<1>13. ASSUME ~ (i < current) PROVE to = NoTarget
  BY <1>7, <1>13 DEF reject_step
<1>14. to = NoTarget \/ (StepPlace(p, t) <= StepPlace(p, to) /\ StepPlace(p, to) < current)
  BY <1>11, <1>12, <1>13
<1>15. ASSUME p \notin thinned PROVE to = IF StepPlace(p, t) < current THEN t ELSE NoTarget
  <2>1. GapFree(db, p)
    BY <1>1, <1>15, FieldsOf DEF CatalogInv, Good
  <2>2. StepPlace(p, t) = i
    BY <1>1, <1>3, <1>10, <2>1, IndexIsPlace DEF i
  <2>3. ASSUME i < current PROVE to = t
    <3>1. NumberBefore(db, p, list[i + 1]) = NumberBefore(db, p, t) /\ list[i + 1] \in StepsOf(db, p)
      BY <1>3, <1>10, <1>12, <2>2, <2>3
    <3>2. list[i + 1] = t
      BY <1>3, <1>8, <3>1 DEF AreOrdered
    <3> QED
      BY <1>12, <2>3, <3>2
  <2> QED
    BY <1>13, <2>2, <2>3
<1> QED
  BY <1>14, <1>15 DEF to, SentBack

\* A rejection goes to the step of the rejected step's rule where that stands before it, and is refused
\* where it does not (finished_pipeline_step, resolve_rejection_target, reject_step): the row at the
\* run's place is the step's own, and while nothing is left out of the indices the index of the
\* target is its place.  With a gap it may be refused or stop short, but goes back no further.
THEOREM RejectionsFindTheirTarget == Spec => []RejectedToTarget
BY CatalogIsSound, RejectedGoes, PTL

(***************************************************************************)
(* What an import restores                                                 *)
(***************************************************************************)
Goes(r) == \E q : requests' = [requests EXCEPT ![r] = q]

LEMMA OneRequestGoes ==
  ASSUME NEW r PROVE /\ \A answer : Answers(r, answer) => Goes(r)
                     /\ \A found : HasRead(r, found) => Goes(r)
                     /\ \A d : Commits(r, d) => Goes(r)
BY DEF Answers, HasRead, Commits, Goes

LEMMA DefinitionRequestsGo ==
  ASSUME NEW r,
    \/ create_agent(r) \/ update_agent(r) \/ delete_agent(r) \/ seed_agents_reads(r) \/ seed_agents(r)
    \/ create_pipeline(r) \/ seed_pipelines_reads(r) \/ seed_pipelines(r) \/ delete_pipeline(r)
    \/ add_step_reads(r) \/ add_step(r) \/ remove_step(r) \/ reorder_reads(r) \/ reorder_steps(r)
    \/ add_event_rule_reads(r) \/ add_event_rule(r) \/ remove_event_rule(r) \/ update_event_rule(r)
  PROVE  Goes(r) /\ ~ Reading(r, "import")
<1>1. CASE create_agent(r) \/ update_agent(r) \/ delete_agent(r) \/ seed_agents_reads(r) \/ seed_agents(r)
  BY <1>1, OneRequestGoes DEF create_agent, update_agent, delete_agent, seed_agents_reads, seed_agents, New, Reading
<1>2. CASE create_pipeline(r) \/ seed_pipelines_reads(r) \/ seed_pipelines(r) \/ delete_pipeline(r)
  BY <1>2, OneRequestGoes DEF create_pipeline, seed_pipelines_reads, seed_pipelines, delete_pipeline, New, Reading
<1>3. CASE add_step_reads(r) \/ add_step(r) \/ remove_step(r) \/ reorder_reads(r) \/ reorder_steps(r)
  BY <1>3, OneRequestGoes DEF add_step_reads, add_step, remove_step, reorder_reads, reorder_steps, New, Reading
<1>4. CASE add_event_rule_reads(r) \/ add_event_rule(r) \/ remove_event_rule(r) \/ update_event_rule(r)
  BY <1>4, OneRequestGoes DEF add_event_rule_reads, add_event_rule, remove_event_rule, update_event_rule, New, Reading
<1> QED
  BY <1>1, <1>2, <1>3, <1>4

LEMMA OtherExchangesGo ==
  ASSUME NEW r, export_steps(r) \/ export_rules(r) \/ import_preview(r) \/ import_confirm_reads(r) \/ import_agents(r)
  PROVE  Goes(r) /\ ~ Reading(r, "import")
BY OneRequestGoes DEF export_steps, export_rules, import_preview, import_confirm_reads, import_agents, New, Reading, Goes

\* An import is done when import_confirm has committed it.
LEMMA ImportIsCommitted ==
  ASSUME CatalogInv, [Next]_vars, NEW r \in Requests, Reading(r, "import"), requests'[r].st = "done"
  PROVE  Importing(r) /\ Accepted(Imported(requests[r].with)) /\ db' = Imported(requests[r].with)
<1>1. requests[r].st = "read" /\ requests = [t \in Requests |-> requests[t]]
  BY DEF Reading, CatalogInv, RequestsOK
<1>2. ~ UNCHANGED requests
  BY <1>1
<1>3. \A t \in Requests \ {r} : ~ Goes(t)
  BY <1>1 DEF Goes
<1>4. ~ DefinitionRequest
  BY <1>3, DefinitionRequestsGo DEF DefinitionRequest
<1>5. import_confirm(r)
  <2>1. ExchangeRequest
    BY <1>2, <1>4 DEF Next, vars, defVars, fire_pipeline_event
  <2>2. PICK t \in Requests : \/ export_steps(t) \/ export_rules(t) \/ import_preview(t)
                              \/ import_confirm_reads(t) \/ import_confirm(t) \/ import_agents(t)
    BY <2>1 DEF ExchangeRequest
  <2>3. import_confirm(t) => Goes(t)
    BY OneRequestGoes DEF import_confirm
  <2>4. t = r
    BY <1>3, <2>2, <2>3, OtherExchangesGo
  <2> QED
    BY <2>2, <2>4, OtherExchangesGo
<1>6. ~ Answers(r, "failed")
  <2>1. IsRequest(requests[r])
    BY DEF CatalogInv, RequestsOK
  <2>2. [requests[r] EXCEPT !.st = "failed"].st = "failed"
    BY <2>1 DEF IsRequest
  <2> QED
    BY <1>1, <2>2 DEF Answers
<1>7. Importing(r) /\ Commits(r, Imported(requests[r].with))
  BY <1>5, <1>6 DEF import_confirm, Importing, Imported, Named
<1> HIDE DEF Imported
<1> QED
  BY <1>6, <1>7 DEF Commits

\* Of the new steps as many come before one as its id has before it.
LEMMA NewStepsInOrder ==
  ASSUME CatalogInv, NEW list, FileList(list), NewSteps(db, list), NEW d, NEW p,
         StepsOf(d, p) = Ids(db, list), \A s \in Ids(db, list) : d.steps[s].index = list[Nth(db, s)].index,
         NEW s \in Ids(db, list)
  PROVE  NumberBefore(d, p, s) + 1 = Nth(db, s) /\ Nth(db, s) \in DOMAIN list
<1> DEFINE ids == Ids(db, list)
           before == Before(d, p, d.steps[s].index)
           upto == {t \in db.fresh : t <= s}
<1>1. db.fresh \subseteq StepIds /\ DOMAIN list = 1..Len(list) /\ Len(list) \in Nat
  BY FieldsOf DEF CatalogInv, Good, Sound, NewSteps
<1>2. /\ ids \subseteq db.fresh /\ (\A t \in ids : Nth(db, t) \in DOMAIN list)
      /\ \A t, v \in db.fresh : t < v => Nth(db, t) < Nth(db, v)
  BY <1>1, IdsTaken DEF NewSteps
<1>3. IsFiniteSet(db.fresh) /\ \A t \in db.fresh : t \in Nat
  BY <1>1, DefinitionsAssumption, FS_Subset
<1>4. \A t \in upto : t \in ids
  <2> TAKE t \in upto
  <2>1. Nth(db, t) \in Nat /\ Nth(db, s) \in Nat /\ Nth(db, s) <= Len(list)
    <3>1. IsFiniteSet({v \in db.fresh : v <= t})
      BY <1>3, FS_Subset
    <3> QED
      BY <1>1, <1>2, <3>1, FS_CardinalityType DEF Nth
  <2>2. t = s \/ t < s
    BY <1>2, <1>3
  <2>3. Nth(db, t) <= Nth(db, s)
    BY <1>2, <2>1, <2>2
  <2> QED
    BY <1>1, <2>1, <2>3 DEF Ids
<1>5. \A t \in ids : d.steps[t].index < d.steps[s].index <=> t < s
  <2> TAKE t \in ids
  <2>1. /\ t \in Nat /\ s \in Nat /\ Nth(db, t) \in DOMAIN list /\ Nth(db, s) \in DOMAIN list
        /\ (t < s => Nth(db, t) < Nth(db, s)) /\ (s < t => Nth(db, s) < Nth(db, t))
    BY <1>2, <1>3
  <2>2. \A i, j \in DOMAIN list : i < j => list[i].index < list[j].index
    BY DEF FileList
  <2>3. d.steps[t].index = list[Nth(db, t)].index /\ d.steps[s].index = list[Nth(db, s)].index
    OBVIOUS
  <2>4. d.steps[t].index \in Nat /\ d.steps[s].index \in Nat
    BY <2>1, <2>3 DEF NewSteps
  <2>5. t < s => d.steps[t].index < d.steps[s].index
    BY <2>1, <2>2, <2>3
  <2>6. s < t => d.steps[s].index < d.steps[t].index
    BY <2>1, <2>2, <2>3
  <2>7. t = s \/ t < s \/ s < t
    BY <2>1
  <2> QED
    BY <2>1, <2>4, <2>5, <2>6, <2>7
<1>6. upto = before \cup {s} /\ s \notin before
  <2>1. before = {t \in ids : d.steps[t].index < d.steps[s].index}
    BY DEF Before
  <2> HIDE DEF before
  <2> QED
    BY <1>2, <1>3, <1>4, <1>5, <2>1
<1>7. IsFiniteSet(before)
  <2>1. before \subseteq db.fresh
    BY <1>2 DEF Before
  <2> QED
    BY <1>3, <2>1, FS_Subset
<1> HIDE DEF before
<1>8. Cardinality(upto) = Cardinality(before) + 1
  BY <1>6, <1>7, FS_AddElement
<1> QED
  BY <1>2, <1>8 DEF NumberBefore, before, Nth

\* The pipeline that has been imported, step by step.
LEMMA ImportedSteps ==
  ASSUME CatalogInv, NEW r \in Requests, Importing(r), Accepted(Imported(requests[r].with))
  PROVE  LET found == requests[r].with
             d == Imported(found)
             list == InOrder(d, found.p)
         IN  /\ ToSet(list) = StepsOf(d, found.p) /\ StepsOf(d, found.p) = Ids(db, found.list)
             /\ DOMAIN list = DOMAIN found.list
             /\ \A i \in DOMAIN list : list[i] \in Ids(db, found.list) /\ d.steps[list[i]].agent = found.list[i].agent
             /\ \A s \in Ids(db, found.list) : Position(list, s) = Nth(db, s)
<1> DEFINE found == requests[r].with
           p == found.p
           d == Imported(found)
           list == InOrder(d, p)
           ids == Ids(db, found.list)
<1>1. p \in Pipelines /\ FileList(found.list) /\ NewSteps(db, found.list)
  BY NewIds
<1>2. /\ d \in Tables
      /\ \A s \in ids : d.steps[s].agent = found.list[Nth(db, s)].agent /\ d.steps[s].index = found.list[Nth(db, s)].index
      /\ StepsOf(d, p) = ids
  BY ImportedTables
<1>3. Accepted(d)
  OBVIOUS
<1> HIDE DEF found, d
<1>4. AreOrdered(d, p, list)
  BY <1>2, <1>3, Ordered
<1>5. \A s \in ids : NumberBefore(d, p, s) + 1 = Nth(db, s) /\ Nth(db, s) \in DOMAIN found.list
  BY <1>1, <1>2, NewStepsInOrder
<1>6. \A i \in DOMAIN found.list : \E s \in ids : Nth(db, s) = i
  BY <1>1, IdsTaken, FieldsOf DEF NewSteps, CatalogInv, Good, Sound
<1> HIDE DEF list, ids
<1>7. Cardinality(ids) \in Nat /\ DOMAIN list = 1..Cardinality(ids)
  BY <1>2, <1>4 DEF AreOrdered
<1>8. \A i \in DOMAIN list : list[i] \in ids /\ Nth(db, list[i]) = i
  <2> TAKE i \in DOMAIN list
  <2>1. list[i] \in ids /\ NumberBefore(d, p, list[i]) = i - 1 /\ i \in Nat
    BY <1>2, <1>4, <1>7 DEF AreOrdered
  <2> QED
    BY <1>5, <2>1
<1>9. \A s \in ids : Nth(db, s) \in DOMAIN list /\ list[Nth(db, s)] = s
  <2> TAKE s \in ids
  <2>1. NumberBefore(d, p, s) \in Nat /\ NumberBefore(d, p, s) + 1 \in DOMAIN list
    BY <1>2, <1>4 DEF AreOrdered
  <2>2. Nth(db, s) \in DOMAIN list
    BY <1>5, <2>1
  <2>3. list[Nth(db, s)] \in ids /\ NumberBefore(d, p, list[Nth(db, s)]) = NumberBefore(d, p, s)
    <3>1. list[Nth(db, s)] \in ids /\ Nth(db, list[Nth(db, s)]) = Nth(db, s)
      BY <1>8, <2>2
    <3>2. NumberBefore(d, p, list[Nth(db, s)]) \in Nat
      BY <1>2, <1>4, <3>1 DEF AreOrdered
    <3> QED
      BY <1>5, <2>1, <3>1, <3>2
  <2> QED
    BY <1>2, <1>4, <2>2, <2>3 DEF AreOrdered
<1>10. DOMAIN list = DOMAIN found.list
  BY <1>5, <1>6, <1>8, <1>9
<1>11. \A s \in ids : Position(list, s) = Nth(db, s)
  <2> TAKE s \in ids
  <2>1. \A i \in DOMAIN list : list[i] = s => i = Nth(db, s)
    BY <1>8
  <2> QED
    BY <1>9, <2>1 DEF Position
<1>12. ToSet(list) = ids
  BY <1>8, <1>9 DEF ToSet
<1>13. \A i \in DOMAIN list : d.steps[list[i]].agent = found.list[i].agent
  BY <1>2, <1>8
<1> QED
  BY <1>2, <1>8, <1>10, <1>11, <1>12, <1>13 DEF found, d, list, ids

\* The rules of the imported pipeline are those of the file, with its new steps.
LEMMA ImportedRules ==
  ASSUME CatalogInv, NEW r \in Requests, Importing(r)
  PROVE  LET found == requests[r].with
         IN RulesOf(Imported(found), found.p)
              = {[v EXCEPT !.source = Renamed(found, @), !.target = Renamed(found, @)] : v \in Kept(found)}
<1> DEFINE found == requests[r].with
           d == Imported(found)
<1>1. FileList(found.list) /\ found.rule \subseteq FileRules(found.p) /\ NewSteps(db, found.list)
  BY NewIds
<1>2. d.rules = db.rules \cup _import_event_rules(found)
  BY ImportedTables
<1>3. \A u \in db.rules : u.pipeline # found.p
  <2>1. \A u \in db.rules : u.source \in StepsOf(db, u.pipeline)
    BY DEF CatalogInv, Good, Sound
  <2> QED
    BY <2>1 DEF Importing, Referring
<1> HIDE DEF found, d
<1>4. \A u \in _import_event_rules(found) : u.pipeline = found.p
  BY <1>1, RulesImported
<1>5. RulesOf(d, found.p) = _import_event_rules(found)
  BY <1>2, <1>3, <1>4 DEF RulesOf
<1>6. _import_event_rules(found) = {[v EXCEPT !.source = Renamed(found, @), !.target = Renamed(found, @)] : v \in Kept(found)}
  BY <1>1, RulesImported
<1> QED
  BY <1>5, <1>6 DEF found, d

LEMMA ImportIsShaped ==
  ASSUME CatalogInv, NEW r \in Requests, Importing(r), Accepted(Imported(requests[r].with))
  PROVE  Shape(Imported(requests[r].with), requests[r].with.p) = FileShape(requests[r].with)
<1> DEFINE found == requests[r].with
           p == found.p
           d == Imported(found)
           list == InOrder(d, p)
           old == Old(found)
           own == {v \in RulesOf(d, p) : {v.source, v.target} \subseteq ToSet(list)}
           Seen(u, steps) == <<u.event, u.action, u.enabled, Position(steps, u.source), Position(steps, u.target)>>
           Again(v) == [v EXCEPT !.source = Renamed(found, @), !.target = Renamed(found, @)]
<1>1. FileList(found.list) /\ found.rule \subseteq FileRules(p) /\ NewSteps(db, found.list)
  BY NewIds
<1>2. /\ ToSet(list) = Ids(db, found.list) /\ DOMAIN list = DOMAIN found.list
      /\ \A i \in DOMAIN list : d.steps[list[i]].agent = found.list[i].agent
      /\ \A s \in Ids(db, found.list) : Position(list, s) = Nth(db, s)
  BY ImportedSteps
<1>3. RulesOf(d, p) = {Again(v) : v \in Kept(found)}
  BY ImportedRules
<1> HIDE DEF found, d, list
<1>4. ASSUME NEW v \in Kept(found)
      PROVE  Again(v) \in own /\ Seen(Again(v), list) = Seen(v, old)
  <2>1. v \in RuleRows /\ v.source \in ToSet(old) /\ v.target \in ToSet(old)
    BY <1>1 DEF Kept, FileRules
  <2>2. /\ Renamed(found, v.source) \in Ids(db, found.list) /\ Renamed(found, v.target) \in Ids(db, found.list)
        /\ Position(list, Renamed(found, v.source)) = Position(old, v.source)
        /\ Position(list, Renamed(found, v.target)) = Position(old, v.target)
    BY <1>1, <1>2, <2>1, StepRenamed
  <2>3. /\ Again(v).source = Renamed(found, v.source) /\ Again(v).target = Renamed(found, v.target)
        /\ Again(v).event = v.event /\ Again(v).action = v.action /\ Again(v).enabled = v.enabled
    BY <2>1 DEF RuleRows
  <2>4. Again(v) \in RulesOf(d, p)
    BY <1>3
  <2> HIDE DEF Again
  <2>5. Again(v) \in own
    BY <1>2, <2>2, <2>3, <2>4
  <2> HIDE DEF own
  <2> QED
    BY <2>2, <2>3, <2>5
<1>5. {Seen(u, list) : u \in own} = {Seen(v, old) : v \in Kept(found)}
  <2>1. \A u \in own : \E v \in Kept(found) : u = Again(v)
    BY <1>3
  <2> HIDE DEF Again, own, Seen, old
  <2> QED
    BY <1>4, <2>1
<1>6. [i \in DOMAIN list |-> d.steps[list[i]].agent] = [i \in DOMAIN found.list |-> found.list[i].agent]
  BY <1>2
<1>7. Shape(d, p) = [agents |-> [i \in DOMAIN list |-> d.steps[list[i]].agent], rules |-> {Seen(u, list) : u \in own}]
  BY DEF Shape, list
<1>8. FileShape(found) = [agents |-> [i \in DOMAIN found.list |-> found.list[i].agent], rules |-> {Seen(v, old) : v \in Kept(found)}]
  BY DEF FileShape, Kept, Old
<1> HIDE DEF own, Seen
<1>9. Shape(d, p) = FileShape(found)
  BY <1>5, <1>6, <1>7, <1>8
<1> QED
  BY <1>9 DEF d, found

LEMMA ImportsAreShaped == CatalogInv /\ [Next]_vars => [ImportedIsShaped]_vars
<1> SUFFICES ASSUME CatalogInv, [Next]_vars, NEW r \in Requests, Reading(r, "import"), requests'[r].st = "done"
             PROVE  Shape(db', requests[r].with.p) = FileShape(requests[r].with)
  BY DEF ImportedIsShaped
<1>1. Importing(r) /\ Accepted(Imported(requests[r].with)) /\ db' = Imported(requests[r].with)
  BY ImportIsCommitted
<1> QED
  BY <1>1, ImportIsShaped

\* An imported pipeline has the agents of the file in their order and its rules between the same steps.
THEOREM ImportsRestoreTheFile == Spec => ImportRestores
<1>1. CatalogInv /\ [Next]_vars => [ImportedIsShaped]_vars
  BY ImportsAreShaped
<1> QED
  BY <1>1, CatalogIsSound, PTL DEF Spec, ImportRestores
=============================================================================
