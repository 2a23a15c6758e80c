---------------------------- MODULE IssueRelations ----------------------------
(***************************************************************************)
(* Relations between issues: IssueRelationService                          *)
(* (backend/app/services/issue_relation_service.py) and its routes.        *)
(*                                                                         *)
(* A relation is kept in the record of its source.  Adding "a blocks b"    *)
(* walks the BLOCKS relations from b and refuses if it meets a.  The walk  *)
(* awaits the list of active projects for every issue it visits, and once  *)
(* more before the relation is added: it is a `walk` in progress, and      *)
(* relations may come and go meanwhile.  Everything else awaits first and  *)
(* then acts in one piece.                                                 *)
(***************************************************************************)
EXTENDS IssueStore

CONSTANTS
  Adders,     \* slots for add_relation calls in progress
  NoIssue     \* no source issue

VARIABLES
  walk,       \* slot -> the check in progress
  \* history
  crossed,    \* a relation was added while another one was being checked
  blind       \* a relation was checked or added while a project was archived

relVars == <<walk, crossed, blind>>

\* `todo` has been found and not visited; "relate" is a new issue's relation to its source.
NoWalk == [at |-> "idle", src |-> NoIssue, dst |-> NoIssue, todo |-> {}, seen |-> {}]

RelInit ==
  /\ walk = [a \in Adders |-> NoWalk]
  /\ crossed = FALSE
  /\ blind = FALSE

Blocks(i, j) == <<"blocks", j>> \in rec[i].relations
Blocked(i)   == {j \in Issues : Blocks(i, j)}
\* load_issue in every active project.
Outgoing(i)  == IF Active(i) THEN Blocked(i) ELSE {}

End(a) == walk' = [walk EXCEPT ![a] = NoWalk]

add_relation_blocks(a, i, j) ==
  /\ walk[a].at = "idle" /\ i # j /\ rec[j].ram # "never"
  /\ walk' = [walk EXCEPT ![a] = [NoWalk EXCEPT !.at = "walk", !.src = i, !.dst = j, !.todo = {j}]]
  /\ UNCHANGED <<store, crossed, blind>>

\* Mutant: the walk sees the issues that are listed, and so not the deleted ones.
_detect_cycle_listed(a) ==
  /\ walk[a].at = "walk" /\ walk[a].src \notin walk[a].todo
  /\ \E i \in walk[a].todo :
       walk' = [walk EXCEPT ![a].seen = @ \cup {i},
                            ![a].todo = (@ \cup (IF Listed(i) THEN Outgoing(i) ELSE {})) \ (walk[a].seen \cup {i})]
  /\ blind' = (blind \/ archived # {})
  /\ UNCHANGED <<store, crossed>>

\* One turn of the loop, in whichever order the queue has; a visited issue is skipped.
_detect_cycle(a) ==
  /\ walk[a].at = "walk" /\ walk[a].src \notin walk[a].todo
  /\ \E i \in walk[a].todo :
       walk' = [walk EXCEPT ![a].seen = @ \cup {i},
                            ![a].todo = (@ \cup Outgoing(i)) \ (walk[a].seen \cup {i})]
  /\ blind' = (blind \/ archived # {})
  /\ UNCHANGED <<store, crossed>>

cycle_refused(a) ==
  /\ walk[a].at = "walk" /\ walk[a].src \in walk[a].todo
  /\ End(a)
  /\ UNCHANGED <<store, crossed, blind>>

\* The walk is over: the source must exist, the target need not.
blocks_added(a) ==
  /\ walk[a].at = "walk" /\ walk[a].todo = {}
  /\ IF Active(walk[a].src)
     THEN /\ upsert_relation(walk[a].src, "blocks", walk[a].dst)
          /\ crossed' = (crossed \/ \E b \in Adders \ {a} : walk[b].at = "walk")
          /\ UNCHANGED archived
     ELSE UNCHANGED <<store, crossed>>
  /\ blind' = (blind \/ archived # {})
  /\ End(a)

\* The smaller id owns the relation.
related(i, j) ==
  LET lo == IF i < j THEN i ELSE j
      hi == IF i < j THEN j ELSE i
  IN Active(lo) /\ upsert_relation(lo, "related", hi)

add_relation_related(i, j) ==
  /\ i # j /\ rec[j].ram # "never" /\ related(i, j)
  /\ UNCHANGED <<archived, relVars>>

\* The route creates the issue and then relates it: two requests of the service with an
\* await between them, and no way back.
create_issue_route(a, i, j) ==
  /\ walk[a].at = "idle" /\ i # j /\ rec[i].ram = "never" /\ rec[j].ram # "never"
  /\ update_issue(i, NewRecord)
  /\ walk' = [walk EXCEPT ![a] = [NoWalk EXCEPT !.at = "relate", !.src = i, !.dst = j]]
  /\ UNCHANGED <<archived, crossed, blind>>

source_related(a) ==
  /\ walk[a].at = "relate"
  /\ related(walk[a].src, walk[a].dst) \/ UNCHANGED rec
  /\ End(a)
  /\ UNCHANGED <<archived, crossed, blind>>

\* Found among the relations of the listed issues; either side may ask.
delete_relation(i, type, j) ==
  /\ Active(i) /\ Listed(i) /\ <<type, j>> \in rec[i].relations
  /\ remove_relation(i, type, j)
  /\ UNCHANGED <<archived, relVars>>

\* What matters here of archiving a project: its issues are not found.
archive(p) ==
  /\ archived' = archived \cup {p}
  /\ UNCHANGED <<rec, relVars>>

unarchive(p) ==
  /\ archived' = archived \ {p}
  /\ UNCHANGED <<rec, relVars>>

AddStep(a) == _detect_cycle(a) \/ cycle_refused(a) \/ blocks_added(a) \/ source_related(a)

RelNext ==
  \/ /\ "blocks" \in requests
     /\ \E a \in Adders, i, j \in Issues : add_relation_blocks(a, i, j)
  \/ /\ "related" \in requests
     /\ \E i, j \in Issues : add_relation_related(i, j) \/ \E a \in Adders : create_issue_route(a, i, j)
  \/ \E a \in Adders : AddStep(a)
  \/ \E i, j \in Issues, type \in RelationTypes : delete_relation(i, type, j)
  \/ "archive" \in requests /\ \E p \in Projects : archive(p) \/ unarchive(p)
=================================================================================
