------------------------------- MODULE MCWorkspace -------------------------------
(* Instances of Workspace. *)
EXTENDS Workspace

All == Records \cup Parts
Folder(a, b) == [p \in Projects |-> IF p = "p1" THEN a ELSE b]
Quiet ==
  [tables |-> Folder({}, {}), old |-> {}, folders |-> Folder("active", "active"),
   files |-> Folder({}, {}), starts |-> MaxStarts, calls |-> {}, filed |-> None, asked |-> MaxFolder]

MCScenarios ==
  {[Quiet EXCEPT !.tables = Folder(All, All), !.old = o, !.folders = f,
                 !.files = Folder({}, {"issue", "feedback"}), !.starts = 0] :
     o \in {{}, Projects}, f \in {Folder("active", "archived"), Folder("active", "missing"), Folder("archived", "active")}}
  \cup {[Quiet EXCEPT !.calls = SkillCalls]}
  \cup {[Quiet EXCEPT !.filed = f, !.asked = 0] : f \in [Kept -> Ids \cup {NoId}]}
=================================================================================
