------------------------------- MODULE QueryKeys -------------------------------
(***************************************************************************)
(* The data a page of the frontend keeps in its query cache and what makes *)
(* it read them again: the hooks of frontend/src/features.  A query is     *)
(* known by its key, a sequence; to invalidate a key is to invalidate      *)
(* every query whose key begins with it.  One project, issue, memory, run, *)
(* pipeline and file stand for all.                                        *)
(*                                                                         *)
(* A notice is what one event or one mutation is about: the queries that   *)
(* show what has changed on the server and the keys that are invalidated.  *)
(***************************************************************************)
EXTENDS Naturals, Sequences, SequencesExt

Notice(n, showing, invalidated) == [name |-> n, shows |-> showing, keys |-> invalidated]
Covers(K, q) == \E k \in K : IsPrefix(k, q)

(***************************************************************************)
(* Keys                                                                    *)
(***************************************************************************)
projectKeys == [all |-> <<"projects">>, list |-> <<"projects", "list">>, detail |-> <<"projects", "p">>,
                links |-> <<"projects", "p", "links">>, dashboard |-> <<"dashboard">>]
issueKeys == [all |-> <<"projects", "p", "issues">>, list |-> <<"projects", "p", "issues", "list">>,
              tags |-> <<"projects", "p", "issues", "tags">>, detail |-> <<"projects", "p", "issues", "i">>,
              feedback |-> <<"projects", "p", "issues", "i", "feedback">>]
relationKeys == [issue |-> <<"relations", "i">>, other |-> <<"relations", "i2">>, blocked |-> <<"relations", "batch">>]
queueKeys == [queued |-> <<"queue", "queued">>, running |-> <<"queue", "running">>,
              status |-> <<"queue", "status">>, position |-> <<"queue", "position", "i">>]
questionKeys == [all |-> <<"questions">>, issue |-> <<"questions", "p", "i">>,
                 pending |-> <<"questions", "pending", "p", "i">>, count |-> <<"questions", "count">>]
memoryKeys == [all |-> <<"projects", "p", "memories">>, list |-> <<"projects", "p", "memories", "list">>,
               search |-> <<"projects", "p", "memories", "search">>, detail |-> <<"memories", "m", "detail">>]
pipelineRunKeys == [all |-> <<"pipeline-runs", "p">>, byIssue |-> <<"pipeline-runs", "p", "issue", "i">>,
                    detail |-> <<"pipeline-runs", "p", "r">>, messages |-> <<"pipeline-runs", "p", "r", "messages">>,
                    active |-> <<"pipeline-runs", "p", "active-by-project">>]
terminalKeys == [all |-> <<"terminals">>, issue |-> <<"terminals", "p", "i">>, count |-> <<"terminals", "count">>,
                 ask |-> <<"terminals", "ask", "p">>, manageAgent |-> <<"terminals", "manage-agent">>]
fileKeys == [all |-> <<"projects", "p", "files">>]
pipelineKeys == [all |-> <<"pipelines">>, detail |-> <<"pipelines", "d">>, rules |-> <<"pipelines", "d", "event-rules">>]

Named(keys, names) == {keys[n] : n \in names}

(***************************************************************************)
(* Mutations: what a request of this page changes, and what its hook       *)
(* invalidates when it has been answered                                   *)
(***************************************************************************)
QueueMutations ==
  LET all == Named(queueKeys, DOMAIN queueKeys) IN
  {Notice("useAddToQueue", all, all), Notice("useRemoveFromQueue", all, all),
   Notice("useSetAutoProcess", {queueKeys.status}, {queueKeys.status})}

IssueMutations ==
  LET both == {issueKeys.detail, issueKeys.all}
      shown == {issueKeys.list, issueKeys.detail} IN
  {Notice("useCreateIssue", {issueKeys.list, issueKeys.tags}, {issueKeys.all}),
   Notice("useUpdateIssue", shown \cup {issueKeys.tags}, both),
   Notice("useUpdateIssueStatus", shown, {issueKeys.all}),
   Notice("useDeleteIssue", shown, {issueKeys.all})}
  \cup {Notice(n, shown, both) : n \in {"useAcceptIssue", "useCancelIssue", "useCompleteIssue", "useForceFinishIssue"}}

IssuePartMutations ==
  {Notice("useAddFeedback", {issueKeys.feedback}, {issueKeys.feedback})}
  \cup {Notice(n, {issueKeys.detail}, {issueKeys.detail}) :
          n \in {"useUpdateTask", "useDeleteTask", "useCreateTasks", "useReplaceTasks"}}

BulkMutations ==
  {Notice(n, {issueKeys.list, issueKeys.detail, issueKeys.tags}, {issueKeys.all}) :
     n \in {"useBulkUpdateStatus", "useBulkUpdateTags", "useBulkDelete", "useBulkUpdatePriority", "useBulkUpdateCategory"}}

\* Neither the other issue of the relation nor the blocked issues are read again.
RelationMutations ==
  {Notice(n, Named(relationKeys, DOMAIN relationKeys), {relationKeys.issue}) : n \in {"useAddRelation", "useDeleteRelation"}}

QuestionMutations ==
  {Notice("useAnswerQuestion", Named(questionKeys, {"issue", "pending", "count"}),
          Named(questionKeys, {"all", "pending", "count"}))}

RunMutations ==
  LET shown == Named(pipelineRunKeys, {"byIssue", "detail", "active"}) IN
  {Notice("useStartPipelineRun", shown, {pipelineRunKeys.all}),
   Notice("useCancelPipelineRun", shown, {pipelineRunKeys.all}),
   Notice("useSendPipelineMessage", {pipelineRunKeys.messages}, {pipelineRunKeys.messages})}

TerminalMutations ==
  LET shared == Named(terminalKeys, {"all", "count"}) IN
  {Notice("useCreateTerminal", {terminalKeys.issue, terminalKeys.count}, shared),
   Notice("useCreateAskTerminal", {terminalKeys.ask, terminalKeys.count}, shared),
   Notice("useCreateLogTerminal", {terminalKeys.count}, shared),
   Notice("useCreateManageAgentTerminal", {terminalKeys.manageAgent, terminalKeys.count},
          shared \cup {terminalKeys.manageAgent}),
   Notice("useKillTerminal", Named(terminalKeys, {"issue", "count", "ask", "manageAgent"}),
          shared \cup {terminalKeys.manageAgent})}

\* The dashboard is read again only after a project is archived or returns.
ProjectMutations ==
  {Notice("useCreateProject", {projectKeys.list, projectKeys.dashboard}, {projectKeys.all}),
   Notice("useUpdateProject", {projectKeys.list, projectKeys.detail, projectKeys.dashboard}, {projectKeys.detail, projectKeys.all}),
   Notice("useDeleteProject", {projectKeys.list, projectKeys.dashboard}, {projectKeys.all})}

ArchiveMutations ==
  {Notice(n, Named(projectKeys, {"list", "detail", "dashboard"}), Named(projectKeys, {"all", "detail", "dashboard"})) :
     n \in {"useArchiveProject", "useUnarchiveProject"}}

LinkMutations ==
  {Notice(n, {projectKeys.links}, {projectKeys.links}) :
     n \in {"useCreateProjectLink", "useUpdateProjectLink", "useDeleteProjectLink"}}

FileMutations == {Notice(n, {fileKeys.all}, {fileKeys.all}) : n \in {"useUploadFiles", "useDeleteFile"}}

PipelineMutations ==
  {Notice(n, Named(pipelineKeys, {"all", "detail"}), {pipelineKeys.all}) :
     n \in {"useCreatePipeline", "useUpdatePipeline", "useDeletePipeline", "useAddPipelineStep",
            "useRemovePipelineStep", "useReorderPipelineSteps", "useSeedPipeline"}}

RuleMutations ==
  {Notice("useImportPipelinesConfirm", Named(pipelineKeys, {"all", "detail", "rules"}), {pipelineKeys.all})}
  \cup {Notice(n, {pipelineKeys.rules}, {pipelineKeys.all}) :
          n \in {"useCreateEventRule", "useDeleteEventRule", "useUpdateEventRule"}}

Mutations ==
  UNION {QueueMutations, IssueMutations, IssuePartMutations, BulkMutations, RelationMutations, QuestionMutations,
         RunMutations, TerminalMutations, ProjectMutations, ArchiveMutations, LinkMutations, FileMutations,
         PipelineMutations, RuleMutations}
=================================================================================
