--------------------------- MODULE TriggerFilters ---------------------------
(***************************************************************************)
(* What a trigger rule sees of an event: the webhook handlers give every   *)
(* event a type and flatten its body (api/webhooks/), mock_webhook builds a *)
(* body of the same kind, and the filters of the rule are evaluated over   *)
(* the result (services/trigger_service.py).                               *)
(*                                                                         *)
(* An event is a record of what its source sends: kind and action, a title *)
(* as a set of words, labels as a set of names, an author, a branch ("" for *)
(* a missing text), and the number or key that identifies the subject.     *)
(***************************************************************************)
EXTENDS Integers, Sequences, TLC

CONSTANTS
  Secrets,     \* the sources with a secret in the settings
  Integrated   \* the projects' enabled integrations: <<project, source>>

GitHubTypes ==
  <<"pull_request", "opened">> :> "pr_opened" @@
  <<"pull_request", "reopened">> :> "pr_reopened" @@
  <<"pull_request", "synchronize">> :> "pr_synchronized" @@
  <<"pull_request", "labeled">> :> "pr_labeled" @@
  <<"issues", "opened">> :> "issue_opened" @@
  <<"issues", "closed">> :> "issue_closed" @@
  <<"issues", "labeled">> :> "issue_labeled" @@
  <<"issues", "reopened">> :> "issue_reopened" @@
  <<"issue_comment", "created">> :> "issue_comment_created" @@
  <<"pull_request_review", "submitted">> :> "pr_review_submitted" @@
  <<"push", "">> :> "push" @@
  <<"create", "">> :> "branch_created" @@
  <<"delete", "">> :> "branch_deleted"

\* The table has no entry without an action for kinds that have one.
GitHubType(e) ==
  CASE e.kind = "pull_request" /\ e.action = "closed" ->
         IF e.merged THEN "pr_merged" ELSE "pr_closed"
    [] <<e.kind, e.action>> \in DOMAIN GitHubTypes -> GitHubTypes[<<e.kind, e.action>>]
    [] <<e.kind, "">> \in DOMAIN GitHubTypes -> GitHubTypes[<<e.kind, "">>]
    [] OTHER -> IF e.action = "" THEN e.kind ELSE e.kind \o "_" \o e.action

GitLabType(e) ==
  CASE e.kind = "merge_request" -> IF e.action = "" THEN "mr_event" ELSE "mr_" \o e.action
    [] e.kind = "issue" -> IF e.action = "" THEN "issue_event" ELSE "issue_" \o e.action
    [] e.kind = "note" -> "comment_created"
    [] OTHER -> e.kind

JiraType(e) ==
  CASE e.kind = "jira:issue_created" -> "issue_created"
    [] e.kind = "jira:issue_updated" -> "issue_updated"
    [] e.kind = "jira:issue_deleted" -> "issue_deleted"
    [] OTHER -> e.kind

Named(labels) == {[name |-> l] : l \in labels}
Titled(labels) == {[title |-> l] : l \in labels}

\* Which fields a kind of event has; scalar fields of the body stay as they are.
GitHubPayload(e) ==
  [author |-> e.author] @@
  CASE e.kind = "pull_request" ->
         [branch |-> e.branch, labels |-> Named(e.labels), title |-> e.title, key |-> e.key]
    [] e.kind = "push" -> [branch |-> e.branch, title |-> {"push", "to", e.branch}]
    [] e.kind = "issues" -> [labels |-> Named(e.labels), title |-> e.title, key |-> e.key]
    [] e.kind = "issue_comment" -> [title |-> e.title, key |-> e.key]
    [] OTHER -> [ref |-> e.branch]

\* The labels of the body, with titles, replace the list of their names.
GitLabPayload(e) ==
  [author |-> e.author, branch |-> e.branch, title |-> e.title, key |-> e.key,
   labels |-> Titled(e.labels)]

JiraPayload(e) ==
  [author |-> e.author, issue_title |-> e.title, key |-> e.key, labels |-> Named(e.labels)]

\* mock_webhook puts title, author, branch and labels at the top of the body.
MockPayload(e) ==
  [author |-> e.author, title |-> e.title, branch |-> e.branch, key |-> e.key,
   labels |-> IF e.source = "gitlab" THEN Titled(e.labels) ELSE Named(e.labels)]

CronPayload(e) ==
  [scheduled_at |-> ToString(e.at), rule_name |-> ToString(e.rule), event_type |-> "scheduled"]

\* The webhook of a project asks for its own secret, the one of all projects for
\* the secret in the settings, if there is one.
Verified(e) ==
  IF e.project = "all" THEN e.source \in Secrets => e.signed
  ELSE <<e.project, e.source>> \in Integrated /\ e.signed

\* What each handler hands to process_event.
GitHubHook(e) == [accepted |-> Verified(e), type |-> GitHubType(e), payload |-> GitHubPayload(e)]
GitLabHook(e) == [accepted |-> Verified(e), type |-> GitLabType(e), payload |-> GitLabPayload(e)]
JiraHook(e) == [accepted |-> Verified(e), type |-> JiraType(e), payload |-> JiraPayload(e)]
MockHook(e) == [accepted |-> TRUE, type |-> e.kind, payload |-> MockPayload(e)]
CronHook(e) == [accepted |-> TRUE, type |-> "scheduled", payload |-> CronPayload(e)]

Hook(e) ==
  IF e.source = "cron" THEN CronHook(e)
  ELSE IF e.mock THEN MockHook(e)
  ELSE CASE e.source = "github" -> GitHubHook(e)
         [] e.source = "gitlab" -> GitLabHook(e)
         [] e.source = "jira" -> JiraHook(e)

-----------------------------------------------------------------------------
(* The filters.                                                            *)

Get(p, field, none) == IF field \in DOMAIN p THEN p[field] ELSE none
Or(p, field, field2, none) ==
  IF Get(p, field, none) # none THEN p[field] ELSE Get(p, field2, none)

Labels(p) == {Get(l, "name", "") : l \in Get(p, "labels", {})}

\* A template names one field; that of a missing field stays as it is.
Render(template, p) == Get(p, template, template)

Leaf(type, value, p) ==
  CASE type = "labels" -> value \cap Labels(p) # {}
    [] type = "branch" -> Or(p, "branch", "ref", "") = value
    [] type = "title_contains" -> value \subseteq Or(p, "title", "issue_title", {})
    [] type = "author_not" -> Get(p, "author", "") \notin value
    [] OTHER -> TRUE

\* A node with an op is an expression over its conditions, any other a leaf.
RECURSIVE Node(_, _)
Node(n, p) ==
  IF "op" \notin DOMAIN n THEN Leaf(n.type, n.value, p)
  ELSE LET all == \A i \in DOMAIN n.conditions : Node(n.conditions[i], p)
       IN CASE n.op = "and" -> all
            [] n.op = "or" -> \E i \in DOMAIN n.conditions : Node(n.conditions[i], p)
            [] n.op = "not" -> ~all
            [] OTHER -> TRUE

\* Filters without an op are of the flat form: all of the known ones must hold.
PassesFilters(filters, p) ==
  IF "op" \in DOMAIN filters THEN Node(filters, p)
  ELSE \A f \in DOMAIN filters : Leaf(f, filters[f], p)
=============================================================================
