---------------------------- MODULE GitHubPolicy ----------------------------
(***************************************************************************)
(* GitHub's values for the parameters of the policy language (the catalog, *)
(* the scope of a selector, the templates), and the rights that are asked  *)
(* for by an operation, by a call of the REST proxy and by the git proxy.  *)
(*                                                                         *)
(* A repository is the pair of its owner and its name, the id of an issue  *)
(* or a pull request that pair with the number.  A path is the sequence of *)
(* its segments.                                                           *)
(***************************************************************************)
EXTENDS Integers, Sequences, TLC

CONSTANTS
  Numeral,     \* segments of a path that are numbers -> the number
  Like(_, _),  \* see PolicyLanguage; no GitHub template has such a condition
  Garbled

-----------------------------------------------------------------------------
(* The catalog.                                                            *)

Agent == <<"GitHub::Agent", <<"agent">>>>

ActionType == "GitHub::Action"

GroupNames ==
  {"read", "write", "triage", "issues.read", "pulls.read", "issues.write", "pulls.write",
   "issues.triage", "pulls.triage"}

Groups ==
  [g \in GroupNames |->
     CASE g \in {"issues.read", "pulls.read"} -> {"read"}
       [] g \in {"issues.write", "pulls.write"} -> {"write"}
       [] g \in {"issues.triage", "pulls.triage"} -> {"triage"}
       [] OTHER -> {}]

ActionNames ==
  {"repo.clone", "repo.push", "comment.read",
   "issue.list", "issue.view", "issue.create", "issue.comment", "issue.edit", "issue.close",
   "issue.reopen",
   "pull.list", "pull.view", "pull.diff", "pull.create", "pull.comment", "pull.review",
   "pull.edit", "pull.merge", "pull.close", "pull.reopen"}

\* The group that an action is filed under.
GroupOf(a) ==
  CASE a \in {"repo.clone", "comment.read"} -> "read"
    [] a = "repo.push" -> "write"
    [] a \in {"issue.list", "issue.view"} -> "issues.read"
    [] a \in {"issue.create", "issue.comment", "issue.edit"} -> "issues.write"
    [] a \in {"issue.close", "issue.reopen"} -> "issues.triage"
    [] a \in {"pull.list", "pull.view", "pull.diff"} -> "pulls.read"
    [] a \in {"pull.close", "pull.reopen"} -> "pulls.triage"
    [] OTHER -> "pulls.write"

\* Seeded fault: what reads is filed with what writes.
ActionsMisfiled ==
  [a \in ActionNames |-> {IF a = "comment.read" THEN "issues.write" ELSE GroupOf(a)}]

Actions == [a \in ActionNames |-> {GroupOf(a)}]

\* The descriptions, which are what an approver reads: "Everything readable:
\* list/view, clone, read comments", "Everything that creates or changes
\* content", "Status changes (close/reopen)", and so on.
Says ==
  LET issueReads == {"issue.list", "issue.view"}
      pullReads == {"pull.list", "pull.view", "pull.diff"}
      issueWrites == {"issue.create", "issue.comment", "issue.edit"}
      pullWrites == {"pull.create", "pull.comment", "pull.review", "pull.edit", "pull.merge"}
      issueTriage == {"issue.close", "issue.reopen"}
      pullTriage == {"pull.close", "pull.reopen"}
  IN  [a \in ActionNames \cup GroupNames |->
         CASE a = "read" -> issueReads \cup pullReads \cup {"repo.clone", "comment.read"}
           [] a = "write" -> issueWrites \cup pullWrites \cup {"repo.push"}
           [] a = "triage" -> issueTriage \cup pullTriage
           [] a = "issues.read" -> issueReads
           [] a = "pulls.read" -> pullReads
           [] a = "issues.write" -> issueWrites
           [] a = "pulls.write" -> pullWrites
           [] a = "issues.triage" -> issueTriage
           [] a = "pulls.triage" -> pullTriage
           [] OTHER -> {a}]

EntityType ==
  [type \in {"github.org", "github.repo", "github.issue", "github.comment", "github.pull",
             "github.branch"} |->
     CASE type = "github.org" -> "GitHub::Org"
       [] type = "github.repo" -> "GitHub::Repo"
       [] type = "github.issue" -> "GitHub::Issue"
       [] type = "github.comment" -> "GitHub::IssueComment"
       [] type = "github.pull" -> "GitHub::PullRequest"
       [] type = "github.branch" -> "GitHub::Branch"]

Title ==
  ("GitHub::Org" :> "Organization / owner") @@ ("GitHub::Repo" :> "Repository")
    @@ ("GitHub::Issue" :> "Issue") @@ ("GitHub::IssueComment" :> "Issue comment")
    @@ ("GitHub::PullRequest" :> "Pull request") @@ ("GitHub::Branch" :> "Branch")

-----------------------------------------------------------------------------
(* Scopes and templates.                                                   *)

NoScope == [entity |-> <<"", <<>>>>, label |-> <<>>]

Field(selector, f) == IF f \in DOMAIN selector.match THEN selector.match[f] ELSE ""

\* A repository, or all of an owner: the label of that stands for "all
\* repositories under <owner>".
Scope(selector) ==
  LET owner == Field(selector, "owner")
      name == Field(selector, "name")
  IN  IF selector.type # "github.repo" \/ owner = "" THEN NoScope
      ELSE IF name \notin {"", "*"}
      THEN [entity |-> <<"GitHub::Repo", <<owner, name>>>>, label |-> <<owner, name>>]
      ELSE [entity |-> <<"GitHub::Org", <<owner>>>>, label |-> <<owner>>]

Param(name) ==
  [name |-> name, required |-> FALSE, default |-> "", fixed |-> "", field |-> "",
   attr |-> "", op |-> ""]

InRepo ==
  {[Param("owner") EXCEPT !.required = TRUE, !.field = "owner"],
   [Param("name") EXCEPT !.field = "name"]}

Templates ==
  ("read-repo" :> [actions |-> {"read"}, scope |-> "github.repo", params |-> InRepo])
    @@ ("comment-on-open-issues" :>
          [actions |-> {"issue.comment"}, scope |-> "github.repo",
           params |-> InRepo \cup
             {[Param("state") EXCEPT !.attr = "state", !.op = "eq", !.fixed = "open"],
              [Param("label") EXCEPT !.attr = "labels", !.op = "contains"]}])
    @@ ("triage-issues" :>
          [actions |-> {"issues.triage"}, scope |-> "github.repo", params |-> InRepo])

INSTANCE PolicyLanguage

-----------------------------------------------------------------------------
(* Resources.  No reference carries attributes.                            *)

Node(type, id) == [type |-> type, id |-> id, attrs |-> NoAttrs]

OrgRef(owner) == <<Node("github.org", <<owner>>)>>

RepoRef(repo) == <<Node("github.repo", repo)>> \o OrgRef(repo[1])

IssueRef(repo, number) == <<Node("github.issue", repo \o <<number>>)>> \o RepoRef(repo)

PullRef(repo, number) == <<Node("github.pull", repo \o <<number>>)>> \o RepoRef(repo)

-----------------------------------------------------------------------------
(* What is asked for.                                                      *)

Requirement(action, resource, context) ==
  [action |-> action, resource |-> resource, context |-> context]

ForRepo == {"repo.clone", "repo.push", "issue.list", "issue.create", "pull.list", "pull.create"}

ForIssue == {"issue.view", "issue.comment", "issue.edit", "issue.close", "issue.reopen"}

\* An operation goes by its action; its content stands for what it hashes.
Requirements(op) ==
  LET target == CASE op.action \in ForRepo -> RepoRef(op.repo)
                  [] op.action \in ForIssue -> IssueRef(op.repo, op.number)
                  [] OTHER -> PullRef(op.repo, op.number)
  IN  <<Requirement(op.action, target, op.content)>>
        \o IF op.action \in {"issue.view", "pull.view"} /\ op.comments
           THEN <<Requirement("comment.read", target, "")>> ELSE <<>>

\* What is no number counts as 0.
Atoi(segment) == IF segment \in DOMAIN Numeral THEN Numeral[segment] ELSE 0

\* Seeded fault: an endpoint is its path.
RouteOfPath(method, path) ==
  LET repo == SubSeq(path, 2, 3)
      In(n) == Len(path) = n /\ path[1] = "repos"
  IN  CASE In(6) /\ path[4] = "pulls" /\ path[6] = "reviews" ->
             [action |-> "pull.review", resource |-> PullRef(repo, Atoi(path[5])), binds |-> TRUE]
        [] In(4) /\ path[4] = "issues" ->
             [action |-> "issue.create", resource |-> RepoRef(repo), binds |-> TRUE]
        [] In(4) /\ path[4] = "pulls" ->
             [action |-> "pull.list", resource |-> RepoRef(repo), binds |-> FALSE]
        [] OTHER -> [action |-> "", resource |-> <<>>, binds |-> FALSE]

\* The endpoints with a right of their own.
Route(method, path) ==
  LET repo == SubSeq(path, 2, 3)
      In(n) == Len(path) = n /\ path[1] = "repos"
  IN  CASE method = "POST" /\ In(6) /\ path[4] = "pulls" /\ path[6] = "reviews" ->
             [action |-> "pull.review", resource |-> PullRef(repo, Atoi(path[5])), binds |-> TRUE]
        [] method = "POST" /\ In(4) /\ path[4] = "issues" ->
             [action |-> "issue.create", resource |-> RepoRef(repo), binds |-> TRUE]
        [] method = "GET" /\ In(4) /\ path[4] = "pulls" ->
             [action |-> "pull.list", resource |-> RepoRef(repo), binds |-> FALSE]
        [] OTHER -> [action |-> "", resource |-> <<>>, binds |-> FALSE]

Mapped(method, path) == Route(method, path).action # ""

ResourceFromPath(path) ==
  CASE Len(path) >= 3 /\ path[1] = "repos" -> RepoRef(SubSeq(path, 2, 3))
    [] Len(path) >= 2 /\ path[1] \in {"orgs", "users"} -> OrgRef(path[2])
    [] OTHER -> <<Node("github.api", <<"github">>)>>

\* Seeded fault: other endpoints go with the groups of the catalog.
RequirementForGroup(call) ==
  LET route == Route(call.method, call.path)
  IN  IF Mapped(call.method, call.path)
      THEN Requirement(route.action, route.resource, IF route.binds THEN call.body ELSE "")
      ELSE Requirement(IF call.method \in {"GET", "HEAD"} THEN "read" ELSE "write",
                       ResourceFromPath(call.path), "")

RequirementFor(call) ==
  LET route == Route(call.method, call.path)
  IN  IF Mapped(call.method, call.path)
      THEN Requirement(route.action, route.resource, IF route.binds THEN call.body ELSE "")
      ELSE Requirement(IF call.method \in {"GET", "HEAD"} THEN "github.read" ELSE "github.write",
                       ResourceFromPath(call.path), "")

ServiceAction(service) ==
  CASE service = "git-upload-pack" -> "repo.clone"
    [] service = "git-receive-pack" -> "repo.push"
    [] OTHER -> ""

\* What operations send to GitHub, as calls of the REST proxy, in every
\* spelling of the number.
CallsOf(op) ==
  LET In(rest) == <<"repos">> \o op.repo \o rest
      Numbered(method, kind, what) ==
        {[method |-> method, path |-> In(<<kind, n, what>>)] :
           n \in {s \in DOMAIN Numeral : Numeral[s] = op.number}}
  IN  CASE op.action = "issue.list" -> {[method |-> "GET", path |-> In(<<"issues">>)]}
        [] op.action = "pull.list" -> {[method |-> "GET", path |-> In(<<"pulls">>)]}
        [] op.action = "issue.create" -> {[method |-> "POST", path |-> In(<<"issues">>)]}
        [] op.action = "pull.create" -> {[method |-> "POST", path |-> In(<<"pulls">>)]}
        [] op.action \in {"issue.comment", "pull.comment"} -> Numbered("POST", "issues", "comments")
        [] op.action = "pull.review" -> Numbered("POST", "pulls", "reviews")
        [] OTHER -> {}
=============================================================================
