---------------------------- MODULE SignedRights ----------------------------
(***************************************************************************)
(* One token: grants that were signed by the GitHub resource server are    *)
(* approved, run out and are revoked, and the token is presented with      *)
(* operations, calls of the REST proxy and git requests.  The decision is  *)
(* one step here; what can come between its parts is in ResourceServer.    *)
(***************************************************************************)
EXTENDS GitHubPolicy, FiniteSets

CONSTANTS
  GrantRequests,      \* what clients ask to be signed
  OperationRequests,  \* [action, repo, number, comments, content]
  RestCalls,          \* [method, path, body]
  GitRequests,        \* [service, repo]
  AtGitHub,           \* id of an issue -> its state and labels; partial
  MaxGrants           \* bound of the model: grants of the token at a time

\* Requests as the handlers decode and check them.
ASSUME RequestsAssumption ==
  /\ \A r \in GrantRequests : r.capabilities \in Seq(ToSet(r.capabilities))
  /\ \A op \in OperationRequests :
       op.action \in DOMAIN Actions /\ op.repo = <<op.repo[1], op.repo[2]>>
  /\ \A call \in RestCalls : call.path \in Seq(ToSet(call.path))
  /\ \A r \in GitRequests : r.repo = <<r.repo[1], r.repo[2]>>

ASSUME MaxGrantsAssumption == MaxGrants \in Nat

VARIABLES
  grants,  \* the signed grants attached to the token
  last     \* the last request and its decision

vars == <<grants, last>>

Nothing == [via |-> "none", asked |-> <<>>, needs |-> <<>>, verdict |-> "denied"]

Decided(via, asked, needs) ==
  [via |-> via, asked |-> asked, needs |-> needs, verdict |-> Authorize(grants, needs)]

Init == grants = {} /\ last = Nothing

-----------------------------------------------------------------------------
(* The grants.                                                             *)

\* A request is signed, proposed and approved.
Approve(request) ==
  /\ last = Nothing
  /\ HandleSign(request) # Refused
  /\ Cardinality(grants \cup {HandleSign(request)}) <= MaxGrants
  /\ grants' = grants \cup {HandleSign(request)}
  /\ UNCHANGED last

Expire(g) ==
  /\ last = Nothing
  /\ grants' = grants \ {g}
  /\ UNCHANGED last

RevokeGrants ==
  /\ last = Nothing
  /\ grants' = {}
  /\ UNCHANGED last

-----------------------------------------------------------------------------
(* The questions.                                                          *)

HandleOperation(op) ==
  /\ last = Nothing
  /\ last' = Decided("operation", op, Requirements(op))
  /\ UNCHANGED grants

RESTServeHTTP(call) ==
  /\ last = Nothing
  /\ last' = Decided("rest", call, <<RequirementFor(call)>>)
  /\ UNCHANGED grants

\* A service the proxy does not know is a bad request.
GitServeHTTP(r) ==
  /\ last = Nothing
  /\ ServiceAction(r.service) # ""
  /\ last' = Decided("git", r, <<Requirement(ServiceAction(r.service), RepoRef(r.repo), "")>>)
  /\ UNCHANGED grants

Reply == last # Nothing /\ last' = Nothing /\ UNCHANGED grants

Next ==
  \/ \E request \in GrantRequests : Approve(request)
  \/ \E g \in grants : Expire(g)
  \/ RevokeGrants
  \/ \E op \in OperationRequests : HandleOperation(op)
  \/ \E call \in RestCalls : RESTServeHTTP(call)
  \/ \E r \in GitRequests : GitServeHTTP(r)
  \/ Reply

Spec == Init /\ [][Next]_vars

-----------------------------------------------------------------------------
(* What is right.                                                          *)

\* Every policy of a grant is described to the approver, and names only what
\* the catalog has (policy.go, present.go).
TypeOK ==
  /\ last.verdict \in {"allowed", "denied", "error"}
  /\ \A g \in grants :
       /\ Len(g.policies) = Len(g.shown) /\ g.policies # <<>>
       /\ \A i \in DOMAIN g.policies :
            /\ g.policies[i].principal = Agent
            /\ g.policies[i].actions
                 \subseteq {ActionEntity(a) : a \in DOMAIN Groups \cup DOMAIN Actions}

Allowed == last.verdict = "allowed"

True(conditions, attrs) == conditions # {} => \A c \in conditions : Holds(c, attrs)

\* Does what the approver read name the right that is needed?
Names(detail, need) ==
  need.action \in detail.actions /\ IsPrefix(detail.resource, need.resource[1].id)

Shown == UNION {ToSet(g.shown) : g \in grants}

Readable == \A g \in grants : \A i \in DOMAIN g.policies : Parses(g.policies[i])

\* The human-readable description is the contract: whatever is allowed, a
\* human was shown in plain words (presentation, policies and lattice are
\* built by three pieces of code from one request).
AllowedWasShown ==
  Allowed => \A i \in DOMAIN last.needs :
    \E d \in Shown : Names(d, last.needs[i]) /\ True(d.conditions, last.needs[i].resource[1].attrs)

\* ... and what was shown without a condition is allowed: no approved right is
\* lost between the lattice, the chain of the resource and the policy, unless
\* a policy of the token cannot be read.
ShownIsAllowed ==
  (/\ last # Nothing /\ Readable
   /\ \A i \in DOMAIN last.needs :
        \E d \in Shown : Names(d, last.needs[i]) /\ d.conditions = {})
  => Allowed

\* Asking for two rights at once is asking for each of them: the question
\* shares one world of entities and must need every right (eval.go).
JointIsEach ==
  last # Nothing =>
    (Allowed <=> \A i \in DOMAIN last.needs : Authorize(grants, <<last.needs[i]>>) = "allowed")

\* "An unmapped endpoint still fails closed" (restproxy.go): whatever the
\* grants, also all of an owner.
FailsClosed ==
  last.via = "rest" /\ ~Mapped(last.asked.method, last.asked.path) => ~Allowed

\* A call through the REST proxy is decided like the operations that send
\* GitHub that very call if it is mapped, and is never allowed beyond them; git
\* is decided like clone and push (server.go: "exactly the same allow/deny
\* decision as an API operation").
SameAsOperation ==
  /\ last.via = "rest" =>
       \A op \in OperationRequests :
         LET call == last.asked
             verdict == Authorize(grants, Requirements(op))
         IN  [method |-> call.method, path |-> call.path] \in CallsOf(op) =>
               IF Mapped(call.method, call.path) THEN last.verdict = verdict
               ELSE Allowed => verdict = "allowed"
  /\ last.via = "git" =>
       \A op \in OperationRequests :
         op.repo = last.asked.repo
           /\ op.action = (IF last.asked.service = "git-upload-pack" THEN "repo.clone"
                           ELSE "repo.push")
         => last.verdict = Authorize(grants, Requirements(op))

-----------------------------------------------------------------------------
(* What is documented and does not hold.                                   *)

\* "... so approving one issue does not authorise creating a different one"
\* (issue_create.go): a single grant of nothing but issue.create that allows
\* one content does not allow another.
ContentIsApproved ==
  (/\ Allowed /\ last.via = "operation" /\ last.asked.action = "issue.create"
   /\ \E g \in grants : grants = {g} /\ {p.actions : p \in ToSet(g.policies)} = {{ActionEntity("issue.create")}})
  => \A op \in OperationRequests :
       op # last.asked /\ [op EXCEPT !.content = last.asked.content] = last.asked
       => Authorize(grants, Requirements(op)) # "allowed"

\* "Comment on the open issues of a repository, optionally only those carrying
\* a label" (templates.go): a right shown under conditions covers the issues
\* of which the conditions are true at GitHub.
ConditionsAreMet ==
  (/\ last # Nothing /\ Readable
   /\ \A i \in DOMAIN last.needs :
        LET id == last.needs[i].resource[1].id
        IN  /\ id \in DOMAIN AtGitHub
            /\ \E d \in Shown : Names(d, last.needs[i]) /\ True(d.conditions, AtGitHub[id]))
  => Allowed
=============================================================================
