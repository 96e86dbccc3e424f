--------------------------- MODULE MCSignedRights ---------------------------
EXTENDS SignedRights

MCNumeral == ("7" :> 7) @@ ("007" :> 7) @@ ("8" :> 8)

MCLike(s, pattern) == s = pattern

Core == <<"acme", "core">>
Site == <<"acme", "site">>
Tool == <<"umbra", "core">>

\* An owner with a character that Go quotes as \u and Cedar does not take.
Odd == "ac\\u00adme"

MCGarbled == {Odd}

At2(owner, name) == [type |-> "github.repo", match |-> ("owner" :> owner) @@ ("name" :> name)]
Whole(owner) == [type |-> "github.repo", match |-> ("owner" :> owner)]

Capabilities(caps) ==
  [template |-> "", bindings |-> [b \in {} |-> ""], capabilities |-> caps]
Template(name, bindings) ==
  [template |-> name, bindings |-> bindings, capabilities |-> <<>>]

Asked(actions, resource) == Capabilities(<<[actions |-> actions, resource |-> resource]>>)

ActionSets ==
  {{"read"}, {"write"}, {"triage"}, {"issues.read"}, {"issues.write"}, {"issues.triage"},
   {"pulls.write"}, {"pulls.triage"}, {"comment.read", "pulls.read"}, {"issue.create"},
   {"repo.push"},
   {"github.read"}, {}}

MCGrantRequests ==
  {Asked(as, at) : as \in ActionSets, at \in {At2("acme", "core"), At2("acme", "*")}}
    \cup {Asked({"read"}, Whole("umbra")), Asked({"read"}, At2(Odd, "core")),
          Asked({"read"}, At2("", "core")), Asked({"read"}, [type |-> "github.issue",
                match |-> ("number" :> "7")]),
          Capabilities(<<[actions |-> {"issues.read"}, resource |-> At2("acme", "site")],
                         [actions |-> {"repo.clone"}, resource |-> At2("umbra", "core")]>>),
          Capabilities(<<>>)}
    \cup {Template(name, ("owner" :> "acme") @@ more) :
            name \in DOMAIN Templates \cup {"unknown"},
            more \in {[b \in {} |-> ""], ("name" :> "core") @@ ("label" :> "bug"),
                      ("name" :> "core") @@ ("state" :> "closed")}}
    \cup {Template("read-repo", "name" :> "core"),
          [Asked({"read"}, Whole("acme")) EXCEPT !.template = "read-repo"]}

Op(action, repo, number, comments, content) ==
  [action |-> action, repo |-> repo, number |-> number, comments |-> comments, content |-> content]

Written == {"issue.create", "issue.comment", "pull.review"}

MCOperationRequests ==
  {Op(a, r, IF a \in ForRepo THEN 0 ELSE 7, FALSE, "") :
     a \in DOMAIN Actions \ (Written \cup {"comment.read"}), r \in {Core, Site}}
    \cup {Op(a, r, 7, TRUE, "") : a \in {"issue.view", "pull.view"}, r \in {Core, Tool}}
    \cup {Op(a, Core, IF a \in ForRepo THEN 0 ELSE 7, FALSE, c) : a \in Written, c \in {"one", "other"}}
    \cup {Op("repo.clone", Tool, 0, FALSE, "")}

Call(method, path, body) == [method |-> method, path |-> path, body |-> body]

MCRestCalls ==
  {Call(m, <<"repos">> \o r \o rest, "one") :
     m \in {"GET", "POST"}, r \in {Core, Site},
     rest \in {<<"pulls">>, <<"issues">>, <<"pulls", "7", "reviews">>, <<"pulls", "007", "reviews">>,
               <<"pulls", "x", "reviews">>, <<"issues", "7", "comments">>, <<>>}}
    \cup {Call("HEAD", <<"repos">> \o Core \o <<"pulls">>, ""), Call("GET", <<"orgs", "acme", "repos">>, ""),
          Call("DELETE", <<"repos">> \o Core, ""), Call("GET", <<"user">>, "")}

MCGitRequests ==
  {[service |-> s, repo |-> r] :
     s \in {"git-upload-pack", "git-receive-pack", "git-upload-archive"}, r \in {Core, Site, Tool}}

MCAtGitHub ==
  (Core \o <<7>> :> [state |-> "open", labels |-> {"bug"}])
    @@ (Site \o <<7>> :> [state |-> "closed", labels |-> {"bug"}])
=============================================================================
