------------------------- MODULE MCGitHubOperations -------------------------
(***************************************************************************)
(* Instances of GitHubOperations for TLC: the requests that goroutines may *)
(* serve.  The repository is empty at first, its one number becomes an     *)
(* issue or a pull request, and every operation meets both.                *)
(***************************************************************************)
EXTENDS GitHubOperations

Labels(names) == [labels |-> names, assignees |-> <<>>]

\* Edits of lists that overlap in what they add and remove; two of them are
\* the same when their names are joined.
EditRequests ==
  {IssueEdit(1, NoFields, Labels(<<"bug", "bug">>), NoLists),
   IssueEdit(1, NoFields, Labels(<<"bug,bug">>), NoLists),
   IssueEdit(1, NoFields, Labels(<<"bug,bug">>),
             [labels |-> <<"bug", "bug,bug">>, assignees |-> <<"ann">>])}

\* Requests with the same action and object, and contents that differ.
Contents ==
  {IssueEdit(1, [title |-> "no", body |-> "no"], NoLists, NoLists),
   IssueEdit(1, "title" :> "no~body=no", NoLists, NoLists),
   PullEdit(1, "title" :> "no"), PullEdit(1, "base" :> "no"),
   PullReview(1, "approve", ""), PullReview(1, "request-changes", "no"),
   PullComment(1, "no"), IssueComment(1, "no"), IssueComment(1, "ok"),
   PullMerge(1, "", ""), PullMerge(1, "merge", "s1"), PullMerge(1, "squash", "s2"),
   PullCreate("t", "", "topic", "main", ""), PullCreate("t", "", "topic", "main", "true")}

\* Requests whose right says it all, or whose content is no part of it.
States ==
  {IssueClose(1, "completed"), IssueClose(1, "not planned"), IssueReopen(1),
   PullClose(1), PullReopen(1),
   IssueCreate("t", "", <<"bug">>, <<>>)}

Reads ==
  {Clone, Push, IssueList, PullList, PullDiff(1),
   IssueView(1, TRUE), IssueView(1, FALSE), PullView(1, TRUE), PullView(1, FALSE)}

\* Requests that the factories refuse.
Refused ==
  {IssueEdit(1, NoFields, NoLists, NoLists), IssueView(0, FALSE), IssueComment(1, ""),
   IssueClose(1, "later"), PullMerge(1, "octopus", ""), PullReview(1, "comment", ""),
   PullReview(1, "dismiss", "no"), PullCreate("t", "", "topic", "", "")}

AllRequests == EditRequests \cup Contents \cup States \cup Reads \cup Refused

\* Two requests that are told apart by where a name stands.
CreateRequests ==
  {IssueCreate("t", "", <<"ann">>, <<>>), IssueCreate("t", "", <<>>, <<"ann">>)}

\* An edit and what it is an edit of.
OneEdit == {IssueCreate("t", "", <<"bug">>, <<>>), IssueEdit(1, NoFields, Labels(<<"ui">>), NoLists)}

-----------------------------------------------------------------------------
(* What the hash is computed from.  A string is one byte, but for a title  *)
(* that holds a zero (written ~) and then reads like a body.               *)

MCJoin(names) ==
  IF names = <<>> THEN "" ELSE FoldLeft(LAMBDA all, name : all \o "," \o name, Head(names), Tail(names))

Words == <<"title", "body", "base", "addL", "rmL", "addA", "rmA", "no", "ok", "t", "topic", "main",
           "true", "APPROVE", "REQUEST_CHANGES", "COMMENT", "ann", "bug", "ui", "bug,bug",
           "bug,bug,bug">>

Byte(word) == CHOOSE i \in DOMAIN Words : Words[i] = word

MCBytes(part) ==
  FlattenSeq([i \in DOMAIN part |->
                IF part[i] = "" THEN <<>>
                ELSE IF part[i] = "no~body=no" THEN <<Byte("no"), 0, Byte("body"), Byte("no")>>
                ELSE <<Byte(part[i])>>])

\* Two comments that happen to have the same digest.
MCDigest(bytes) == IF bytes = <<Byte("ok"), 0>> THEN <<Byte("no"), 0>> ELSE bytes
=============================================================================
