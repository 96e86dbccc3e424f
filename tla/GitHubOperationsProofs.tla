----------------------- MODULE GitHubOperationsProofs -----------------------
(***************************************************************************)
(* What holds of GitHubOperations for any number of goroutines, issues and *)
(* pull requests, and for every request that the factories let through.    *)
(***************************************************************************)
EXTENDS GitHubOperations, SequenceTheorems, FiniteSetTheorems, WellFoundedInduction, TLAPS

\* The operations that the factories make, of whatever parameters.
Lists == [labels : Seq(Label), assignees : Seq(User)]

Reading(o) ==
  \/ o \in {Clone, Push, IssueList, PullList}
  \/ \E n : \/ o = PullDiff(n)
            \/ \E comments \in BOOLEAN : o = IssueView(n, comments) \/ o = PullView(n, comments)

Creating(o) ==
  \/ \E title, body, lists \in Lists : o = IssueCreate(title, body, lists.labels, lists.assignees)
  \/ \E title, body, head, base, draft : o = PullCreate(title, body, head, base, draft)

Fields(fields, names) ==
  DOMAIN fields \subseteq names /\ fields = [f \in DOMAIN fields |-> fields[f]]

Editing(o) ==
  \E n, fields :
    \/ /\ Fields(fields, {"title", "body"})
       /\ \E add \in Lists, remove \in Lists : o = IssueEdit(n, fields, add, remove)
    \/ Fields(fields, {"title", "body", "base"}) /\ o = PullEdit(n, fields)

Made(o) ==
  \/ Reading(o) \/ Creating(o) \/ Editing(o)
  \/ \E n :
       \/ \E body : o = IssueComment(n, body) \/ o = PullComment(n, body)
       \/ \E reason : o = IssueClose(n, reason)
       \/ o = IssueReopen(n) \/ o = PullClose(n) \/ o = PullReopen(n)
       \/ \E raw, body : o = PullReview(n, raw, body)
       \/ \E raw, sha : o = PullMerge(n, raw, sha)

RequestsAreMade == \A o \in Requests : Made(o)

-----------------------------------------------------------------------------
(* Sequences, and the members they have.                                   *)

LEMMA Joined ==
  ASSUME NEW S, NEW s \in Seq(S), NEW t \in Seq(S)
  PROVE  s \o t \in Seq(S) /\ ToSet(s \o t) = ToSet(s) \cup ToSet(t)
<1>1. /\ s \o t \in Seq(S) /\ Len(s \o t) = Len(s) + Len(t)
      /\ \A i \in 1 .. Len(s) + Len(t) : (s \o t)[i] = IF i <= Len(s) THEN s[i] ELSE t[i - Len(s)]
  BY ConcatProperties
<1>2. /\ Len(s) \in Nat /\ DOMAIN s = 1..Len(s) /\ Len(t) \in Nat /\ DOMAIN t = 1..Len(t)
      /\ DOMAIN (s \o t) = 1..Len(s) + Len(t)
  BY <1>1, LenProperties
<1>3. ASSUME NEW i \in DOMAIN s PROVE i \in DOMAIN (s \o t) /\ (s \o t)[i] = s[i]
  BY <1>1, <1>2
<1>4. ASSUME NEW i \in DOMAIN t
      PROVE  i + Len(s) \in DOMAIN (s \o t) /\ (s \o t)[i + Len(s)] = t[i]
  BY <1>1, <1>2
<1>5. ASSUME NEW i \in DOMAIN (s \o t)
      PROVE  \/ i \in DOMAIN s /\ (s \o t)[i] = s[i]
             \/ i - Len(s) \in DOMAIN t /\ (s \o t)[i] = t[i - Len(s)]
  BY <1>1, <1>2
<1>6. ToSet(s \o t) \subseteq ToSet(s) \cup ToSet(t)
  BY <1>5 DEF ToSet
<1>7. ToSet(s) \cup ToSet(t) \subseteq ToSet(s \o t)
  BY <1>3, <1>4 DEF ToSet
<1> QED
  BY <1>1, <1>6, <1>7

LEMMA AloneIn ==
  ASSUME NEW S, NEW a \in S
  PROVE  <<a>> \in Seq(S) /\ ToSet(<<a>>) = {a}
BY DEF ToSet

LEMMA EmptyIs == ToSet(<<>>) = {}
BY DEF ToSet

-----------------------------------------------------------------------------
(* What every factory sees to.                                             *)

\* A comment or a review is stated whole.
Posted(action, fields, parts) ==
  \/ /\ action \in {"issue.comment", "pull.comment"}
     /\ DOMAIN fields = {"body"} /\ parts = <<<<fields.body>>>>
  \/ /\ action = "pull.review" /\ DOMAIN fields \subseteq {"event", "body"}
     /\ parts = Each(<<Sent(fields, "event"), Sent(fields, "body")>>)

\* So is an issue or a pull request that is created.
Opened(action, fields, add, parts) ==
  \/ /\ action = "issue.create" /\ DOMAIN fields \subseteq {"title", "body"}
     /\ parts = (<<<<Sent(fields, "title")>>, <<Sent(fields, "body")>>>> \o Each(add.labels))
                  \o Each(add.assignees)
  \/ /\ action = "pull.create" /\ add = NoLists
     /\ DOMAIN fields \subseteq {"title", "body", "head", "base", "draft"}
     /\ parts = Each(<<Sent(fields, "title"), Sent(fields, "body"), Sent(fields, "head"),
                       Sent(fields, "base"), Sent(fields, "draft")>>)

\* A change of the status says which, and only one of issue.close says why.
Turned(action, fields) ==
  /\ \/ action \in {"issue.close", "pull.close"} /\ fields.status = "closed"
     \/ action \in {"issue.reopen", "pull.reopen"} /\ fields.status = "open"
  /\ DOMAIN fields \subseteq {"status", "reason"} /\ "status" \in DOMAIN fields
  /\ "reason" \in DOMAIN fields =>
       action = "issue.close" /\ fields.reason \in {"completed", "not_planned"}

\* Call c writes what right r states, and nothing besides.
Sends(r, c) ==
  LET fields == DOMAIN c.fields
      stated == ToSet(r.parts)
  IN  /\ r.on.n = c.n
      /\ (c.verb = "PATCH") = (c.at \in {"issue", "pull"})
      /\ \/ /\ \/ c.at = "issues" /\ r.action = "issue.create"
               \/ c.at = "pulls" /\ r.action = "pull.create"
            /\ c.remove = NoLists /\ Opened(r.action, c.fields, c.add, r.parts)
         \/ /\ c.at \in {"issue", "pull"} /\ r.action \in {"issue.edit", "pull.edit"}
            /\ fields \subseteq {"title", "body", "base"}
            /\ \A f \in fields : <<f, c.fields[f]>> \in stated
            /\ Edits(c) # {} => r.action = "issue.edit"
            /\ \A l \in Edits(c) : ListParts(c, l) \subseteq stated
         \/ /\ c.at \in {"issue", "pull"} /\ Edits(c) = {} /\ Turned(r.action, c.fields)
         \/ /\ c.at = "merge" /\ r.action = "pull.merge" /\ Edits(c) = {}
            /\ \A s \in Sha : <<"sha", s>> \in stated => "sha" \in fields /\ c.fields.sha = s
         \/ /\ c.at \in {"comments", "reviews"} /\ Edits(c) = {}
            /\ Posted(r.action, c.fields, r.parts)

\* An operation that writes needs one right, and writes in its last call; the
\* creation of something is its only one.
Shaped(o) ==
  /\ \E S : o.calls \in Seq(S)
  /\ \A i \in DOMAIN o.calls :
       LET c == o.calls[i]
       IN  /\ c.add \in Lists /\ c.remove \in Lists
           /\ c.verb # "GET" =>
                /\ i = Len(o.calls) /\ (c.at \in {"issues", "pulls"} => i = 1)
                /\ \E r \in o.needs : o.needs = {r} /\ Sends(r, c)

LEMMA NoListsAre == NoLists \in Lists
BY EmptySeq DEF NoLists, Lists

LEMMA RefusedShaped == Shaped(BadRequest)
<1>1. BadRequest.calls = <<>>
  BY DEF BadRequest
<1>2. DOMAIN BadRequest.calls = {} /\ BadRequest.calls \in Seq({})
  BY <1>1, EmptySeq
<1> QED
  BY <1>2 DEF Shaped

LEMMA OneCall ==
  ASSUME NEW c, c.add \in Lists, c.remove \in Lists, NEW valid, NEW r,
         valid /\ c.verb # "GET" => Sends(r, c)
  PROVE  Shaped(Operation(valid, {r}, <<c>>))
<1>1. CASE valid
  <2> DEFINE o == Operation(valid, {r}, <<c>>)
  <2>1. o.calls = <<c>> /\ o.needs = {r}
    BY <1>1 DEF Operation
  <2> HIDE DEF o
  <2>2. Len(o.calls) = 1 /\ DOMAIN o.calls = 1..1 /\ o.calls[1] = c /\ \E S : o.calls \in Seq(S)
    <3> DEFINE calls == <<c>>
               S == {c}
    <3>1. Len(calls) = 1 /\ DOMAIN calls = 1..1 /\ calls[1] = c
      OBVIOUS
    <3>2. calls \in Seq(S)
      BY AloneIn
    <3>3. o.calls = calls
      BY <2>1
    <3> HIDE DEF calls, S
    <3> QED
      BY <3>1, <3>2, <3>3
  <2>3. Shaped(o)
    <3>1. c.verb # "GET" => \E x \in o.needs : o.needs = {x} /\ Sends(x, c)
      BY <1>1, <2>1
    <3> QED
      BY <2>2, <3>1 DEF Shaped
  <2> QED
    BY <2>3 DEF o
<1>2. CASE ~valid
  BY <1>2, RefusedShaped DEF Operation
<1> QED
  BY <1>1, <1>2

Reads(c) == c.verb = "GET" /\ c.add \in Lists /\ c.remove \in Lists

LEMMA GetReads == ASSUME NEW part, NEW n PROVE Reads(Get(part, n))
BY NoListsAre DEF Reads, Get, Call

LEMMA OnlyReads ==
  ASSUME NEW valid, NEW needs, NEW S, NEW calls \in Seq(S),
         \A c \in S : Reads(c)
  PROVE  Shaped(Operation(valid, needs, calls))
<1>1. CASE valid
  <2> DEFINE o == Operation(valid, needs, calls)
  <2>1. o.calls = calls
    BY <1>1 DEF Operation
  <2>2. ASSUME NEW i \in DOMAIN calls
        PROVE  calls[i].verb = "GET" /\ calls[i].add \in Lists /\ calls[i].remove \in Lists
    <3>1. calls[i] \in S
      BY LenProperties, ElementOfSeq
    <3> QED
      BY <3>1 DEF Reads
  <2>3. Len(calls) \in Nat /\ DOMAIN calls = 1..Len(calls)
    BY LenProperties
  <2> HIDE DEF o
  <2>4. Shaped(o)
    BY <2>1, <2>2, <2>3 DEF Shaped
  <2> QED
    BY <2>4 DEF o
<1>2. CASE ~valid
  BY <1>2, RefusedShaped DEF Operation
<1> QED
  BY <1>1, <1>2

LEMMA ReadingShaped ==
  ASSUME NEW o, Reading(o)
  PROVE  Shaped(o)
<1>1. ASSUME NEW needs, NEW c, Reads(c), NEW valid
      PROVE  Shaped(Operation(valid, needs, <<c>>))
  <2> DEFINE calls == <<c>>
             S == {c}
  <2>1. calls \in Seq(S) /\ \A d \in S : Reads(d)
    BY <1>1
  <2> HIDE DEF calls, S
  <2>2. Shaped(Operation(valid, needs, calls))
    BY <2>1, OnlyReads
  <2> QED
    BY <2>2 DEF calls
<1>2. ASSUME NEW needs, NEW valid PROVE Shaped(Operation(valid, needs, <<>>))
  <2> DEFINE calls == <<>>
             S == {}
  <2>1. calls \in Seq(S) /\ \A d \in S : Reads(d)
    BY EmptySeq
  <2> HIDE DEF calls, S
  <2>2. Shaped(Operation(valid, needs, calls))
    BY <2>1, OnlyReads
  <2> QED
    BY <2>2 DEF calls
<1>3. ASSUME NEW c, Reads(c), NEW rest, NEW S, rest \in Seq(S), \A d \in S : Reads(d),
             NEW needs, NEW valid
      PROVE  Shaped(Operation(valid, needs, <<c>> \o rest))
  <2>1. <<c>> \in Seq(S \cup {c}) /\ rest \in Seq(S \cup {c})
    BY <1>3
  <2>2. <<c>> \o rest \in Seq(S \cup {c})
    BY <2>1, ConcatProperties
  <2> QED
    BY <1>3, <2>2, OnlyReads
<1>4. ASSUME NEW n, NEW comments \in BOOLEAN PROVE Shaped(IssueView(n, comments))
  <2> DEFINE a == Get("issue", n)
             c == Get("comments", n)
             S == {c}
             rest == IF comments THEN <<c>> ELSE <<>>
  <2>1. Reads(a) /\ \A d \in S : Reads(d)
    BY GetReads
  <2>2. rest \in Seq(S)
    <3> HIDE DEF c
    <3>1. <<c>> \in Seq(S)
      OBVIOUS
    <3> HIDE DEF S
    <3> QED
      BY <3>1, EmptySeq
  <2> HIDE DEF a, c, S, rest
  <2>3. ASSUME NEW needs PROVE Shaped(Operation(n > 0, needs, <<a>> \o rest))
    BY <1>3, <2>1, <2>2
  <2> QED
    BY <2>3 DEF IssueView, a, c, rest
<1>5. ASSUME NEW n, NEW comments \in BOOLEAN PROVE Shaped(PullView(n, comments))
  <2> DEFINE a == Get("comments", n)
             b == Get("review comments", n)
             c == Get("reviews", n)
             p == Get("pull", n)
             S == {a, b, c}
             rest == IF comments THEN <<a, b, c>> ELSE <<>>
  <2>1. Reads(p) /\ \A d \in S : Reads(d)
    BY GetReads
  <2>2. rest \in Seq(S)
    <3> HIDE DEF a, b, c
    <3>1. <<a, b, c>> \in Seq(S)
      OBVIOUS
    <3> HIDE DEF S
    <3> QED
      BY <3>1, EmptySeq
  <2> HIDE DEF a, b, c, p, S, rest
  <2>3. ASSUME NEW needs PROVE Shaped(Operation(n > 0, needs, <<p>> \o rest))
    BY <1>3, <2>1, <2>2
  <2> QED
    BY <2>3 DEF PullView, a, b, c, p, rest
<1>6. ASSUME NEW n PROVE Shaped(PullDiff(n))
  <2> DEFINE c == Get("diff", n)
  <2>1. Reads(c)
    BY GetReads
  <2> HIDE DEF c
  <2>2. ASSUME NEW needs PROVE Shaped(Operation(n > 0, needs, <<c>>))
    BY <1>1, <2>1
  <2> QED
    BY <2>2 DEF PullDiff, c
<1>7. Shaped(Clone) /\ Shaped(Push)
  BY <1>2 DEF Clone, Push
<1>8. Shaped(IssueList) /\ Shaped(PullList)
  BY <1>1, GetReads DEF IssueList, PullList
<1> QED
  BY <1>4, <1>5, <1>6, <1>7, <1>8 DEF Reading

LEMMA GivenIs ==
  ASSUME NEW fields, NEW f
  PROVE  /\ f \in DOMAIN Given(fields) <=> f \in DOMAIN fields /\ fields[f] # ""
         /\ f \in DOMAIN Given(fields) => Given(fields)[f] = fields[f]
BY DEF Given

LEMMA SentGiven ==
  ASSUME NEW fields, NEW f \in DOMAIN fields
  PROVE  Sent(Given(fields), f) = fields[f]
BY GivenIs DEF Sent

LEMMA NothingEdited ==
  ASSUME NEW c, c.add = NoLists, c.remove = NoLists
  PROVE  Edits(c) = {} /\ c.add \in Lists /\ c.remove \in Lists
<1>1. NoLists.labels = <<>> /\ NoLists.assignees = <<>>
  BY DEF NoLists
<1>2. \A l \in {"labels", "assignees"} : c.add[l] = <<>> /\ c.remove[l] = <<>>
  BY <1>1
<1> QED
  BY <1>2, NoListsAre DEF Edits

\* Requests to write a comment or a review.
LEMMA PostShaped ==
  ASSUME NEW valid, NEW at \in {"comments", "reviews"}, NEW n, NEW fields, NEW on, on.n = n,
         NEW action, NEW parts, Posted(action, fields, parts)
  PROVE  Shaped(Operation(valid, {Right(action, on, parts)}, <<Post(at, n, fields)>>))
<1> DEFINE c == Post(at, n, fields)
           r == Right(action, on, parts)
<1>1. /\ c.verb = "POST" /\ c.at = at /\ c.n = n /\ c.fields = fields
      /\ c.add = NoLists /\ c.remove = NoLists
      /\ r.action = action /\ r.on = on /\ r.parts = parts
  BY DEF Post, Call, Right
<1> HIDE DEF c, r
<1>2. Edits(c) = {} /\ c.add \in Lists /\ c.remove \in Lists
  BY <1>1, NothingEdited
<1>3. Sends(r, c)
  <2>1. r.on.n = c.n /\ (c.verb = "PATCH") = (c.at \in {"issue", "pull"})
    BY <1>1
  <2>2. Posted(r.action, c.fields, r.parts) /\ c.at \in {"comments", "reviews"}
    BY <1>1
  <2> QED
    BY <1>2, <2>1, <2>2 DEF Sends
<1>4. Shaped(Operation(valid, {r}, <<c>>))
  BY <1>2, <1>3, OneCall
<1> QED
  BY <1>4 DEF c, r

LEMMA CommentShaped ==
  ASSUME NEW n, NEW body
  PROVE  Shaped(IssueComment(n, body)) /\ Shaped(PullComment(n, body))
<1> DEFINE parts == <<<<body>>>>
           fields == [body |-> body]
<1>1. \A action \in {"issue.comment", "pull.comment"} : Posted(action, fields, parts)
  BY DEF Posted
<1>2. OnIssue(n).n = n /\ OnPull(n).n = n
  BY DEF OnIssue, OnPull
<1> HIDE DEF parts, fields
<1>3. ASSUME NEW valid
      PROVE  /\ Shaped(Operation(valid, {Right("issue.comment", OnIssue(n), parts)},
                                 <<Post("comments", n, fields)>>))
             /\ Shaped(Operation(valid, {Right("pull.comment", OnPull(n), parts)},
                                 <<Post("comments", n, fields)>>))
  BY <1>1, <1>2, PostShaped
<1> QED
  BY <1>3 DEF IssueComment, PullComment, parts, fields

LEMMA ReviewShaped ==
  ASSUME NEW n, NEW raw, NEW body
  PROVE  Shaped(PullReview(n, raw, body))
<1> DEFINE event == ReviewEvent(raw)
           parts == Each(<<event, body>>)
           all == [event |-> event, body |-> body]
           fields == Given(all)
           valid == n > 0 /\ event # "" /\ (body = "" => event = "APPROVE")
<1>1. Sent(fields, "event") = event /\ Sent(fields, "body") = body
  <2>1. DOMAIN all = {"event", "body"} /\ all.event = event /\ all.body = body
    OBVIOUS
  <2> HIDE DEF all, event
  <2> QED
    BY <2>1, SentGiven
<1>2. Posted("pull.review", fields, parts)
  <2>1. DOMAIN fields \subseteq {"event", "body"}
    BY DEF Given
  <2> HIDE DEF fields, event
  <2> QED
    BY <1>1, <2>1 DEF Posted
<1>3. OnPull(n).n = n
  BY DEF OnPull
<1> HIDE DEF parts, fields, event, all, valid
<1>4. Shaped(Operation(valid, {Right("pull.review", OnPull(n), parts)}, <<Post("reviews", n, fields)>>))
  BY <1>2, <1>3, PostShaped
<1> QED
  BY <1>4 DEF PullReview, parts, fields, event, all, valid

\* Requests to change the state of an issue or a pull request.
LEMMA StateShaped ==
  ASSUME NEW valid, NEW at \in {"issue", "pull"}, NEW n, NEW on, on.n = n, NEW parts, NEW fields,
         NEW action, valid => Turned(action, fields)
  PROVE  Shaped(Operation(valid, {Right(action, on, parts)}, <<Patch(at, n, fields)>>))
<1> DEFINE c == Patch(at, n, fields)
           r == Right(action, on, parts)
<1>1. /\ c.verb = "PATCH" /\ c.at = at /\ c.n = n /\ c.fields = fields
      /\ c.add = NoLists /\ c.remove = NoLists
      /\ r.action = action /\ r.on = on
  BY DEF Patch, Call, Right
<1> HIDE DEF c, r
<1>2. Edits(c) = {} /\ c.add \in Lists /\ c.remove \in Lists
  BY <1>1, NothingEdited
<1>3. valid => Sends(r, c)
  <2>1. valid => Turned(r.action, c.fields)
    BY <1>1
  <2> QED
    BY <1>1, <1>2, <2>1 DEF Sends
<1>4. Shaped(Operation(valid, {r}, <<c>>))
  BY <1>2, <1>3, OneCall
<1> QED
  BY <1>4 DEF c, r

LEMMA StatesShaped ==
  ASSUME NEW n, NEW reason
  PROVE  /\ Shaped(IssueClose(n, reason)) /\ Shaped(IssueReopen(n))
         /\ Shaped(PullClose(n)) /\ Shaped(PullReopen(n))
<1>0. OnIssue(n).n = n /\ OnPull(n).n = n
  BY DEF OnIssue, OnPull
<1>1. Shaped(IssueClose(n, reason))
  <2> DEFINE all == [status |-> "closed", reason |-> CloseReason(reason)]
             fields == Given(all)
             valid == n > 0 /\ CloseReason(reason) \in {"", "completed", "not_planned"}
             parts == <<>>
  <2>1. /\ DOMAIN all = {"status", "reason"} /\ all.status = "closed" /\ all.status # ""
        /\ valid => all.reason \in {"", "completed", "not_planned"}
    OBVIOUS
  <2> HIDE DEF all, valid
  <2>2. valid => Turned("issue.close", fields)
    BY <2>1, GivenIs DEF Turned
  <2> HIDE DEF fields, parts
  <2>3. Shaped(Operation(valid, {Right("issue.close", OnIssue(n), parts)}, <<Patch("issue", n, fields)>>))
    BY <1>0, <2>2, StateShaped
  <2> QED
    BY <2>3 DEF IssueClose, all, fields, valid, parts
<1>2. ASSUME NEW status \in {"open", "closed"}, NEW at \in {"issue", "pull"}, NEW on, on.n = n, NEW action,
             \/ action \in {"issue.close", "pull.close"} /\ status = "closed"
             \/ action \in {"issue.reopen", "pull.reopen"} /\ status = "open",
             NEW valid, NEW parts
      PROVE  Shaped(Operation(valid, {Right(action, on, parts)}, <<Patch(at, n, [status |-> status])>>))
  <2> DEFINE fields == [status |-> status]
  <2>1. Turned(action, fields)
    BY <1>2 DEF Turned
  <2> HIDE DEF fields
  <2>2. Shaped(Operation(valid, {Right(action, on, parts)}, <<Patch(at, n, fields)>>))
    BY <1>2, <2>1, StateShaped
  <2> QED
    BY <2>2 DEF fields
<1>3. Shaped(IssueReopen(n))
  BY <1>0, <1>2 DEF IssueReopen
<1>4. Shaped(PullClose(n))
  BY <1>0, <1>2 DEF PullClose
<1>5. Shaped(PullReopen(n))
  BY <1>0, <1>2 DEF PullReopen
<1> QED
  BY <1>1, <1>3, <1>4, <1>5

LEMMA MergeShaped ==
  ASSUME NEW n, NEW raw, NEW sha
  PROVE  Shaped(PullMerge(n, raw, sha))
<1> DEFINE method == MergeMethod(raw)
           all == [method |-> method, sha |-> sha]
           fields == Given(all)
           a == <<"method", method>>
           b == <<"sha", sha>>
           pin == IF sha = "" THEN <<>> ELSE <<b>>
           parts == <<a>> \o pin
           valid == n > 0 /\ method \in {"merge", "squash", "rebase"}
           c == Call("PUT", "merge", n, fields, NoLists, NoLists)
           r == Right("pull.merge", OnPull(n), parts)
<1>1. /\ c.verb = "PUT" /\ c.at = "merge" /\ c.n = n /\ c.fields = fields
      /\ c.add = NoLists /\ c.remove = NoLists
      /\ r.action = "pull.merge" /\ r.on.n = n /\ r.parts = parts
  BY DEF Call, Right, OnPull
<1>2. ASSUME NEW s, <<"sha", s>> \in ToSet(parts) PROVE "sha" \in DOMAIN fields /\ fields.sha = s
  <2>1. <<"sha", s>> # a /\ (<<"sha", s>> = b => s = sha)
    OBVIOUS
  <2>2. sha # "" /\ s = sha
    <3> DEFINE x == <<"sha", s>>
               S == {a, b}
    <3>1. x \in ToSet(parts)
      BY <1>2
    <3>2. x # a /\ (x = b => s = sha)
      BY <2>1
    <3> HIDE DEF x, a, b
    <3>3. <<a>> \in Seq(S) /\ ToSet(<<a>>) = {a} /\ <<b>> \in Seq(S) /\ ToSet(<<b>>) = {b}
      BY AloneIn
    <3>4. <<>> \in Seq(S) /\ ToSet(<<>>) = {}
      BY EmptySeq, EmptyIs
    <3>5. pin \in Seq(S) /\ (sha = "" => ToSet(pin) = {}) /\ (sha # "" => ToSet(pin) = {b})
      BY <3>3, <3>4
    <3> DEFINE front == <<a>>
    <3> HIDE DEF pin, S, front
    <3>6. front \in Seq(S) /\ ToSet(front) = {a}
      BY <3>3 DEF front
    <3>7. ToSet(front \o pin) = ToSet(front) \cup ToSet(pin)
      BY <3>5, <3>6, Joined
    <3>8. x \in ToSet(front \o pin)
      BY <3>1 DEF front
    <3> QED
      BY <3>2, <3>5, <3>6, <3>7, <3>8
  <2>3. DOMAIN all = {"method", "sha"} /\ all.sha = sha
    OBVIOUS
  <2> HIDE DEF all
  <2> QED
    BY <2>2, <2>3, GivenIs
<1> HIDE DEF c, r, fields, parts
<1>3. Edits(c) = {} /\ c.add \in Lists /\ c.remove \in Lists
  BY <1>1, NothingEdited
<1>4. Sends(r, c)
  <2>1. (c.verb = "PATCH") = (c.at \in {"issue", "pull"})
    BY <1>1
  <2>2. \A s \in Sha : <<"sha", s>> \in ToSet(r.parts) => "sha" \in DOMAIN c.fields /\ c.fields.sha = s
    BY <1>1, <1>2
  <2> QED
    BY <1>1, <1>3, <2>1, <2>2 DEF Sends
<1> HIDE DEF valid
<1>5. Shaped(Operation(valid, {r}, <<c>>))
  BY <1>3, <1>4, OneCall
<1> QED
  BY <1>5 DEF PullMerge, c, r, fields, parts, valid

\* Requests to create an issue or a pull request.
LEMMA NewShaped ==
  ASSUME NEW valid, NEW lists \in Lists, NEW fields, NEW parts, NEW at, NEW action,
         \/ at = "issues" /\ action = "issue.create"
         \/ at = "pulls" /\ action = "pull.create",
         Opened(action, fields, lists, parts)
  PROVE  Shaped(Operation(valid, {Right(action, OnRepo, parts)},
                          <<Call("POST", at, 0, fields, lists, NoLists)>>))
<1> DEFINE c == Call("POST", at, 0, fields, lists, NoLists)
           r == Right(action, OnRepo, parts)
<1>1. /\ c.verb = "POST" /\ c.at = at /\ c.n = 0 /\ c.fields = fields
      /\ c.add = lists /\ c.remove = NoLists
      /\ r.action = action /\ r.on.n = 0 /\ r.parts = parts
  BY DEF Call, Right, OnRepo
<1> HIDE DEF c, r
<1>2. Sends(r, c)
  <2>1. (c.verb = "PATCH") = (c.at \in {"issue", "pull"})
    BY <1>1
  <2>2. \/ c.at = "issues" /\ r.action = "issue.create"
        \/ c.at = "pulls" /\ r.action = "pull.create"
    BY <1>1
  <2>3. c.remove = NoLists /\ Opened(r.action, c.fields, c.add, r.parts)
    BY <1>1
  <2> QED
    BY <1>1, <2>1, <2>2, <2>3 DEF Sends
<1>3. c.add \in Lists /\ c.remove \in Lists
  BY <1>1, NoListsAre
<1>4. Shaped(Operation(valid, {r}, <<c>>))
  BY <1>2, <1>3, OneCall
<1> QED
  BY <1>4 DEF c, r

LEMMA IssueCreateShaped ==
  ASSUME NEW title, NEW body, NEW lists \in Lists
  PROVE  Shaped(IssueCreate(title, body, lists.labels, lists.assignees))
<1> DEFINE all == [title |-> title, body |-> body]
           fields == Given(all)
           labels == Each(lists.labels)
           assignees == Each(lists.assignees)
           parts == (<<<<title>>, <<body>>>> \o labels) \o assignees
           valid == title # ""
           action == "issue.create"
           at == "issues"
<1>1. DOMAIN all = {"title", "body"} /\ all.title = title /\ all.body = body
  OBVIOUS
<1>2. DOMAIN fields \subseteq {"title", "body"}
  BY DEF Given
<1> HIDE DEF all
<1>3. Sent(fields, "title") = title /\ Sent(fields, "body") = body
  BY <1>1, SentGiven
<1> HIDE DEF fields, labels, assignees
<1>4. parts = (<<<<Sent(fields, "title")>>, <<Sent(fields, "body")>>>> \o labels) \o assignees
  BY <1>3
<1> HIDE DEF parts
<1>5. Opened(action, fields, lists, parts)
  BY <1>2, <1>4 DEF Opened, labels, assignees
<1> HIDE DEF valid
<1>6. Shaped(Operation(valid, {Right(action, OnRepo, parts)},
                       <<Call("POST", at, 0, fields, lists, NoLists)>>))
  <2>1. at = "issues" /\ action = "issue.create"
    OBVIOUS
  <2> HIDE DEF at, action
  <2> QED
    BY <1>5, <2>1, NewShaped
<1>7. lists = [labels |-> lists.labels, assignees |-> lists.assignees]
  BY DEF Lists
<1> QED
  BY <1>6, <1>7 DEF IssueCreate, all, fields, parts, labels, assignees, valid

LEMMA PullCreateShaped ==
  ASSUME NEW title, NEW body, NEW head, NEW base, NEW draft
  PROVE  Shaped(PullCreate(title, body, head, base, draft))
<1> DEFINE all == [title |-> title, head |-> head, base |-> base, body |-> body, draft |-> draft]
           fields == Given(all)
           parts == Each(<<title, body, head, base, draft>>)
           valid == title # "" /\ head # "" /\ base # ""
           action == "pull.create"
           at == "pulls"
<1>1. /\ DOMAIN all = {"title", "body", "head", "base", "draft"}
      /\ all.title = title /\ all.body = body /\ all.head = head /\ all.base = base /\ all.draft = draft
  OBVIOUS
<1>2. DOMAIN fields \subseteq {"title", "body", "head", "base", "draft"}
  BY DEF Given
<1> HIDE DEF all
<1>3. /\ Sent(fields, "title") = title /\ Sent(fields, "body") = body
      /\ Sent(fields, "head") = head /\ Sent(fields, "base") = base
      /\ Sent(fields, "draft") = draft
  BY <1>1, SentGiven
<1> HIDE DEF fields
<1>4. parts = Each(<<Sent(fields, "title"), Sent(fields, "body"), Sent(fields, "head"),
                     Sent(fields, "base"), Sent(fields, "draft")>>)
  BY <1>3
<1> HIDE DEF parts, valid
<1>5. Opened(action, fields, NoLists, parts)
  BY <1>2, <1>4 DEF Opened
<1>6. Shaped(Operation(valid, {Right(action, OnRepo, parts)},
                       <<Call("POST", at, 0, fields, NoLists, NoLists)>>))
  <2>1. at = "pulls" /\ action = "pull.create"
    OBVIOUS
  <2> HIDE DEF at, action
  <2> QED
    BY <1>5, <2>1, NoListsAre, NewShaped
<1> QED
  BY <1>6 DEF PullCreate, Post, all, fields, parts, valid

\* Requests to edit an issue or a pull request.
LEMMA PartIs ==
  ASSUME NEW fields, NEW f, NEW S, f \in DOMAIN fields => <<f, fields[f]>> \in S
  PROVE  /\ Part(fields, f) \in Seq(S)
         /\ f \in DOMAIN fields => <<f, fields[f]>> \in ToSet(Part(fields, f))
<1> DEFINE a == <<f, fields[f]>>
<1>1. CASE f \in DOMAIN fields
  <2>1. a \in S
    BY <1>1
  <2> HIDE DEF a
  <2>2. <<a>> \in Seq(S) /\ ToSet(<<a>>) = {a}
    BY <2>1, AloneIn
  <2>3. a \in ToSet(<<a>>)
    BY <2>2
  <2> QED
    BY <1>1, <2>2, <2>3 DEF Part, a
<1>2. CASE f \notin DOMAIN fields
  BY <1>2, EmptySeq DEF Part
<1> QED
  BY <1>1, <1>2

\* The read and the write of an edit.
LEMMA EditCalls ==
  ASSUME NEW c, c.add \in Lists, c.remove \in Lists, c.at = "issue",
         NEW valid, NEW r, NEW first, NEW n,
         first = <<Get("issue", n)>> \/ first = <<>>,
         valid /\ c.verb # "GET" => Sends(r, c)
  PROVE  Shaped(Operation(valid, {r}, first \o <<c>>))
<1> DEFINE o == Operation(valid, {r}, first \o <<c>>)
           g == Get("issue", n)
           S == {g, c}
           last == <<c>>
<1>1. g.verb = "GET" /\ g.add \in Lists /\ g.remove \in Lists
  BY GetReads DEF Reads
<1> HIDE DEF g
<1>2. <<g>> \in Seq(S) /\ <<>> \in Seq(S) /\ last \in Seq(S) /\ Len(last) = 1 /\ last[1] = c
  BY EmptySeq, AloneIn
<1>3. /\ first \in Seq(S) /\ Len(first) \in {0, 1}
      /\ \A i \in 1..Len(first) : first[i] = g
  <2>1. Len(<<g>>) = 1 /\ <<g>>[1] = g /\ Len(<<>>) = 0
    OBVIOUS
  <2>2. first = <<g>> \/ first = <<>>
    BY DEF g
  <2>3. CASE first = <<g>>
    <3>1. first \in Seq(S) /\ Len(first) = 1 /\ first[1] = g
      BY <1>2, <2>1, <2>3
    <3> QED
      BY <3>1
  <2>4. CASE first = <<>>
    <3>1. first \in Seq(S) /\ Len(first) = 0
      BY <1>2, <2>1, <2>4
    <3> QED
      BY <3>1
  <2> QED
    BY <2>2, <2>3, <2>4
<1> HIDE DEF S, last
<1> DEFINE calls == first \o last
<1>4. /\ calls \in Seq(S) /\ Len(calls) = Len(first) + 1
      /\ \A i \in 1 .. Len(first) + 1 : calls[i] = IF i <= Len(first) THEN g ELSE c
  <2>0. first \in Seq(S) /\ last \in Seq(S)
    BY <1>2, <1>3
  <2>1. /\ calls \in Seq(S) /\ Len(calls) = Len(first) + Len(last)
        /\ \A i \in 1 .. Len(first) + Len(last) :
             calls[i] = IF i <= Len(first) THEN first[i] ELSE last[i - Len(first)]
    BY <2>0, ConcatProperties
  <2> HIDE DEF calls
  <2>2. Len(first) \in Nat
    BY <1>3
  <2> QED
    BY <1>2, <1>3, <2>1, <2>2
<1> HIDE DEF calls
<1>5. DOMAIN calls = 1..Len(calls) /\ Len(calls) \in Nat
  BY <1>4, LenProperties
<1>6. CASE valid
  <2>1. o.calls = calls /\ o.needs = {r}
    BY <1>6 DEF Operation, calls, last
  <2> HIDE DEF o
  <2>2. c.verb # "GET" => \E x \in o.needs : o.needs = {x} /\ Sends(x, c)
    BY <1>6, <2>1
  <2>3. ASSUME NEW i \in 1..Len(calls)
        PROVE  calls[i] = g \/ (i = Len(calls) /\ calls[i] = c)
    BY <1>3, <1>4
  <2>4. \E X : calls \in Seq(X)
    BY <1>4
  <2>5. Shaped(o)
    BY <1>1, <1>5, <2>1, <2>2, <2>3, <2>4 DEF Shaped
  <2> QED
    BY <2>5 DEF o
<1>7. CASE ~valid
  BY <1>7, RefusedShaped DEF Operation
<1> QED
  BY <1>6, <1>7

LEMMA IssueEditShaped ==
  ASSUME NEW n, NEW fields, DOMAIN fields \subseteq {"title", "body"},
         NEW add \in Lists, NEW remove \in Lists
  PROVE  Shaped(IssueEdit(n, fields, add, remove))
<1> DEFINE title == Part(fields, "title")
           body == Part(fields, "body")
           addL == <<"addL", Join(add.labels)>>
           rmL == <<"rmL", Join(remove.labels)>>
           addA == <<"addA", Join(add.assignees)>>
           rmA == <<"rmA", Join(remove.assignees)>>
           lists == <<addL, rmL, addA, rmA>>
           S == {<<f, fields[f]>> : f \in {"title", "body"}} \cup {addL, rmL, addA, rmA}
           parts == (title \o body) \o lists
           valid == n > 0 /\ (DOMAIN fields # {} \/ add # NoLists \/ remove # NoLists)
           first == IF add # NoLists \/ remove # NoLists THEN <<Get("issue", n)>> ELSE <<>>
           c == Call("PATCH", "issue", n, fields, add, remove)
           r == Right("issue.edit", OnIssue(n), parts)
<1>1. /\ title \in Seq(S)
      /\ "title" \in DOMAIN fields => <<"title", fields["title"]>> \in ToSet(title)
      /\ body \in Seq(S)
      /\ "body" \in DOMAIN fields => <<"body", fields["body"]>> \in ToSet(body)
  <2>1. \A f \in {"title", "body"} : <<f, fields[f]>> \in S
    OBVIOUS
  <2> HIDE DEF S
  <2> QED
    BY <2>1, PartIs
<1>2. lists \in Seq(S) /\ {addL, rmL, addA, rmA} \subseteq ToSet(lists)
  <2> HIDE DEF addL, rmL, addA, rmA
  <2>1. {addL, rmL, addA, rmA} \subseteq S
    OBVIOUS
  <2> HIDE DEF S
  <2>2. lists \in Seq(S)
    BY <2>1
  <2>3. DOMAIN lists = 1..4 /\ lists[1] = addL /\ lists[2] = rmL /\ lists[3] = addA /\ lists[4] = rmA
    OBVIOUS
  <2> HIDE DEF lists
  <2> QED
    BY <2>2, <2>3 DEF ToSet
<1> HIDE DEF S, title, body, lists
<1>3. ToSet(title) \cup ToSet(body) \cup ToSet(lists) \subseteq ToSet(parts)
  <2> DEFINE front == title \o body
  <2>1. front \in Seq(S) /\ ToSet(front) = ToSet(title) \cup ToSet(body)
    BY <1>1, Joined
  <2> HIDE DEF front
  <2>2. ToSet(front \o lists) = ToSet(front) \cup ToSet(lists)
    BY <1>2, <2>1, Joined
  <2> QED
    BY <2>1, <2>2 DEF front
<1>4. /\ c.verb = "PATCH" /\ c.at = "issue" /\ c.n = n /\ c.fields = fields
      /\ c.add = add /\ c.remove = remove
      /\ r.action = "issue.edit" /\ r.on.n = n /\ r.parts = parts
  BY DEF Call, Right, OnIssue
<1>5. first = <<Get("issue", n)>> \/ first = <<>>
  OBVIOUS
<1> HIDE DEF c, r, valid, first, parts
<1>6. Sends(r, c)
  <2>1. \A f \in DOMAIN fields : <<f, fields[f]>> \in ToSet(parts)
    BY <1>1, <1>3
  <2>2. DOMAIN fields \subseteq {"title", "body", "base"}
    OBVIOUS
  <2>3. (c.verb = "PATCH") = (c.at \in {"issue", "pull"})
    BY <1>4
  <2>4. \A l \in Edits(c) : ListParts(c, l) \subseteq ToSet(parts)
    <3>1. \A l \in {"labels", "assignees"} : ListParts(c, l) \subseteq {addL, rmL, addA, rmA}
      BY <1>4 DEF ListParts
    <3> QED
      BY <1>2, <1>3, <3>1 DEF Edits
  <2> QED
    BY <1>4, <2>1, <2>2, <2>3, <2>4 DEF Sends
<1>7. Shaped(Operation(valid, {r}, first \o <<c>>))
  BY <1>4, <1>5, <1>6, EditCalls
<1> QED
  BY <1>7 DEF IssueEdit, c, r, valid, first, parts, title, body, lists

LEMMA PullEditShaped ==
  ASSUME NEW n, NEW fields, DOMAIN fields \subseteq {"title", "body", "base"}
  PROVE  Shaped(PullEdit(n, fields))
<1> DEFINE title == Part(fields, "title")
           body == Part(fields, "body")
           base == Part(fields, "base")
           S == {<<f, fields[f]>> : f \in {"title", "body", "base"}}
           parts == (title \o body) \o base
           valid == n > 0 /\ DOMAIN fields # {}
           c == Patch("pull", n, fields)
           r == Right("pull.edit", OnPull(n), parts)
<1>1. /\ title \in Seq(S)
      /\ "title" \in DOMAIN fields => <<"title", fields["title"]>> \in ToSet(title)
      /\ body \in Seq(S)
      /\ "body" \in DOMAIN fields => <<"body", fields["body"]>> \in ToSet(body)
      /\ base \in Seq(S)
      /\ "base" \in DOMAIN fields => <<"base", fields["base"]>> \in ToSet(base)
  <2>1. \A f \in {"title", "body", "base"} : <<f, fields[f]>> \in S
    OBVIOUS
  <2> HIDE DEF S
  <2> QED
    BY <2>1, PartIs
<1> HIDE DEF S, title, body, base
<1>2. ToSet(parts) = ToSet(title) \cup ToSet(body) \cup ToSet(base)
  <2> DEFINE front == title \o body
  <2>1. front \in Seq(S) /\ ToSet(front) = ToSet(title) \cup ToSet(body)
    BY <1>1, Joined
  <2> HIDE DEF front
  <2>2. ToSet(front \o base) = ToSet(front) \cup ToSet(base)
    BY <1>1, <2>1, Joined
  <2> QED
    BY <2>1, <2>2 DEF front
<1>3. /\ c.verb = "PATCH" /\ c.at = "pull" /\ c.n = n /\ c.fields = fields
      /\ c.add = NoLists /\ c.remove = NoLists
      /\ r.action = "pull.edit" /\ r.on.n = n /\ r.parts = parts
  BY DEF Patch, Call, Right, OnPull
<1> HIDE DEF c, r, valid, parts
<1>4. Edits(c) = {} /\ c.add \in Lists /\ c.remove \in Lists
  BY <1>3, NothingEdited
<1>5. Sends(r, c)
  <2>1. \A f \in DOMAIN fields : <<f, fields[f]>> \in ToSet(parts)
    BY <1>1, <1>2
  <2>2. (c.verb = "PATCH") = (c.at \in {"issue", "pull"})
    BY <1>3
  <2> QED
    BY <1>3, <1>4, <2>1, <2>2 DEF Sends
<1>6. Shaped(Operation(valid, {r}, <<c>>))
  BY <1>4, <1>5, OneCall
<1> QED
  BY <1>6 DEF PullEdit, c, r, valid, parts, title, body, base

LEMMA MadeShaped ==
  ASSUME NEW o, Made(o)
  PROVE  Shaped(o)
<1>1. CASE Reading(o)
  BY <1>1, ReadingShaped
<1>2. CASE Creating(o)
  BY <1>2, IssueCreateShaped, PullCreateShaped DEF Creating
<1>3. CASE Editing(o)
  BY <1>3, IssueEditShaped, PullEditShaped DEF Editing, Fields
<1>4. CASE ~Reading(o) /\ ~Creating(o) /\ ~Editing(o)
  BY <1>4, CommentShaped, StatesShaped, ReviewShaped, MergeShaped DEF Made
<1> QED
  BY <1>1, <1>2, <1>3, <1>4
-----------------------------------------------------------------------------
(* What an edit makes of a list.                                           *)

Less == {p \in Nat \X Nat : p[1] < p[2]}

\* A set of numbers that has 0 and the successor of each has all of them.
LEMMA AllNumbers ==
  ASSUME NEW S, 0 \in S, \A n \in Nat : n \in S => n + 1 \in S
  PROVE  Nat \subseteq S
<1>1. IsWellFoundedOn(Less, Nat)
  BY NatLessThanWellFounded DEF OpToRel, Less
<1> SUFFICES ASSUME Nat \ S # {} PROVE FALSE
  OBVIOUS
<1>2. PICK m \in Nat \ S : \A n \in Nat \ S : ~ (<<n, m>> \in Less)
  BY <1>1, WFMin
<1>3. m # 0 /\ m - 1 \in Nat /\ m - 1 < m
  BY <1>2
<1>4. m - 1 \in S
  BY <1>2, <1>3 DEF Less
<1>5. m \in S
  BY <1>3, <1>4
<1> QED
  BY <1>2, <1>5

LEMMA Appended ==
  ASSUME NEW S, NEW s \in Seq(S), NEW x \in S
  PROVE  Append(s, x) \in Seq(S) /\ ToSet(Append(s, x)) = ToSet(s) \cup {x}
<1>1. Append(s, x) = s \o <<x>>
  BY AppendIsConcat
<1> DEFINE last == <<x>>
<1>2. last \in Seq(S) /\ ToSet(last) = {x}
  BY AloneIn
<1> HIDE DEF last
<1>3. s \o last \in Seq(S) /\ ToSet(s \o last) = ToSet(s) \cup ToSet(last)
  BY <1>2, Joined
<1> QED
  BY <1>1, <1>2, <1>3 DEF last

\* The list that is written back holds the old names but those to remove, and
\* the names to add.
LEMMA ChangedList ==
  ASSUME NEW S, NEW old \in Seq(S), NEW add \in Seq(S), NEW remove
  PROVE  ToSet(ApplyAddRemove(old, add, remove)) = (ToSet(old) \ ToSet(remove)) \cup ToSet(add)
<1> DEFINE all == old \o add
           Top == Len(all)
           Leaves(i) == i <= Len(old) /\ all[i] \in ToSet(remove)
           Value(f, i) == IF i = 0 THEN <<>>
                         ELSE IF Leaves(i) \/ all[i] \in ToSet(f[i - 1])
                         THEN f[i - 1] ELSE Append(f[i - 1], all[i])
           Fits(f, n) == f = [i \in 0..n |-> Value(f, i)]
           kept == CHOOSE f : Fits(f, Top)
<1>1. ApplyAddRemove(old, add, remove) = kept[Top]
  BY DEF ApplyAddRemove
<1>2. /\ all \in Seq(S) /\ Top = Len(old) + Len(add)
      /\ \A i \in 1 .. Len(old) + Len(add) : all[i] = IF i <= Len(old) THEN old[i] ELSE add[i - Len(old)]
  BY ConcatProperties
<1>3. /\ Len(old) \in Nat /\ DOMAIN old = 1..Len(old)
      /\ Len(add) \in Nat /\ DOMAIN add = 1..Len(add)
  BY LenProperties
<1> HIDE DEF all
<1>4. Top \in Nat /\ \A i \in 1..Top : all[i] \in S
  <2>1. DOMAIN all = 1..Top /\ Top \in Nat
    BY <1>2, LenProperties
  <2> QED
    BY <1>2, <2>1, ElementOfSeq
<1> HIDE DEF Top, Leaves
<1>5. Fits(kept, Top)
  <2> DEFINE T == {n \in Nat : \E f : Fits(f, n)}
  <2>1. 0 \in T
    <3> DEFINE f == [i \in 0..0 |-> <<>>]
    <3>1. Fits(f, 0)
      OBVIOUS
    <3> QED
      BY <3>1
  <2>2. ASSUME NEW n \in Nat, n \in T PROVE n + 1 \in T
    <3>1. PICK f : Fits(f, n)
      BY <2>2
    <3> DEFINE g == [i \in 0..(n + 1) |-> IF i <= n THEN f[i] ELSE Value(f, n + 1)]
    <3>2. ASSUME NEW i \in 0..n PROVE f[i] = Value(f, i)
      BY <3>1
    <3>3. ASSUME NEW i \in 0..(n + 1) PROVE g[i] = Value(f, i)
      <4>1. CASE i <= n
        <5>1. i \in 0..n /\ g[i] = f[i]
          BY <4>1
        <5> QED
          BY <3>2, <5>1
      <4>2. CASE ~(i <= n)
        <5>1. i = n + 1
          BY <4>2
        <5> QED
          BY <4>2, <5>1
      <4> QED
        BY <4>1, <4>2
    <3>4. ASSUME NEW i \in 0..(n + 1) PROVE Value(f, i) = Value(g, i)
      <4>1. i # 0 => g[i - 1] = f[i - 1]
        OBVIOUS
      <4> HIDE DEF g
      <4> QED
        BY <4>1
    <3>5. DOMAIN g = 0..(n + 1) /\ g = [i \in 0..(n + 1) |-> g[i]]
      OBVIOUS
    <3> HIDE DEF g, Value
    <3>6. g = [i \in 0..(n + 1) |-> Value(g, i)]
      BY <3>3, <3>4, <3>5
    <3> QED
      BY <3>6
  <2> HIDE DEF T
  <2>3. Top \in T
    BY <1>4, <2>1, <2>2, AllNumbers
  <2> HIDE DEF Fits
  <2>4. \E f : Fits(f, Top)
    BY <2>3 DEF T
  <2> QED
    BY <2>4
<1> HIDE DEF kept
<1> DEFINE Names(n) == {all[i] : i \in {j \in 1..n : ~Leaves(j)}}
<1>6. kept[Top] \in Seq(S) /\ ToSet(kept[Top]) = Names(Top)
  <2> DEFINE Good(n) == kept[n] \in Seq(S) /\ ToSet(kept[n]) = Names(n)
             T == {n \in Nat : n <= Top => Good(n)}
  <2>1. ASSUME NEW i \in 0..Top PROVE kept[i] = Value(kept, i)
    BY <1>5
  <2>2. 0 \in T
    <3>1. kept[0] = <<>>
      BY <1>4, <2>1
    <3>2. Names(0) = {}
      BY <1>4
    <3>3. Good(0)
      BY <3>1, <3>2, EmptySeq, EmptyIs
    <3> QED
      BY <3>3
  <2>3. ASSUME NEW n \in Nat, n \in T PROVE n + 1 \in T
    <3> SUFFICES ASSUME n + 1 <= Top PROVE Good(n + 1)
      OBVIOUS
    <3> DEFINE m == n + 1
    <3>1. Good(n)
      BY <1>4, <2>3
    <3>2. m \in 1..Top /\ m # 0 /\ m - 1 = n /\ 1..m = 1..n \cup {m}
      BY <1>4
    <3>3. all[m] \in S
      BY <1>4, <3>2
    <3>4. kept[m] = IF Leaves(m) \/ all[m] \in ToSet(kept[n]) THEN kept[n] ELSE Append(kept[n], all[m])
      BY <2>1, <3>2
    <3>5. Names(m) = Names(n) \cup (IF Leaves(m) THEN {} ELSE {all[m]})
      BY <3>2
    <3>6. kept[n] \in Seq(S) /\ ToSet(kept[n]) = Names(n)
      BY <3>1
    <3> HIDE DEF m, Names
    <3>7. ASSUME Leaves(m) \/ all[m] \in ToSet(kept[n]) PROVE Good(m)
      BY <3>4, <3>5, <3>6, <3>7
    <3>8. ASSUME ~(Leaves(m) \/ all[m] \in ToSet(kept[n])) PROVE Good(m)
      BY <3>3, <3>4, <3>5, <3>6, <3>8, Appended
    <3>9. Good(m)
      BY <3>7, <3>8
    <3> QED
      BY <3>9 DEF m
  <2>4. Top \in T
    <3> HIDE DEF T
    <3> QED
      BY <1>4, <2>2, <2>3, AllNumbers
  <2> HIDE DEF Good
  <2>5. Good(Top)
    BY <1>4, <2>4
  <2> QED
    BY <2>5 DEF Good
<1>7. Names(Top) = (ToSet(old) \ ToSet(remove)) \cup ToSet(add)
  <2>1. ASSUME NEW i \in 1..Top
        PROVE  all[i] = IF i <= Len(old) THEN old[i] ELSE add[i - Len(old)]
    BY <1>2 DEF Top
  <2>2. Top = Len(old) + Len(add)
    BY <1>2
  <2>3. ASSUME NEW x \in Names(Top) PROVE x \in (ToSet(old) \ ToSet(remove)) \cup ToSet(add)
    <3>1. PICK i \in 1..Top : ~Leaves(i) /\ x = all[i]
      OBVIOUS
    <3>2. CASE i <= Len(old)
      <4>1. i \in DOMAIN old /\ x = old[i] /\ x \notin ToSet(remove)
        BY <1>3, <2>1, <3>1, <3>2 DEF Leaves
      <4> QED
        BY <4>1 DEF ToSet
    <3>3. CASE ~(i <= Len(old))
      <4>1. i - Len(old) \in DOMAIN add /\ x = add[i - Len(old)]
        BY <1>3, <2>1, <2>2, <3>1, <3>3
      <4> QED
        BY <4>1 DEF ToSet
    <3> QED
      BY <3>2, <3>3
  <2>4. ASSUME NEW x \in ToSet(old), x \notin ToSet(remove) PROVE x \in Names(Top)
    <3>1. PICK i \in DOMAIN old : x = old[i]
      BY DEF ToSet
    <3>2. i \in 1..Top /\ all[i] = x
      BY <1>3, <2>1, <2>2, <3>1
    <3> QED
      BY <2>4, <3>2 DEF Leaves
  <2>5. ASSUME NEW x \in ToSet(add) PROVE x \in Names(Top)
    <3>1. PICK i \in DOMAIN add : x = add[i]
      BY DEF ToSet
    <3>2. i + Len(old) \in 1..Top /\ ~(i + Len(old) <= Len(old)) /\ i + Len(old) - Len(old) = i
      BY <1>3, <2>2
    <3>3. all[i + Len(old)] = x
      BY <2>1, <3>1, <3>2
    <3> QED
      BY <3>2, <3>3 DEF Leaves
  <2> QED
    BY <2>3, <2>4, <2>5
<1> QED
  BY <1>1, <1>6, <1>7

-----------------------------------------------------------------------------
(* The inductive invariant.                                                *)

Item(item) ==
  /\ DOMAIN item = DOMAIN Blank("", "")
  /\ item.kind \in {"issue", "pull"}
  /\ item.status \in {"open", "closed"} \cup (IF item.kind = "pull" THEN {"merged"} ELSE {})
  /\ item.labels \subseteq Label /\ IsFiniteSet(item.labels)
  /\ item.assignees \subseteq User /\ IsFiniteSet(item.assignees)
  /\ item.tip \in Sha
  /\ item.posts \in Seq(ToSet(item.posts)) /\ Len(item.posts) <= MaxPosts

ItemsTyped == DOMAIN items \subseteq Number /\ \A n \in DOMAIN items : Item(items[n])

VariablesTyped ==
  /\ DOMAIN pc = Handler /\ DOMAIN op = Handler /\ DOMAIN next = Handler
  /\ DOMAIN current = Handler /\ DOMAIN seen = Handler /\ DOMAIN result = Handler

\* The parts that the first k calls of o read.
Got(o, k) == {o.calls[i].at : i \in {j \in 1..k : o.calls[j].verb = "GET"}}

\* A goroutine has read what its calls up to now read, and has completed only
\* when these were all its calls.
Work(h) ==
  /\ pc[h] \in {"idle", "executing", "done"}
  /\ current[h] \in Lists
  /\ pc[h] = "idle" => Idle(h)
  /\ pc[h] = "executing" =>
       /\ op[h] \in Requests /\ op[h].valid /\ result[h] = ""
       /\ next[h] \in DOMAIN op[h].calls /\ seen[h] = Got(op[h], next[h] - 1)
       /\ next[h] = 1 => current[h] = NoLists
  /\ pc[h] = "done" => result[h] \in {"completed", "failed", "bad_request"}
  /\ result[h] = "completed" =>
       /\ pc[h] = "done" /\ DOMAIN op[h].calls = 1..Len(op[h].calls)
       /\ seen[h] = Got(op[h], Len(op[h].calls))

Inv == ItemsTyped /\ VariablesTyped /\ \A h \in Handler : Work(h)

-----------------------------------------------------------------------------
(* What is written.                                                        *)

LEMMA MembersOf ==
  ASSUME NEW S, NEW s \in Seq(S)
  PROVE  ToSet(s) \subseteq S /\ IsFiniteSet(ToSet(s)) /\ s \in Seq(ToSet(s))
<1>1. Len(s) \in Nat /\ DOMAIN s = 1..Len(s)
  BY LenProperties
<1>2. ToSet(s) \subseteq S
  BY <1>1, ElementOfSeq DEF ToSet
<1>3. s = [i \in 1..Len(s) |-> s[i]] /\ \A i \in 1..Len(s) : s[i] \in ToSet(s)
  BY <1>1 DEF ToSet
<1>4. s \in Seq(ToSet(s))
  BY <1>1, <1>3, IsASeq
<1>5. s \in Surjection(1..Len(s), ToSet(s))
  BY <1>1, <1>3 DEF Surjection, ToSet
<1>6. IsFiniteSet(1..Len(s))
  BY <1>1, FS_Interval
<1>7. IsFiniteSet(ToSet(s))
  BY <1>5, <1>6, FS_Surjection
<1> QED
  BY <1>2, <1>4, <1>7

\* The list of a set that was read.
LEMMA ListOf ==
  ASSUME NEW T, NEW S, S \subseteq T, IsFiniteSet(S)
  PROVE  SetToSeq(S) \in Seq(T)
<1>1. Cardinality(S) \in Nat /\ ExistsBijection(1..Cardinality(S), S)
  BY FS_CardinalityType
<1> DEFINE D == 1..Cardinality(S)
<1>2. \E f \in [D -> S] : IsInjective(f)
  BY <1>1 DEF ExistsBijection, Bijection, Injection, IsInjective
<1>3. SetToSeq(S) \in [D -> S]
  BY <1>2 DEF SetToSeq
<1>4. SetToSeq(S) \in Seq(S)
  BY <1>1, <1>3
<1> QED
  BY <1>4

\* What a call writes of a field or a list.
LEMMA PayloadIs ==
  ASSUME NEW c, c.add \in Lists, c.remove \in Lists, NEW read \in Lists
  PROVE  LET p == Payload(c, read)
         IN  /\ DOMAIN p = DOMAIN c.fields \cup Edits(c)
             /\ \A f \in DOMAIN c.fields : p[f] = c.fields[f]
             /\ \A l \in Edits(c) \ DOMAIN c.fields :
                  p[l] = (ToSet(read[l]) \ ToSet(c.remove[l])) \cup ToSet(c.add[l])
             /\ \A l \in Edits(c) \ DOMAIN c.fields :
                  p[l] \subseteq (IF l = "labels" THEN Label ELSE User) /\ IsFiniteSet(p[l])
<1> DEFINE p == Payload(c, read)
           Names(l) == IF l = "labels" THEN Label ELSE User
<1>1. DOMAIN p = DOMAIN c.fields \cup Edits(c) /\ \A f \in DOMAIN c.fields : p[f] = c.fields[f]
  BY DEF Payload
<1>2. ASSUME NEW l \in Edits(c), l \notin DOMAIN c.fields
      PROVE  /\ p[l] = (ToSet(read[l]) \ ToSet(c.remove[l])) \cup ToSet(c.add[l])
             /\ p[l] \subseteq Names(l) /\ IsFiniteSet(p[l])
  <2>1. p[l] = ToSet(ApplyAddRemove(read[l], c.add[l], c.remove[l]))
    BY <1>2 DEF Payload
  <2>2. read[l] \in Seq(Names(l)) /\ c.add[l] \in Seq(Names(l))
    BY DEF Lists, Edits
  <2> HIDE DEF p, Names
  <2>3. p[l] = (ToSet(read[l]) \ ToSet(c.remove[l])) \cup ToSet(c.add[l])
    BY <2>1, <2>2, ChangedList
  <2>4. /\ ToSet(read[l]) \subseteq Names(l) /\ IsFiniteSet(ToSet(read[l]))
        /\ ToSet(c.add[l]) \subseteq Names(l) /\ IsFiniteSet(ToSet(c.add[l]))
    BY <2>2, MembersOf
  <2>5. IsFiniteSet(ToSet(read[l]) \ ToSet(c.remove[l]))
    BY <2>4, FS_Subset
  <2>6. IsFiniteSet(p[l])
    BY <2>3, <2>4, <2>5, FS_Union
  <2> QED
    BY <2>3, <2>4, <2>6
<1> HIDE DEF p
<1> QED
  BY <1>1, <1>2 DEF p

\* A payload that makes an item of an item.
Writes(p) ==
  /\ DOMAIN p \subseteq {"title", "body", "head", "base", "draft", "status", "reason",
                         "labels", "assignees"}
  /\ "status" \in DOMAIN p => p.status \in {"open", "closed"}
  /\ "labels" \in DOMAIN p => p.labels \subseteq Label /\ IsFiniteSet(p.labels)
  /\ "assignees" \in DOMAIN p => p.assignees \subseteq User /\ IsFiniteSet(p.assignees)

LEMMA PayloadWrites ==
  ASSUME NEW c, c.add \in Lists, c.remove \in Lists, NEW read \in Lists, NEW r, Sends(r, c),
         c.at \in {"issues", "pulls", "issue", "pull"}
  PROVE  Writes(Payload(c, read))
<1> DEFINE p == Payload(c, read)
<1>1. /\ DOMAIN c.fields \subseteq {"title", "body", "head", "base", "draft", "status", "reason"}
      /\ "status" \in DOMAIN c.fields => c.fields.status \in {"open", "closed"}
  BY DEF Sends, Opened, Turned
<1>2. Edits(c) \subseteq {"labels", "assignees"}
  BY DEF Edits
<1>3. /\ DOMAIN p = DOMAIN c.fields \cup Edits(c)
      /\ \A f \in DOMAIN c.fields : p[f] = c.fields[f]
      /\ \A l \in Edits(c) \ DOMAIN c.fields :
           p[l] \subseteq (IF l = "labels" THEN Label ELSE User) /\ IsFiniteSet(p[l])
  BY PayloadIs
<1> HIDE DEF p
<1>4. "labels" \in DOMAIN p => p.labels \subseteq Label /\ IsFiniteSet(p.labels)
  <2> SUFFICES ASSUME "labels" \in DOMAIN p PROVE p["labels"] \subseteq Label /\ IsFiniteSet(p["labels"])
    OBVIOUS
  <2> QED
    BY <1>1, <1>2, <1>3
<1>5. "assignees" \in DOMAIN p => p.assignees \subseteq User /\ IsFiniteSet(p.assignees)
  <2> SUFFICES ASSUME "assignees" \in DOMAIN p
               PROVE  p["assignees"] \subseteq User /\ IsFiniteSet(p["assignees"])
    OBVIOUS
  <2> QED
    BY <1>1, <1>2, <1>3
<1>6. Writes(p)
  BY <1>1, <1>2, <1>3, <1>4, <1>5 DEF Writes
<1> QED
  BY <1>6 DEF p

LEMMA BlankItem ==
  ASSUME NEW kind \in {"issue", "pull"}, NEW tip \in Sha
  PROVE  Item(Blank(kind, tip))
<1> DEFINE b == Blank(kind, tip)
<1>1. /\ DOMAIN b = DOMAIN Blank("", "") /\ b.kind = kind /\ b.status = "open"
      /\ b.labels = {} /\ b.assignees = {} /\ b.tip = tip /\ b.posts = <<>>
  BY DEF Blank
<1> HIDE DEF b
<1>2. IsFiniteSet(b.labels) /\ IsFiniteSet(b.assignees)
  BY <1>1, FS_EmptySet
<1>3. b.posts \in Seq(ToSet(b.posts)) /\ Len(b.posts) = 0
  BY <1>1, EmptySeq, EmptyIs
<1>4. Len(b.posts) <= MaxPosts
  BY <1>3, MaxPostsAssumption
<1>5. b.kind \in {"issue", "pull"} /\ b.status \in {"open", "closed"} /\ b.tip \in Sha
  BY <1>1
<1>6. b.labels \subseteq Label /\ b.assignees \subseteq User
  BY <1>1
<1>7. Item(b)
  BY <1>1, <1>2, <1>3, <1>4, <1>5, <1>6, Zenon DEF Item
<1> QED
  BY <1>7 DEF b

LEMMA PatchedItem ==
  ASSUME NEW item, Item(item), NEW p, Writes(p)
  PROVE  Item(Patched(item, p))
<1> DEFINE q == Patched(item, p)
<1>1. /\ DOMAIN q = DOMAIN item
      /\ \A f \in DOMAIN item : q[f] = IF f \in DOMAIN p THEN p[f]
                                       ELSE IF f = "reason" /\ "status" \in DOMAIN p THEN ""
                                       ELSE item[f]
  BY DEF Patched
<1>2. DOMAIN item = {"kind", "status", "reason", "title", "body", "base", "labels", "assignees",
                     "tip", "posts"}
  BY DEF Item, Blank
<1>3. q.kind = item.kind /\ q.tip = item.tip /\ q.posts = item.posts
  BY <1>1, <1>2 DEF Writes
<1>4. q.status = item.status \/ q.status \in {"open", "closed"}
  BY <1>1, <1>2 DEF Writes
<1>5. q.labels \subseteq Label /\ IsFiniteSet(q.labels)
  BY <1>1, <1>2 DEF Writes, Item
<1>6. q.assignees \subseteq User /\ IsFiniteSet(q.assignees)
  BY <1>1, <1>2 DEF Writes, Item
<1> HIDE DEF q
<1>7. Item(q)
  BY <1>1, <1>3, <1>4, <1>5, <1>6 DEF Item
<1> QED
  BY <1>7 DEF q

-----------------------------------------------------------------------------
(* The steps.                                                              *)

\* The call that a goroutine makes next; a write is the last one.
LEMMA CallIs ==
  ASSUME RequestsAreMade, NEW h \in Handler, Work(h), pc[h] = "executing"
  PROVE  LET c == CallOf(h)
         IN  /\ c.add \in Lists /\ c.remove \in Lists
             /\ Len(op[h].calls) \in Nat /\ DOMAIN op[h].calls = 1..Len(op[h].calls)
             /\ next[h] \in 1..Len(op[h].calls)
             /\ c.verb # "GET" => /\ next[h] = Len(op[h].calls)
                                  /\ (c.at \in {"issues", "pulls"} => next[h] = 1)
                                  /\ \E r : op[h].needs = {r} /\ Sends(r, c)
<1>1. op[h] \in Requests /\ next[h] \in DOMAIN op[h].calls
  BY DEF Work
<1>2. Shaped(op[h])
  BY <1>1, MadeShaped DEF RequestsAreMade
<1>3. PICK S : op[h].calls \in Seq(S)
  BY <1>2 DEF Shaped
<1>4. Len(op[h].calls) \in Nat /\ DOMAIN op[h].calls = 1..Len(op[h].calls)
  BY <1>3, LenProperties
<1> QED
  BY <1>1, <1>2, <1>4 DEF Shaped, CallOf

\* One of what a creation may make of the items.
LEMMA CreatedIs ==
  ASSUME NEW kind, NEW p, items' \in Created(kind, p)
  PROVE  \E n \in Number \ DOMAIN items, tip \in Sha :
           items' = [m \in DOMAIN items \cup {n} |->
                     IF m = n THEN Patched(Blank(kind, tip), p) ELSE items[m]]
<1> DEFINE New(n, tip) == [m \in DOMAIN items \cup {n} |->
                             IF m = n THEN Patched(Blank(kind, tip), p) ELSE items[m]]
<1>1. items' \in {New(n, tip) : n \in Number \ DOMAIN items, tip \in Sha}
  BY SMTT(30) DEF Created
<1> HIDE DEF New
<1>2. \E n \in Number \ DOMAIN items, tip \in Sha : items' = New(n, tip)
  BY <1>1, SMT
<1> QED
  BY <1>2, Zenon DEF New

\* A new item is a blank one with the payload.
LEMMA CreatedItem ==
  ASSUME NEW kind, NEW p, items' \in Created(kind, p), NEW n \in DOMAIN items', n \notin DOMAIN items
  PROVE  \E tip \in Sha : items'[n] = Patched(Blank(kind, tip), p)
<1>1. PICK m \in Number \ DOMAIN items, tip \in Sha :
        items' = [x \in DOMAIN items \cup {m} |->
                    IF x = m THEN Patched(Blank(kind, tip), p) ELSE items[x]]
  BY CreatedIs
<1>2. n = m
  BY <1>1
<1> QED
  BY <1>1, <1>2

\* What GitHub makes of its items when it takes a call.
LEMMA Taken ==
  ASSUME NEW c, NEW p, Exists(c), items' \in Outcomes(c, p)
  PROVE  \/ /\ c.at \in {"issues", "pulls"}
            /\ \E n \in Number \ DOMAIN items, tip \in Sha :
                 items' = [m \in DOMAIN items \cup {n} |->
                             IF m = n
                             THEN Patched(Blank(IF c.at = "issues" THEN "issue" ELSE "pull", tip), p)
                             ELSE items[m]]
         \/ /\ c.at \in {"issue", "pull"} /\ c.n \in DOMAIN items
            /\ items' = [items EXCEPT ![c.n] = Patched(items[c.n], p)]
         \/ /\ c.at = "merge" /\ c.n \in DOMAIN items /\ items[c.n].kind = "pull"
            /\ "sha" \in DOMAIN p => p.sha = items[c.n].tip
            /\ items' = [items EXCEPT ![c.n] = [items[c.n] EXCEPT !.status = "merged"]]
         \/ /\ c.at \notin {"issues", "pulls", "issue", "pull", "merge"} /\ c.n \in DOMAIN items
            /\ Len(items[c.n].posts) < MaxPosts
            /\ items' = [items EXCEPT ![c.n] = [items[c.n] EXCEPT !.posts = Append(items[c.n].posts, p)]]
<1>1. CASE c.at \in {"issues", "pulls"}
  <2> DEFINE kind == IF c.at = "issues" THEN "issue" ELSE "pull"
  <2>1. items' \in Created(kind, p)
    BY <1>1 DEF Outcomes
  <2>2. \E n \in Number \ DOMAIN items, tip \in Sha :
          items' = [m \in DOMAIN items \cup {n} |->
                      IF m = n THEN Patched(Blank(kind, tip), p) ELSE items[m]]
    <3> HIDE DEF kind
    <3> QED
      BY <2>1, CreatedIs
  <2> QED
    BY <1>1, <2>2, Zenon
<1>2. CASE c.at \in {"issue", "pull"}
  BY <1>2 DEF Outcomes, Exists
<1>3. CASE c.at = "merge"
  BY <1>3 DEF Outcomes, Exists
<1>4. CASE c.at \notin {"issues", "pulls", "issue", "pull", "merge"}
  <2>1. Outcomes(c, p) = {[items EXCEPT ![n].posts = Append(@, p)] :
                            n \in {m \in {c.n} : Len(items[m].posts) < MaxPosts}}
    BY <1>4 DEF Outcomes
  <2>2. c.n \in DOMAIN items
    BY <1>4 DEF Exists
  <2>3. /\ Len(items[c.n].posts) < MaxPosts
        /\ items' = [items EXCEPT ![c.n] = [items[c.n] EXCEPT !.posts = Append(items[c.n].posts, p)]]
    BY <2>1, <2>2
  <2> QED
    BY <1>4, <2>2, <2>3, Zenon
<1> QED
  BY <1>1, <1>2, <1>3, <1>4

\* A call that was taken and answered, or whose answer was lost.
LEMMA SentIs ==
  ASSUME NEW h, SendJSON(h), items' # items
  PROVE  /\ pc[h] = "executing" /\ CallOf(h).verb # "GET" /\ Exists(CallOf(h))
         /\ items' \in Outcomes(CallOf(h), Payload(CallOf(h), current[h]))
BY DEF SendJSON

LEMMA MergedItem ==
  ASSUME NEW item, Item(item), item.kind = "pull"
  PROVE  Item([item EXCEPT !.status = "merged"])
<1> DEFINE q == [item EXCEPT !.status = "merged"]
<1>1. DOMAIN item = {"kind", "status", "reason", "title", "body", "base", "labels", "assignees",
                     "tip", "posts"}
  BY DEF Item, Blank
<1>2. /\ DOMAIN q = DOMAIN item /\ q.status = "merged"
      /\ q.kind = item.kind /\ q.labels = item.labels /\ q.assignees = item.assignees
      /\ q.tip = item.tip /\ q.posts = item.posts
  BY <1>1
<1> HIDE DEF q
<1>3. Item(q)
  BY <1>2 DEF Item
<1> QED
  BY <1>3 DEF q

LEMMA PostedItem ==
  ASSUME NEW item, Item(item), NEW p, Len(item.posts) < MaxPosts
  PROVE  /\ Item([item EXCEPT !.posts = Append(item.posts, p)])
         /\ Last(Append(item.posts, p)) = p
<1> DEFINE q == [item EXCEPT !.posts = Append(item.posts, p)]
           S == ToSet(item.posts) \cup {p}
           new == Append(item.posts, p)
<1>1. DOMAIN item = {"kind", "status", "reason", "title", "body", "base", "labels", "assignees",
                     "tip", "posts"}
  BY DEF Item, Blank
<1>2. /\ DOMAIN q = DOMAIN item /\ q.posts = new /\ q.status = item.status
      /\ q.kind = item.kind /\ q.labels = item.labels /\ q.assignees = item.assignees
      /\ q.tip = item.tip
  BY <1>1
<1>3. item.posts \in Seq(S) /\ p \in S /\ Len(item.posts) \in Nat
  <2>1. item.posts \in Seq(ToSet(item.posts))
    BY DEF Item
  <2> QED
    BY <2>1, LenProperties
<1>4. new \in Seq(S) /\ Len(new) = Len(item.posts) + 1 /\ new[Len(item.posts) + 1] = p
  <2> HIDE DEF S
  <2> QED
    BY <1>3, AppendProperties
<1> HIDE DEF q, new
<1>5. new \in Seq(ToSet(new)) /\ Len(new) <= MaxPosts
  BY <1>3, <1>4, MembersOf, MaxPostsAssumption
<1>6. Item(q)
  BY <1>2, <1>5 DEF Item
<1>7. Last(new) = p
  BY <1>4 DEF Last
<1> QED
  BY <1>6, <1>7 DEF q, new

LEMMA ItemsStay ==
  ASSUME RequestsAreMade, Inv, NEW h \in Handler, SendJSON(h)
  PROVE  ItemsTyped'
<1> DEFINE c == CallOf(h)
           p == Payload(c, current[h])
<1>0. Work(h) /\ ItemsTyped
  BY DEF Inv
<1>1. CASE items' = items
  BY <1>0, <1>1 DEF ItemsTyped
<1>2. CASE items' # items
  <2>1. pc[h] = "executing" /\ c.verb # "GET" /\ Exists(c) /\ items' \in Outcomes(c, p)
    BY <1>2, SentIs
  <2>2. c.add \in Lists /\ c.remove \in Lists /\ \E r : Sends(r, c)
    BY <1>0, <2>1, CallIs
  <2>3. current[h] \in Lists
    BY <1>0 DEF Work
  <2>4. c.at \in {"issues", "pulls", "issue", "pull"} => Writes(p)
    BY <2>2, <2>3, PayloadWrites
  <2>5. DOMAIN items \subseteq Number /\ \A m \in DOMAIN items : Item(items[m])
    BY <1>0 DEF ItemsTyped
  <2> HIDE DEF c, p
  <2>6. ASSUME NEW n \in Number, NEW q, Item(q),
               items' = [m \in DOMAIN items \cup {n} |-> IF m = n THEN q ELSE items[m]]
        PROVE  ItemsTyped'
    BY <2>5, <2>6 DEF ItemsTyped
  <2>7. ASSUME NEW n \in DOMAIN items, NEW q, Item(q), items' = [items EXCEPT ![n] = q]
        PROVE  ItemsTyped'
    BY <2>5, <2>7 DEF ItemsTyped
  <2>8. CASE c.at \in {"issues", "pulls"}
    <3> DEFINE kind == IF c.at = "issues" THEN "issue" ELSE "pull"
    <3>1. PICK n \in Number \ DOMAIN items, tip \in Sha :
            items' = [m \in DOMAIN items \cup {n} |->
                        IF m = n THEN Patched(Blank(kind, tip), p) ELSE items[m]]
      BY <2>1, <2>8, Taken
    <3>2. kind \in {"issue", "pull"}
      OBVIOUS
    <3> HIDE DEF kind
    <3>3. Item(Patched(Blank(kind, tip), p))
      BY <2>4, <2>8, <3>2, BlankItem, PatchedItem
    <3> QED
      BY <2>6, <3>1, <3>3
  <2>9. CASE c.at \in {"issue", "pull"}
    <3>1. c.n \in DOMAIN items /\ items' = [items EXCEPT ![c.n] = Patched(items[c.n], p)]
      BY <2>1, <2>9, Taken
    <3>2. Item(Patched(items[c.n], p))
      BY <2>4, <2>5, <2>9, <3>1, PatchedItem
    <3> QED
      BY <2>7, <3>1, <3>2
  <2>10. CASE c.at = "merge"
    <3>1. /\ c.n \in DOMAIN items /\ items[c.n].kind = "pull"
          /\ items' = [items EXCEPT ![c.n] = [items[c.n] EXCEPT !.status = "merged"]]
      BY <2>1, <2>10, Taken
    <3>2. Item([items[c.n] EXCEPT !.status = "merged"])
      BY <2>5, <3>1, MergedItem
    <3> QED
      BY <2>7, <3>1, <3>2
  <2>11. CASE c.at \notin {"issues", "pulls", "issue", "pull", "merge"}
    <3>1. /\ c.n \in DOMAIN items /\ Len(items[c.n].posts) < MaxPosts
          /\ items' = [items EXCEPT ![c.n] = [items[c.n] EXCEPT !.posts = Append(items[c.n].posts, p)]]
      BY <2>1, <2>11, Taken
    <3>2. Item([items[c.n] EXCEPT !.posts = Append(items[c.n].posts, p)])
      BY <2>5, <3>1, PostedItem
    <3> QED
      BY <2>7, <3>1, <3>2
  <2> QED
    BY <2>8, <2>9, <2>10, <2>11
<1> QED
  BY <1>1, <1>2

\* A name more, or less, on a list.
LEMMA Toggled ==
  ASSUME NEW N, NEW S, S \subseteq N, IsFiniteSet(S), NEW x \in N
  PROVE  SymDiff(S, {x}) \subseteq N /\ IsFiniteSet(SymDiff(S, {x}))
<1>1. SymDiff(S, {x}) \subseteq S \cup {x}
  BY DEF SymDiff
<1>2. IsFiniteSet(S \cup {x})
  BY FS_AddElement
<1> QED
  BY <1>1, <1>2, FS_Subset

\* What others make of an item is an item: one that differs in one field.
LEMMA ChangedItem ==
  ASSUME NEW item, Item(item), NEW f, NEW v,
         \/ f = "labels" /\ v \subseteq Label /\ IsFiniteSet(v)
         \/ f = "assignees" /\ v \subseteq User /\ IsFiniteSet(v)
         \/ f = "tip" /\ v \in Sha
         \/ f = "status" /\ v = "merged" /\ item.kind = "pull"
         \/ f = "status" /\ v \in {"open", "closed"}
         \/ f = "reason"
  PROVE  Item([item EXCEPT ![f] = v])
<1> DEFINE q == [item EXCEPT ![f] = v]
<1>1. DOMAIN item = {"kind", "status", "reason", "title", "body", "base", "labels", "assignees",
                     "tip", "posts"}
  BY DEF Item, Blank
<1>2. DOMAIN q = DOMAIN item /\ \A g \in DOMAIN item : q[g] = IF g = f THEN v ELSE item[g]
  BY <1>1
<1> HIDE DEF q
<1>3. q.kind = item.kind /\ q.posts = item.posts
  BY <1>1, <1>2
<1>4. q.status = item.status \/ q.status \in {"open", "closed"} \/ (q.status = "merged" /\ item.kind = "pull")
  BY <1>1, <1>2
<1>5. q.labels = item.labels \/ (q.labels \subseteq Label /\ IsFiniteSet(q.labels))
  BY <1>1, <1>2
<1>6. q.assignees = item.assignees \/ (q.assignees \subseteq User /\ IsFiniteSet(q.assignees))
  BY <1>1, <1>2
<1>7. q.tip = item.tip \/ q.tip \in Sha
  BY <1>1, <1>2
<1>8. Item(q)
  BY <1>2, <1>3, <1>4, <1>5, <1>6, <1>7 DEF Item
<1> QED
  BY <1>8 DEF q

LEMMA OthersStay ==
  ASSUME ItemsTyped, OthersMove
  PROVE  ItemsTyped'
<1>1. PICK n \in DOMAIN items :
       \/ \E l \in Label : items' = [items EXCEPT ![n].labels = SymDiff(@, {l})]
       \/ \E u \in User : items' = [items EXCEPT ![n].assignees = SymDiff(@, {u})]
       \/ items' = [items EXCEPT ![n].reason = "",
                                 ![n].status = IF @ = "open" THEN "closed" ELSE "open"]
       \/ /\ items[n].kind = "pull"
          /\ \/ \E s \in Sha : items' = [items EXCEPT ![n].tip = s]
             \/ items' = [items EXCEPT ![n].status = "merged"]
  BY DEF OthersMove
<1>2. DOMAIN items \subseteq Number /\ Item(items[n]) /\ \A m \in DOMAIN items : Item(items[m])
  BY DEF ItemsTyped
<1>3. ASSUME NEW q, Item(q), items' = [items EXCEPT ![n] = q]
      PROVE  ItemsTyped'
  BY <1>2, <1>3 DEF ItemsTyped
<1> DEFINE item == items[n]
<1>4. /\ item.labels \subseteq Label /\ IsFiniteSet(item.labels)
      /\ item.assignees \subseteq User /\ IsFiniteSet(item.assignees)
  BY <1>2 DEF Item
<1>5. CASE \E l \in Label : items' = [items EXCEPT ![n].labels = SymDiff(@, {l})]
  <2>1. PICK l \in Label : items' = [items EXCEPT ![n].labels = SymDiff(@, {l})]
    BY <1>5
  <2>2. Item([item EXCEPT !["labels"] = SymDiff(item.labels, {l})])
    BY <1>2, <1>4, Toggled, ChangedItem
  <2> QED
    BY <1>3, <2>1, <2>2
<1>6. CASE \E u \in User : items' = [items EXCEPT ![n].assignees = SymDiff(@, {u})]
  <2>1. PICK u \in User : items' = [items EXCEPT ![n].assignees = SymDiff(@, {u})]
    BY <1>6
  <2>2. Item([item EXCEPT !["assignees"] = SymDiff(item.assignees, {u})])
    BY <1>2, <1>4, Toggled, ChangedItem
  <2> QED
    BY <1>3, <2>1, <2>2
<1>7. CASE items' = [items EXCEPT ![n].reason = "",
                                  ![n].status = IF @ = "open" THEN "closed" ELSE "open"]
  <2> DEFINE q == [item EXCEPT !["reason"] = ""]
             s == IF q.status = "open" THEN "closed" ELSE "open"
  <2>1. Item(q)
    BY <1>2, ChangedItem
  <2>2. Item([q EXCEPT !["status"] = s])
    <3>1. s \in {"open", "closed"}
      OBVIOUS
    <3> HIDE DEF q, s
    <3> QED
      BY <2>1, <3>1, ChangedItem
  <2>3. items' = [items EXCEPT ![n] = [q EXCEPT !["status"] = s]]
    BY <1>7
  <2> QED
    BY <1>3, <2>2, <2>3
<1>8. CASE item.kind = "pull" /\ \E s \in Sha : items' = [items EXCEPT ![n].tip = s]
  <2>1. PICK s \in Sha : items' = [items EXCEPT ![n].tip = s]
    BY <1>8
  <2>2. Item([item EXCEPT !["tip"] = s])
    BY <1>2, ChangedItem
  <2> QED
    BY <1>3, <2>1, <2>2
<1>9. CASE item.kind = "pull" /\ items' = [items EXCEPT ![n].status = "merged"]
  <2>1. Item([item EXCEPT !["status"] = "merged"])
    BY <1>2, <1>9, ChangedItem
  <2> QED
    BY <1>3, <1>9, <2>1
<1> QED
  BY <1>1, <1>5, <1>6, <1>7, <1>8, <1>9

-----------------------------------------------------------------------------
(* A goroutine's own state.                                                *)

GoroutineStays(h) ==
  /\ pc'[h] = pc[h] /\ op'[h] = op[h] /\ next'[h] = next[h]
  /\ current'[h] = current[h] /\ seen'[h] = seen[h] /\ result'[h] = result[h]

LEMMA OneLess == \A k : \A n \in Nat : k = n + 1 => k - 1 = n
OBVIOUS

LEMMA WorkStays ==
  ASSUME NEW h, Work(h), GoroutineStays(h)
  PROVE  Work(h)'
BY DEF Work, GoroutineStays, Idle

LEMMA OthersWait ==
  ASSUME VariablesTyped, NEW h \in Handler,
         GetJSON(h) \/ SendJSON(h) \/ Reply(h) \/ \E o \in Requests : HandleOperation(h, o)
  PROVE  VariablesTyped' /\ \A k \in Handler \ {h} : GoroutineStays(k)
<1>1. CASE \E o \in Requests : HandleOperation(h, o)
  BY <1>1 DEF HandleOperation, VariablesTyped, GoroutineStays, Answer
<1>2. CASE GetJSON(h)
  BY <1>2 DEF GetJSON, VariablesTyped, GoroutineStays, Answer, Advance, Fail
<1>3. CASE SendJSON(h)
  BY <1>3 DEF SendJSON, VariablesTyped, GoroutineStays, Answer, Advance, Fail
<1>4. CASE Reply(h)
  BY <1>4 DEF Reply, VariablesTyped, GoroutineStays
<1> QED
  BY <1>1, <1>2, <1>3, <1>4

LEMMA HandleWorks ==
  ASSUME RequestsAreMade, VariablesTyped, NEW h \in Handler, Work(h),
         NEW o \in Requests, HandleOperation(h, o)
  PROVE  Work(h)'
<1>1. Shaped(o)
  BY MadeShaped DEF RequestsAreMade
<1>2. PICK S : o.calls \in Seq(S)
  BY <1>1 DEF Shaped
<1>3. Len(o.calls) \in Nat /\ DOMAIN o.calls = 1..Len(o.calls) /\ (o.calls = <<>> <=> Len(o.calls) = 0)
  BY <1>2, LenProperties, EmptySeq
<1>4. Idle(h)
  BY DEF HandleOperation, Work
<1>5. /\ op'[h] = o /\ current'[h] = NoLists /\ seen'[h] = {}
  BY <1>4 DEF HandleOperation, Idle, VariablesTyped
<1>6. Got(o, 0) = {}
  BY DEF Got
<1>7. CASE ~o.valid
  <2>1. pc'[h] = "done" /\ result'[h] = "bad_request"
    BY <1>7 DEF HandleOperation, Answer, VariablesTyped
  <2> QED
    BY <1>5, <2>1, NoListsAre DEF Work
<1>8. CASE o.valid /\ o.calls = <<>>
  <2>1. pc'[h] = "done" /\ result'[h] = "completed"
    BY <1>8 DEF HandleOperation, Answer, VariablesTyped
  <2>2. Len(o.calls) = 0
    BY <1>3, <1>8
  <2> QED
    BY <1>5, <1>6, <2>1, <2>2, NoListsAre DEF Work
<1>9. CASE o.valid /\ o.calls # <<>>
  <2>1. pc'[h] = "executing" /\ next'[h] = 1 /\ result'[h] = ""
    BY <1>4, <1>9 DEF HandleOperation, VariablesTyped, Idle
  <2>2. 1 \in DOMAIN o.calls
    BY <1>3, <1>9
  <2>3. 1 - 1 = 0
    OBVIOUS
  <2>4. seen'[h] = Got(op'[h], next'[h] - 1)
    BY <1>5, <1>6, <2>1, <2>3, Zenon
  <2>5. /\ op'[h] \in Requests /\ op'[h].valid
        /\ next'[h] \in DOMAIN op'[h].calls /\ current'[h] \in Lists /\ current'[h] = NoLists
    BY <1>5, <1>9, <2>1, <2>2, NoListsAre
  <2> QED
    BY <2>1, <2>4, <2>5 DEF Work
<1> QED
  BY <1>7, <1>8, <1>9

\* After a call: the end, or the next call.
LEMMA AdvanceWorks ==
  ASSUME RequestsAreMade, VariablesTyped, NEW h \in Handler, Work(h), pc[h] = "executing",
         UNCHANGED op, current'[h] \in Lists, Advance(h),
         seen'[h] = Got(op[h], next[h])
  PROVE  Work(h)'
<1>1. /\ Len(op[h].calls) \in Nat /\ DOMAIN op[h].calls = 1..Len(op[h].calls)
      /\ next[h] \in 1..Len(op[h].calls)
  BY CallIs
<1>2. op[h] \in Requests /\ op[h].valid /\ result[h] = "" /\ op'[h] = op[h]
  BY DEF Work
<1>3. CASE next[h] = Len(op[h].calls)
  <2>1. pc'[h] = "done" /\ result'[h] = "completed"
    BY <1>3 DEF Advance, Answer, VariablesTyped
  <2>2. seen'[h] = Got(op'[h], Len(op'[h].calls)) /\ DOMAIN op'[h].calls = 1..Len(op'[h].calls)
    BY <1>1, <1>2, <1>3
  <2> QED
    BY <2>1, <2>2 DEF Work
<1>4. CASE next[h] # Len(op[h].calls)
  <2>1. pc'[h] = "executing" /\ result'[h] = "" /\ next'[h] = next[h] + 1
    BY <1>2, <1>4 DEF Advance, VariablesTyped
  <2>2. next'[h] \in DOMAIN op'[h].calls /\ next'[h] - 1 = next[h] /\ next'[h] # 1
    <3>1. next[h] + 1 \in 1..Len(op[h].calls) /\ next[h] \in Nat /\ next[h] + 1 # 1
      BY <1>1, <1>4
    <3> QED
      BY <1>1, <1>2, <2>1, <3>1, OneLess
  <2>3. seen'[h] = Got(op'[h], next'[h] - 1)
    BY <1>2, <2>2
  <2> QED
    BY <1>2, <2>1, <2>2, <2>3 DEF Work
<1> QED
  BY <1>3, <1>4

LEMMA FailWorks ==
  ASSUME VariablesTyped, NEW h \in Handler, Fail(h), current'[h] \in Lists
  PROVE  Work(h)'
<1>1. pc'[h] = "done" /\ result'[h] = "failed"
  BY DEF Fail, Answer, VariablesTyped
<1> QED
  BY <1>1 DEF Work

LEMMA GotMore ==
  ASSUME NEW o, NEW k \in Nat \ {0}
  PROVE  Got(o, k) = Got(o, k - 1) \cup (IF o.calls[k].verb = "GET" THEN {o.calls[k].at} ELSE {})
<1>1. 1..k = 1..(k - 1) \cup {k}
  OBVIOUS
<1>2. {j \in 1..k : o.calls[j].verb = "GET"} =
        {j \in 1..(k - 1) : o.calls[j].verb = "GET"} \cup (IF o.calls[k].verb = "GET" THEN {k} ELSE {})
  BY <1>1
<1> QED
  BY <1>2 DEF Got

LEMMA GetWorks ==
  ASSUME RequestsAreMade, Inv, NEW h \in Handler, GetJSON(h)
  PROVE  Work(h)'
<1>0. ItemsTyped /\ VariablesTyped /\ Work(h) /\ pc[h] = "executing" /\ CallOf(h).verb = "GET"
  BY DEF Inv, GetJSON
<1>1. next[h] \in Nat \ {0} /\ seen[h] = Got(op[h], next[h] - 1) /\ current[h] \in Lists
  <2>1. /\ Len(op[h].calls) \in Nat /\ DOMAIN op[h].calls = 1..Len(op[h].calls)
        /\ next[h] \in 1..Len(op[h].calls)
    BY <1>0, CallIs
  <2>2. next[h] \in Nat \ {0}
    BY <2>1
  <2> QED
    BY <1>0, <2>2 DEF Work
<1>2. CASE Fail(h) /\ UNCHANGED <<seen, current>>
  BY <1>0, <1>1, <1>2, FailWorks
<1>3. CASE /\ Exists(CallOf(h))
           /\ seen' = [seen EXCEPT ![h] = @ \cup {CallOf(h).at}]
           /\ current' = IF CallOf(h).at = "issue"
                         THEN LET item == items[CallOf(h).n]
                              IN  [current EXCEPT ![h] = [labels |-> SetToSeq(item.labels),
                                                          assignees |-> SetToSeq(item.assignees)]]
                         ELSE current
           /\ Advance(h)
  <2>1. seen'[h] = Got(op[h], next[h])
    <3>1. seen'[h] = seen[h] \cup {CallOf(h).at}
      BY <1>0, <1>3 DEF VariablesTyped
    <3>2. Got(op[h], next[h]) = Got(op[h], next[h] - 1) \cup {CallOf(h).at}
      BY <1>0, <1>1, GotMore DEF CallOf
    <3> QED
      BY <1>1, <3>1, <3>2
  <2>2. current'[h] \in Lists
    <3>1. CASE CallOf(h).at = "issue"
      <4> DEFINE item == items[CallOf(h).n]
      <4>1. CallOf(h).n \in DOMAIN items
        BY <1>3, <3>1 DEF Exists
      <4>2. Item(item)
        BY <1>0, <4>1 DEF ItemsTyped
      <4> HIDE DEF item
      <4>3. SetToSeq(item.labels) \in Seq(Label) /\ SetToSeq(item.assignees) \in Seq(User)
        BY <4>2, ListOf DEF Item
      <4>4. current'[h] = [labels |-> SetToSeq(item.labels), assignees |-> SetToSeq(item.assignees)]
        BY <1>0, <1>3, <3>1 DEF VariablesTyped, item
      <4> QED
        BY <4>3, <4>4 DEF Lists
    <3>2. CASE CallOf(h).at # "issue"
      BY <1>1, <1>3, <3>2
    <3> QED
      BY <3>1, <3>2
  <2> QED
    BY <1>0, <1>3, <2>1, <2>2, AdvanceWorks DEF GetJSON
<1> QED
  BY <1>2, <1>3 DEF GetJSON

LEMMA SendWorks ==
  ASSUME RequestsAreMade, Inv, NEW h \in Handler, SendJSON(h)
  PROVE  Work(h)'
<1>0. VariablesTyped /\ Work(h) /\ pc[h] = "executing" /\ CallOf(h).verb # "GET"
  BY DEF Inv, SendJSON
<1>1. next[h] \in Nat \ {0} /\ seen[h] = Got(op[h], next[h] - 1) /\ current[h] \in Lists
  <2>1. /\ Len(op[h].calls) \in Nat /\ DOMAIN op[h].calls = 1..Len(op[h].calls)
        /\ next[h] \in 1..Len(op[h].calls)
    BY <1>0, CallIs
  <2>2. next[h] \in Nat \ {0}
    BY <2>1
  <2> QED
    BY <1>0, <2>2 DEF Work
<1>2. UNCHANGED <<op, current, seen>> /\ (Fail(h) \/ Advance(h))
  BY DEF SendJSON
<1>3. current'[h] \in Lists
  BY <1>1, <1>2
<1>4. seen'[h] = Got(op[h], next[h])
  <2>1. Got(op[h], next[h]) =
          Got(op[h], next[h] - 1) \cup (IF CallOf(h).verb = "GET" THEN {CallOf(h).at} ELSE {})
    BY <1>1, GotMore DEF CallOf
  <2> QED
    BY <1>0, <1>1, <1>2, <2>1
<1> QED
  BY <1>0, <1>2, <1>3, <1>4, FailWorks, AdvanceWorks

LEMMA ReplyWorks ==
  ASSUME VariablesTyped, NEW h \in Handler, Reply(h)
  PROVE  Work(h)'
<1>1. /\ pc'[h] = "idle" /\ op'[h] = BadRequest /\ next'[h] = 0 /\ current'[h] = NoLists
      /\ seen'[h] = {} /\ result'[h] = ""
  BY DEF Reply, VariablesTyped
<1> QED
  BY <1>1, NoListsAre DEF Work, Idle

LEMMA InvStarts == Init => Inv
<1> SUFFICES ASSUME Init PROVE Inv
  OBVIOUS
<1>1. ItemsTyped
  BY DEF Init, ItemsTyped
<1>2. VariablesTyped
  BY DEF Init, VariablesTyped
<1>3. ASSUME NEW h \in Handler PROVE Work(h)
  BY NoListsAre DEF Init, Work, Idle
<1> QED
  BY <1>1, <1>2, <1>3 DEF Inv

LEMMA InvSteps ==
  ASSUME RequestsAreMade, Inv, [Next]_vars
  PROVE  Inv'
<1>0. ItemsTyped /\ VariablesTyped /\ \A h \in Handler : Work(h)
  BY DEF Inv
<1>1. CASE UNCHANGED vars
  <2>1. ItemsTyped' /\ VariablesTyped'
    BY <1>0, <1>1 DEF ItemsTyped, VariablesTyped, vars, workVars
  <2>2. \A h \in Handler : Work(h)'
    BY <1>0, <1>1, WorkStays DEF vars, workVars, GoroutineStays
  <2> QED
    BY <2>1, <2>2 DEF Inv
<1>2. CASE OthersMove
  <2>1. ItemsTyped' /\ VariablesTyped'
    BY <1>0, <1>2, OthersStay DEF OthersMove, VariablesTyped, workVars
  <2>2. \A h \in Handler : Work(h)'
    BY <1>0, <1>2, WorkStays DEF OthersMove, workVars, GoroutineStays
  <2> QED
    BY <2>1, <2>2 DEF Inv
<1>3. ASSUME NEW h \in Handler,
             GetJSON(h) \/ SendJSON(h) \/ Reply(h) \/ \E o \in Requests : HandleOperation(h, o)
      PROVE  Inv'
  <2>1. VariablesTyped' /\ \A k \in Handler \ {h} : Work(k)'
    BY <1>0, <1>3, OthersWait, WorkStays
  <2>2. Work(h)'
    BY <1>0, <1>3, HandleWorks, GetWorks, SendWorks, ReplyWorks
  <2>3. ItemsTyped'
    <3>1. CASE SendJSON(h)
      BY <3>1, ItemsStay
    <3>2. CASE UNCHANGED items
      BY <1>0, <3>2 DEF ItemsTyped
    <3> QED
      BY <1>3, <3>1, <3>2 DEF GetJSON, Reply, HandleOperation
  <2> QED
    BY <2>1, <2>2, <2>3 DEF Inv
<1> QED
  BY <1>1, <1>2, <1>3 DEF Next

LEMMA InvHolds ==
  ASSUME RequestsAreMade
  PROVE  Spec => []Inv
<1>1. Init => Inv
  BY InvStarts
<1>2. Inv /\ [Next]_vars => Inv'
  BY InvSteps
<1> QED
  BY <1>1, <1>2, PTL DEF Spec

\* Goroutines and items are typed: a call is made only while an operation is
\* in execution that was let through, and GitHub holds no more than it can.
THEOREM RequestsAreServed ==
  ASSUME RequestsAreMade
  PROVE  Spec => []TypeOK
<1>1. Inv => TypeOK
  <2> SUFFICES ASSUME Inv PROVE TypeOK
    OBVIOUS
  <2>1. /\ DOMAIN items \subseteq Number
        /\ \A n \in DOMAIN items : Item(items[n])
    BY DEF Inv, ItemsTyped
  <2>2. ASSUME NEW h \in Handler
        PROVE  CASE pc[h] = "idle" -> Idle(h)
                 [] pc[h] = "executing" -> /\ op[h] \in Requests /\ op[h].valid /\ result[h] = ""
                                           /\ next[h] \in DOMAIN op[h].calls
                 [] pc[h] = "done" -> result[h] \in {"completed", "failed", "bad_request"}
                 [] OTHER -> FALSE
    BY DEF Inv, Work
  <2>3. ASSUME NEW n \in DOMAIN items
        PROVE  /\ DOMAIN items[n] = DOMAIN Blank("", "")
               /\ items[n].kind \in {"issue", "pull"}
               /\ items[n].status \in {"open", "closed"}
                                        \cup (IF items[n].kind = "pull" THEN {"merged"} ELSE {})
               /\ items[n].labels \subseteq Label /\ items[n].assignees \subseteq User
               /\ items[n].tip \in Sha /\ Len(items[n].posts) <= MaxPosts
    BY <2>1, Zenon DEF Item
  <2> QED
    BY <2>1, <2>2, <2>3, Zenon DEF TypeOK
<1> QED
  BY <1>1, InvHolds, PTL

\* A completed operation has read every part it was to read, however many
\* calls that took and whatever happened to the item between them.
THEOREM AnswersAreWhole ==
  ASSUME RequestsAreMade
  PROVE  Spec => []WholeAnswers
<1>1. Inv => WholeAnswers
  <2> SUFFICES ASSUME Inv, NEW h \in Handler, result[h] = "completed"
               PROVE  seen[h] = {c.at : c \in {d \in ToSet(op[h].calls) : d.verb = "GET"}}
    BY DEF WholeAnswers
  <2> DEFINE o == op[h]
  <2>1. seen[h] = Got(o, Len(o.calls)) /\ DOMAIN o.calls = 1..Len(o.calls)
    BY DEF Inv, Work
  <2> HIDE DEF o
  <2>2. Got(o, Len(o.calls)) = {c.at : c \in {d \in ToSet(o.calls) : d.verb = "GET"}}
    BY <2>1 DEF Got, ToSet
  <2> QED
    BY <2>1, <2>2 DEF o
<1> QED
  BY <1>1, InvHolds, PTL

-----------------------------------------------------------------------------
(* What an operation does to the items.                                    *)

\* A step in which a goroutine makes a call is that goroutine's step.
LEMMA WorkingStep ==
  ASSUME Inv, [Next]_vars, NEW h \in Handler, Works(h)
  PROVE  GetJSON(h) \/ SendJSON(h)
<1>0. VariablesTyped /\ pc[h] = "executing" /\ (next'[h] # next[h] \/ pc'[h] # pc[h])
  BY DEF Inv, Works
<1>1. CASE UNCHANGED vars \/ OthersMove
  BY <1>0, <1>1 DEF OthersMove, vars, workVars
<1>2. ASSUME NEW k \in Handler,
             GetJSON(k) \/ SendJSON(k) \/ Reply(k) \/ \E o \in Requests : HandleOperation(k, o)
      PROVE  GetJSON(h) \/ SendJSON(h)
  <2>1. k = h
    BY <1>0, <1>2, OthersWait DEF GoroutineStays
  <2> QED
    BY <1>0, <1>2, <2>1 DEF Reply, HandleOperation
<1> QED
  BY <1>1, <1>2 DEF Next

\* The call that changes the items, and the right that was approved for it.
LEMMA WritingStep ==
  ASSUME RequestsAreMade, Inv, [Next]_vars, NEW h \in Handler, Works(h),
         items' # items \/ (CallOf(h).verb = "PATCH" /\ result'[h] = "completed")
  PROVE  LET c == CallOf(h)
         IN  /\ c.add \in Lists /\ c.remove \in Lists /\ current[h] \in Lists
             /\ c.verb # "GET" /\ \E r : op[h].needs = {r} /\ Sends(r, c)
             /\ c.at \in {"issues", "pulls"} => current[h] = NoLists
             /\ Exists(c) /\ items' \in Outcomes(c, Payload(c, current[h]))
             /\ \A n \in DOMAIN items : Item(items[n])
<1> DEFINE c == CallOf(h)
<1>0. VariablesTyped /\ Work(h) /\ ItemsTyped
  BY DEF Inv
<1>1. SendJSON(h)
  BY WorkingStep DEF GetJSON
<1>2. pc[h] = "executing" /\ c.verb # "GET"
  BY <1>1 DEF SendJSON
<1>3. Exists(c) /\ items' \in Outcomes(c, Payload(c, current[h]))
  <2>1. CASE items' # items
    BY <1>1, <2>1, SentIs
  <2>2. CASE result'[h] = "completed"
    <3>1. ~Fail(h)
      BY <1>0, <2>2 DEF Fail, Answer, VariablesTyped
    <3> QED
      BY <1>1, <3>1 DEF SendJSON
  <2> QED
    BY <2>1, <2>2
<1>4. c.add \in Lists /\ c.remove \in Lists /\ \E r : op[h].needs = {r} /\ Sends(r, c)
  BY <1>0, <1>2, CallIs
<1>5. current[h] \in Lists /\ \A n \in DOMAIN items : Item(items[n])
  BY <1>0 DEF Work, ItemsTyped
<1>6. c.at \in {"issues", "pulls"} => current[h] = NoLists
  BY <1>0, <1>2, CallIs DEF Work
<1> QED
  BY <1>2, <1>3, <1>4, <1>5, <1>6

LEMMA FieldsOfItem ==
  ASSUME NEW item, Item(item)
  PROVE  DOMAIN item = {"kind", "status", "reason", "title", "body", "base", "labels", "assignees",
                        "tip", "posts"}
BY DEF Item, Blank

LEMMA EditIsExact ==
  ASSUME RequestsAreMade, Inv, [Next]_vars, NEW h \in Handler, Wrote(h),
         NEW l \in Edits(CallOf(h)), ToSet(current[h][l]) = items[CallOf(h).n][l]
  PROVE  EditsExactly(h, l)
<1> DEFINE c == CallOf(h)
           p == Payload(c, current[h])
<1>1. /\ c.add \in Lists /\ c.remove \in Lists /\ current[h] \in Lists
      /\ c.verb = "PATCH" /\ \E r : Sends(r, c)
      /\ Exists(c) /\ items' \in Outcomes(c, p)
      /\ \A n \in DOMAIN items : Item(items[n])
  BY WritingStep DEF Wrote
<1>2. l \in {"labels", "assignees"} /\ l \in Edits(c)
  BY DEF Edits
<1>3. c.at \in {"issue", "pull"} /\ l \notin DOMAIN c.fields
  BY <1>1, <1>2 DEF Sends
<1>4. l \in DOMAIN p /\ p[l] = (ToSet(current[h][l]) \ ToSet(c.remove[l])) \cup ToSet(c.add[l])
  <2>1. /\ DOMAIN p = DOMAIN c.fields \cup Edits(c)
        /\ \A x \in Edits(c) \ DOMAIN c.fields :
             p[x] = (ToSet(current[h][x]) \ ToSet(c.remove[x])) \cup ToSet(c.add[x])
    BY <1>1, PayloadIs
  <2> QED
    BY <1>2, <1>3, <2>1
<1> HIDE DEF c, p
<1>5. c.n \in DOMAIN items /\ items' = [items EXCEPT ![c.n] = Patched(items[c.n], p)]
  BY <1>1, <1>3, Taken
<1>6. l \in DOMAIN items[c.n]
  BY <1>1, <1>2, <1>5, FieldsOfItem
<1>7. items'[c.n][l] = p[l]
  BY <1>4, <1>5, <1>6 DEF Patched
<1> QED
  BY <1>4, <1>7 DEF EditsExactly, c

LEMMA MergesWhatIsPinned ==
  ASSUME RequestsAreMade, Inv, [Next]_vars, NEW h \in Handler, Works(h), items' # items,
         NEW r \in op[h].needs, NEW s \in Sha, r.action = "pull.merge",
         <<"sha", s>> \in ToSet(r.parts)
  PROVE  items[r.on.n].tip = s
<1> DEFINE c == CallOf(h)
           p == Payload(c, current[h])
<1>1. /\ c.add \in Lists /\ c.remove \in Lists /\ current[h] \in Lists
      /\ Exists(c) /\ items' \in Outcomes(c, p)
      /\ \E x : op[h].needs = {x} /\ Sends(x, c)
  BY WritingStep
<1>2. Sends(r, c)
  BY <1>1
<1>3. c.at = "merge" /\ r.on.n = c.n /\ "sha" \in DOMAIN c.fields /\ c.fields.sha = s
  BY <1>2 DEF Sends, Turned, Posted
<1>4. "sha" \in DOMAIN p /\ p.sha = s
  <2>1. /\ DOMAIN p = DOMAIN c.fields \cup Edits(c)
        /\ \A f \in DOMAIN c.fields : p[f] = c.fields[f]
    BY <1>1, PayloadIs
  <2> QED
    BY <1>3, <2>1
<1> HIDE DEF c, p
<1>5. p.sha = items[c.n].tip
  BY <1>1, <1>3, <1>4, Taken
<1> QED
  BY <1>3, <1>4, <1>5

\* What a call makes of the items is what the right lets through.
LEMMA StatedChange ==
  ASSUME NEW h, NEW c, c = CallOf(h), NEW read \in Lists, read = current[h], c.add \in Lists, c.remove \in Lists, NEW r, Sends(r, c),
         Exists(c), items' \in Outcomes(c, Payload(c, read)),
         \A n \in DOMAIN items : Item(items[n]),
         NEW n \in DOMAIN items, NEW f \in DOMAIN items[n], items'[n][f] # items[n][f]
  PROVE  LetsChange(h, r, n, f)
<1> DEFINE p == Payload(c, read)
<1>1. /\ DOMAIN p = DOMAIN c.fields \cup Edits(c) /\ \A g \in DOMAIN c.fields : p[g] = c.fields[g]
      /\ Edits(c) \subseteq {"labels", "assignees"}
      /\ \A l \in Edits(c) \ DOMAIN c.fields :
           p[l] = (ToSet(read[l]) \ ToSet(c.remove[l])) \cup ToSet(c.add[l])
  <2>1. Edits(c) \subseteq {"labels", "assignees"}
    BY DEF Edits
  <2> HIDE DEF p
  <2>2. \A g \in DOMAIN c.fields : p[g] = c.fields[g]
    BY DEF p, Payload
  <2>3. DOMAIN p = DOMAIN c.fields \cup Edits(c)
    BY DEF p, Payload
  <2>4. ASSUME NEW l \in Edits(c) \ DOMAIN c.fields
        PROVE  p[l] = (ToSet(read[l]) \ ToSet(c.remove[l])) \cup ToSet(c.add[l])
    <3>1. p[l] = ToSet(ApplyAddRemove(read[l], c.add[l], c.remove[l]))
      BY DEF p, Payload
    <3>2. l \in {"labels", "assignees"}
      BY <2>1
    <3> DEFINE Names == IF l = "labels" THEN Label ELSE User
    <3>3. read[l] \in Seq(Names) /\ c.add[l] \in Seq(Names)
      BY <3>2 DEF Lists
    <3> HIDE DEF Names
    <3> QED
      BY <3>1, <3>3, ChangedList
  <2> QED
    BY <2>1, <2>2, <2>3, <2>4
<1>2. f \in {"kind", "status", "reason", "title", "body", "base", "labels", "assignees",
             "tip", "posts"} /\ DOMAIN items[n] = {"kind", "status", "reason", "title", "body", "base",
             "labels", "assignees", "tip", "posts"}
  BY FieldsOfItem
<1>3. r.on.n = c.n
  BY DEF Sends
<1> HIDE DEF p
<1>4. CASE c.at \in {"issues", "pulls"}
  <2>1. items'[n] = items[n]
    BY <1>4, Taken DEF p
  <2> QED
    BY <2>1
<1>5. CASE c.at \in {"issue", "pull"}
  <2>1. c.n \in DOMAIN items /\ items' = [items EXCEPT ![c.n] = Patched(items[c.n], p)]
    BY <1>5, Taken DEF p
  <2>2. n = c.n /\ items'[n] = Patched(items[n], p)
    BY <2>1
  <2>3. /\ f \in DOMAIN p \/ (f = "reason" /\ "status" \in DOMAIN p)
        /\ f \in DOMAIN p => items'[n][f] = p[f]
        /\ "status" \in DOMAIN p => /\ items'[n]["status"] = p["status"]
                                    /\ items'[n]["reason"] = IF "reason" \in DOMAIN p THEN p["reason"] ELSE ""
    BY <1>2, <2>2 DEF Patched
  <2>4. CASE r.action \in {"issue.edit", "pull.edit"}
    <3>1. /\ DOMAIN c.fields \subseteq {"title", "body", "base"}
          /\ \A g \in DOMAIN c.fields : <<g, c.fields[g]>> \in ToSet(r.parts)
          /\ Edits(c) # {} => r.action = "issue.edit"
          /\ \A l \in Edits(c) : ListParts(c, l) \subseteq ToSet(r.parts)
      BY <1>5, <2>4 DEF Sends, Turned
    <3>2. f \in DOMAIN p
      BY <1>1, <2>3, <3>1
    <3>3. CASE f \in DOMAIN c.fields
      <4>1. <<f, items'[n][f]>> \in ToSet(r.parts) /\ f \notin {"labels", "assignees"}
        BY <1>1, <2>3, <3>1, <3>2, <3>3
      <4> QED
        BY <1>3, <2>2, <2>4, <4>1 DEF LetsChange
    <3>4. CASE f \in Edits(c)
      <4>1. /\ r.action = "issue.edit" /\ f \in {"labels", "assignees"}
            /\ ListParts(c, f) \subseteq ToSet(r.parts) /\ f \notin DOMAIN c.fields
        BY <1>1, <3>1, <3>4
      <4>2. items'[n][f] = (ToSet(current[h][f]) \ ToSet(c.remove[f])) \cup ToSet(c.add[f])
        BY <1>1, <2>3, <3>2, <3>4, <4>1
      <4> QED
        BY <1>3, <2>2, <4>1, <4>2 DEF LetsChange
    <3> QED
      BY <1>1, <3>2, <3>3, <3>4
  <2>5. CASE r.action \notin {"issue.edit", "pull.edit"}
    <3>1. Edits(c) = {} /\ Turned(r.action, c.fields)
      BY <1>5, <2>5 DEF Sends
    <3>2. /\ f \in {"status", "reason"} /\ items'[n].status = c.fields.status
          /\ items'[n].reason = IF "reason" \in DOMAIN c.fields THEN c.fields.reason ELSE ""
      BY <1>1, <2>3, <3>1 DEF Turned
    <3>3. \/ /\ r.action = "issue.close" /\ items'[n].status = "closed"
             /\ items'[n].reason \in {"", "completed", "not_planned"}
          \/ r.action = "pull.close" /\ items'[n].status = "closed" /\ items'[n].reason = ""
          \/ /\ r.action \in {"issue.reopen", "pull.reopen"}
             /\ items'[n].status = "open" /\ items'[n].reason = ""
      BY <3>1, <3>2 DEF Turned
    <3> QED
      BY <1>3, <2>2, <3>2, <3>3 DEF LetsChange
  <2> QED
    BY <2>4, <2>5
<1>6. CASE c.at = "merge"
  <2>1. /\ c.n \in DOMAIN items
        /\ items' = [items EXCEPT ![c.n] = [items[c.n] EXCEPT !.status = "merged"]]
    BY <1>6, Taken DEF p
  <2>2. n = c.n /\ f = "status" /\ items'[n].status = "merged"
    BY <1>2, <2>1
  <2>3. r.action = "pull.merge"
    BY <1>6 DEF Sends
  <2> QED
    BY <1>3, <2>2, <2>3 DEF LetsChange
<1>7. CASE c.at \notin {"issues", "pulls", "issue", "pull", "merge"}
  <2>1. /\ c.n \in DOMAIN items /\ Len(items[c.n].posts) < MaxPosts
        /\ items' = [items EXCEPT ![c.n] = [items[c.n] EXCEPT !.posts = Append(items[c.n].posts, p)]]
    BY <1>7, Taken DEF p
  <2>2. n = c.n /\ f = "posts" /\ items'[n].posts = Append(items[n].posts, p)
    BY <1>2, <2>1
  <2>3. Last(items'[n].posts) = p
    BY <2>1, <2>2, PostedItem
  <2>4. Edits(c) = {} /\ Posted(r.action, c.fields, r.parts)
    BY <1>7 DEF Sends
  <2>5. /\ DOMAIN p = DOMAIN c.fields /\ \A k : Sent(p, k) = Sent(c.fields, k)
        /\ "body" \in DOMAIN p => p.body = c.fields.body
    BY <1>1, <2>4 DEF Sent
  <2>6. Posted(r.action, p, r.parts)
    BY <2>4, <2>5 DEF Posted
  <2> HIDE DEF p
  <2> QED
    BY <1>3, <2>2, <2>3, <2>6 DEF LetsChange, Posted
<1> QED
  BY <1>4, <1>5, <1>6, <1>7

LEMMA StatedCreation ==
  ASSUME NEW h, NEW c, c = CallOf(h), c.add \in Lists, c.remove \in Lists, NEW r, Sends(r, c),
         c.at \in {"issues", "pulls"} => current[h] = NoLists,
         Exists(c), items' \in Outcomes(c, Payload(c, current[h])),
         NEW n \in DOMAIN items', n \notin DOMAIN items
  PROVE  LetsCreate(h, r, n)
<1> DEFINE p == Payload(c, current[h])
           kind == IF c.at = "issues" THEN "issue" ELSE "pull"
           new == items'[n]
<1>1. c.at \in {"issues", "pulls"}
  BY Taken
<1>2. /\ c.remove = NoLists /\ Opened(r.action, c.fields, c.add, r.parts)
      /\ r.action = IF kind = "issue" THEN "issue.create" ELSE "pull.create"
  BY <1>1 DEF Sends
<1>3. DOMAIN c.fields \subseteq {"title", "body", "head", "base", "draft"}
  BY <1>2 DEF Opened
<1>4. current[h] = NoLists /\ current[h] \in Lists
  BY <1>1, NoListsAre
<1>5. /\ DOMAIN p = DOMAIN c.fields \cup Edits(c) /\ \A g \in DOMAIN c.fields : p[g] = c.fields[g]
      /\ \A l \in Edits(c) \ DOMAIN c.fields :
           p[l] = (ToSet(current[h][l]) \ ToSet(c.remove[l])) \cup ToSet(c.add[l])
  BY <1>4, PayloadIs
<1>6. Edits(c) = {l \in {"labels", "assignees"} : c.add[l] # <<>>}
  BY <1>2 DEF Edits, NoLists
<1> HIDE DEF p
<1>7. ASSUME NEW l \in Edits(c) PROVE p[l] = ToSet(c.add[l])
  <2>1. l \in {"labels", "assignees"}
    BY <1>6
  <2>2. NoLists[l] = <<>>
    BY <2>1 DEF NoLists
  <2>3. ToSet(current[h][l]) = {} /\ l \notin DOMAIN c.fields
    BY <1>3, <1>4, <2>1, <2>2, EmptyIs
  <2>4. p[l] = (ToSet(current[h][l]) \ ToSet(c.remove[l])) \cup ToSet(c.add[l])
    BY <1>5, <2>3
  <2> QED
    BY <2>3, <2>4
<1>8. PICK tip \in Sha : new = Patched(Blank(kind, tip), p)
  <2>1. items' \in Outcomes(c, p)
    BY DEF p
  <2>2. items' \in Created(kind, p)
    BY <1>1, <2>1 DEF Outcomes
  <2> HIDE DEF kind
  <2> QED
    BY <2>2, CreatedItem
<1> DEFINE b == Blank(kind, tip)
<1>9. /\ DOMAIN b = {"kind", "status", "reason", "title", "body", "base", "labels", "assignees",
                    "tip", "posts"}
      /\ b["kind"] = kind /\ b["title"] = "" /\ b["body"] = "" /\ b["base"] = ""
      /\ b["labels"] = {} /\ b["assignees"] = {}
  BY DEF Blank
<1> HIDE DEF b, new
<1>10. \A f \in DOMAIN b \ {"reason"} : new[f] = IF f \in DOMAIN p THEN p[f] ELSE b[f]
  BY <1>8 DEF Patched, b
<1>11. new.kind = kind
  BY <1>3, <1>5, <1>6, <1>9, <1>10
<1>12. \A f \in {"title", "body", "base"} : new[f] = Sent(c.fields, f)
  <2> SUFFICES ASSUME NEW f \in {"title", "body", "base"} PROVE new[f] = Sent(c.fields, f)
    OBVIOUS
  <2>1. f \notin Edits(c) /\ f \in DOMAIN b \ {"reason"} /\ b[f] = ""
    BY <1>6, <1>9
  <2>2. new[f] = IF f \in DOMAIN p THEN p[f] ELSE b[f]
    BY <1>10, <2>1
  <2> QED
    BY <1>5, <2>1, <2>2 DEF Sent
<1>13. \A l \in {"labels", "assignees"} : new[l] = ToSet(c.add[l])
  <2> SUFFICES ASSUME NEW l \in {"labels", "assignees"} PROVE new[l] = ToSet(c.add[l])
    OBVIOUS
  <2>1. l \notin DOMAIN c.fields /\ l \in DOMAIN b \ {"reason"} /\ b[l] = {}
    BY <1>3, <1>9
  <2>2. new[l] = IF l \in DOMAIN p THEN p[l] ELSE b[l]
    BY <1>10, <2>1
  <2>3. CASE l \in Edits(c)
    BY <1>5, <1>7, <2>2, <2>3
  <2>4. CASE l \notin Edits(c)
    <3>1. c.add[l] = <<>> /\ l \notin DOMAIN p
      BY <1>5, <1>6, <2>1, <2>4
    <3> QED
      BY <2>1, <2>2, <3>1, EmptyIs
  <2> QED
    BY <2>3, <2>4
<1>14. CASE r.action = "issue.create"
  <2>1. kind = "issue"
    BY <1>2, <1>14
  <2>2. r.parts = (<<<<new.title>>, <<new.body>>>> \o Each(c.add.labels)) \o Each(c.add.assignees)
    BY <1>2, <1>12, <1>14 DEF Opened
  <2> QED
    BY <1>11, <1>13, <1>14, <2>1, <2>2 DEF LetsCreate, new
<1>15. CASE r.action = "pull.create"
  <2>1. kind = "pull"
    BY <1>2, <1>15
  <2>2. /\ r.parts = Each(<<new.title, new.body, Sent(c.fields, "head"), new.base,
                           Sent(c.fields, "draft")>>)
        /\ c.add = NoLists
    BY <1>2, <1>12, <1>15 DEF Opened
  <2>3. new.labels = {} /\ new.assignees = {}
    BY <1>13, <2>2, EmptyIs DEF NoLists
  <2> QED
    BY <1>11, <1>15, <2>1, <2>2, <2>3 DEF LetsCreate, new
<1> QED
  BY <1>2, <1>14, <1>15

\* Whatever any call of an operation makes of an issue or a pull request is
\* what the one right says that was approved for the operation, value by
\* value, but for the reason of a close; an operation that was approved to
\* read writes nothing.
THEOREM WritesAreStated ==
  ASSUME RequestsAreMade
  PROVE  Spec => ChangesAreStated
<1> DEFINE Stated ==
             \A h \in Handler : Works(h) =>
               \A n \in DOMAIN items' :
                 IF n \in DOMAIN items
                 THEN \A f \in DOMAIN items[n] : items'[n][f] # items[n][f] =>
                        \E r \in op[h].needs : LetsChange(h, r, n, f)
                 ELSE \E r \in op[h].needs : LetsCreate(h, r, n)
<1>1. Inv /\ [Next]_vars => [Stated]_vars
  <2> SUFFICES ASSUME Inv, [Next]_vars, NEW h \in Handler, Works(h), NEW n \in DOMAIN items'
               PROVE  IF n \in DOMAIN items
                      THEN \A f \in DOMAIN items[n] : items'[n][f] # items[n][f] =>
                             \E r \in op[h].needs : LetsChange(h, r, n, f)
                      ELSE \E r \in op[h].needs : LetsCreate(h, r, n)
    OBVIOUS
  <2>1. CASE items' = items
    BY <2>1
  <2>2. CASE items' # items
    <3> DEFINE c == CallOf(h)
    <3>1. /\ c.add \in Lists /\ c.remove \in Lists /\ current[h] \in Lists
          /\ \E r : op[h].needs = {r} /\ Sends(r, c)
          /\ c.at \in {"issues", "pulls"} => current[h] = NoLists
          /\ Exists(c) /\ items' \in Outcomes(c, Payload(c, current[h]))
          /\ \A m \in DOMAIN items : Item(items[m])
      BY <2>2, WritingStep
    <3>0. c = CallOf(h)
      OBVIOUS
    <3> HIDE DEF c
    <3>2. PICK r \in op[h].needs : Sends(r, c)
      BY <3>1
    <3>3. ASSUME NEW f \in DOMAIN items[n], n \in DOMAIN items, items'[n][f] # items[n][f]
          PROVE  LetsChange(h, r, n, f)
      BY <3>0, <3>1, <3>2, <3>3, StatedChange
    <3>4. ASSUME n \notin DOMAIN items PROVE LetsCreate(h, r, n)
      BY <3>0, <3>1, <3>2, <3>4, StatedCreation
    <3> QED
      BY <3>3, <3>4
  <2> QED
    BY <2>1, <2>2
<1> QED
  BY <1>1, InvHolds, PTL DEF Spec, ChangesAreStated

\* A merge that was approved for one head merges no other, whatever is pushed
\* in the meantime.
THEOREM PinnedHeadIsMerged ==
  ASSUME RequestsAreMade
  PROVE  Spec => MergesApprovedHead
<1> DEFINE Pinned ==
             \A h \in Handler : Works(h) /\ items' # items =>
               \A r \in op[h].needs : \A s \in Sha :
                 r.action = "pull.merge" /\ <<"sha", s>> \in ToSet(r.parts)
                 => items[r.on.n].tip = s
<1>1. Inv /\ [Next]_vars => [Pinned]_vars
  BY MergesWhatIsPinned
<1> QED
  BY <1>1, InvHolds, PTL DEF Spec, MergesApprovedHead

\* Writing a list back that nobody changed since it was read makes exactly
\* the edit that was asked for, whatever the names in it.
THEOREM UndisturbedEditsAreExact ==
  ASSUME RequestsAreMade
  PROVE  Spec => UndisturbedEditIsExact
<1> DEFINE Exact ==
             \A h \in Handler : Wrote(h) =>
               \A l \in Edits(CallOf(h)) :
                 ToSet(current[h][l]) = items[CallOf(h).n][l] => EditsExactly(h, l)
<1>1. Inv /\ [Next]_vars => [Exact]_vars
  BY EditIsExact
<1> QED
  BY <1>1, InvHolds, PTL DEF Spec, UndisturbedEditIsExact

-----------------------------------------------------------------------------
(* What is approved.                                                       *)

Actions(o) == {r.action : r \in o.needs}

\* An operation that needs one right.
Asks(o, action, on, parts, calls) ==
  \E valid : o = Operation(valid, {Right(action, on, parts)}, calls)

AsksFor(o, action) == \E on, parts, calls : Asks(o, action, on, parts, calls)

LEMMA OneRight ==
  ASSUME NEW o, NEW action, NEW on, NEW parts, NEW calls,
         Asks(o, action, on, parts, calls), o.valid
  PROVE  /\ Actions(o) = {action} /\ o.calls = calls
         /\ \A r \in o.needs : r.on = on /\ r.parts = parts
         /\ o.needs # {}
<1> DEFINE r == Right(action, on, parts)
<1>1. PICK valid : o = Operation(valid, {r}, calls)
  BY Zenon DEF Asks
<1>2. r.action = action /\ r.on = on /\ r.parts = parts
  BY DEF Right
<1> HIDE DEF r
<1>3. o.needs = {r} /\ o.calls = calls
  BY <1>1 DEF Operation, BadRequest
<1> QED
  BY <1>2, <1>3 DEF Actions

LEMMA OneAction ==
  ASSUME NEW o, NEW action, AsksFor(o, action), o.valid
  PROVE  Actions(o) = {action}
<1>1. PICK on, parts, calls : Asks(o, action, on, parts, calls)
  BY Zenon DEF AsksFor
<1> QED
  BY <1>1, OneRight

LEMMA SameRight ==
  ASSUME NEW o, NEW action, NEW on, NEW parts, NEW calls,
         Asks(o, action, on, parts, calls), o.valid,
         NEW o2, NEW action2, NEW on2, NEW parts2, NEW calls2,
         Asks(o2, action2, on2, parts2, calls2), o2.valid,
         o.needs = o2.needs
  PROVE  on = on2 /\ parts = parts2 /\ o.calls = calls /\ o2.calls = calls2
<1>1. /\ o.calls = calls /\ o.needs # {}
      /\ \A r \in o.needs : r.on = on /\ r.parts = parts
  BY OneRight
<1>2. /\ o2.calls = calls2
      /\ \A r \in o2.needs : r.on = on2 /\ r.parts = parts2
  BY OneRight
<1> QED
  BY <1>1, <1>2

LEMMA ReadersAsk ==
  /\ Asks(Clone, "repo.clone", OnRepo, <<>>, <<>>)
  /\ Asks(Push, "repo.push", OnRepo, <<>>, <<>>)
  /\ Asks(IssueList, "issue.list", OnRepo, <<>>, <<Get("issues", 0)>>)
  /\ Asks(PullList, "pull.list", OnRepo, <<>>, <<Get("pulls", 0)>>)
  /\ \A n : Asks(PullDiff(n), "pull.diff", OnPull(n), <<>>, <<Get("diff", n)>>)
BY Zenon DEF Asks, Clone, Push, IssueList, PullList, PullDiff

LEMMA PostersAsk ==
  ASSUME NEW n, NEW body
  PROVE  /\ Asks(IssueComment(n, body), "issue.comment", OnIssue(n), <<<<body>>>>,
                 <<Post("comments", n, [body |-> body])>>)
         /\ Asks(PullComment(n, body), "pull.comment", OnPull(n), <<<<body>>>>,
                 <<Post("comments", n, [body |-> body])>>)
         /\ \A raw : Asks(PullReview(n, raw, body), "pull.review", OnPull(n),
                          Each(<<ReviewEvent(raw), body>>),
                          <<Post("reviews", n, Given([event |-> ReviewEvent(raw), body |-> body]))>>)
BY Zenon DEF Asks, IssueComment, PullComment, PullReview

LEMMA StatersAsk ==
  ASSUME NEW n
  PROVE  /\ Asks(IssueReopen(n), "issue.reopen", OnIssue(n), <<>>,
                 <<Patch("issue", n, [status |-> "open"])>>)
         /\ Asks(PullClose(n), "pull.close", OnPull(n), <<>>,
                 <<Patch("pull", n, [status |-> "closed"])>>)
         /\ Asks(PullReopen(n), "pull.reopen", OnPull(n), <<>>,
                 <<Patch("pull", n, [status |-> "open"])>>)
         /\ \A reason : \E calls : Asks(IssueClose(n, reason), "issue.close", OnIssue(n), <<>>, calls)
BY Zenon DEF Asks, IssueReopen, PullClose, PullReopen, IssueClose

MergePin(sha) == IF sha = "" THEN <<>> ELSE <<<<"sha", sha>>>>

LEMMA MergerAsks ==
  ASSUME NEW n, NEW raw, NEW sha
  PROVE  Asks(PullMerge(n, raw, sha), "pull.merge", OnPull(n),
              <<<<"method", MergeMethod(raw)>>>> \o MergePin(sha),
              <<Call("PUT", "merge", n, Given([method |-> MergeMethod(raw), sha |-> sha]),
                     NoLists, NoLists)>>)
BY Zenon DEF Asks, PullMerge, MergePin

LEMMA CreatorsAsk ==
  ASSUME NEW title, NEW body
  PROVE  /\ \A labels, assignees : \E parts, calls :
              Asks(IssueCreate(title, body, labels, assignees), "issue.create", OnRepo, parts, calls)
         /\ \A head, base, draft :
              Asks(PullCreate(title, body, head, base, draft), "pull.create", OnRepo,
                   Each(<<title, body, head, base, draft>>),
                   <<Post("pulls", 0, Given([title |-> title, head |-> head, base |-> base,
                                             body |-> body, draft |-> draft]))>>)
BY Zenon DEF Asks, IssueCreate, PullCreate

EditedLists(add, remove) ==
  <<<<"addL", Join(add.labels)>>, <<"rmL", Join(remove.labels)>>,
    <<"addA", Join(add.assignees)>>, <<"rmA", Join(remove.assignees)>>>>

LEMMA EditorsAsk ==
  ASSUME NEW n, NEW fields
  PROVE  /\ \A add, remove :
              Asks(IssueEdit(n, fields, add, remove), "issue.edit", OnIssue(n),
                   (Part(fields, "title") \o Part(fields, "body")) \o EditedLists(add, remove),
                   (IF add # NoLists \/ remove # NoLists THEN <<Get("issue", n)>> ELSE <<>>)
                     \o <<Call("PATCH", "issue", n, fields, add, remove)>>)
         /\ Asks(PullEdit(n, fields), "pull.edit", OnPull(n),
                 (Part(fields, "title") \o Part(fields, "body")) \o Part(fields, "base"),
                 <<Patch("pull", n, fields)>>)
BY Zenon DEF Asks, IssueEdit, PullEdit, EditedLists

\* An operation that needs the right to view, and may need that to the comments.
Views(o, action, on, comments, calls) ==
  \E valid : o = Operation(valid,
                   {Right(action, on, <<>>)}
                     \cup (IF comments THEN {Right("comment.read", on, <<>>)} ELSE {}), calls)

LEMMA ViewNeeds ==
  ASSUME NEW o, NEW action, NEW on, NEW comments \in BOOLEAN, NEW calls,
         Views(o, action, on, comments, calls), o.valid
  PROVE  /\ Actions(o) = {action} \cup (IF comments THEN {"comment.read"} ELSE {})
         /\ o.calls = calls /\ \A r \in o.needs : r.on = on
<1> DEFINE r == Right(action, on, <<>>)
           s == Right("comment.read", on, <<>>)
           needs == {r} \cup (IF comments THEN {s} ELSE {})
<1>1. r.action = action /\ s.action = "comment.read" /\ r.on = on /\ s.on = on
  BY DEF Right
<1> HIDE DEF r, s
<1>2. o.needs = needs /\ o.calls = calls
  <2> HIDE DEF needs
  <2>1. PICK valid : o = Operation(valid, needs, calls)
    BY Zenon DEF needs, r, s, Views
  <2> QED
    BY <2>1 DEF Operation, BadRequest
<1>3. Actions(o) = {action} \cup (IF comments THEN {"comment.read"} ELSE {})
  BY <1>1, <1>2 DEF Actions
<1> QED
  BY <1>1, <1>2, <1>3

IssueViewCalls(n, comments) ==
  <<Get("issue", n)>> \o (IF comments THEN <<Get("comments", n)>> ELSE <<>>)

PullViewCalls(n, comments) ==
  <<Get("pull", n)>>
    \o (IF comments THEN <<Get("comments", n), Get("review comments", n), Get("reviews", n)>>
        ELSE <<>>)

LEMMA ViewersAsk ==
  ASSUME NEW n, NEW comments \in BOOLEAN
  PROVE  /\ IssueView(n, comments).valid =>
              /\ Actions(IssueView(n, comments)) =
                   {"issue.view"} \cup (IF comments THEN {"comment.read"} ELSE {})
              /\ IssueView(n, comments).calls = IssueViewCalls(n, comments)
              /\ \A r \in IssueView(n, comments).needs : r.on = OnIssue(n)
         /\ PullView(n, comments).valid =>
              /\ Actions(PullView(n, comments)) =
                   {"pull.view"} \cup (IF comments THEN {"comment.read"} ELSE {})
              /\ PullView(n, comments).calls = PullViewCalls(n, comments)
              /\ \A r \in PullView(n, comments).needs : r.on = OnPull(n)
<1>1. ASSUME IssueView(n, comments).valid
      PROVE  /\ Actions(IssueView(n, comments)) =
                  {"issue.view"} \cup (IF comments THEN {"comment.read"} ELSE {})
             /\ IssueView(n, comments).calls = IssueViewCalls(n, comments)
             /\ \A r \in IssueView(n, comments).needs : r.on = OnIssue(n)
  <2> DEFINE o == IssueView(n, comments)
             on == OnIssue(n)
             calls == IssueViewCalls(n, comments)
  <2>1. Views(o, "issue.view", on, comments, calls)
    BY Zenon DEF Views, IssueView, IssueViewCalls
  <2>2. o.valid
    BY <1>1
  <2> HIDE DEF o, on, calls
  <2>3. /\ Actions(o) = {"issue.view"} \cup (IF comments THEN {"comment.read"} ELSE {})
        /\ o.calls = calls /\ \A r \in o.needs : r.on = on
    BY <2>1, <2>2, ViewNeeds
  <2> QED
    BY <2>3 DEF o, on, calls
<1>2. ASSUME PullView(n, comments).valid
      PROVE  /\ Actions(PullView(n, comments)) =
                  {"pull.view"} \cup (IF comments THEN {"comment.read"} ELSE {})
             /\ PullView(n, comments).calls = PullViewCalls(n, comments)
             /\ \A r \in PullView(n, comments).needs : r.on = OnPull(n)
  <2> DEFINE o == PullView(n, comments)
             on == OnPull(n)
             calls == PullViewCalls(n, comments)
  <2>1. Views(o, "pull.view", on, comments, calls)
    BY Zenon DEF Views, PullView, PullViewCalls
  <2>2. o.valid
    BY <1>2
  <2> HIDE DEF o, on, calls
  <2>3. /\ Actions(o) = {"pull.view"} \cup (IF comments THEN {"comment.read"} ELSE {})
        /\ o.calls = calls /\ \A r \in o.needs : r.on = on
    BY <2>1, <2>2, ViewNeeds, SMTT(30)
  <2> QED
    BY <2>3 DEF o, on, calls
<1> QED
  BY <1>1, <1>2

LEMMA AskedActions ==
  /\ AsksFor(Clone, "repo.clone") /\ AsksFor(Push, "repo.push")
  /\ AsksFor(IssueList, "issue.list") /\ AsksFor(PullList, "pull.list")
  /\ \A n : /\ AsksFor(PullDiff(n), "pull.diff")
            /\ AsksFor(IssueReopen(n), "issue.reopen")
            /\ AsksFor(PullClose(n), "pull.close")
            /\ AsksFor(PullReopen(n), "pull.reopen")
            /\ \A reason : AsksFor(IssueClose(n, reason), "issue.close")
            /\ \A body : /\ AsksFor(IssueComment(n, body), "issue.comment")
                         /\ AsksFor(PullComment(n, body), "pull.comment")
            /\ \A raw, body : AsksFor(PullReview(n, raw, body), "pull.review")
            /\ \A raw, sha : AsksFor(PullMerge(n, raw, sha), "pull.merge")
            /\ \A fields : /\ AsksFor(PullEdit(n, fields), "pull.edit")
                           /\ \A add, remove : AsksFor(IssueEdit(n, fields, add, remove), "issue.edit")
  /\ \A title, body :
       /\ \A labels, assignees :
            AsksFor(IssueCreate(title, body, labels, assignees), "issue.create")
       /\ \A head, base, draft :
            AsksFor(PullCreate(title, body, head, base, draft), "pull.create")
BY ReadersAsk, PostersAsk, StatersAsk, MergerAsks, CreatorsAsk, EditorsAsk, Zenon DEF AsksFor

\* The factory that made an operation is known by the actions of its rights.
LEMMA MadeBy ==
  ASSUME NEW o, Made(o), o.valid
  PROVE  /\ Actions(o) = {"repo.clone"} => o = Clone
         /\ Actions(o) = {"repo.push"} => o = Push
         /\ Actions(o) = {"issue.list"} => o = IssueList
         /\ Actions(o) = {"pull.list"} => o = PullList
         /\ Actions(o) = {"pull.diff"} => \E n : o = PullDiff(n)
         /\ "issue.view" \in Actions(o) => \E n : \E comments \in BOOLEAN : o = IssueView(n, comments)
         /\ "pull.view" \in Actions(o) => \E n : \E comments \in BOOLEAN : o = PullView(n, comments)
         /\ Actions(o) = {"pull.create"} =>
              \E title, body, head, base, draft : o = PullCreate(title, body, head, base, draft)
         /\ Actions(o) = {"issue.edit"} =>
              \E n, fields : /\ Fields(fields, {"title", "body"})
                             /\ \E add, remove \in Lists : o = IssueEdit(n, fields, add, remove)
         /\ Actions(o) = {"pull.edit"} =>
              \E n, fields : Fields(fields, {"title", "body", "base"}) /\ o = PullEdit(n, fields)
         /\ Actions(o) = {"issue.comment"} => \E n, body : o = IssueComment(n, body)
         /\ Actions(o) = {"pull.comment"} => \E n, body : o = PullComment(n, body)
         /\ Actions(o) = {"issue.reopen"} => \E n : o = IssueReopen(n)
         /\ Actions(o) = {"pull.close"} => \E n : o = PullClose(n)
         /\ Actions(o) = {"pull.reopen"} => \E n : o = PullReopen(n)
         /\ Actions(o) = {"pull.review"} => \E n, raw, body : o = PullReview(n, raw, body)
         /\ Actions(o) = {"pull.merge"} => \E n, raw, sha : o = PullMerge(n, raw, sha)
<1>1. CASE Reading(o)
  <2>1. CASE o \in {Clone, Push, IssueList, PullList}
    <3>1. /\ o = Clone => Actions(o) = {"repo.clone"}
          /\ o = Push => Actions(o) = {"repo.push"}
          /\ o = IssueList => Actions(o) = {"issue.list"}
          /\ o = PullList => Actions(o) = {"pull.list"}
      BY AskedActions, OneAction
    <3> QED
      BY <2>1, <3>1
  <2>2. CASE \E n : o = PullDiff(n)
    <3>1. Actions(o) = {"pull.diff"}
      BY <2>2, AskedActions, OneAction
    <3> QED
      BY <2>2, <3>1
  <2>3. CASE \E n : \E comments \in BOOLEAN : o = IssueView(n, comments)
    <3>1. "issue.view" \in Actions(o) /\ Actions(o) \subseteq {"issue.view", "comment.read"}
      BY <2>3, ViewersAsk
    <3> QED
      BY <2>3, <3>1
  <2>4. CASE \E n : \E comments \in BOOLEAN : o = PullView(n, comments)
    <3>1. "pull.view" \in Actions(o) /\ Actions(o) \subseteq {"pull.view", "comment.read"}
      BY <2>4, ViewersAsk
    <3> QED
      BY <2>4, <3>1
  <2> QED
    BY <1>1, <2>1, <2>2, <2>3, <2>4 DEF Reading
<1>2. CASE Creating(o)
  <2>1. CASE \E title, body, lists \in Lists :
               o = IssueCreate(title, body, lists.labels, lists.assignees)
    <3>1. Actions(o) = {"issue.create"}
      BY <2>1, AskedActions, OneAction
    <3> QED
      BY <3>1
  <2>2. CASE \E title, body, head, base, draft : o = PullCreate(title, body, head, base, draft)
    <3>1. Actions(o) = {"pull.create"}
      BY <2>2, AskedActions, OneAction
    <3> QED
      BY <2>2, <3>1
  <2> QED
    BY <1>2, <2>1, <2>2 DEF Creating
<1>3. CASE Editing(o)
  <2>1. CASE \E n, fields : /\ Fields(fields, {"title", "body"})
                            /\ \E add, remove \in Lists : o = IssueEdit(n, fields, add, remove)
    <3>1. Actions(o) = {"issue.edit"}
      BY <2>1, AskedActions, OneAction
    <3> QED
      BY <2>1, <3>1
  <2>2. CASE \E n, fields : Fields(fields, {"title", "body", "base"}) /\ o = PullEdit(n, fields)
    <3>1. Actions(o) = {"pull.edit"}
      BY <2>2, AskedActions, OneAction
    <3> QED
      BY <2>2, <3>1
  <2> QED
    BY <1>3, <2>1, <2>2 DEF Editing
<1>4. CASE \E n, body : o = IssueComment(n, body)
  <2>1. Actions(o) = {"issue.comment"}
    BY <1>4, AskedActions, OneAction
  <2> QED
    BY <1>4, <2>1
<1>5. CASE \E n, body : o = PullComment(n, body)
  <2>1. Actions(o) = {"pull.comment"}
    BY <1>5, AskedActions, OneAction
  <2> QED
    BY <1>5, <2>1
<1>6. CASE \E n, reason : o = IssueClose(n, reason)
  <2>1. Actions(o) = {"issue.close"}
    BY <1>6, AskedActions, OneAction
  <2> QED
    BY <2>1
<1>7. CASE \E n : o = IssueReopen(n)
  <2>1. Actions(o) = {"issue.reopen"}
    BY <1>7, AskedActions, OneAction
  <2> QED
    BY <1>7, <2>1
<1>8. CASE \E n : o = PullClose(n)
  <2>1. Actions(o) = {"pull.close"}
    BY <1>8, AskedActions, OneAction
  <2> QED
    BY <1>8, <2>1
<1>9. CASE \E n : o = PullReopen(n)
  <2>1. Actions(o) = {"pull.reopen"}
    BY <1>9, AskedActions, OneAction
  <2> QED
    BY <1>9, <2>1
<1>10. CASE \E n, raw, body : o = PullReview(n, raw, body)
  <2>1. Actions(o) = {"pull.review"}
    BY <1>10, AskedActions, OneAction
  <2> QED
    BY <1>10, <2>1
<1>11. CASE \E n, raw, sha : o = PullMerge(n, raw, sha)
  <2>1. Actions(o) = {"pull.merge"}
    BY <1>11, AskedActions, OneAction
  <2> QED
    BY <1>11, <2>1
<1>12. \/ Reading(o) \/ Creating(o) \/ Editing(o)
       \/ \E n, body : o = IssueComment(n, body)
       \/ \E n, body : o = PullComment(n, body)
       \/ \E n, reason : o = IssueClose(n, reason)
       \/ \E n : o = IssueReopen(n)
       \/ \E n : o = PullClose(n)
       \/ \E n : o = PullReopen(n)
       \/ \E n, raw, body : o = PullReview(n, raw, body)
       \/ \E n, raw, sha : o = PullMerge(n, raw, sha)
  BY Zenon DEF Made
<1> QED
  BY <1>1, <1>2, <1>3, <1>4, <1>5, <1>6, <1>7, <1>8, <1>9, <1>10, <1>11, <1>12, Zenon

-----------------------------------------------------------------------------
(* The same rights, the same calls.                                        *)

LEMMA SamePart ==
  ASSUME NEW n, NEW m, OnIssue(n) = OnIssue(m) \/ OnPull(n) = OnPull(m)
  PROVE  n = m
BY DEF OnIssue, OnPull

LEMMA SameIssueComment ==
  ASSUME NEW n, NEW n2, NEW body, NEW body2, NEW o, NEW o2, o.valid, o2.valid, o.needs = o2.needs,
         o = IssueComment(n, body), o2 = IssueComment(n2, body2)
  PROVE  o.calls = o2.calls
<1> DEFINE parts == <<<<body>>>>
           parts2 == <<<<body2>>>>
           calls == <<Post("comments", n, [body |-> body])>>
           calls2 == <<Post("comments", n2, [body |-> body2])>>
<1>1. parts = parts2 => body = body2
  OBVIOUS
<1>2. /\ Asks(o, "issue.comment", OnIssue(n), parts, calls)
      /\ Asks(o2, "issue.comment", OnIssue(n2), parts2, calls2)
  BY PostersAsk
<1> HIDE DEF parts, parts2, calls, calls2
<1>3. OnIssue(n) = OnIssue(n2) /\ parts = parts2 /\ o.calls = calls /\ o2.calls = calls2
  BY <1>2, SameRight
<1>4. n = n2 /\ body = body2
  BY <1>1, <1>3, SamePart
<1> QED
  BY <1>3, <1>4 DEF calls, calls2

LEMMA SamePullComment ==
  ASSUME NEW n, NEW n2, NEW body, NEW body2, NEW o, NEW o2, o.valid, o2.valid, o.needs = o2.needs,
         o = PullComment(n, body), o2 = PullComment(n2, body2)
  PROVE  o.calls = o2.calls
<1> DEFINE parts == <<<<body>>>>
           parts2 == <<<<body2>>>>
           calls == <<Post("comments", n, [body |-> body])>>
           calls2 == <<Post("comments", n2, [body |-> body2])>>
<1>1. parts = parts2 => body = body2
  OBVIOUS
<1>2. /\ Asks(o, "pull.comment", OnPull(n), parts, calls)
      /\ Asks(o2, "pull.comment", OnPull(n2), parts2, calls2)
  BY PostersAsk
<1> HIDE DEF parts, parts2, calls, calls2
<1>3. OnPull(n) = OnPull(n2) /\ parts = parts2 /\ o.calls = calls /\ o2.calls = calls2
  BY <1>2, SameRight
<1>4. n = n2 /\ body = body2
  BY <1>1, <1>3, SamePart
<1> QED
  BY <1>3, <1>4 DEF calls, calls2

LEMMA SameReview ==
  ASSUME NEW n, NEW n2, NEW raw, NEW raw2, NEW body, NEW body2,
         NEW o, NEW o2, o.valid, o2.valid, o.needs = o2.needs,
         o = PullReview(n, raw, body), o2 = PullReview(n2, raw2, body2)
  PROVE  o.calls = o2.calls
<1> DEFINE event == ReviewEvent(raw)
           event2 == ReviewEvent(raw2)
           stated == Each(<<event, body>>)
           stated2 == Each(<<event2, body2>>)
           sent == <<Post("reviews", n, Given([event |-> event, body |-> body]))>>
           sent2 == <<Post("reviews", n2, Given([event |-> event2, body |-> body2]))>>
<1>1. /\ Asks(o, "pull.review", OnPull(n), stated, sent)
      /\ Asks(o2, "pull.review", OnPull(n2), stated2, sent2)
  BY PostersAsk
<1> HIDE DEF event, event2
<1>2. stated = stated2 => event = event2 /\ body = body2
  <2>1. /\ stated[1] = <<event>> /\ stated[2] = <<body>>
        /\ stated2[1] = <<event2>> /\ stated2[2] = <<body2>>
    BY DEF Each
  <2> HIDE DEF stated, stated2
  <2> QED
    BY <2>1
<1> HIDE DEF stated, stated2, sent, sent2
<1>3. OnPull(n) = OnPull(n2) /\ stated = stated2 /\ o.calls = sent /\ o2.calls = sent2
  BY <1>1, SameRight
<1>4. n = n2 /\ event = event2 /\ body = body2
  BY <1>2, <1>3, SamePart
<1> QED
  BY <1>3, <1>4 DEF sent, sent2

LEMMA SameState ==
  ASSUME NEW n, NEW n2, NEW o, NEW o2, o.valid, o2.valid, o.needs = o2.needs
  PROVE  /\ o = IssueReopen(n) /\ o2 = IssueReopen(n2) => o.calls = o2.calls
         /\ o = PullClose(n) /\ o2 = PullClose(n2) => o.calls = o2.calls
         /\ o = PullReopen(n) /\ o2 = PullReopen(n2) => o.calls = o2.calls
         /\ o = PullDiff(n) /\ o2 = PullDiff(n2) => o.calls = o2.calls
<1> DEFINE none == <<>>
<1>1. CASE o = IssueReopen(n) /\ o2 = IssueReopen(n2)
  <2> DEFINE calls == <<Patch("issue", n, [status |-> "open"])>>
             calls2 == <<Patch("issue", n2, [status |-> "open"])>>
  <2>1. /\ Asks(o, "issue.reopen", OnIssue(n), none, calls)
        /\ Asks(o2, "issue.reopen", OnIssue(n2), none, calls2)
    BY <1>1, StatersAsk
  <2> HIDE DEF calls, calls2, none
  <2>2. OnIssue(n) = OnIssue(n2) /\ o.calls = calls /\ o2.calls = calls2
    BY <2>1, SameRight
  <2> QED
    BY <2>2, SamePart DEF calls, calls2
<1>2. CASE o = PullClose(n) /\ o2 = PullClose(n2)
  <2> DEFINE calls == <<Patch("pull", n, [status |-> "closed"])>>
             calls2 == <<Patch("pull", n2, [status |-> "closed"])>>
  <2>1. Asks(o, "pull.close", OnPull(n), none, calls) /\ Asks(o2, "pull.close", OnPull(n2), none, calls2)
    BY <1>2, StatersAsk
  <2> HIDE DEF calls, calls2, none
  <2>2. OnPull(n) = OnPull(n2) /\ o.calls = calls /\ o2.calls = calls2
    BY <2>1, SameRight
  <2> QED
    BY <2>2, SamePart DEF calls, calls2
<1>3. CASE o = PullReopen(n) /\ o2 = PullReopen(n2)
  <2> DEFINE calls == <<Patch("pull", n, [status |-> "open"])>>
             calls2 == <<Patch("pull", n2, [status |-> "open"])>>
  <2>1. Asks(o, "pull.reopen", OnPull(n), none, calls) /\ Asks(o2, "pull.reopen", OnPull(n2), none, calls2)
    BY <1>3, StatersAsk
  <2> HIDE DEF calls, calls2, none
  <2>2. OnPull(n) = OnPull(n2) /\ o.calls = calls /\ o2.calls = calls2
    BY <2>1, SameRight
  <2> QED
    BY <2>2, SamePart DEF calls, calls2
<1>4. CASE o = PullDiff(n) /\ o2 = PullDiff(n2)
  <2> DEFINE calls == <<Get("diff", n)>>
             calls2 == <<Get("diff", n2)>>
  <2>1. Asks(o, "pull.diff", OnPull(n), none, calls) /\ Asks(o2, "pull.diff", OnPull(n2), none, calls2)
    BY <1>4, ReadersAsk
  <2> HIDE DEF calls, calls2, none
  <2>2. OnPull(n) = OnPull(n2) /\ o.calls = calls /\ o2.calls = calls2
    BY <2>1, SameRight
  <2> QED
    BY <2>2, SamePart DEF calls, calls2
<1> QED
  BY <1>1, <1>2, <1>3, <1>4

\* The parts of a parts say of every field whether it was given, and how.
Tagged(fields, names) == {<<f, fields[f]>> : f \in DOMAIN fields \cap names}

LEMMA SameTagged ==
  ASSUME NEW names, NEW fields, NEW fields2, Fields(fields, names), Fields(fields2, names),
         Tagged(fields, names) = Tagged(fields2, names)
  PROVE  fields = fields2
<1>1. DOMAIN fields \subseteq names /\ DOMAIN fields2 \subseteq names
  BY DEF Fields
<1>2. ASSUME NEW f \in DOMAIN fields PROVE f \in DOMAIN fields2 /\ fields2[f] = fields[f]
  <2>1. <<f, fields[f]>> \in Tagged(fields2, names)
    BY <1>1 DEF Tagged
  <2>2. PICK g \in DOMAIN fields2 \cap names : <<f, fields[f]>> = <<g, fields2[g]>>
    BY <2>1 DEF Tagged
  <2> QED
    BY <2>2
<1>3. ASSUME NEW f \in DOMAIN fields2 PROVE f \in DOMAIN fields
  <2>1. <<f, fields2[f]>> \in Tagged(fields, names)
    BY <1>1 DEF Tagged
  <2>2. PICK g \in DOMAIN fields \cap names : <<f, fields2[f]>> = <<g, fields[g]>>
    BY <2>1 DEF Tagged
  <2> QED
    BY <2>2
<1>4. DOMAIN fields = DOMAIN fields2
  BY <1>2, <1>3
<1>5. fields = [f \in DOMAIN fields |-> fields[f]] /\ fields2 = [f \in DOMAIN fields2 |-> fields2[f]]
  BY Zenon DEF Fields
<1>6. [f \in DOMAIN fields |-> fields[f]] = [f \in DOMAIN fields2 |-> fields2[f]]
  BY <1>2, <1>4
<1> QED
  BY <1>5, <1>6, Zenon

Tags(s, fields, names) == (\E S : s \in Seq(S)) /\ ToSet(s) = Tagged(fields, names)

LEMMA PartTags ==
  ASSUME NEW fields, NEW f
  PROVE  Tags(Part(fields, f), fields, {f})
<1> DEFINE a == <<f, fields[f]>>
           p == Part(fields, f)
<1>1. CASE f \in DOMAIN fields
  <2>1. p = <<a>>
    BY <1>1 DEF Part
  <2>2. Tagged(fields, {f}) = {a}
    BY <1>1 DEF Tagged
  <2> HIDE DEF a
  <2>3. <<a>> \in Seq({a}) /\ ToSet(<<a>>) = {a}
    BY AloneIn
  <2> QED
    BY <2>1, <2>2, <2>3 DEF Tags
<1>2. CASE f \notin DOMAIN fields
  <2>1. p = <<>>
    BY <1>2 DEF Part
  <2>2. Tagged(fields, {f}) = {}
    BY <1>2 DEF Tagged
  <2> QED
    BY <2>1, <2>2, EmptySeq, EmptyIs DEF Tags
<1> QED
  BY <1>1, <1>2

LEMMA JoinedTags ==
  ASSUME NEW fields, NEW names, NEW names2, NEW s, NEW t,
         Tags(s, fields, names), Tags(t, fields, names2)
  PROVE  Tags(s \o t, fields, names \cup names2)
<1>1. PICK A : s \in Seq(A)
  BY DEF Tags
<1>2. PICK B : t \in Seq(B)
  BY DEF Tags
<1>3. s \in Seq(A \cup B) /\ t \in Seq(A \cup B)
  BY <1>1, <1>2
<1>4. s \o t \in Seq(A \cup B) /\ ToSet(s \o t) = ToSet(s) \cup ToSet(t)
  BY <1>3, Joined
<1>5. Tagged(fields, names \cup names2) = Tagged(fields, names) \cup Tagged(fields, names2)
  BY DEF Tagged
<1> QED
  BY <1>4, <1>5 DEF Tags

LEMMA ContextTags ==
  ASSUME NEW fields
  PROVE  /\ Tags(Part(fields, "title") \o Part(fields, "body"), fields, {"title", "body"})
         /\ Tags((Part(fields, "title") \o Part(fields, "body")) \o Part(fields, "base"),
                 fields, {"title", "body", "base"})
<1> DEFINE title == Part(fields, "title")
           body == Part(fields, "body")
           base == Part(fields, "base")
           T == {"title"}
           B == {"body"}
           A == {"base"}
<1>1. T \cup B = {"title", "body"} /\ (T \cup B) \cup A = {"title", "body", "base"}
  OBVIOUS
<1>2. Tags(title, fields, T) /\ Tags(body, fields, B) /\ Tags(base, fields, A)
  BY PartTags
<1> HIDE DEF title, body, base, T, B, A
<1>3. Tags(title \o body, fields, T \cup B)
  BY <1>2, JoinedTags
<1>4. Tags((title \o body) \o base, fields, (T \cup B) \cup A)
  BY <1>2, <1>3, JoinedTags
<1> QED
  BY <1>1, <1>3, <1>4 DEF title, body, base

LEMMA SamePullEdit ==
  ASSUME NEW n, NEW n2, NEW fields, NEW fields2, NEW o, NEW o2, o.valid, o2.valid, o.needs = o2.needs,
         Fields(fields, {"title", "body", "base"}), Fields(fields2, {"title", "body", "base"}),
         o = PullEdit(n, fields), o2 = PullEdit(n2, fields2)
  PROVE  o.calls = o2.calls
<1> DEFINE stated(x) == (Part(x, "title") \o Part(x, "body")) \o Part(x, "base")
           calls == <<Patch("pull", n, fields)>>
           calls2 == <<Patch("pull", n2, fields2)>>
<1>1. /\ Asks(o, "pull.edit", OnPull(n), stated(fields), calls)
      /\ Asks(o2, "pull.edit", OnPull(n2), stated(fields2), calls2)
  BY EditorsAsk
<1>2. /\ ToSet(stated(fields)) = Tagged(fields, {"title", "body", "base"})
      /\ ToSet(stated(fields2)) = Tagged(fields2, {"title", "body", "base"})
  BY ContextTags DEF Tags
<1> HIDE DEF stated, calls, calls2
<1>3. /\ OnPull(n) = OnPull(n2) /\ stated(fields) = stated(fields2)
      /\ o.calls = calls /\ o2.calls = calls2
  BY <1>1, SameRight
<1>4. fields = fields2
  BY <1>2, <1>3, SameTagged
<1>5. n = n2
  BY <1>3, SamePart
<1> QED
  BY <1>3, <1>4, <1>5 DEF calls, calls2

\* Two sequences whose last parts are equally long.
LEMMA Apart ==
  ASSUME NEW S, NEW s \in Seq(S), NEW t \in Seq(S), NEW u \in Seq(S), NEW v \in Seq(S),
         s \o t = u \o v, Len(t) = Len(v)
  PROVE  s = u /\ t = v
<1>1. /\ Len(s \o t) = Len(s) + Len(t)
      /\ \A i \in 1 .. Len(s) + Len(t) : (s \o t)[i] = IF i <= Len(s) THEN s[i] ELSE t[i - Len(s)]
  BY ConcatProperties
<1>2. /\ Len(u \o v) = Len(u) + Len(v)
      /\ \A i \in 1 .. Len(u) + Len(v) : (u \o v)[i] = IF i <= Len(u) THEN u[i] ELSE v[i - Len(u)]
  BY ConcatProperties
<1>3. Len(s) \in Nat /\ Len(t) \in Nat /\ Len(u) \in Nat /\ Len(v) \in Nat
  BY LenProperties
<1> DEFINE a == s \o t
           b == u \o v
<1>4. Len(s) = Len(u)
  BY <1>1, <1>2, <1>3
<1>5. a = b
  OBVIOUS
<1> HIDE DEF a, b
<1>6. ASSUME NEW i \in 1..Len(s) PROVE s[i] = u[i]
  <2>1. a[i] = s[i] /\ b[i] = u[i]
    BY <1>1, <1>2, <1>3, <1>4 DEF a, b
  <2> QED
    BY <1>5, <2>1
<1>7. ASSUME NEW i \in 1..Len(t) PROVE t[i] = v[i]
  <2>1. /\ i + Len(s) \in 1..Len(s) + Len(t) /\ ~(i + Len(s) <= Len(s)) /\ i + Len(s) - Len(s) = i
    BY <1>3
  <2>2. a[i + Len(s)] = t[i] /\ b[i + Len(s)] = v[i]
    BY <1>1, <1>2, <1>4, <2>1 DEF a, b
  <2> QED
    BY <1>5, <2>2
<1>8. s = u
  BY <1>4, <1>6, SeqEqual
<1>9. t = v
  BY <1>7, SeqEqual
<1> QED
  BY <1>8, <1>9

\* The commas tell apart the lists that two operations edit.
ListsApart(o, other) ==
  \A c \in ToSet(o.calls), d \in ToSet(other.calls), l \in {"labels", "assignees"} :
    /\ Join(c.add[l]) = Join(d.add[l]) => c.add[l] = d.add[l]
    /\ Join(c.remove[l]) = Join(d.remove[l]) => c.remove[l] = d.remove[l]

LEMMA LastCall ==
  ASSUME NEW n, NEW fields, NEW add, NEW remove, NEW first,
         first = <<Get("issue", n)>> \/ first = <<>>
  PROVE  \E c \in ToSet(first \o <<Call("PATCH", "issue", n, fields, add, remove)>>) :
           c.add = add /\ c.remove = remove
<1> DEFINE g == Get("issue", n)
           c == Call("PATCH", "issue", n, fields, add, remove)
           S == {g, c}
           last == <<c>>
<1>1. c.add = add /\ c.remove = remove
  BY DEF Call
<1> HIDE DEF g, c
<1>2. last \in Seq(S) /\ ToSet(last) = {c} /\ <<g>> \in Seq(S) /\ <<>> \in Seq(S)
  BY AloneIn, EmptySeq
<1>3. first \in Seq(S)
  BY <1>2 DEF g
<1> HIDE DEF S, last
<1>4. ToSet(first \o last) = ToSet(first) \cup ToSet(last)
  BY <1>2, <1>3, Joined
<1>5. c \in ToSet(first \o last)
  BY <1>2, <1>4
<1> QED
  BY <1>1, <1>5 DEF last, c

LEMMA SameIssueEdit ==
  ASSUME NEW n, NEW n2, NEW fields, NEW fields2, NEW add \in Lists, NEW remove \in Lists,
         NEW add2 \in Lists, NEW remove2 \in Lists,
         NEW o, NEW o2, o.valid, o2.valid, o.needs = o2.needs,
         Fields(fields, {"title", "body"}), Fields(fields2, {"title", "body"}), ListsApart(o, o2),
         o = IssueEdit(n, fields, add, remove), o2 = IssueEdit(n2, fields2, add2, remove2)
  PROVE  o.calls = o2.calls
<1> DEFINE calls(m, x, a, r) == (IF a # NoLists \/ r # NoLists THEN <<Get("issue", m)>> ELSE <<>>)
                                  \o <<Call("PATCH", "issue", m, x, a, r)>>
           made == calls(n, fields, add, remove)
           made2 == calls(n2, fields2, add2, remove2)
           front == Part(fields, "title") \o Part(fields, "body")
           front2 == Part(fields2, "title") \o Part(fields2, "body")
           lists == EditedLists(add, remove)
           lists2 == EditedLists(add2, remove2)
           stated == front \o lists
           stated2 == front2 \o lists2
           names == {"title", "body"}
<1>1. /\ Asks(o, "issue.edit", OnIssue(n), stated, made)
      /\ Asks(o2, "issue.edit", OnIssue(n2), stated2, made2)
  BY EditorsAsk
<1>2. Tags(front, fields, names) /\ Tags(front2, fields2, names)
  BY ContextTags
<1>3. /\ Len(lists) = Len(lists2)
      /\ \E S : lists \in Seq(S) /\ lists2 \in Seq(S)
  <2> DEFINE S == {<<tag, Join(x)>> : tag \in {"addL", "rmL", "addA", "rmA"},
                     x \in {add.labels, remove.labels, add.assignees, remove.assignees,
                            add2.labels, remove2.labels, add2.assignees, remove2.assignees}}
  <2>1. lists \in Seq(S) /\ lists2 \in Seq(S)
    BY DEF EditedLists
  <2>2. Len(lists) = Len(lists2)
    BY DEF EditedLists
  <2> QED
    BY <2>1, <2>2
<1>4. lists = lists2 =>
        /\ Join(add.labels) = Join(add2.labels) /\ Join(remove.labels) = Join(remove2.labels)
        /\ Join(add.assignees) = Join(add2.assignees)
        /\ Join(remove.assignees) = Join(remove2.assignees)
  BY DEF EditedLists
<1>0. /\ \E c \in ToSet(made) : c.add = add /\ c.remove = remove
      /\ \E c \in ToSet(made2) : c.add = add2 /\ c.remove = remove2
  BY LastCall
<1> HIDE DEF front, front2, lists, lists2, names, made, made2
<1>5. /\ OnIssue(n) = OnIssue(n2) /\ stated = stated2
      /\ o.calls = made /\ o2.calls = made2
  <2> HIDE DEF stated, stated2
  <2> QED
    BY <1>1, SameRight
<1>6. front = front2 /\ lists = lists2
  <2>1. PICK A : front \in Seq(A)
    BY <1>2 DEF Tags
  <2>2. PICK B : front2 \in Seq(B)
    BY <1>2 DEF Tags
  <2>3. PICK C : lists \in Seq(C) /\ lists2 \in Seq(C)
    BY <1>3
  <2> DEFINE S == A \cup B \cup C
  <2>4. front \in Seq(S) /\ front2 \in Seq(S) /\ lists \in Seq(S) /\ lists2 \in Seq(S)
    BY <2>1, <2>2, <2>3
  <2> HIDE DEF S
  <2>5. front \o lists = front2 \o lists2
    BY <1>5
  <2>6. Len(lists) = Len(lists2)
    BY <1>3
  <2> QED
    BY <2>4, <2>5, <2>6, Apart
<1>7. fields = fields2
  <2>1. Tagged(fields, names) = Tagged(fields2, names)
    BY <1>2, <1>6 DEF Tags
  <2> QED
    BY <2>1, SameTagged DEF names
<1>8. add = add2 /\ remove = remove2
  <2>1. /\ add.labels = add2.labels /\ remove.labels = remove2.labels
        /\ add.assignees = add2.assignees /\ remove.assignees = remove2.assignees
    <3>1. PICK c \in ToSet(o.calls) : c.add = add /\ c.remove = remove
      BY <1>0, <1>5
    <3>2. PICK d \in ToSet(o2.calls) : d.add = add2 /\ d.remove = remove2
      BY <1>0, <1>5
    <3>3. \A l \in {"labels", "assignees"} :
            /\ Join(add[l]) = Join(add2[l]) => add[l] = add2[l]
            /\ Join(remove[l]) = Join(remove2[l]) => remove[l] = remove2[l]
      BY <3>1, <3>2 DEF ListsApart
    <3> QED
      BY <1>4, <1>6, <3>3
  <2>2. ASSUME NEW x \in Lists PROVE x = [labels |-> x.labels, assignees |-> x.assignees]
    BY DEF Lists
  <2> QED
    BY <2>1, <2>2
<1>9. n = n2
  BY <1>5, SamePart
<1>10. made = made2
  BY <1>7, <1>8, <1>9 DEF made, made2
<1> QED
  BY <1>5, <1>10

LEMMA SameMerge ==
  ASSUME NEW n, NEW n2, NEW raw, NEW raw2, NEW sha, NEW sha2, NEW o, NEW o2, o.valid, o2.valid,
         o.needs = o2.needs, o = PullMerge(n, raw, sha), o2 = PullMerge(n2, raw2, sha2)
  PROVE  o.calls = o2.calls
<1> DEFINE method == MergeMethod(raw)
           method2 == MergeMethod(raw2)
           a == <<"method", method>>
           a2 == <<"method", method2>>
           b == <<"sha", sha>>
           b2 == <<"sha", sha2>>
           calls(m, x, s) == <<Call("PUT", "merge", m, Given([method |-> x, sha |-> s]), NoLists, NoLists)>>
           stated == <<a>> \o MergePin(sha)
           stated2 == <<a2>> \o MergePin(sha2)
<1>1. /\ Asks(o, "pull.merge", OnPull(n), stated, calls(n, method, sha))
      /\ Asks(o2, "pull.merge", OnPull(n2), stated2, calls(n2, method2, sha2))
  BY MergerAsks
<1>2. /\ a = a2 => method = method2
      /\ b = b2 => sha = sha2
      /\ a # b2 /\ b # a2
  <2> HIDE DEF method, method2
  <2> QED
    OBVIOUS
<1> HIDE DEF method, method2, calls
<1>3. ASSUME NEW x, NEW s
      PROVE  LET all == <<x>> \o MergePin(s)
             IN  ToSet(all) = {x} \cup (IF s = "" THEN {} ELSE {<<"sha", s>>})
  <2> DEFINE p == <<"sha", s>>
             front == <<x>>
             pin == MergePin(s)
             S == {x, p}
  <2>1. pin = IF s = "" THEN <<>> ELSE <<p>>
    BY DEF MergePin
  <2> HIDE DEF p
  <2>2. front \in Seq(S) /\ ToSet(front) = {x} /\ <<p>> \in Seq(S) /\ ToSet(<<p>>) = {p}
    BY AloneIn
  <2> HIDE DEF S, pin
  <2>3. pin \in Seq(S) /\ ToSet(pin) = IF s = "" THEN {} ELSE {p}
    <3>1. CASE s = ""
      <4>1. pin = <<>>
        BY <2>1, <3>1
      <4> QED
        BY <3>1, <4>1, EmptySeq, EmptyIs
    <3>2. CASE s # ""
      <4>1. pin = <<p>>
        BY <2>1, <3>2
      <4> QED
        BY <2>2, <3>2, <4>1
    <3> QED
      BY <3>1, <3>2
  <2> HIDE DEF front
  <2>4. ToSet(front \o pin) = ToSet(front) \cup ToSet(pin)
    <3>1. front \in Seq(S) /\ pin \in Seq(S)
      BY <2>2, <2>3
    <3> QED
      BY <3>1, Joined
  <2>5. ToSet(front \o pin) = {x} \cup (IF s = "" THEN {} ELSE {p})
    BY <2>2, <2>3, <2>4
  <2> QED
    BY <2>5 DEF front, pin, p
<1>4. /\ ToSet(stated) = {a} \cup (IF sha = "" THEN {} ELSE {b})
      /\ ToSet(stated2) = {a2} \cup (IF sha2 = "" THEN {} ELSE {b2})
  BY <1>3
<1> HIDE DEF stated, stated2, a, a2, b, b2
<1>5. /\ OnPull(n) = OnPull(n2) /\ stated = stated2
      /\ o.calls = calls(n, method, sha) /\ o2.calls = calls(n2, method2, sha2)
  BY <1>1, SameRight
<1>6. method = method2
  BY <1>2, <1>4, <1>5
<1>7. sha = sha2
  <2>1. a = a2
    BY <1>6 DEF a, a2
  <2>2. a # b /\ a # b2
    BY <1>2, <2>1
  <2>3. CASE sha = ""
    <3>1. ToSet(stated2) = {a}
      BY <1>4, <1>5, <2>3
    <3>2. b2 \notin ToSet(stated2)
      BY <2>2, <3>1
    <3> QED
      BY <1>4, <2>3, <3>2
  <2>4. CASE sha # ""
    <3>1. b \in ToSet(stated2) /\ b # a2
      BY <1>4, <1>5, <2>1, <2>2, <2>4
    <3>2. b = b2 /\ sha2 # ""
      BY <1>4, <3>1
    <3> QED
      BY <1>2, <3>2
  <2> QED
    BY <2>3, <2>4
<1>8. n = n2
  BY <1>5, SamePart
<1> QED
  BY <1>5, <1>6, <1>7, <1>8

LEMMA SameCreate ==
  ASSUME NEW title, NEW body, NEW head, NEW base, NEW draft,
         NEW title2, NEW body2, NEW head2, NEW base2, NEW draft2,
         NEW o, NEW o2, o.valid, o2.valid, o.needs = o2.needs,
         o = PullCreate(title, body, head, base, draft),
         o2 = PullCreate(title2, body2, head2, base2, draft2)
  PROVE  o.calls = o2.calls
<1> DEFINE stated == Each(<<title, body, head, base, draft>>)
           stated2 == Each(<<title2, body2, head2, base2, draft2>>)
           calls(t, b, h, a, d) ==
             <<Post("pulls", 0, Given([title |-> t, head |-> h, base |-> a, body |-> b, draft |-> d]))>>
<1>1. /\ Asks(o, "pull.create", OnRepo, stated, calls(title, body, head, base, draft))
      /\ Asks(o2, "pull.create", OnRepo, stated2, calls(title2, body2, head2, base2, draft2))
  BY CreatorsAsk
<1>2. /\ stated[1] = <<title>> /\ stated[2] = <<body>> /\ stated[3] = <<head>>
      /\ stated[4] = <<base>> /\ stated[5] = <<draft>>
  BY DEF Each
<1>3. /\ stated2[1] = <<title2>> /\ stated2[2] = <<body2>> /\ stated2[3] = <<head2>>
      /\ stated2[4] = <<base2>> /\ stated2[5] = <<draft2>>
  BY DEF Each
<1> HIDE DEF stated, stated2, calls
<1>4. /\ stated = stated2 /\ o.calls = calls(title, body, head, base, draft)
      /\ o2.calls = calls(title2, body2, head2, base2, draft2)
  BY <1>1, SameRight
<1>5. title = title2 /\ body = body2 /\ head = head2 /\ base = base2 /\ draft = draft2
  BY <1>2, <1>3, <1>4
<1> QED
  BY <1>4, <1>5

LEMMA SameView ==
  ASSUME NEW n, NEW n2, NEW comments \in BOOLEAN, NEW comments2 \in BOOLEAN,
         NEW o, NEW o2, o.valid, o2.valid, o.needs = o2.needs
  PROVE  /\ o = IssueView(n, comments) /\ o2 = IssueView(n2, comments2) => o.calls = o2.calls
         /\ o = PullView(n, comments) /\ o2 = PullView(n2, comments2) => o.calls = o2.calls
<1>0. Actions(o) = Actions(o2)
  BY DEF Actions
<1>1. CASE o = IssueView(n, comments) /\ o2 = IssueView(n2, comments2)
  <2>1. /\ Actions(o) = {"issue.view"} \cup (IF comments THEN {"comment.read"} ELSE {})
        /\ o.calls = IssueViewCalls(n, comments)
        /\ \A r \in o.needs : r.on = OnIssue(n)
    BY <1>1, ViewersAsk
  <2>2. /\ Actions(o2) = {"issue.view"} \cup (IF comments2 THEN {"comment.read"} ELSE {})
        /\ o2.calls = IssueViewCalls(n2, comments2)
        /\ \A r \in o2.needs : r.on = OnIssue(n2)
    BY <1>1, ViewersAsk
  <2>3. comments = comments2
    <3>1. ("comment.read" \in Actions(o) <=> comments) /\ ("comment.read" \in Actions(o2) <=> comments2)
      BY <2>1, <2>2
    <3> QED
      BY <1>0, <3>1
  <2>4. o.needs # {}
    BY <2>1 DEF Actions
  <2>5. n = n2
    BY <2>1, <2>2, <2>4, SamePart
  <2> QED
    BY <2>1, <2>2, <2>3, <2>5
<1>2. CASE o = PullView(n, comments) /\ o2 = PullView(n2, comments2)
  <2>1. /\ Actions(o) = {"pull.view"} \cup (IF comments THEN {"comment.read"} ELSE {})
        /\ o.calls = PullViewCalls(n, comments)
        /\ \A r \in o.needs : r.on = OnPull(n)
    BY <1>2, ViewersAsk
  <2>2. /\ Actions(o2) = {"pull.view"} \cup (IF comments2 THEN {"comment.read"} ELSE {})
        /\ o2.calls = PullViewCalls(n2, comments2)
        /\ \A r \in o2.needs : r.on = OnPull(n2)
    BY <1>2, ViewersAsk
  <2>3. comments = comments2
    <3>1. ("comment.read" \in Actions(o) <=> comments) /\ ("comment.read" \in Actions(o2) <=> comments2)
      BY <2>1, <2>2
    <3> QED
      BY <1>0, <3>1
  <2>4. o.needs # {}
    BY <2>1 DEF Actions
  <2>5. n = n2
    BY <2>1, <2>2, <2>4, SamePart
  <2> QED
    BY <2>1, <2>2, <2>3, <2>5
<1> QED
  BY <1>1, <1>2

LEMMA SameNeedsSameCalls ==
  ASSUME NEW o, NEW o2, Made(o), Made(o2), o.valid, o2.valid, o.needs = o2.needs,
         ListsApart(o, o2), ~Needs(o, "issue.create"), ~Needs(o, "issue.close")
  PROVE  o.calls = o2.calls
<1>0. Actions(o) = Actions(o2)
  BY DEF Actions
<1>1. Actions(o) # {"issue.create"} /\ Actions(o) # {"issue.close"}
  <2>1. "issue.create" \notin Actions(o) /\ "issue.close" \notin Actions(o)
    BY DEF Actions, Needs
  <2> QED
    BY <2>1
<1>2. CASE Reading(o)
  <2>1. CASE o \in {Clone, Push, IssueList, PullList}
    <3>1. /\ o = Clone => Actions(o) = {"repo.clone"}
          /\ o = Push => Actions(o) = {"repo.push"}
          /\ o = IssueList => Actions(o) = {"issue.list"}
          /\ o = PullList => Actions(o) = {"pull.list"}
      BY AskedActions, OneAction
    <3>2. /\ o = Clone => o2 = Clone
          /\ o = Push => o2 = Push
          /\ o = IssueList => o2 = IssueList
          /\ o = PullList => o2 = PullList
      BY <1>0, <3>1, MadeBy
    <3> QED
      BY <2>1, <3>2
  <2>2. CASE \E n : o = PullDiff(n)
    <3>1. Actions(o) = {"pull.diff"}
      BY <2>2, AskedActions, OneAction
    <3>2. \E n : o2 = PullDiff(n)
      BY <1>0, <3>1, MadeBy
    <3> QED
      BY <2>2, <3>2, SameState
  <2>3. CASE \E n : \E comments \in BOOLEAN : o = IssueView(n, comments)
    <3>1. "issue.view" \in Actions(o)
      BY <2>3, ViewersAsk
    <3>2. \E n : \E comments \in BOOLEAN : o2 = IssueView(n, comments)
      BY <1>0, <3>1, MadeBy
    <3> QED
      BY <2>3, <3>2, SameView
  <2>4. CASE \E n : \E comments \in BOOLEAN : o = PullView(n, comments)
    <3>1. "pull.view" \in Actions(o)
      BY <2>4, ViewersAsk
    <3>2. \E n : \E comments \in BOOLEAN : o2 = PullView(n, comments)
      BY <1>0, <3>1, MadeBy
    <3> QED
      BY <2>4, <3>2, SameView
  <2> QED
    BY <1>2, <2>1, <2>2, <2>3, <2>4 DEF Reading
<1>3. CASE Creating(o)
  <2>1. CASE \E title, body, lists \in Lists :
               o = IssueCreate(title, body, lists.labels, lists.assignees)
    <3>1. Actions(o) = {"issue.create"}
      BY <2>1, AskedActions, OneAction
    <3> QED
      BY <1>1, <3>1
  <2>2. CASE \E title, body, head, base, draft : o = PullCreate(title, body, head, base, draft)
    <3>1. Actions(o) = {"pull.create"}
      BY <2>2, AskedActions, OneAction
    <3>2. \E title, body, head, base, draft : o2 = PullCreate(title, body, head, base, draft)
      BY <1>0, <3>1, MadeBy
    <3> QED
      BY <2>2, <3>2, SameCreate
  <2> QED
    BY <1>3, <2>1, <2>2 DEF Creating
<1>4. CASE Editing(o)
  <2>1. CASE \E n, fields : /\ Fields(fields, {"title", "body"})
                            /\ \E add, remove \in Lists : o = IssueEdit(n, fields, add, remove)
    <3>1. Actions(o) = {"issue.edit"}
      BY <2>1, AskedActions, OneAction
    <3>2. \E n, fields : /\ Fields(fields, {"title", "body"})
                         /\ \E add, remove \in Lists : o2 = IssueEdit(n, fields, add, remove)
      BY <1>0, <3>1, MadeBy
    <3> QED
      BY <2>1, <3>2, SameIssueEdit
  <2>2. CASE \E n, fields : Fields(fields, {"title", "body", "base"}) /\ o = PullEdit(n, fields)
    <3>1. Actions(o) = {"pull.edit"}
      BY <2>2, AskedActions, OneAction
    <3>2. \E n, fields : Fields(fields, {"title", "body", "base"}) /\ o2 = PullEdit(n, fields)
      BY <1>0, <3>1, MadeBy
    <3> QED
      BY <2>2, <3>2, SamePullEdit
  <2> QED
    BY <1>4, <2>1, <2>2 DEF Editing
<1>5. CASE \E n, body : o = IssueComment(n, body)
  <2>1. Actions(o) = {"issue.comment"}
    BY <1>5, AskedActions, OneAction
  <2>2. \E n, body : o2 = IssueComment(n, body)
    BY <1>0, <2>1, MadeBy
  <2>3. PICK n, body : o = IssueComment(n, body)
    BY <1>5
  <2>4. PICK n2, body2 : o2 = IssueComment(n2, body2)
    BY <2>2
  <2> QED
    BY <2>3, <2>4, SameIssueComment
<1>6. CASE \E n, body : o = PullComment(n, body)
  <2>1. Actions(o) = {"pull.comment"}
    BY <1>6, AskedActions, OneAction
  <2>2. \E n, body : o2 = PullComment(n, body)
    BY <1>0, <2>1, MadeBy
  <2>3. PICK n, body : o = PullComment(n, body)
    BY <1>6
  <2>4. PICK n2, body2 : o2 = PullComment(n2, body2)
    BY <2>2
  <2> QED
    BY <2>3, <2>4, SamePullComment
<1>7. CASE \E n, reason : o = IssueClose(n, reason)
  <2>1. Actions(o) = {"issue.close"}
    BY <1>7, AskedActions, OneAction
  <2> QED
    BY <1>1, <2>1
<1>8. CASE \E n : o = IssueReopen(n)
  <2>1. Actions(o) = {"issue.reopen"}
    BY <1>8, AskedActions, OneAction
  <2>2. \E n : o2 = IssueReopen(n)
    BY <1>0, <2>1, MadeBy
  <2> QED
    BY <1>8, <2>2, SameState
<1>9. CASE \E n : o = PullClose(n)
  <2>1. Actions(o) = {"pull.close"}
    BY <1>9, AskedActions, OneAction
  <2>2. \E n : o2 = PullClose(n)
    BY <1>0, <2>1, MadeBy
  <2> QED
    BY <1>9, <2>2, SameState
<1>10. CASE \E n : o = PullReopen(n)
  <2>1. Actions(o) = {"pull.reopen"}
    BY <1>10, AskedActions, OneAction
  <2>2. \E n : o2 = PullReopen(n)
    BY <1>0, <2>1, MadeBy
  <2> QED
    BY <1>10, <2>2, SameState
<1>11. CASE \E n, raw, body : o = PullReview(n, raw, body)
  <2>1. Actions(o) = {"pull.review"}
    BY <1>11, AskedActions, OneAction
  <2>2. \E n, raw, body : o2 = PullReview(n, raw, body)
    BY <1>0, <2>1, MadeBy
  <2>3. PICK n, raw, body : o = PullReview(n, raw, body)
    BY <1>11
  <2>4. PICK n2, raw2, body2 : o2 = PullReview(n2, raw2, body2)
    BY <2>2
  <2> QED
    BY <2>3, <2>4, SameReview
<1>12. CASE \E n, raw, sha : o = PullMerge(n, raw, sha)
  <2>1. Actions(o) = {"pull.merge"}
    BY <1>12, AskedActions, OneAction
  <2>2. \E n, raw, sha : o2 = PullMerge(n, raw, sha)
    BY <1>0, <2>1, MadeBy
  <2> QED
    BY <1>12, <2>2, SameMerge
<1>13. \/ Reading(o) \/ Creating(o) \/ Editing(o)
       \/ \E n, body : o = IssueComment(n, body)
       \/ \E n, body : o = PullComment(n, body)
       \/ \E n, reason : o = IssueClose(n, reason)
       \/ \E n : o = IssueReopen(n)
       \/ \E n : o = PullClose(n)
       \/ \E n : o = PullReopen(n)
       \/ \E n, raw, body : o = PullReview(n, raw, body)
       \/ \E n, raw, sha : o = PullMerge(n, raw, sha)
  BY Zenon DEF Made
<1> QED
  BY <1>2, <1>3, <1>4, <1>5, <1>6, <1>7, <1>8, <1>9, <1>10, <1>11, <1>12, <1>13, Zenon

\* A request that is refused needs nothing, and any other needs a right.
Refusable(o) == o.valid <=> o.needs # {}

LEMMA AskerRefusable ==
  ASSUME NEW o, NEW action, AsksFor(o, action)
  PROVE  Refusable(o)
<1>1. PICK on, parts, calls : Asks(o, action, on, parts, calls)
  BY Zenon DEF AsksFor
<1> DEFINE needs == {Right(action, on, parts)}
<1>2. needs # {}
  OBVIOUS
<1>3. PICK valid : o = Operation(valid, needs, calls)
  BY <1>1, Zenon DEF Asks
<1> HIDE DEF needs
<1> QED
  BY <1>2, <1>3 DEF Operation, BadRequest, Refusable

LEMMA ViewerRefusable ==
  ASSUME NEW o, NEW action, NEW on, NEW comments, NEW calls, Views(o, action, on, comments, calls)
  PROVE  Refusable(o)
<1> DEFINE needs == {Right(action, on, <<>>)}
                      \cup (IF comments THEN {Right("comment.read", on, <<>>)} ELSE {})
<1>1. needs # {}
  OBVIOUS
<1>2. PICK valid : o = Operation(valid, needs, calls)
  BY Zenon DEF Views
<1> HIDE DEF needs
<1> QED
  BY <1>1, <1>2 DEF Operation, BadRequest, Refusable

LEMMA ViewsRefusable ==
  ASSUME NEW n, NEW comments
  PROVE  Refusable(IssueView(n, comments)) /\ Refusable(PullView(n, comments))
<1>1. /\ Views(IssueView(n, comments), "issue.view", OnIssue(n), comments, IssueViewCalls(n, comments))
      /\ Views(PullView(n, comments), "pull.view", OnPull(n), comments, PullViewCalls(n, comments))
  BY Zenon DEF Views, IssueView, IssueViewCalls, PullView, PullViewCalls
<1> QED
  BY <1>1, ViewerRefusable, Zenon

LEMMA MadeAsks ==
  ASSUME NEW o, Made(o)
  PROVE  \/ \E action : AsksFor(o, action)
         \/ \E n, comments : o = IssueView(n, comments) \/ o = PullView(n, comments)
<1>1. CASE Reading(o)
  BY <1>1, AskedActions DEF Reading
<1>2. CASE Creating(o)
  BY <1>2, AskedActions DEF Creating
<1>3. CASE Editing(o)
  BY <1>3, AskedActions DEF Editing
<1>4. CASE ~Reading(o) /\ ~Creating(o) /\ ~Editing(o)
  BY <1>4, AskedActions DEF Made
<1> QED
  BY <1>1, <1>2, <1>3, <1>4

LEMMA MadeRefusable ==
  ASSUME NEW o, Made(o)
  PROVE  Refusable(o)
BY MadeAsks, AskerRefusable, ViewsRefusable

\* What an operation needs are rights.
Rights(o) == \A r \in o.needs : r = Right(r.action, r.on, r.parts)

LEMMA RightIs ==
  ASSUME NEW action, NEW on, NEW parts, NEW r, r = Right(action, on, parts)
  PROVE  r = Right(r.action, r.on, r.parts)
<1>1. r.action = action /\ r.on = on /\ r.parts = parts
  BY DEF Right
<1> QED
  BY <1>1

LEMMA AskerRights ==
  ASSUME NEW o, NEW action, AsksFor(o, action)
  PROVE  Rights(o)
<1>1. PICK on, parts, calls : Asks(o, action, on, parts, calls)
  BY Zenon DEF AsksFor
<1> DEFINE right == Right(action, on, parts)
           needs == {right}
<1>2. \A r \in needs : r = Right(r.action, r.on, r.parts)
  <2>1. ASSUME NEW r, r = Right(action, on, parts) PROVE r = Right(r.action, r.on, r.parts)
    BY <2>1, RightIs
  <2> HIDE DEF right
  <2>2. ASSUME NEW r \in needs PROVE r = right
    OBVIOUS
  <2> QED
    BY <2>1, <2>2 DEF right
<1>3. PICK valid : o = Operation(valid, needs, calls)
  BY <1>1, Zenon DEF Asks
<1> HIDE DEF needs
<1>4. o.needs = needs \/ o.needs = {}
  BY <1>3 DEF Operation, BadRequest
<1> QED
  BY <1>2, <1>4 DEF Rights

LEMMA ViewerRights ==
  ASSUME NEW o, NEW action, NEW on, NEW comments, NEW calls, Views(o, action, on, comments, calls)
  PROVE  Rights(o)
<1> DEFINE none == <<>>
           a == Right(action, on, none)
           b == Right("comment.read", on, none)
           needs == {a} \cup (IF comments THEN {b} ELSE {})
<1>1. \A r \in needs : r = Right(r.action, r.on, r.parts)
  <2>1. ASSUME NEW r, NEW x, r = Right(x, on, none) PROVE r = Right(r.action, r.on, r.parts)
    BY <2>1, RightIs
  <2>2. ASSUME NEW r \in needs PROVE \E x : r = Right(x, on, none)
    <3>1. r = a \/ r = b
      <4> HIDE DEF a, b
      <4> QED
        OBVIOUS
    <3> QED
      BY <3>1, Zenon
  <2> QED
    BY <2>1, <2>2
<1>2. PICK valid : o = Operation(valid, needs, calls)
  BY Zenon DEF Views
<1> HIDE DEF needs
<1>3. o.needs = needs \/ o.needs = {}
  BY <1>2 DEF Operation, BadRequest
<1> QED
  BY <1>1, <1>3 DEF Rights

LEMMA MadeRights ==
  ASSUME NEW o, Made(o)
  PROVE  Rights(o)
<1>1. \/ \E action : AsksFor(o, action)
      \/ \E n, comments : o = IssueView(n, comments) \/ o = PullView(n, comments)
  BY MadeAsks
<1>2. ASSUME NEW n, NEW comments PROVE Rights(IssueView(n, comments)) /\ Rights(PullView(n, comments))
  <2>1. /\ Views(IssueView(n, comments), "issue.view", OnIssue(n), comments, IssueViewCalls(n, comments))
        /\ Views(PullView(n, comments), "pull.view", OnPull(n), comments, PullViewCalls(n, comments))
    BY Zenon DEF Views, IssueView, IssueViewCalls, PullView, PullViewCalls
  <2> QED
    BY <2>1, ViewerRights, Zenon
<1> QED
  BY <1>1, <1>2, AskerRights

\* As far as the hash tells them apart, rights that let each other through are
\* the same rights.
LEMMA SameNeedsAre ==
  ASSUME NEW o, NEW o2, Rights(o), Rights(o2), SameNeeds(o, o2), ToldApart(o, o2)
  PROVE  o.needs = o2.needs
<1>1. ASSUME NEW r \in o.needs, NEW s \in o2.needs, AsksTheSame(r, s)
      PROVE  r = s
  <2>1. r.action = s.action /\ r.on = s.on /\ r.parts = s.parts
    BY <1>1 DEF AsksTheSame, ToldApart
  <2>2. r = Right(r.action, r.on, r.parts) /\ s = Right(s.action, s.on, s.parts)
    BY DEF Rights
  <2> QED
    BY <2>1, <2>2
<1>2. ASSUME NEW r \in o.needs, NEW s \in o2.needs PROVE AsksTheSame(r, s) <=> AsksTheSame(s, r)
  BY DEF AsksTheSame
<1> QED
  BY <1>1, <1>2 DEF SameNeeds

\* What was approved for an operation in execution approves only requests that
\* make the same calls on GitHub, as far as the hash and the commas tell them
\* apart and with the two exceptions the property names: whatever goes into a
\* call is in the content.
THEOREM ApprovalsAreExact ==
  ASSUME RequestsAreMade
  PROVE  Spec => []ApprovedExactly
<1>1. Inv => ApprovedExactly
  <2> SUFFICES ASSUME Inv, NEW h \in Handler, pc[h] = "executing",
                      ~Needs(op[h], "issue.create"), ~Needs(op[h], "issue.close"),
                      NEW other \in Requests, SameNeeds(op[h], other), ToldApart(op[h], other)
               PROVE  other.calls = op[h].calls
    BY DEF ApprovedExactly, ApprovesOnly
  <2>1. Made(op[h]) /\ op[h].valid /\ Made(other)
    BY DEF Inv, Work, RequestsAreMade
  <2>2. op[h].needs = other.needs
    BY <2>1, MadeRights, SameNeedsAre
  <2>3. other.valid
    BY <2>1, <2>2, MadeRefusable DEF Refusable
  <2>4. ListsApart(op[h], other)
    BY DEF ToldApart, ListsApart
  <2> QED
    BY <2>1, <2>2, <2>3, <2>4, SameNeedsSameCalls
<1> QED
  BY <1>1, InvHolds, PTL
=============================================================================
