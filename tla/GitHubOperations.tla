-------------------------- MODULE GitHubOperations --------------------------
(***************************************************************************)
(* The operations of the GitHub resource server: what each of them states  *)
(* it needs (Requirements) and what it then does on GitHub (Execute), some *)
(* in several calls, while other operations and other people work on the   *)
(* same issues and pull requests.                                          *)
(*                                                                         *)
(* A factory turns the parameters of a request into an operation, here the *)
(* record of its needs and of its calls, or refuses them.  One repository; *)
(* strings stand for what is left when the factory has trimmed them.       *)
(* GitHub itself is external.                                              *)
(***************************************************************************)
EXTENDS Integers, SequencesExt

CONSTANTS
  Handler,    \* goroutines executing an operation
  Requests,   \* what the factories make of the requests an instance serves
  Number,     \* numbers of issues and pull requests
  Label, User, Sha,
  Bytes(_),   \* the bytes of a part of a content
  Join(_),    \* names, and commas between them, as one string
  Digest(_),  \* the first 48 bits of the SHA-256 of bytes
  MaxPosts    \* bound of the model: comments and reviews GitHub takes per item

ASSUME NumberAssumption == Number \subseteq Nat \ {0}
ASSUME MaxPostsAssumption == MaxPosts \in Nat

VARIABLES
  items,    \* GitHub: number -> issue or pull request; partial
  pc,       \* handler -> "idle", "executing" or "done"
  op,       \* handler -> the operation it executes
  next,     \* handler -> index of its next call
  current,  \* handler -> the lists it read
  seen,     \* handler -> the parts it read
  result    \* handler -> its answer to the client

workVars == <<op, next, current, seen, result>>
vars == <<items, pc, workVars>>

-----------------------------------------------------------------------------
(* Rights and calls.                                                       *)

OnRepo == [type |-> "repo", n |-> 0]
OnIssue(n) == [type |-> "issue", n |-> n]
OnPull(n) == [type |-> "pull", n |-> n]

\* What a requirement says of the content, in parts, before it is hashed.
Right(action, on, parts) == [action |-> action, on |-> on, parts |-> parts]

\* Every part is closed by a zero, which texts may hold too.
contentHash(parts) == Digest(FlattenSeq([i \in DOMAIN parts |-> Append(Bytes(parts[i]), 0)]))

\* The content goes into a requirement hashed; only a merge states it in the clear.
Context(r) == IF r.action = "pull.merge" \/ r.parts = <<>> THEN r.parts ELSE contentHash(r.parts)

\* Do two rights read the same where they are asked for?
AsksTheSame(r, s) == r.action = s.action /\ r.on = s.on /\ Context(r) = Context(s)

NoFields == [f \in {} |-> ""]
NoLists == [labels |-> <<>>, assignees |-> <<>>]

\* A field is only sent when it has a value.
Given(fields) == [f \in {g \in DOMAIN fields : fields[g] # ""} |-> fields[f]]

Call(verb, at, n, fields, add, remove) ==
  [verb |-> verb, at |-> at, n |-> n, fields |-> fields, add |-> add, remove |-> remove]

Get(part, n) == Call("GET", part, n, NoFields, NoLists, NoLists)
Post(at, n, fields) == Call("POST", at, n, fields, NoLists, NoLists)
Patch(at, n, fields) == Call("PATCH", at, n, fields, NoLists, NoLists)

BadRequest == [needs |-> {}, calls |-> <<>>, valid |-> FALSE]

Operation(valid, needs, calls) ==
  IF valid THEN [needs |-> needs, calls |-> calls, valid |-> TRUE] ELSE BadRequest

Each(list) == [i \in DOMAIN list |-> <<list[i]>>]

\* A field that was given, with its value.
Part(fields, f) == IF f \in DOMAIN fields THEN <<<<f, fields[f]>>>> ELSE <<>>

-----------------------------------------------------------------------------
(* The operations.                                                         *)

Clone == Operation(TRUE, {Right("repo.clone", OnRepo, <<>>)}, <<>>)

Push == Operation(TRUE, {Right("repo.push", OnRepo, <<>>)}, <<>>)

IssueList == Operation(TRUE, {Right("issue.list", OnRepo, <<>>)}, <<Get("issues", 0)>>)

PullList == Operation(TRUE, {Right("pull.list", OnRepo, <<>>)}, <<Get("pulls", 0)>>)

IssueView(n, comments) ==
  Operation(n > 0,
    {Right("issue.view", OnIssue(n), <<>>)}
      \cup (IF comments THEN {Right("comment.read", OnIssue(n), <<>>)} ELSE {}),
    <<Get("issue", n)>> \o (IF comments THEN <<Get("comments", n)>> ELSE <<>>))

PullView(n, comments) ==
  Operation(n > 0,
    {Right("pull.view", OnPull(n), <<>>)}
      \cup (IF comments THEN {Right("comment.read", OnPull(n), <<>>)} ELSE {}),
    <<Get("pull", n)>>
      \o (IF comments
          THEN <<Get("comments", n), Get("review comments", n), Get("reviews", n)>>
          ELSE <<>>))

PullDiff(n) == Operation(n > 0, {Right("pull.diff", OnPull(n), <<>>)}, <<Get("diff", n)>>)

IssueComment(n, body) ==
  Operation(n > 0 /\ body # "",
    {Right("issue.comment", OnIssue(n), <<<<body>>>>)},
    <<Post("comments", n, [body |-> body])>>)

\* The conversation of a pull request has the endpoint of an issue's comments.
PullComment(n, body) ==
  Operation(n > 0 /\ body # "",
    {Right("pull.comment", OnPull(n), <<<<body>>>>)},
    <<Post("comments", n, [body |-> body])>>)

IssueCreate(title, body, labels, assignees) ==
  Operation(title # "",
    {Right("issue.create", OnRepo,
           <<<<title>>, <<body>>>> \o Each(labels) \o Each(assignees))},
    <<Call("POST", "issues", 0, Given([title |-> title, body |-> body]),
           [labels |-> labels, assignees |-> assignees], NoLists)>>)

PullCreate(title, body, head, base, draft) ==
  Operation(title # "" /\ head # "" /\ base # "",
    {Right("pull.create", OnRepo, Each(<<title, body, head, base, draft>>))},
    <<Post("pulls", 0, Given([title |-> title, head |-> head, base |-> base,
                              body |-> body, draft |-> draft]))>>)

\* Seeded fault: the status goes the way of the other fields.
IssueEditAny(n, fields, add, remove) ==
  Operation(n > 0,
    {Right("issue.edit", OnIssue(n),
           Part(fields, "title") \o Part(fields, "body")
             \o <<<<"addL", Join(add.labels)>>, <<"rmL", Join(remove.labels)>>,
                  <<"addA", Join(add.assignees)>>, <<"rmA", Join(remove.assignees)>>>>)},
    <<Get("issue", n), Call("PATCH", "issue", n, fields @@ ("status" :> "open"), add, remove)>>)

\* Editing a list takes two calls: it is read, changed here and written back
\* whole.
IssueEdit(n, fields, add, remove) ==
  Operation(n > 0 /\ (DOMAIN fields # {} \/ add # NoLists \/ remove # NoLists),
    {Right("issue.edit", OnIssue(n),
           Part(fields, "title") \o Part(fields, "body")
             \o <<<<"addL", Join(add.labels)>>, <<"rmL", Join(remove.labels)>>,
                  <<"addA", Join(add.assignees)>>, <<"rmA", Join(remove.assignees)>>>>)},
    (IF add # NoLists \/ remove # NoLists THEN <<Get("issue", n)>> ELSE <<>>)
      \o <<Call("PATCH", "issue", n, fields, add, remove)>>)

PullEdit(n, fields) ==
  Operation(n > 0 /\ DOMAIN fields # {},
    {Right("pull.edit", OnPull(n),
           Part(fields, "title") \o Part(fields, "body") \o Part(fields, "base"))},
    <<Patch("pull", n, fields)>>)

\* "not planned" is sent as GitHub spells it.
CloseReason(reason) == IF reason = "not planned" THEN "not_planned" ELSE reason

IssueClose(n, reason) ==
  Operation(n > 0 /\ CloseReason(reason) \in {"", "completed", "not_planned"},
    {Right("issue.close", OnIssue(n), <<>>)},
    <<Patch("issue", n, Given([status |-> "closed", reason |-> CloseReason(reason)]))>>)

IssueReopen(n) ==
  Operation(n > 0, {Right("issue.reopen", OnIssue(n), <<>>)},
            <<Patch("issue", n, [status |-> "open"])>>)

PullClose(n) ==
  Operation(n > 0, {Right("pull.close", OnPull(n), <<>>)},
            <<Patch("pull", n, [status |-> "closed"])>>)

PullReopen(n) ==
  Operation(n > 0, {Right("pull.reopen", OnPull(n), <<>>)},
            <<Patch("pull", n, [status |-> "open"])>>)

ReviewEvent(raw) ==
  CASE raw \in {"approve", "APPROVE"} -> "APPROVE"
    [] raw \in {"request_changes", "request-changes", "REQUEST_CHANGES"} -> "REQUEST_CHANGES"
    [] raw \in {"comment", "COMMENT"} -> "COMMENT"
    [] OTHER -> ""

\* Only an approval may go without a text.
PullReview(n, raw, body) ==
  LET event == ReviewEvent(raw)
  IN  Operation(n > 0 /\ event # "" /\ (body = "" => event = "APPROVE"),
        {Right("pull.review", OnPull(n), Each(<<event, body>>))},
        <<Post("reviews", n, Given([event |-> event, body |-> body]))>>)

\* No method is the method "merge".
MergeMethod(raw) == IF raw = "" THEN "merge" ELSE raw

\* Seeded fault: the expected head is not sent.
PullMergeAnyHead(n, raw, sha) ==
  LET method == MergeMethod(raw)
  IN  Operation(n > 0 /\ method \in {"merge", "squash", "rebase"},
        {Right("pull.merge", OnPull(n),
               <<<<"method", method>>>> \o (IF sha = "" THEN <<>> ELSE <<<<"sha", sha>>>>))},
        <<Call("PUT", "merge", n, [method |-> method], NoLists, NoLists)>>)

\* Seeded fault: the expected head is sent but not part of what is approved.
PullMergeUnpinned(n, raw, sha) ==
  LET method == MergeMethod(raw)
  IN  Operation(n > 0 /\ method \in {"merge", "squash", "rebase"},
        {Right("pull.merge", OnPull(n), <<<<"method", method>>>>)},
        <<Call("PUT", "merge", n, Given([method |-> method, sha |-> sha]), NoLists, NoLists)>>)

\* A head that is given must be the head merged.
PullMerge(n, raw, sha) ==
  LET method == MergeMethod(raw)
  IN  Operation(n > 0 /\ method \in {"merge", "squash", "rebase"},
        {Right("pull.merge", OnPull(n),
               <<<<"method", method>>>> \o (IF sha = "" THEN <<>> ELSE <<<<"sha", sha>>>>))},
        <<Call("PUT", "merge", n, Given([method |-> method, sha |-> sha]), NoLists, NoLists)>>)

-----------------------------------------------------------------------------
(* GitHub.  The endpoints of an issue take the number of a pull request    *)
(* too.                                                                    *)

Blank(kind, tip) ==
  [kind |-> kind, status |-> "open", reason |-> "", title |-> "", body |-> "", base |-> "",
   labels |-> {}, assignees |-> {}, tip |-> tip, posts |-> <<>>]

Exists(c) ==
  CASE c.at \in {"issues", "pulls"} -> TRUE
    [] c.at \in {"issue", "comments"} -> c.n \in DOMAIN items
    [] OTHER -> c.n \in DOMAIN items /\ items[c.n].kind = "pull"

\* Fields that GitHub was given replace those of the item; a change of the
\* status drops the reason of the one before.
Patched(item, payload) ==
  [f \in DOMAIN item |-> IF f \in DOMAIN payload THEN payload[f]
                         ELSE IF f = "reason" /\ "status" \in DOMAIN payload THEN ""
                         ELSE item[f]]

\* The items with a new one that has this payload.
Created(kind, payload) ==
  {[m \in DOMAIN items \cup {n} |->
      IF m = n THEN Patched(Blank(kind, tip), payload) ELSE items[m]] :
     n \in Number \ DOMAIN items, tip \in Sha}

\* What GitHub may make of its items when it takes call c with this payload;
\* nothing if it refuses the call.
Outcomes(c, payload) ==
  CASE c.at = "issues" -> Created("issue", payload)
    [] c.at = "pulls" -> Created("pull", payload)
    [] c.at \in {"issue", "pull"} ->
         {[items EXCEPT ![n] = Patched(@, payload)] :
            n \in {m \in {c.n} : "status" \in DOMAIN payload => items[m].status # "merged"}}
    [] c.at = "merge" ->
         {[items EXCEPT ![n].status = "merged"] :
            n \in {m \in {c.n} : /\ items[m].status = "open"
                                 /\ "sha" \in DOMAIN payload => payload.sha = items[m].tip}}
    [] OTHER ->
         {[items EXCEPT ![n].posts = Append(@, payload)] :
            n \in {m \in {c.n} : Len(items[m].posts) < MaxPosts}}

\* Other people, and git: lists, status and head of an item change at any time.
OthersMove ==
  /\ \E n \in DOMAIN items :
       \/ \E l \in Label : items' = [items EXCEPT ![n].labels = SymDiff(@, {l})]
       \/ \E u \in User : items' = [items EXCEPT ![n].assignees = SymDiff(@, {u})]
       \/ /\ items[n].status # "merged"
          /\ items' = [items EXCEPT ![n].reason = "",
                                    ![n].status = IF @ = "open" THEN "closed" ELSE "open"]
       \/ /\ items[n].kind = "pull" /\ items[n].status = "open"
          /\ \/ \E s \in Sha \ {items[n].tip} : items' = [items EXCEPT ![n].tip = s]
             \/ items' = [items EXCEPT ![n].status = "merged"]
  /\ UNCHANGED <<pc, workVars>>

-----------------------------------------------------------------------------
(* Executing an operation.                                                 *)

\* Seeded fault: what is to be removed leaves only the part that is added.
ApplyRemoveToAdd(old, add, remove) ==
  LET all == old \o add
      kept[i \in 0..Len(all)] ==
        IF i = 0 THEN <<>>
        ELSE IF (i > Len(old) /\ all[i] \in ToSet(remove)) \/ all[i] \in ToSet(kept[i - 1])
        THEN kept[i - 1] ELSE Append(kept[i - 1], all[i])
  IN  kept[Len(all)]

\* The old list without what is removed, then what is added, each name once.
ApplyAddRemove(old, add, remove) ==
  LET all == old \o add
      kept[i \in 0..Len(all)] ==
        IF i = 0 THEN <<>>
        ELSE IF (i <= Len(old) /\ all[i] \in ToSet(remove)) \/ all[i] \in ToSet(kept[i - 1])
        THEN kept[i - 1] ELSE Append(kept[i - 1], all[i])
  IN  kept[Len(all)]

\* The lists that call c writes.
Edits(c) == {l \in {"labels", "assignees"} : c.add[l] # <<>> \/ c.remove[l] # <<>>}

\* The fields of a call, and the lists it edits: as they were read, changed.
Payload(c, read) ==
  [f \in DOMAIN c.fields \cup Edits(c) |->
     IF f \in DOMAIN c.fields THEN c.fields[f]
     ELSE ToSet(ApplyAddRemove(read[f], c.add[f], c.remove[f]))]

CallOf(h) == op[h].calls[next[h]]

Idle(h) == /\ op[h] = BadRequest
           /\ next[h] = 0 /\ current[h] = NoLists /\ seen[h] = {} /\ result[h] = ""

TypeOK ==
  /\ DOMAIN items \subseteq Number
  /\ \A n \in DOMAIN items :
       /\ DOMAIN items[n] = DOMAIN Blank("", "")
       /\ items[n].kind \in {"issue", "pull"}
       /\ items[n].status \in {"open", "closed"}
                                \cup (IF items[n].kind = "pull" THEN {"merged"} ELSE {})
       /\ items[n].labels \subseteq Label /\ items[n].assignees \subseteq User
       /\ items[n].tip \in Sha /\ Len(items[n].posts) <= MaxPosts
  /\ \A h \in Handler :
       CASE pc[h] = "idle" -> Idle(h)
         [] pc[h] = "executing" -> /\ op[h] \in Requests /\ op[h].valid /\ result[h] = ""
                                   /\ next[h] \in DOMAIN op[h].calls
         [] pc[h] = "done" -> result[h] \in {"completed", "failed", "bad_request"}
         [] OTHER -> FALSE

Init ==
  /\ items = [n \in {} |-> Blank("", "")]
  /\ pc = [h \in Handler |-> "idle"]
  /\ op = [h \in Handler |-> BadRequest]
  /\ next = [h \in Handler |-> 0]
  /\ current = [h \in Handler |-> NoLists]
  /\ seen = [h \in Handler |-> {}]
  /\ result = [h \in Handler |-> ""]

Answer(h, r) ==
  /\ pc' = [pc EXCEPT ![h] = "done"]
  /\ result' = [result EXCEPT ![h] = r]

\* The first error of a call ends the operation.
Fail(h) == Answer(h, "failed") /\ UNCHANGED next

\* Seeded fault: the calls do not end.
AdvanceAlways(h) == next' = [next EXCEPT ![h] = @ + 1] /\ UNCHANGED <<pc, result>>

\* After the last call the result is complete.
Advance(h) ==
  IF next[h] = Len(op[h].calls)
  THEN Answer(h, "completed") /\ UNCHANGED next
  ELSE next' = [next EXCEPT ![h] = @ + 1] /\ UNCHANGED <<pc, result>>

\* A request that passed the authorization of its needs is executed.
HandleOperation(h, o) ==
  /\ pc[h] = "idle"
  /\ op' = [op EXCEPT ![h] = o]
  /\ IF ~o.valid THEN Answer(h, "bad_request") /\ UNCHANGED next
     ELSE IF o.calls = <<>> THEN Answer(h, "completed") /\ UNCHANGED next
     ELSE /\ pc' = [pc EXCEPT ![h] = "executing"]
          /\ next' = [next EXCEPT ![h] = 1]
          /\ UNCHANGED result
  /\ UNCHANGED <<items, current, seen>>

\* Seeded fault: a part that cannot be read is left out of the answer.
GetJSONLax(h) ==
  /\ pc[h] = "executing" /\ CallOf(h).verb = "GET"
  /\ \/ /\ Exists(CallOf(h))
        /\ seen' = [seen EXCEPT ![h] = @ \cup {CallOf(h).at}]
        /\ current' = IF CallOf(h).at = "issue"
                      THEN LET item == items[CallOf(h).n]
                           IN  [current EXCEPT ![h] = [labels |-> SetToSeq(item.labels),
                                                       assignees |-> SetToSeq(item.assignees)]]
                      ELSE current
     \/ UNCHANGED <<seen, current>>
  /\ Advance(h)
  /\ UNCHANGED <<items, op>>

\* A read is answered, or refused, lost or timed out.
GetJSON(h) ==
  /\ pc[h] = "executing" /\ CallOf(h).verb = "GET"
  /\ \/ /\ Exists(CallOf(h))
        /\ seen' = [seen EXCEPT ![h] = @ \cup {CallOf(h).at}]
        /\ current' = IF CallOf(h).at = "issue"
                      THEN LET item == items[CallOf(h).n]
                           IN  [current EXCEPT ![h] = [labels |-> SetToSeq(item.labels),
                                                       assignees |-> SetToSeq(item.assignees)]]
                      ELSE current
        /\ Advance(h)
     \/ /\ Fail(h)
        /\ UNCHANGED <<seen, current>>
  /\ UNCHANGED <<items, op>>

\* A write is taken and answered, taken with the answer lost, or neither.
SendJSON(h) ==
  /\ pc[h] = "executing" /\ CallOf(h).verb # "GET"
  /\ \/ /\ Exists(CallOf(h))
        /\ items' \in Outcomes(CallOf(h), Payload(CallOf(h), current[h]))
        /\ Advance(h) \/ Fail(h)
     \/ /\ Fail(h)
        /\ UNCHANGED items
  /\ UNCHANGED <<op, current, seen>>

Reply(h) ==
  /\ pc[h] = "done"
  /\ pc' = [pc EXCEPT ![h] = "idle"]
  /\ op' = [op EXCEPT ![h] = BadRequest]
  /\ next' = [next EXCEPT ![h] = 0]
  /\ current' = [current EXCEPT ![h] = NoLists]
  /\ seen' = [seen EXCEPT ![h] = {}]
  /\ result' = [result EXCEPT ![h] = ""]
  /\ UNCHANGED items

Next ==
  \/ \E h \in Handler :
       \/ \E o \in Requests : HandleOperation(h, o)
       \/ GetJSON(h)
       \/ SendJSON(h)
       \/ Reply(h)
  \/ OthersMove

Spec == Init /\ [][Next]_vars

-----------------------------------------------------------------------------
(* Properties.                                                             *)

\* A step in which h makes its next call.
Works(h) == pc[h] = "executing" /\ (next'[h] # next[h] \/ pc'[h] # pc[h])

\* A value of a payload; what is not sent is empty.
Sent(payload, f) == IF f \in DOMAIN payload THEN payload[f] ELSE ""

\* The parts of a right that stand for what call c adds to and removes from list l.
ListParts(c, l) ==
  IF l = "labels" THEN {<<"addL", Join(c.add[l])>>, <<"rmL", Join(c.remove[l])>>}
  ELSE {<<"addA", Join(c.add[l])>>, <<"rmA", Join(c.remove[l])>>}

\* Does the right r, as it was approved, let h turn field f of item n into what it becomes?
LetsChange(h, r, n, f) ==
  LET after == items'[n]
      last == Last(after.posts)
      c == CallOf(h)
  IN  r.on.n = n /\
      CASE r.action = "issue.edit" /\ f \in {"labels", "assignees"} ->
             /\ ListParts(c, f) \subseteq ToSet(r.parts)
             /\ after[f] = (ToSet(current[h][f]) \ ToSet(c.remove[f])) \cup ToSet(c.add[f])
        [] r.action \in {"issue.edit", "pull.edit"} /\ f \notin {"labels", "assignees"} ->
             <<f, after[f]>> \in ToSet(r.parts)
        [] r.action \in {"issue.comment", "pull.comment"} ->
             /\ f = "posts" /\ after.posts = Append(items[n].posts, last)
             /\ DOMAIN last = {"body"} /\ r.parts = <<<<last.body>>>>
        [] r.action = "pull.review" ->
             /\ f = "posts" /\ after.posts = Append(items[n].posts, last)
             /\ DOMAIN last \subseteq {"event", "body"}
             /\ r.parts = Each(<<Sent(last, "event"), Sent(last, "body")>>)
        [] r.action = "issue.close" ->
             /\ f \in {"status", "reason"} /\ after.status = "closed"
             /\ after.reason \in {"", "completed", "not_planned"}
        [] r.action = "pull.close" ->
             f \in {"status", "reason"} /\ after.status = "closed" /\ after.reason = ""
        [] r.action \in {"issue.reopen", "pull.reopen"} ->
             f \in {"status", "reason"} /\ after.status = "open" /\ after.reason = ""
        [] r.action = "pull.merge" -> f = "status" /\ after.status = "merged"
        [] OTHER -> FALSE

\* Does the right r let h create item n as it comes out?
LetsCreate(h, r, n) ==
  LET new == items'[n]
      c == CallOf(h)
  IN  \/ /\ r.action = "issue.create" /\ new.kind = "issue"
         /\ r.parts = <<<<new.title>>, <<new.body>>>> \o Each(c.add.labels) \o Each(c.add.assignees)
         /\ new.labels = ToSet(c.add.labels) /\ new.assignees = ToSet(c.add.assignees)
      \/ /\ r.action = "pull.create" /\ new.kind = "pull"
         /\ r.parts = Each(<<new.title, new.body, Sent(c.fields, "head"), new.base,
                            Sent(c.fields, "draft")>>)
         /\ new.labels = {} /\ new.assignees = {}

\* Whatever an operation does to an item, in any of its calls and whoever
\* else works on the item, it had stated in its Requirements, with the value
\* that is written: no field goes along that nobody was asked about, and an
\* operation that states a right to read writes nothing.  An edited list is
\* stated by what is added and removed, each joined to one string, and
\* written as the list that was read, so changed.  One value is not stated:
\* the reason of issue.close, for which the right is to close, for any of the
\* reasons GitHub knows (catalog.go:101).
ChangesAreStated ==
  [][\A h \in Handler : Works(h) =>
       \A n \in DOMAIN items' :
         IF n \in DOMAIN items
         THEN \A f \in DOMAIN items[n] : items'[n][f] # items[n][f] =>
                \E r \in op[h].needs : LetsChange(h, r, n, f)
         ELSE \E r \in op[h].needs : LetsCreate(h, r, n)]_vars

\* What a handler's PATCH makes of a list it edits is the list as it stands,
\* without the names to remove and with those to add.
EditsExactly(h, l) ==
  LET c == CallOf(h)
  IN  items'[c.n][l] = (items[c.n][l] \ ToSet(c.remove[l])) \cup ToSet(c.add[l])

\* Did h just write the lists of its PATCH?
Wrote(h) == Works(h) /\ CallOf(h).verb = "PATCH" /\ (items' # items \/ result'[h] = "completed")

\* An edit writes lists back whole, from an earlier read.  If the list is
\* still, or again, what was read, the edit comes out exact: nothing is lost,
\* doubled or brought back, also where a name is both added and removed.
UndisturbedEditIsExact ==
  [][\A h \in Handler : Wrote(h) =>
       \A l \in Edits(CallOf(h)) :
         ToSet(current[h][l]) = items[CallOf(h).n][l] => EditsExactly(h, l)]_vars

\* IssueEditOperation is documented to apply its add and remove sets to the
\* issue's current values, whatever happened since they were read.
AppliedToCurrentValues ==
  [][\A h \in Handler : Wrote(h) => \A l \in Edits(CallOf(h)) : EditsExactly(h, l)]_vars

\* A merge that was approved for one head merges that head, although commits
\* are pushed between the approval, the request and the call.
MergesApprovedHead ==
  [][\A h \in Handler : Works(h) /\ items' # items =>
       \A r \in op[h].needs : \A s \in Sha :
         r.action = "pull.merge" /\ <<"sha", s>> \in ToSet(r.parts)
         => items[r.on.n].tip = s]_vars

Needs(o, action) == \E r \in o.needs : r.action = action

\* Whoever approved the rights of one of these operations approved the other.
SameNeeds(o, other) ==
  /\ \A r \in o.needs : \E s \in other.needs : AsksTheSame(r, s)
  /\ \A s \in other.needs : \E r \in o.needs : AsksTheSame(s, r)

\* The hash tells the contents of two operations apart, and so does a comma
\* between the names of their lists.
ToldApart(o, other) ==
  /\ \A r \in o.needs, s \in other.needs : AsksTheSame(r, s) => r.parts = s.parts
  /\ \A c \in ToSet(o.calls), d \in ToSet(other.calls), l \in {"labels", "assignees"} :
       /\ Join(c.add[l]) = Join(d.add[l]) => c.add[l] = d.add[l]
       /\ Join(c.remove[l]) = Join(d.remove[l]) => c.remove[l] = d.remove[l]

\* Does no request that needs the same rights as o make other calls than o?
ApprovesOnly(o) ==
  \A other \in Requests : SameNeeds(o, other) /\ ToldApart(o, other) => other.calls = o.calls

\* Everything that an operation in execution puts into its calls is in the
\* content of what was approved for it, and in a place of its own: as far as
\* the hash and the commas tell contents apart, the approval lets no other
\* content through.  That is as far as it goes.  The hash has 48 bits, the
\* zero that ends a part may stand within a text, and an edit joins names
\* that may hold commas, so that different edits can need the same right.
\* Nor does it hold of creating an issue, which the next formula is about,
\* and of closing one, whose reason is no part of the right.
ApprovedExactly ==
  \A h \in Handler :
    /\ pc[h] = "executing"
    /\ ~Needs(op[h], "issue.create") /\ ~Needs(op[h], "issue.close")
    => ApprovesOnly(op[h])

\* Requirements of issue.create are documented to tell different issues apart.
CreatesAsApproved ==
  \A h \in Handler : pc[h] = "executing" /\ Needs(op[h], "issue.create") => ApprovesOnly(op[h])

\* A completed operation answers with every part it was to read: a
\* conversation that could not be read is an error, never an empty one.
WholeAnswers ==
  \A h \in Handler : result[h] = "completed" =>
    seen[h] = {c.at : c \in {d \in ToSet(op[h].calls) : d.verb = "GET"}}
=============================================================================
