----------------------------- MODULE AuthServer -----------------------------
(***************************************************************************)
(* The authorization server: the HTTP handlers of authserver/server over   *)
(* the store of GrantStore, in the process authserver/cli starts.          *)
(*                                                                         *)
(* Every request runs in a goroutine of its own, a member of Handler.  A   *)
(* handler makes one or two calls of the store, each a transaction of its  *)
(* own, and the transactions of other requests, the janitor and the clock  *)
(* come between them: a handler is therefore one action up to and          *)
(* including its first look at shared state, and one more for each later   *)
(* one.  A request refused in its first action changes nothing and is      *)
(* answered at once; an answer that carries anything waits in pc = "done"  *)
(* until it is written to the connection.                                  *)
(*                                                                         *)
(* What is abstracted: an item is a member of Item, Genuine are those      *)
(* whose HMAC verifies under the secret of the registered resource server  *)
(* they name, and Unparsable those whose policy text Cedar cannot parse.   *)
(* What an item grants is the right to do the item: an operation needs a   *)
(* set of items.  A consent-page session is the email it proves (NoOne if  *)
(* there is none); how a session comes about is the login's business.      *)
(***************************************************************************)
EXTENDS Naturals, FiniteSets

CONSTANTS
  Token, ProposalId, Approver, Item, RequestTTL, GrantTTL, MaxTime,
  Handler,      \* goroutines serving a request
  Genuine,      \* items signed by a registered resource server
  Unparsable,   \* items whose policies do not parse
  Spelling,     \* approver emails as a client may write them, "" among them
  Lower,        \* strings.ToLower on them
  NoOne,        \* the email of an anonymous browser
  Ops           \* bound of the model: the kinds of request this instance serves

ASSUME StoreAssumption ==
  /\ RequestTTL \in Nat \ {0}
  /\ GrantTTL \subseteq Nat \ {0}
  /\ MaxTime \in Nat
ASSUME ItemAssumption == Genuine \subseteq Item /\ Unparsable \subseteq Item
ASSUME LowerAssumption == Lower \in [Spelling \ {""} -> Approver]
ASSUME NoOneAssumption == NoOne \notin Approver

VARIABLES
  subjects, minted, proposals, grants, janitor, now,   \* the store
  adminToken,   \* UseAdminToken: "" when none is configured
  loginOn,      \* UseAuth: are the consent pages behind a login?
  pc,           \* handler -> where its goroutine is
  req,          \* handler -> the request it serves
  memo,         \* handler -> what it read from the store and still holds
  result        \* handler -> its answer

storeVars == <<subjects, minted, proposals, grants, janitor, now>>
config == <<adminToken, loginOn>>
handlerVars == <<pc, req, memo, result>>
vars == <<storeVars, config, handlerVars>>

Store == INSTANCE GrantStore

-----------------------------------------------------------------------------
(* The process and its handlers.                                           *)

\* The cleanup goroutine runs exactly as long as the process serves.
Up == janitor = "running"

NoRequest == [op |-> "none"]

Idle(h) == pc[h] = "idle"

\* The handler goes on with its request, remembering what it read.
Goto(h, where, r, m) ==
  /\ pc' = [pc EXCEPT ![h] = where]
  /\ req' = [req EXCEPT ![h] = r]
  /\ memo' = [memo EXCEPT ![h] = m]
  /\ UNCHANGED result

\* The handler has its answer and what goes with it.
Answer(h, r, res, m) ==
  /\ pc' = [pc EXCEPT ![h] = "done"]
  /\ req' = [req EXCEPT ![h] = r]
  /\ memo' = [memo EXCEPT ![h] = m]
  /\ result' = [result EXCEPT ![h] = res]

\* A request turned away before it touched anything.
Refuse == UNCHANGED vars

Init ==
  /\ Store!Init
  /\ adminToken \in {"", "secret"}
  /\ loginOn \in BOOLEAN
  /\ pc = [h \in Handler |-> "idle"]
  /\ req = [h \in Handler |-> NoRequest]
  /\ memo = [h \in Handler |-> {}]
  /\ result = [h \in Handler |-> "none"]

\* Seeded fault: the server starts with an empty grants bucket.
BootAfresh ==
  /\ ~Up
  /\ janitor' = "running"
  /\ grants' = {}
  /\ UNCHANGED <<subjects, minted, proposals, now, config, handlerVars>>

\* The process opens the store, starts the janitor and then listens.
Boot == Store!StartCleanup /\ UNCHANGED <<config, handlerVars>>

\* Exit or crash: the goroutines are gone, the file stays.
Crash ==
  /\ Store!Stop
  /\ pc' = [h \in Handler |-> "idle"]
  /\ req' = [h \in Handler |-> NoRequest]
  /\ memo' = [h \in Handler |-> {}]
  /\ result' = [h \in Handler |-> "none"]
  /\ UNCHANGED config

\* The answer is written, or the client is gone: the goroutine ends.
Reply(h) ==
  /\ pc[h] = "done"
  /\ pc' = [pc EXCEPT ![h] = "idle"]
  /\ req' = [req EXCEPT ![h] = NoRequest]
  /\ memo' = [memo EXCEPT ![h] = {}]
  /\ result' = [result EXCEPT ![h] = "none"]
  /\ UNCHANGED <<storeVars, config>>

-----------------------------------------------------------------------------
(* Who is calling.                                                         *)

\* Seeded fault: an unset admin token equals an empty credential.
RequireAdminUnset(cred) == cred = adminToken

\* Seeded fault: any signed-in person passes.
AnyoneGate(id, email) == loginOn => email # NoOne

\* Administration fails closed: without a configured token nobody is admin.
RequireAdmin(cred) == adminToken # "" /\ cred # "" /\ cred = adminToken

BearerSubject(t) == Store!SubjectExists(t)

\* With the login on, only the proposal's named approver passes.
ApproverGate(id, email) ==
  loginOn => email = Store!GetProposal(id).approver

-----------------------------------------------------------------------------
(* Subject administration.                                                 *)

HandleCreateSubject(h, cred) ==
  /\ "create" \in Ops /\ Up /\ Idle(h)
  /\ \/ ~RequireAdmin(cred) /\ Refuse
     \/ /\ RequireAdmin(cred)
        /\ \E t \in Token :
             /\ Store!CreateSubject(t)
             /\ Answer(h, [op |-> "create", cred |-> cred], "created", {t})
        /\ UNCHANGED config

HandleDestroySubject(h, cred, t) ==
  /\ "destroy" \in Ops /\ Up /\ Idle(h)
  /\ \/ ~RequireAdmin(cred) /\ Refuse
     \/ /\ RequireAdmin(cred)
        /\ Store!DestroySubject(t)
        /\ Answer(h, [op |-> "destroy", cred |-> cred, token |-> t], "destroyed", {})
        /\ UNCHANGED config

\* Inspecting a subject asks whether it exists and then, in a second
\* transaction, for its grants (ReadGrants below).
HandleGetSubject(h, cred, t) ==
  /\ "inspect" \in Ops /\ Up /\ Idle(h)
  /\ \/ ~(RequireAdmin(cred) /\ Store!SubjectExists(t)) /\ Refuse
     \/ /\ RequireAdmin(cred) /\ Store!SubjectExists(t)
        /\ Goto(h, "checked", [op |-> "inspect", cred |-> cred, token |-> t], {})
        /\ UNCHANGED <<storeVars, config>>

\* The operator's view reads the grants first and the proposals after them.
HandleActivity(h, cred) ==
  /\ "activity" \in Ops /\ Up /\ Idle(h)
  /\ \/ ~RequireAdmin(cred) /\ Refuse
     \/ /\ RequireAdmin(cred)
        /\ Goto(h, "checked", [op |-> "activity", cred |-> cred],
                [grants |-> Store!AllGrants, history |-> {}])
        /\ UNCHANGED <<storeVars, config>>

\* Seeded fault: the history leaves out the proposals of destroyed subjects.
ReadHistoryOfSubjects(h) ==
  /\ pc[h] = "checked" /\ req[h].op = "activity"
  /\ Answer(h, req[h], "listed",
            [memo[h] EXCEPT !.history =
               {[proposal |-> id, token |-> proposals[id].token,
                 status |-> Store!ShownStatus(proposals[id])] :
                  id \in {k \in DOMAIN proposals : proposals[k].token \in subjects}}])
  /\ UNCHANGED <<storeVars, config>>

ReadHistory(h) ==
  /\ pc[h] = "checked" /\ req[h].op = "activity"
  /\ Answer(h, req[h], "listed",
            [memo[h] EXCEPT !.history =
               {[proposal |-> id, token |-> proposals[id].token,
                 status |-> Store!ShownStatus(proposals[id])] :
                  id \in DOMAIN Store!AllProposals}])
  /\ UNCHANGED <<storeVars, config>>

-----------------------------------------------------------------------------
(* A subject's own requests.                                               *)

\* Seeded fault: one genuine item vouches for the bundle.
SomeGenuine(who, items) == who # "" /\ items \cap Genuine # {}

\* The body must name an approver and carry items, each of them genuine.
WellFormed(who, items) == who # "" /\ items # {} /\ items \subseteq Genuine

\* Bound of the model: uuids never run out, so a proposal is only begun while
\* ProposalId holds one for it.
FreshIdLeft ==
  Cardinality({h \in Handler : pc[h] \in {"checked", "stamped"}
                                 /\ req[h].op = "propose"})
    < Cardinality(ProposalId \ DOMAIN proposals)

HandleProposal(h, t, who, items) ==
  /\ "propose" \in Ops /\ Up /\ Idle(h) /\ FreshIdLeft
  /\ \/ ~(BearerSubject(t) /\ WellFormed(who, items)) /\ Refuse
     \/ /\ BearerSubject(t) /\ WellFormed(who, items)
        /\ Goto(h, "checked",
                [op |-> "propose", token |-> t, who |-> who, items |-> items], {})
        /\ UNCHANGED <<storeVars, config>>

\* Seeded fault: the expiry is passed where the creation time belongs.
StampExpiry(h) ==
  /\ pc[h] = "checked" /\ req[h].op = "propose"
  /\ Goto(h, "stamped", req[h], now + RequestTTL)
  /\ UNCHANGED <<storeVars, config>>

\* CreateProposal reads the clock, then queues for the write lock.
StampProposal(h) ==
  /\ pc[h] = "checked" /\ req[h].op = "propose"
  /\ Goto(h, "stamped", req[h], now)
  /\ UNCHANGED <<storeVars, config>>

RecordProposal(h) ==
  /\ pc[h] = "stamped"
  /\ \E id \in ProposalId :
       /\ Store!CreateProposal(id, req[h].token, Lower[req[h].who],
                               req[h].items, memo[h])
       /\ Answer(h, req[h], "accepted", {id})
  /\ UNCHANGED config

HandleGetMySubject(h, t) ==
  /\ "mine" \in Ops /\ Up /\ Idle(h)
  /\ \/ ~BearerSubject(t) /\ Refuse
     \/ /\ BearerSubject(t)
        /\ Goto(h, "checked", [op |-> "mine", token |-> t], {})
        /\ UNCHANGED <<storeVars, config>>

\* Seeded fault: only a subject's own request is ever finished.
ReadMyGrants(h) ==
  /\ pc[h] = "checked" /\ req[h].op = "mine"
  /\ Store!SubjectForToken(req[h].token)
  /\ Answer(h, req[h], "grants", Store!ActiveGrants(req[h].token))
  /\ UNCHANGED config

\* The second half of handleGetSubject and of handleGetMySubject.
ReadGrants(h) ==
  /\ pc[h] = "checked" /\ req[h].op \in {"inspect", "mine"}
  /\ Store!SubjectForToken(req[h].token)
  /\ Answer(h, req[h], "grants", Store!ActiveGrants(req[h].token))
  /\ UNCHANGED config

HandleRevokeMyGrants(h, t) ==
  /\ "revoke" \in Ops /\ Up /\ Idle(h)
  /\ \/ ~BearerSubject(t) /\ Refuse
     \/ /\ BearerSubject(t)
        /\ Goto(h, "checked", [op |-> "revoke", token |-> t], {})
        /\ UNCHANGED <<storeVars, config>>

RevokeGrants(h) ==
  /\ pc[h] = "checked" /\ req[h].op = "revoke"
  /\ Store!RevokeGrantsForToken(req[h].token)
  /\ Answer(h, req[h], "revoked", {})
  /\ UNCHANGED config

-----------------------------------------------------------------------------
(* The consent page.                                                       *)

\* Everything that stops a decision before its transaction: no session, no
\* such proposal, somebody else's proposal, neither approve nor reject.
MayDecide(id, email, choice) ==
  /\ loginOn => email # NoOne
  /\ Store!Found(id)
  /\ ApproverGate(id, email)
  /\ choice \in {"approve", "reject"}

HandleApproveSubmit(h, id, email, choice, ttl) ==
  /\ "decide" \in Ops /\ Up /\ Idle(h)
  /\ \/ ~MayDecide(id, email, choice) /\ Refuse
     \/ /\ MayDecide(id, email, choice)
        /\ Goto(h, "checked", [op |-> "decide", id |-> id, email |-> email,
                               choice |-> choice, ttl |-> ttl], {})
        /\ UNCHANGED <<storeVars, config>>

\* Seeded fault: the page repeats the choice of whoever came too late.
OptimisticPage(id, choice) ==
  IF Store!DecideError(id) \in {"not_found", "expired"} THEN Store!DecideError(id)
  ELSE IF choice = "approve" THEN "approved" ELSE "rejected"

\* What the page says: the decision, or why there is none.
DecisionPage(id, choice) ==
  IF Store!DecideError(id) # "none" THEN Store!DecideError(id)
  ELSE IF choice = "approve" THEN "approved" ELSE "rejected"

Decide(h) ==
  /\ pc[h] = "checked" /\ req[h].op = "decide"
  /\ \/ req[h].choice = "approve" /\ Store!Approve(req[h].id, req[h].ttl)
     \/ req[h].choice = "reject" /\ Store!Reject(req[h].id)
  /\ Answer(h, req[h], DecisionPage(req[h].id, req[h].choice), {})
  /\ UNCHANGED config

-----------------------------------------------------------------------------
(* Verification for a resource server.                                     *)

\* evaluate over the policies of all the token's active grants: one that does
\* not parse spoils them all, and nothing is allowed by no policies or to no
\* requests.
Evaluate(items, needs) ==
  IF items = {} \/ needs = {} THEN "denied"
  ELSE IF items \cap Unparsable # {} THEN "error"
  ELSE IF needs \subseteq items THEN "allowed"
  ELSE "denied"

\* Seeded fault: the policies of every subject are evaluated.
VerifyAgainstAll(h, signed, t, needs) ==
  /\ "verify" \in Ops /\ Up /\ Idle(h)
  /\ signed
  /\ Store!SubjectForToken(t)
  /\ Answer(h, [op |-> "verify", token |-> t, needs |-> needs],
            Evaluate({g.item : g \in Store!AllGrants}, needs), {})
  /\ UNCHANGED config

\* signed: the request carries the HMAC of a registered resource server.  The
\* subject's existence is not asked, only its active grants.
HandleVerify(h, signed, t, needs) ==
  /\ "verify" \in Ops /\ Up /\ Idle(h)
  /\ \/ ~signed /\ Refuse
     \/ /\ signed
        /\ Store!SubjectForToken(t)
        /\ Answer(h, [op |-> "verify", token |-> t, needs |-> needs],
                  Evaluate({g.item : g \in Store!ActiveGrants(t)}, needs), {})
        /\ UNCHANGED config

-----------------------------------------------------------------------------

\* A handler that has begun goes on by itself.
Continue(h) ==
  \/ ReadHistory(h)
  \/ StampProposal(h)
  \/ RecordProposal(h)
  \/ ReadGrants(h)
  \/ RevokeGrants(h)
  \/ Decide(h)
  \/ Reply(h)

Cred == {"", "secret"}

Arrive(h) ==
  \/ \E cred \in Cred :
       \/ HandleCreateSubject(h, cred)
       \/ HandleActivity(h, cred)
       \/ \E t \in Token :
            HandleDestroySubject(h, cred, t) \/ HandleGetSubject(h, cred, t)
  \/ \E t \in Token :
       \/ \E who \in Spelling, items \in SUBSET Item :
            HandleProposal(h, t, who, items)
       \/ HandleGetMySubject(h, t)
       \/ HandleRevokeMyGrants(h, t)
       \/ \E signed \in BOOLEAN, needs \in SUBSET Item :
            HandleVerify(h, signed, t, needs)
  \/ \E id \in ProposalId, email \in Approver \cup {NoOne},
        choice \in {"approve", "reject", "other"}, ttl \in GrantTTL :
       HandleApproveSubmit(h, id, email, choice, ttl)

Next ==
  \/ \E h \in Handler : Arrive(h) \/ Continue(h)
  \/ Boot
  \/ Crash
  \/ Store!PurgeExpired /\ UNCHANGED <<config, handlerVars>>
  \/ Store!Tick /\ UNCHANGED <<config, handlerVars>>

Spec == Init /\ [][Next]_vars

\* The Go scheduler runs every runnable goroutine.
Fairness == \A h \in Handler : WF_vars(Continue(h))

FairSpec == Spec /\ Fairness

-----------------------------------------------------------------------------
(* What must hold of the server.                                           *)

Request ==
  [op: {"none"}]
    \cup [op: {"create", "activity"}, cred: Cred]
    \cup [op: {"destroy", "inspect"}, cred: Cred, token: Token]
    \cup [op: {"propose"}, token: Token, who: Spelling \ {""}, items: SUBSET Item]
    \cup [op: {"mine", "revoke"}, token: Token]
    \cup [op: {"decide"}, id: ProposalId, email: Approver \cup {NoOne},
          choice: {"approve", "reject"}, ttl: GrantTTL]
    \cup [op: {"verify"}, token: Token, needs: SUBSET Item]

Result == {"none", "created", "destroyed", "listed", "accepted", "grants",
           "revoked", "allowed", "denied", "error"}
            \cup {"approved", "rejected", "expired", "already_decided"}

TypeOK ==
  /\ Store!TypeOK
  /\ adminToken \in Cred
  /\ loginOn \in BOOLEAN
  /\ pc \in [Handler -> {"idle", "checked", "stamped", "done"}]
  /\ req \in [Handler -> Request]
  /\ result \in [Handler -> Result]
  /\ \A h \in Handler : pc[h] = "stamped" => memo[h] \in 0..now

\* However the subject's existence check, the body and the clock reading are
\* separated from the write that follows, what is recorded was signed by a
\* resource server and is for a token the administrator once issued.
RecordedIsGenuine ==
  \A id \in DOMAIN proposals :
    /\ proposals[id].items # {} /\ proposals[id].items \subseteq Genuine
    /\ proposals[id].token \in minted

\* Of all the people and tabs deciding one proposal, one is told that it was
\* approved or rejected, and the store agrees with every page still on its way.
OneDecisionTold ==
  \A h \in Handler :
    (pc[h] = "done" /\ req[h].op = "decide") =>
      /\ result[h] \in {"approved", "rejected", "expired"} =>
           proposals[req[h].id].status = result[h]
      /\ result[h] \in {"approved", "rejected"} =>
           \A k \in Handler \ {h} :
             (pc[k] = "done" /\ req[k].op = "decide" /\ req[k].id = req[h].id)
               => result[k] \notin {"approved", "rejected", "expired"}

\* With the login on, a proposal leaves pending for approved or rejected only
\* in a request of its named approver, although the gate was passed on a copy
\* of the proposal read in an earlier transaction.
NamedApproverDecides ==
  [][loginOn =>
       \A id \in DOMAIN proposals :
         (Store!Pending(id) /\ proposals'[id].status \in {"approved", "rejected"})
           => \E h \in Handler :
                /\ req[h].op = "decide" /\ req[h].id = id
                /\ req[h].email = proposals[id].approver]_vars

\* Tokens come and go only by a request that carries the configured admin
\* token; with none configured the set of subjects is frozen.
OnlyAdminManagesSubjects ==
  [][subjects' # subjects =>
       /\ adminToken # ""
       /\ \E h \in Handler : /\ req'[h].op \in {"create", "destroy"}
                             /\ req'[h].cred = adminToken]_vars

\* A resource server is told "allowed" only for what the named token was
\* approved for: each thing it needs is an item of an approved proposal of
\* that very token.  This stays true while the answer travels, although the
\* grants themselves may be gone by then.
AllowedMeansApproved ==
  \A h \in Handler :
    (req[h].op = "verify" /\ result[h] = "allowed") =>
      \A i \in req[h].needs : \E id \in DOMAIN proposals :
        /\ proposals[id].status = "approved"
        /\ proposals[id].token = req[h].token
        /\ i \in proposals[id].items

\* The operator's list is read in two transactions, yet it never shows a grant
\* next to a proposal that is missing or not (yet) approved.
ActivityIsCoherent ==
  \A h \in Handler : result[h] = "listed" =>
    \A g \in memo[h].grants : \E e \in memo[h].history :
      e = [proposal |-> g.proposal, token |-> g.token, status |-> "approved"]

\* Every step of every handler, of the janitor, of a crash and of a restart is
\* a transaction of the store or leaves it alone.
UsesStore == Store!Spec

\* A request that passed its checks is answered, unless the server goes down.
EveryRequestAnswered ==
  \A h \in Handler : pc[h] # "idle" ~> pc[h] = "idle"

\* "revoke a token and its grants" (README.md): the administrator destroys a
\* subject, and no resource server is told afterwards that the token is
\* allowed anything.
DestroyedIsPowerless ==
  [][\A h \in Handler :
       (req'[h].op = "verify" /\ result[h] # "allowed" /\ result'[h] = "allowed")
         => req'[h].token \in subjects]_vars
=============================================================================
