-------------------------- MODULE AuthServerProofs --------------------------
(***************************************************************************)
(* What holds of AuthServer for any number of goroutines, subjects,        *)
(* proposals, approvers and items.                                         *)
(*                                                                         *)
(* First the server is shown to use its store only through the store's     *)
(* transactions; everything proved of GrantStore then holds here too, and  *)
(* the invariants of the handlers build on it.                             *)
(***************************************************************************)
EXTENDS AuthServer, TLAPS

Proved == INSTANCE GrantStoreProofs

-----------------------------------------------------------------------------
(* Goroutines between their transactions.                                  *)

\* What a goroutine carries from one transaction to its next is still good
\* when it gets there: tokens stay minted, the clock does not run backwards.
Carries(h) ==
  /\ (req[h].op = "propose" /\ pc[h] \in {"checked", "stamped"}) =>
       /\ req[h].token \in minted
       /\ req[h].items \in Store!Bundle
       /\ req[h].items \subseteq Genuine
  /\ pc[h] = "stamped" => req[h].op = "propose" /\ memo[h] \in 0..now

Goroutines ==
  /\ pc \in [Handler -> {"idle", "checked", "stamped", "done"}]
  /\ req \in [Handler -> Request]
  /\ DOMAIN memo = Handler
  /\ \A h \in Handler : Carries(h)

\* The part of the store's type the handlers rely on to use it.
Tokens == subjects \subseteq minted /\ minted \subseteq Token /\ now \in Nat

\* Moving one goroutine, to a place where it carries what it should, leaves
\* the others as they are.
LEMMA OneMoves ==
  ASSUME Goroutines, Tokens, minted \subseteq minted', now \in 0..now', now' \in Nat,
         NEW h \in Handler, NEW p \in {"idle", "checked", "stamped", "done"},
         NEW r \in Request, NEW m,
         pc' = [pc EXCEPT ![h] = p], req' = [req EXCEPT ![h] = r],
         memo' = [memo EXCEPT ![h] = m],
         (r.op = "propose" /\ p \in {"checked", "stamped"}) =>
           r.token \in minted' /\ r.items \in Store!Bundle /\ r.items \subseteq Genuine,
         p = "stamped" => r.op = "propose" /\ m \in 0..now'
  PROVE  Goroutines'
<1>1. /\ pc'[h] = p /\ req'[h] = r /\ memo'[h] = m
      /\ \A k \in Handler \ {h} :
           pc'[k] = pc[k] /\ req'[k] = req[k] /\ memo'[k] = memo[k]
  BY DEF Goroutines
<1>2. Carries(h)'
  BY <1>1 DEF Carries, Store!Bundle
<1>3. ASSUME NEW k \in Handler \ {h} PROVE Carries(k)'
  <2>1. Carries(k)
    BY DEF Goroutines
  <2>2. 0..now \subseteq 0..now'
    BY DEF Tokens
  <2> QED
    BY <1>1, <2>1, <2>2 DEF Carries, Store!Bundle
<1>4. /\ pc' \in [Handler -> {"idle", "checked", "stamped", "done"}]
      /\ req' \in [Handler -> Request]
      /\ DOMAIN memo' = Handler
  BY DEF Goroutines
<1> QED
  BY <1>2, <1>3, <1>4 DEF Goroutines, Request

\* The two ways a handler moves, with the clock standing still.
LEMMA AnswerKeeps ==
  ASSUME Goroutines, Tokens, minted \subseteq minted', UNCHANGED now,
         NEW h \in Handler, NEW r \in Request, NEW res, NEW m, Answer(h, r, res, m)
  PROVE  Goroutines'
<1>1. now \in 0..now' /\ now' \in Nat
  BY DEF Tokens
<1> QED
  BY <1>1, OneMoves DEF Answer

LEMMA GotoKeeps ==
  ASSUME Goroutines, Tokens, UNCHANGED <<minted, now>>,
         NEW h \in Handler, NEW p \in {"checked", "stamped"},
         NEW r \in Request, NEW m, Goto(h, p, r, m),
         r.op = "propose" =>
           r.token \in minted /\ r.items \in Store!Bundle /\ r.items \subseteq Genuine,
         p = "stamped" => r.op = "propose" /\ m \in 0..now
  PROVE  Goroutines'
<1>1. now \in 0..now' /\ now' \in Nat
  BY DEF Tokens
<1> QED
  BY <1>1, OneMoves DEF Goto

\* A step that moves no goroutine.
LEMMA NoneMoves ==
  ASSUME Goroutines, Tokens, minted \subseteq minted', now \in 0..now', now' \in Nat,
         UNCHANGED handlerVars
  PROVE  Goroutines'
<1>1. ASSUME NEW k \in Handler PROVE Carries(k)'
  <2>1. Carries(k)
    BY DEF Goroutines
  <2>2. 0..now \subseteq 0..now'
    BY DEF Tokens
  <2> QED
    BY <2>1, <2>2 DEF Carries, handlerVars, Store!Bundle
<1> QED
  BY <1>1 DEF Goroutines, handlerVars, Request

\* What the arrival of a request leaves behind.
LEMMA ArriveKeeps ==
  ASSUME Goroutines, Tokens, NEW h \in Handler, Arrive(h)
  PROVE  Goroutines' /\ Tokens'
<1>1. CASE UNCHANGED vars
  BY <1>1, NoneMoves DEF vars, storeVars, Tokens
<1>2. ASSUME NEW cred \in Cred, HandleCreateSubject(h, cred), ~UNCHANGED vars
      PROVE  Goroutines' /\ Tokens'
  <2>1. PICK t \in Token :
          /\ Store!CreateSubject(t)
          /\ Answer(h, [op |-> "create", cred |-> cred], "created", {t})
    BY <1>2 DEF HandleCreateSubject, Refuse
  <2>2. Tokens' /\ minted \subseteq minted' /\ now' = now
    BY <2>1 DEF Tokens, Store!CreateSubject
  <2>3. [op |-> "create", cred |-> cred] \in Request
    BY DEF Request
  <2> QED
    BY <2>1, <2>2, <2>3, AnswerKeeps
<1>3. ASSUME NEW cred \in Cred, HandleActivity(h, cred), ~UNCHANGED vars
      PROVE  Goroutines' /\ Tokens'
  <2>1. /\ Goto(h, "checked", [op |-> "activity", cred |-> cred],
                [grants |-> Store!AllGrants, history |-> {}])
        /\ UNCHANGED storeVars
    BY <1>3 DEF HandleActivity, Refuse
  <2>2. [op |-> "activity", cred |-> cred] \in Request
    BY DEF Request
  <2> QED
    BY <2>1, <2>2, GotoKeeps DEF Tokens, storeVars
<1>4. ASSUME NEW cred \in Cred, NEW t \in Token,
             HandleDestroySubject(h, cred, t), ~UNCHANGED vars
      PROVE  Goroutines' /\ Tokens'
  <2>1. /\ Store!DestroySubject(t)
        /\ Answer(h, [op |-> "destroy", cred |-> cred, token |-> t], "destroyed", {})
    BY <1>4 DEF HandleDestroySubject, Refuse
  <2>2. Tokens' /\ minted' = minted /\ now' = now
    BY <2>1 DEF Tokens, Store!DestroySubject
  <2>3. [op |-> "destroy", cred |-> cred, token |-> t] \in Request
    BY DEF Request
  <2> QED
    BY <2>1, <2>2, <2>3, AnswerKeeps
<1>5. ASSUME NEW cred \in Cred, NEW t \in Token,
             HandleGetSubject(h, cred, t), ~UNCHANGED vars
      PROVE  Goroutines' /\ Tokens'
  <2>1. /\ Goto(h, "checked", [op |-> "inspect", cred |-> cred, token |-> t], {})
        /\ UNCHANGED storeVars
    BY <1>5 DEF HandleGetSubject, Refuse
  <2>2. [op |-> "inspect", cred |-> cred, token |-> t] \in Request
    BY DEF Request
  <2> QED
    BY <2>1, <2>2, GotoKeeps DEF Tokens, storeVars
<1>6. ASSUME NEW t \in Token, NEW who \in Spelling, NEW items \in SUBSET Item,
             HandleProposal(h, t, who, items), ~UNCHANGED vars
      PROVE  Goroutines' /\ Tokens'
  <2> DEFINE r == [op |-> "propose", token |-> t, who |-> who, items |-> items]
  <2>1. /\ BearerSubject(t) /\ WellFormed(who, items)
        /\ Goto(h, "checked", r, {})
        /\ UNCHANGED storeVars
    BY <1>6 DEF HandleProposal, Refuse
  <2>2. /\ r \in Request
        /\ r.token \in minted /\ r.items \in Store!Bundle /\ r.items \subseteq Genuine
    BY <2>1 DEF Request, BearerSubject, Store!SubjectExists, WellFormed,
                Store!Bundle, Tokens
  <2> HIDE DEF r
  <2> QED
    BY <2>1, <2>2, GotoKeeps DEF Tokens, storeVars
<1>7. ASSUME NEW t \in Token, HandleGetMySubject(h, t), ~UNCHANGED vars
      PROVE  Goroutines' /\ Tokens'
  <2>1. /\ Goto(h, "checked", [op |-> "mine", token |-> t], {})
        /\ UNCHANGED storeVars
    BY <1>7 DEF HandleGetMySubject, Refuse
  <2>2. [op |-> "mine", token |-> t] \in Request
    BY DEF Request
  <2> QED
    BY <2>1, <2>2, GotoKeeps DEF Tokens, storeVars
<1>8. ASSUME NEW t \in Token, HandleRevokeMyGrants(h, t), ~UNCHANGED vars
      PROVE  Goroutines' /\ Tokens'
  <2>1. /\ Goto(h, "checked", [op |-> "revoke", token |-> t], {})
        /\ UNCHANGED storeVars
    BY <1>8 DEF HandleRevokeMyGrants, Refuse
  <2>2. [op |-> "revoke", token |-> t] \in Request
    BY DEF Request
  <2> QED
    BY <2>1, <2>2, GotoKeeps DEF Tokens, storeVars
<1>9. ASSUME NEW t \in Token, NEW signed \in BOOLEAN, NEW needs \in SUBSET Item,
             HandleVerify(h, signed, t, needs), ~UNCHANGED vars
      PROVE  Goroutines' /\ Tokens'
  <2> DEFINE r == [op |-> "verify", token |-> t, needs |-> needs]
  <2>1. /\ Store!SubjectForToken(t)
        /\ Answer(h, r, Evaluate({g.item : g \in Store!ActiveGrants(t)}, needs), {})
    BY <1>9 DEF HandleVerify, Refuse
  <2>2. Tokens' /\ minted' = minted /\ now' = now
    BY <2>1 DEF Tokens, Store!SubjectForToken
  <2>3. r \in Request
    BY DEF Request
  <2> HIDE DEF r
  <2> QED
    BY <2>1, <2>2, <2>3, AnswerKeeps
<1>10. ASSUME NEW id \in ProposalId, NEW email \in Approver \cup {NoOne},
              NEW choice \in {"approve", "reject", "other"}, NEW ttl \in GrantTTL,
              HandleApproveSubmit(h, id, email, choice, ttl), ~UNCHANGED vars
      PROVE  Goroutines' /\ Tokens'
  <2> DEFINE r == [op |-> "decide", id |-> id, email |-> email,
                   choice |-> choice, ttl |-> ttl]
  <2>1. /\ MayDecide(id, email, choice)
        /\ Goto(h, "checked", r, {})
        /\ UNCHANGED storeVars
    BY <1>10 DEF HandleApproveSubmit, Refuse
  <2>2. r \in Request /\ r.op # "propose"
    BY <2>1 DEF Request, MayDecide
  <2> HIDE DEF r
  <2> QED
    BY <2>1, <2>2, GotoKeeps DEF Tokens, storeVars
<1> QED
  BY <1>1, <1>2, <1>3, <1>4, <1>5, <1>6, <1>7, <1>8, <1>9, <1>10 DEF Arrive

\* What the next transaction of a goroutine leaves behind.
LEMMA ContinueKeeps ==
  ASSUME Goroutines, Tokens, NEW h \in Handler, Continue(h)
  PROVE  Goroutines' /\ Tokens'
<1>1. req[h] \in Request
  BY DEF Goroutines
<1>2. CASE ReadHistory(h)
  <2>1. UNCHANGED storeVars
    BY <1>2 DEF ReadHistory
  <2>2. \E m : Answer(h, req[h], "listed", m)
    BY <1>2 DEF ReadHistory
  <2> QED
    BY <1>1, <2>1, <2>2, AnswerKeeps DEF Tokens, storeVars
<1>3. CASE StampProposal(h)
  <2>1. /\ Goto(h, "stamped", req[h], now)
        /\ UNCHANGED storeVars
        /\ pc[h] = "checked" /\ req[h].op = "propose"
    BY <1>3 DEF StampProposal
  <2>2. /\ req[h].token \in minted
        /\ req[h].items \in Store!Bundle /\ req[h].items \subseteq Genuine
    BY <2>1 DEF Goroutines, Carries
  <2>3. now \in 0..now
    BY DEF Tokens
  <2> QED
    BY <1>1, <2>1, <2>2, <2>3, GotoKeeps DEF Tokens, storeVars
<1>4. CASE RecordProposal(h)
  <2>1. PICK id \in ProposalId :
          /\ Store!CreateProposal(id, req[h].token, Lower[req[h].who],
                                  req[h].items, memo[h])
          /\ Answer(h, req[h], "accepted", {id})
    BY <1>4 DEF RecordProposal
  <2>2. UNCHANGED <<subjects, minted, now>>
    BY <2>1 DEF Store!CreateProposal
  <2> QED
    BY <1>1, <2>1, <2>2, AnswerKeeps DEF Tokens
<1>5. CASE ReadGrants(h)
  <2>1. /\ Store!SubjectForToken(req[h].token)
        /\ Answer(h, req[h], "grants", Store!ActiveGrants(req[h].token))
    BY <1>5 DEF ReadGrants
  <2>2. UNCHANGED <<subjects, minted, now>>
    BY <2>1 DEF Store!SubjectForToken
  <2> QED
    BY <1>1, <2>1, <2>2, AnswerKeeps DEF Tokens
<1>6. CASE RevokeGrants(h)
  <2>1. /\ Store!RevokeGrantsForToken(req[h].token)
        /\ Answer(h, req[h], "revoked", {})
    BY <1>6 DEF RevokeGrants
  <2>2. UNCHANGED <<subjects, minted, now>>
    BY <2>1 DEF Store!RevokeGrantsForToken
  <2> QED
    BY <1>1, <2>1, <2>2, AnswerKeeps DEF Tokens
<1>7. CASE Decide(h)
  <2>1. Answer(h, req[h], DecisionPage(req[h].id, req[h].choice), {})
    BY <1>7 DEF Decide
  <2>2. UNCHANGED <<subjects, minted, now>>
    BY <1>7 DEF Decide, Store!Approve, Store!Reject
  <2> QED
    BY <1>1, <2>1, <2>2, AnswerKeeps DEF Tokens
<1>8. CASE Reply(h)
  <2>1. NoRequest \in Request /\ NoRequest.op # "propose"
    BY DEF NoRequest, Request
  <2>2. now \in 0..now' /\ now' \in Nat /\ minted' = minted /\ Tokens'
    BY <1>8 DEF Reply, storeVars, Tokens
  <2> QED
    BY <1>8, <2>1, <2>2, OneMoves DEF Reply
<1> QED
  BY <1>2, <1>3, <1>4, <1>5, <1>6, <1>7, <1>8 DEF Continue

\* Goroutines and Tokens are inductive.
LEMMA GoroutinesStep ==
  ASSUME Goroutines, Tokens, [Next]_vars
  PROVE  Goroutines' /\ Tokens'
<1>1. CASE UNCHANGED vars
  BY <1>1, NoneMoves DEF vars, storeVars, Tokens
<1>2. CASE \E h \in Handler : Arrive(h) \/ Continue(h)
  BY <1>2, ArriveKeeps, ContinueKeeps
<1>3. CASE Boot
  BY <1>3, NoneMoves DEF Boot, Store!StartCleanup, Tokens
<1>4. CASE Crash
  <2>1. UNCHANGED <<subjects, minted, now>>
    BY <1>4 DEF Crash, Store!Stop
  <2>2. NoRequest \in Request /\ NoRequest.op # "propose"
    BY DEF NoRequest, Request
  <2> QED
    BY <1>4, <2>1, <2>2 DEF Crash, Goroutines, Carries, Tokens, Request
<1>5. CASE Store!PurgeExpired /\ UNCHANGED <<config, handlerVars>>
  BY <1>5, NoneMoves DEF Store!PurgeExpired, Tokens
<1>6. CASE Store!Tick /\ UNCHANGED <<config, handlerVars>>
  <2>1. UNCHANGED <<subjects, minted>> /\ now' = now + 1
    BY <1>6 DEF Store!Tick
  <2>2. now \in 0..now' /\ now' \in Nat /\ Tokens'
    BY <2>1 DEF Tokens
  <2> QED
    BY <1>6, <2>1, <2>2, NoneMoves
<1> QED
  BY <1>1, <1>2, <1>3, <1>4, <1>5, <1>6 DEF Next

\* Nothing has been asked of a server that has just been installed.
LEMMA GoroutinesInit == Init => Goroutines /\ Tokens
<1>1. NoRequest \in Request /\ NoRequest.op # "propose"
  BY DEF NoRequest, Request
<1> SUFFICES ASSUME Init PROVE Goroutines /\ Tokens
  OBVIOUS
<1>2. Tokens
  BY DEF Init, Store!Init, Tokens
<1>3. \A h \in Handler : Carries(h)
  BY <1>1 DEF Init, Carries
<1> QED
  BY <1>1, <1>2, <1>3 DEF Init, Goroutines

-----------------------------------------------------------------------------
(* The store is used through its transactions only.                        *)

\* What an arriving request does to the store.
LEMMA ArriveUsesStore ==
  ASSUME Goroutines, Tokens, NEW h \in Handler, Arrive(h)
  PROVE  [Store!Next]_(Store!vars)
<1>1. CASE UNCHANGED storeVars
  BY <1>1 DEF storeVars, Store!vars
<1>2. CASE ~UNCHANGED storeVars
  <2>1. ~UNCHANGED vars
    BY <1>2 DEF vars
  <2>2. \/ \E cred \in Cred : HandleCreateSubject(h, cred)
        \/ \E cred \in Cred, t \in Token : HandleDestroySubject(h, cred, t)
        \/ \E t \in Token, signed \in BOOLEAN, needs \in SUBSET Item :
             HandleVerify(h, signed, t, needs)
    BY <1>2, <2>1 DEF Arrive, Refuse, HandleActivity, HandleGetSubject,
         HandleProposal, HandleGetMySubject, HandleRevokeMyGrants,
         HandleApproveSubmit
  <2>3. \E t \in Token : \/ Store!CreateSubject(t)
                         \/ Store!DestroySubject(t)
                         \/ Store!SubjectForToken(t)
    BY <2>1, <2>2 DEF HandleCreateSubject, HandleDestroySubject, HandleVerify, Refuse
  <2> QED
    BY <2>3 DEF Store!Next
<1> QED
  BY <1>1, <1>2

\* What the next transaction of a goroutine does to the store: it is one the
\* store allows, because of what the goroutine carries.
LEMMA ContinueUsesStore ==
  ASSUME Goroutines, Tokens, NEW h \in Handler, Continue(h)
  PROVE  [Store!Next]_(Store!vars)
<1>1. req[h] \in Request
  BY DEF Goroutines
<1>2. CASE ReadHistory(h) \/ StampProposal(h) \/ Reply(h)
  BY <1>2 DEF ReadHistory, StampProposal, Reply, storeVars, Store!vars
<1>3. CASE RecordProposal(h)
  <2>1. PICK id \in ProposalId :
          Store!CreateProposal(id, req[h].token, Lower[req[h].who],
                               req[h].items, memo[h])
    BY <1>3 DEF RecordProposal
  <2>2. /\ pc[h] = "stamped" /\ req[h].op = "propose"
        /\ req[h].token \in minted /\ req[h].items \in Store!Bundle
        /\ memo[h] \in 0..now
    BY <1>3 DEF RecordProposal, Goroutines, Carries
  <2>3. Lower[req[h].who] \in Approver
    BY <1>1, <2>2, LowerAssumption DEF Request
  <2> QED
    BY <2>1, <2>2, <2>3 DEF Store!Next
<1>4. CASE ReadGrants(h)
  <2>1. req[h].token \in Token /\ Store!SubjectForToken(req[h].token)
    BY <1>1, <1>4 DEF ReadGrants, Request
  <2> QED
    BY <2>1 DEF Store!Next
<1>5. CASE RevokeGrants(h)
  <2>1. req[h].token \in Token /\ Store!RevokeGrantsForToken(req[h].token)
    BY <1>1, <1>5 DEF RevokeGrants, Request
  <2> QED
    BY <2>1 DEF Store!Next
<1>6. CASE Decide(h)
  <2>1. req[h].id \in ProposalId /\ req[h].ttl \in GrantTTL
    BY <1>1, <1>6 DEF Decide, Request
  <2>2. Store!Approve(req[h].id, req[h].ttl) \/ Store!Reject(req[h].id)
    BY <1>6 DEF Decide
  <2> QED
    BY <2>1, <2>2 DEF Store!Next
<1> QED
  BY <1>2, <1>3, <1>4, <1>5, <1>6 DEF Continue

\* Every step of the server is a transaction of the store, or none.
LEMMA StoreStep ==
  ASSUME Goroutines, Tokens, [Next]_vars
  PROVE  [Store!Next]_(Store!vars)
<1>1. CASE UNCHANGED vars
  BY <1>1 DEF vars, storeVars, Store!vars
<1>2. CASE \E h \in Handler : Arrive(h) \/ Continue(h)
  BY <1>2, ArriveUsesStore, ContinueUsesStore
<1>3. CASE Boot \/ Crash \/ Store!PurgeExpired \/ Store!Tick
  BY <1>3 DEF Boot, Crash, Store!Next
<1> QED
  BY <1>1, <1>2, <1>3 DEF Next

\* What goroutines carry stays good in every reachable state.
LEMMA GoroutinesHold == Spec => [](Goroutines /\ Tokens)
<1>1. Goroutines /\ Tokens /\ [Next]_vars => (Goroutines /\ Tokens)'
  BY GoroutinesStep
<1> QED
  BY <1>1, GoroutinesInit, PTL DEF Spec

\* The server implements the store: whatever requests interleave, whenever the
\* process crashes and restarts, the buckets go through transactions of
\* GrantStore only, so that what holds of the store holds of the server.
THEOREM ServerUsesStore == Spec => UsesStore
<1>1. Init => Store!Init
  BY DEF Init
<1>2. Goroutines /\ Tokens /\ [Next]_vars => [Store!Next]_(Store!vars)
  BY StoreStep
<1> QED
  BY <1>1, <1>2, GoroutinesHold, PTL DEF Spec, UsesStore, Store!Spec

-----------------------------------------------------------------------------
(* Carrying the store's theorems over.  Proved is the store once more, under  *)
(* the name its theorems have; each formula equals its counterpart of Store. *)

LEMMA SameType == Store!TypeOK <=> Proved!TypeOK
BY DEF Store!TypeOK, Proved!TypeOK, Store!Proposal, Proved!Proposal,
       Store!Grant, Proved!Grant, Store!Status, Proved!Status,
       Store!Bundle, Proved!Bundle

LEMMA SameBacked == Store!GrantsAreBacked <=> Proved!GrantsAreBacked
BY DEF Store!GrantsAreBacked, Proved!GrantsAreBacked, Store!Backed,
       Proved!Backed, Store!Found, Proved!Found

LEMMA SameKept == Store!DecisionsKept <=> Proved!DecisionsKept
BY DEF Store!DecisionsKept, Proved!DecisionsKept, Store!Status, Proved!Status,
       Store!Pending, Proved!Pending, Store!Found, Proved!Found

LEMMA SameInit == Store!Init <=> Proved!Init
BY DEF Store!Init, Proved!Init

LEMMA SameNext == [Store!Next]_(Store!vars) <=> [Proved!Next]_(Proved!vars)
<1>1. \A t \in Token : Store!CreateSubject(t) <=> Proved!CreateSubject(t)
  BY DEF Store!CreateSubject, Proved!CreateSubject
<1>2. \A t \in Token : Store!SubjectForToken(t) <=> Proved!SubjectForToken(t)
  BY DEF Store!SubjectForToken, Proved!SubjectForToken, Store!GrantsOf,
         Proved!GrantsOf, Store!Live, Proved!Live
<1>3. \A t \in Token : Store!DestroySubject(t) <=> Proved!DestroySubject(t)
  BY DEF Store!DestroySubject, Proved!DestroySubject, Store!GrantsOf,
         Proved!GrantsOf
<1>4. \A t \in Token :
        Store!RevokeGrantsForToken(t) <=> Proved!RevokeGrantsForToken(t)
  BY DEF Store!RevokeGrantsForToken, Proved!RevokeGrantsForToken,
         Store!GrantsOf, Proved!GrantsOf
<1>5. \A id, t, who, items, at :
        Store!CreateProposal(id, t, who, items, at)
          <=> Proved!CreateProposal(id, t, who, items, at)
  BY DEF Store!CreateProposal, Proved!CreateProposal, Store!Put, Proved!Put,
         Store!Found, Proved!Found
<1>6. \A id : Store!DecideError(id) = Proved!DecideError(id)
  BY DEF Store!DecideError, Proved!DecideError, Store!Found, Proved!Found,
         Store!Expired, Proved!Expired
<1>7. \A id, ttl : Store!Approve(id, ttl) <=> Proved!Approve(id, ttl)
  BY <1>6 DEF Store!Approve, Proved!Approve, Store!FailDecision,
              Proved!FailDecision, Store!NewGrants, Proved!NewGrants
<1>8. \A id : Store!Reject(id) <=> Proved!Reject(id)
  BY <1>6 DEF Store!Reject, Proved!Reject, Store!FailDecision,
              Proved!FailDecision
<1>9. Store!PurgeExpired <=> Proved!PurgeExpired
  BY DEF Store!PurgeExpired, Proved!PurgeExpired, Store!ShownStatus,
         Proved!ShownStatus, Store!Expired, Proved!Expired, Store!Live,
         Proved!Live
<1>10. /\ Store!StartCleanup <=> Proved!StartCleanup
       /\ Store!Stop <=> Proved!Stop
       /\ Store!Tick <=> Proved!Tick
  BY DEF Store!StartCleanup, Proved!StartCleanup, Store!Stop, Proved!Stop,
         Store!Tick, Proved!Tick
<1>11. Store!vars' = Store!vars <=> Proved!vars' = Proved!vars
  BY DEF Store!vars, Proved!vars
<1>12. Store!Next <=> Proved!Next
  BY <1>1, <1>2, <1>3, <1>4, <1>5, <1>7, <1>8, <1>9, <1>10
  DEF Store!Next, Proved!Next, Store!Bundle, Proved!Bundle
<1> QED
  BY <1>11, <1>12

LEMMA SameStore == Store!Spec => Proved!Spec
<1>1. [Store!Next]_(Store!vars) => [Proved!Next]_(Proved!vars)
  BY SameNext
<1> QED
  BY <1>1, SameInit, PTL DEF Store!Spec, Proved!Spec

\* Where the invariants of the handlers stand on.
Ground == Goroutines /\ Tokens /\ Store!TypeOK /\ Store!GrantsAreBacked

LEMMA GroundHolds == Spec => []Ground
<1>1. Spec => Store!Spec
  BY ServerUsesStore DEF UsesStore
<1>2. Store!Spec => []Store!TypeOK
  BY SameStore, SameType, Proved!TypeCorrect, StoreAssumption, PTL
<1>3. Store!Spec => []Store!GrantsAreBacked
  BY SameStore, SameBacked, Proved!Backing, StoreAssumption, PTL
<1> QED
  BY <1>1, <1>2, <1>3, GoroutinesHold, PTL DEF Ground

\* Proposals stay, and decided ones stay as they are.
LEMMA Kept == ASSUME Ground, [Next]_vars PROVE Store!DecisionsKept
<1>1. [Proved!Next]_(Proved!vars)
  BY StoreStep, SameNext DEF Ground
<1>2. Proved!TypeOK
  BY SameType DEF Ground
<1>3. Proved!DecisionsKept
  BY <1>1, <1>2, Proved!DecisionsStep, StoreAssumption
<1> QED
  BY <1>3, SameKept

\* What a proposal says besides its status never changes, and approved ones
\* stay approved.
LEMMA KeptFields ==
  ASSUME Ground, [Next]_vars, NEW id \in DOMAIN proposals
  PROVE  /\ id \in DOMAIN proposals'
         /\ proposals'[id].token = proposals[id].token
         /\ proposals'[id].items = proposals[id].items
         /\ proposals'[id].approver = proposals[id].approver
         /\ proposals[id].status # "pending" =>
              proposals'[id].status = proposals[id].status
<1>1. proposals[id] \in Store!Proposal
  BY DEF Ground, Store!TypeOK
<1>2. /\ id \in DOMAIN proposals'
      /\ \E s \in Store!Status : proposals'[id] = [proposals[id] EXCEPT !.status = s]
      /\ ~Store!Pending(id) => proposals'[id] = proposals[id]
  BY Kept DEF Store!DecisionsKept
<1> QED
  BY <1>1, <1>2 DEF Store!Proposal, Store!Pending

-----------------------------------------------------------------------------
(* Who writes what.                                                        *)

\* Only three things write the proposals bucket.
LEMMA Writers ==
  ASSUME Ground, [Next]_vars
  PROVE  \/ UNCHANGED proposals
         \/ \E h \in Handler : RecordProposal(h) \/ Decide(h)
         \/ Store!PurgeExpired
<1>1. CASE UNCHANGED vars
  BY <1>1 DEF vars, storeVars
<1>2. ASSUME NEW h \in Handler, Arrive(h), ~UNCHANGED vars
      PROVE  UNCHANGED proposals
  BY <1>2 DEF Arrive, Refuse, HandleCreateSubject, HandleActivity,
     HandleDestroySubject, HandleGetSubject, HandleProposal, HandleGetMySubject,
     HandleRevokeMyGrants, HandleVerify, HandleApproveSubmit, storeVars,
     Store!CreateSubject, Store!DestroySubject, Store!SubjectForToken
<1>3. ASSUME NEW h \in Handler, Continue(h)
      PROVE  UNCHANGED proposals \/ RecordProposal(h) \/ Decide(h)
  BY <1>3 DEF Continue, ReadHistory, StampProposal, ReadGrants, RevokeGrants,
     Reply, storeVars, Store!SubjectForToken, Store!RevokeGrantsForToken
<1>4. CASE Boot \/ Crash \/ Store!Tick
  BY <1>4 DEF Boot, Crash, Store!StartCleanup, Store!Stop, Store!Tick
<1> QED
  BY <1>1, <1>2, <1>3, <1>4 DEF Next

\* A new proposal is what a goroutine carries.
LEMMA RecordWrites ==
  ASSUME Ground, NEW h \in Handler, RecordProposal(h)
  PROVE  \E id \in ProposalId :
           /\ DOMAIN proposals' = DOMAIN proposals \cup {id}
           /\ \A q \in DOMAIN proposals : proposals'[q] = proposals[q]
           /\ proposals'[id].token = req[h].token
           /\ proposals'[id].items = req[h].items
<1>1. PICK id \in ProposalId :
        Store!CreateProposal(id, req[h].token, Lower[req[h].who],
                             req[h].items, memo[h])
  BY DEF RecordProposal
<1> QED
  BY <1>1 DEF Store!CreateProposal, Store!Put, Store!Found

\* A decision and a sweep keep the set of proposals.
LEMMA DecideDomain ==
  ASSUME NEW h \in Handler, Decide(h)
  PROVE  /\ DOMAIN proposals' = DOMAIN proposals
         /\ \A q \in DOMAIN proposals : q # req[h].id => proposals'[q] = proposals[q]
BY DEF Decide, Store!Approve, Store!Reject, Store!FailDecision

LEMMA PurgeWrites ==
  ASSUME Store!PurgeExpired, NEW q \in DOMAIN proposals
  PROVE  /\ DOMAIN proposals' = DOMAIN proposals
         /\ proposals'[q] =
              [proposals[q] EXCEPT !.status = Store!ShownStatus(proposals[q])]
BY DEF Store!PurgeExpired

\* No step forgets a minted token.
LEMMA MintedGrows ==
  ASSUME Ground, [Next]_vars
  PROVE  minted \subseteq minted'
<1>1. [Store!Next]_(Store!vars)
  BY StoreStep DEF Ground
<1> QED
  BY <1>1 DEF Store!Next, Store!vars, Store!CreateSubject, Store!SubjectForToken,
     Store!DestroySubject, Store!RevokeGrantsForToken, Store!CreateProposal,
     Store!Approve, Store!Reject, Store!PurgeExpired, Store!StartCleanup,
     Store!Stop, Store!Tick

-----------------------------------------------------------------------------
(* What is recorded is genuine.                                            *)

LEMMA GenuineStep ==
  ASSUME Ground, RecordedIsGenuine, [Next]_vars
  PROVE  RecordedIsGenuine'
<1> SUFFICES ASSUME NEW id \in DOMAIN proposals'
             PROVE  /\ proposals'[id].items # {}
                    /\ proposals'[id].items \subseteq Genuine
                    /\ proposals'[id].token \in minted'
  BY DEF RecordedIsGenuine
<1>1. CASE id \in DOMAIN proposals
  BY <1>1, KeptFields, MintedGrows DEF RecordedIsGenuine
<1>2. CASE id \notin DOMAIN proposals
  <2>1. PICK h \in Handler : RecordProposal(h)
    BY <1>2, Writers, DecideDomain, Zenon DEF Store!PurgeExpired
  <2>2. /\ req[h].token \in minted
        /\ req[h].items \in Store!Bundle
        /\ req[h].items \subseteq Genuine
    BY <2>1 DEF RecordProposal, Ground, Goroutines, Carries
  <2>3. proposals'[id].token = req[h].token /\ proposals'[id].items = req[h].items
    BY <1>2, <2>1, RecordWrites
  <2> QED
    BY <2>2, <2>3, MintedGrows DEF Store!Bundle
<1> QED
  BY <1>1, <1>2

\* Whatever happens between the checks of a submission and its write, every
\* proposal on file consists of items a resource server signed, for a token
\* the administrator issued.
THEOREM OnlyGenuineRecorded == Spec => []RecordedIsGenuine
<1>1. Init => RecordedIsGenuine
  BY DEF Init, Store!Init, RecordedIsGenuine
<1>2. Ground /\ RecordedIsGenuine /\ [Next]_vars => RecordedIsGenuine'
  BY GenuineStep
<1> QED
  BY <1>1, <1>2, GroundHolds, PTL DEF Spec

-----------------------------------------------------------------------------
(* Subjects belong to the administrator.                                   *)

LEMMA AdminStep ==
  ASSUME Ground, [Next]_vars, subjects' # subjects
  PROVE  /\ adminToken # ""
         /\ \E h \in Handler : /\ req'[h].op \in {"create", "destroy"}
                               /\ req'[h].cred = adminToken
<1>1. PICK h \in Handler : Arrive(h)
  BY DEF Next, vars, storeVars, Continue, ReadHistory, StampProposal,
     RecordProposal, ReadGrants, RevokeGrants, Decide, Reply, Boot, Crash,
     Store!StartCleanup, Store!Stop, Store!Tick, Store!PurgeExpired,
     Store!CreateProposal, Store!SubjectForToken, Store!RevokeGrantsForToken,
     Store!Approve, Store!Reject
<1>2. \E cred \in Cred : \/ HandleCreateSubject(h, cred)
                         \/ \E t \in Token : HandleDestroySubject(h, cred, t)
  BY <1>1 DEF Arrive, Refuse, HandleActivity, HandleGetSubject, HandleProposal,
     HandleGetMySubject, HandleRevokeMyGrants, HandleVerify, HandleApproveSubmit,
     vars, storeVars, Store!SubjectForToken
<1>3. PICK cred \in Cred :
        /\ RequireAdmin(cred)
        /\ \E r : /\ r.op \in {"create", "destroy"} /\ r.cred = cred
                  /\ req' = [req EXCEPT ![h] = r]
  <2>1. CASE \E cred \in Cred : HandleCreateSubject(h, cred)
    BY <2>1 DEF HandleCreateSubject, Refuse, Answer, vars, storeVars
  <2>2. CASE \E cred \in Cred, t \in Token : HandleDestroySubject(h, cred, t)
    BY <2>2 DEF HandleDestroySubject, Refuse, Answer, vars, storeVars
  <2> QED
    BY <1>2, <2>1, <2>2
<1> QED
  BY <1>3 DEF RequireAdmin, Ground, Goroutines

\* The set of subjects changes only by a request that carries the configured
\* admin token, and not at all when none is configured.
THEOREM AdminOwnsSubjects == Spec => OnlyAdminManagesSubjects
<1>1. Ground /\ [Next]_vars =>
        [subjects' # subjects =>
           /\ adminToken # ""
           /\ \E h \in Handler : /\ req'[h].op \in {"create", "destroy"}
                                 /\ req'[h].cred = adminToken]_vars
  BY AdminStep
<1> QED
  BY <1>1, GroundHolds, PTL DEF Spec, OnlyAdminManagesSubjects

-----------------------------------------------------------------------------
(* Answers.                                                                *)

Same(k) == /\ pc'[k] = pc[k] /\ req'[k] = req[k]
           /\ memo'[k] = memo[k] /\ result'[k] = result[k]

Ended(k) == pc'[k] = "idle" /\ req'[k] = NoRequest /\ result'[k] = "none"

\* The gate a goroutine about to decide has passed stays passed: proposals
\* are not dropped and do not change their approver.
Gated(h) ==
  (pc[h] = "checked" /\ req[h].op = "decide") =>
    /\ Store!Found(req[h].id)
    /\ loginOn => req[h].email = proposals[req[h].id].approver

Answers ==
  /\ result \in [Handler -> Result]
  /\ \A h \in Handler : pc[h] # "done" => result[h] = "none"
  /\ \A h \in Handler : Gated(h)

\* Every arrival and every transaction ends in one of the two moves.
LEMMA ArriveShape ==
  ASSUME NEW h \in Handler, Arrive(h), ~UNCHANGED vars
  PROVE  /\ (\E p, r, m : Goto(h, p, r, m)) \/ (\E r, res, m : Answer(h, r, res, m))
         /\ UNCHANGED config
BY DEF Arrive, Refuse, HandleCreateSubject, HandleActivity,
   HandleDestroySubject, HandleGetSubject, HandleProposal, HandleGetMySubject,
   HandleRevokeMyGrants, HandleVerify, HandleApproveSubmit

LEMMA ContinueShape ==
  ASSUME NEW h \in Handler, Continue(h)
  PROVE  /\ \/ \E p, r, m : Goto(h, p, r, m)
            \/ \E r, res, m : Answer(h, r, res, m)
            \/ Reply(h)
         /\ UNCHANGED config
BY DEF Continue, ReadHistory, StampProposal, RecordProposal, ReadGrants,
   RevokeGrants, Decide, Reply

\* A step moves one goroutine, or ends some.
LEMMA EachMoves ==
  ASSUME Ground, Answers, [Next]_vars, NEW k \in Handler
  PROVE  Same(k) \/ Ended(k) \/ (Arrive(k) /\ ~UNCHANGED vars) \/ Continue(k)
<1>1. CASE UNCHANGED vars
  BY <1>1 DEF vars, handlerVars, Same
<1>2. ASSUME NEW h \in Handler \ {k}, Arrive(h), ~UNCHANGED vars
      PROVE  Same(k)
  <2>1. (\E p, r, m : Goto(h, p, r, m)) \/ (\E r, res, m : Answer(h, r, res, m))
    BY <1>2, ArriveShape
  <2> QED
    BY <2>1 DEF Goto, Answer, Same, Ground, Goroutines, Answers
<1>3. ASSUME NEW h \in Handler \ {k}, Continue(h)
      PROVE  Same(k)
  <2>1. CASE Reply(h)
    BY <2>1 DEF Reply, Same, Ground, Goroutines, Answers
  <2>2. CASE ~Reply(h)
    <3>1. (\E p, r, m : Goto(h, p, r, m)) \/ (\E r, res, m : Answer(h, r, res, m))
      BY <1>3, <2>2, ContinueShape
    <3> QED
      BY <3>1 DEF Goto, Answer, Same, Ground, Goroutines, Answers
  <2> QED
    BY <2>1, <2>2
<1>4. CASE Crash
  BY <1>4 DEF Crash, Ended
<1>5. CASE Boot \/ UNCHANGED handlerVars
  BY <1>5 DEF Boot, handlerVars, Same
<1> QED
  BY <1>1, <1>2, <1>3, <1>4, <1>5 DEF Next

\* Where a goroutine can be after an arrival: past its checks, or done.
LEMMA ArriveMoves ==
  ASSUME Ground, Answers, NEW h \in Handler, Arrive(h), ~UNCHANGED vars
  PROVE  \/ /\ pc'[h] = "done" /\ result'[h] \in Result
            /\ req'[h].op \in {"create", "destroy", "verify"}
         \/ /\ pc'[h] = "checked" /\ result'[h] = "none"
            /\ req'[h].op # "decide"
         \/ /\ pc'[h] = "checked" /\ result'[h] = "none"
            /\ UNCHANGED <<storeVars, config>>
            /\ Store!Found(req'[h].id)
            /\ loginOn => req'[h].email = proposals[req'[h].id].approver
<1>1. result[h] = "none" /\ h \in DOMAIN pc /\ h \in DOMAIN req /\ h \in DOMAIN result
  BY DEF Arrive, Ground, Goroutines, Answers, Idle, HandleCreateSubject,
     HandleActivity, HandleDestroySubject, HandleGetSubject, HandleProposal,
     HandleGetMySubject, HandleRevokeMyGrants, HandleVerify, HandleApproveSubmit
<1>2. CASE \/ \E cred \in Cred : HandleCreateSubject(h, cred)
           \/ \E cred \in Cred, t \in Token : HandleDestroySubject(h, cred, t)
           \/ \E t \in Token, signed \in BOOLEAN, needs \in SUBSET Item :
                HandleVerify(h, signed, t, needs)
  <2>1. \A items, needs : Evaluate(items, needs) \in Result
    BY DEF Evaluate, Result
  <2> DEFINE Done == /\ pc'[h] = "done" /\ result'[h] \in Result
                     /\ req'[h].op \in {"create", "destroy", "verify"}
  <2>2. ASSUME NEW r, r.op \in {"create", "destroy", "verify"},
               NEW res \in Result, NEW m, Answer(h, r, res, m)
        PROVE  Done
    BY <1>1, <2>2 DEF Answer
  <2>3. {"created", "destroyed"} \subseteq Result
    BY DEF Result
  <2>4. ASSUME NEW cred \in Cred, HandleCreateSubject(h, cred)
        PROVE  Done
    <3> DEFINE r == [op |-> "create", cred |-> cred]
    <3>1. \E m : Answer(h, r, "created", m)
      BY <2>4 DEF HandleCreateSubject, Refuse
    <3>2. r.op \in {"create", "destroy", "verify"}
      OBVIOUS
    <3> HIDE DEF r, Done
    <3> QED
      BY <2>2, <2>3, <3>1, <3>2
  <2>5. ASSUME NEW cred \in Cred, NEW t \in Token, HandleDestroySubject(h, cred, t)
        PROVE  Done
    <3> DEFINE r == [op |-> "destroy", cred |-> cred, token |-> t]
    <3>1. Answer(h, r, "destroyed", {})
      BY <2>5 DEF HandleDestroySubject, Refuse
    <3>2. r.op \in {"create", "destroy", "verify"}
      OBVIOUS
    <3> HIDE DEF r, Done
    <3> QED
      BY <2>2, <2>3, <3>1, <3>2
  <2>6. ASSUME NEW t \in Token, NEW signed \in BOOLEAN, NEW needs \in SUBSET Item,
               HandleVerify(h, signed, t, needs)
        PROVE  Done
    <3> DEFINE r == [op |-> "verify", token |-> t, needs |-> needs]
    <3>1. \E res \in Result : Answer(h, r, res, {})
      BY <2>1, <2>6 DEF HandleVerify, Refuse
    <3>2. r.op \in {"create", "destroy", "verify"}
      OBVIOUS
    <3> HIDE DEF r, Done
    <3> QED
      BY <2>2, <3>1, <3>2
  <2> QED
    BY <1>2, <2>4, <2>5, <2>6
<1>3. CASE \/ \E cred \in Cred : HandleActivity(h, cred)
           \/ \E cred \in Cred, t \in Token : HandleGetSubject(h, cred, t)
           \/ \E t \in Token : \/ HandleGetMySubject(h, t)
                               \/ HandleRevokeMyGrants(h, t)
                               \/ \E who \in Spelling, items \in SUBSET Item :
                                    HandleProposal(h, t, who, items)
  <2>1. \E r, m : r.op # "decide" /\ Goto(h, "checked", r, m)
    BY <1>3 DEF HandleActivity, HandleGetSubject, HandleProposal,
       HandleGetMySubject, HandleRevokeMyGrants, Refuse
  <2> QED
    BY <1>1, <2>1 DEF Goto
<1>4. CASE \E id \in ProposalId, email \in Approver \cup {NoOne},
              choice \in {"approve", "reject", "other"}, ttl \in GrantTTL :
                HandleApproveSubmit(h, id, email, choice, ttl)
  <2>1. PICK id \in ProposalId, email \in Approver \cup {NoOne},
             choice \in {"approve", "reject", "other"}, ttl \in GrantTTL :
               HandleApproveSubmit(h, id, email, choice, ttl)
    BY <1>4
  <2>2. /\ MayDecide(id, email, choice)
        /\ Goto(h, "checked", [op |-> "decide", id |-> id, email |-> email,
                               choice |-> choice, ttl |-> ttl], {})
        /\ UNCHANGED <<storeVars, config>>
    BY <2>1 DEF HandleApproveSubmit, Refuse
  <2>3. req'[h].id = id /\ req'[h].email = email
    BY <1>1, <2>2 DEF Goto
  <2> QED
    BY <1>1, <2>2, <2>3 DEF Goto, MayDecide, ApproverGate, Store!GetProposal
<1> QED
  BY <1>2, <1>3, <1>4 DEF Arrive

\* Where a goroutine can be after its next transaction: with its submission
\* stamped, or done, or away.
LEMMA ContinueMoves ==
  ASSUME Ground, Answers, NEW h \in Handler, Continue(h)
  PROVE  \/ pc'[h] = "stamped" /\ result'[h] = "none"
         \/ pc'[h] = "done" /\ result'[h] \in Result /\ req'[h] = req[h]
         \/ Ended(h)
<1>1. h \in DOMAIN pc /\ h \in DOMAIN req /\ h \in DOMAIN result
  BY DEF Ground, Goroutines, Answers
<1>2. CASE ReadHistory(h) \/ RecordProposal(h) \/ ReadGrants(h) \/ RevokeGrants(h)
  <2>1. \E res, m : res \in Result /\ Answer(h, req[h], res, m)
    BY <1>2 DEF ReadHistory, RecordProposal, ReadGrants, RevokeGrants, Result
  <2> QED
    BY <1>1, <2>1 DEF Answer
<1>3. CASE Decide(h)
  <2>1. Store!Found(req[h].id)
    BY <1>3 DEF Decide, Answers, Gated
  <2>2. DecisionPage(req[h].id, req[h].choice) \in Result
    BY <2>1 DEF DecisionPage, Store!DecideError, Result
  <2> QED
    BY <1>1, <1>3, <2>2 DEF Decide, Answer
<1>4. CASE StampProposal(h)
  BY <1>1, <1>4 DEF StampProposal, Goto, Answers
<1>5. CASE Reply(h)
  BY <1>1, <1>5 DEF Reply, Ended
<1> QED
  BY <1>2, <1>3, <1>4, <1>5 DEF Continue

LEMMA ConfigKept == [Next]_vars => UNCHANGED config
<1>1. UNCHANGED vars => UNCHANGED config
  BY DEF vars
<1>2. (Boot \/ Crash) => UNCHANGED config
  BY DEF Boot, Crash
<1> QED
  BY <1>1, <1>2, ArriveShape, ContinueShape DEF Next

LEMMA AnswersStep ==
  ASSUME Ground, Answers, [Next]_vars
  PROVE  Answers'
<1>1. ASSUME NEW k \in Handler
      PROVE  /\ result'[k] \in Result
             /\ pc'[k] # "done" => result'[k] = "none"
             /\ Gated(k)'
  <2>1. CASE Same(k)
    <3>1. (pc[k] = "checked" /\ req[k].op = "decide") =>
            /\ Store!Found(req[k].id)'
            /\ loginOn' => req'[k].email = proposals'[req[k].id].approver
      BY <2>1, KeptFields, ConfigKept DEF Answers, Gated, Store!Found, Same, config
    <3> QED
      BY <2>1, <3>1 DEF Same, Answers, Gated, Store!Found
  <2>2. CASE Ended(k)
    BY <2>2 DEF Ended, Gated, Result
  <2>3. CASE Arrive(k) /\ ~UNCHANGED vars
    BY <2>3, ArriveMoves DEF Gated, Result, Store!Found, storeVars, config
  <2>4. CASE Continue(k)
    BY <2>4, ContinueMoves DEF Gated, Result, Ended
  <2> QED
    BY <2>1, <2>2, <2>3, <2>4, EachMoves
<1>2. DOMAIN result' = Handler /\ result' = [k \in Handler |-> result'[k]]
  <2>1. \/ UNCHANGED result
        \/ \E h, res : result' = [result EXCEPT ![h] = res]
        \/ result' = [h \in Handler |-> "none"]
    <3>1. (UNCHANGED vars \/ UNCHANGED handlerVars) => UNCHANGED result
      BY DEF vars, handlerVars
    <3>2. ASSUME NEW h \in Handler, Arrive(h) \/ Continue(h)
          PROVE  UNCHANGED result \/ \E res : result' = [result EXCEPT ![h] = res]
      BY <3>1, <3>2, ArriveShape, ContinueShape DEF Goto, Answer, Reply
    <3> QED
      BY <3>1, <3>2 DEF Next, Boot, Crash
  <2> QED
    BY <2>1 DEF Answers
<1> QED
  BY <1>1, <1>2 DEF Answers

LEMMA AnswersHold == Spec => []Answers
<1>1. Init => Answers
  BY DEF Init, Answers, Gated, Result
<1>2. Ground /\ Answers /\ [Next]_vars => Answers'
  BY AnswersStep
<1> QED
  BY <1>1, <1>2, GroundHolds, PTL DEF Spec

-----------------------------------------------------------------------------
(* Type correctness.                                                       *)

\* Store, configuration, goroutines and answers keep their types, and the
\* creation time a submission has read lies in the past.
THEOREM ServerTypeCorrect == Spec => []TypeOK
<1> DEFINE Config == adminToken \in Cred /\ loginOn \in BOOLEAN
<1>1. Init => Config
  BY DEF Init, Cred
<1>2. Config /\ [Next]_vars => Config'
  BY ConfigKept DEF config
<1>3. Config /\ Ground /\ Answers => TypeOK
  BY DEF Ground, Goroutines, Carries, Answers, TypeOK
<1>4. Spec => []Config
  BY <1>1, <1>2, PTL DEF Spec
<1> QED
  BY <1>3, <1>4, GroundHolds, AnswersHold, PTL

-----------------------------------------------------------------------------
(* Who decides.                                                            *)

LEMMA ApproverStep ==
  ASSUME Ground, Answers, [Next]_vars, loginOn, NEW id \in DOMAIN proposals,
         Store!Pending(id), proposals'[id].status \in {"approved", "rejected"}
  PROVE  \E h \in Handler : /\ req[h].op = "decide" /\ req[h].id = id
                            /\ req[h].email = proposals[id].approver
<1>1. proposals'[id] # proposals[id]
  BY DEF Store!Pending
<1>2. ~Store!PurgeExpired
  <2>1. proposals[id] \in Store!Proposal
    BY DEF Ground, Store!TypeOK
  <2>2. Store!ShownStatus(proposals[id]) \notin {"approved", "rejected"}
    BY DEF Store!ShownStatus, Store!Pending
  <2> QED
    BY <2>1, <2>2, PurgeWrites DEF Store!Proposal
<1>3. \A h \in Handler : ~RecordProposal(h)
  BY <1>1, RecordWrites
<1>4. PICK h \in Handler : Decide(h)
  BY <1>1, <1>2, <1>3, Writers
<1>5. req[h].id = id
  BY <1>1, <1>4, DecideDomain
<1>6. pc[h] = "checked" /\ req[h].op = "decide" /\ Gated(h)
  BY <1>4 DEF Decide, Answers
<1> QED
  BY <1>5, <1>6 DEF Gated

\* With the login on nobody but its named approver gets a proposal approved or
\* rejected: the gate a request passed in one transaction still holds in the
\* transaction that decides.
THEOREM OnlyApproverDecides == Spec => NamedApproverDecides
<1>1. Ground /\ Answers /\ [Next]_vars =>
        [loginOn =>
           \A id \in DOMAIN proposals :
             (Store!Pending(id) /\ proposals'[id].status \in {"approved", "rejected"})
               => \E h \in Handler :
                    /\ req[h].op = "decide" /\ req[h].id = id
                    /\ req[h].email = proposals[id].approver]_vars
  BY ApproverStep
<1> QED
  BY <1>1, GroundHolds, AnswersHold, PTL DEF Spec, NamedApproverDecides

-----------------------------------------------------------------------------
(* What an allowed answer means.                                           *)

\* Nothing but a verification answers "allowed".
LEMMA OthersDoNotAllow ==
  ASSUME Ground, Answers, NEW h \in Handler, Continue(h)
  PROVE  ~(req'[h].op = "verify" /\ result'[h] = "allowed")
<1>1. h \in DOMAIN pc /\ h \in DOMAIN req /\ h \in DOMAIN result
  BY DEF Ground, Goroutines, Answers
<1>2. CASE ReadHistory(h) \/ ReadGrants(h) \/ RevokeGrants(h) \/ Decide(h)
  BY <1>1, <1>2 DEF ReadHistory, ReadGrants, RevokeGrants, Decide, Answer
<1>3. CASE RecordProposal(h)
  BY <1>1, <1>3 DEF RecordProposal, Answer
<1>4. CASE StampProposal(h) \/ Reply(h)
  BY <1>1, <1>4 DEF StampProposal, Goto, Reply, NoRequest
<1> QED
  BY <1>2, <1>3, <1>4 DEF Continue

\* When a verification allows, the token holds an active grant for each item
\* needed, in the state of its one transaction.
LEMMA VerifyAllows ==
  ASSUME Ground, Answers, NEW h \in Handler, Arrive(h), ~UNCHANGED vars,
         req'[h].op = "verify", result'[h] = "allowed",
         NEW i \in req'[h].needs
  PROVE  \E g \in grants : g.token = req'[h].token /\ g.item = i
<1>1. h \in DOMAIN pc /\ h \in DOMAIN req /\ h \in DOMAIN result
  BY DEF Ground, Goroutines, Answers
<1>2. PICK t \in Token, signed \in BOOLEAN, needs \in SUBSET Item :
        HandleVerify(h, signed, t, needs)
  BY <1>1 DEF Arrive, HandleCreateSubject, HandleActivity,
     HandleDestroySubject, HandleGetSubject, HandleProposal, HandleGetMySubject,
     HandleRevokeMyGrants, HandleApproveSubmit, Refuse, Goto, Answer
<1>3. Answer(h, [op |-> "verify", token |-> t, needs |-> needs],
             Evaluate({g.item : g \in Store!ActiveGrants(t)}, needs), {})
  BY <1>2 DEF HandleVerify, Refuse
<1>4. /\ req'[h].token = t /\ req'[h].needs = needs
      /\ Evaluate({g.item : g \in Store!ActiveGrants(t)}, needs) = "allowed"
  BY <1>1, <1>3 DEF Answer
<1>5. needs \subseteq {g.item : g \in Store!ActiveGrants(t)}
  BY <1>4 DEF Evaluate
<1> QED
  BY <1>4, <1>5 DEF Store!ActiveGrants, Store!GrantsOf

LEMMA AllowedStep ==
  ASSUME Ground, Answers, AllowedMeansApproved, [Next]_vars
  PROVE  AllowedMeansApproved'
<1> SUFFICES ASSUME NEW k \in Handler, req'[k].op = "verify", result'[k] = "allowed",
                    NEW i \in req'[k].needs
             PROVE  \E id \in DOMAIN proposals' :
                      /\ proposals'[id].status = "approved"
                      /\ proposals'[id].token = req'[k].token
                      /\ i \in proposals'[id].items
  BY DEF AllowedMeansApproved
<1>1. ASSUME NEW id \in DOMAIN proposals, proposals[id].status = "approved",
             proposals[id].token = req'[k].token, i \in proposals[id].items
      PROVE  /\ id \in DOMAIN proposals'
             /\ proposals'[id].status = "approved"
             /\ proposals'[id].token = req'[k].token
             /\ i \in proposals'[id].items
  BY <1>1, KeptFields
<1>2. CASE Same(k)
  <2>1. \E id \in DOMAIN proposals :
          /\ proposals[id].status = "approved"
          /\ proposals[id].token = req'[k].token
          /\ i \in proposals[id].items
    BY <1>2 DEF Same, AllowedMeansApproved
  <2> QED
    BY <1>1, <2>1
<1>3. CASE Arrive(k) /\ ~UNCHANGED vars
  <2>1. PICK g \in grants : g.token = req'[k].token /\ g.item = i
    BY <1>3, VerifyAllows
  <2>2. Store!Backed(g)
    BY DEF Ground, Store!GrantsAreBacked
  <2> QED
    BY <1>1, <2>1, <2>2 DEF Store!Backed, Store!Found
<1>4. ~Ended(k) /\ ~Continue(k)
  BY OthersDoNotAllow DEF Ended
<1> QED
  BY <1>2, <1>3, <1>4, EachMoves

\* "allowed" is said only of what the named token was approved for, and the
\* approval is still on file when the answer is written, whatever became of
\* the grants in the meantime.
THEOREM AllowedIsApproved == Spec => []AllowedMeansApproved
<1>1. Init => AllowedMeansApproved
  BY DEF Init, AllowedMeansApproved
<1>2. Ground /\ Answers /\ AllowedMeansApproved /\ [Next]_vars => AllowedMeansApproved'
  BY AllowedStep
<1> QED
  BY <1>1, <1>2, GroundHolds, AnswersHold, PTL DEF Spec

-----------------------------------------------------------------------------
(* What the consent pages say.                                             *)

Told(h) == pc[h] = "done" /\ req[h].op = "decide"

\* A page that tells something is about a proposal on file.
OnFile == \A h \in Handler : Told(h) => Store!Found(req[h].id)

\* Somebody is told of a decision only by his own decision.
LEMMA TellMoves ==
  ASSUME Ground, Answers, [Next]_vars, NEW k \in Handler, Told(k)'
  PROVE  Same(k) \/ (Decide(k) /\ req'[k] = req[k])
<1>1. ASSUME Arrive(k), ~UNCHANGED vars PROVE FALSE
  BY <1>1, ArriveMoves DEF Told
<1>2. ASSUME Continue(k) PROVE Decide(k) /\ req'[k] = req[k]
  <2>1. req'[k] = req[k]
    BY <1>2, ContinueMoves DEF Told, Ended
  <2>2. ~(ReadHistory(k) \/ ReadGrants(k) \/ RevokeGrants(k))
    BY <2>1 DEF Told, ReadHistory, ReadGrants, RevokeGrants
  <2>3. ~RecordProposal(k)
    BY <2>1 DEF Told, RecordProposal, Ground, Goroutines, Carries
  <2>4. ~(StampProposal(k) \/ Reply(k))
    BY <2>1 DEF Told, StampProposal, Goto, Reply, Ground, Goroutines
  <2> QED
    BY <1>2, <2>1, <2>2, <2>3, <2>4 DEF Continue
<1> QED
  BY <1>1, <1>2, EachMoves DEF Told, Ended

\* The decision a page reports is the one its transaction made.
LEMMA DecideTells ==
  ASSUME Ground, Answers, NEW h \in Handler, Decide(h)
  PROVE  /\ req[h].id \in DOMAIN proposals
         /\ result'[h] \in {"approved", "rejected", "expired"} =>
              /\ proposals[req[h].id].status = "pending"
              /\ proposals'[req[h].id].status = result'[h]
<1> DEFINE id == req[h].id
<1>1. id \in DOMAIN proposals
  BY DEF Decide, Answers, Gated, Store!Found
<1>2. proposals[id] \in Store!Proposal
  BY <1>1 DEF Ground, Store!TypeOK
<1>3. result'[h] = DecisionPage(id, req[h].choice)
  BY DEF Decide, Answer, Answers
<1>4. CASE Store!DecideError(id) = "none"
  <2>1. proposals[id].status = "pending"
    BY <1>1, <1>4 DEF Store!DecideError, Store!Found
  <2>2. CASE req[h].choice = "approve" /\ Store!Approve(id, req[h].ttl)
    <3>1. proposals' = [proposals EXCEPT ![id].status = "approved"]
      BY <1>4, <2>2 DEF Store!Approve, Store!FailDecision
    <3>2. result'[h] = "approved"
      BY <1>3, <1>4, <2>2 DEF DecisionPage
    <3> QED
      BY <1>1, <1>2, <2>1, <3>1, <3>2 DEF Store!Proposal
  <2>3. CASE req[h].choice = "reject" /\ Store!Reject(id)
    <3>1. proposals' = [proposals EXCEPT ![id].status = "rejected"]
      BY <1>4, <2>3 DEF Store!Reject, Store!FailDecision
    <3>2. result'[h] = "rejected"
      BY <1>3, <1>4, <2>3 DEF DecisionPage
    <3> QED
      BY <1>1, <1>2, <2>1, <3>1, <3>2 DEF Store!Proposal
  <2> QED
    BY <2>2, <2>3 DEF Decide
<1>5. CASE Store!DecideError(id) = "expired"
  <2>1. proposals[id].status = "pending"
    BY <1>1, <1>5 DEF Store!DecideError, Store!Found, Store!Expired
  <2>2. proposals' = [proposals EXCEPT ![id].status = "expired"]
    BY <1>5 DEF Decide, Store!Approve, Store!Reject, Store!FailDecision
  <2>3. result'[h] = "expired"
    BY <1>3, <1>5 DEF DecisionPage
  <2> QED
    BY <1>1, <1>2, <2>1, <2>2, <2>3 DEF Store!Proposal
<1>6. CASE Store!DecideError(id) = "already_decided"
  BY <1>1, <1>3, <1>6 DEF DecisionPage
<1> QED
  BY <1>1, <1>4, <1>5, <1>6 DEF Store!DecideError, Store!Found

LEMMA TellStep ==
  ASSUME Ground, Answers, OnFile, OneDecisionTold, [Next]_vars
  PROVE  (OnFile /\ OneDecisionTold)'
<1> DEFINE Final == {"approved", "rejected", "expired"}
<1>1. ASSUME NEW h \in Handler, Told(h)', Same(h)
      PROVE  /\ Told(h)
             /\ req'[h].id \in DOMAIN proposals'
             /\ result'[h] \in Final => proposals[req[h].id].status = result[h]
             /\ result'[h] \in Final => proposals'[req'[h].id].status = result'[h]
  <2>1. Told(h) /\ req[h].id \in DOMAIN proposals
    BY <1>1 DEF Told, Same, OnFile, Store!Found
  <2>2. result[h] \in Final => proposals[req[h].id].status = result[h]
    BY <2>1 DEF OneDecisionTold, Told
  <2> QED
    BY <1>1, <2>1, <2>2, KeptFields DEF Same
<1>2. ASSUME NEW h \in Handler, Decide(h), req'[h] = req[h]
      PROVE  req'[h].id \in DOMAIN proposals'
  BY <1>2, DecideTells, DecideDomain
<1>3. ASSUME NEW h \in Handler, Told(h)', result'[h] \in Final
      PROVE  proposals'[req'[h].id].status = result'[h]
  BY <1>1, <1>3, TellMoves, DecideTells
<1>4. ASSUME NEW h \in Handler, NEW k \in Handler \ {h}, Told(h)', Told(k)',
             req'[k].id = req'[h].id, Decide(h), req'[h] = req[h],
             result'[h] \in Final
      PROVE  result'[k] \notin Final
  <2>1. Same(k)
    <3>1. pc'[k] = pc[k]
      BY <1>4 DEF Decide, Answer, Ground, Goroutines
    <3> QED
      BY <1>4, <3>1, TellMoves DEF Told, Decide
  <2>2. proposals[req[h].id].status = "pending"
    BY <1>4, DecideTells
  <2> QED
    BY <1>1, <1>4, <2>1, <2>2 DEF Same
<1>5. ASSUME NEW h \in Handler, NEW k \in Handler \ {h}, Told(h)', Told(k)',
             req'[k].id = req'[h].id, result'[h] \in {"approved", "rejected"}
      PROVE  result'[k] \notin Final
  <2>1. CASE Same(h) /\ Same(k)
    BY <1>5, <2>1 DEF Same, Told, OneDecisionTold
  <2>2. CASE Decide(h) /\ req'[h] = req[h]
    BY <1>4, <1>5, <2>2
  <2>3. CASE Decide(k) /\ req'[k] = req[k]
    BY <1>4, <1>5, <2>3
  <2> QED
    BY <1>5, <2>1, <2>2, <2>3, TellMoves
<1>6. OnFile'
  BY <1>1, <1>2, TellMoves DEF OnFile, Store!Found
<1>7. OneDecisionTold'
  BY <1>3, <1>5 DEF OneDecisionTold, Told
<1> QED
  BY <1>6, <1>7

\* However many people and tabs decide one proposal at once, at most one of
\* them reads "approved" or "rejected", and the file agrees with that page.
THEOREM OnePageTellsTheDecision == Spec => []OneDecisionTold
<1>1. Init => OnFile /\ OneDecisionTold
  BY DEF Init, OnFile, Told, OneDecisionTold
<1>2. Ground /\ Answers /\ OnFile /\ OneDecisionTold /\ [Next]_vars
        => (OnFile /\ OneDecisionTold)'
  BY TellStep
<1> QED
  BY <1>1, <1>2, GroundHolds, AnswersHold, PTL DEF Spec

-----------------------------------------------------------------------------
(* What the operator is shown.                                             *)

\* The grants read first belong to approved proposals, and stay so until the
\* proposals are read.
Listing(h) ==
  (pc[h] = "checked" /\ req[h].op = "activity") =>
    \E G : /\ memo[h] = [grants |-> G, history |-> {}]
           /\ \A g \in G : /\ g.proposal \in DOMAIN proposals
                           /\ proposals[g.proposal].status = "approved"
                           /\ proposals[g.proposal].token = g.token

\* The list is begun with the grants of the moment.
LEMMA ListingBegins ==
  ASSUME Ground, Answers, [Next]_vars, NEW h \in Handler, Arrive(h), ~UNCHANGED vars
  PROVE  Listing(h)' /\ result'[h] # "listed"
<1>1. h \in DOMAIN pc /\ h \in DOMAIN req /\ h \in DOMAIN memo /\ h \in DOMAIN result
  BY DEF Ground, Goroutines, Answers
<1>2. ASSUME NEW cred \in Cred, HandleActivity(h, cred) PROVE Listing(h)'
  <2>1. /\ memo'[h] = [grants |-> Store!AllGrants, history |-> {}]
        /\ UNCHANGED proposals
    BY <1>1, <1>2 DEF HandleActivity, Refuse, Goto, storeVars
  <2>2. \A g \in Store!AllGrants : /\ g.proposal \in DOMAIN proposals
                                   /\ proposals[g.proposal].status = "approved"
                                   /\ proposals[g.proposal].token = g.token
    BY DEF Ground, Store!GrantsAreBacked, Store!Backed, Store!Found, Store!AllGrants
  <2> QED
    BY <2>1, <2>2 DEF Listing
<1>3. ASSUME pc'[h] = "checked", req'[h].op = "activity"
      PROVE  \E cred \in Cred : HandleActivity(h, cred)
  <2>1. ASSUME NEW r, NEW m, Goto(h, "checked", r, m) PROVE r.op = "activity"
    BY <1>1, <1>3, <2>1 DEF Goto
  <2>2. ASSUME NEW r, NEW res, NEW m, Answer(h, r, res, m) PROVE FALSE
    BY <1>1, <1>3, <2>2 DEF Answer
  <2>3. \A cred \in Cred : /\ ~HandleCreateSubject(h, cred)
                           /\ \A t \in Token : ~HandleDestroySubject(h, cred, t)
    BY <2>2 DEF HandleCreateSubject, HandleDestroySubject, Refuse
  <2>4. \A t \in Token, signed \in BOOLEAN, needs \in SUBSET Item :
          ~HandleVerify(h, signed, t, needs)
    BY <2>2 DEF HandleVerify, Refuse
  <2>5. \A cred \in Cred, t \in Token : ~HandleGetSubject(h, cred, t)
    BY <2>1 DEF HandleGetSubject, Refuse
  <2>6. \A t \in Token : ~HandleGetMySubject(h, t) /\ ~HandleRevokeMyGrants(h, t)
    BY <2>1 DEF HandleGetMySubject, HandleRevokeMyGrants, Refuse
  <2>7. \A t \in Token, who \in Spelling, items \in SUBSET Item :
          ~HandleProposal(h, t, who, items)
    BY <2>1 DEF HandleProposal, Refuse
  <2>8. \A id \in ProposalId, email \in Approver \cup {NoOne},
           choice \in {"approve", "reject", "other"}, ttl \in GrantTTL :
          ~HandleApproveSubmit(h, id, email, choice, ttl)
    BY <2>1 DEF HandleApproveSubmit, Refuse
  <2>9. \E cred \in Cred :
          \/ HandleCreateSubject(h, cred) \/ HandleActivity(h, cred)
          \/ \E t \in Token :
               HandleDestroySubject(h, cred, t) \/ HandleGetSubject(h, cred, t)
    BY <2>4, <2>6, <2>7, <2>8 DEF Arrive
  <2> QED
    BY <2>3, <2>5, <2>9
<1>4. result'[h] # "listed"
  <2>1. ASSUME pc'[h] = "done" PROVE result'[h] # "listed"
    BY <1>1, <2>1 DEF Arrive, HandleCreateSubject, HandleDestroySubject,
       HandleActivity, HandleGetSubject, HandleProposal, HandleGetMySubject,
       HandleRevokeMyGrants, HandleVerify, HandleApproveSubmit, Refuse, Goto,
       Answer, Evaluate
  <2> QED
    BY <2>1, ArriveMoves
<1> QED
  BY <1>2, <1>3, <1>4 DEF Listing

\* The list is finished with the proposals of a later moment.
LEMMA ListingEnds ==
  ASSUME Ground, Answers, NEW h \in Handler, Listing(h), Continue(h)
  PROVE  /\ Listing(h)'
         /\ result'[h] = "listed" =>
              \A g \in memo'[h].grants : \E e \in memo'[h].history :
                e = [proposal |-> g.proposal, token |-> g.token, status |-> "approved"]
<1>1. h \in DOMAIN pc /\ h \in DOMAIN req /\ h \in DOMAIN memo /\ h \in DOMAIN result
  BY DEF Ground, Goroutines, Answers
<1>2. Listing(h)'
  BY ContinueMoves DEF Ended, Listing
<1>3. CASE ReadHistory(h)
  <2>1. PICK G : /\ memo[h] = [grants |-> G, history |-> {}]
                 /\ \A g \in G : /\ g.proposal \in DOMAIN proposals
                                 /\ proposals[g.proposal].status = "approved"
                                 /\ proposals[g.proposal].token = g.token
    BY <1>3 DEF ReadHistory, Listing
  <2> DEFINE H == {[proposal |-> id, token |-> proposals[id].token,
                    status |-> Store!ShownStatus(proposals[id])] :
                      id \in DOMAIN Store!AllProposals}
  <2>2. Answer(h, req[h], "listed", [memo[h] EXCEPT !.history = H])
    BY <1>3, Zenon DEF ReadHistory
  <2>3. memo'[h].grants = G /\ memo'[h].history = H
    <3> HIDE DEF H
    <3> DEFINE M == [[grants |-> G, history |-> {}] EXCEPT !.history = H]
    <3>1. M = [grants |-> G, history |-> H]
      OBVIOUS
    <3>2. Answer(h, req[h], "listed", M)
      BY <2>1, <2>2, Zenon
    <3> HIDE DEF M
    <3>3. memo'[h] = M
      BY <1>1, <3>2 DEF Answer
    <3> QED
      BY <3>1, <3>3
  <2>4. ASSUME NEW g \in G
        PROVE  \E e \in H : e = [proposal |-> g.proposal, token |-> g.token,
                                 status |-> "approved"]
    <3>1. Store!ShownStatus(proposals[g.proposal]) = "approved"
      BY <2>1 DEF Store!ShownStatus, Store!Expired
    <3> QED
      BY <2>1, <3>1 DEF Store!AllProposals
  <2> QED
    BY <1>2, <2>3, <2>4
<1>4. CASE ~ReadHistory(h)
  <2>1. result'[h] # "listed"
    <3>1. CASE Decide(h)
      <4>1. req[h].id \in DOMAIN proposals
        BY <3>1, DecideTells
      <4> QED
        BY <1>1, <3>1, <4>1 DEF Decide, Answer, DecisionPage, Store!DecideError
    <3>2. CASE RecordProposal(h)
      BY <1>1, <3>2 DEF RecordProposal, Answer
    <3>3. CASE ReadGrants(h) \/ RevokeGrants(h)
      BY <1>1, <3>3 DEF ReadGrants, RevokeGrants, Answer
    <3>4. CASE StampProposal(h) \/ Reply(h)
      BY <1>1, <3>4 DEF StampProposal, Goto, Reply, Answers
    <3> QED
      BY <1>4, <3>1, <3>2, <3>3, <3>4 DEF Continue
  <2> QED
    BY <1>2, <2>1
<1> QED
  BY <1>3, <1>4

LEMMA ListingStep ==
  ASSUME Ground, Answers, \A h \in Handler : Listing(h), ActivityIsCoherent,
         [Next]_vars
  PROVE  (\A h \in Handler : Listing(h))' /\ ActivityIsCoherent'
<1> SUFFICES ASSUME NEW h \in Handler
             PROVE  /\ Listing(h)'
                    /\ result'[h] = "listed" =>
                         \A g \in memo'[h].grants : \E e \in memo'[h].history :
                           e = [proposal |-> g.proposal, token |-> g.token,
                                status |-> "approved"]
  BY DEF ActivityIsCoherent
<1>1. CASE Same(h)
  <2>1. \A q \in DOMAIN proposals :
          /\ q \in DOMAIN proposals'
          /\ proposals'[q].token = proposals[q].token
          /\ proposals[q].status = "approved" => proposals'[q].status = "approved"
    BY KeptFields
  <2>2. ASSUME pc[h] = "checked", req[h].op = "activity"
        PROVE  \E G : /\ memo'[h] = [grants |-> G, history |-> {}]
                      /\ \A g \in G : /\ g.proposal \in DOMAIN proposals'
                                      /\ proposals'[g.proposal].status = "approved"
                                      /\ proposals'[g.proposal].token = g.token
    <3>1. PICK G : /\ memo[h] = [grants |-> G, history |-> {}]
                   /\ \A g \in G : /\ g.proposal \in DOMAIN proposals
                                   /\ proposals[g.proposal].status = "approved"
                                   /\ proposals[g.proposal].token = g.token
      BY <2>2 DEF Listing
    <3>2. memo'[h] = [grants |-> G, history |-> {}]
      BY <1>1, <3>1 DEF Same
    <3>3. \A g \in G : /\ g.proposal \in DOMAIN proposals'
                      /\ proposals'[g.proposal].status = "approved"
                      /\ proposals'[g.proposal].token = g.token
      BY <2>1, <3>1
    <3> QED
      BY <3>2, <3>3
  <2>3. Listing(h)'
    BY <1>1, <2>2 DEF Same, Listing
  <2> QED
    BY <1>1, <2>3 DEF Same, ActivityIsCoherent
<1>2. CASE Ended(h)
  BY <1>2 DEF Ended, Listing
<1>3. CASE Arrive(h) /\ ~UNCHANGED vars
  BY <1>3, ListingBegins
<1>4. CASE Continue(h)
  BY <1>4, ListingEnds
<1> QED
  BY <1>1, <1>2, <1>3, <1>4, EachMoves

\* The operator's list is coherent although its two halves are read at
\* different moments: approvals, revocations and sweeps in between cannot make
\* it show a grant beside a proposal that is absent or undecided.
THEOREM ActivityCoherent == Spec => []ActivityIsCoherent
<1>1. Init => (\A h \in Handler : Listing(h)) /\ ActivityIsCoherent
  BY DEF Init, Listing, ActivityIsCoherent
<1>2. Ground /\ Answers /\ (\A h \in Handler : Listing(h)) /\ ActivityIsCoherent
        /\ [Next]_vars
        => ((\A h \in Handler : Listing(h)) /\ ActivityIsCoherent)'
  BY ListingStep
<1> QED
  BY <1>1, <1>2, GroundHolds, AnswersHold, PTL DEF Spec
=============================================================================
