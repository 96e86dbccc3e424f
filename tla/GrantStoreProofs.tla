-------------------------- MODULE GrantStoreProofs --------------------------
(***************************************************************************)
(* What holds of GrantStore for every set of tokens, proposals, approvers  *)
(* and items, every lifetime and every clock bound.                        *)
(***************************************************************************)
EXTENDS GrantStore, TLAPS

-----------------------------------------------------------------------------
(* Type correctness.                                                       *)

\* A failed decision leaves well-typed proposals: it stores at most the
\* status "expired".
LEMMA FailDecisionType ==
  ASSUME TypeOK, NEW id \in ProposalId, FailDecision(id)
  PROVE  /\ DOMAIN proposals' = DOMAIN proposals
         /\ proposals' \in [DOMAIN proposals -> Proposal]
         /\ grants' = grants
BY DEF TypeOK, FailDecision, Proposal, Status, DecideError, Found, Expired

\* The grants of an approval are grants.
LEMMA NewGrantsType ==
  ASSUME TypeOK, NEW id \in ProposalId, Found(id), NEW ttl \in GrantTTL
  PROVE  NewGrants(id, ttl) \subseteq Grant
BY GrantTTLAssumption DEF TypeOK, NewGrants, Grant, Proposal, Bundle, Found

\* Every transaction leaves every bucket with records of its kind.
LEMMA TypeStep == TypeOK /\ [Next]_vars => TypeOK'
<1> SUFFICES ASSUME TypeOK, [Next]_vars PROVE TypeOK'
  OBVIOUS
<1>1. ASSUME NEW t \in Token, CreateSubject(t) PROVE TypeOK'
  BY <1>1 DEF TypeOK, CreateSubject
<1>2. ASSUME NEW t \in Token, SubjectForToken(t) PROVE TypeOK'
  BY <1>2 DEF TypeOK, SubjectForToken
<1>3. ASSUME NEW t \in Token, DestroySubject(t) PROVE TypeOK'
  BY <1>3 DEF TypeOK, DestroySubject
<1>4. ASSUME NEW t \in Token, RevokeGrantsForToken(t) PROVE TypeOK'
  BY <1>4 DEF TypeOK, RevokeGrantsForToken
<1>5. ASSUME NEW id \in ProposalId, NEW t \in minted, NEW who \in Approver,
             NEW items \in Bundle, NEW at \in 0..now,
             CreateProposal(id, t, who, items, at)
      PROVE TypeOK'
  <2>1. [token |-> t, approver |-> who, items |-> items, status |-> "pending",
         createdAt |-> at, expiresAt |-> at + RequestTTL] \in Proposal
    BY RequestTTLAssumption DEF TypeOK, Proposal, Status
  <2>2. /\ DOMAIN proposals' = DOMAIN proposals \cup {id}
        /\ proposals' \in [DOMAIN proposals \cup {id} -> Proposal]
    BY <1>5, <2>1 DEF TypeOK, CreateProposal, Put
  <2> QED
    BY <1>5, <2>2 DEF TypeOK, CreateProposal
<1>6. ASSUME NEW id \in ProposalId, NEW ttl \in GrantTTL, Approve(id, ttl)
      PROVE TypeOK'
  <2>1. CASE FailDecision(id)
    BY <1>6, <2>1, FailDecisionType DEF TypeOK, Approve
  <2>2. CASE /\ DecideError(id) = "none"
             /\ proposals' = [proposals EXCEPT ![id].status = "approved"]
             /\ grants' = grants \cup NewGrants(id, ttl)
    <3>1. Found(id)
      BY <2>2 DEF DecideError
    <3>2. NewGrants(id, ttl) \subseteq Grant
      BY <3>1, NewGrantsType
    <3>3. /\ DOMAIN proposals' = DOMAIN proposals
          /\ proposals' \in [DOMAIN proposals -> Proposal]
      BY <2>2, <3>1 DEF TypeOK, Proposal, Status, Found
    <3> QED
      BY <1>6, <2>2, <3>2, <3>3 DEF TypeOK, Approve
  <2> QED
    BY <1>6, <2>1, <2>2 DEF Approve
<1>7. ASSUME NEW id \in ProposalId, Reject(id) PROVE TypeOK'
  <2>1. CASE FailDecision(id)
    BY <1>7, <2>1, FailDecisionType DEF TypeOK, Reject
  <2>2. CASE /\ DecideError(id) = "none"
             /\ proposals' = [proposals EXCEPT ![id].status = "rejected"]
             /\ UNCHANGED grants
    <3>1. Found(id)
      BY <2>2 DEF DecideError
    <3> QED
      BY <1>7, <2>2, <3>1 DEF TypeOK, Reject, Proposal, Status, Found
  <2> QED
    BY <1>7, <2>1, <2>2 DEF Reject
<1>8. ASSUME PurgeExpired PROVE TypeOK'
  BY <1>8 DEF TypeOK, PurgeExpired, ShownStatus, Expired, Proposal, Status
<1>9. ASSUME StartCleanup \/ Stop PROVE TypeOK'
  BY <1>9 DEF TypeOK, StartCleanup, Stop
<1>10. ASSUME Tick PROVE TypeOK'
  BY <1>10 DEF TypeOK, Tick
<1>11. CASE UNCHANGED vars
  BY <1>11 DEF TypeOK, vars
<1> QED
  BY <1>1, <1>2, <1>3, <1>4, <1>5, <1>6, <1>7, <1>8, <1>9, <1>10, <1>11
  DEF Next

\* The buckets only ever hold what the code reads back from them.
THEOREM TypeCorrect == Spec => []TypeOK
<1>1. Init => TypeOK
  BY DEF Init, TypeOK
<1> QED
  BY <1>1, TypeStep, PTL DEF Spec
-----------------------------------------------------------------------------
(* Decisions are final.                                                    *)

\* Only a decision on a pending proposal and a sweep of a lapsed one write the
\* proposals bucket, and both leave decided proposals alone.
LEMMA DecisionsStep == TypeOK /\ [Next]_vars => DecisionsKept
<1> SUFFICES ASSUME TypeOK, [Next]_vars, NEW q \in DOMAIN proposals
             PROVE  /\ q \in DOMAIN proposals'
                    /\ \E s \in Status :
                         proposals'[q] = [proposals[q] EXCEPT !.status = s]
                    /\ ~Pending(q) => proposals'[q] = proposals[q]
  BY DEF DecisionsKept
<1>1. /\ proposals[q] \in Proposal
      /\ proposals[q].status \in Status
      /\ proposals[q] = [proposals[q] EXCEPT !.status = proposals[q].status]
  BY DEF TypeOK, Proposal
<1>2. CASE UNCHANGED proposals
  BY <1>1, <1>2
<1>3. ASSUME NEW id \in ProposalId, NEW t, NEW who, NEW items, NEW at,
             CreateProposal(id, t, who, items, at)
      PROVE  /\ q \in DOMAIN proposals'
             /\ proposals'[q] = proposals[q]
  BY <1>3 DEF CreateProposal, Put, Found
<1>4. ASSUME NEW id \in ProposalId, NEW s \in Status, Pending(id),
             proposals' = [proposals EXCEPT ![id].status = s]
      PROVE  /\ q \in DOMAIN proposals'
             /\ \E r \in Status :
                  proposals'[q] = [proposals[q] EXCEPT !.status = r]
             /\ ~Pending(q) => proposals'[q] = proposals[q]
  <2>1. CASE q = id
    BY <1>4, <2>1
  <2>2. CASE q # id
    BY <1>1, <1>4, <2>2
  <2> QED
    BY <2>1, <2>2
<1>5. ASSUME NEW id \in ProposalId, FailDecision(id)
      PROVE  \/ UNCHANGED proposals
             \/ /\ Pending(id)
                /\ proposals' = [proposals EXCEPT ![id].status = "expired"]
  BY <1>5 DEF FailDecision, DecideError, Pending
<1>6. ASSUME NEW id \in ProposalId, NEW ttl \in GrantTTL, Approve(id, ttl)
      PROVE  \/ UNCHANGED proposals
             \/ \E s \in Status :
                  /\ Pending(id)
                  /\ proposals' = [proposals EXCEPT ![id].status = s]
  BY <1>5, <1>6 DEF Approve, DecideError, Pending, Status
<1>7. ASSUME NEW id \in ProposalId, Reject(id)
      PROVE  \/ UNCHANGED proposals
             \/ \E s \in Status :
                  /\ Pending(id)
                  /\ proposals' = [proposals EXCEPT ![id].status = s]
  BY <1>5, <1>7 DEF Reject, DecideError, Pending, Status
<1>8. ASSUME PurgeExpired
      PROVE  /\ q \in DOMAIN proposals'
             /\ \E s \in Status :
                  proposals'[q] = [proposals[q] EXCEPT !.status = s]
             /\ ~Pending(q) => proposals'[q] = proposals[q]
  <2>1. /\ q \in DOMAIN proposals'
        /\ proposals'[q] =
             [proposals[q] EXCEPT !.status = ShownStatus(proposals[q])]
    BY <1>8 DEF PurgeExpired
  <2>2. /\ ShownStatus(proposals[q]) \in Status
        /\ ~Pending(q) => ShownStatus(proposals[q]) = proposals[q].status
    BY <1>1 DEF ShownStatus, Expired, Status, Pending, Found
  <2> QED
    BY <1>1, <2>1, <2>2
<1>9. ASSUME NEW t \in Token,
             \/ CreateSubject(t) \/ SubjectForToken(t)
             \/ DestroySubject(t) \/ RevokeGrantsForToken(t)
      PROVE  UNCHANGED proposals
  BY <1>9 DEF CreateSubject, SubjectForToken, DestroySubject,
              RevokeGrantsForToken
<1>10. ASSUME StartCleanup \/ Stop \/ Tick \/ UNCHANGED vars
       PROVE  UNCHANGED proposals
  BY <1>10 DEF StartCleanup, Stop, Tick, vars
<1>11. CASE \E id \in ProposalId, t \in minted, who \in Approver,
               items \in Bundle, at \in 0..now :
               CreateProposal(id, t, who, items, at)
  BY <1>1, <1>3, <1>11
<1>12. CASE \E id \in ProposalId, ttl \in GrantTTL : Approve(id, ttl)
  BY <1>2, <1>4, <1>6, <1>12
<1>13. CASE \E id \in ProposalId : Reject(id)
  BY <1>2, <1>4, <1>7, <1>13
<1> QED
  BY <1>2, <1>8, <1>9, <1>10, <1>11, <1>12, <1>13 DEF Next

\* No interleaving of decisions, sweeps, destructions and restarts changes a
\* decided proposal, or anything but the status of a pending one.
THEOREM DecisionsFinal == Spec => DecisionsAreFinal
<1>1. TypeOK /\ [Next]_vars => [DecisionsKept]_vars
  BY DecisionsStep
<1> QED
  BY <1>1, TypeCorrect, PTL DEF Spec, DecisionsAreFinal
-----------------------------------------------------------------------------
(* Grants come from approvals, once, and in time.                          *)

\* Where new grants come from: every step but a successful Approve removes
\* grants or leaves them alone, and a successful one adds exactly NewGrants.
LEMMA GrantsStep ==
  ASSUME TypeOK, [Next]_vars
  PROVE  \/ grants' \subseteq grants
         \/ \E id \in ProposalId, ttl \in GrantTTL :
              /\ DecideError(id) = "none"
              /\ proposals' = [proposals EXCEPT ![id].status = "approved"]
              /\ grants' = grants \cup NewGrants(id, ttl)
<1>1. ASSUME NEW t \in Token,
             \/ CreateSubject(t) \/ SubjectForToken(t)
             \/ DestroySubject(t) \/ RevokeGrantsForToken(t)
      PROVE  grants' \subseteq grants
  BY <1>1 DEF CreateSubject, SubjectForToken, DestroySubject,
              RevokeGrantsForToken
<1>2. ASSUME NEW id \in ProposalId, NEW t, NEW who, NEW items, NEW at,
             CreateProposal(id, t, who, items, at)
      PROVE  grants' \subseteq grants
  BY <1>2 DEF CreateProposal
<1>3. ASSUME NEW id \in ProposalId, NEW ttl \in GrantTTL, Approve(id, ttl)
      PROVE  \/ grants' \subseteq grants
             \/ /\ DecideError(id) = "none"
                /\ proposals' = [proposals EXCEPT ![id].status = "approved"]
                /\ grants' = grants \cup NewGrants(id, ttl)
  BY <1>3 DEF Approve, FailDecision
<1>4. ASSUME NEW id \in ProposalId, Reject(id) PROVE grants' \subseteq grants
  BY <1>4 DEF Reject, FailDecision
<1>5. ASSUME PurgeExpired \/ StartCleanup \/ Stop \/ Tick \/ UNCHANGED vars
      PROVE  grants' \subseteq grants
  BY <1>5 DEF PurgeExpired, StartCleanup, Stop, Tick, vars
<1> QED
  BY <1>1, <1>2, <1>3, <1>4, <1>5 DEF Next

\* The grants an approval adds are backed by the proposal it approves, because
\* it refuses a proposal whose window has closed.
LEMMA NewGrantsBacked ==
  ASSUME TypeOK, NEW id \in ProposalId, NEW ttl \in GrantTTL,
         DecideError(id) = "none",
         proposals' = [proposals EXCEPT ![id].status = "approved"],
         NEW g \in NewGrants(id, ttl)
  PROVE  Backed(g)'
<1>1. /\ Found(id)
      /\ proposals[id] \in Proposal
      /\ proposals[id].status = "pending"
      /\ ~Expired(proposals[id])
  BY DEF DecideError, TypeOK, Found
<1>2. now < proposals[id].expiresAt
  BY <1>1 DEF Expired, TypeOK, Proposal
<1>3. /\ g.proposal = id
      /\ g.token = proposals[id].token
      /\ g.item \in proposals[id].items
      /\ g.createdAt = now
      /\ g.expiresAt = now + ttl
  BY DEF NewGrants
<1>4. /\ id \in DOMAIN proposals'
      /\ proposals'[id].status = "approved"
      /\ proposals'[id].token = proposals[id].token
      /\ proposals'[id].items = proposals[id].items
      /\ proposals'[id].expiresAt = proposals[id].expiresAt
  BY <1>1 DEF Found, Proposal
<1> QED
  BY <1>2, <1>3, <1>4 DEF Backed, Found

\* A backed grant stays backed: its proposal is decided, hence kept.
LEMMA BackingKept ==
  ASSUME TypeOK, DecisionsKept, NEW g \in grants, Backed(g)
  PROVE  Backed(g)'
<1>1. /\ g.proposal \in DOMAIN proposals'
      /\ proposals'[g.proposal] = proposals[g.proposal]
  BY DEF Backed, DecisionsKept, Found, Pending
<1> QED
  BY <1>1 DEF Backed, Found

\* GrantsAreBacked is inductive with TypeOK.
LEMMA BackedStep == TypeOK /\ GrantsAreBacked /\ [Next]_vars => GrantsAreBacked'
<1> SUFFICES ASSUME TypeOK, GrantsAreBacked, [Next]_vars, NEW g \in grants'
             PROVE  Backed(g)'
  BY DEF GrantsAreBacked
<1>1. CASE g \in grants
  BY <1>1, DecisionsStep, BackingKept DEF GrantsAreBacked
<1>2. CASE g \notin grants
  <2>1. PICK id \in ProposalId, ttl \in GrantTTL :
          /\ DecideError(id) = "none"
          /\ proposals' = [proposals EXCEPT ![id].status = "approved"]
          /\ grants' = grants \cup NewGrants(id, ttl)
    BY <1>2, GrantsStep
  <2> QED
    BY <1>2, <2>1, NewGrantsBacked
<1> QED
  BY <1>1, <1>2

\* In every reachable state each grant on file is an item of a proposal that
\* was approved inside its window, for that proposal's token.
THEOREM Backing == Spec => []GrantsAreBacked
<1>1. Init => GrantsAreBacked
  BY DEF Init, GrantsAreBacked
<1> QED
  BY <1>1, BackedStep, TypeCorrect, PTL DEF Spec

\* An approval adds grants for a proposal that had none.
LEMMA OnceStep ==
  TypeOK /\ GrantsAreBacked /\ GrantedOnce /\ [Next]_vars => GrantedOnce'
<1> SUFFICES ASSUME TypeOK, GrantsAreBacked, GrantedOnce, [Next]_vars
             PROVE  GrantedOnce'
  OBVIOUS
<1>1. CASE grants' \subseteq grants
  BY <1>1 DEF GrantedOnce
<1>2. ASSUME NEW id \in ProposalId, NEW ttl \in GrantTTL,
             DecideError(id) = "none",
             grants' = grants \cup NewGrants(id, ttl)
      PROVE  GrantedOnce'
  <2>1. \A g \in grants : g.proposal # id
    BY <1>2 DEF GrantsAreBacked, Backed, DecideError
  <2>2. \A g \in NewGrants(id, ttl) : g.proposal = id
    BY DEF NewGrants
  <2>3. \A g, h \in NewGrants(id, ttl) :
          /\ g.item = h.item => g = h
          /\ g.expiresAt = h.expiresAt
    BY DEF NewGrants
  <2> QED
    BY <1>2, <2>1, <2>2, <2>3 DEF GrantedOnce
<1> QED
  BY <1>1, <1>2, GrantsStep

\* However many approvals race, a proposal grants each of its items once.
THEOREM SpentOnce == Spec => []GrantedOnce
<1>1. Init => GrantedOnce
  BY DEF Init, GrantedOnce
<1> QED
  BY <1>1, OnceStep, TypeCorrect, Backing, PTL DEF Spec

\* New grants appear in the approval of their own proposal, the whole bundle.
LEMMA ApprovalStep == TypeOK /\ [Next]_vars => GrantsOnlyByApproval
<1> SUFFICES ASSUME TypeOK, [Next]_vars, NEW g \in grants' \ grants
             PROVE  /\ Pending(g.proposal)
                    /\ proposals'[g.proposal].status = "approved"
                    /\ \A i \in proposals[g.proposal].items :
                         \E h \in grants' : h.proposal = g.proposal /\ h.item = i
  BY DEF GrantsOnlyByApproval
<1>1. PICK id \in ProposalId, ttl \in GrantTTL :
        /\ DecideError(id) = "none"
        /\ proposals' = [proposals EXCEPT ![id].status = "approved"]
        /\ grants' = grants \cup NewGrants(id, ttl)
  BY GrantsStep
<1>2. g.proposal = id
  BY <1>1 DEF NewGrants
<1>3. Pending(id)
  BY <1>1 DEF DecideError, Pending
<1>4. proposals'[id].status = "approved"
  BY <1>1, <1>3 DEF TypeOK, Proposal, Pending, Found
<1>5. \A i \in proposals[id].items :
        \E h \in grants' : h.proposal = id /\ h.item = i
  <2> SUFFICES ASSUME NEW i \in proposals[id].items
               PROVE  \E h \in grants' : h.proposal = id /\ h.item = i
    OBVIOUS
  <2> DEFINE h == [token |-> proposals[id].token, proposal |-> id, item |-> i,
                   createdAt |-> now, expiresAt |-> now + ttl]
  <2>1. h \in grants'
    BY <1>1 DEF NewGrants
  <2>2. h.proposal = id /\ h.item = i
    OBVIOUS
  <2> QED
    BY <2>1, <2>2
<1> QED
  BY <1>2, <1>3, <1>4, <1>5

\* A grant that was revoked, destroyed with its subject or swept never returns:
\* only a fresh approval gives authority.
THEOREM NoReturn == Spec => RevokedForGood
<1>1. TypeOK /\ [Next]_vars => [GrantsOnlyByApproval]_vars
  BY ApprovalStep
<1> QED
  BY <1>1, TypeCorrect, PTL DEF Spec, RevokedForGood
=============================================================================
