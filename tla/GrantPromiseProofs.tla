------------------------- MODULE GrantPromiseProofs -------------------------
(***************************************************************************)
(* The store keeps its promise: GrantStore implements GrantPromise under   *)
(* the mapping Standings, Requests, InForce, for all constants.  One lemma *)
(* says what each transaction looks like from outside.                     *)
(***************************************************************************)
EXTENDS GrantStoreProofs

\* What the outside can see, in one tuple.
View == <<Standings, Requests, InForce, now>>

\* Proposals nobody wrote look the same as long as the clock stands still.
LEMMA SameProposals ==
  ASSUME UNCHANGED <<proposals, now>>
  PROVE  UNCHANGED <<Standings, Requests>>
BY DEF Standings, Requests, Found, ShownStatus, Expired

\* Deleting grants that are no longer live changes nothing that is seen.
LEMMA SameLive ==
  ASSUME UNCHANGED now, grants' \subseteq grants,
         \A g \in grants : Live(g) => g \in grants'
  PROVE  UNCHANGED InForce
<1>1. AllGrants' = AllGrants
  BY DEF AllGrants, Live
<1> QED
  BY <1>1 DEF InForce

\* Storing that a lapsed proposal is expired changes nothing that is seen.
LEMMA SameStanding ==
  ASSUME TypeOK, UNCHANGED now, DOMAIN proposals' = DOMAIN proposals,
         \A q \in DOMAIN proposals :
           \/ proposals'[q] = proposals[q]
           \/ proposals'[q] =
                [proposals[q] EXCEPT !.status = ShownStatus(proposals[q])]
  PROVE  UNCHANGED <<Standings, Requests>>
<1>1. ASSUME NEW q \in DOMAIN proposals
      PROVE  /\ ShownStatus(proposals[q])' = ShownStatus(proposals[q])
             /\ proposals'[q].token = proposals[q].token
             /\ proposals'[q].items = proposals[q].items
             /\ proposals'[q].expiresAt = proposals[q].expiresAt
  BY <1>1 DEF TypeOK, Proposal, Status, ShownStatus, Expired
<1> QED
  BY <1>1 DEF Standings, Requests, Found

\* A decision that fails is invisible.
LEMMA FailIsInvisible ==
  ASSUME TypeOK, NEW id \in ProposalId, FailDecision(id), UNCHANGED now
  PROVE  UNCHANGED View
<1>1. UNCHANGED InForce
  BY SameLive DEF FailDecision
<1>2. CASE UNCHANGED proposals
  BY <1>1, <1>2, SameProposals DEF View
<1>3. CASE /\ DecideError(id) = "expired"
           /\ proposals' = [proposals EXCEPT ![id].status = "expired"]
  <2>1. Found(id) /\ Expired(proposals[id])
    BY <1>3 DEF DecideError
  <2>2. ShownStatus(proposals[id]) = "expired"
    BY <2>1 DEF ShownStatus
  <2>3. DOMAIN proposals' = DOMAIN proposals
    BY <1>3
  <2>4. \A q \in DOMAIN proposals :
          \/ proposals'[q] = proposals[q]
          \/ proposals'[q] =
               [proposals[q] EXCEPT !.status = ShownStatus(proposals[q])]
    BY <1>3, <2>2 DEF TypeOK
  <2> QED
    BY <1>1, <2>3, <2>4, SameStanding DEF View
<1> QED
  BY <1>2, <1>3 DEF FailDecision

\* Reading a subject and sweeping are invisible.
LEMMA SweepIsInvisible ==
  ASSUME TypeOK,
         PurgeExpired \/ \E t \in Token : SubjectForToken(t)
  PROVE  UNCHANGED View
<1>1. CASE \E t \in Token : SubjectForToken(t)
  BY <1>1, SameLive, SameProposals DEF SubjectForToken, View
<1>2. CASE PurgeExpired
  <2>1. UNCHANGED InForce
    BY <1>2, SameLive DEF PurgeExpired
  <2>2. UNCHANGED <<Standings, Requests>>
    BY <1>2, SameStanding DEF PurgeExpired
  <2> QED
    BY <1>2, <2>1, <2>2 DEF PurgeExpired, View
<1> QED
  BY <1>1, <1>2

\* Revoking, and destroying a subject, take everything the token holds.
LEMMA RevokeIsRevoke ==
  ASSUME TypeOK, NEW t \in Token, DestroySubject(t) \/ RevokeGrantsForToken(t)
  PROVE  Promise!Revoke(t)
<1>1. /\ grants' = grants \ GrantsOf(t)
      /\ UNCHANGED <<proposals, now>>
  BY DEF DestroySubject, RevokeGrantsForToken
<1>2. AllGrants' = {g \in AllGrants : g.token # t}
  BY <1>1 DEF AllGrants, GrantsOf, Live
<1>3. InForce' = {a \in InForce : a.token # t}
  BY <1>2 DEF InForce
<1> QED
  BY <1>1, <1>3, SameProposals DEF Promise!Revoke

\* Recording a proposal puts it before its approver, possibly too late.
LEMMA CreateIsAsk ==
  ASSUME TypeOK, NEW id \in ProposalId, NEW t \in minted, NEW who \in Approver,
         NEW items \in Bundle, NEW at \in 0..now,
         CreateProposal(id, t, who, items, at)
  PROVE  Promise!Ask(id, t, items, at + RequestTTL)
<1> DEFINE p == [token |-> t, approver |-> who, items |-> items,
                 status |-> "pending", createdAt |-> at,
                 expiresAt |-> at + RequestTTL]
<1>1. /\ ~Found(id)
      /\ DOMAIN proposals' = DOMAIN proposals \cup {id}
      /\ proposals'[id] = p
      /\ \A q \in DOMAIN proposals : proposals'[q] = proposals[q]
      /\ UNCHANGED <<grants, now>>
  BY DEF CreateProposal, Put, Found
<1>2. Standings[id] = "none"
  BY <1>1 DEF Standings
<1>3. ShownStatus(p) = IF at + RequestTTL > now THEN "pending" ELSE "expired"
  BY RequestTTLAssumption DEF TypeOK, ShownStatus, Expired
<1>4. ShownStatus(p)' = ShownStatus(p)
  BY <1>1 DEF ShownStatus, Expired
<1>5. Standings' = [Standings EXCEPT ![id] =
                      IF at + RequestTTL > now THEN "pending" ELSE "expired"]
  <2>1. Standings'[id] = ShownStatus(p)
    BY <1>1, <1>4 DEF Standings, Found, ShownStatus, Expired
  <2>2. \A q \in ProposalId \ {id} : Standings'[q] = Standings[q]
    BY <1>1 DEF Standings, Found, ShownStatus, Expired
  <2> QED
    BY <1>3, <2>1, <2>2 DEF Standings
<1>6. Requests' = [Requests EXCEPT ![id] =
                     [token |-> t, items |-> items, deadline |-> at + RequestTTL]]
  <2>1. Requests'[id] =
          [token |-> t, items |-> items, deadline |-> at + RequestTTL]
    BY <1>1 DEF Requests, Found
  <2>2. \A q \in ProposalId \ {id} : Requests'[q] = Requests[q]
    BY <1>1 DEF Requests, Found
  <2> QED
    BY <2>1, <2>2 DEF Requests
<1>7. UNCHANGED InForce
  BY <1>1, SameLive
<1> QED
  BY <1>1, <1>2, <1>5, <1>6, <1>7 DEF Promise!Ask

\* Writing a decision in time moves what is seen of that proposal only.
LEMMA DecisionIsSeen ==
  ASSUME TypeOK, NEW id \in ProposalId, NEW s \in {"approved", "rejected"},
         DecideError(id) = "none",
         proposals' = [proposals EXCEPT ![id].status = s], UNCHANGED now
  PROVE  /\ Standings[id] = "pending"
         /\ Standings' = [Standings EXCEPT ![id] = s]
         /\ UNCHANGED Requests
<1>1. /\ Found(id) /\ id \in DOMAIN proposals
      /\ proposals[id].status = "pending"
      /\ ~Expired(proposals[id])
  BY DEF DecideError, Found
<1>2. Standings[id] = "pending"
  BY <1>1 DEF Standings, ShownStatus
<1>3. /\ DOMAIN proposals' = DOMAIN proposals
      /\ \A q \in DOMAIN proposals \ {id} : proposals'[q] = proposals[q]
      /\ proposals'[id] = [proposals[id] EXCEPT !.status = s]
  BY <1>1 DEF TypeOK
<1>4. /\ proposals'[id].status = s
      /\ proposals'[id].token = proposals[id].token
      /\ proposals'[id].items = proposals[id].items
      /\ proposals'[id].expiresAt = proposals[id].expiresAt
  BY <1>1, <1>3 DEF TypeOK, Proposal
<1>5. Standings' = [Standings EXCEPT ![id] = s]
  <2>1. Standings'[id] = s
    BY <1>1, <1>3, <1>4 DEF Standings, Found, ShownStatus, Expired
  <2>2. \A q \in ProposalId \ {id} : Standings'[q] = Standings[q]
    BY <1>3 DEF Standings, Found, ShownStatus, Expired
  <2> QED
    BY <2>1, <2>2 DEF Standings
<1>6. \A q \in ProposalId : Requests'[q] = Requests[q]
  BY <1>3, <1>4 DEF Requests, Found
<1>7. UNCHANGED Requests
  BY <1>6 DEF Requests
<1> QED
  BY <1>2, <1>5, <1>7

\* An approval in time permits: all of the bundle is in force from now on,
\* because an approver cannot choose a lifetime of zero.
LEMMA ApproveIsPermit ==
  ASSUME TypeOK, NEW id \in ProposalId, NEW ttl \in GrantTTL,
         DecideError(id) = "none",
         proposals' = [proposals EXCEPT ![id].status = "approved"],
         grants' = grants \cup NewGrants(id, ttl), UNCHANGED now
  PROVE  Promise!Permit(id, ttl)
<1>1. /\ Standings[id] = "pending"
      /\ Standings' = [Standings EXCEPT ![id] = "approved"]
      /\ UNCHANGED Requests
  BY DecisionIsSeen
<1>2. Found(id)
  BY DEF DecideError
<1>3. /\ Requests[id].token = proposals[id].token
      /\ Requests[id].items = proposals[id].items
  BY <1>2 DEF Requests
<1>4. \A g \in NewGrants(id, ttl) : Live(g)
  <2>1. now < now + ttl
    BY GrantTTLAssumption DEF TypeOK
  <2> QED
    BY <2>1 DEF NewGrants, Live
<1>5. AllGrants' = AllGrants \cup NewGrants(id, ttl)
  BY <1>4 DEF AllGrants, Live
<1> DEFINE Seen(g) == [token |-> g.token, proposal |-> g.proposal,
                       item |-> g.item, until |-> g.expiresAt]
<1> DEFINE New(i) == [token |-> proposals[id].token, proposal |-> id, item |-> i,
                      createdAt |-> now, expiresAt |-> now + ttl]
           Permitted(i) == [token |-> proposals[id].token, proposal |-> id,
                            item |-> i, until |-> now + ttl]
<1>6. {Seen(g) : g \in NewGrants(id, ttl)} =
        {[token |-> Requests[id].token, proposal |-> id, item |-> i,
          until |-> now + ttl] : i \in Requests[id].items}
  <2>1. NewGrants(id, ttl) = {New(i) : i \in proposals[id].items}
    BY DEF NewGrants
  <2>2. \A i \in proposals[id].items : Seen(New(i)) = Permitted(i)
    OBVIOUS
  <2> HIDE DEF Seen, New, Permitted
  <2>3. {Seen(g) : g \in NewGrants(id, ttl)} =
          {Permitted(i) : i \in proposals[id].items}
    BY <2>1, <2>2
  <2> QED
    BY <1>3, <2>3 DEF Permitted
<1>7. InForce' = InForce \cup {Seen(g) : g \in NewGrants(id, ttl)}
  BY <1>5 DEF InForce
<1> QED
  BY <1>1, <1>6, <1>7 DEF Promise!Permit

\* A rejection in time refuses.
LEMMA RejectIsRefuse ==
  ASSUME TypeOK, NEW id \in ProposalId,
         DecideError(id) = "none",
         proposals' = [proposals EXCEPT ![id].status = "rejected"],
         UNCHANGED <<grants, now>>
  PROVE  Promise!Refuse(id)
<1>1. /\ Standings[id] = "pending"
      /\ Standings' = [Standings EXCEPT ![id] = "rejected"]
      /\ UNCHANGED Requests
  BY DecisionIsSeen
<1>2. UNCHANGED InForce
  BY SameLive
<1> QED
  BY <1>1, <1>2 DEF Promise!Refuse

\* With the clock exactly that ends whose time it is, although no bucket is
\* written.
LEMMA TickIsElapse ==
  ASSUME TypeOK, Tick
  PROVE  Promise!Elapse
<1>1. /\ now' = now + 1
      /\ UNCHANGED <<proposals, grants>>
  BY DEF Tick
<1>2. InForce' = {a \in InForce : a.until > now'}
  <2>1. \A g \in grants : Live(g)' <=> (Live(g) /\ g.expiresAt > now')
    BY <1>1 DEF TypeOK, Grant, Live
  <2>2. AllGrants' = {g \in AllGrants : g.expiresAt > now'}
    BY <1>1, <2>1 DEF AllGrants
  <2> QED
    BY <2>2 DEF InForce
<1>3. \A q \in ProposalId :
        Standings'[q] = IF Standings[q] = "pending" /\ Requests[q].deadline <= now'
                        THEN "expired" ELSE Standings[q]
  <2> SUFFICES ASSUME NEW q \in ProposalId
               PROVE  Standings'[q] =
                        IF Standings[q] = "pending" /\ Requests[q].deadline <= now'
                        THEN "expired" ELSE Standings[q]
    OBVIOUS
  <2>1. CASE ~Found(q)
    BY <1>1, <2>1 DEF Standings, Found
  <2>2. CASE Found(q)
    <3>1. proposals[q] \in Proposal
      BY <2>2 DEF TypeOK, Found
    <3>2. /\ Standings[q] = ShownStatus(proposals[q])
          /\ Standings'[q] = ShownStatus(proposals[q])'
          /\ Requests[q].deadline = proposals[q].expiresAt
      BY <1>1, <2>2 DEF Standings, Requests, Found
    <3> QED
      BY <1>1, <3>1, <3>2 DEF TypeOK, Proposal, ShownStatus, Expired
  <2> QED
    BY <2>1, <2>2
<1>4. Standings' = [q \in ProposalId |->
        IF Standings[q] = "pending" /\ Requests[q].deadline <= now'
        THEN "expired" ELSE Standings[q]]
  BY <1>3 DEF Standings
<1>5. UNCHANGED Requests
  BY <1>1 DEF Requests, Found
<1> QED
  BY <1>1, <1>2, <1>4, <1>5 DEF Promise!Elapse

\* What no bucket and no clock shows, nobody sees.
LEMMA IdleIsInvisible ==
  ASSUME UNCHANGED <<proposals, grants, now>>
  PROVE  UNCHANGED View
BY SameLive, SameProposals DEF View

\* Every transaction maps to a step of the promise or to a stutter.
LEMMA PromiseStep ==
  ASSUME TypeOK, [Next]_vars
  PROVE  [Promise!Next]_View
<1>1. CASE UNCHANGED vars
  BY <1>1, IdleIsInvisible DEF vars
<1>2. ASSUME NEW t \in Token,
             \/ CreateSubject(t) \/ SubjectForToken(t)
             \/ DestroySubject(t) \/ RevokeGrantsForToken(t)
      PROVE  [Promise!Next]_View
  <2>1. CASE CreateSubject(t)
    BY <2>1, IdleIsInvisible DEF CreateSubject
  <2>2. CASE SubjectForToken(t)
    BY <2>2, SweepIsInvisible
  <2>3. CASE DestroySubject(t) \/ RevokeGrantsForToken(t)
    BY <2>3, RevokeIsRevoke DEF Promise!Next
  <2> QED
    BY <1>2, <2>1, <2>2, <2>3
<1>3. ASSUME NEW id \in ProposalId, NEW t \in minted, NEW who \in Approver,
             NEW items \in Bundle, NEW at \in 0..now,
             CreateProposal(id, t, who, items, at)
      PROVE  [Promise!Next]_View
  <2>1. Promise!Ask(id, t, items, at + RequestTTL)
    BY <1>3, CreateIsAsk
  <2>2. t \in Token /\ items \in SUBSET Item
    BY DEF TypeOK, Bundle
  <2> QED
    BY <2>1, <2>2 DEF Promise!Next
<1>4. ASSUME NEW id \in ProposalId, NEW ttl \in GrantTTL, Approve(id, ttl)
      PROVE  [Promise!Next]_View
  <2>1. UNCHANGED now
    BY <1>4 DEF Approve
  <2>2. CASE FailDecision(id)
    BY <2>1, <2>2, FailIsInvisible
  <2>3. CASE /\ DecideError(id) = "none"
             /\ proposals' = [proposals EXCEPT ![id].status = "approved"]
             /\ grants' = grants \cup NewGrants(id, ttl)
    BY <2>1, <2>3, ApproveIsPermit DEF Promise!Next
  <2> QED
    BY <1>4, <2>2, <2>3 DEF Approve
<1>5. ASSUME NEW id \in ProposalId, Reject(id)
      PROVE  [Promise!Next]_View
  <2>1. UNCHANGED now
    BY <1>5 DEF Reject
  <2>2. CASE FailDecision(id)
    BY <2>1, <2>2, FailIsInvisible
  <2>3. CASE /\ DecideError(id) = "none"
             /\ proposals' = [proposals EXCEPT ![id].status = "rejected"]
             /\ UNCHANGED grants
    BY <2>1, <2>3, RejectIsRefuse DEF Promise!Next
  <2> QED
    BY <1>5, <2>2, <2>3 DEF Reject
<1>6. CASE PurgeExpired
  BY <1>6, SweepIsInvisible
<1>7. CASE StartCleanup \/ Stop
  BY <1>7, IdleIsInvisible DEF StartCleanup, Stop
<1>8. CASE Tick
  BY <1>8, TickIsElapse DEF Promise!Next
<1> QED
  BY <1>1, <1>2, <1>3, <1>4, <1>5, <1>6, <1>7, <1>8 DEF Next

\* The empty store shows an empty promise.
LEMMA PromiseInit ==
  ASSUME Init
  PROVE  Promise!Init
BY DEF Init, Promise!Init, Promise!Unasked, Standings, Requests, InForce,
       AllGrants, Found

\* Seen from outside, the lazily swept store is a server that ends proposals
\* and grants at the very instant: whatever has not been swept yet shows in
\* no answer of AllGrants, SubjectForToken, AllProposals or the consent page.
THEOREM KeepsItsPromise == Spec => KeepsPromise
<1>1. Init => Promise!Init
  BY PromiseInit
<1>2. TypeOK /\ [Next]_vars => [Promise!Next]_(Promise!vars)
  BY PromiseStep DEF View, Promise!vars
<1> QED
  BY <1>1, <1>2, TypeCorrect, PTL DEF Spec, KeepsPromise, Promise!Spec
=============================================================================
