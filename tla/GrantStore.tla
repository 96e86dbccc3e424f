----------------------------- MODULE GrantStore -----------------------------
(***************************************************************************)
(* The durable state of the authorization server: authserver/store.  A     *)
(* bbolt file holds three buckets - subject tokens, proposals and grants - *)
(* and every method of Store is one bbolt transaction over them, so every  *)
(* method is one action here.  bbolt runs write transactions one at a time *)
(* and makes each of them durable as a whole, which is why no action below *)
(* can be seen half done and why stopping the process changes no bucket.   *)
(*                                                                         *)
(* What is abstracted: a signed grant request is a member of Item, a       *)
(* proposal's bundle is the set of its items, a token is a member of       *)
(* Token, and the wall clock is the number now.  A transaction reads the   *)
(* clock once (the code reads it again for each grant it touches, inside   *)
(* the same transaction).  A grant is identified by the proposal and the   *)
(* item it comes from instead of by a fresh uuid.                          *)
(***************************************************************************)
EXTENDS Naturals, FiniteSets

CONSTANTS
  Token,        \* the random tokens CreateSubject may draw
  ProposalId,   \* the uuids CreateProposal may draw
  Approver,     \* approver emails, lower case
  Item,         \* resource-server-signed grant requests
  RequestTTL,   \* how long a proposal may stay pending
  GrantTTL,     \* the grant lifetimes an approver may choose
  MaxTime       \* bound of the model: the clock stops here

ASSUME RequestTTLAssumption == RequestTTL \in Nat \ {0}
ASSUME GrantTTLAssumption == GrantTTL \subseteq Nat \ {0}
ASSUME MaxTimeAssumption == MaxTime \in Nat

VARIABLES
  subjects,   \* bucket "subjects": the tokens that exist
  minted,     \* every token ever drawn: a random token is never drawn twice
  proposals,  \* bucket "proposals": id -> record
  grants,     \* bucket "grants"
  janitor,    \* is the cleanup goroutine of StartCleanup running?
  now         \* the wall clock

buckets == <<subjects, proposals, grants>>
vars == <<subjects, minted, proposals, grants, janitor, now>>

-----------------------------------------------------------------------------
(* The records of the buckets.                                             *)

Status == {"pending", "approved", "rejected", "expired"}

Bundle == (SUBSET Item) \ {{}}

Proposal == [token: Token, approver: Approver, items: Bundle,
             status: Status, createdAt: Nat, expiresAt: Nat]

Grant == [token: Token, proposal: ProposalId, item: Item,
          createdAt: Nat, expiresAt: Nat]

\* One invariant of type for the whole store.
TypeOK ==
  /\ subjects \subseteq minted
  /\ minted \subseteq Token
  /\ DOMAIN proposals \subseteq ProposalId
  /\ proposals \in [DOMAIN proposals -> Proposal]
  /\ grants \subseteq Grant
  /\ janitor \in {"stopped", "running"}
  /\ now \in Nat

-----------------------------------------------------------------------------
(* Reading the buckets.                                                    *)

\* A bucket after Put: the key is added or its value replaced.
Put(bucket, key, value) ==
  [k \in DOMAIN bucket \cup {key} |-> IF k = key THEN value ELSE bucket[k]]

SubjectExists(t) == t \in subjects

GetProposal(id) == proposals[id]
Found(id) == id \in DOMAIN proposals

Pending(id) == Found(id) /\ proposals[id].status = "pending"

\* Seeded fault: at the instant of its expiry a proposal can still be decided.
ExpiredAfter(p) == p.status = "pending" /\ now > p.expiresAt

\* Seeded fault: the deadline is compared without asking for the status.
PastDeadline(p) == now >= p.expiresAt

\* Still pending, but the approval window has elapsed: at the very instant
\* of expiresAt the proposal already counts as expired.
Expired(p) == p.status = "pending" /\ now >= p.expiresAt

\* The status shown to people: a lapsed proposal reads as expired before any
\* transaction has stored that.
ShownStatus(p) == IF Expired(p) THEN "expired" ELSE p.status

\* A grant authorizes strictly before its expiry.
Live(g) == now < g.expiresAt

GrantsOf(t) == {g \in grants : g.token = t}
ActiveGrants(t) == {g \in GrantsOf(t) : Live(g)}
AllGrants == {g \in grants : Live(g)}
AllProposals == proposals

\* Seeded fault: an approved proposal can be decided again.
DecideErrorOnce(id) ==
  IF ~Found(id) THEN "not_found"
  ELSE IF proposals[id].status \in {"rejected", "expired"} THEN "already_decided"
  ELSE IF Expired(proposals[id]) THEN "expired"
  ELSE "none"

\* What Approve and Reject find when their transaction opens the proposal.
DecideError(id) ==
  IF ~Found(id) THEN "not_found"
  ELSE IF proposals[id].status # "pending" THEN "already_decided"
  ELSE IF Expired(proposals[id]) THEN "expired"
  ELSE "none"

-----------------------------------------------------------------------------
(* The transactions.                                                       *)

Init ==
  /\ subjects = {}
  /\ minted = {}
  /\ proposals = [id \in {} |-> {}]
  /\ grants = {}
  /\ janitor = "stopped"
  /\ now = 0

CreateSubject(t) ==
  /\ t \notin minted
  /\ minted' = minted \cup {t}
  /\ subjects' = subjects \cup {t}
  /\ UNCHANGED <<proposals, grants, janitor, now>>

\* Seeded fault: the status of a new proposal is left at its zero value.
CreateUndecided(id, t, who, items, at) ==
  /\ ~Found(id)
  /\ proposals' = Put(proposals, id,
                      [token |-> t, approver |-> who, items |-> items,
                       status |-> "", createdAt |-> at,
                       expiresAt |-> at + RequestTTL])
  /\ UNCHANGED <<subjects, minted, grants, janitor, now>>

\* The clock is read (at) before the transaction waits for its turn.  The
\* method does not look at the subjects bucket: its caller has.
CreateProposal(id, t, who, items, at) ==
  /\ ~Found(id)
  /\ proposals' = Put(proposals, id,
                      [token |-> t, approver |-> who, items |-> items,
                       status |-> "pending", createdAt |-> at,
                       expiresAt |-> at + RequestTTL])
  /\ UNCHANGED <<subjects, minted, grants, janitor, now>>

\* Both decisions fail alike: an unknown or decided proposal rolls the
\* transaction back, a lapsed one is stored as expired.
FailDecision(id) ==
  \/ /\ DecideError(id) \in {"not_found", "already_decided"}
     /\ UNCHANGED <<proposals, grants>>
  \/ /\ DecideError(id) = "expired"
     /\ proposals' = [proposals EXCEPT ![id].status = "expired"]
     /\ UNCHANGED grants

\* One grant for each item of the bundle, all with the same lifetime.
NewGrants(id, ttl) ==
  {[token |-> proposals[id].token, proposal |-> id, item |-> i,
    createdAt |-> now, expiresAt |-> now + ttl] : i \in proposals[id].items}

Approve(id, ttl) ==
  /\ \/ FailDecision(id)
     \/ /\ DecideError(id) = "none"
        /\ proposals' = [proposals EXCEPT ![id].status = "approved"]
        /\ grants' = grants \cup NewGrants(id, ttl)
  /\ UNCHANGED <<subjects, minted, janitor, now>>

Reject(id) ==
  /\ \/ FailDecision(id)
     \/ /\ DecideError(id) = "none"
        /\ proposals' = [proposals EXCEPT ![id].status = "rejected"]
        /\ UNCHANGED grants
  /\ UNCHANGED <<subjects, minted, janitor, now>>

\* Reading a subject also deletes the grants of its that have expired; what
\* it returns is ActiveGrants(t).
SubjectForToken(t) ==
  /\ grants' = grants \ {g \in GrantsOf(t) : ~Live(g)}
  /\ UNCHANGED <<subjects, minted, proposals, janitor, now>>

\* The token and its grants go; its proposals stay.
DestroySubject(t) ==
  /\ subjects' = subjects \ {t}
  /\ grants' = grants \ GrantsOf(t)
  /\ UNCHANGED <<minted, proposals, janitor, now>>

RevokeGrantsForToken(t) ==
  /\ grants' = grants \ GrantsOf(t)
  /\ UNCHANGED <<subjects, minted, proposals, janitor, now>>

\* Seeded faults: a sweep that takes grants which still have a moment to live,
\* one that forgets the proposals, and one that forgets the grants.
PurgeEarly ==
  /\ janitor = "running"
  /\ grants' = {g \in grants : now + 1 < g.expiresAt}
  /\ proposals' = [id \in DOMAIN proposals |->
                     [proposals[id] EXCEPT !.status = ShownStatus(proposals[id])]]
  /\ UNCHANGED <<subjects, minted, janitor, now>>

PurgeGrantsOnly ==
  /\ janitor = "running"
  /\ grants' = {g \in grants : Live(g)}
  /\ UNCHANGED <<subjects, minted, proposals, janitor, now>>

PurgeProposalsOnly ==
  /\ janitor = "running"
  /\ proposals' = [id \in DOMAIN proposals |->
                     [proposals[id] EXCEPT !.status = ShownStatus(proposals[id])]]
  /\ UNCHANGED <<subjects, minted, grants, janitor, now>>

\* One tick of the cleanup goroutine.
PurgeExpired ==
  /\ janitor = "running"
  /\ grants' = {g \in grants : Live(g)}
  /\ proposals' = [id \in DOMAIN proposals |->
                     [proposals[id] EXCEPT !.status = ShownStatus(proposals[id])]]
  /\ UNCHANGED <<subjects, minted, janitor, now>>

StartCleanup ==
  /\ janitor = "stopped"
  /\ janitor' = "running"
  /\ UNCHANGED <<subjects, minted, proposals, grants, now>>

\* The process exits, by Close or by a crash: only the goroutine is lost, and
\* Open finds the buckets as the last transaction left them.
Stop ==
  /\ janitor = "running"
  /\ janitor' = "stopped"
  /\ UNCHANGED <<subjects, minted, proposals, grants, now>>

Tick ==
  /\ now < MaxTime
  /\ now' = now + 1
  /\ UNCHANGED <<subjects, minted, proposals, grants, janitor>>

-----------------------------------------------------------------------------

Next ==
  \/ \E t \in Token :
       \/ CreateSubject(t)
       \/ SubjectForToken(t)
       \/ DestroySubject(t)
       \/ RevokeGrantsForToken(t)
  \/ \E id \in ProposalId, t \in minted, who \in Approver, items \in Bundle,
        at \in 0..now : CreateProposal(id, t, who, items, at)
  \/ \E id \in ProposalId, ttl \in GrantTTL : Approve(id, ttl)
  \/ \E id \in ProposalId : Reject(id)
  \/ PurgeExpired
  \/ StartCleanup
  \/ Stop
  \/ Tick

Spec == Init /\ [][Next]_vars

\* The ticker of a running janitor keeps firing, and real time keeps passing.
Fairness == WF_vars(PurgeExpired) /\ WF_vars(Tick)

FairSpec == Spec /\ Fairness

-----------------------------------------------------------------------------
(* What must hold of the buckets.                                          *)

\* Every stored grant is an item of an approved proposal for the same token,
\* attached inside that proposal's approval window.  Approve, DestroySubject
\* and the sweeps each touch only one of the two buckets or one half of them,
\* and a decision racing the deadline is where the two could part.
Backed(g) ==
  /\ Found(g.proposal)
  /\ proposals[g.proposal].status = "approved"
  /\ proposals[g.proposal].token = g.token
  /\ g.item \in proposals[g.proposal].items
  /\ g.createdAt < proposals[g.proposal].expiresAt
  /\ \E ttl \in GrantTTL : g.expiresAt = g.createdAt + ttl

GrantsAreBacked == \A g \in grants : Backed(g)

\* A proposal is spent by its approval: however many approvals race, an item
\* of it is granted once, and the whole bundle for one lifetime.
GrantedOnce ==
  \A g, h \in grants :
    g.proposal = h.proposal =>
      /\ g.item = h.item => g = h
      /\ g.expiresAt = h.expiresAt

\* A stored proposal is never dropped or rewritten, and once it left pending
\* no decision, sweep or restart gives it another status (ErrAlreadyDecided).
DecisionsKept ==
  \A id \in DOMAIN proposals :
    /\ id \in DOMAIN proposals'
    /\ \E s \in Status : proposals'[id] = [proposals[id] EXCEPT !.status = s]
    /\ ~Pending(id) => proposals'[id] = proposals[id]

DecisionsAreFinal == [][DecisionsKept]_vars

\* What a revocation, a destruction or a sweep removed stays removed: grants
\* only appear in the step that takes their own proposal from pending to
\* approved, and then all of the bundle appears.
GrantsOnlyByApproval ==
  \A g \in grants' \ grants :
    /\ Pending(g.proposal)
    /\ proposals'[g.proposal].status = "approved"
    /\ \A i \in proposals[g.proposal].items :
         \E h \in grants' : h.proposal = g.proposal /\ h.item = i

RevokedForGood == [][GrantsOnlyByApproval]_vars

\* What the outside can see of the buckets: proposals through ShownStatus and
\* grants through Live.
Standings ==
  [id \in ProposalId |->
     IF Found(id) THEN ShownStatus(proposals[id]) ELSE "none"]

Requests ==
  [id \in ProposalId |->
     IF Found(id)
     THEN [token |-> proposals[id].token, items |-> proposals[id].items,
           deadline |-> proposals[id].expiresAt]
     ELSE [token |-> {}, items |-> {}, deadline |-> 0]]

InForce ==
  {[token |-> g.token, proposal |-> g.proposal, item |-> g.item,
    until |-> g.expiresAt] : g \in AllGrants}

Promise == INSTANCE GrantPromise
  WITH standing <- Standings, request <- Requests, authority <- InForce

\* Seen from outside, the lazily swept store is a server that ends proposals
\* and grants at the very instant: sweeping, or not having swept yet, shows in
\* no answer.
KeepsPromise == Promise!Spec

\* As long as the server stays up, the janitor stores the expiry of every
\* proposal whose window can close within the modelled time, even if nobody
\* ever opens it again.
NoProposalLingers ==
  <>[](janitor = "running") =>
    \A id \in ProposalId :
      (Pending(id) /\ proposals[id].expiresAt <= MaxTime) ~> ~Pending(id)

\* Likewise every grant is deleted from the file after its time.
NoGrantLingers ==
  <>[](janitor = "running") =>
    \A id \in ProposalId :
      (\E g \in grants : g.proposal = id /\ g.expiresAt <= MaxTime)
        ~> (\A g \in grants : g.proposal # id)
=============================================================================
