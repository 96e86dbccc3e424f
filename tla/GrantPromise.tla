---------------------------- MODULE GrantPromise ----------------------------
(***************************************************************************)
(* What the grant store promises, with nothing of how it keeps it: a       *)
(* server that watches the clock all the time, where a proposal expires    *)
(* and an authority ends at the very instant it should.  The real store    *)
(* (GrantStore) does it lazily - on reads, on decisions and on the ticks   *)
(* of a janitor - and implements this module: what it still keeps on disk  *)
(* past its time is never seen by anyone.                                  *)
(*                                                                         *)
(* An authority is the right of a token to what one item grants, by virtue *)
(* of one proposal, until an instant.                                      *)
(***************************************************************************)
EXTENDS Naturals

CONSTANTS Token, ProposalId, Item, RequestTTL, GrantTTL

VARIABLES
  standing,   \* id -> what anyone looking at the proposal is told
  request,    \* id -> what was asked: for which token, which items, until when
  authority,  \* the authorities in force at this instant
  now

vars == <<standing, request, authority, now>>

Standing == {"none", "pending", "approved", "rejected", "expired"}

\* The request of an id nobody has submitted yet.
Unasked == [token |-> {}, items |-> {}, deadline |-> 0]

Init ==
  /\ standing = [id \in ProposalId |-> "none"]
  /\ request = [id \in ProposalId |-> Unasked]
  /\ authority = {}
  /\ now = 0

\* A proposal is put before its approver; it may arrive too late to be decided.
Ask(id, t, items, deadline) ==
  /\ standing[id] = "none"
  /\ request' = [request EXCEPT ![id] =
                   [token |-> t, items |-> items, deadline |-> deadline]]
  /\ standing' = [standing EXCEPT ![id] =
                    IF deadline > now THEN "pending" ELSE "expired"]
  /\ UNCHANGED <<authority, now>>

\* The only source of authority, and every item of the proposal at once.
Permit(id, ttl) ==
  /\ standing[id] = "pending"
  /\ standing' = [standing EXCEPT ![id] = "approved"]
  /\ authority' = authority \cup
       {[token |-> request[id].token, proposal |-> id, item |-> i,
         until |-> now + ttl] : i \in request[id].items}
  /\ UNCHANGED <<request, now>>

Refuse(id) ==
  /\ standing[id] = "pending"
  /\ standing' = [standing EXCEPT ![id] = "rejected"]
  /\ UNCHANGED <<request, authority, now>>

\* A revocation takes everything the token holds.
Revoke(t) ==
  /\ authority' = {a \in authority : a.token # t}
  /\ UNCHANGED <<standing, request, now>>

\* With the clock go exactly the authorities and the requests whose time it is.
Elapse ==
  /\ now' = now + 1
  /\ authority' = {a \in authority : a.until > now'}
  /\ standing' = [id \in ProposalId |->
       IF standing[id] = "pending" /\ request[id].deadline <= now'
       THEN "expired" ELSE standing[id]]
  /\ UNCHANGED request

Next ==
  \/ \E id \in ProposalId, t \in Token, items \in SUBSET Item,
        at \in 0..now : Ask(id, t, items, at + RequestTTL)
  \/ \E id \in ProposalId, ttl \in GrantTTL : Permit(id, ttl)
  \/ \E id \in ProposalId : Refuse(id)
  \/ \E t \in Token : Revoke(t)
  \/ Elapse

Spec == Init /\ [][Next]_vars
=============================================================================
