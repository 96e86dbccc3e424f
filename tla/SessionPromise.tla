--------------------------- MODULE SessionPromise ---------------------------
(***************************************************************************)
(* What the login promises: a browser is signed in only by using up a      *)
(* proof that was obtained for it, and then stays signed in until it signs *)
(* out or in again, the lifetime of the session is over, or the server     *)
(* takes another secret.  No other restart and no failed login ends it.    *)
(***************************************************************************)
EXTENDS Integers

CONSTANTS
  Browser, Email,
  Slot,       \* places for proofs that are not used up yet
  SessionTTL

VARIABLES
  now,
  era,    \* number of the secret
  who,    \* browser -> its session, or nothing
  proofs  \* slot -> the proof in it, or nothing

vars == <<now, era, who, proofs>>

Init ==
  /\ now = 0 /\ era = 0
  /\ who = [b \in Browser |-> {}]
  /\ proofs = [s \in Slot |-> {}]

Alive(sessions, t) == {x \in sessions : t <= x.ends}

\* The session that a proof of an email is good for, or none if no session
\* can carry that email.
SessionsUntil(end) == {{}} \cup {{[email |-> e, ends |-> end]} : e \in Email}

Prove(s, b) ==
  /\ proofs[s] = {}
  /\ \E session \in SessionsUntil(now + SessionTTL) :
       proofs' = [proofs EXCEPT ![s] = {[browser |-> b, session |-> session]}]
  /\ UNCHANGED <<now, era, who>>

SignIn(s) ==
  /\ \E p \in proofs[s] : who' = [who EXCEPT ![p.browser] = Alive(p.session, now)]
  /\ proofs' = [proofs EXCEPT ![s] = {}]
  /\ UNCHANGED <<now, era>>

SignOut(b) == who' = [who EXCEPT ![b] = {}] /\ UNCHANGED <<now, era, proofs>>

\* Proofs may come to nothing.
Void(slots) ==
  /\ proofs' = [s \in Slot |-> IF s \in slots THEN {} ELSE proofs[s]]
  /\ UNCHANGED <<now, era, who>>

NewSecret ==
  /\ era' = era + 1
  /\ who' = [b \in Browser |-> {}]
  /\ proofs' = [s \in Slot |-> {}]
  /\ UNCHANGED now

TimePasses ==
  /\ now' = now + 1
  /\ who' = [b \in Browser |-> Alive(who[b], now + 1)]
  /\ UNCHANGED <<era, proofs>>

Next ==
  \/ \E slots \in SUBSET Slot : Void(slots)
  \/ NewSecret
  \/ TimePasses
  \/ \E b \in Browser : SignOut(b)
  \/ \E s \in Slot : SignIn(s)
  \/ \E s \in Slot, b \in Browser : Prove(s, b)

Spec == Init /\ [][Next]_vars
=============================================================================
