------------------------ MODULE ResourceServerProofs ------------------------
(***************************************************************************)
(* What holds of ResourceServer for any number of goroutines, tokens,      *)
(* items and repositories, and whatever the authorization server permits.  *)
(***************************************************************************)
EXTENDS ResourceServer, TLAPS

-----------------------------------------------------------------------------
(* What is true of one goroutine, apart from its type.                     *)

\* The observer has noted the present instant.
Noted(h) ==
  pc[h] # "idle" => /\ Covered(req[h]) => since[h].covered
                    /\ ~Covered(req[h]) => since[h].uncovered
                    /\ Hidden(req[h]) => since[h].hidden

\* A goroutine without a request has nothing to answer for, and one at work
\* has calls left to make.
Clean(h) ==
  /\ pc[h] = "idle" => spent[h] = {} /\ effect[h] = {} /\ result[h] = "none"
  /\ pc[h] \notin {"idle", "done"} => req[h].calls > 0 /\ result[h] = "none"

\* An answer on its way tells what was the case when it was given.
Told(h) ==
  /\ pc[h] = "answered" => /\ verdict[h] = "allowed" => since[h].covered
                           /\ verdict[h] = "denied" => since[h].uncovered
  /\ pc[h] = "probed" => \/ verdict[h] = "public"
                         \/ verdict[h] = "private" /\ since[h].hidden
                         \/ verdict[h] = "error" /\ since[h].unprobed

\* Whoever is through to GitHub with the PAT, or was, is entitled to it.
Entitled(h) ==
  (pc[h] = "verified" \/ "pat" \in spent[h] \/ effect[h] \cap {"written", "private"} # {})
    => since[h].covered

Refused(h) == result[h] = "unauthorized" => since[h].uncovered

\* A clone asks for a grant only after a probe that did not succeed.
Blocked(h) ==
  (/\ req[h].kind = "git"
   /\ pc[h] \in {"asking", "answered"} \/ result[h] \in {"challenged", "unauthorized"})
    => req[h].needs \subseteq Writes \/ since[h].hidden \/ since[h].unprobed

Good(h) == Noted(h) /\ Clean(h) /\ Told(h) /\ Entitled(h) /\ Refused(h) /\ Blocked(h)

Inv == TypeOK /\ \A h \in Handler : Good(h)

\* What the observer adds in a step in which the request goes on.
LEMMA Observed ==
  ASSUME TypeOK, Observe, NEW h \in Handler
  PROVE  /\ pc'[h] = "idle" => since'[h] = Nothing
         /\ pc'[h] # "idle" =>
              /\ since[h].covered => since'[h].covered
              /\ since[h].uncovered => since'[h].uncovered
              /\ since[h].hidden => since'[h].hidden
              /\ since[h].unprobed => since'[h].unprobed
              /\ Covered(req[h])' => since'[h].covered
              /\ ~Covered(req[h])' => since'[h].uncovered
              /\ Hidden(req[h])' => since'[h].hidden
              /\ (pc'[h] = "probed" /\ verdict'[h] = "error") => since'[h].unprobed
BY DEF Observe

LEMMA SinceType == ASSUME TypeOK, Observe
                   PROVE  since' \in [Handler -> [covered: BOOLEAN, uncovered: BOOLEAN,
                                                  hidden: BOOLEAN, unprobed: BOOLEAN]]
BY DEF Observe, Nothing, TypeOK

\* A step that leaves this goroutine alone.
Still(h) == /\ pc'[h] = pc[h] /\ req'[h] = req[h] /\ verdict'[h] = verdict[h]
            /\ spent'[h] = spent[h] /\ effect'[h] = effect[h]
            /\ result'[h] = result[h]

LEMMA Bystander ==
  ASSUME TypeOK, Observe, NEW h \in Handler, Good(h), Still(h)
  PROVE  Good(h)'
<1>1. Noted(h)'
  BY Observed DEF Noted
<1>2. Clean(h)'
  BY DEF Good, Clean, Still
<1>3. CASE pc[h] = "idle"
  BY <1>1, <1>2, <1>3 DEF Good, Clean, Still, Told, Entitled, Refused, Blocked
<1>4. CASE pc[h] # "idle"
  BY <1>1, <1>2, <1>4, Observed DEF Good, Still, Told, Entitled, Refused, Blocked
<1> QED
  BY <1>3, <1>4

\* A goroutine at rest again.
LEMMA Rested ==
  ASSUME NEW h \in Handler, pc'[h] = "idle", req'[h] = NoRequest,
         spent'[h] = {}, effect'[h] = {}, result'[h] = "none"
  PROVE  Good(h)'
BY DEF Good, Noted, Clean, Told, Entitled, Refused, Blocked, NoRequest

-----------------------------------------------------------------------------
(* The goroutine that moves, action by action.                             *)

LEMMA ArriveGood ==
  ASSUME TypeOK, Observe, NEW h \in Handler, Good(h), Arrive(h)
  PROVE  Good(h)'
<1>1. PICK where, r :
        /\ where \in {"asking", "probing"}
        /\ Begin(h, where, r)
        /\ r.calls > 0
        /\ r.kind = "git" /\ where = "asking" => r.needs \subseteq Writes
  <2>1. CASE \E t \in Token \cup {NoToken}, needs \in SUBSET Item, calls \in 1..MaxCalls :
               HandleOperation(h, t, needs, calls)
    <3>1. PICK t \in Token \cup {NoToken}, needs \in SUBSET Item, calls \in 1..MaxCalls :
            HandleOperation(h, t, needs, calls)
      BY <2>1
    <3> DEFINE r == [kind |-> "operation", token |-> t, needs |-> needs, calls |-> calls]
    <3>2. Begin(h, "asking", r)
      BY <3>1 DEF HandleOperation
    <3>3. r.calls > 0 /\ r.kind # "git"
      BY MaxCallsAssumption
    <3> HIDE DEF r
    <3> QED
      BY <3>2, <3>3
  <2>2. CASE \E t \in Token \cup {NoToken}, i \in Item : RESTServeHTTP(h, t, i)
    <3>1. PICK t \in Token \cup {NoToken}, i \in Item : RESTServeHTTP(h, t, i)
      BY <2>2
    <3> DEFINE r == [kind |-> "rest", token |-> t, needs |-> {i}, calls |-> 1]
    <3>2. Begin(h, "asking", r)
      BY <3>1 DEF RESTServeHTTP
    <3>3. r.calls > 0 /\ r.kind # "git"
      OBVIOUS
    <3> HIDE DEF r
    <3> QED
      BY <3>2, <3>3
  <2>3. CASE \E t \in Token \cup {NoToken}, i \in Item : GitServeHTTP(h, t, i)
    <3>1. PICK t \in Token \cup {NoToken}, i \in Item : GitServeHTTP(h, t, i)
      BY <2>3
    <3> DEFINE r == [kind |-> "git", token |-> t, needs |-> {i}, calls |-> 1]
    <3>2. \/ i \in Writes /\ Begin(h, "asking", r)
          \/ Begin(h, "probing", r)
      BY <3>1 DEF GitServeHTTP
    <3>3. r.calls > 0 /\ (i \in Writes => r.needs \subseteq Writes)
      OBVIOUS
    <3> HIDE DEF r
    <3> QED
      BY <3>2, <3>3
  <2> QED
    BY <2>1, <2>2, <2>3 DEF Arrive
<1>2. /\ pc[h] = "idle" /\ pc'[h] = where /\ req'[h] = r
      /\ spent'[h] = {} /\ effect'[h] = {} /\ result'[h] = "none"
  BY <1>1 DEF Begin, At, workVars, TypeOK, Good, Clean
<1>3. Noted(h)'
  BY Observed DEF Noted
<1> QED
  BY <1>1, <1>2, <1>3 DEF Good, Clean, Told, Entitled, Refused, Blocked

LEMMA ProbeGood ==
  ASSUME TypeOK, Observe, NEW h \in Handler, Good(h), Probe(h)
  PROVE  Good(h)'
<1>1. /\ pc[h] = "probing" /\ pc'[h] = "probed" /\ req'[h] = req[h]
      /\ spent'[h] = spent[h] /\ effect'[h] = effect[h] /\ result'[h] = result[h]
  BY DEF Probe, At, TypeOK
<1>2. verdict'[h] \in {IF Hidden(req[h]) THEN "private" ELSE "public", "error"}
  BY DEF Probe, TypeOK
<1>3. Hidden(req[h]) => since[h].hidden
  BY <1>1 DEF Good, Noted
<1>4. Noted(h)'
  BY Observed DEF Noted
<1>5. Told(h)'
  BY <1>1, <1>2, <1>3, Observed DEF Told
<1> QED
  BY <1>1, <1>4, <1>5, Observed DEF Good, Clean, Entitled, Refused, Blocked

LEMMA CloneableGood ==
  ASSUME TypeOK, Observe, NEW h \in Handler, Good(h), PubliclyCloneable(h)
  PROVE  Good(h)'
<1>1. /\ pc[h] = "probed" /\ req'[h] = req[h] /\ verdict'[h] = verdict[h]
      /\ spent'[h] = spent[h] /\ effect'[h] = effect[h]
  BY DEF PubliclyCloneable
<1>2. \/ /\ verdict[h] = "public" /\ pc'[h] = "anonymous" /\ result'[h] = result[h]
      \/ /\ verdict[h] # "public" /\ pc'[h] = "asking" /\ result'[h] = result[h]
      \/ /\ verdict[h] # "public" /\ pc'[h] = "done" /\ result'[h] = "challenged"
  BY DEF PubliclyCloneable, NeedsToken, Finish, At, TypeOK
<1>3. verdict[h] # "public" => since[h].hidden \/ since[h].unprobed
  BY <1>1 DEF Good, Told
<1>4. Noted(h)'
  BY Observed DEF Noted
<1> QED
  BY <1>1, <1>2, <1>3, <1>4, Observed DEF Good, Clean, Told, Entitled, Refused, Blocked

LEMMA VerifyGood ==
  ASSUME TypeOK, Observe, NEW h \in Handler, Good(h), HandleVerify(h)
  PROVE  Good(h)'
<1>1. /\ pc[h] = "asking" /\ pc'[h] = "answered" /\ req'[h] = req[h]
      /\ spent'[h] = spent[h] /\ effect'[h] = effect[h] /\ result'[h] = result[h]
  BY DEF HandleVerify, At, TypeOK
<1>2. verdict'[h] \in {IF Covered(req[h]) THEN "allowed" ELSE "denied", "error"}
  BY DEF HandleVerify, TypeOK
<1>3. /\ Covered(req[h]) => since[h].covered
      /\ ~Covered(req[h]) => since[h].uncovered
  BY <1>1 DEF Good, Noted
<1>4. Noted(h)'
  BY Observed DEF Noted
<1>5. Told(h)'
  BY <1>1, <1>2, <1>3, Observed DEF Told
<1> QED
  BY <1>1, <1>4, <1>5, Observed DEF Good, Clean, Entitled, Refused, Blocked

LEMMA AuthorizeGood ==
  ASSUME TypeOK, Observe, NEW h \in Handler, Good(h), Authorize(h) \/ VerifyFails(h)
  PROVE  Good(h)'
<1>1. /\ pc[h] \in {"asking", "answered"} /\ req'[h] = req[h] /\ verdict'[h] = verdict[h]
      /\ spent'[h] = spent[h] /\ effect'[h] = effect[h]
  BY DEF Authorize, VerifyFails
<1>2. \/ /\ pc[h] = "answered" /\ verdict[h] = "allowed"
         /\ pc'[h] = "verified" /\ result'[h] = result[h]
      \/ /\ pc[h] = "answered" /\ verdict[h] = "denied"
         /\ pc'[h] = "done" /\ result'[h] = "unauthorized"
      \/ pc'[h] = "done" /\ result'[h] = "bad_gateway"
  BY DEF Authorize, VerifyFails, Finish, At, TypeOK
<1>3. Noted(h)'
  BY Observed DEF Noted
<1> QED
  BY <1>1, <1>2, <1>3, Observed DEF Good, Clean, Told, Entitled, Refused, Blocked

\* The heart of the matter: without the PAT GitHub shows only what is public.
LEMMA ExecuteGood ==
  ASSUME TypeOK, Observe, NEW h \in Handler, Good(h), Execute(h)
  PROVE  Good(h)'
<1>1. PICK i \in req[h].needs, answer \in {"ok", "refused", "lost"} :
        /\ spent' = [spent EXCEPT ![h] = @ \cup {Credential(h)}]
        /\ \/ /\ answer # "refused" /\ Admits(Credential(h), i)
              /\ effect' = [effect EXCEPT ![h] = @ \cup {Effect(i)}]
           \/ answer # "ok" /\ UNCHANGED effect
        /\ GoOn(h, answer)
  BY DEF Execute
<1>2. /\ pc[h] \in {"verified", "anonymous"} /\ result[h] = "none"
      /\ pc'[h] \in {pc[h], "done"}
      /\ result'[h] \in {"none", "completed", "failed"}
      /\ pc'[h] = pc[h] => req'[h].calls > 0 /\ result'[h] = "none"
      /\ req'[h].needs = req[h].needs /\ req'[h].kind = req[h].kind
  <2>1. pc[h] \in {"verified", "anonymous"} /\ result[h] = "none"
    BY DEF Execute, Good, Clean
  <2>2. req[h] \in Request /\ req[h].calls \in Nat
    BY MaxCallsAssumption DEF TypeOK, Request
  <2>3. CASE req[h].calls > 1 /\ req' = [req EXCEPT ![h].calls = @ - 1]
               /\ UNCHANGED <<pc, result>>
    BY <2>1, <2>2, <2>3 DEF TypeOK, Request
  <2>4. CASE UNCHANGED req /\ (Finish(h, "completed") \/ Finish(h, "failed"))
    BY <2>1, <2>4 DEF Finish, At, TypeOK
  <2> QED
    BY <1>1, <2>3, <2>4 DEF GoOn
<1>3. CASE since[h].covered
  <2>1. since'[h].covered
    BY <1>2, <1>3, Observed
  <2>2. Noted(h)'
    BY Observed DEF Noted
  <2> QED
    BY <1>2, <2>1, <2>2, Observed DEF Good, Clean, Told, Entitled, Refused, Blocked
<1>4. CASE ~since[h].covered
  <2>1. pc[h] = "anonymous" /\ "pat" \notin spent[h]
        /\ effect[h] \cap {"written", "private"} = {}
    BY <1>2, <1>4 DEF Good, Entitled
  <2>2. Credential(h) = "anonymous"
    BY <2>1 DEF Credential
  <2>3. "pat" \notin spent'[h]
    BY <1>1, <2>1, <2>2 DEF TypeOK
  <2>4. effect'[h] \cap {"written", "private"} = {}
    BY <1>1, <2>1, <2>2 DEF TypeOK, Admits, Effect
  <2>5. Noted(h)'
    BY Observed DEF Noted
  <2> QED
    BY <1>2, <2>1, <2>3, <2>4, <2>5, Observed
    DEF Good, Clean, Told, Entitled, Refused, Blocked
<1> QED
  BY <1>3, <1>4

LEMMA ReplyGood ==
  ASSUME TypeOK, NEW h \in Handler, Reply(h)
  PROVE  Good(h)'
BY Rested DEF Reply, At, TypeOK

-----------------------------------------------------------------------------
(* Every step.                                                             *)

\* A step of one goroutine leaves the others alone.
LEMMA OneActs ==
  ASSUME TypeOK, NEW h \in Handler, Arrive(h) \/ Proceed(h) \/ HandleVerify(h),
         NEW k \in Handler \ {h}
  PROVE  Still(k)
<1>1. CASE Arrive(h)
  BY <1>1 DEF Arrive, HandleOperation, RESTServeHTTP, GitServeHTTP, Begin, At,
     workVars, TypeOK, Still
<1>2. CASE Probe(h) \/ PubliclyCloneable(h)
  BY <1>2 DEF Probe, PubliclyCloneable, NeedsToken, Finish, At, TypeOK, Still
<1>3. CASE HandleVerify(h) \/ Authorize(h) \/ VerifyFails(h)
  BY <1>3 DEF HandleVerify, Authorize, VerifyFails, Finish, At, TypeOK, Still
<1>4. CASE Execute(h)
  BY <1>4 DEF Execute, GoOn, Finish, At, TypeOK, Still
<1>5. CASE Reply(h)
  BY <1>5 DEF Reply, At, TypeOK, Still
<1> QED
  BY <1>1, <1>2, <1>3, <1>4, <1>5 DEF Proceed

LEMMA GoodStep ==
  ASSUME TypeOK, \A h \in Handler : Good(h), [Next]_vars, NEW h \in Handler
  PROVE  Good(h)'
<1>1. CASE UNCHANGED vars
  BY <1>1 DEF vars, workVars, asVars, Good, Noted, Clean, Told, Entitled, Refused,
     Blocked, Covered, Rights, Hidden
<1>2. CASE Step /\ Observe
  <2>1. ASSUME NEW k \in Handler, Arrive(k) \/ Proceed(k) \/ HandleVerify(k)
        PROVE  Good(h)'
    <3>1. CASE k # h
      BY <1>2, <2>1, <3>1, OneActs, Bystander
    <3>2. CASE k = h
      BY <1>2, <2>1, <3>2, ArriveGood, ProbeGood, CloneableGood, VerifyGood,
         AuthorizeGood, ExecuteGood, ReplyGood DEF Proceed
    <3> QED
      BY <3>1, <3>2
  <2>2. CASE Restart
    BY <2>2, Rested DEF Restart
  <2>3. CASE ChangeVisibility \/ AuthorityMoves
    <3>1. Still(h)
      BY <2>3 DEF ChangeVisibility, AuthorityMoves, workVars, Still
    <3> QED
      BY <1>2, <3>1, Bystander
  <2> QED
    BY <1>2, <2>1, <2>2, <2>3 DEF Step
<1> QED
  BY <1>1, <1>2 DEF Next

\* The types of what the moving goroutine writes.
LEMMA ArriveTypes ==
  ASSUME TypeOK, NEW h \in Handler, Arrive(h)
  PROVE  /\ pc' \in [Handler -> Place] /\ req' \in [Handler -> Request]
         /\ UNCHANGED <<workVars, public, pat>>
         /\ \A k \in Handler : pc'[k] \in {"verified", "anonymous"} => req'[k].calls > 0
<1>1. PICK r \in Request, where \in {"asking", "probing"} :
        Begin(h, where, r) /\ Alone
  <2>1. CASE \E t \in Token \cup {NoToken}, needs \in SUBSET Item, calls \in 1..MaxCalls :
               HandleOperation(h, t, needs, calls)
    <3>1. PICK t \in Token \cup {NoToken}, needs \in SUBSET Item, calls \in 1..MaxCalls :
            HandleOperation(h, t, needs, calls)
      BY <2>1
    <3> DEFINE r == [kind |-> "operation", token |-> t, needs |-> needs, calls |-> calls]
    <3>2. Begin(h, "asking", r) /\ Alone
      BY <3>1 DEF HandleOperation
    <3>3. r \in Request
      BY MaxCallsAssumption DEF Request
    <3> HIDE DEF r
    <3> QED
      BY <3>2, <3>3
  <2>2. CASE \E t \in Token \cup {NoToken}, i \in Item : RESTServeHTTP(h, t, i)
    <3>1. PICK t \in Token \cup {NoToken}, i \in Item : RESTServeHTTP(h, t, i)
      BY <2>2
    <3> DEFINE r == [kind |-> "rest", token |-> t, needs |-> {i}, calls |-> 1]
    <3>2. Begin(h, "asking", r) /\ Alone
      BY <3>1 DEF RESTServeHTTP
    <3>3. r \in Request
      BY MaxCallsAssumption DEF Request
    <3> HIDE DEF r
    <3> QED
      BY <3>2, <3>3
  <2>3. CASE \E t \in Token \cup {NoToken}, i \in Item : GitServeHTTP(h, t, i)
    <3>1. PICK t \in Token \cup {NoToken}, i \in Item : GitServeHTTP(h, t, i)
      BY <2>3
    <3> DEFINE r == [kind |-> "git", token |-> t, needs |-> {i}, calls |-> 1]
    <3>2. (Begin(h, "asking", r) \/ Begin(h, "probing", r)) /\ Alone
      BY <3>1 DEF GitServeHTTP
    <3>3. r \in Request
      BY MaxCallsAssumption DEF Request
    <3> HIDE DEF r
    <3> QED
      BY <3>2, <3>3
  <2> QED
    BY <2>1, <2>2, <2>3 DEF Arrive
<1>2. pc' \in [Handler -> Place] /\ req' \in [Handler -> Request]
  BY <1>1 DEF Begin, At, TypeOK, Place
<1>3. \A k \in Handler : pc'[k] \in {"verified", "anonymous"} => req'[k].calls > 0
  BY <1>1 DEF Begin, At, TypeOK
<1> QED
  BY <1>1, <1>2, <1>3 DEF Begin, Alone

LEMMA ExecuteTypes ==
  ASSUME TypeOK, NEW h \in Handler, Good(h), Execute(h)
  PROVE  /\ pc' \in [Handler -> Place] /\ req' \in [Handler -> Request]
         /\ spent' \in [Handler -> SUBSET {"anonymous", "pat"}]
         /\ effect' \in [Handler -> SUBSET {"written", "public", "private"}]
         /\ result' \in [Handler -> Result]
         /\ \A k \in Handler : pc'[k] \in {"verified", "anonymous"} => req'[k].calls > 0
<1>1. PICK i \in req[h].needs, answer \in {"ok", "refused", "lost"} :
        /\ spent' = [spent EXCEPT ![h] = @ \cup {Credential(h)}]
        /\ \/ effect' = [effect EXCEPT ![h] = @ \cup {Effect(i)}]
           \/ UNCHANGED effect
        /\ GoOn(h, answer)
  BY DEF Execute
<1>2. Credential(h) \in {"anonymous", "pat"} /\ Effect(i) \in {"written", "public", "private"}
  BY DEF Credential, Effect
<1>3. /\ spent' \in [Handler -> SUBSET {"anonymous", "pat"}]
      /\ effect' \in [Handler -> SUBSET {"written", "public", "private"}]
  BY <1>1, <1>2 DEF TypeOK
<1>4. req[h] \in Request /\ req[h].calls \in 0..MaxCalls
  BY DEF TypeOK, Request
<1>5. CASE req[h].calls > 1 /\ req' = [req EXCEPT ![h].calls = @ - 1]
             /\ UNCHANGED <<pc, result>>
  <2>1. [req[h] EXCEPT !.calls = @ - 1] \in Request
    BY <1>4, <1>5, MaxCallsAssumption DEF Request
  <2>2. req' \in [Handler -> Request]
    BY <1>5, <2>1 DEF TypeOK
  <2>3. \A k \in Handler : pc'[k] \in {"verified", "anonymous"} => req'[k].calls > 0
    BY <1>4, <1>5, MaxCallsAssumption DEF TypeOK, Request
  <2> QED
    BY <1>3, <1>5, <2>2, <2>3 DEF TypeOK
<1>6. CASE UNCHANGED req /\ (Finish(h, "completed") \/ Finish(h, "failed"))
  BY <1>3, <1>6 DEF Finish, At, TypeOK, Place, Result
<1> QED
  BY <1>1, <1>5, <1>6 DEF GoOn

LEMMA AnswerTypes ==
  ASSUME TypeOK, NEW h \in Handler,
         \/ Probe(h) \/ PubliclyCloneable(h) \/ HandleVerify(h) \/ Authorize(h)
         \/ VerifyFails(h)
  PROVE  /\ pc' \in [Handler -> Place] /\ verdict' \in [Handler -> Verdict]
         /\ result' \in [Handler -> Result]
         /\ UNCHANGED <<req, spent, effect, public, pat>>
<1>1. CASE Probe(h) \/ HandleVerify(h)
  <2>1. PICK v \in Verdict : verdict' = [verdict EXCEPT ![h] = v]
    <3>1. CASE Probe(h)
      <4>1. PICK v \in {IF Hidden(req[h]) THEN "private" ELSE "public", "error"} :
              verdict' = [verdict EXCEPT ![h] = v]
        BY <3>1 DEF Probe
      <4>2. v \in Verdict
        BY DEF Verdict
      <4> QED
        BY <4>1, <4>2
    <3>2. CASE HandleVerify(h)
      <4>1. PICK v \in {IF Covered(req[h]) THEN "allowed" ELSE "denied", "error"} :
              verdict' = [verdict EXCEPT ![h] = v]
        BY <3>2 DEF HandleVerify
      <4>2. v \in Verdict
        BY DEF Verdict
      <4> QED
        BY <4>1, <4>2
    <3> QED
      BY <1>1, <3>1, <3>2
  <2>2. verdict' \in [Handler -> Verdict]
    BY <2>1 DEF TypeOK
  <2>3. /\ At(h, "probed") \/ At(h, "answered")
        /\ UNCHANGED <<req, spent, effect, result, public, pat>>
    BY <1>1 DEF Probe, HandleVerify, Alone
  <2> QED
    BY <2>2, <2>3 DEF At, TypeOK, Place
<1>2. CASE PubliclyCloneable(h) \/ Authorize(h) \/ VerifyFails(h)
  <2>1. UNCHANGED <<verdict, req, spent, effect, public, pat>>
    BY <1>2 DEF PubliclyCloneable, Authorize, VerifyFails, Alone
  <2>2. \/ \E where \in Place : At(h, where) /\ UNCHANGED result
        \/ \E res \in Result : Finish(h, res)
    BY <1>2 DEF PubliclyCloneable, Authorize, VerifyFails, NeedsToken, Place, Result
  <2>3. CASE \E where \in Place : At(h, where) /\ UNCHANGED result
    <3>1. PICK where \in Place : pc' = [pc EXCEPT ![h] = where]
      BY <2>3 DEF At
    <3> QED
      BY <2>1, <2>3, <3>1 DEF TypeOK
  <2>4. CASE \E res \in Result : Finish(h, res)
    <3>1. PICK res \in Result : result' = [result EXCEPT ![h] = res]
      BY <2>4 DEF Finish
    <3>2. pc' = [pc EXCEPT ![h] = "done"] /\ "done" \in Place
      BY <2>4 DEF Finish, At, Place
    <3> QED
      BY <2>1, <3>1, <3>2 DEF TypeOK
  <2> QED
    BY <2>2, <2>3, <2>4
<1> QED
  BY <1>1, <1>2

LEMMA TypeStep ==
  ASSUME TypeOK, \A h \in Handler : Good(h), [Next]_vars
  PROVE  TypeOK'
<1>1. CASE UNCHANGED vars
  BY <1>1 DEF vars, workVars, asVars, TypeOK, Request, Place, Result, Verdict
<1>2. CASE Step /\ Observe
  <2> USE SinceType, <1>2
  <2>1. ASSUME NEW h \in Handler, Arrive(h) PROVE TypeOK'
    BY <2>1, ArriveTypes DEF TypeOK, workVars, Request, Place, Result, Verdict
  <2>2. ASSUME NEW h \in Handler, Execute(h) PROVE TypeOK'
    <3>1. UNCHANGED <<verdict, public, pat>>
      BY <2>2 DEF Execute, Alone
    <3> QED
      BY <2>2, <3>1, ExecuteTypes DEF TypeOK, Request, Place, Result, Verdict
  <2>3. ASSUME NEW h \in Handler, Probe(h) \/ PubliclyCloneable(h) PROVE TypeOK'
    <3>1. pc[h] = "probed" => req[h].calls > 0
      BY DEF Good, Clean
    <3>2. /\ pc' \in [Handler -> Place] /\ verdict' \in [Handler -> Verdict]
          /\ result' \in [Handler -> Result]
          /\ UNCHANGED <<req, spent, effect, public, pat>>
      BY <2>3, AnswerTypes
    <3>3. \A k \in Handler : pc'[k] \in {"verified", "anonymous"} => req'[k].calls > 0
      BY <2>3, <3>1 DEF Probe, PubliclyCloneable, NeedsToken, Finish, At, TypeOK
    <3> QED
      BY <3>2, <3>3 DEF TypeOK, Request, Place, Result, Verdict
  <2>4. ASSUME NEW h \in Handler, HandleVerify(h) \/ Authorize(h) \/ VerifyFails(h)
        PROVE  TypeOK'
    <3>1. pc[h] = "answered" => req[h].calls > 0
      BY DEF Good, Clean
    <3>2. /\ pc' \in [Handler -> Place] /\ verdict' \in [Handler -> Verdict]
          /\ result' \in [Handler -> Result]
          /\ UNCHANGED <<req, spent, effect, public, pat>>
      BY <2>4, AnswerTypes
    <3>3. \A k \in Handler : pc'[k] \in {"verified", "anonymous"} => req'[k].calls > 0
      BY <2>4, <3>1 DEF HandleVerify, Authorize, VerifyFails, Finish, At, TypeOK
    <3> QED
      BY <3>2, <3>3 DEF TypeOK, Request, Place, Result, Verdict
  <2>5. ASSUME NEW h \in Handler, Reply(h) PROVE TypeOK'
    <3>1. NoRequest \in Request
      BY MaxCallsAssumption DEF NoRequest, Request
    <3> QED
      BY <2>5, <3>1 DEF Reply, At, Alone, TypeOK, Request, Place, Result, Verdict
  <2>6. CASE Restart
    <3>1. NoRequest \in Request
      BY MaxCallsAssumption DEF NoRequest, Request
    <3> QED
      BY <2>6, <3>1 DEF Restart, Alone, TypeOK, Request, Place, Result, Verdict
  <2>7. CASE ChangeVisibility \/ AuthorityMoves
    BY <2>7 DEF ChangeVisibility, AuthorityMoves, workVars, TypeOK, Request, Place,
       Result, Verdict
  <2> QED
    BY <2>1, <2>2, <2>3, <2>4, <2>5, <2>6, <2>7 DEF Step, Proceed
<1> QED
  BY <1>1, <1>2 DEF Next

LEMMA InvInit == Init => Inv
<1>1. NoRequest \in Request
  BY MaxCallsAssumption DEF NoRequest, Request
<1>2. Init => TypeOK
  BY <1>1 DEF Init, TypeOK, Nothing, Place, Verdict, Result
<1>3. Init => \A h \in Handler : Good(h)
  BY DEF Init, Good, Noted, Clean, Told, Entitled, Refused, Blocked, NoRequest
<1> QED
  BY <1>2, <1>3 DEF Inv

LEMMA InvHolds == Spec => []Inv
<1>1. Inv /\ [Next]_vars => Inv'
  BY TypeStep, GoodStep DEF Inv
<1> QED
  BY <1>1, InvInit, PTL DEF Spec

-----------------------------------------------------------------------------
(* What it comes to.                                                       *)

\* The goroutines of the resource server keep their types.
THEOREM ResourceTypeCorrect == Spec => []TypeOK
<1>1. Inv => TypeOK
  BY DEF Inv
<1> QED
  BY <1>1, InvHolds, PTL

\* The PAT leaves, something is written, or something private is shown, only
\* for a request that an authority in force covered at one of its instants.
THEOREM OnlyWithAuthority == Spec => []NothingWithoutAuthority
<1>1. Inv => NothingWithoutAuthority
  BY DEF Inv, Good, Entitled, NothingWithoutAuthority
<1> QED
  BY <1>1, InvHolds, PTL

\* A client told "unauthorized" did lack an authority at one instant.
THEOREM DenialsAreTrue == Spec => []DeniedMeansUncovered
<1>1. Inv => DeniedMeansUncovered
  BY DEF Inv, Good, Refused, DeniedMeansUncovered
<1> QED
  BY <1>1, InvHolds, PTL

\* No clone of a repository that stayed public is blocked for lack of a grant,
\* unless its probe failed: the exception of gitproxy.go:43-45, which the proxy of
\* DESIGN.md:119-131 does not have.
THEOREM PublicStaysOpen == Spec => []PublicNeverBlocked
<1>1. Inv => PublicNeverBlocked
  BY DEF Inv, Good, Blocked, PublicNeverBlocked
<1> QED
  BY <1>1, InvHolds, PTL
=============================================================================
