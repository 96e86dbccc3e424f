------------------------- MODULE LoginPromiseProofs -------------------------
(***************************************************************************)
(* The cookies keep the promise: Login implements SessionPromise, for any  *)
(* number of browsers and requests.  A handler with a session cookie in    *)
(* its answer is a proof not used up; a browser with a valid session       *)
(* cookie is signed in.                                                    *)
(***************************************************************************)
EXTENDS LoginProofs

\* Who is signed in at b, and the proof that handler h holds.
Standing(b) == SessionOf({k.value : k \in {x \in jar[b].session : Valid(x.value)}})

Proof(h) ==
  LET w == work[h]
  IN  IF "session" \in DOMAIN w.cookies /\ w.cookies.session # {}
      THEN {[browser |-> w.browser,
             session |-> SessionOf({k.value : k \in w.cookies.session})]}
      ELSE {}

Who == [b \in Browser |-> Standing(b)]

Proofs == [h \in Handler |-> Proof(h)]

-----------------------------------------------------------------------------
(* What is seen of a jar and of an answer.                                 *)

LEMMA SeenOf ==
  ASSUME NEW b
  PROVE  Standing(b) =
           {[email |-> k.value.email, ends |-> k.value.exp] :
              k \in {x \in jar[b].session : Valid(x.value)}}
BY DEF Standing, SessionOf, Valid

LEMMA SeenInValues ==
  ASSUME NEW b
  PROVE  Standing(b)' =
           {[email |-> v.email, ends |-> v.exp] :
              v \in {x \in {k.value : k \in jar'[b].session} : Valid(x)'}}
BY DEF Standing, SessionOf, Valid

LEMMA SameStanding ==
  ASSUME UNCHANGED <<now, secret>>, NEW b, jar'[b].session = jar[b].session
  PROVE  Standing(b)' = Standing(b)
BY DEF Standing, Valid

LEMMA SameProof ==
  ASSUME NEW h, work'[h] = work[h]
  PROVE  Proof(h)' = Proof(h)
BY DEF Proof

LEMMA NoProof ==
  ASSUME NEW h
  PROVE  /\ work[h].cookies = Unchanged => Proof(h) = {}
         /\ work'[h].cookies = Unchanged => Proof(h)' = {}
BY IdleIs DEF Proof

\* The other handlers hold what they held.
LEMMA OtherProofs ==
  ASSUME Base, NEW h \in Handler, NEW w, work' = [work EXCEPT ![h] = w]
  PROVE  /\ work'[h] = w
         /\ \A g \in Handler : g # h => Proof(g)' = Proof(g)
<1>1. work'[h] = w
  BY DEF Base
<1>2. \A g \in Handler : g # h => work'[g] = work[g]
  BY DEF Base
<1> QED
  BY <1>1, <1>2, SameProof

\* Steps of a handler that have no proof before and none afterwards.
LEMMA Unseen ==
  ASSUME Base, NEW h \in Handler, NEW w, work' = [work EXCEPT ![h] = w],
         Proof(h) = {}, Proof(h)' = {}, UNCHANGED <<now, secret, jar>>
  PROVE  UNCHANGED <<now, secret, Who, Proofs>>
<1>1. \A g \in Handler : Proof(g)' = Proof(g)
  BY OtherProofs
<1>2. \A b \in Browser : Standing(b)' = Standing(b)
  BY SameStanding
<1> QED
  BY <1>1, <1>2 DEF Who, Proofs

-----------------------------------------------------------------------------
(* What every action looks like from outside.                              *)

LEMMA PromiseInit == Init => Promise!Init
<1> SUFFICES ASSUME Init PROVE Promise!Init
  OBVIOUS
<1>1. \A b \in Browser : jar[b].session = {}
  BY DEF Init, NoCookies
<1>2. \A b \in Browser : Standing(b) = {}
  BY <1>1, SeenOf
<1>3. \A h \in Handler : Proof(h) = {}
  BY NoProof, IdleIs DEF Init
<1>4. Who = [b \in Browser |-> {}] /\ Proofs = [h \in Handler |-> {}]
  BY <1>2, <1>3 DEF Who, Proofs
<1>5. now = 0 /\ secret = 0
  BY DEF Init
<1> QED
  BY <1>4, <1>5 DEF Promise!Init, Who, Proofs, Standing, Proof

LEMMA LoginUnseen ==
  ASSUME Inv, NEW h \in Handler, NEW b \in Browser,
         \/ HandleLogin(h, b) \/ HandleLogout(h, b)
         \/ \E s \in DOMAIN logins, c \in DOMAIN codes : HandleCallback(h, b, s, c)
  PROVE  UNCHANGED <<now, secret, Who, Proofs>>
<1>1. PICK w : /\ work[h] = Idle /\ work' = [work EXCEPT ![h] = w]
               /\ "session" \in DOMAIN w.cookies => w.cookies.session = {}
  <2>1. CASE HandleLogin(h, b)
    <3> DEFINE state == Len(logins) + 1
               k == Cookie([state |-> state, next |-> SafeNext(Asked[state])], StateTTL)
               w == Answer(b, 302, [state |-> {k}], state, "nowhere")
    <3>1. work[h] = Idle /\ work' = [work EXCEPT ![h] = w]
      BY <2>1 DEF HandleLogin, Begin
    <3>2. w.cookies = [state |-> {k}]
      BY DEF Answer
    <3> HIDE DEF w, k
    <3>3. "session" \notin DOMAIN w.cookies
      BY <3>2
    <3> QED
      BY <3>1, <3>3
  <2>2. CASE HandleLogout(h, b)
    <3> DEFINE w == Answer(b, 302, [session |-> {}], 0, "/")
    <3>1. work[h] = Idle /\ work' = [work EXCEPT ![h] = w]
      BY <2>2 DEF HandleLogout, Begin
    <3>2. w.cookies.session = {}
      BY DEF Answer
    <3> QED
      BY <3>1, <3>2
  <2>3. CASE \E s \in DOMAIN logins, c \in DOMAIN codes : HandleCallback(h, b, s, c)
    <3>1. PICK s \in DOMAIN logins, c \in DOMAIN codes : HandleCallback(h, b, s, c)
      BY <2>3
    <3> DEFINE Returning(next) == [Answer(b, 0, Unchanged, 0, "nowhere") EXCEPT
                                !.pc = "exchanging", !.state = s, !.code = c, !.next = next]
    <3>2. /\ work[h] = Idle
          /\ \/ work' = [work EXCEPT ![h] = BadRequest(b, s, Unchanged)]
             \/ work' = [work EXCEPT ![h] = BadRequest(b, s, [state |-> {}])]
             \/ \E k \in jar[b].state : work' = [work EXCEPT ![h] = Returning(k.value.next)]
      BY <3>1 DEF HandleCallback, Begin
    <3>3. /\ "session" \notin DOMAIN BadRequest(b, s, Unchanged).cookies
          /\ "session" \notin DOMAIN BadRequest(b, s, [state |-> {}]).cookies
          /\ \A next : "session" \notin DOMAIN Returning(next).cookies
      BY IdleIs DEF BadRequest, Answer
    <3> HIDE DEF Returning
    <3> QED
      BY <3>2, <3>3
  <2> QED
    BY <2>1, <2>2, <2>3
<1>2. Base /\ UNCHANGED <<now, secret, jar>>
  BY DEF Inv, HandleLogin, HandleLogout, HandleCallback
<1>3. work'[h] = w
  BY <1>1, <1>2, OtherProofs
<1>4. Proof(h) = {} /\ Proof(h)' = {}
  BY <1>1, <1>3, NoProof, IdleIs DEF Proof
<1> QED
  BY <1>1, <1>2, <1>4, Unseen

LEMMA ConsentUnseen ==
  ASSUME NEW a \in Account, Consent(a)
  PROVE  UNCHANGED <<now, secret, Who, Proofs>>
BY DEF Consent, Who, Proofs, Standing, Proof, Valid

\* A callback that fails is not seen either.
LEMMA GatewayUnseen ==
  ASSUME Inv, NEW h \in Handler, work[h].pc \in {"exchanging", "fetching"}, NEW w,
         \/ w = BadGateway(work[h].browser)
         \/ w.cookies = Unchanged,
         work' = [work EXCEPT ![h] = w], UNCHANGED <<now, secret, jar>>
  PROVE  UNCHANGED <<now, secret, Who, Proofs>>
<1>1. Base /\ work[h].cookies = Unchanged
  BY DEF Inv, AllWork, WorkGood
<1>2. work'[h] = w
  BY <1>1, OtherProofs
<1>3. w.cookies = Unchanged \/ w.cookies = [state |-> {}]
  BY DEF BadGateway, Answer
<1>4. "session" \notin DOMAIN w.cookies
  BY <1>3, IdleIs
<1>5. Proof(h) = {} /\ Proof(h)' = {}
  BY <1>1, <1>2, <1>4, NoProof DEF Proof
<1> QED
  BY <1>1, <1>5, Unseen

LEMMA ExchangeUnseen ==
  ASSUME Inv, NEW h \in Handler, Exchange(h)
  PROVE  UNCHANGED <<now, secret, Who, Proofs>>
<1>1. /\ work[h].pc = "exchanging" /\ UNCHANGED <<now, secret, jar>>
      /\ \/ work' = [work EXCEPT ![h].pc = "fetching"]
         \/ work' = [work EXCEPT ![h] = BadGateway(work[h].browser)]
  BY DEF Exchange
<1> DEFINE w == [work[h] EXCEPT !.pc = "fetching"]
<1>2. w.cookies = Unchanged
  BY <1>1 DEF Inv, AllWork, WorkGood, WorkTyped, Fields
<1>3. \/ work' = [work EXCEPT ![h] = w]
      \/ work' = [work EXCEPT ![h] = BadGateway(work[h].browser)]
  BY <1>1
<1> HIDE DEF w
<1> QED
  BY <1>1, <1>2, <1>3, GatewayUnseen

\* To sign is to prove.
LEMMA SignProves ==
  ASSUME Inv, NEW h \in Handler, FetchAndSign(h)
  PROVE  \/ UNCHANGED <<now, secret, Who, Proofs>>
         \/ /\ UNCHANGED <<now, secret, Who>> /\ Proof(h) = {} /\ work[h].browser \in Browser
            /\ \E session \in {{}} \cup {{[email |-> e, ends |-> now + SessionTTL]} : e \in Email} :
                 Proofs' = [Proofs EXCEPT ![h] = {[browser |-> work[h].browser, session |-> session]}]
<1> DEFINE w == work[h]
           a == codes[w.code].account
           k == SessionCookieFor(FetchEmail(a))
           x == [Answer(w.browser, 302, [state |-> {}, session |-> {k}], 0, SafeNext(w.next))
                   EXCEPT !.state = w.state]
<1>1. /\ w.pc = "fetching" /\ UNCHANGED <<now, secret, jar>>
      /\ \/ FetchEmail(a) # "" /\ work' = [work EXCEPT ![h] = x]
         \/ work' = [work EXCEPT ![h] = BadGateway(w.browser)]
  BY DEF FetchAndSign
<1>2. CASE work' = [work EXCEPT ![h] = BadGateway(w.browser)]
  BY <1>1, <1>2, GatewayUnseen
<1>3. CASE FetchEmail(a) # "" /\ work' = [work EXCEPT ![h] = x]
  <2>1. Base /\ w.cookies = Unchanged /\ w.code \in DOMAIN codes /\ w.browser \in Browser
    BY <1>1 DEF Inv, AllWork, WorkGood
  <2>2. FetchEmail(a) \in Email
    <3>1. a \in Account
      BY <2>1, CodesAre DEF CodeType
    <3> QED
      BY <1>3, <3>1, FetchedType
  <2>3. x.browser = w.browser /\ x.cookies = [state |-> {}, session |-> {k}]
    BY DEF Answer
  <2>4. k.value = [email |-> FetchEmail(a), exp |-> now + SessionTTL, key |-> secret]
    BY DEF SessionCookieFor, Cookie
  <2> DEFINE session == SessionOf({k.value})
  <2>5. session \in {{}} \cup {{[email |-> e, ends |-> now + SessionTTL]} : e \in Email}
    <3>1. CASE FetchEmail(a) \in Unfit
      BY <2>4, <3>1 DEF SessionOf
    <3>2. CASE FetchEmail(a) \notin Unfit
      <4>1. session = {[email |-> FetchEmail(a), ends |-> now + SessionTTL]}
        BY <2>4, <3>2 DEF SessionOf
      <4> QED
        BY <2>2, <4>1
    <3> QED
      BY <3>1, <3>2
  <2>6. "session" \in DOMAIN x.cookies /\ x.cookies.session = {k}
    BY <2>3
  <2> HIDE DEF x, k
  <2>7. work'[h] = x /\ \A g \in Handler : g # h => Proof(g)' = Proof(g)
    BY <1>3, <2>1, OtherProofs
  <2>8. Proof(h)' = {[browser |-> w.browser, session |-> session]}
    <3>1. {q.value : q \in {k}} = {k.value}
      OBVIOUS
    <3>2. SessionOf({q.value : q \in work'[h].cookies.session}) = session
      BY <2>6, <2>7, <3>1
    <3>3. Proof(h)' = {[browser |-> work'[h].browser,
                        session |-> SessionOf({q.value : q \in work'[h].cookies.session})]}
      BY <2>6, <2>7 DEF Proof, SessionOf
    <3> QED
      BY <2>3, <2>7, <3>2, <3>3
  <2>9. Proof(h) = {}
    BY <2>1, NoProof
  <2>10. UNCHANGED <<now, secret, Who>>
    BY <1>1, SameStanding DEF Who
  <2> HIDE DEF session, w
  <2>11. Proofs' = [Proofs EXCEPT ![h] = {[browser |-> w.browser, session |-> session]}]
    BY <2>7, <2>8 DEF Proofs
  <2> QED
    BY <2>1, <2>5, <2>9, <2>10, <2>11 DEF w
<1> QED
  BY <1>1, <1>2, <1>3

\* A session cookie that comes in signs in, one that is cleared signs out.
LEMMA DeliverSigns ==
  ASSUME Inv, NEW h \in Handler, Deliver(h)
  PROVE  /\ UNCHANGED <<now, secret>>
         /\ \/ UNCHANGED <<Who, Proofs>>
            \/ /\ \E b \in Browser : Who' = [Who EXCEPT ![b] = {}]
               /\ UNCHANGED Proofs
            \/ /\ \E p \in Proof(h) :
                    Who' = [Who EXCEPT ![p.browser] = {x \in p.session : now <= x.ends}]
               /\ Proofs' = [Proofs EXCEPT ![h] = {}]
<1> DEFINE w == work[h]
<1>0. w.browser \in Browser
  BY DEF Deliver, Inv, AllWork, WorkGood
<1> PICK b \in Browser : b = w.browser
  BY <1>0
<1>1. /\ w.pc = "answering"
      /\ jar' = [jar EXCEPT ![b] =
                   [c \in DOMAIN @ |-> IF c \in DOMAIN w.cookies THEN Kept(w.cookies[c]) ELSE @[c]]]
      /\ work' = [work EXCEPT ![h] = Idle]
      /\ UNCHANGED <<now, secret>>
  BY DEF Deliver
<1>2. Base /\ AllWork(h) /\ b \in Browser /\ AllJar(b)
  BY <1>1 DEF Inv, AllWork, WorkGood
<1>3. /\ \A x \in Browser : x # b => Standing(x)' = Standing(x)
      /\ jar'[b].session = IF "session" \in DOMAIN w.cookies THEN Kept(w.cookies.session)
                           ELSE jar[b].session
  <2>1. \A x \in Browser : x # b => jar'[x] = jar[x]
    BY <1>1, <1>2, Zenon DEF Base
  <2>2. jar'[b] = [c \in DOMAIN jar[b] |->
                     IF c \in DOMAIN w.cookies THEN Kept(w.cookies[c]) ELSE jar[b][c]]
    BY <1>1, <1>2, Zenon DEF Base
  <2>3. "session" \in DOMAIN jar[b]
    BY <1>2 DEF AllJar, JarTyped, Names
  <2>4. \A x \in Browser : x # b => Standing(x)' = Standing(x)
    BY <1>1, <2>1, SameStanding
  <2> QED
    BY <2>2, <2>3, <2>4
<1>4. Proof(h)' = {} /\ \A g \in Handler : g # h => Proof(g)' = Proof(g)
  BY <1>1, <1>2, OtherProofs, NoProof, IdleIs
<1>5. Proofs' = [Proofs EXCEPT ![h] = {}]
  BY <1>4 DEF Proofs
<1>6. Who' = [Who EXCEPT ![b] = Standing(b)']
  BY <1>2, <1>3 DEF Who
<1>7. CASE "session" \notin DOMAIN w.cookies
  <2>1. Proof(h) = {}
    BY <1>7 DEF Proof
  <2>2. Standing(b)' = Standing(b)
    BY <1>1, <1>3, <1>7 DEF Standing, Valid
  <2>3. UNCHANGED Proofs
    BY <1>4, <2>1 DEF Proofs
  <2>4. UNCHANGED Who
    BY <1>6, <2>2 DEF Who
  <2> QED
    BY <1>1, <2>3, <2>4
<1>8. CASE "session" \in DOMAIN w.cookies /\ w.cookies.session = {}
  <2>1. Proof(h) = {}
    BY <1>8 DEF Proof
  <2>2. Standing(b)' = {}
    BY <1>3, <1>8 DEF Standing, SessionOf, Kept
  <2>3. UNCHANGED Proofs
    BY <1>4, <2>1 DEF Proofs
  <2> QED
    BY <1>1, <1>2, <1>6, <2>2, <2>3
<1>9. CASE "session" \in DOMAIN w.cookies /\ w.cookies.session # {}
  <2> DEFINE session == SessionOf({k.value : k \in w.cookies.session})
             p == [browser |-> b, session |-> session]
  <2>1. p \in Proof(h) /\ p.browser = b /\ p.session = session
    BY <1>9 DEF Proof
  <2>2. Standing(b)' = {x \in session : now <= x.ends}
    <3>1. \A k \in w.cookies.session : k.value.key = secret
      BY <1>2, <1>9 DEF AllWork, WorkGood
    <3>2. {k.value : k \in Kept(w.cookies.session)} = {k.value : k \in w.cookies.session}
      <4>1. \A k \in Kept(w.cookies.session) : \E x \in w.cookies.session : k.value = x.value
        BY DEF Kept
      <4>2. \A x \in w.cookies.session : \E k \in Kept(w.cookies.session) : k.value = x.value
        <5>1. ASSUME NEW x \in w.cookies.session
              PROVE  \E k \in Kept(w.cookies.session) : k.value = x.value
          <6>1. [value |-> x.value, until |-> now + x.ttl] \in Kept(w.cookies.session)
            BY DEF Kept
          <6> QED
            BY <6>1
        <5> QED
          BY <5>1
      <4> QED
        BY <4>1, <4>2
    <3>3. jar'[b].session = Kept(w.cookies.session)
      BY <1>3, <1>9
    <3> DEFINE values == {k.value : k \in w.cookies.session}
    <3>4. {k.value : k \in jar'[b].session} = values
      BY <3>2, <3>3
    <3>5. \A x \in values : x.key = secret
      BY <3>1
    <3> HIDE DEF values, w
    <3>6. Standing(b)' =
            {[email |-> v.email, ends |-> v.exp] : v \in {x \in values : Valid(x)'}}
      BY <3>4, SeenInValues DEF Valid
    <3>7. {x \in values : Valid(x)'} = {x \in values : x.email \notin Unfit /\ now <= x.exp}
      BY <1>1, <3>5 DEF Valid
    <3>8. session = {[email |-> v.email, ends |-> v.exp] : v \in {x \in values : x.email \notin Unfit}}
      BY DEF SessionOf, values
    <3> HIDE DEF session
    <3> QED
      BY <3>6, <3>7, <3>8
  <2> HIDE DEF p, session, w
  <2>3. Who' = [Who EXCEPT ![p.browser] = {x \in p.session : now <= x.ends}]
    BY <1>6, <2>1, <2>2
  <2> QED
    BY <1>1, <1>5, <2>1, <2>3
<1> QED
  BY <1>7, <1>8, <1>9

LEMMA LoseVoids ==
  ASSUME Inv, NEW h \in Handler, Lose(h)
  PROVE  /\ UNCHANGED <<now, secret, Who>>
         /\ Proofs' = [g \in Handler |-> IF g \in {h} THEN {} ELSE Proofs[g]]
<1>1. work' = [work EXCEPT ![h] = Idle] /\ UNCHANGED <<now, secret, jar>> /\ Base
  BY DEF Lose, Inv
<1>2. Proof(h)' = {} /\ \A g \in Handler : g # h => Proof(g)' = Proof(g)
  BY <1>1, OtherProofs, NoProof, IdleIs
<1>3. UNCHANGED Who
  BY <1>1, SameStanding DEF Who
<1> QED
  BY <1>1, <1>2, <1>3 DEF Proofs

LEMMA RestartVoids ==
  ASSUME Inv, Restart
  PROVE  /\ UNCHANGED now /\ Proofs' = [h \in Handler |-> {}]
         /\ \/ UNCHANGED <<secret, Who>>
            \/ secret' = secret + 1 /\ Who' = [b \in Browser |-> {}]
<1>1. /\ secret' = IF configured THEN secret ELSE secret + 1
      /\ work' = [h \in Handler |-> Idle] /\ UNCHANGED <<now, jar>> /\ secret \in Nat
  BY DEF Restart, Inv, Base
<1>2. \A h \in Handler : Proof(h)' = {}
  BY <1>1, NoProof, IdleIs
<1>3. Proofs' = [h \in Handler |-> {}]
  BY <1>2 DEF Proofs
<1>4. CASE configured
  <2>1. UNCHANGED secret
    BY <1>1, <1>4
  <2>2. UNCHANGED Who
    BY <1>1, <2>1, SameStanding DEF Who
  <2> QED
    BY <1>1, <1>3, <2>1, <2>2
<1>5. CASE ~configured
  <2>1. ASSUME NEW b \in Browser PROVE Standing(b)' = {}
    <3>1. \A k \in jar[b].session : k.value.key \in Nat /\ k.value.key <= secret
      BY DEF Inv, AllJar, JarGood, JarTyped, SessionValue
    <3>2. \A k \in jar'[b].session : k.value.key # secret'
      BY <1>1, <1>5, <3>1
    <3> QED
      BY <3>2 DEF Standing, SessionOf, Valid
  <2> QED
    BY <1>1, <1>3, <1>5, <2>1 DEF Who
<1> QED
  BY <1>4, <1>5

LEMMA TickPasses ==
  ASSUME Inv, Tick
  PROVE  /\ now' = now + 1 /\ UNCHANGED <<secret, Proofs>>
         /\ Who' = [b \in Browser |-> {x \in Who[b] : now + 1 <= x.ends}]
<1>1. /\ now' = now + 1 /\ now \in Nat
      /\ jar' = [b \in Browser |->
                   [c \in {"session", "state"} |-> {k \in jar[b][c] : now < k.until}]]
      /\ UNCHANGED <<secret, work>>
  BY DEF Tick, Inv, Base
<1>2. UNCHANGED Proofs
  BY <1>1, SameProof DEF Proofs
<1>3. ASSUME NEW b \in Browser
      PROVE  Standing(b)' = {x \in Standing(b) : now + 1 <= x.ends}
  <2>1. jar'[b].session = {k \in jar[b].session : now < k.until}
    BY <1>1
  <2>2. \A k \in jar[b].session : k.value.exp \in Nat /\ k.until \in Nat /\ k.value.exp <= k.until
    BY DEF Inv, AllJar, JarTyped, JarGood, SessionValue
  <2>3. \A k \in jar[b].session :
          (now < k.until /\ Valid(k.value)') <=> (Valid(k.value) /\ now + 1 <= k.value.exp)
    BY <1>1, <2>2 DEF Valid
  <2>4. {k \in jar'[b].session : Valid(k.value)'} =
          {k \in jar[b].session : Valid(k.value) /\ now + 1 <= k.value.exp}
    BY <2>1, <2>3
  <2>5. Standing(b) = {[email |-> k.value.email, ends |-> k.value.exp] :
                         k \in {x \in jar[b].session : Valid(x.value)}}
    BY SeenOf
  <2>6. Standing(b)' = {[email |-> k.value.email, ends |-> k.value.exp] :
                         k \in {x \in jar'[b].session : Valid(x.value)'}}
    BY DEF Standing, SessionOf, Valid
  <2> QED
    BY <2>4, <2>5, <2>6
<1> QED
  BY <1>1, <1>2, <1>3 DEF Who

-----------------------------------------------------------------------------
(* The refinement.                                                         *)

LEMMA PromiseStep ==
  ASSUME Inv, [Next]_vars
  PROVE  [Promise!Next]_(Promise!vars)
<1> USE DEF Promise!vars
<1>1. CASE UNCHANGED <<now, secret, Who, Proofs>>
  BY <1>1 DEF Who, Proofs, Standing, Proof
<1>2. ASSUME NEW h \in Handler, NEW b \in Browser,
             \/ HandleLogin(h, b) \/ HandleLogout(h, b)
             \/ \E s \in DOMAIN logins, c \in DOMAIN codes : HandleCallback(h, b, s, c)
      PROVE  [Promise!Next]_(Promise!vars)
  BY <1>1, <1>2, LoginUnseen
<1>3. ASSUME NEW a \in Account, Consent(a)
      PROVE  [Promise!Next]_(Promise!vars)
  BY <1>1, <1>3, ConsentUnseen
<1>4. ASSUME NEW h \in Handler, Exchange(h) PROVE [Promise!Next]_(Promise!vars)
  BY <1>1, <1>4, ExchangeUnseen
<1>5. ASSUME NEW h \in Handler, FetchAndSign(h) PROVE [Promise!Next]_(Promise!vars)
  <2>1. CASE ~ UNCHANGED <<now, secret, Who, Proofs>>
    <3>1. PICK b \in Browser : b = work[h].browser
      BY <1>5, <2>1, SignProves
    <3>2. Promise!Prove(h, b)
      BY <1>5, <2>1, <3>1, SignProves
      DEF Promise!Prove, Promise!SessionsUntil, Who, Proofs, Standing, Proof
    <3> QED
      BY <3>2 DEF Promise!Next, Promise!Prove
  <2> QED
    BY <1>1, <2>1
<1>6. ASSUME NEW h \in Handler, Deliver(h) PROVE [Promise!Next]_(Promise!vars)
  BY <1>1, <1>6, DeliverSigns
  DEF Promise!Next, Promise!SignIn, Promise!SignOut, Promise!Alive, Who, Proofs, Standing, Proof
<1>7. ASSUME NEW h \in Handler, Lose(h) PROVE [Promise!Next]_(Promise!vars)
  <2>1. Promise!Void({h})
    BY <1>7, LoseVoids DEF Promise!Void, Who, Proofs, Standing, Proof
  <2>2. {h} \in SUBSET Handler
    OBVIOUS
  <2> QED
    BY <2>1, <2>2 DEF Promise!Next, Promise!Void
<1>8. CASE Restart
  BY <1>8, RestartVoids
  DEF Promise!Next, Promise!Void, Promise!NewSecret, Who, Proofs, Standing, Proof
<1>9. CASE Tick
  BY <1>9, TickPasses
  DEF Promise!Next, Promise!TimePasses, Promise!Alive, Who, Proofs, Standing, Proof
<1>10. CASE UNCHANGED vars
  BY <1>10 DEF vars, Valid
<1> QED
  BY <1>2, <1>3, <1>4, <1>5, <1>6, <1>7, <1>8, <1>9, <1>10 DEF Next

\* The cookies keep the promise: no stale tab, late answer, failed callback or
\* restart signs anybody in or out but as SessionPromise says, whatever the
\* number of browsers, requests, logins and accounts.
THEOREM SessionsKeepTheirPromise == Spec => KeepsPromise
BY PromiseInit, PromiseStep, InvHolds, PTL DEF Spec, KeepsPromise, Promise!Spec
=============================================================================
