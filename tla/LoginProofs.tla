----------------------------- MODULE LoginProofs -----------------------------
(***************************************************************************)
(* What holds of Login for any number of browsers, request goroutines,     *)
(* logins and accounts, for whatever emails and lifetimes.                 *)
(***************************************************************************)
EXTENDS Login, SequenceTheorems, WellFoundedInduction, TLAPS

-----------------------------------------------------------------------------
(* Types.                                                                  *)

Names == {"session", "state"}

Fields == {"pc", "browser", "state", "code", "next", "status", "cookies", "login", "to"}

LoginType == [by : Browser, next : ToSet(Asked), at : Nat, reached : BOOLEAN]

CodeType == [account : Account, status : {"fresh", "redeemed"}]

Base ==
  /\ now \in Nat /\ secret \in Nat /\ configured \in BOOLEAN
  /\ logins \in Seq(LoginType) /\ Len(logins) <= Len(Asked)
  /\ codes \in Seq(CodeType)
  /\ \A p \in proved :
       p.account \in Account /\ p.login \in DOMAIN logins /\ p.at \in Nat /\ p.at <= now
  /\ visits \in [Browser -> Nat]
  /\ DOMAIN jar = Browser /\ jar = [b \in Browser |-> jar[b]]
  /\ DOMAIN work = Handler /\ work = [h \in Handler |-> work[h]]

JarTyped(b) ==
  /\ DOMAIN jar[b] = Names
  /\ \A k \in jar[b].session : k.value \in SessionValue /\ k.until \in Nat
  /\ \A k \in jar[b].state : k.value \in StateValue /\ k.until \in Nat

WorkTyped(h) ==
  LET w == work[h]
  IN  /\ DOMAIN w = Fields /\ DOMAIN w.cookies \subseteq Names
      /\ w.pc \in {"idle", "exchanging", "fetching", "answering"}
      /\ w.pc = "fetching" => codes[w.code].status = "redeemed"
      /\ "session" \in DOMAIN w.cookies => \A k \in w.cookies.session : k.value \in SessionValue
      /\ "state" \in DOMAIN w.cookies => \A k \in w.cookies.state : k.value \in StateValue

-----------------------------------------------------------------------------
(* What cookies and answers under way say is true.                         *)

\* A state cookie of browser b.
Begun(value, b) ==
  /\ value.state \in DOMAIN logins
  /\ logins[value.state].by = b /\ value.next = SafeNext(logins[value.state].next)

\* A callback proved this session of browser b.
Proves(p, value, b) ==
  /\ logins[p.login].by = b
  /\ value.exp <= p.at + SessionTTL
  /\ MayBeNamed(value.email, p.account)

\* Browsers keep a session at least until its end, and none is of a secret to come.
JarGood(b) ==
  /\ \A k \in jar[b].state : Begun(k.value, b)
  /\ \A k \in jar[b].session :
       /\ \E p \in proved : Proves(p, k.value, b)
       /\ k.value.exp <= k.until /\ k.value.key <= secret

\* The handler answers the state of a login that the browser it serves began,
\* and "to" is where that login goes.
OwnState(w, to) ==
  /\ w.state \in DOMAIN logins
  /\ logins[w.state].by = w.browser
  /\ to = SafeNext(logins[w.state].next)

WorkGood(h) ==
  LET w == work[h]
  IN  /\ w.pc = "idle" => w.cookies = Unchanged /\ w.login = 0 /\ w.status = 0
      /\ w.pc # "idle" => w.browser \in Browser
      /\ w.pc \in {"exchanging", "fetching"} =>
           /\ w.cookies = Unchanged /\ w.login = 0 /\ w.status = 0
           /\ w.code \in DOMAIN codes /\ OwnState(w, w.next)
      /\ w.login # 0 =>
           /\ w.login \in DOMAIN logins /\ logins[w.login].by = w.browser
           /\ w.cookies = [state |-> {Cookie([state |-> w.login,
                                              next |-> SafeNext(logins[w.login].next)], StateTTL)}]
      /\ w.login = 0 /\ "state" \in DOMAIN w.cookies => w.cookies.state = {}
      /\ "session" \in DOMAIN w.cookies =>
           \A k \in w.cookies.session :
             /\ k.ttl = SessionTTL /\ k.value.exp <= now + k.ttl /\ k.value.key = secret
             /\ OwnState(w, w.to) /\ \E p \in proved : Proves(p, k.value, w.browser)

-----------------------------------------------------------------------------
(* What is true of a browser that has not come back yet.                   *)

Sole(s) == \A t \in DOMAIN logins : t # s => logins[t].by # logins[s].by

\* It holds the state cookie of its only login while that lasts.
Awaited(s) ==
  LET cookies == jar[logins[s].by].state
  IN  /\ logins[s].at <= now
      /\ (/\ logins[s].reached /\ Sole(s) /\ visits[logins[s].by] = 0
          /\ now <= logins[s].at + StateTTL)
         => /\ cookies # {}
            /\ \A k \in cookies : k.value.state = s /\ logins[s].at + StateTTL <= k.until

\* Only a callback clears the state.
Came(h) ==
  LET w == work[h]
  IN  (\/ w.pc \in {"exchanging", "fetching"}
       \/ "state" \in DOMAIN w.cookies /\ w.cookies.state = {}) => visits[w.browser] > 0

Excused(h) ==
  LET w == work[h]
  IN  w.status = 400 =>
        /\ w.state \in DOMAIN logins
        /\ \/ visits[w.browser] > 1
           \/ logins[w.state].by # w.browser
           \/ ~Sole(w.state)
           \/ now > logins[w.state].at + StateTTL

AllJar(b) == JarTyped(b) /\ JarGood(b)

AllWork(h) == WorkTyped(h) /\ WorkGood(h) /\ Came(h) /\ Excused(h)

Inv ==
  /\ Base
  /\ \A b \in Browser : AllJar(b)
  /\ \A h \in Handler : AllWork(h)
  /\ \A s \in DOMAIN logins : Awaited(s)

-----------------------------------------------------------------------------
(* Data.                                                                   *)

Less == {p \in Nat \X Nat : p[1] < p[2]}

\* A set of numbers with a member has a least one.
LEMMA LeastNumber ==
  ASSUME NEW S, S \subseteq Nat, S # {}
  PROVE  Min(S) \in S
<1>1. IsWellFoundedOn(Less, Nat)
  BY NatLessThanWellFounded DEF OpToRel, Less
<1>2. PICK m \in S : \A n \in S : ~ (<<n, m>> \in Less)
  BY <1>1, WFMin
<1>3. ASSUME NEW n \in S, ~ (m <= n) PROVE FALSE
  <2>1. n \in Nat /\ m \in Nat /\ n < m
    BY <1>3
  <2> QED
    BY <1>2, <2>1 DEF Less
<1> QED
  BY <1>3 DEF Min

LEMMA RangeOfNumbers == ASSUME NEW n \in Nat PROVE 1..n \subseteq Nat \ {0}
OBVIOUS

\* The email that is fetched is one that may be named.
LEMMA FetchedMayBeNamed ==
  ASSUME NEW a \in Account, FetchEmail(a) # ""
  PROVE  MayBeNamed(FetchEmail(a), a)
<1>0. DOMAIN Emails[a] = 1..Len(Emails[a]) /\ Len(Emails[a]) \in Nat
  <2>1. Emails[a] \in Seq(ToSet(Emails[a]))
    BY EmailsAssumption
  <2> QED
    BY <2>1, LenProperties
<1> DEFINE P == {i \in 1..Len(Emails[a]) : Emails[a][i].primary /\ Emails[a][i].verified}
           V == {i \in 1..Len(Emails[a]) : Emails[a][i].verified}
           primary == IF P # {} THEN Min(P) ELSE 0
           verified == IF V # {} THEN Min(V) ELSE 0
<1>1. FetchEmail(a) = CASE primary # 0 -> Lower[Emails[a][primary].email]
                        [] primary = 0 /\ verified # 0 -> Lower[Emails[a][verified].email]
                        [] OTHER -> ""
  BY DEF FetchEmail, SelectInSeq
<1>2. P \subseteq Nat \ {0} /\ V \subseteq Nat \ {0}
  <2>1. P \subseteq 1..Len(Emails[a]) /\ V \subseteq 1..Len(Emails[a])
    BY Zenon
  <2> QED
    BY <1>0, <2>1, RangeOfNumbers, Zenon
<1>3. P # {} => Min(P) \in P /\ Min(P) # 0
  BY <1>2, LeastNumber
<1>4. V # {} => Min(V) \in V
  BY <1>2, LeastNumber
<1>5. CASE P # {}
  <2> DEFINE i == Min(P)
  <2>1. /\ i \in DOMAIN Emails[a] /\ FetchEmail(a) = Lower[Emails[a][i].email]
        /\ Emails[a][i].primary /\ Emails[a][i].verified
    <3>1. primary = i /\ primary # 0 /\ i \in P
      BY <1>3, <1>5
    <3>2. FetchEmail(a) = Lower[Emails[a][primary].email]
      BY <1>1, <3>1
    <3> QED
      BY <1>0, <3>1, <3>2
  <2> QED
    BY <2>1 DEF MayBeNamed
<1>6. CASE P = {}
  <2> DEFINE i == Min(V)
  <2>1. verified # 0 /\ V # {}
    BY <1>1, <1>6
  <2>2. /\ i \in DOMAIN Emails[a] /\ FetchEmail(a) = Lower[Emails[a][i].email]
        /\ Emails[a][i].verified
    BY <1>0, <1>1, <1>4, <1>6, <2>1
  <2>3. ~ \E j \in DOMAIN Emails[a] : Emails[a][j].primary /\ Emails[a][j].verified
    BY <1>0, <1>6
  <2> QED
    BY <2>2, <2>3 DEF MayBeNamed
<1> QED
  BY <1>5, <1>6

LEMMA FetchedType ==
  ASSUME NEW a \in Account, FetchEmail(a) # ""
  PROVE  FetchEmail(a) \in Email
<1>1. PICK i \in DOMAIN Emails[a] : Lower[Emails[a][i].email] = FetchEmail(a)
  BY FetchedMayBeNamed DEF MayBeNamed
<1>2. Emails[a][i] \in {Emails[a][j] : j \in DOMAIN Emails[a]}
  BY Zenon
<1>3. Emails[a][i] \in UNION {{Emails[x][j] : j \in DOMAIN Emails[x]} : x \in Account}
  BY <1>2, Zenon
<1> QED
  BY <1>1, <1>3, Zenon DEF Email

LEMMA SafeNextType == ASSUME NEW next PROVE SafeNext(next) \in LocalPath
BY LocalPathAssumption DEF SafeNext

-----------------------------------------------------------------------------
(* Logins and codes only grow.                                             *)

LoginsGrow ==
  \A s \in DOMAIN logins :
    /\ s \in DOMAIN logins'
    /\ logins'[s].by = logins[s].by /\ logins'[s].next = logins[s].next
    /\ logins'[s].at = logins[s].at /\ (logins[s].reached => logins'[s].reached)

CodesGrow ==
  \A c \in DOMAIN codes :
    /\ c \in DOMAIN codes'
    /\ codes'[c].account = codes[c].account
    /\ codes[c].status = "redeemed" => codes'[c].status = "redeemed"

Grows ==
  /\ LoginsGrow /\ CodesGrow /\ proved \subseteq proved'
  /\ now <= now' /\ secret <= secret'
  /\ \A b \in Browser : visits[b] <= visits'[b]

LEMMA LoginsAre ==
  ASSUME Base
  PROVE  /\ Len(logins) \in Nat /\ DOMAIN logins = 1..Len(logins)
         /\ \A s \in DOMAIN logins : logins[s] \in LoginType
<1>1. logins \in Seq(LoginType)
  BY DEF Base
<1> QED
  BY <1>1, LenProperties, ElementOfSeq

LEMMA CodesAre ==
  ASSUME Base
  PROVE  /\ Len(codes) \in Nat /\ DOMAIN codes = 1..Len(codes)
         /\ \A c \in DOMAIN codes : codes[c] \in CodeType
<1>1. codes \in Seq(CodeType)
  BY DEF Base
<1> QED
  BY <1>1, LenProperties, ElementOfSeq

LEMMA LoginAppended ==
  ASSUME Base, NEW l \in LoginType, logins' = Append(logins, l)
  PROVE  /\ logins' \in Seq(LoginType) /\ Len(logins') = Len(logins) + 1
         /\ DOMAIN logins' = DOMAIN logins \cup {Len(logins) + 1}
         /\ logins'[Len(logins) + 1] = l
         /\ \A s \in DOMAIN logins : logins'[s] = logins[s]
<1>1. logins \in Seq(LoginType)
  BY DEF Base
<1>2. /\ logins' \in Seq(LoginType) /\ Len(logins') = Len(logins) + 1
      /\ logins'[Len(logins) + 1] = l
      /\ \A s \in 1..Len(logins) : logins'[s] = logins[s]
  BY <1>1, AppendProperties
<1>3. DOMAIN logins' = 1..Len(logins')
  BY <1>2, LenProperties
<1> QED
  BY <1>2, <1>3, LoginsAre

LEMMA LoginChanged ==
  ASSUME Base, NEW s \in DOMAIN logins, NEW l \in LoginType, logins' = [logins EXCEPT ![s] = l]
  PROVE  /\ logins' \in Seq(LoginType) /\ Len(logins') = Len(logins)
         /\ DOMAIN logins' = DOMAIN logins
         /\ logins'[s] = l
         /\ \A t \in DOMAIN logins : t # s => logins'[t] = logins[t]
<1>1. logins \in Seq(LoginType) /\ s \in 1..Len(logins)
  BY LoginsAre DEF Base
<1>2. /\ logins' \in Seq(LoginType) /\ Len(logins') = Len(logins)
      /\ \A t \in 1..Len(logins) : logins'[t] = IF t = s THEN l ELSE logins[t]
  BY <1>1, ExceptSeq
<1>3. DOMAIN logins' = 1..Len(logins')
  BY <1>2, LenProperties
<1> QED
  BY <1>1, <1>2, <1>3, LoginsAre

LEMMA LoginReached ==
  ASSUME Base, NEW s \in DOMAIN logins, logins' = [logins EXCEPT ![s].reached = TRUE]
  PROVE  /\ logins' \in Seq(LoginType) /\ Len(logins') = Len(logins)
         /\ DOMAIN logins' = DOMAIN logins
         /\ logins'[s].reached
         /\ \A t \in DOMAIN logins : t # s => logins'[t] = logins[t]
         /\ logins'[s].by = logins[s].by /\ logins'[s].next = logins[s].next
         /\ logins'[s].at = logins[s].at
<1>1. logins[s] \in LoginType
  BY LoginsAre
<1>2. PICK l \in LoginType :
        /\ l.reached /\ l.by = logins[s].by /\ l.next = logins[s].next /\ l.at = logins[s].at
        /\ logins' = [logins EXCEPT ![s] = l]
  <2> DEFINE l == [logins[s] EXCEPT !.reached = TRUE]
  <2>1. /\ l \in LoginType /\ l.reached
        /\ l.by = logins[s].by /\ l.next = logins[s].next /\ l.at = logins[s].at
    BY <1>1 DEF LoginType
  <2>2. logins' = [logins EXCEPT ![s] = l]
    OBVIOUS
  <2> QED
    BY <2>1, <2>2
<1> QED
  BY <1>2, LoginChanged

LEMMA CodeAppended ==
  ASSUME Base, NEW k \in CodeType, codes' = Append(codes, k)
  PROVE  /\ codes' \in Seq(CodeType)
         /\ DOMAIN codes' = DOMAIN codes \cup {Len(codes) + 1}
         /\ codes'[Len(codes) + 1] = k
         /\ \A c \in DOMAIN codes : codes'[c] = codes[c]
<1>1. codes \in Seq(CodeType)
  BY DEF Base
<1>2. /\ codes' \in Seq(CodeType) /\ Len(codes') = Len(codes) + 1
      /\ codes'[Len(codes) + 1] = k
      /\ \A c \in 1..Len(codes) : codes'[c] = codes[c]
  BY <1>1, AppendProperties
<1>3. DOMAIN codes' = 1..Len(codes')
  BY <1>2, LenProperties
<1> QED
  BY <1>2, <1>3, CodesAre

LEMMA CodeChanged ==
  ASSUME Base, NEW c \in DOMAIN codes, NEW k \in CodeType, codes' = [codes EXCEPT ![c] = k]
  PROVE  /\ codes' \in Seq(CodeType)
         /\ DOMAIN codes' = DOMAIN codes
         /\ codes'[c] = k
         /\ \A d \in DOMAIN codes : d # c => codes'[d] = codes[d]
<1>1. codes \in Seq(CodeType) /\ c \in 1..Len(codes)
  BY CodesAre DEF Base
<1>2. /\ codes' \in Seq(CodeType) /\ Len(codes') = Len(codes)
      /\ \A d \in 1..Len(codes) : codes'[d] = IF d = c THEN k ELSE codes[d]
  BY <1>1, ExceptSeq
<1>3. DOMAIN codes' = 1..Len(codes')
  BY <1>2, LenProperties
<1> QED
  BY <1>1, <1>2, <1>3, CodesAre

-----------------------------------------------------------------------------
(* What a step leaves as it was.                                           *)

LEMMA Clocks ==
  ASSUME Base, Base', Grows
  PROVE  /\ now \in Nat /\ now' \in Nat /\ now <= now'
         /\ \A b \in Browser :
              visits[b] \in Nat /\ visits'[b] \in Nat /\ visits[b] <= visits'[b]
BY DEF Base, Grows

LEMMA IdleIs ==
  /\ DOMAIN Idle = Fields /\ Idle.pc = "idle" /\ Idle.status = 0
  /\ Idle.cookies = Unchanged /\ Idle.login = 0
  /\ DOMAIN Unchanged = {}
<1>1. DOMAIN Unchanged = {}
  BY DEF Unchanged
<1> QED
  BY <1>1 DEF Idle, Answer, Fields

LEMMA ProofKept ==
  ASSUME Base, Base', Grows, NEW value, NEW b, \E p \in proved : Proves(p, value, b)
  PROVE  (\E p \in proved : Proves(p, value, b))'
<1> PICK p \in proved : Proves(p, value, b)
  OBVIOUS
<1>1. p.login \in DOMAIN logins
  BY DEF Base
<1>2. p \in proved'
  BY DEF Grows
<1>3. logins'[p.login].by = b
  BY <1>1 DEF Proves, Grows, LoginsGrow
<1> QED
  BY <1>2, <1>3 DEF Proves

LEMMA JarKept ==
  ASSUME Base, Base', Grows, NEW b \in Browser, AllJar(b), DOMAIN jar'[b] = Names,
         jar'[b].session \subseteq jar[b].session, jar'[b].state \subseteq jar[b].state
  PROVE  AllJar(b)'
<1>1. JarTyped(b)'
  BY DEF AllJar, JarTyped
<1>2. \A k \in jar'[b].state : Begun(k.value, b)'
  BY DEF AllJar, JarGood, Begun, Grows, LoginsGrow
<1>3. ASSUME NEW k \in jar'[b].session
      PROVE  (\E p \in proved : Proves(p, k.value, b))'
  BY ProofKept DEF AllJar, JarGood
<1>4. ASSUME NEW k \in jar'[b].session
      PROVE  k.value.exp <= k.until /\ k.value.key <= secret'
  <2>1. /\ k.value.exp <= k.until /\ k.value.key <= secret
        /\ k.value.key \in Nat /\ secret \in Nat /\ secret' \in Nat /\ secret <= secret'
    BY DEF AllJar, JarGood, JarTyped, SessionValue, Grows, Base
  <2> QED
    BY <2>1
<1> QED
  BY <1>1, <1>2, <1>3, <1>4 DEF AllJar, JarGood

LEMMA OwnStateKept ==
  ASSUME Grows, NEW w, NEW to, OwnState(w, to)
  PROVE  OwnState(w, to)'
BY DEF OwnState, Grows, LoginsGrow

LEMMA WorkKept ==
  ASSUME Base, Base', Grows, NEW h \in Handler, AllWork(h), work'[h] = work[h], secret' = secret
  PROVE  AllWork(h)'
<1> DEFINE w == work[h]
<1>0. WorkTyped(h) /\ WorkGood(h) /\ Came(h) /\ Excused(h)
  BY DEF AllWork
<1>1. WorkTyped(h)'
  <2>1. w.pc = "fetching" => codes'[w.code].status = "redeemed"
    BY <1>0 DEF WorkTyped, WorkGood, Grows, CodesGrow
  <2> QED
    BY <1>0, <2>1 DEF WorkTyped
<1>2. WorkGood(h)'
  <2>1. w.pc \in {"exchanging", "fetching"} =>
          w.code \in DOMAIN codes' /\ OwnState(w, w.next)'
    BY <1>0, OwnStateKept DEF WorkGood, Grows, CodesGrow
  <2>2. w.login # 0 =>
           /\ w.login \in DOMAIN logins' /\ logins'[w.login].by = w.browser
           /\ w.cookies = [state |-> {Cookie([state |-> w.login,
                                  next |-> SafeNext(logins'[w.login].next)], StateTTL)}]
    BY <1>0 DEF WorkGood, Grows, LoginsGrow
  <2>3. ASSUME "session" \in DOMAIN w.cookies, NEW k \in w.cookies.session
        PROVE  /\ k.ttl = SessionTTL /\ k.value.exp <= now' + k.ttl /\ k.value.key = secret'
               /\ OwnState(w, w.to)' /\ (\E p \in proved : Proves(p, k.value, w.browser))'
    <3>1. /\ k.ttl = SessionTTL /\ k.value.exp <= now + k.ttl /\ k.value.key = secret
          /\ OwnState(w, w.to) /\ \E p \in proved : Proves(p, k.value, w.browser)
      BY <1>0, <2>3 DEF WorkGood
    <3>2. k.value.exp \in Nat
      BY <1>0, <2>3 DEF WorkTyped, SessionValue
    <3>3. OwnState(w, w.to)' /\ (\E p \in proved : Proves(p, k.value, w.browser))'
      BY <3>1, OwnStateKept, ProofKept
    <3>4. now \in Nat /\ now' \in Nat /\ now <= now'
      BY DEF Base, Grows
    <3> QED
      BY <3>1, <3>2, <3>3, <3>4, LifetimeAssumption
  <2> QED
    BY <1>0, <2>1, <2>2, <2>3 DEF WorkGood
<1>3. Came(h)'
  <2>1. (\/ w.pc \in {"exchanging", "fetching"}
         \/ "state" \in DOMAIN w.cookies /\ w.cookies.state = {}) => w.browser \in Browser
    BY <1>0, IdleIs DEF WorkGood
  <2>2. \A b \in Browser : visits[b] \in Nat /\ visits'[b] \in Nat /\ visits[b] <= visits'[b]
    BY DEF Base, Grows
  <2> QED
    BY <1>0, <2>1, <2>2 DEF Came
<1>4. Excused(h)'
  <2> SUFFICES ASSUME w.status = 400
               PROVE  /\ w.state \in DOMAIN logins'
                      /\ \/ visits'[w.browser] > 1
                         \/ logins'[w.state].by # w.browser
                         \/ ~Sole(w.state)'
                         \/ now' > logins'[w.state].at + StateTTL
    BY <1>0 DEF Excused
  <2> DEFINE s == w.state
  <2>1. /\ s \in DOMAIN logins
        /\ \/ visits[w.browser] > 1
           \/ logins[s].by # w.browser
           \/ ~Sole(s)
           \/ now > logins[s].at + StateTTL
    BY <1>0 DEF Excused
  <2>2. /\ logins[s] \in LoginType /\ s \in DOMAIN logins'
        /\ logins'[s].by = logins[s].by /\ logins'[s].at = logins[s].at
    BY <2>1, LoginsAre DEF Grows, LoginsGrow
  <2>3. w.browser \in Browser
    <3>1. w.pc # "idle"
      BY <1>0, IdleIs DEF WorkGood
    <3> QED
      BY <1>0, <3>1 DEF WorkGood
  <2>4. /\ visits[w.browser] \in Nat /\ visits'[w.browser] \in Nat
        /\ visits[w.browser] <= visits'[w.browser]
        /\ now \in Nat /\ now' \in Nat /\ now <= now'
    BY <2>3, Clocks
  <2>5. ~Sole(s) => ~Sole(s)'
    BY <2>2 DEF Sole, Grows, LoginsGrow
  <2>6. logins[s].at + StateTTL \in Nat
    BY <2>2, LifetimeAssumption DEF LoginType
  <2> HIDE DEF s, w
  <2> QED
    BY <2>1, <2>2, <2>4, <2>5, <2>6 DEF s
<1> QED
  BY <1>1, <1>2, <1>3, <1>4 DEF AllWork

LEMMA AwaitedKept ==
  ASSUME Base, Base', Grows, NEW s \in DOMAIN logins, Awaited(s),
         logins'[s].reached = logins[s].reached,
         jar'[logins[s].by].state = jar[logins[s].by].state
  PROVE  Awaited(s)'
<1>1. /\ logins[s] \in LoginType
      /\ logins'[s].by = logins[s].by /\ logins'[s].at = logins[s].at
  BY LoginsAre DEF Grows, LoginsGrow
<1>2. /\ now \in Nat /\ now' \in Nat /\ now <= now'
      /\ logins[s].at \in Nat /\ logins[s].at + StateTTL \in Nat
      /\ visits[logins[s].by] \in Nat /\ visits'[logins[s].by] \in Nat
      /\ visits[logins[s].by] <= visits'[logins[s].by]
  <2>1. logins[s].by \in Browser /\ logins[s].at \in Nat
    BY <1>1 DEF LoginType
  <2> QED
    BY <2>1, Clocks, LifetimeAssumption
<1>3. Sole(s)' => Sole(s)
  BY <1>1 DEF Sole, Grows, LoginsGrow
<1>4. logins[s].at <= now'
  BY <1>2 DEF Awaited
<1>5. ASSUME logins'[s].reached, Sole(s)', visits'[logins[s].by] = 0,
             now' <= logins[s].at + StateTTL
      PROVE  LET cookies == jar'[logins[s].by].state
             IN  /\ cookies # {}
                 /\ \A k \in cookies : k.value.state = s /\ logins[s].at + StateTTL <= k.until
  <2>1. logins[s].reached /\ Sole(s) /\ visits[logins[s].by] = 0 /\ now <= logins[s].at + StateTTL
    BY <1>2, <1>3, <1>5
  <2> QED
    BY <2>1 DEF Awaited
<1> QED
  BY <1>1, <1>4, <1>5 DEF Awaited

LEMMA Rests ==
  ASSUME NEW h \in Handler, work'[h] = Idle
  PROVE  AllWork(h)'
<1>1. WorkTyped(h)'
  BY IdleIs DEF WorkTyped
<1>2. WorkGood(h)'
  BY IdleIs DEF WorkGood
<1>3. Came(h)'
  BY IdleIs DEF Came
<1>4. Excused(h)'
  BY IdleIs DEF Excused
<1> QED
  BY <1>1, <1>2, <1>3, <1>4 DEF AllWork

LEMMA GrowsByDefault ==
  ASSUME Base
  PROVE  /\ UNCHANGED logins => LoginsGrow
         /\ UNCHANGED codes => CodesGrow
         /\ LoginsGrow /\ CodesGrow /\ proved \subseteq proved' /\ UNCHANGED <<now, secret, visits>>
              => Grows
<1>1. UNCHANGED logins => LoginsGrow
  BY DEF LoginsGrow
<1>2. UNCHANGED codes => CodesGrow
  BY DEF CodesGrow
<1>3. now <= now /\ secret <= secret /\ \A b \in Browser : visits[b] <= visits[b]
  BY DEF Base
<1> QED
  BY <1>1, <1>2, <1>3 DEF Grows

\* A handler that was not at rest stays what it is, but for the one that moves.
LEMMA OthersKept ==
  ASSUME Inv, Base', Grows, UNCHANGED secret, NEW h \in Handler,
         NEW w, work' = [work EXCEPT ![h] = w], AllWork(h)'
  PROVE  \A g \in Handler : AllWork(g)'
<1>1. ASSUME NEW g \in Handler, g # h PROVE AllWork(g)'
  <2>1. work'[g] = work[g]
    BY <1>1 DEF Inv, Base
  <2> QED
    BY <2>1, WorkKept DEF Inv
<1> QED
  BY <1>1

LEMMA JarsKept ==
  ASSUME Inv, Base', Grows, UNCHANGED jar
  PROVE  \A b \in Browser : AllJar(b)'
BY JarKept DEF Inv, AllJar, JarTyped

LEMMA AwaitingKept ==
  ASSUME Inv, Base', Grows, UNCHANGED jar,
         \A s \in DOMAIN logins' : s \in DOMAIN logins /\ logins'[s].reached = logins[s].reached
  PROVE  \A s \in DOMAIN logins' : Awaited(s)'
<1> SUFFICES ASSUME NEW s \in DOMAIN logins' PROVE Awaited(s)'
  OBVIOUS
<1> QED
  BY AwaitedKept DEF Inv

\* Steps that change the work of one handler and no more than GitHub's part besides.
LEMMA WorkAndCodes ==
  ASSUME Inv, Base', CodesGrow, proved \subseteq proved',
         UNCHANGED <<now, secret, jar, logins, visits>>,
         NEW h \in Handler, NEW w, work' = [work EXCEPT ![h] = w], AllWork(h)'
  PROVE  Inv'
<1>1. Base /\ Grows
  BY GrowsByDefault DEF Inv
<1>2. \A g \in Handler : AllWork(g)'
  BY <1>1, OthersKept
<1>3. \A b \in Browser : AllJar(b)'
  BY <1>1, JarsKept
<1>4. \A s \in DOMAIN logins' : Awaited(s)'
  BY <1>1, AwaitingKept
<1> QED
  BY <1>2, <1>3, <1>4 DEF Inv

LEMMA OnlyWork ==
  ASSUME Inv, UNCHANGED <<now, configured, secret, jar, logins, codes, proved, visits>>,
         NEW h \in Handler, NEW w, work' = [work EXCEPT ![h] = w], AllWork(h)'
  PROVE  Inv'
<1>1. Base
  BY DEF Inv
<1>2. Base'
  <2>1. DOMAIN work' = Handler /\ work' = [g \in Handler |-> work'[g]]
    BY <1>1 DEF Base
  <2> QED
    BY <1>1, <2>1 DEF Base
<1>3. CodesGrow /\ proved \subseteq proved'
  BY <1>1, GrowsByDefault
<1> QED
  BY <1>2, <1>3, WorkAndCodes

-----------------------------------------------------------------------------
(* The steps, action by action.                                            *)

LEMMA LoginAnswer ==
  ASSUME NEW h \in Handler, NEW w, work'[h] = w,
         DOMAIN w = Fields, w.pc = "answering", w.browser \in Browser, w.status # 400,
         w.login # 0, w.login \in DOMAIN Asked, w.login \in DOMAIN logins',
         logins'[w.login].by = w.browser,
         w.cookies = [state |-> {Cookie([state |-> w.login,
                                         next |-> SafeNext(logins'[w.login].next)], StateTTL)}]
  PROVE  AllWork(h)'
<1> DEFINE k == Cookie([state |-> w.login, next |-> SafeNext(logins'[w.login].next)], StateTTL)
<1>1. DOMAIN w.cookies = {"state"} /\ w.cookies.state = {k}
  OBVIOUS
<1>2. k.value \in StateValue
  BY SafeNextType DEF StateValue, Cookie
<1> HIDE DEF k
<1>3. WorkTyped(h)'
  BY <1>1, <1>2 DEF WorkTyped, Names
<1>4. WorkGood(h)'
  BY <1>1 DEF WorkGood
<1>5. Came(h)' /\ Excused(h)'
  BY <1>1 DEF Came, Excused
<1> QED
  BY <1>3, <1>4, <1>5 DEF AllWork

LEMMA LoginKeeps ==
  ASSUME Inv, NEW h \in Handler, NEW b \in Browser, HandleLogin(h, b)
  PROVE  Inv'
<1> DEFINE s == Len(logins) + 1
           l == [by |-> b, next |-> Asked[s], at |-> now, reached |-> FALSE]
           k == Cookie([state |-> s, next |-> SafeNext(Asked[s])], StateTTL)
           w == Answer(b, 302, [state |-> {k}], s, "nowhere")
<1>1. Base /\ Len(logins) \in Nat /\ DOMAIN logins = 1..Len(logins)
  BY LoginsAre DEF Inv
<1>2. /\ s <= Len(Asked) /\ logins' = Append(logins, l)
      /\ work' = [work EXCEPT ![h] = w]
      /\ UNCHANGED <<now, configured, secret, jar, codes, proved, visits>>
  BY DEF HandleLogin, Begin
<1>3. s \in DOMAIN Asked /\ s # 0 /\ l \in LoginType
  <2>1. DOMAIN Asked = 1..Len(Asked) /\ Len(Asked) \in Nat
    BY AskedAssumption, LenProperties
  <2>2. s \in Nat /\ s # 0 /\ s <= Len(Asked)
    BY <1>1, <1>2
  <2>3. s \in DOMAIN Asked
    BY <2>1, <2>2
  <2> HIDE DEF s
  <2> QED
    BY <1>1, <2>2, <2>3 DEF LoginType, ToSet, Base
<1>4. l.by = b /\ l.next = Asked[s] /\ l.at = now /\ ~l.reached
  OBVIOUS
<1> HIDE DEF l
<1>5. /\ logins' \in Seq(LoginType) /\ Len(logins') = s
      /\ DOMAIN logins' = DOMAIN logins \cup {s}
      /\ logins'[s] = l /\ \A t \in DOMAIN logins : logins'[t] = logins[t]
  BY <1>1, <1>2, <1>3, LoginAppended
<1> HIDE DEF s, w, k
<1>6. Base'
  <2>1. DOMAIN work' = Handler /\ work' = [g \in Handler |-> work'[g]]
    BY <1>1, <1>2 DEF Base
  <2> QED
    BY <1>1, <1>2, <1>5, <2>1 DEF Base
<1>7. Grows
  <2>1. LoginsGrow
    <3>1. \A t \in DOMAIN logins : t \in DOMAIN logins' /\ logins'[t] = logins[t]
      BY <1>5
    <3> QED
      BY <3>1 DEF LoginsGrow
  <2> QED
    BY <1>1, <1>2, <2>1, GrowsByDefault
<1>8. AllWork(h)'
  <2>1. work'[h] = w /\ s \in DOMAIN logins'
    BY <1>1, <1>2, <1>5 DEF Base
  <2>2. logins'[s].by = b /\ logins'[s].next = Asked[s]
    BY <1>4, <1>5
  <2>3. /\ DOMAIN w = Fields /\ w.pc = "answering" /\ w.browser = b /\ w.status # 400
        /\ w.login = s /\ w.cookies = [state |-> {k}]
    BY DEF w, Answer, Fields
  <2> QED
    BY <1>3, <2>1, <2>2, <2>3, LoginAnswer DEF k
<1>9. \A g \in Handler : AllWork(g)'
  BY <1>2, <1>6, <1>7, <1>8, OthersKept
<1>10. \A t \in DOMAIN logins' : Awaited(t)'
  <2>1. ASSUME NEW t \in DOMAIN logins PROVE Awaited(t)'
    <3>1. logins'[t].reached = logins[t].reached
      BY <1>5
    <3> QED
      BY <1>1, <1>2, <1>6, <1>7, <3>1, AwaitedKept DEF Inv
  <2>2. ASSUME NEW t, t = s PROVE Awaited(t)'
    <3>1. now <= now /\ now' = now
      BY <1>1, <1>2 DEF Base
    <3>2. logins'[t].at = now /\ ~logins'[t].reached
      BY <1>4, <1>5, <2>2
    <3> QED
      BY <3>1, <3>2 DEF Awaited
  <2> QED
    BY <1>5, <2>1, <2>2
<1> QED
  BY <1>2, <1>6, <1>7, <1>9, <1>10, JarsKept DEF Inv

LEMMA LogoutKeeps ==
  ASSUME Inv, NEW h \in Handler, NEW b \in Browser, HandleLogout(h, b)
  PROVE  Inv'
<1> DEFINE w == Answer(b, 302, [session |-> {}], 0, "/")
<1>1. /\ work' = [work EXCEPT ![h] = w]
      /\ UNCHANGED <<now, configured, secret, jar, logins, codes, proved, visits>>
  BY DEF HandleLogout, Begin
<1>2. /\ DOMAIN w = Fields /\ w.pc = "answering" /\ w.browser = b /\ w.status # 400
      /\ w.login = 0 /\ w.cookies = [session |-> {}]
  BY DEF Answer, Fields
<1> HIDE DEF w
<1>3. DOMAIN w.cookies = {"session"} /\ w.cookies.session = {}
  BY <1>2
<1>4. work'[h] = w
  BY <1>1 DEF Inv, Base
<1>5. AllWork(h)'
  <2>1. WorkTyped(h)'
    BY <1>2, <1>3, <1>4 DEF WorkTyped, Names
  <2>2. WorkGood(h)'
    BY <1>2, <1>3, <1>4 DEF WorkGood
  <2>3. Came(h)' /\ Excused(h)'
    BY <1>2, <1>3, <1>4 DEF Came, Excused
  <2> QED
    BY <2>1, <2>2, <2>3 DEF AllWork
<1> QED
  BY <1>1, <1>5, OnlyWork

LEMMA LoseKeeps ==
  ASSUME Inv, NEW h \in Handler, Lose(h)
  PROVE  Inv'
<1>1. /\ work' = [work EXCEPT ![h] = Idle]
      /\ UNCHANGED <<now, configured, secret, jar, logins, codes, proved, visits>>
  BY DEF Lose
<1>2. work'[h] = Idle
  BY <1>1 DEF Inv, Base
<1> QED
  BY <1>1, <1>2, Rests, OnlyWork

LEMMA ConsentKeeps ==
  ASSUME Inv, NEW a \in Account, Consent(a)
  PROVE  Inv'
<1> DEFINE k == [account |-> a, status |-> "fresh"]
<1>1. /\ codes' = Append(codes, k)
      /\ UNCHANGED <<now, configured, secret, jar, logins, proved, visits, work>>
  BY DEF Consent
<1>2. Base /\ k \in CodeType
  BY DEF Inv, CodeType
<1> HIDE DEF k
<1>3. codes' \in Seq(CodeType) /\ \A c \in DOMAIN codes : c \in DOMAIN codes' /\ codes'[c] = codes[c]
  BY <1>1, <1>2, CodeAppended
<1>4. Base'
  BY <1>1, <1>2, <1>3 DEF Base
<1>5. Grows
  <2>1. CodesGrow
    BY <1>3 DEF CodesGrow
  <2> QED
    BY <1>1, <1>2, <2>1, GrowsByDefault
<1>6. \A h \in Handler : AllWork(h)'
  BY <1>1, <1>4, <1>5, WorkKept DEF Inv
<1>7. \A t \in DOMAIN logins' : Awaited(t)'
  BY <1>1, <1>4, <1>5, AwaitingKept
<1> QED
  BY <1>1, <1>4, <1>5, <1>6, <1>7, JarsKept DEF Inv

\* The only way to miss the state cookie on a first return.
LEMMA Misses ==
  ASSUME Inv, NEW b \in Browser, NEW s \in DOMAIN logins, logins[s].reached,
         jar[b].state = {} \/ \E k \in jar[b].state : ~ Matches(k, s)
  PROVE  \/ visits[b] > 0
         \/ logins[s].by # b
         \/ ~Sole(s)
         \/ now > logins[s].at + StateTTL
<1>1. Awaited(s) /\ logins[s].at \in Nat /\ now \in Nat /\ visits[b] \in Nat
  BY LoginsAre DEF Inv, Base, LoginType
<1>2. (/\ logins[s].by = b /\ Sole(s) /\ visits[b] = 0 /\ now <= logins[s].at + StateTTL)
        => jar[b].state # {} /\ \A k \in jar[b].state : k.value.state = s
  BY <1>1 DEF Awaited
<1>3. logins[s].at + StateTTL \in Nat
  BY <1>1, LifetimeAssumption
<1> QED
  BY <1>1, <1>2, <1>3 DEF Matches

LEMMA RefusedAnswer ==
  ASSUME Base', NEW h \in Handler, NEW w, work'[h] = w, visits'[w.browser] > 0,
         DOMAIN w = Fields, w.pc = "answering", w.browser \in Browser,
         w.login = 0, w.cookies = Unchanged \/ w.cookies = [state |-> {}],
         Excused(h)'
  PROVE  AllWork(h)'
<1>1. DOMAIN w.cookies \subseteq {"state"} /\ ("state" \in DOMAIN w.cookies => w.cookies.state = {})
  BY IdleIs
<1>2. WorkTyped(h)'
  BY <1>1 DEF WorkTyped, Names
<1>3. WorkGood(h)'
  BY <1>1 DEF WorkGood
<1>4. Came(h)'
  BY DEF Came
<1> QED
  BY <1>2, <1>3, <1>4 DEF AllWork

LEMMA CallbackKeeps ==
  ASSUME Inv, NEW h \in Handler, NEW b \in Browser, NEW s \in DOMAIN logins,
         NEW c \in DOMAIN codes, HandleCallback(h, b, s, c)
  PROVE  Inv'
<1>1. /\ visits' = [visits EXCEPT ![b] = @ + 1]
      /\ UNCHANGED <<now, configured, secret, jar, logins, codes, proved>>
      /\ logins[s].reached
      /\ \E w : work' = [work EXCEPT ![h] = w]
  BY DEF HandleCallback, Begin
<1>2. Base /\ visits[b] \in Nat /\ visits'[b] = visits[b] + 1
  BY <1>1 DEF Inv, Base
<1>3. Base'
  <2>1. DOMAIN work' = Handler /\ work' = [g \in Handler |-> work'[g]]
    BY <1>1, <1>2 DEF Base
  <2>2. visits' \in [Browser -> Nat]
    BY <1>1, <1>2 DEF Base
  <2> QED
    BY <1>1, <1>2, <2>1, <2>2 DEF Base
<1>4. Grows
  <2>1. \A x \in Browser : visits[x] <= visits'[x]
    BY <1>1, <1>2 DEF Base
  <2>2. now <= now' /\ secret <= secret'
    BY <1>1, <1>2 DEF Base
  <2> QED
    BY <1>1, <1>2, <2>1, <2>2, GrowsByDefault DEF Grows
<1>5. AllWork(h)'
  <2>1. ASSUME NEW cookies \in {Unchanged, [state |-> {}]},
               work' = [work EXCEPT ![h] = BadRequest(b, s, cookies)],
               jar[b].state = {} \/ \E k \in jar[b].state : ~ Matches(k, s)
        PROVE  AllWork(h)'
    <3> DEFINE w == BadRequest(b, s, cookies)
    <3>2. /\ DOMAIN w = Fields /\ w.pc = "answering" /\ w.browser = b /\ w.login = 0
          /\ w.cookies = cookies /\ w.state = s
      BY DEF BadRequest, Answer, Fields
    <3> HIDE DEF w
    <3>3. work'[h] = w
      BY <1>2, <2>1 DEF Base, w
    <3>4. Excused(h)'
      <4>1. \/ visits'[b] > 1
            \/ logins[s].by # b
            \/ ~Sole(s)
            \/ now > logins[s].at + StateTTL
        BY <1>1, <1>2, <2>1, Misses
      <4>2. Sole(s)' <=> Sole(s)
        BY <1>1 DEF Sole
      <4> QED
        BY <1>1, <3>2, <3>3, <4>1, <4>2 DEF Excused
    <3>5. visits'[w.browser] > 0
      BY <1>2, <3>2
    <3> QED
      BY <1>3, <2>1, <3>2, <3>3, <3>4, <3>5, RefusedAnswer
  <2>2. CASE \E k \in jar[b].state :
               /\ Matches(k, s)
               /\ work' = [work EXCEPT ![h] =
                    [Answer(b, 0, Unchanged, 0, "nowhere") EXCEPT
                       !.pc = "exchanging", !.state = s, !.code = c, !.next = k.value.next]]
    <3>1. PICK k \in jar[b].state :
               /\ Matches(k, s)
               /\ work' = [work EXCEPT ![h] =
                    [Answer(b, 0, Unchanged, 0, "nowhere") EXCEPT
                       !.pc = "exchanging", !.state = s, !.code = c, !.next = k.value.next]]
      BY <2>2
    <3> DEFINE w == [Answer(b, 0, Unchanged, 0, "nowhere") EXCEPT
                       !.pc = "exchanging", !.state = s, !.code = c, !.next = k.value.next]
    <3>2. /\ DOMAIN w = Fields /\ w.pc = "exchanging" /\ w.browser = b /\ w.login = 0
          /\ w.status = 0 /\ w.cookies = Unchanged /\ w.state = s /\ w.code = c /\ w.next = k.value.next
      BY DEF Answer, Fields
    <3> HIDE DEF w
    <3>3. work'[h] = w
      BY <1>2, <3>1 DEF Base, w
    <3>4. OwnState(w, w.next)'
      <4>1. Begun(k.value, b)
        BY DEF Inv, AllJar, JarGood
      <4> QED
        BY <1>1, <3>1, <3>2, <4>1 DEF OwnState, Begun, Matches
    <3>5. WorkTyped(h)'
      BY <3>2, <3>3, IdleIs DEF WorkTyped
    <3>6. WorkGood(h)'
      BY <1>1, <3>2, <3>3, <3>4, IdleIs DEF WorkGood
    <3>7. Came(h)' /\ Excused(h)'
      BY <1>2, <3>2, <3>3 DEF Came, Excused
    <3> QED
      BY <3>5, <3>6, <3>7 DEF AllWork
  <2> QED
    BY <2>1, <2>2 DEF HandleCallback, Begin
<1>6. \A g \in Handler : AllWork(g)'
  BY <1>1, <1>3, <1>4, <1>5, OthersKept
<1>7. \A t \in DOMAIN logins' : Awaited(t)'
  BY <1>1, <1>3, <1>4, AwaitingKept
<1> QED
  BY <1>1, <1>3, <1>4, <1>6, <1>7, JarsKept DEF Inv

LEMMA GatewayAnswer ==
  ASSUME Inv, Base', NEW h \in Handler, NEW b \in Browser, visits'[b] > 0,
         work' = [work EXCEPT ![h] = BadGateway(b)]
  PROVE  AllWork(h)'
<1> DEFINE w == BadGateway(b)
<1>1. /\ DOMAIN w = Fields /\ w.pc = "answering" /\ w.browser = b /\ w.login = 0
      /\ w.cookies = [state |-> {}] /\ w.status # 400
  BY DEF BadGateway, Answer, Fields
<1>2. work'[h] = w
  BY DEF Inv, Base
<1> HIDE DEF w
<1>3. Excused(h)'
  BY <1>1, <1>2 DEF Excused
<1> QED
  BY <1>1, <1>2, <1>3, RefusedAnswer

LEMMA GatewayKeeps ==
  ASSUME Inv, NEW h \in Handler, NEW b \in Browser, visits[b] > 0,
         UNCHANGED <<now, configured, secret, jar, logins, codes, proved, visits>>,
         work' = [work EXCEPT ![h] = BadGateway(b)]
  PROVE  Inv'
<1>1. Base'
  <2>1. DOMAIN work' = Handler /\ work' = [g \in Handler |-> work'[g]]
    BY DEF Inv, Base
  <2> QED
    BY <2>1 DEF Inv, Base
<1> QED
  BY <1>1, GatewayAnswer, OnlyWork

LEMMA CodeMoves ==
  ASSUME Inv, NEW c \in DOMAIN codes, codes' = [codes EXCEPT ![c].status = "redeemed"],
         UNCHANGED <<now, configured, secret, jar, logins, proved, visits>>,
         NEW h \in Handler, NEW w, work' = [work EXCEPT ![h] = w]
  PROVE  Base' /\ CodesGrow /\ c \in DOMAIN codes' /\ codes'[c].status = "redeemed"
<1> DEFINE k == [codes[c] EXCEPT !.status = "redeemed"]
<1>1. Base
  BY DEF Inv
<1>2. k \in CodeType /\ k.account = codes[c].account /\ k.status = "redeemed"
  BY <1>1, CodesAre DEF CodeType
<1>3. codes' = [codes EXCEPT ![c] = k]
  OBVIOUS
<1> HIDE DEF k
<1>4. /\ codes' \in Seq(CodeType) /\ DOMAIN codes' = DOMAIN codes /\ codes'[c] = k
      /\ \A d \in DOMAIN codes : d # c => codes'[d] = codes[d]
  BY <1>1, <1>2, <1>3, CodeChanged
<1>5. Base'
  <2>1. DOMAIN work' = Handler /\ work' = [g \in Handler |-> work'[g]]
    BY <1>1 DEF Base
  <2> QED
    BY <1>1, <1>4, <2>1 DEF Base
<1>6. CodesGrow
  BY <1>2, <1>4 DEF CodesGrow
<1> QED
  BY <1>2, <1>4, <1>5, <1>6

LEMMA ExchangeKeeps ==
  ASSUME Inv, NEW h \in Handler, Exchange(h)
  PROVE  Inv'
<1> DEFINE w == work[h]
           c == w.code
<1>1. /\ Base /\ AllWork(h) /\ w.pc = "exchanging"
      /\ UNCHANGED <<now, configured, secret, jar, logins, proved, visits>>
  BY DEF Exchange, Inv
<1>2. /\ c \in DOMAIN codes /\ OwnState(w, w.next) /\ w.browser \in Browser
      /\ visits[w.browser] > 0 /\ w.cookies = Unchanged /\ w.login = 0 /\ w.status = 0
      /\ DOMAIN w = Fields
  BY <1>1 DEF AllWork, WorkTyped, WorkGood, Came
<1> HIDE DEF w
<1>3. CASE /\ codes' = [codes EXCEPT ![c].status = "redeemed"]
           /\ work' = [work EXCEPT ![h].pc = "fetching"]
  <2> DEFINE x == [w EXCEPT !.pc = "fetching"]
  <2>1. /\ DOMAIN x = Fields /\ x.pc = "fetching" /\ x.browser = w.browser /\ x.login = 0
        /\ x.status = 0 /\ x.cookies = Unchanged /\ x.state = w.state /\ x.code = c
        /\ x.next = w.next
    BY <1>2 DEF Fields
  <2>2. work' = [work EXCEPT ![h] = x]
    BY <1>3 DEF w
  <2> HIDE DEF x, c
  <2>3. Base' /\ CodesGrow /\ c \in DOMAIN codes' /\ codes'[c].status = "redeemed"
    BY <1>1, <1>2, <1>3, <2>2, CodeMoves
  <2>4. work'[h] = x
    BY <1>1, <2>2 DEF Base
  <2>5. /\ x.state \in DOMAIN logins' /\ logins'[x.state].by = x.browser
        /\ x.next = SafeNext(logins'[x.state].next)
    BY <1>1, <1>2, <2>1 DEF OwnState
  <2>6. WorkTyped(h)'
    BY <2>1, <2>3, <2>4, IdleIs DEF WorkTyped
  <2>7. WorkGood(h)'
    BY <1>2, <2>1, <2>3, <2>4, <2>5, IdleIs DEF WorkGood, OwnState
  <2>8. Came(h)' /\ Excused(h)'
    BY <1>1, <1>2, <2>1, <2>4 DEF Came, Excused
  <2>9. AllWork(h)'
    BY <2>6, <2>7, <2>8 DEF AllWork
  <2> QED
    BY <1>1, <2>2, <2>3, <2>9, WorkAndCodes
<1>4. CASE /\ codes' = [codes EXCEPT ![c].status = "redeemed"]
           /\ work' = [work EXCEPT ![h] = BadGateway(w.browser)]
  <2> HIDE DEF c
  <2>1. Base' /\ CodesGrow
    BY <1>1, <1>2, <1>4, CodeMoves
  <2>2. AllWork(h)'
    BY <1>1, <1>2, <1>4, <2>1, GatewayAnswer
  <2> QED
    BY <1>1, <1>4, <2>1, <2>2, WorkAndCodes
<1>5. CASE UNCHANGED codes /\ work' = [work EXCEPT ![h] = BadGateway(w.browser)]
  BY <1>1, <1>2, <1>5, GatewayKeeps
<1>6. \/ /\ codes' = [codes EXCEPT ![c].status = "redeemed"]
         /\ work' = [work EXCEPT ![h].pc = "fetching"]
      \/ /\ codes' = [codes EXCEPT ![c].status = "redeemed"]
         /\ work' = [work EXCEPT ![h] = BadGateway(w.browser)]
      \/ UNCHANGED codes /\ work' = [work EXCEPT ![h] = BadGateway(w.browser)]
  BY DEF Exchange, w
<1> QED
  BY <1>3, <1>4, <1>5, <1>6

LEMMA FetchAndSignKeeps ==
  ASSUME Inv, NEW h \in Handler, FetchAndSign(h)
  PROVE  Inv'
<1> DEFINE w == work[h]
           a == codes[w.code].account
           p == [account |-> a, login |-> w.state, at |-> now]
           s == SessionCookieFor(FetchEmail(a))
           x == [Answer(w.browser, 302, [state |-> {}, session |-> {s}], 0, SafeNext(w.next))
                   EXCEPT !.state = w.state]
<1>1. /\ Base /\ AllWork(h) /\ w.pc = "fetching"
      /\ UNCHANGED <<now, configured, secret, jar, logins, codes, visits>>
  BY DEF FetchAndSign, Inv
<1>2. /\ w.code \in DOMAIN codes /\ OwnState(w, w.next) /\ w.browser \in Browser
      /\ visits[w.browser] > 0
  BY <1>1 DEF AllWork, WorkTyped, WorkGood, Came
<1>3. now \in Nat /\ secret \in Nat /\ a \in Account
  BY <1>1, <1>2, CodesAre DEF CodeType, Base
<1>4. CASE /\ FetchEmail(a) # ""
           /\ proved' = proved \cup {p}
           /\ work' = [work EXCEPT ![h] = x]
  <2>1. /\ DOMAIN x = Fields /\ x.pc = "answering" /\ x.browser = w.browser /\ x.login = 0
        /\ x.status = 302 /\ x.state = w.state /\ x.to = SafeNext(w.next)
        /\ x.cookies = [state |-> {}, session |-> {s}]
    BY DEF Answer, Fields
  <2>2. /\ s.ttl = SessionTTL /\ s.value.email = FetchEmail(a)
        /\ s.value.exp = now + SessionTTL /\ s.value.key = secret
        /\ s.value = [email |-> FetchEmail(a), exp |-> now + SessionTTL, key |-> secret]
    BY DEF SessionCookieFor, Cookie
  <2>3. s.value \in SessionValue
    <3>1. FetchEmail(a) \in Email
      BY <1>3, <1>4, FetchedType
    <3>2. now + SessionTTL \in Nat
      BY <1>3, LifetimeAssumption
    <3> QED
      BY <1>3, <2>2, <3>1, <3>2 DEF SessionValue
  <2>4. p.account = a /\ p.login = w.state /\ p.at = now
    OBVIOUS
  <2> HIDE DEF x, s, p
  <2>5. Base'
    <3>1. DOMAIN work' = Handler /\ work' = [g \in Handler |-> work'[g]]
      BY <1>1, <1>4 DEF Base
    <3>2. w.state \in DOMAIN logins /\ now <= now
      BY <1>2, <1>3 DEF OwnState
    <3> QED
      BY <1>1, <1>3, <1>4, <2>4, <3>1, <3>2 DEF Base
  <2>6. work'[h] = x
    BY <1>1, <1>4 DEF Base
  <2>7. /\ DOMAIN x.cookies = {"state", "session"}
        /\ x.cookies.state = {} /\ x.cookies.session = {s}
    BY <2>1
  <2> HIDE DEF w, a
  <2>8. /\ x.state \in DOMAIN logins' /\ logins'[x.state].by = x.browser
        /\ x.to = SafeNext(logins'[x.state].next)
    <3>1. w.next \in LocalPath
      BY <1>2, SafeNextType DEF OwnState
    <3>2. x.to = w.next
      BY <2>1, <3>1 DEF SafeNext
    <3> QED
      BY <1>1, <1>2, <2>1, <3>2 DEF OwnState
  <2>9. /\ p \in proved' /\ logins'[p.login].by = w.browser
        /\ s.value.exp <= p.at + SessionTTL
        /\ MayBeNamed(s.value.email, p.account)
    <3>1. MayBeNamed(s.value.email, p.account)
      BY <1>3, <1>4, <2>2, <2>4, FetchedMayBeNamed
    <3>2. s.value.exp <= p.at + SessionTTL
      BY <1>3, <2>2, <2>4, LifetimeAssumption
    <3> QED
      BY <1>1, <1>2, <1>4, <2>4, <3>1, <3>2 DEF OwnState
  <2>10. s.value.exp <= now' + s.ttl
    BY <1>1, <1>3, <2>2, LifetimeAssumption
  <2>11. WorkTyped(h)'
    BY <2>1, <2>3, <2>6, <2>7 DEF WorkTyped, Names
  <2>12. WorkGood(h)'
    <3>1. OwnState(work[h], work[h].to)'
      BY <2>6, <2>8 DEF OwnState
    <3>2. ASSUME NEW k, k = s PROVE (\E q \in proved : Proves(q, k.value, work[h].browser))'
      BY <2>1, <2>6, <2>9, <3>2 DEF Proves
    <3>3. work'[h].cookies.session = {s} /\ work'[h].cookies.state = {}
      BY <2>6, <2>7
    <3> QED
      BY <1>1, <1>2, <2>1, <2>2, <2>6, <2>10, <3>1, <3>2, <3>3 DEF WorkGood
  <2>13. Came(h)' /\ Excused(h)'
    BY <1>1, <1>2, <2>1, <2>6 DEF Came, Excused
  <2>14. AllWork(h)'
    BY <2>11, <2>12, <2>13 DEF AllWork
  <2>15. CodesGrow /\ proved \subseteq proved'
    BY <1>1, <1>4, GrowsByDefault
  <2> QED
    BY <1>1, <1>4, <2>5, <2>14, <2>15, WorkAndCodes
<1>5. CASE UNCHANGED proved /\ work' = [work EXCEPT ![h] = BadGateway(w.browser)]
  BY <1>1, <1>2, <1>5, GatewayKeeps
<1>6. \/ /\ FetchEmail(a) # ""
         /\ proved' = proved \cup {p}
         /\ work' = [work EXCEPT ![h] = x]
      \/ UNCHANGED proved /\ work' = [work EXCEPT ![h] = BadGateway(w.browser)]
  BY DEF FetchAndSign
<1> QED
  BY <1>4, <1>5, <1>6

\* The jar of the browser whose answer comes in.
LEMMA JarFilled ==
  ASSUME Inv, Base', Grows, UNCHANGED <<now, secret>>, NEW h \in Handler, NEW b \in Browser,
         work[h].browser = b, DOMAIN jar'[b] = Names,
         \A c \in Names : jar'[b][c] = IF c \in DOMAIN work[h].cookies
                                       THEN Kept(work[h].cookies[c]) ELSE jar[b][c]
  PROVE  AllJar(b)'
<1> DEFINE w == work[h]
<1>1. /\ Base /\ now \in Nat /\ secret \in Nat /\ AllJar(b) /\ WorkTyped(h) /\ WorkGood(h)
  BY DEF Inv, Base, AllWork
<1>2. ASSUME NEW k \in jar'[b].session
      PROVE  /\ k.value \in SessionValue /\ k.until \in Nat
             /\ (\E p \in proved : Proves(p, k.value, b))'
             /\ k.value.exp <= k.until /\ k.value.key <= secret'
  <2>1. /\ k.value \in SessionValue /\ k.until \in Nat
        /\ \E p \in proved : Proves(p, k.value, b)
        /\ k.value.exp <= k.until /\ k.value.key <= secret
    <3>1. CASE k \in jar[b].session
      BY <1>1, <3>1 DEF AllJar, JarTyped, JarGood
    <3>2. CASE "session" \in DOMAIN w.cookies /\ k \in Kept(w.cookies.session)
      <4>1. PICK x \in w.cookies.session : k.value = x.value /\ k.until = now + x.ttl
        BY <3>2 DEF Kept
      <4>2. /\ x.value \in SessionValue /\ x.ttl = SessionTTL
            /\ x.value.exp <= now + x.ttl /\ x.value.key = secret
            /\ \E p \in proved : Proves(p, x.value, b)
        BY <1>1, <3>2, <4>1 DEF WorkTyped, WorkGood
      <4>3. k.until \in Nat /\ secret <= secret
        BY <1>1, <4>1, <4>2, LifetimeAssumption
      <4> QED
        BY <4>1, <4>2, <4>3
    <3> QED
      BY <3>1, <3>2 DEF Names
  <2>2. (\E p \in proved : Proves(p, k.value, b))'
    BY <1>1, <2>1, ProofKept
  <2> QED
    BY <2>1, <2>2
<1>3. ASSUME NEW k \in jar'[b].state
      PROVE  k.value \in StateValue /\ k.until \in Nat /\ Begun(k.value, b)'
  <2>1. k.value \in StateValue /\ k.until \in Nat /\ Begun(k.value, b)
    <3>1. CASE k \in jar[b].state
      BY <1>1, <3>1 DEF AllJar, JarTyped, JarGood
    <3>2. CASE "state" \in DOMAIN w.cookies /\ k \in Kept(w.cookies.state)
      <4>1. PICK x \in w.cookies.state : k.value = x.value /\ k.until = now + x.ttl
        BY <3>2 DEF Kept
      <4>2. /\ x.value \in StateValue /\ w.login # 0
            /\ w.login \in DOMAIN logins /\ logins[w.login].by = b
            /\ x = Cookie([state |-> w.login, next |-> SafeNext(logins[w.login].next)], StateTTL)
        BY <1>1, <3>2, <4>1 DEF WorkTyped, WorkGood
      <4>3. /\ x.ttl = StateTTL /\ x.value.state = w.login
            /\ x.value.next = SafeNext(logins[w.login].next)
        BY <4>2 DEF Cookie
      <4>4. k.until \in Nat
        BY <1>1, <4>1, <4>3, LifetimeAssumption
      <4> QED
        BY <4>1, <4>2, <4>3, <4>4 DEF Begun
    <3> QED
      BY <3>1, <3>2 DEF Names
  <2> QED
    BY <2>1 DEF Begun, Grows, LoginsGrow
<1>4. JarTyped(b)'
  BY <1>2, <1>3 DEF JarTyped
<1>5. JarGood(b)'
  BY <1>2, <1>3 DEF JarGood
<1> QED
  BY <1>4, <1>5 DEF AllJar

LEMMA DeliverKeeps ==
  ASSUME Inv, NEW h \in Handler, Deliver(h)
  PROVE  Inv'
<1> DEFINE w == work[h]
           b == w.browser
           s == w.login
<1>1. /\ w.pc = "answering"
      /\ jar' = [jar EXCEPT ![b] =
                   [c \in DOMAIN @ |-> IF c \in DOMAIN w.cookies THEN Kept(w.cookies[c]) ELSE @[c]]]
      /\ logins' = IF s = 0 THEN logins ELSE [logins EXCEPT ![s].reached = TRUE]
      /\ work' = [work EXCEPT ![h] = Idle]
      /\ UNCHANGED <<now, configured, secret, codes, proved, visits>>
  BY DEF Deliver
<1>2. Base /\ AllWork(h) /\ WorkTyped(h) /\ WorkGood(h) /\ b \in Browser /\ AllJar(b) /\ now \in Nat
  BY <1>1 DEF Inv, AllWork, WorkGood, Base
<1>3. /\ DOMAIN jar' = Browser /\ jar' = [x \in Browser |-> jar'[x]]
      /\ \A x \in Browser : x # b => jar'[x] = jar[x]
      /\ jar'[b] = [c \in DOMAIN jar[b] |->
                      IF c \in DOMAIN w.cookies THEN Kept(w.cookies[c]) ELSE jar[b][c]]
  BY <1>1, <1>2, Zenon DEF Base
<1>4. /\ DOMAIN jar'[b] = Names
      /\ \A c \in Names : jar'[b][c] = IF c \in DOMAIN w.cookies THEN Kept(w.cookies[c]) ELSE jar[b][c]
  BY <1>2, <1>3 DEF AllJar, JarTyped
<1>5. s # 0 => s \in DOMAIN logins /\ logins[s].by = b
  BY <1>2 DEF WorkGood
<1>6. /\ logins' \in Seq(LoginType) /\ Len(logins') = Len(logins)
      /\ DOMAIN logins' = DOMAIN logins
      /\ \A t \in DOMAIN logins :
           /\ t # s => logins'[t] = logins[t]
           /\ logins'[t].by = logins[t].by /\ logins'[t].next = logins[t].next
           /\ logins'[t].at = logins[t].at /\ (logins[t].reached => logins'[t].reached)
  <2> HIDE DEF s
  <2>1. CASE s = 0
    BY <1>1, <1>2, <2>1 DEF Base
  <2>2. CASE s # 0
    BY <1>1, <1>2, <1>5, <2>2, LoginReached, Zenon
  <2> QED
    BY <2>1, <2>2
<1>7. Base'
  <2>1. DOMAIN work' = Handler /\ work' = [g \in Handler |-> work'[g]]
    BY <1>1, <1>2 DEF Base
  <2> HIDE DEF s, b, w
  <2> QED
    BY <1>1, <1>2, <1>3, <1>6, <2>1 DEF Base
<1>8. Grows
  <2>1. LoginsGrow
    BY <1>6 DEF LoginsGrow
  <2> QED
    BY <1>1, <1>2, <2>1, GrowsByDefault
<1>9. \A g \in Handler : AllWork(g)'
  <2>1. work'[h] = Idle
    BY <1>1, <1>2 DEF Base
  <2> HIDE DEF s, b, w
  <2> QED
    BY <1>1, <1>7, <1>8, <2>1, Rests, OthersKept
<1>10. ASSUME NEW x \in Browser PROVE AllJar(x)'
  <2>1. CASE x # b
    <3>1. jar'[x] = jar[x] /\ AllJar(x)
      BY <1>3, <2>1 DEF Inv
    <3>2. DOMAIN jar'[x] = Names
      BY <3>1 DEF AllJar, JarTyped
    <3> QED
      BY <1>2, <1>7, <1>8, <3>1, <3>2, JarKept
  <2>2. CASE x = b
    BY <1>1, <1>4, <1>7, <1>8, <2>2, JarFilled
  <2> QED
    BY <2>1, <2>2
<1>11. ASSUME NEW t \in DOMAIN logins PROVE Awaited(t)'
  <2>1. /\ Awaited(t) /\ logins[t] \in LoginType /\ logins[t].at \in Nat /\ logins[t].at <= now
        /\ logins'[t].by = logins[t].by /\ logins'[t].at = logins[t].at
    BY <1>2, <1>6, LoginsAre DEF Inv, LoginType, Awaited
  <2>2. CASE logins[t].by # b
    <3>1. t # s \/ s = 0
      BY <1>5, <2>2
    <3>2. logins'[t].reached = logins[t].reached
      BY <1>1, <1>6, <3>1
    <3>3. logins[t].by \in Browser /\ jar'[logins[t].by].state = jar[logins[t].by].state
      BY <1>3, <2>1, <2>2 DEF LoginType
    <3> QED
      BY <1>2, <1>7, <1>8, <2>1, <3>2, <3>3, AwaitedKept
  <2>3. CASE logins[t].by = b /\ "state" \notin DOMAIN w.cookies
    <3>1. s = 0
      BY <1>2, <2>3 DEF WorkGood
    <3>2. logins'[t].reached = logins[t].reached
      BY <1>1, <3>1
    <3>3. jar'[b].state = jar[b].state
      BY <1>4, <2>3 DEF Names
    <3> QED
      BY <1>2, <1>7, <1>8, <2>1, <2>3, <3>2, <3>3, AwaitedKept
  <2>4. CASE logins[t].by = b /\ "state" \in DOMAIN w.cookies /\ s = 0
    <3>1. w.cookies.state = {}
      BY <1>2, <2>4 DEF WorkGood
    <3>2. visits[b] > 0
      BY <1>2, <2>4, <3>1 DEF AllWork, Came
    <3>3. visits'[b] # 0 /\ now' = now
      BY <1>1, <1>2, <3>2 DEF Base
    <3> QED
      BY <2>1, <2>4, <3>3 DEF Awaited
  <2>5. CASE logins[t].by = b /\ s # 0 /\ t # s
    <3>1. s \in DOMAIN logins' /\ logins'[s].by = b /\ logins'[t].by = b
      BY <1>5, <1>6, <2>5
    <3>2. ~Sole(t)'
      BY <2>5, <3>1 DEF Sole
    <3> QED
      BY <1>1, <2>1, <3>2 DEF Awaited
  <2>6. CASE logins[t].by = b /\ s # 0 /\ t = s
    <3> DEFINE k == Cookie([state |-> s, next |-> SafeNext(logins[s].next)], StateTTL)
    <3>1. w.cookies = [state |-> {k}]
      BY <1>2, <2>6 DEF WorkGood
    <3>2. k.value.state = t /\ k.ttl = StateTTL
      BY <2>6 DEF Cookie
    <3> HIDE DEF k, s
    <3>3. "state" \in DOMAIN w.cookies /\ w.cookies.state = {k}
      BY <3>1
    <3>4. jar'[b].state = Kept({k})
      BY <1>4, <3>3 DEF Names
    <3>5. /\ jar'[b].state # {}
          /\ \A q \in jar'[b].state : q.value.state = t /\ q.until = now + StateTTL
      <4>1. Kept({k}) = {[value |-> k.value, until |-> now + k.ttl]}
        BY DEF Kept
      <4> HIDE DEF w, b
      <4>2. \A q \in jar'[b].state : q.value = k.value /\ q.until = now + k.ttl
        BY <3>4, <4>1
      <4>3. jar'[b].state # {}
        BY <3>4, <4>1
      <4> QED
        BY <3>2, <4>2, <4>3
    <3>6. logins[t].at + StateTTL <= now + StateTTL
      BY <1>2, <2>1, LifetimeAssumption
    <3> QED
      BY <1>1, <2>1, <2>6, <3>5, <3>6 DEF Awaited
  <2> QED
    BY <2>2, <2>3, <2>4, <2>5, <2>6
<1>12. \A t \in DOMAIN logins' : Awaited(t)'
  BY <1>6, <1>11
<1> HIDE DEF w, b, s
<1> QED
  BY <1>7, <1>9, <1>10, <1>12 DEF Inv

LEMMA RestartKeeps ==
  ASSUME Inv, Restart
  PROVE  Inv'
<1>1. /\ secret' = IF configured THEN secret ELSE secret + 1
      /\ work' = [h \in Handler |-> Idle]
      /\ UNCHANGED <<now, configured, jar, logins, codes, proved, visits>>
  BY DEF Restart
<1>2. Base /\ secret \in Nat /\ secret' \in Nat /\ secret <= secret'
  BY <1>1 DEF Inv, Base
<1>3. Base'
  <2>1. DOMAIN work' = Handler /\ work' = [g \in Handler |-> work'[g]]
    BY <1>1
  <2> QED
    BY <1>1, <1>2, <2>1 DEF Base
<1>4. Grows
  <2>1. LoginsGrow /\ CodesGrow
    BY <1>1, <1>2, GrowsByDefault
  <2>2. now <= now' /\ \A b \in Browser : visits[b] <= visits'[b]
    BY <1>1, <1>2 DEF Base
  <2> QED
    BY <1>1, <1>2, <2>1, <2>2 DEF Grows
<1>5. \A h \in Handler : AllWork(h)'
  BY <1>1, Rests
<1>6. \A t \in DOMAIN logins' : Awaited(t)'
  BY <1>1, <1>3, <1>4, AwaitingKept
<1> QED
  BY <1>1, <1>3, <1>4, <1>5, <1>6, JarsKept DEF Inv

LEMMA TickKeeps ==
  ASSUME Inv, Tick
  PROVE  Inv'
<1>1. /\ now' = now + 1
      /\ jar' = [b \in Browser |->
                   [c \in {"session", "state"} |-> {k \in jar[b][c] : now < k.until}]]
      /\ UNCHANGED <<configured, secret, logins, codes, proved, visits, work>>
  BY DEF Tick
<1>2. Base /\ now \in Nat /\ now' \in Nat /\ now <= now'
  BY <1>1 DEF Inv, Base
<1>3. \A b \in Browser :
        /\ DOMAIN jar'[b] = Names
        /\ jar'[b].session \subseteq jar[b].session
        /\ jar'[b].state = {k \in jar[b].state : now < k.until}
  BY <1>1 DEF Names
<1>4. Base'
  <2>1. DOMAIN jar' = Browser /\ jar' = [b \in Browser |-> jar'[b]]
    BY <1>1
  <2>2. \A p \in proved : p.at <= now'
    BY <1>2 DEF Base
  <2> QED
    BY <1>1, <1>2, <2>1, <2>2 DEF Base
<1>5. Grows
  <2>1. LoginsGrow /\ CodesGrow
    BY <1>1, <1>2, GrowsByDefault
  <2>2. secret <= secret' /\ \A b \in Browser : visits[b] <= visits'[b]
    BY <1>1, <1>2 DEF Base
  <2> QED
    BY <1>1, <1>2, <2>1, <2>2 DEF Grows
<1>6. \A b \in Browser : AllJar(b)'
  <2>1. \A b \in Browser : jar'[b].state \subseteq jar[b].state
    BY <1>3
  <2> QED
    BY <1>2, <1>3, <1>4, <1>5, <2>1, JarKept DEF Inv
<1>7. \A h \in Handler : AllWork(h)'
  BY <1>1, <1>2, <1>4, <1>5, WorkKept DEF Inv
<1>8. ASSUME NEW s \in DOMAIN logins PROVE Awaited(s)'
  <2> DEFINE b == logins[s].by
  <2>1. /\ Awaited(s) /\ logins[s] \in LoginType /\ logins[s].at \in Nat /\ b \in Browser
        /\ logins[s].at <= now /\ AllJar(b) /\ logins'[s] = logins[s]
    BY <1>1, <1>2, LoginsAre DEF Inv, LoginType, Awaited
  <2>2. Sole(s)' <=> Sole(s)
    BY <1>1 DEF Sole
  <2>3. logins[s].at + StateTTL \in Nat
    BY <2>1, LifetimeAssumption
  <2>4. ASSUME logins[s].reached, Sole(s), visits[b] = 0, now' <= logins[s].at + StateTTL
        PROVE  /\ jar'[b].state # {}
               /\ \A k \in jar'[b].state : k.value.state = s /\ logins[s].at + StateTTL <= k.until
    <3>1. now <= logins[s].at + StateTTL
      BY <1>2, <2>3, <2>4
    <3>2. /\ jar[b].state # {}
          /\ \A k \in jar[b].state : k.value.state = s /\ logins[s].at + StateTTL <= k.until
      BY <2>1, <2>4, <3>1 DEF Awaited
    <3>3. \A k \in jar[b].state : k.until \in Nat
      BY <2>1 DEF AllJar, JarTyped
    <3>4. \A k \in jar[b].state : now < k.until
      BY <1>1, <1>2, <2>3, <2>4, <3>2, <3>3
    <3> QED
      BY <1>3, <2>1, <3>2, <3>4
  <2>5. logins[s].at <= now'
    BY <1>2, <2>1
  <2> QED
    BY <1>1, <2>1, <2>2, <2>4, <2>5 DEF Awaited
<1> QED
  BY <1>1, <1>4, <1>6, <1>7, <1>8 DEF Inv

-----------------------------------------------------------------------------
(* What holds in every state.                                              *)

LEMMA InitInv == Init => Inv
<1> SUFFICES ASSUME Init PROVE Inv
  OBVIOUS
<1>1. DOMAIN logins = {} /\ DOMAIN codes = {} /\ proved = {} /\ Len(logins) = 0
  BY DEF Init
<1>2. Base
  <2>1. Len(Asked) \in Nat
    BY AskedAssumption, LenProperties
  <2>2. logins \in Seq(LoginType) /\ codes \in Seq(CodeType)
    BY EmptySeq DEF Init
  <2>3. /\ DOMAIN jar = Browser /\ jar = [b \in Browser |-> jar[b]]
        /\ DOMAIN work = Handler /\ work = [h \in Handler |-> work[h]]
        /\ visits \in [Browser -> Nat]
    BY DEF Init
  <2>4. now \in Nat /\ secret \in Nat /\ configured \in BOOLEAN
    BY DEF Init
  <2> QED
    BY <1>1, <2>1, <2>2, <2>3, <2>4 DEF Base
<1>3. ASSUME NEW b \in Browser PROVE AllJar(b)
  <2>1. jar[b] = NoCookies
    BY DEF Init
  <2>2. DOMAIN jar[b] = Names /\ jar[b].session = {} /\ jar[b].state = {}
    BY <2>1 DEF NoCookies, Names
  <2> QED
    BY <2>2 DEF AllJar, JarTyped, JarGood
<1>4. ASSUME NEW h \in Handler PROVE AllWork(h)
  <2>1. work[h] = Idle
    BY DEF Init
  <2> QED
    BY <2>1, IdleIs DEF AllWork, WorkTyped, WorkGood, Came, Excused
<1> QED
  BY <1>1, <1>2, <1>3, <1>4 DEF Inv

LEMMA StutterKeeps ==
  ASSUME Inv, UNCHANGED vars
  PROVE  Inv'
<1>1. Base /\ Base'
  BY DEF Inv, Base, vars
<1>2. Grows
  BY <1>1, GrowsByDefault DEF vars
<1>3. \A h \in Handler : AllWork(h)'
  BY <1>1, <1>2, WorkKept DEF Inv, vars
<1>4. \A b \in Browser : AllJar(b)'
  BY <1>1, <1>2, JarsKept DEF vars
<1>5. \A s \in DOMAIN logins' : Awaited(s)'
  BY <1>1, <1>2, AwaitingKept DEF vars
<1> QED
  BY <1>1, <1>3, <1>4, <1>5 DEF Inv

LEMMA StepKeepsInv == Inv /\ [Next]_vars => Inv'
<1> SUFFICES ASSUME Inv, [Next]_vars PROVE Inv'
  OBVIOUS
<1>1. ASSUME NEW h \in Handler, NEW b \in Browser, HandleLogin(h, b) PROVE Inv'
  BY <1>1, LoginKeeps
<1>2. ASSUME NEW h \in Handler, NEW b \in Browser, HandleLogout(h, b) PROVE Inv'
  BY <1>2, LogoutKeeps
<1>3. ASSUME NEW a \in Account, Consent(a) PROVE Inv'
  BY <1>3, ConsentKeeps
<1>4. ASSUME NEW h \in Handler, NEW b \in Browser, NEW s \in DOMAIN logins,
             NEW c \in DOMAIN codes, HandleCallback(h, b, s, c)
      PROVE  Inv'
  BY <1>4, CallbackKeeps
<1>5. ASSUME NEW h \in Handler, Exchange(h) PROVE Inv'
  BY <1>5, ExchangeKeeps
<1>6. ASSUME NEW h \in Handler, FetchAndSign(h) PROVE Inv'
  BY <1>6, FetchAndSignKeeps
<1>7. ASSUME NEW h \in Handler, Deliver(h) PROVE Inv'
  BY <1>7, DeliverKeeps
<1>8. ASSUME NEW h \in Handler, Lose(h) PROVE Inv'
  BY <1>8, LoseKeeps
<1>9. CASE Restart
  BY <1>9, RestartKeeps
<1>10. CASE Tick
  BY <1>10, TickKeeps
<1>11. CASE UNCHANGED vars
  BY <1>11, StutterKeeps
<1> QED
  BY <1>1, <1>2, <1>3, <1>4, <1>5, <1>6, <1>7, <1>8, <1>9, <1>10, <1>11 DEF Next

LEMMA InvHolds == Spec => []Inv
BY InitInv, StepKeepsInv, PTL DEF Spec

\* The answers and cookies are those of the handlers, for whatever accounts
\* with whatever emails.
THEOREM LoginTypes == Spec => []TypeOK
<1>1. Inv => TypeOK
  <2> SUFFICES ASSUME Inv PROVE TypeOK
    OBVIOUS
  <2>1. ASSUME NEW b \in Browser
        PROVE  /\ {k.value : k \in jar[b].session} \subseteq SessionValue
               /\ {k.value : k \in jar[b].state} \subseteq StateValue
    BY DEF Inv, AllJar, JarTyped
  <2>2. ASSUME NEW h \in Handler
        PROVE  /\ WorkTyped(h)
               /\ work[h].pc \in {"exchanging", "fetching"} => work[h].code \in DOMAIN codes
    BY DEF Inv, AllWork, WorkGood
  <2> QED
    BY <2>1, <2>2 DEF TypeOK, WorkTyped, Inv, Base
<1> QED
  BY <1>1, InvHolds, PTL

\* Whoever is signed in at a browser completed a login that this very browser
\* began, no longer ago than a session lasts, with a code of an account for which
\* GitHub holds the email verified, and as the primary one if it has a verified
\* primary one (HandleCallback, FetchEmail, SessionCookieFor, Email of the
\* authenticator).  That the code was obtained in this login is not claimed.
THEOREM SessionsAreProved == Spec => []SessionIsProved
<1>1. Inv => SessionIsProved
  <2> SUFFICES ASSUME Inv, NEW b \in Browser, NEW email \in SessionEmail(b)
               PROVE  \E p \in proved :
                        /\ logins[p.login].by = b
                        /\ now <= p.at + SessionTTL
                        /\ MayBeNamed(email, p.account)
    BY Zenon DEF SessionIsProved
  <2> PICK k \in jar[b].session : Valid(k.value) /\ k.value.email = email
    BY DEF SessionEmail
  <2>1. PICK p \in proved : Proves(p, k.value, b)
    BY DEF Inv, AllJar, JarGood
  <2>2. /\ k.value.exp \in Nat /\ now \in Nat /\ p.at \in Nat
        /\ now <= k.value.exp /\ k.value.exp <= p.at + SessionTTL
    BY <2>1 DEF Inv, Base, AllJar, JarTyped, SessionValue, Proves, Valid
  <2>3. now <= p.at + SessionTTL
    BY <2>2, LifetimeAssumption
  <2> QED
    BY <2>1, <2>3 DEF Proves
<1> QED
  BY <1>1, InvHolds, PTL

\* A callback that signs in answers the state of a login its own browser began, and
\* goes on to where that login was meant to go (the state cookie of HandleLogin
\* and the comparison of HandleCallback).
THEOREM LoginsCompleteTheirOwn == Spec => []CompletesOwnLogin
<1>1. Inv => CompletesOwnLogin
  <2> SUFFICES ASSUME Inv, NEW h \in Handler,
                      "session" \in DOMAIN work[h].cookies, work[h].cookies.session # {}
               PROVE  /\ logins[work[h].state].by = work[h].browser
                      /\ work[h].to = SafeNext(logins[work[h].state].next)
    BY DEF CompletesOwnLogin
  <2> QED
    BY DEF Inv, AllWork, WorkGood, OwnState
<1> QED
  BY <1>1, InvHolds, PTL

\* A browser that began one login and comes back with its state for the first time, in
\* time, is never told of a missing or invalid state (HandleCallback), however
\* many others log in and whenever the server restarts.
THEOREM SoleLoginsSucceed == Spec => []SoleLoginSucceeds
<1>1. Inv => SoleLoginSucceeds
  <2> SUFFICES ASSUME Inv, NEW h \in Handler, work[h].status = 400
               PROVE  \/ visits[work[h].browser] > 1
                      \/ logins[work[h].state].by # work[h].browser
                      \/ \E s \in DOMAIN logins :
                           s # work[h].state /\ logins[s].by = work[h].browser
                      \/ now > logins[work[h].state].at + StateTTL
    BY DEF SoleLoginSucceeds
  <2>1. Excused(h)
    BY DEF Inv, AllWork
  <2> QED
    BY <2>1 DEF Excused, Sole
<1> QED
  BY <1>1, InvHolds, PTL
=============================================================================
