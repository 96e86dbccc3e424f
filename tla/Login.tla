-------------------------------- MODULE Login --------------------------------
(***************************************************************************)
(* The login of the approver pages: browsers begin logins, several at a    *)
(* time in their tabs, GitHub sends them back with a code, and a callback  *)
(* ends in a signed session cookie.  The server keeps nothing of a login;  *)
(* all of it is in the cookies, which the browsers send as they hold them  *)
(* when a request leaves and change as its answer comes in.                *)
(*                                                                         *)
(* The login is enabled.  A state is the number of its login: random       *)
(* tokens are distinct and cannot be guessed.  Browsers, GitHub and the    *)
(* network are external; callback addresses are copied between browsers.   *)
(***************************************************************************)
EXTENDS Integers, SequencesExt

CONSTANTS
  Browser,
  Handler,       \* request goroutines
  Asked,         \* the destination that each login asks for; as many as there are
  LocalPath,     \* local paths
  Account,
  Emails,        \* account -> its [email, primary, verified] in GitHub's order
  Lower,         \* email -> the email in lower case
  Unfit,         \* emails that a session cookie does not carry: with a "|", say
  StateTTL, SessionTTL,
  MaxTime, MaxCodes, MaxCallbacks, MaxRestarts  \* bounds of the model

ASSUME LocalPathAssumption == "/" \in LocalPath
ASSUME AskedAssumption == Asked \in Seq(ToSet(Asked))
ASSUME EmailsAssumption == \A a \in Account : Emails[a] \in Seq(ToSet(Emails[a]))
ASSUME LifetimeAssumption == StateTTL \in Nat \ {0} /\ SessionTTL \in Nat \ {0}

VARIABLES
  now,         \* in seconds
  configured,  \* was a session secret given?
  secret,      \* which secret signs
  jar,         \* browser -> its session cookie and its state cookie
  logins,      \* the logins begun: by whom, where to, when; was GitHub reached?
  codes,       \* GitHub: the codes sent back
  proved,      \* what callbacks established: whose account, in which login, when
  visits,      \* browser -> its callbacks so far
  work         \* handler -> the request it serves

vars == <<now, configured, secret, jar, logins, codes, proved, visits, work>>

NoCookies == [session |-> {}, state |-> {}]

\* What an answer does: the cookies it sets or, with nothing, clears; the
\* login it sends to GitHub; where else it goes.
Answer(b, status, cookies, login, to) ==
  [pc |-> "answering", browser |-> b, state |-> 0, code |-> 0, next |-> "/",
   status |-> status, cookies |-> cookies, login |-> login, to |-> to]

Unchanged == [c \in {} |-> {}]

Idle == [Answer("nobody", 0, Unchanged, 0, "nowhere") EXCEPT !.pc = "idle"]

Init ==
  /\ now = 0 /\ secret = 0
  /\ configured \in BOOLEAN
  /\ jar = [b \in Browser |-> NoCookies]
  /\ logins = <<>> /\ codes = <<>> /\ proved = {}
  /\ visits = [b \in Browser |-> 0]
  /\ work = [h \in Handler |-> Idle]

Begin(h, w) == work[h] = Idle /\ work' = [work EXCEPT ![h] = w]

Cookie(value, ttl) == [value |-> value, ttl |-> ttl]

\* Seeded fault: any destination will do.
SafeNextAny(next) == next

SafeNext(next) == IF next \in LocalPath THEN next ELSE "/"

-----------------------------------------------------------------------------
(* Login and logout.                                                       *)

\* Bound of the model: nobody sets out to log in at the end of time.
HandleLogin(h, b) ==
  LET state == Len(logins) + 1
      next == Asked[state]
  IN  /\ state <= Len(Asked) /\ now < MaxTime
      /\ Begin(h, Answer(b, 302,
           [state |-> {Cookie([state |-> state, next |-> SafeNext(next)], StateTTL)}], state, "nowhere"))
      /\ logins' = Append(logins, [by |-> b, next |-> next, at |-> now, reached |-> FALSE])
      /\ UNCHANGED <<now, configured, secret, jar, codes, proved, visits>>

\* Bound of the model: with no session it is only tried at the end of time, when
\* nothing else is under way.
HandleLogout(h, b) ==
  /\ Begin(h, Answer(b, 302, [session |-> {}], 0, "/"))
  /\ jar[b].session # {} \/ (now = MaxTime /\ \A g \in Handler : work[g] = Idle)
  /\ UNCHANGED <<now, configured, secret, jar, logins, codes, proved, visits>>

\* GitHub: somebody signs in there and consents.  If they decline they come
\* back with no code, as with one whose exchange fails.  (The same bound.)
Consent(account) ==
  /\ Len(codes) < MaxCodes /\ now < MaxTime /\ \E s \in DOMAIN logins : logins[s].reached
  /\ codes' = Append(codes, [account |-> account, status |-> "fresh"])
  /\ UNCHANGED <<now, configured, secret, jar, logins, proved, visits, work>>

-----------------------------------------------------------------------------
(* The callback.                                                           *)

BadRequest(b, state, cookies) == [Answer(b, 400, cookies, 0, "nowhere") EXCEPT !.state = state]

BadGateway(b) == Answer(b, 502, [state |-> {}], 0, "nowhere")

\* Seeded fault: a browser with a login open is coming back from it.
MatchesAny(cookie, state) == cookie.value.state # 0

\* Seeded fault: the destination is compared along with the state.
MatchesWhole(cookie, state) == cookie.value.state = state /\ cookie.value.next = "/"

Matches(cookie, state) == cookie.value.state = state

\* The address has a state and a code, and nothing ties the one to the other: the
\* code may come from another login.  Whatever else is found, the state is used up.
HandleCallback(h, b, state, c) ==
  /\ logins[state].reached
  /\ IF jar[b].state = {} THEN Begin(h, BadRequest(b, state, Unchanged)) ELSE
       \E k \in jar[b].state :
         IF Matches(k, state)
         THEN Begin(h, [Answer(b, 0, Unchanged, 0, "nowhere") EXCEPT
                          !.pc = "exchanging", !.state = state, !.code = c, !.next = k.value.next])
         ELSE Begin(h, BadRequest(b, state, [state |-> {}]))
  /\ SumFunction(visits) < MaxCallbacks
  /\ visits' = [visits EXCEPT ![b] = @ + 1]
  /\ UNCHANGED <<now, configured, secret, jar, logins, codes, proved>>

\* GitHub takes a code once, and its answer may be lost.
Exchange(h) ==
  LET w == work[h]
      c == w.code
      Redeemed == codes' = [codes EXCEPT ![c].status = "redeemed"]
  IN  /\ w.pc = "exchanging"
      /\ \/ /\ codes[c].status = "fresh" /\ Redeemed
            /\ work' = [work EXCEPT ![h].pc = "fetching"]
         \/ /\ \/ UNCHANGED codes
               \/ codes[c].status = "fresh" /\ Redeemed
            /\ work' = [work EXCEPT ![h] = BadGateway(w.browser)]
      /\ UNCHANGED <<now, configured, secret, jar, logins, proved, visits>>

\* Seeded fault: any email of the account will do.
FetchEmailAny(account) == IF Emails[account] = <<>> THEN "" ELSE Lower[Emails[account][1].email]

\* The primary email if it is verified, or else the first that is.
FetchEmail(account) ==
  LET emails == Emails[account]
      primary == SelectInSeq(emails, LAMBDA e : e.primary /\ e.verified)
      verified == SelectInSeq(emails, LAMBDA e : e.verified)
  IN  CASE primary # 0 -> Lower[emails[primary].email]
        [] primary = 0 /\ verified # 0 -> Lower[emails[verified].email]
        [] OTHER -> ""

SessionCookieFor(email) ==
  Cookie([email |-> email, exp |-> now + SessionTTL, key |-> secret], SessionTTL)

FetchAndSign(h) ==
  LET w == work[h]
      account == codes[w.code].account
      email == FetchEmail(account)
  IN  /\ w.pc = "fetching"
      /\ \/ /\ email # ""
            /\ proved' = proved \cup {[account |-> account, login |-> w.state, at |-> now]}
            /\ work' = [work EXCEPT ![h] =
                 [Answer(w.browser, 302, [state |-> {}, session |-> {SessionCookieFor(email)}],
                         0, SafeNext(w.next)) EXCEPT !.state = w.state]]
         \/ /\ work' = [work EXCEPT ![h] = BadGateway(w.browser)]
            /\ UNCHANGED proved
      /\ UNCHANGED <<now, configured, secret, jar, logins, codes, visits>>

-----------------------------------------------------------------------------
(* Answers, time and restarts.                                             *)

Kept(cookies) == {[value |-> k.value, until |-> now + k.ttl] : k \in cookies}

\* The browser changes its cookies and goes where it is sent.
Deliver(h) ==
  LET w == work[h]
  IN  /\ w.pc = "answering"
      /\ jar' = [jar EXCEPT ![w.browser] =
                   [c \in DOMAIN @ |-> IF c \in DOMAIN w.cookies THEN Kept(w.cookies[c]) ELSE @[c]]]
      /\ logins' = IF w.login = 0 THEN logins ELSE [logins EXCEPT ![w.login].reached = TRUE]
      /\ work' = [work EXCEPT ![h] = Idle]
      /\ UNCHANGED <<now, configured, secret, codes, proved, visits>>

Lose(h) ==
  /\ work[h].pc = "answering"
  /\ work' = [work EXCEPT ![h] = Idle]
  /\ UNCHANGED <<now, configured, secret, jar, logins, codes, proved, visits>>

\* The requests under way end with the process.  Without a configured secret
\* the new one is another.
Restart ==
  /\ configured \/ secret < MaxRestarts
  /\ secret' = IF configured THEN secret ELSE secret + 1
  /\ work' = [h \in Handler |-> Idle]
  /\ UNCHANGED <<now, configured, jar, logins, codes, proved, visits>>

\* Browsers let go of a cookie after its last second.
Tick ==
  /\ now < MaxTime /\ now' = now + 1
  /\ jar' = [b \in Browser |->
               [c \in {"session", "state"} |-> {k \in jar[b][c] : now < k.until}]]
  /\ UNCHANGED <<configured, secret, logins, codes, proved, visits, work>>

Next ==
  \/ \E h \in Handler, b \in Browser : HandleLogin(h, b) \/ HandleLogout(h, b)
  \/ \E a \in Account : Consent(a)
  \/ \E h \in Handler, b \in Browser, s \in DOMAIN logins, c \in DOMAIN codes :
       HandleCallback(h, b, s, c)
  \/ \E h \in Handler : Exchange(h) \/ FetchAndSign(h) \/ Deliver(h) \/ Lose(h)
  \/ Restart
  \/ Tick

Spec == Init /\ [][Next]_vars

-----------------------------------------------------------------------------
(* Who is signed in.                                                       *)

\* Seeded fault: the browser is trusted with the end of the session.
ValidWhileSent(value) == value.key = secret /\ value.email \notin Unfit

\* Through the second of its expiry.
Valid(value) == value.key = secret /\ value.email \notin Unfit /\ now <= value.exp

SessionEmail(b) == {k.value.email : k \in {x \in jar[b].session : Valid(x.value)}}

-----------------------------------------------------------------------------
(* What is right.                                                          *)

Email == {Lower[e.email] : e \in UNION {{Emails[a][i] : i \in DOMAIN Emails[a]} : a \in Account}}

SessionValue == [email : Email, exp : Nat, key : Nat]

StateValue == [state : DOMAIN Asked, next : LocalPath]

\* The answers and cookies are those of the handlers, and only a callback under
\* way holds a code that GitHub sent.
TypeOK ==
  /\ now \in Nat /\ secret \in Nat
  /\ \A b \in Browser :
       /\ {k.value : k \in jar[b].session} \subseteq SessionValue
       /\ {k.value : k \in jar[b].state} \subseteq StateValue
  /\ \A h \in Handler : LET w == work[h] IN
       /\ w.pc \in {"idle", "exchanging", "fetching", "answering"}
       /\ w.pc \in {"exchanging", "fetching"} => w.code \in DOMAIN codes
       /\ w.pc = "fetching" => codes[w.code].status = "redeemed"
       /\ "session" \in DOMAIN w.cookies => \A k \in w.cookies.session : k.value \in SessionValue
       /\ "state" \in DOMAIN w.cookies => \A k \in w.cookies.state : k.value \in StateValue

\* The email that a session may name: the verified primary one of the account,
\* or, where it has none, another that is verified.
MayBeNamed(email, account) ==
  \E i \in DOMAIN Emails[account] :
    LET e == Emails[account][i]
    IN  /\ e.verified /\ Lower[e.email] = email
        /\ \/ e.primary
           \/ ~ \E j \in DOMAIN Emails[account] :
                  Emails[account][j].primary /\ Emails[account][j].verified

\* Whoever is signed in at a browser completed a login that this very browser
\* began, no longer ago than a session lasts, and the email is one that GitHub
\* holds verified for the account that came back.  Authenticator: "tracks the
\* signed-in user's verified primary email"; the fallback to another verified one
\* is FetchEmail's.  Whether that account consented in this login or in another
\* is left open, as in the code: state and code are not tied to each other.
SessionIsProved ==
  \A b \in Browser : \A email \in SessionEmail(b) :
    \E p \in proved :
      /\ logins[p.login].by = b
      /\ now <= p.at + SessionTTL
      /\ MayBeNamed(email, p.account)

\* A callback that signs in answers the state of a login its own browser began,
\* and goes on to where that login was meant to go, whatever other tabs and
\* other browsers are doing (state and destination share one cookie).
CompletesOwnLogin ==
  \A h \in Handler : LET w == work[h] IN
    "session" \in DOMAIN w.cookies /\ w.cookies.session # {} =>
      /\ logins[w.state].by = w.browser
      /\ w.to = SafeNext(logins[w.state].next)

\* A browser that began one login and comes back with its state for the first
\* time, in time, is never told of a missing or invalid state, also if the
\* server was restarted with another secret meanwhile.
SoleLoginSucceeds ==
  \A h \in Handler : LET w == work[h] IN
    w.status = 400 =>
      \/ visits[w.browser] > 1
      \/ logins[w.state].by # w.browser
      \/ \E s \in DOMAIN logins : s # w.state /\ logins[s].by = w.browser
      \/ now > logins[w.state].at + StateTTL

SessionOf(values) ==
  {[email |-> v.email, ends |-> v.exp] : v \in {x \in values : x.email \notin Unfit}}

Promise == INSTANCE SessionPromise WITH
  Slot <- Handler,
  era <- secret,
  who <- [b \in Browser |->
            SessionOf({k.value : k \in {x \in jar[b].session : Valid(x.value)}})],
  proofs <- [h \in Handler |->
    LET w == work[h]
    IN  IF "session" \in DOMAIN w.cookies /\ w.cookies.session # {}
        THEN {[browser |-> w.browser,
               session |-> SessionOf({k.value : k \in w.cookies.session})]}
        ELSE {}]

\* The cookies keep the promise: no stale tab, late answer, failed callback or
\* restart signs anybody in or out but as SessionPromise says.  (Whose code a
\* proof was made of, it does not say.)
KeepsPromise == Promise!Spec
=============================================================================
