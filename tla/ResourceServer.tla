--------------------------- MODULE ResourceServer ---------------------------
(***************************************************************************)
(* The GitHub resource server: its operations endpoint, its git proxy and  *)
(* its REST proxy, between the authorization server and GitHub.            *)
(*                                                                         *)
(* All three do the same: ask the authorization server whether the token   *)
(* may do what the request needs, and act on GitHub with the server's own  *)
(* credential (the PAT) if it may.  The question, the answer and the act   *)
(* are separate messages, and approvals, revocations and deadlines fall    *)
(* between them.  The git proxy first probes whether a repository can be   *)
(* cloned by anyone, and then forwards a clone without any credential.     *)
(*                                                                         *)
(* The authorization server is here what its store promises (GrantPromise; *)
(* GrantStore implements it and AuthServer uses nothing else).  GitHub is  *)
(* external: it serves whoever presents the PAT, serves reads of public    *)
(* repositories to anybody, and may fail or fall silent at any call.       *)
(*                                                                         *)
(* An item is one right - an action on a resource - as in AuthServer; it   *)
(* belongs to a repository, and exercising it either reads or writes.      *)
(***************************************************************************)
EXTENDS Naturals

CONSTANTS
  Token, ProposalId, Item, RequestTTL, GrantTTL,
  Handler,   \* goroutines serving a request
  NoToken,   \* the credential of a request that carries none
  Repo,
  RepoOf,    \* item -> the repository it is about
  Writes,    \* items whose exercise changes the repository
  MaxTime,   \* bound of the model: the clock stops here
  MaxCalls   \* bound of the model: calls one operation makes to GitHub

ASSUME RepoAssumption == RepoOf \in [Item -> Repo] /\ Writes \subseteq Item
ASSUME NoTokenAssumption == NoToken \notin Token
ASSUME MaxCallsAssumption == MaxCalls \in Nat \ {0}

VARIABLES
  standing, request, authority, now,   \* the authorization server
  public,    \* GitHub: the repositories anyone can read
  pat,       \* is a GitHub token configured?
  pc,        \* handler -> where its goroutine is
  req,       \* handler -> the request it serves
  verdict,   \* handler -> the answer on its way to it: of the probe, of the
             \* authorization server
  spent,     \* handler -> the credentials it presented to GitHub
  effect,    \* handler -> what that brought about
  result,    \* handler -> its answer to the client
  since      \* handler -> what was the case at some instant of its request

asVars == <<standing, request, authority, now>>
workVars == <<verdict, spent, effect, result>>
vars == <<asVars, public, pat, pc, req, workVars, since>>

AS == INSTANCE GrantPromise

-----------------------------------------------------------------------------
(* Requests.                                                               *)

NoRequest == [kind |-> "none", token |-> NoToken, needs |-> {}, calls |-> 0]

Nothing == [covered |-> FALSE, uncovered |-> FALSE, hidden |-> FALSE,
            unprobed |-> FALSE]

\* The rights a token has at this instant.
Rights(t) == {a.item : a \in {b \in authority : b.token = t}}

\* evaluate: every requirement is allowed, and there is at least one.
Covered(r) == r.needs # {} /\ r.needs \subseteq Rights(r.token)

Hidden(r) == \E i \in r.needs : RepoOf[i] \notin public

At(h, where) == pc' = [pc EXCEPT ![h] = where]

\* A request the server has taken on.
Begin(h, where, r) ==
  /\ pc[h] = "idle"
  /\ At(h, where)
  /\ req' = [req EXCEPT ![h] = r]
  /\ UNCHANGED workVars

\* The client's answer is known.
Finish(h, res) ==
  /\ At(h, "done")
  /\ result' = [result EXCEPT ![h] = res]

\* What only the request itself changes.
Alone == UNCHANGED <<asVars, public, pat>>

-----------------------------------------------------------------------------
(* Arrivals.  One without a token is refused at once (401), but for a      *)
(* clone, which may not need one.                                          *)

HandleOperation(h, t, needs, calls) ==
  /\ t # NoToken
  /\ Begin(h, "asking",
           [kind |-> "operation", token |-> t, needs |-> needs, calls |-> calls])
  /\ Alone

RESTServeHTTP(h, t, i) ==
  /\ t # NoToken
  /\ Begin(h, "asking", [kind |-> "rest", token |-> t, needs |-> {i}, calls |-> 1])
  /\ Alone

GitServeHTTP(h, t, i) ==
  /\ \/ i \in Writes /\ t # NoToken /\ Begin(h, "asking",
          [kind |-> "git", token |-> t, needs |-> {i}, calls |-> 1])
     \/ i \notin Writes /\ Begin(h, "probing",
          [kind |-> "git", token |-> t, needs |-> {i}, calls |-> 1])
  /\ Alone

\* A request that has to be authorized after all.
NeedsToken(h) ==
  \/ req[h].token = NoToken /\ Finish(h, "challenged")
  \/ req[h].token # NoToken /\ At(h, "asking") /\ UNCHANGED result

\* GitHub's answer to the anonymous probe, or none within ten seconds.
Probe(h) ==
  /\ pc[h] = "probing"
  /\ At(h, "probed")
  /\ \E v \in {IF Hidden(req[h]) THEN "private" ELSE "public", "error"} :
       verdict' = [verdict EXCEPT ![h] = v]
  /\ UNCHANGED <<req, spent, effect, result>>
  /\ Alone

\* Seeded fault: whatever the probe says, the clone needs a grant.
ProbeIgnored(h) ==
  /\ pc[h] = "probed"
  /\ NeedsToken(h)
  /\ UNCHANGED <<req, verdict, spent, effect>>
  /\ Alone

\* Only a probe that succeeds makes the clone free; on any other status, and on
\* none, it is a request like any other.
PubliclyCloneable(h) ==
  /\ pc[h] = "probed"
  /\ \/ verdict[h] = "public" /\ At(h, "anonymous") /\ UNCHANGED result
     \/ verdict[h] # "public" /\ NeedsToken(h)
  /\ UNCHANGED <<req, verdict, spent, effect>>
  /\ Alone

-----------------------------------------------------------------------------
(* The question to the authorization server.                               *)

\* The authorization server evaluates at one instant of its own; whatever goes
\* wrong there (a policy that does not parse, a signature it does not accept,
\* a failing database) is told as an error.
HandleVerify(h) ==
  /\ pc[h] = "asking"
  /\ At(h, "answered")
  /\ \E v \in {IF Covered(req[h]) THEN "allowed" ELSE "denied", "error"} :
       verdict' = [verdict EXCEPT ![h] = v]
  /\ UNCHANGED <<req, spent, effect, result>>
  /\ Alone

\* Seeded fault: an error is taken for a refusal.
AuthorizeLax(h) ==
  /\ pc[h] = "answered"
  /\ \/ verdict[h] = "allowed" /\ At(h, "verified") /\ UNCHANGED result
     \/ verdict[h] # "allowed" /\ Finish(h, "unauthorized")
  /\ UNCHANGED <<req, verdict, spent, effect>>
  /\ Alone

\* The answer arrives: only an explicit "allowed" lets the request through.
Authorize(h) ==
  /\ pc[h] = "answered"
  /\ \/ verdict[h] = "allowed" /\ At(h, "verified") /\ UNCHANGED result
     \/ verdict[h] = "denied" /\ Finish(h, "unauthorized")
     \/ verdict[h] = "error" /\ Finish(h, "bad_gateway")
  /\ UNCHANGED <<req, verdict, spent, effect>>
  /\ Alone

\* Seeded fault: a question that is never answered is waited for.
VerifyLost(h) ==
  /\ pc[h] = "answered"
  /\ Finish(h, "bad_gateway")
  /\ UNCHANGED <<req, verdict, spent, effect>>
  /\ Alone

\* The question or its answer is lost, the client has gone, or fifteen seconds
\* pass; the authorization server may have evaluated or not.
VerifyFails(h) ==
  /\ pc[h] \in {"asking", "answered"}
  /\ Finish(h, "bad_gateway")
  /\ UNCHANGED <<req, verdict, spent, effect>>
  /\ Alone

-----------------------------------------------------------------------------
(* The act.                                                                *)

\* Seeded fault: the proxy forgets that the clone was to go out anonymously.
AlwaysPat(h) == IF pat THEN "pat" ELSE "anonymous"

\* The credential an outbound call carries.
Credential(h) == IF pc[h] = "anonymous" \/ ~pat THEN "anonymous" ELSE "pat"

\* GitHub: whom it lets exercise an item.
Admits(credential, i) ==
  credential = "pat" \/ (i \notin Writes /\ RepoOf[i] \in public)

\* What an admitted call brings about: a change, or content somebody sees.
Effect(i) ==
  IF i \in Writes THEN "written"
  ELSE IF RepoOf[i] \in public THEN "public"
  ELSE "private"

\* Seeded fault: an operation goes on after its last call.
GoOnForever(h, answer) ==
  \/ /\ answer = "ok"
     /\ req' = [req EXCEPT ![h].calls = @ - 1]
     /\ UNCHANGED <<pc, result>>
  \/ answer # "ok" /\ Finish(h, "failed") /\ UNCHANGED req

\* An operation that makes several calls stops at the first one that fails;
\* what the earlier ones did stays done.
GoOn(h, answer) ==
  \/ /\ answer = "ok" /\ req[h].calls > 1
     /\ req' = [req EXCEPT ![h].calls = @ - 1]
     /\ UNCHANGED <<pc, result>>
  \/ answer = "ok" /\ req[h].calls = 1 /\ Finish(h, "completed") /\ UNCHANGED req
  \/ answer # "ok" /\ Finish(h, "failed") /\ UNCHANGED req

\* One call to GitHub, exercising one of the rights the request stated: it may
\* have its effect and its answer be lost.
Execute(h) ==
  /\ pc[h] \in {"verified", "anonymous"}
  /\ \E i \in req[h].needs, answer \in {"ok", "refused", "lost"} :
       /\ spent' = [spent EXCEPT ![h] = @ \cup {Credential(h)}]
       /\ \/ /\ answer # "refused" /\ Admits(Credential(h), i)
             /\ effect' = [effect EXCEPT ![h] = @ \cup {Effect(i)}]
          \/ answer # "ok" /\ UNCHANGED effect
       /\ GoOn(h, answer)
  /\ UNCHANGED verdict
  /\ Alone

\* The goroutine ends, with its answer delivered or not.
Reply(h) ==
  /\ pc[h] = "done"
  /\ At(h, "idle")
  /\ req' = [req EXCEPT ![h] = NoRequest]
  /\ verdict' = [verdict EXCEPT ![h] = "none"]
  /\ spent' = [spent EXCEPT ![h] = {}]
  /\ effect' = [effect EXCEPT ![h] = {}]
  /\ result' = [result EXCEPT ![h] = "none"]
  /\ Alone

-----------------------------------------------------------------------------

Init ==
  /\ AS!Init
  /\ public \in SUBSET Repo
  /\ pat \in BOOLEAN
  /\ pc = [h \in Handler |-> "idle"]
  /\ req = [h \in Handler |-> NoRequest]
  /\ verdict = [h \in Handler |-> "none"]
  /\ spent = [h \in Handler |-> {}]
  /\ effect = [h \in Handler |-> {}]
  /\ result = [h \in Handler |-> "none"]
  /\ since = [h \in Handler |-> Nothing]

\* The process is stopped and started again: it keeps nothing.
Restart ==
  /\ pc' = [h \in Handler |-> "idle"]
  /\ req' = [h \in Handler |-> NoRequest]
  /\ verdict' = [h \in Handler |-> "none"]
  /\ spent' = [h \in Handler |-> {}]
  /\ effect' = [h \in Handler |-> {}]
  /\ result' = [h \in Handler |-> "none"]
  /\ Alone

\* Somebody makes a repository public or private.
ChangeVisibility ==
  /\ public' \in SUBSET Repo
  /\ UNCHANGED <<asVars, pat, pc, req, workVars>>

\* Everything the authorization server does besides answering.
AuthorityMoves ==
  /\ AS!Next /\ now' <= MaxTime
  /\ UNCHANGED <<public, pat, pc, req, workVars>>

Arrive(h) ==
  \E t \in Token \cup {NoToken} :
    \/ \E needs \in SUBSET Item, calls \in 1..MaxCalls :
         HandleOperation(h, t, needs, calls)
    \/ \E i \in Item : RESTServeHTTP(h, t, i) \/ GitServeHTTP(h, t, i)

\* What the resource server does on its own once a request is in.
Proceed(h) ==
  \/ Probe(h)
  \/ PubliclyCloneable(h)
  \/ Authorize(h)
  \/ VerifyFails(h)
  \/ Execute(h)
  \/ Reply(h)

Step ==
  \/ \E h \in Handler : Arrive(h) \/ Proceed(h) \/ HandleVerify(h)
  \/ Restart
  \/ ChangeVisibility
  \/ AuthorityMoves

\* The observer: for each request under way, what has been the case at some
\* instant since it arrived.  Nothing in the system reads it.
Observe ==
  since' = [h \in Handler |->
    IF pc'[h] = "idle" THEN Nothing
    ELSE [covered |-> since[h].covered \/ Covered(req[h])',
          uncovered |-> since[h].uncovered \/ ~Covered(req[h])',
          hidden |-> since[h].hidden \/ Hidden(req[h])',
          unprobed |-> \/ since[h].unprobed
                       \/ pc'[h] = "probed" /\ verdict'[h] = "error"]]

Next == Step /\ Observe

Spec == Init /\ [][Next]_vars

\* The scheduler runs every runnable goroutine; a probe ends by its timeout of
\* ten seconds, a question by one of fifteen, a call of an operation by one of
\* thirty.  What the proxies forward has no timeout of its own: GitHub, or the
\* client, is assumed to end it.  The authorization server is not assumed to
\* answer.
Fairness == \A h \in Handler : WF_vars(Proceed(h) /\ Observe)

FairSpec == Spec /\ Fairness

-----------------------------------------------------------------------------
(* What must hold.                                                         *)

Request == [kind: {"none", "operation", "rest", "git"},
            token: Token \cup {NoToken}, needs: SUBSET Item, calls: 0..MaxCalls]

Place == {"idle", "probing", "probed", "asking", "answered", "verified",
          "anonymous", "done"}

Verdict == {"none", "public", "private", "allowed", "denied", "error"}

Result == {"none", "challenged", "unauthorized", "bad_gateway", "completed", "failed"}

TypeOK ==
  /\ public \subseteq Repo /\ pat \in BOOLEAN
  /\ pc \in [Handler -> Place]
  /\ req \in [Handler -> Request]
  /\ verdict \in [Handler -> Verdict]
  /\ spent \in [Handler -> SUBSET {"anonymous", "pat"}]
  /\ effect \in [Handler -> SUBSET {"written", "public", "private"}]
  /\ result \in [Handler -> Result]
  /\ since \in [Handler -> [covered: BOOLEAN, uncovered: BOOLEAN,
                           hidden: BOOLEAN, unprobed: BOOLEAN]]
  /\ \A h \in Handler : pc[h] \in {"verified", "anonymous"} => req[h].calls > 0

\* The server's credential leaves only for a request all of whose needs the
\* approver's authority covered at one instant of that request, and nothing is
\* written and nothing private shown otherwise.  An authority revoked or run
\* out before the request came is never enough; a repository that turns private
\* after the probe, an error or a lost answer never opens the door.
NothingWithoutAuthority ==
  \A h \in Handler :
    ("pat" \in spent[h] \/ effect[h] \cap {"written", "private"} # {})
      => since[h].covered

\* "unauthorized" tells the client to ask for a grant (ErrNotAuthorized); it is
\* said only if the grants did fall short at some instant of the request, never
\* because the authorization server could not be asked.
DeniedMeansUncovered ==
  \A h \in Handler : result[h] = "unauthorized" => since[h].uncovered

\* A clone of a repository that was public all along, and whose probe was
\* answered, is never blocked for lack of an approval.  That is what the comment
\* of GitProxy says (gitproxy.go:43-45: "so a public repo is never blocked for
\* lack of an approval") and what its ServeHTTP does.  DESIGN.md:119-131 does not
\* know this exception: it has the proxy ask for each request, forward only on
\* an allow and with the PAT, and challenge whoever is unauthenticated.
PublicNeverBlocked ==
  \A h \in Handler :
    (req[h].kind = "git" /\ result[h] \in {"challenged", "unauthorized"})
      => \/ req[h].needs \subseteq Writes
         \/ since[h].hidden \/ since[h].unprobed

\* Every request ends, also when the authorization server never answers.
EveryRequestEnds == \A h \in Handler : pc[h] # "idle" ~> pc[h] = "idle"
=============================================================================
