# A TLA+ verification of granular

granular gives an agent narrowly scoped, human-approved, expiring authority over
GitHub. The agent (a *subject*, known by a random token) asks a *resource server*
to sign a grant request, submits a bundle of signed requests to the
*authorization server* as a *proposal*, and a human approver decides it on a
consent page. An approval turns every item of the bundle into a *grant* with a
lifetime. The agent then sends an operation to the resource server, which asks
the authorization server whether the token's live grants allow it and, if so,
executes it.

This directory holds TLA+ models of that system, TLC configurations that check
them on small instances, and proofs that TLAPS checks for every value of the
constants. `PROJECT.json` lists the runs, the source lines each definition
translates, and the hazards the properties are aimed at.

    tlc -config MCGrantStore.cfg MCGrantStore     # one run
    tlapm GrantPromiseProofs.tla                  # one proof module

## 1. Inventory

| Component | Source | State | Operations | What makes it correct |
|---|---|---|---|---|
| Grant store | `authserver/store` | bbolt buckets subjects, proposals, grants; cleanup goroutine | create/destroy subject, create/approve/reject proposal, read grants (deletes expired ones), revoke all, purge | grants only from an in-time approval, once; decisions final; what ended stays ended; lazy expiry never visible |
| Authorization server handlers | `authserver/server/{server,consent}.go` | none of their own: goroutines over the store; admin token, registered secrets, login switch | subject administration, proposal submission, consent page, verification, activity view | only admin manages subjects; only genuine items recorded; only the named approver decides; "allowed" only for what this token was approved |
| Policy evaluation | `authserver/server/eval.go` | none | parse all live policies of the token, authorize every request | all requests allowed by the union of the policies, nothing by none |
| Login | `authserver/server/auth.go` | session secret; state and session cookies in browsers | login, callback, logout, session check | a session proves an email the identity provider verified, for a browser that completed a login it began, until its expiry |
| Process and configuration | `authserver/cli`, `authserver/config` | none | open store, start janitor, listen, shut down | buckets survive restarts |
| Signatures and wire format | `internal/proposal`, `internal/verify` | none | sign, verify | a valid signature pins the policies and the presentation |
| Resource server core | `resourceserver/{server,operation,wire}.go`, `asclient` | none | sign grant request, verify then execute operation | nothing executed without a preceding "allowed" for exactly its requirements |
| Policy language | `resourceserver/{policy,template,schema,present}.go` | schema (constant) | capabilities and templates to Cedar, requirement to entity world | a policy covers what the presentation tells the approver |
| GitHub schema, scope, references | `resourceserver-github/{github,templates,operations_schema}.go`, `internal/{catalog,authz}` | catalog (constant) | action lattice, owner/name scope | selectors match the resources they name |
| Git and REST proxies | `resourceserver-github/{gitproxy,restproxy}.go` | none | probe, verify, forward | nothing forwarded with the server's credential without "allowed" |
| GitHub operations | `resourceserver-github/internal/operations/github` | none here; GitHub's issues and pulls | one or two API calls each | an edit keeps what it was not asked to change |
| Client SDK, CLIs, programs | `client`, `clientcli`, `rscli`, `cmd` | none between calls | sign, submit, run, administer | retries do not exceed the grant |
| Web assets, API documents | `authserver/server/web`, `internal/redoc`, `resourceserver/openapi.go` | none | serve | not behavioural |

How they interact: client → resource server (`/api/sign`, `/api/operations`, git
and REST proxies) over HTTP; client → authorization server (`/api/proposals`,
`/api/subject/me`); resource server → authorization server (`/api/verify`, HMAC
over the body); approver's browser → consent pages; administrator →
`/api/subject`, `/api/activity`. Inside the authorization server the requests,
each in its own goroutine, and the janitor share nothing but the store.

What is hard here:

* **Interleaving.** Handlers make two transactions, or a check and a transaction,
  and hold what the first one read while others go on.
* **Lazy expiry.** Nothing happens at a deadline. A lapsed proposal stays
  "pending" and an elapsed grant stays on file until a reader, a decision or the
  janitor comes by, and four places compare `now` with `ExpiresAt`.
* **Stale authority.** Destroying a subject leaves its pending proposals;
  an operation runs after its verification, not in it.
* **Restarts.** Goroutines die between transactions, the file stays.
* **Lost answers.** Submissions and operations can be repeated by a client that
  never saw the first answer.
* **State in the browser.** The server keeps nothing of a login or a session; all
  of it is in cookies that several tabs overwrite and answers set when they arrive.
* **One right, four tellings.** A grant is a policy for Cedar, plain words for the
  approver, an entity world for the question and a route or an operation that
  asks it; nothing but care keeps the four in agreement.

## 2. Modules

| Module | Models | Role |
|---|---|---|
| `GrantStore` | `authserver/store/store.go` | detailed specification of the store |
| `GrantPromise` | – | abstract specification of what the store promises |
| `AuthServer` | `authserver/server/{server,consent,eval}.go`, `authserver/cli/cli.go` | the handlers over `Store == INSTANCE GrantStore` |
| `ResourceServer` | `resourceserver/server.go`, `asclient`, `resourceserver-github/{gitproxy,restproxy}.go` | requests between the authorization server (`AS == INSTANCE GrantPromise`) and GitHub |
| `GitHubOperations` | `resourceserver-github/internal/operations/github` | what each operation states and then does on GitHub, among other operations and other people |
| `PolicyLanguage` | `resourceserver/{policy,template,present,schema}.go`, `handleSign`, `authserver/server/eval.go` | pure: what is signed for a grant request, what is asked for a right, and the answer; the schema is its parameter |
| `GitHubPolicy` | `resourceserver-github/{github,templates,restproxy,gitproxy}.go`, `internal/{catalog,authz}`, `Requirements` of the operations | `INSTANCE PolicyLanguage` with GitHub's vocabulary; the routes |
| `SignedRights` | one token between signing, approval and the three ways to GitHub | state machine over `GitHubPolicy` |
| `Login` | `authserver/server/auth.go` | logins, callbacks, sessions, browsers, restarts |
| `SessionPromise` | – | abstract specification of who is signed in |
| `MCGrantStore`, `MCAuthServer`, `MCResourceServer`, `MCGitHubOperations`, `MCSignedRights`, `MCLogin` | – | instances for TLC |
| `GrantStoreProofs` | – | invariants and action properties of `GrantStore`, proved |
| `GrantPromiseProofs` | – | `GrantStore` implements `GrantPromise`, proved |
| `AuthServerProofs` | – | `AuthServer` implements `GrantStore`; its invariants and action properties, proved |
| `ResourceServerProofs` | – | the safety invariants of `ResourceServer`, proved |
| `LoginProofs` | – | the invariants of `Login`, proved |
| `LoginPromiseProofs` | – | `Login` implements `SessionPromise`, proved |
| `GitHubOperationsProofs` | – | the invariants and action properties of `GitHubOperations`, proved |
| `SignedRightsProofs` | – | the invariants of `SignedRights`, over lemmas about `PolicyLanguage` and `GitHubPolicy`, proved |

### GrantStore

Every method of `Store` is one bbolt transaction. bbolt runs write transactions
one at a time and commits each as a whole, so each method is one action. The
three buckets are the variables `subjects`, `proposals` (a function from the ids
in use to records) and `grants` (a set). `minted` remembers every token ever
drawn, which is how "a random token never repeats" is said. `janitor` is the
goroutine of `StartCleanup`, `now` the wall clock.

| Code | Action |
|---|---|
| `CreateSubject`, `DestroySubject`, `RevokeGrantsForToken` | the same names |
| `CreateProposal` | `CreateProposal`; `at` is the clock reading made before the transaction waits for the write lock |
| `Approve`, `Reject` | the same names; `DecideError` is their sequence of early returns, `FailDecision` the outcome they share, including the lapse that is *stored* before the error is returned |
| `SubjectForToken` | the same name; it deletes as it reads, and returns `ActiveGrants` |
| `AllGrants`, `AllProposals`, `GetProposal` | operators: they change nothing |
| `PurgeExpired`, `StartCleanup`, `Close` or a crash | `PurgeExpired`, `StartCleanup`, `Stop` |

Abstractions: a signed request is a member of `Item`; the id of a grant is its
proposal and item instead of a fresh uuid, and a bundle is the set of its items, where
the code keeps a list in which an item may stand twice and is then granted twice, for
the same token and lifetime; a transaction reads the clock once,
where the code reads it again for every grant of an approval, so that "at the
same instant" here means "within one transaction" there; the clock does not run
backwards; a failing database call (which rolls everything back) is a step that
does not happen.

### GrantPromise

Four variables and five actions: a server that watches the clock all the time,
where a proposal is expired and an authority over at the very instant (`Elapse`
ends them), an authority comes only from permitting a pending proposal, and
revocation takes everything a token holds. It has no janitor, no stored status
and no deletion on read. `GrantStore` implements it under the mapping

    standing  <- Standings   the status through ShownStatus (consent page, activity view)
    request   <- Requests
    authority <- InForce     the grants that pass the Live test of every reader

so `KeepsPromise == Promise!Spec` says that laziness never shows: sweeping,
deleting on read and storing a lapse are stuttering steps, and a tick of the clock
alone, which writes no bucket, must end exactly what is due.

### AuthServer

Requests run in goroutines, the members of `Handler`, with `pc`, `req`, the
`memo` of what an earlier transaction returned, and `result`. A handler is one
action up to and including its first look at shared state and one more for each
later one:

| Handler | Actions |
|---|---|
| `handleCreateSubject`, `handleDestroySubject`, `handleVerify` | one |
| `handleGetSubject`, `handleGetMySubject` | check the subject; `ReadGrants` |
| `handleRevokeMyGrants` | check the subject; `RevokeGrants` |
| `handleProposal` | check the subject, body and signatures; `StampProposal` (the clock reading); `RecordProposal` |
| `handleApproveSubmit` | session, `GetProposal`, gate, form; `Decide` |
| `handleActivityAdmin` | grants; `ReadHistory` |

`Boot` starts the janitor and the listener, `Crash` loses every goroutine and no
bucket, `Reply` ends a request. A request refused before it touched anything
changes nothing and is answered at once. `Genuine` are the items whose HMAC
verifies, `Unparsable` those whose policies Cedar cannot parse. What an item
allows is the item itself, so an operation needs a set of items; Cedar over
entities is in `PolicyLanguage`. The session is an input: the email it proves, or
`NoOne`; that it is proved is `SessionIsProved` of `Login`.

Bounds written into the module: `FreshIdLeft` (a proposal is begun only while an
id is left for it; uuids do not run out), `Ops` (the kinds of request an instance
serves), `MaxTime`.

### ResourceServer

The operations endpoint, the git proxy and the REST proxy keep no state; a
request is a goroutine with `pc`, its `req` (the rights it needs, the calls it
will make) and the `verdict` on its way to it. Because question, answer and act
are separate messages, each is an action:

| Code | Action |
|---|---|
| `handleOperation`, `RESTProxy.ServeHTTP`, `GitProxy.ServeHTTP`, up to the first message | `HandleOperation`, `RESTServeHTTP`, `GitServeHTTP` |
| `publiclyCloneable`: GitHub's answer; what is made of it | `Probe`; `PubliclyCloneable` |
| `/api/verify` evaluates, at an instant of its own | `HandleVerify` |
| `Verify` and `Authorize`: the answer; a timeout, lost message or vanished client | `Authorize`; `VerifyFails` |
| `op.Execute`, `proxy.ServeHTTP` with `direct`: one call to GitHub | `Execute`, with `Credential` and `GoOn` |
| the process ends and starts | `Restart` |

The authorization server is `GrantPromise`: the proofs that `GrantStore`
implements it and that `AuthServer` implements `GrantStore` are what entitles
this module to use nothing more. `AuthorityMoves` lets it permit, revoke and
elapse between any two steps of a request. GitHub is external: `Admits` (the PAT
opens everything, no credential opens reads of public repositories), `Effect` (a
write, or content shown), failing or losing the answer of any call after or
before it had its effect, and `ChangeVisibility` at any time.

What a request needs is an input, any set of rights, and the model takes it that
an operation only exercises rights it has stated in `Requirements`; whether each
operation does is the question of `GitHubOperations`.

`since` is an observer: for each request under way it records whether its rights
were covered, fell short, or its repository was hidden, at some instant since it
arrived. The properties need it because they are about what was true *during* a
request: a grant revoked after the verification does not make the execution
wrong, one revoked before the request came does. No action reads it.

### GitHubOperations

The other half of executing an operation: not whether it is allowed, but what it
does once it is. A factory of `internal/operations/github` is an operator of the
same name; it refuses its parameters (`BadRequest`) or yields a record of `needs`,
what `Requirements` returns, and `calls`, what `Execute` sends, in order. A right
carries the `parts` of its content; where it is asked for, what is seen of them is
`Context`, the `contentHash` of the parts, or for a merge the parts themselves. Two
requests are approved by the same grant if their rights read the same there
(`AsksTheSame`), whatever their parts are. The hash is computed as in the code: the
`Bytes` of each part and a zero, then the `Digest`; the names of a list in an edit are
one part, their `Join`. The three are constants of which nothing is assumed, neither
that a text holds no zero, nor that a name holds no comma, nor that the 48 bits which
are kept tell two texts apart. `ApprovedExactly` therefore names the contents that it
is about, those that are `ToldApart`. The instance of TLC has one of each kind of
confusion: the labels "bug", "bug" and "bug,bug", a title that reads like a title and a
body, and two comments with one digest.

| Code | Action |
|---|---|
| `handleOperation`, `Registry.Build` | `HandleOperation` |
| one `getJSON` or `getRaw` | `GetJSON`: answered, or the operation fails |
| one `postJSON`, `patchJSON` or `putJSON` | `SendJSON`: done and answered, done with the answer lost, or neither |
| the payload of an edit | `Payload`, with `ApplyAddRemove` on the lists that were read |
| the response | `Reply` |

GitHub is external: `items` are its issues and pull requests, `Outcomes` what its
endpoints for writing make of them (a merge needs an open pull request and, if
one was sent, the right head; the issue endpoints take pull request numbers),
`OthersMove` what other people and pushes do between any two calls. A call that
GitHub carries out after the client of the API gave up counts as done before.
Reading an item gives its lists in some order, which nothing depends on. Left
out: the filters of the two lists.

`ChangesAreStated` compares what an item becomes, field by field, with the content of
one right of the operation: a title, a body, a base or a draft mark with the part that
holds it, the labels of an issue that is created with the parts of its list, an edited
list with what was read of it, changed as the four joined parts say. The reason of a
close is the exception, because the right carries none. The head in
`MergesApprovedHead` is the one that the operation states in its requirement; that no
policy compares it is the finding of `policy_content`.

Bounds written into the module: `MaxPosts`, the comments and reviews an item
takes, and `Number`, the numbers GitHub gives to new items.

### PolicyLanguage and GitHubPolicy

Pure definitions, parameterised by the schema as the SDK is. A policy is the record of
what its text says (principal, actions, scope, conditions), an entity a pair of a
type and an id, a repository the pair of its owner and its name.

| Code | Operator |
|---|---|
| `handleSign`, `policiesFromCapabilities` with `buildPresentation`, `expandTemplate` | `HandleSign`, `PoliciesFromCapabilities`, `ExpandTemplate`: policies and what the approver is `shown`, or `Refused` |
| `scope`, `actionLabels`, `resourceTypeName`, `ActionLattice` | `Scope`, `ActionLabel`, `ResourceTypeName`, `ActionLattice` |
| `verifyRequests`, `verifyWorld` with `addResource` | `VerifyRequest`, `VerifyWorld` with `Vocabulary` and what a chain has `Said`; of several `Places` that mention an entity the first counts |
| `evaluate` | `Evaluate`: no policies or no requests are a refusal, one text that does not parse is an error, every request is needed |
| `apiRoutes` and `match`, `requirementFor`, `resourceFromPath`, `serviceAction` | `Route` and `Mapped`, `RequirementFor`, `ResourceFromPath`, `ServiceAction` |
| `Requirements` of the operations, and the calls they send | `Requirements`, `CallsOf` |

Cedar is external: `Above` is its `in` (the first of the `Steps` upwards that is `Closed`), `Holds` its conditions (an attribute that is
missing is an error, and the permit does not apply), `Parses` its parser. `Garbled` are
the strings that Go's quotation, which `entityLiteral` uses, writes in a way that Cedar
does not read. `Says` is the sense of the catalog's descriptions: the actions that
"Everything readable: list/view, clone, read comments", and so on, names. It takes
"Read an issue's comments" (catalog.go:97) to speak of the conversation of a pull
request too, which `pull.view` reads under the same action. It is the
only definition that translates English; the properties about what was shown rest on
it. Template summaries and titles are wording and left out.

### SignedRights

`grants` are the signed grants of one token, `last` the last request with the rights
it needed and the verdict. Clients ask for anything in `GrantRequests`, humans approve,
grants run out and are revoked; then the token is presented with an operation, a call
of the REST proxy or a git request. Question and answer are one step: what can come
between them is the subject of `ResourceServer`. `MaxGrants` bounds the grants at a
time. `AtGitHub` says what is true of an issue at GitHub and is used by one property
only, since the code never asks. `RequestsAssumption` is what the handlers have checked
before anything is decided: capabilities and paths are sequences, a repository is an
owner and a name, an operation is one that the registry knows.

### Login

The server has only its `secret`; everything else is in the cookies (`jar`), in
requests under way (`work`) and at GitHub (`codes`). `logins`, `visits` and `proved` are
records of what happened; the code reads none of them, except that the number of a login
stands for its random state.

State and code are two parameters of a callback, and the code ties neither to the other:
it compares the state with the cookie and exchanges whatever code came with it. So a
code of the model is an account's and belongs to no login, `Consent` makes one as soon
as any login has reached GitHub, and `HandleCallback` takes every state with every code.
What a session then proves is what `SessionIsProved` says: this browser completed a login
that it began (by the state), and the email is one that GitHub holds verified for the
account whose code came along, the primary one where that is verified (`MayBeNamed`).
That the account consented in this very login is not claimed, by no property and no
theorem.

| Code | Action |
|---|---|
| `handleLogin`, `handleLogout` | the same names; their answer is pending until `Deliver` |
| `handleCallback` up to the exchange | `HandleCallback`, which reads the cookie as the browser sent it, with any state and any code; `BadRequest` are its early returns |
| `exchangeCode` | `Exchange`: answered, refused, or the answer lost with the code used up |
| `fetchEmail`, `sessionCookieFor`, the redirect | `FetchAndSign`, or `BadGateway` |
| `sessionEmail` | `SessionEmail`, evaluated in every state |
| `NewAuthenticator` at a start | `Restart`; another `secret` unless one was `configured` |

Browsers and GitHub are external: an answer changes the cookies when it is delivered,
not when it is written, or is lost (`Lose`); a browser may open a callback address that
another one was sent to, and put another code in it; anybody may consent once a login reached GitHub;
`Tick` drops cookies after their last second. `Unfit` are emails with a "|", which
`splitSession` takes for a separator: such a session is signed and never valid. Bounds
written into the module: `MaxTime`, `MaxCodes`, `MaxCallbacks`, `MaxRestarts`, one
login per element of `Asked`, none of them begun, or consented to, when the clock has
reached `MaxTime`, and a logout without a session only when everything else
is over. Left out: what Go's cookie writer drops from a destination (quotation marks,
semicolons, backslashes, controls), so `CompletesOwnLogin` is about destinations without them.

### SessionPromise

Who is signed in, as a table: a browser is signed in by using up a proof that was made
for it and stays so until it signs out or in, the lifetime is over or the secret
changes. There are no cookies, states, tabs or codes in it. `Login` implements it under

    era    <- secret
    who    <- the valid, readable session cookie of each browser
    proofs <- the answers under way that carry a session

so that `KeepsPromise == Promise!Spec` says that a failed callback, a stale tab, a
restart with the same secret or a late answer never signs anybody in or out, and that
a cookie which the browser still sends after its end counts for nothing. Of what a
proof was made, in particular whose code it took, the table says nothing.

### Seeded faults

Each property must be breakable by a plausible mistake in the code. The
definitions commented "Seeded fault" are such mistakes; `PROJECT.json` pairs each
with the definition it stands in for, and the property it must break. They are
not part of any specification.

## 3. Runs

| Run | Instance | Shows |
|---|---|---|
| `store` | 2 tokens, 2 proposals, 2 items, request window 1, lifetimes {1, 2}, clock to 2, with fairness (157 950 states) | types, `GrantsAreBacked`, `GrantedOnce`, `DecisionsAreFinal`, `RevokedForGood`, `KeepsPromise`, `NoProposalLingers`, `NoGrantLingers` |
| `auth_requests` | 2 handlers, 2 tokens, 1 proposal, 2 approvers, one of them written with a capital, a genuine, a forged and an unparsable item, every request but the activity view, clock to 2 (915 126 states under symmetry) | types, `AllowedMeansApproved`, `RecordedIsGenuine`, `OneDecisionTold`, `OnlyAdminManagesSubjects`, `NamedApproverDecides`, `UsesStore` |
| `auth_live` | 2 handlers, 1 proposal, every request, the activity view against decisions and destructions (29 150 states) | `ActivityIsCoherent`, `EveryRequestAnswered` |
| `resource` | 1 request at a time, a right to read and one to write one repository, 2 proposals, clock to 1, up to 2 calls per operation, with fairness (999 170 states) | types, `NothingWithoutAuthority`, `DeniedMeansUncovered`, `PublicNeverBlocked`, `EveryRequestEnds` |
| `gh_operations` | 1 operation at a time among other people; a repository that starts empty and gets one issue or pull request, 2 labels, 2 heads; 40 requests, every operation among them, with contents that the hash or the commas confuse (874 834 states) | types, `ApprovedExactly`, `ChangesAreStated`, `UndisturbedEditIsExact`, `MergesApprovedHead`, `WholeAnswers` |
| `policy` | the whole catalog; sets of up to 2 of the 28 grants that 46 requests ask for, on 4 repositories of 3 owners; 43 operations, 32 REST calls and 9 git requests (33 374 states) | types, `AllowedWasShown`, `ShownIsAllowed`, `JointIsEach`, `FailsClosed`, `SameAsOperation` |
| `login` | 2 browsers, 2 handlers, 2 logins, one of them to a foreign address, 2 codes, 2 callbacks, a restart, lifetimes 1, clock to 2, accounts with unverified, secondary and unfit emails (1 402 173 states under symmetry) | types, `SessionIsProved`, `CompletesOwnLogin`, `SoleLoginSucceeds`, `KeepsPromise` |
| `auth_destroyed`, `gh_lost_update`, `gh_create_hash`, `policy_content`, `policy_template` | those of the passing run of the same module, or smaller | **violated**: see Findings |

Why the bounds are enough. Tokens, proposals and items are only compared for
equality: two of each give a same and a different one, for every pair a property
quantifies over. Transactions are atomic, so what can go wrong between handlers
goes wrong between two of them: one that holds a stale reading and one that
moves on; a third only repeats the role of the second. Times matter through `<`
and `=` against two deadlines; a window of 1 leaves the instant before a deadline and
the deadline itself, lifetimes of 1 and 2 tell deadlines apart, and the clock runs
past every deadline that can be set early. The safety properties of the store and of
the resource server are proved for all constants (section 4), so these two runs carry
the liveness questions as well, rather than larger bounds. `auth_live` and
`auth_requests` serve different requests, each with everything that writes
what they read. Requests to the resource server share no state at all, so one
goroutine, serving one request after another, meets everything that two would;
two proposals let one authority end while another begins. An operation on
GitHub touches one item and depends on others only through that item, so one
number that is now an issue, now a pull request, and one operation with
`OthersMove`, which can do to lists, status and head whatever another operation
could, give every race between a read and a write; each shape of a context has at
least two requests that differ in one of its parts.

The policies of a token are only ever united, and an answer needs for each right one
policy: two grants are one that covers and one that does not, or two that each cover
one of two rights. Every group of the catalog is granted, on one repository and on
all of its owner, and every action is needed by some request, on that repository,
another one of its owner or one of another owner; there is no third level. In the login, two logins of one browser are a stale and a current tab, two
browsers the owner of a callback address and somebody it was copied to; a second
callback finds what the first left, used-up codes included; two codes are the one
that belongs to a state and one that does not. The clock passes the last
second of a session that was begun at once, and reaches that of one begun a second
later.

Fairness. The two liveness questions assume what the program does schedule.
`WF(PurgeExpired)`: a running ticker keeps firing; `WF(Tick)`: time passes. Nothing
obliges anyone to keep the server up, so both properties are conditional on the
janitor running from some point on. `WF(Continue(h))`: the Go scheduler runs every
runnable goroutine, and a handler takes no lock it could wait for forever (bbolt's
write lock is released by every transaction). No request is assumed to arrive.
In the resource server `WF(Proceed(h))` leaves out `HandleVerify`: the
authorization server may never answer, and the request still ends because
`asclient` gives up after fifteen seconds. The probe gives up after ten and an
operation's call to GitHub after thirty; what the proxies forward has no timeout
in the code, so there the property assumes that GitHub, or the client, ends the
connection.
Because the clock of a model stops at `MaxTime`, the store's liveness properties
speak of deadlines up to it.

`Login` and `SignedRights` have no liveness property: a login that is not finished, or a
question that is not asked, is a human's choice.

### Findings

`auth_destroyed` checks what README.md:157 ("revoke a token and its grants"),
DESIGN.md:96 and store.go:433 say of destroying a subject: afterwards the token is
allowed nothing. TLC refutes it in five requests: create a subject, submit a
proposal, destroy the subject, approve the proposal, verify. `DestroySubject`
leaves pending proposals, `Approve` does not look at the subjects, and
`handleVerify` does not ask whether the token exists.

`gh_lost_update` checks what issue_edit.go:16-17 says of `issue.edit`: label and
assignee changes are "add/remove sets applied to the issue's current values". The
code applies them to the values it read and writes the whole list, so what
somebody else changed in between comes back. `UndisturbedEditIsExact`, which
holds, says what is left: the edit is exact if the list is as it was read.

`gh_create_hash` checks issue_create.go:64-66, "approving one issue does not
authorise creating a different one": the hash runs over labels followed by
assignees without a mark between them, so two different issues state the same
requirement. `ApprovedExactly` holds for every other operation but `issue.close`, as far
as the hash and the commas tell contents apart.

`policy_content` checks the same sentence for grants as they are signed, and with it
restproxy.go:146-147, "so a grant authorizes only that body": the hash travels with
the question as context, but no policy that the SDK writes has a condition on the
context, so a grant of `issue.create` allows every content. (The two findings are
independent: one is about what the hash tells apart, the other about nobody looking
at it.)

`policy_template` checks templates.go:32, "Comment on the open issues of a repository,
optionally only those carrying a label." The condition is on attributes of the issue,
and nothing in `resourceserver-github` sets the attributes of a reference, so the
permit never applies: the grant is signed, shown, approved and useless.

Seen on the way and covered by no run, because no property of the model would say more
than the lines themselves:

* DESIGN.md:119-131 says of the git proxy that "for each request" it asks the
  authorization server, that "only on an allow" it forwards, with the PAT, and that "an
  unauthenticated request is met with a `401`". The code forwards a read of a publicly
  cloneable repository before it looks for a token, unasked and without the PAT
  (gitproxy.go:112-117), as the comment at gitproxy.go:43-45 announces: "A read of a publicly cloneable
  repository is the exception". Code and comment agree, so
  `PublicNeverBlocked` is taken from them and passes; by DESIGN.md it would be
  false. `NothingWithoutAuthority` holds for both: what
  goes out without a grant goes out without the credential too, and shows only what
  GitHub shows to anybody at that instant.
* issue_edit.go:96-97 says "approving one edit does not authorise a different one". An
  edit that adds the labels "a" and "b" and one that adds "a,b" have the same hash,
  because the names are joined with commas (issue_edit.go:110-115); for all operations,
  a part may hold the zero that ends a part, and 48 bits of the hash are kept
  (api.go:192-198). `ApprovedExactly` says what is left.
* catalog.go:101 scopes `issue.close` "per issue (+reason)", while its requirement
  carries no reason.
* auth.go:255-260 promises of `fetchEmail` "the primary, verified" email and an error
  "when no verified primary email exists", and auth.go:51-52 "the signed-in user's
  verified primary email"; the code falls back to another verified one
  (auth.go:291-295). `SessionIsProved` is about what the code does.
* README.md:122 binds `repo=` in a template whose parameters are `owner` and `name`,
  which `ExpandTemplate` refuses; README.md:127 asks for `repo.read`, which the catalog
  does not have; catalog.go documents owners and names as globs, while `scope` takes
  them literally.

## 4. Proofs

Assumed: `RequestTTL` is a positive natural number, the lifetimes are positive natural
numbers (`parseTTL` replaces anything else by the default), `MaxTime` is a
natural number (`StoreAssumption` repeats the three where the store is an
instance); `Genuine` and `Unparsable` are sets of items, `Lower` maps every
non-empty spelling to an approver, and `NoOne` is not one. Nothing is assumed
about the sizes of the constant sets.

**The store**

| Theorem | States | Argument |
|---|---|---|
| `TypeCorrect` | `Spec => []TypeOK` | inductive as it stands; one step per action, with lemmas for the failing decision and the new grants |
| `DecisionsFinal` | `Spec => DecisionsAreFinal` | a proposal changes only in a decision that finds it pending, or a sweep that finds it lapsed and therefore pending |
| `Backing` | `Spec => []GrantsAreBacked` | inductive with `TypeOK`: old grants stay backed because proposals once approved are never written again (`BackingKept`, from `DecisionsKept`), new ones are backed by the proposal approved with them, in time because `DecideError` was "none" |
| `SpentOnce` | `Spec => []GrantedOnce` | needs `GrantsAreBacked` to be inductive: a proposal about to be approved is pending, so no grant on file comes from it |
| `NoReturn` | `Spec => RevokedForGood` | only a successful `Approve` adds grants |
| `KeepsItsPromise` | `Spec => KeepsPromise` | refinement: `PromiseInit`, and `PromiseStep` with one lemma per transaction: create is `Ask`, a decision in time is `Permit` or `Refuse`, revoke and destroy are `Revoke`, a tick is `Elapse`, everything else is invisible |

**The server**

| Theorem | States | Argument |
|---|---|---|
| `ServerUsesStore` | `Spec => UsesStore` | the invariant `Goroutines /\ Tokens`: what a goroutine carries between two transactions (`Carries`: a minted token, genuine items, a past creation time) is still good when it gets there; without it `RecordProposal` would not be a step of the store |
| `ServerTypeCorrect` | `Spec => []TypeOK` | the store's part from `TypeCorrect`, the rest from `Goroutines` and `Answers` |
| `OnlyGenuineRecorded` | `Spec => []RecordedIsGenuine` | a new proposal is what its goroutine carried, an old one keeps its items (`KeptFields`) and its token stays minted |
| `AdminOwnsSubjects` | `Spec => OnlyAdminManagesSubjects` | only two handlers write the bucket, both behind `RequireAdmin` |
| `OnlyApproverDecides` | `Spec => NamedApproverDecides` | needs `Gated`: a goroutine about to decide names an existing proposal whose approver it still is, because no step rewrites an approver; a sweep cannot approve or reject |
| `OnePageTellsTheDecision` | `Spec => []OneDecisionTold` | a decision finds the proposal pending (`DecideTells`), whereas every page that was told something finds it decided |
| `AllowedIsApproved` | `Spec => []AllowedMeansApproved` | at the verification each item needed is that of an active grant, which is backed; afterwards approved proposals stay as they are |
| `ActivityCoherent` | `Spec => []ActivityIsCoherent` | needs `Listing`: the grants already read belong to proposals that are approved and stay so until they are read too |

The last six stand on `Ground`, the conjunction of `Goroutines`, `Tokens` and the
store's `TypeOK` and `GrantsAreBacked`. The latter two are not proved again:
`ServerUsesStore` makes the server's behaviours behaviours of the store, and the
instance `Proved` of `GrantStoreProofs` brings that module's theorems
(`SameNext`, `SameType`, `SameBacked` and `SameKept` identify its operators with those
of `Store`).

**The resource server** (assumed: every item belongs to a repository, `NoToken`
is not a token, `MaxCalls` is positive; nothing about the authorization server)

| Theorem | States | Argument |
|---|---|---|
| `ResourceTypeCorrect` | `Spec => []TypeOK` | needs `Clean`: a request at work has calls left to make |
| `OnlyWithAuthority` | `Spec => []NothingWithoutAuthority` | needs `Told` (an "allowed" on its way was true when given, and the request has not ended since) and `Entitled` at the place between answer and act; on the anonymous way no PAT is sent, and what GitHub admits without one is a read of what is public at that instant |
| `DenialsAreTrue` | `Spec => []DeniedMeansUncovered` | the other half of `Told` |
| `PublicStaysOpen` | `Spec => []PublicNeverBlocked` | `Blocked`: a clone gets as far as the question only after a probe that did not succeed, hence was hidden at that instant or not answered |

All four rest on `Inv == TypeOK /\ \A h : Good(h)`, one lemma per action for the
goroutine that moves and `Bystander` for all others.

**The login** (assumed: the two lifetimes are positive natural numbers, `Asked` and
every account's emails are sequences, "/" is a local path; nothing about how many
browsers, accounts, requests or restarts there are)

| Theorem | States | Argument |
|---|---|---|
| `LoginTypes` | `Spec => []TypeOK` | from `Inv` |
| `SessionsAreProved` | `Spec => []SessionIsProved` | needs `JarGood` and `WorkGood`: every session cookie, in a jar or in an answer under way, goes back to an element of `proved`, a login of the browser it is meant for and an account that may be named so (`FetchedMayBeNamed`); nothing relates the login to the code, and the theorem does not need it |
| `LoginsCompleteTheirOwn` | `Spec => []CompletesOwnLogin` | needs `OwnState`: a callback past its check carries the state of a login of its own browser, which `HandleCallback` establishes by comparing the state with the cookie, and `Begun`: a state cookie names a login of the browser that holds it |
| `SoleLoginsSucceed` | `Spec => []SoleLoginSucceeds` | needs `Awaited`: a browser that went to GitHub from its only login, and has not come back, still holds the state cookie of that login; and `Came`, `Excused` for the callback that is answered later |
| `SessionsKeepTheirPromise` | `Spec => KeepsPromise` | refinement, one lemma per action: `FetchAndSign` is `Prove`, `Deliver` of an answer with a session cookie `SignIn` or `SignOut`, `Lose` and `Restart` are `Void` or `NewSecret`, `Tick` is `TimePasses`; all else is invisible |

The inductive invariant is `Inv`: types (`Base`, `JarTyped`, `WorkTyped`), `JarGood`
and `WorkGood` (cookies and answers say what is true), `Awaited`,
`Came` and `Excused`. The properties alone are not inductive, because they speak of
cookies that were delivered, or of answers, and both are made of what a
goroutine carried for several steps before. `p.at <= now`, for everything that was
proved, is in `Base` because a proof made in the future would outlive the session's
lifetime.

**The operations on GitHub** (assumed: numbers are positive, `MaxPosts` is a natural
number, and `RequestsAreMade`: every request is what one of the twenty factories makes
of some parameters, fields among those it knows, and lists of labels and users)

| Theorem | States | Argument |
|---|---|---|
| `RequestsAreServed` | `Spec => []TypeOK` | needs that a list read from GitHub, changed and written back has labels or users in it only (`ChangedList`), and that GitHub makes items of items |
| `AnswersAreWhole` | `Spec => []WholeAnswers` | needs `Got`: at call i everything has been read that the calls before i read |
| `WritesAreStated` | `Spec => ChangesAreStated` | `MadeShaped`: an operation of any factory writes in its last call only and needs just one right then, and the content of that right holds whatever the call `Sends`, part by part; `StatedChange` and `StatedCreation` carry this through `Payload` and `Outcomes`, to the value that GitHub ends up with |
| `PinnedHeadIsMerged` | `Spec => MergesApprovedHead` | a head in the context is the head in the call, and GitHub compares it |
| `UndisturbedEditsAreExact` | `Spec => UndisturbedEditIsExact` | `ChangedList`: the members of `ApplyAddRemove` are the old ones without those to remove, and those to add; by induction over the length of the lists (`AllNumbers`) |
| `ApprovalsAreExact` | `Spec => []ApprovedExactly` | `SameNeedsAre`: rights that read the same and are told apart are the same. `MadeBy`: the action of a right tells which factory made the operation; then one lemma per factory (`SamePullEdit`, `SameMerge`, and so on) that its context determines its calls. The parts of `issue.edit` come apart because the last four are always there (`Apart`), those of a field because they carry its name (`SameTagged`) |

`RequestsAreMade` is a hypothesis of these theorems, not an assumption of the model: the
code has no other source of operations than `Registry.Build`, and the requests of
`MCGitHubOperations` are applications of the factories. The inductive invariant is
`ItemsTyped /\ VariablesTyped /\ \A h : Work(h)`.

**Signed rights** (assumed: `RequestsAssumption`; nothing about which grants and
requests there are, how many grants a token has, which strings are `Garbled` or what
is true at GitHub)

| Theorem | States | Argument |
|---|---|---|
| `SignedRightsTypes` | `Spec => []TypeOK` | from `Inv` |
| `NothingUnseenIsAllowed` | `Spec => []AllowedWasShown` | `AuthorizeIs`: an answer is "allowed" exactly if every policy can be read and every right is `Covered` by a description that was shown |
| `NothingShownIsLost` | `Spec => []ShownIsAllowed` | the other direction of `AuthorizeIs`, and that a right for an action outside the catalog is never covered |
| `JointQuestionsAreSeparate` | `Spec => []JointIsEach` | `AuthorizeIs` for the whole question and for each part; coverage is a matter of one right at a time, and whether policies parse does not depend on the question |
| `UnmappedFailsClosed` | `Spec => []FailsClosed` | the fallback asks for "GET" and the like, of which nothing in the catalog, hence no policy, is above (`NothingAbove`, `UnknownIsDenied`) |
| `WaysAreDecidedAlike` | `Spec => []SameAsOperation` | a mapped call is one of an operation that asks for the same action on the same repository (`MappedIsOperation`); an answer depends on action and resource only (`SameDecision`) |
| `MoreGrantsAllowMore` | more grants allow more, as long as their policies can be read | what is permitted is permitted by one policy of the union |

The inductive invariant is `Inv`: every grant is `Explained` (each policy `Described` by
a detail that the approver was shown: same actions, all of the catalog, same scope, same
conditions) and the last verdict is `Answered` (the answer for the current grants,
which do not change before it is given). It is inductive because `HandleSign` only
makes explained grants (`SignedIsExplained`), in either of its two forms. What remains is
about the operators. `AboveIs` says that a set which has the entity, is
closed upwards and is reached in two steps is the closure: `Steps` is monotonic and the
search for the first closed step cannot go on. With it the closure of an action
(`ActionAbove`: itself, its group, the group of its group) and that of a resource
(`ResourceAbove`: itself, the repository, the owner; `ChainIsKnown` shows that the world
says of each of them what its chain says, whatever else it holds) are sets that the
prover can compare with the catalog's plain words (`GroupSaysMore`) and with the scope
(`ScopeCovers`). `PermitsWhatIsNamed` puts them together: a policy permits a right
exactly if its description names it and its conditions are true.

Only model-checked: the two liveness properties of the store, `EveryRequestAnswered` and
`EveryRequestEnds`, because liveness under fairness is out of the prover's reach. Every
other property that a passing run checks is proved. The properties of the violated runs
are false and have a counterexample each.

## 5. Not modelled

* Cryptography and encoding (HMAC, JSON, the form of cookies): a signature verifies or
  not, a random token is never guessed.
* Cedar beyond what the policies of this repository use.
* Database errors, request bodies cut at 1 MiB, page rendering, logging.
* The approver's home page: a read of `AllProposals` filtered by email.
* A wall clock that is set back.
* Several resource servers at one authorization server, whose policies `handleVerify`
  would evaluate together.
* Command-line programs, the client SDK, configuration reading, static assets: they
  keep no state between two invocations. What a client may send is what the models
  receive. `internal/redoc/redoc.standalone.js` is a vendored bundle that renders API
  documents.

The map names 3 257 of the 10 863 lines, comments included, of the repository's Go code
without its tests. The rest is, for the most part, the documentation comments of the
mapped functions and the components that are not modelled.

## 6. Plan

In order of what matters most next:

1. **Login with AuthServer**: the session an approver presents taken from `Login`
   instead of an input.
2. **Client**: the retry of a proposal or an operation whose answer was lost, once a
   document says what it should do.
