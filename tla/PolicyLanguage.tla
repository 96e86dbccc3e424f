--------------------------- MODULE PolicyLanguage ---------------------------
(***************************************************************************)
(* What a resource server makes of a request for a grant and of a question *)
(* about a right, and how the authorization server answers the question    *)
(* from the grants: the SDK's policy generation, templates, presentation   *)
(* and verify world, and the evaluation on the other side of the wire.     *)
(*                                                                         *)
(* The schema of the platform is the parameter, as it is in the SDK.  A    *)
(* policy is the record of what its text says, an entity a pair of a type  *)
(* and an id, an id the tuple of its parts.  Cedar itself is external.     *)
(***************************************************************************)
EXTENDS SequencesExt

CONSTANTS
  Agent,       \* the entity of the principal
  ActionType,
  Groups,      \* group -> its parent groups
  Actions,     \* action -> its parent groups
  Says,        \* action or group -> the actions its description names
  EntityType,  \* resource type -> its entity type; partial
  Title,       \* entity type -> the human name of the resource
  Scope(_),    \* selector -> the entity it is about and the label of that
  NoScope,     \* ... or that there is none
  Templates,   \* name -> template; partial
  Like(_, _),  \* Cedar: does a string match a pattern?
  Garbled      \* strings whose quotation Cedar cannot read

-----------------------------------------------------------------------------
(* The vocabulary.                                                         *)

\* An action hides a group of its name.
ActionLattice ==
  [name \in DOMAIN Actions \cup DOMAIN Groups |->
     IF name \in DOMAIN Actions THEN Actions[name] ELSE Groups[name]]

HasAction(name) == name \in DOMAIN ActionLattice

\* A type the schema does not know has the empty entity type.
ResourceEntity(type) == IF type \in DOMAIN EntityType THEN EntityType[type] ELSE ""

ActionEntity(name) == <<ActionType, <<name>>>>

At(f, x) == IF x \in DOMAIN f THEN f[x] ELSE ""

-----------------------------------------------------------------------------
(* Grant requests.  Nothing is signed of one that asks for something the   *)
(* schema does not have.                                                   *)

Refused == [policies |-> <<>>, shown |-> <<>>]

Permit(actions, scope, when) ==
  [principal |-> Agent, actions |-> {ActionEntity(a) : a \in actions},
   resource |-> scope.entity, when |-> when]

\* A kind of resource without a title goes by its key.
ResourceTypeName(key) == IF key \in DOMAIN Title THEN Title[key] ELSE key

\* What is not described is shown by its name.
ActionLabel(a) == IF a \in DOMAIN Says THEN Says[a] ELSE {a}

\* What the approver is shown of a grant.
GrantDetail(actions, scope, when) ==
  [actions |-> UNION {ActionLabel(a) : a \in actions},
   type |-> ResourceTypeName(scope.entity[1]), resource |-> scope.label, conditions |-> when]

\* Seeded fault: an action is whatever the client calls one.
WellFormedAnyAction(c) == c.actions # {} /\ Scope(c.resource) # NoScope

WellFormed(c) ==
  /\ c.actions # {} /\ \A a \in c.actions : HasAction(a)
  /\ Scope(c.resource) # NoScope

\* One permit for each capability, and one description of it.
PoliciesFromCapabilities(caps) ==
  IF caps # <<>> /\ \A i \in DOMAIN caps : WellFormed(caps[i])
  THEN [policies |-> [i \in DOMAIN caps |->
                        Permit(caps[i].actions, Scope(caps[i].resource), {})],
        shown |-> [i \in DOMAIN caps |->
                     GrantDetail(caps[i].actions, Scope(caps[i].resource), {})]]
  ELSE Refused

\* What the author pinned is not for the client to bind.
ParamValue(pm, bindings) ==
  IF pm.fixed # "" THEN pm.fixed
  ELSE IF At(bindings, pm.name) # "" THEN bindings[pm.name]
  ELSE pm.default

ConditionOps == {"", "eq", "contains", "like"}

\* A parameter narrows either the scope or the resources in it.
ExpandTemplate(name, bindings) ==
  IF name \notin DOMAIN Templates THEN Refused ELSE
  LET t == Templates[name]
      Value(pm) == ParamValue(pm, bindings)
      set == {pm \in t.params : Value(pm) # ""}
      scoping == {pm \in set : pm.field # ""}
      narrowing == {pm \in set : pm.field = "" /\ pm.attr # ""}
      scope == Scope([type |-> t.scope,
                      match |-> [f \in {pm.field : pm \in scoping} |->
                        Value(CHOOSE pm \in scoping : pm.field = f)]])
      when == {[attr |-> pm.attr, op |-> pm.op, value |-> Value(pm)] : pm \in narrowing}
  IN  IF /\ \A pm \in t.params \ set : ~pm.required
         /\ \A pm \in narrowing : pm.op \in ConditionOps
         /\ scope # NoScope
         /\ \A a \in t.actions : HasAction(a)
      THEN [policies |-> <<Permit(t.actions, scope, when)>>,
            shown |-> <<GrantDetail(t.actions, scope, when)>>]
      ELSE Refused

\* Exactly one of the two forms.
HandleSign(req) ==
  IF (req.template # "") = (req.capabilities # <<>>) THEN Refused
  ELSE IF req.template # "" THEN ExpandTemplate(req.template, req.bindings)
  ELSE PoliciesFromCapabilities(req.capabilities)

-----------------------------------------------------------------------------
(* Questions.  A resource is the chain of itself and what it is            *)
(* catalogued under.                                                       *)

NodeEntity(node) == <<ResourceEntity(node.type), node.id>>

VerifyRequest(r) ==
  [principal |-> Agent, action |-> ActionEntity(r.action),
   resource |-> NodeEntity(r.resource[1]), context |-> r.context]

NoAttrs == [a \in {} |-> ""]

\* The agent and every action and group.
Vocabulary ==
  [e \in {Agent} \cup {ActionEntity(a) : a \in DOMAIN ActionLattice} |->
     [parents |-> IF e = Agent THEN {} ELSE {ActionEntity(p) : p \in ActionLattice[e[2][1]]},
      attrs |-> NoAttrs]]

\* Seeded fault: resources without what they are in.
SaidFlat(ref, k) == [parents |-> {}, attrs |-> ref[k].attrs]

\* What a chain says of its k-th resource.
Said(ref, k) ==
  [parents |-> IF k < Len(ref) THEN {NodeEntity(ref[k + 1])} ELSE {}, attrs |-> ref[k].attrs]

Places(ref, e) == {k \in DOMAIN ref : NodeEntity(ref[k]) = e}

\* Everything the authorization server needs to know.  Of an entity that is
\* named twice, what was said first; a chain begins with the outermost.
VerifyWorld(reqs) ==
  LET Chains(e) == {i \in DOMAIN reqs : Places(reqs[i].resource, e) # {}}
      First(e) == LET ref == reqs[Min(Chains(e))].resource IN Said(ref, Max(Places(ref, e)))
      resources == UNION {{NodeEntity(node) : node \in ToSet(reqs[i].resource)} : i \in DOMAIN reqs}
  IN  [e \in DOMAIN Vocabulary \cup resources |->
         IF e \in DOMAIN Vocabulary THEN Vocabulary[e] ELSE First(e)]

-----------------------------------------------------------------------------
(* Answers.                                                                *)

\* An entity and what it is in, so many steps up.
Steps(world, e) ==
  LET up[n \in 0 .. Cardinality(DOMAIN world)] ==
        IF n = 0 THEN {e}
        ELSE LET below == up[n - 1]
             IN  below \cup UNION {world[x].parents : x \in below \cap DOMAIN world}
  IN  up

Closed(world, es) == \A x \in es \cap DOMAIN world : world[x].parents \subseteq es

\* Cedar: an entity and all it is in, as far as the world knows.
Above(world, e) ==
  LET up == Steps(world, e)
  IN  up[CHOOSE n \in 0 .. Cardinality(DOMAIN world) : Closed(world, up[n])]

\* Cedar: a condition on an attribute the resource does not have is an error,
\* and the policy does not apply.
Holds(c, attrs) ==
  /\ c.attr \in DOMAIN attrs
  /\ CASE c.op = "contains" -> c.value \in attrs[c.attr]
       [] c.op = "like" -> Like(attrs[c.attr], c.value)
       [] OTHER -> attrs[c.attr] = c.value

\* Cedar: names are quoted the way Go quotes them, which Cedar mostly reads.
Parses(p) ==
  /\ \A k \in DOMAIN p.resource[2] : p.resource[2][k] \notin Garbled
  /\ \A c \in p.when : c.value \notin Garbled

Permits(p, world, q) ==
  /\ p.principal = q.principal
  /\ p.actions \cap Above(world, q.action) # {}
  /\ p.resource \in Above(world, q.resource)
  /\ p.when # {} => \A c \in p.when : Holds(c, world[q.resource].attrs)

\* Seeded fault: one request that is allowed carries the others.
EvaluateAny(grants, world, requests) ==
  LET policies == UNION {ToSet(g.policies) : g \in grants}
  IN  IF policies = {} \/ requests = <<>> THEN "denied"
      ELSE IF \E p \in policies : ~Parses(p) THEN "error"
      ELSE IF \E i \in DOMAIN requests : \E p \in policies : Permits(p, world, requests[i])
      THEN "allowed" ELSE "denied"

\* Every request, by some policy; one policy text that cannot be read spoils
\* all that are attached to the token.
Evaluate(grants, world, requests) ==
  LET policies == UNION {ToSet(g.policies) : g \in grants}
  IN  IF policies = {} \/ requests = <<>> THEN "denied"
      ELSE IF \E p \in policies : ~Parses(p) THEN "error"
      ELSE IF \A i \in DOMAIN requests : \E p \in policies : Permits(p, world, requests[i])
      THEN "allowed" ELSE "denied"

\* The answer to a resource server that asks, for a token with these grants,
\* whether these requirements are met.
Authorize(grants, reqs) ==
  Evaluate(grants, VerifyWorld(reqs), [i \in DOMAIN reqs |-> VerifyRequest(reqs[i])])
=============================================================================
