------------------------- MODULE SignedRightsProofs -------------------------
(***************************************************************************)
(* What holds of SignedRights for any grants, any requests and any tokens. *)
(***************************************************************************)
EXTENDS SignedRights, FiniteSetTheorems, SequenceTheorems, TLAPS

-----------------------------------------------------------------------------
(* What an entity is in.                                                   *)

Less == {p \in Nat \X Nat : p[1] < p[2]}

\* A set of numbers that has 0 and the successor of each has all of them.
LEMMA AllNumbers ==
  ASSUME NEW S, 0 \in S, \A n \in Nat : n \in S => n + 1 \in S
  PROVE  Nat \subseteq S
<1>1. IsWellFoundedOn(Less, Nat)
  BY NatLessThanWellFounded DEF OpToRel, Less
<1> SUFFICES ASSUME Nat \ S # {} PROVE FALSE
  OBVIOUS
<1>2. PICK m \in Nat \ S : \A n \in Nat \ S : ~ (<<n, m>> \in Less)
  BY <1>1, WFMin
<1>3. m # 0 /\ m - 1 \in Nat /\ m - 1 < m
  BY <1>2
<1>4. m - 1 \in S
  BY <1>2, <1>3 DEF Less
<1>5. m \in S
  BY <1>3, <1>4
<1> QED
  BY <1>2, <1>5

\* One more step up.
Step(world, es) == es \cup UNION {world[x].parents : x \in es \cap DOMAIN world}

LEMMA StepsAre ==
  ASSUME NEW world, NEW e, IsFiniteSet(DOMAIN world)
  PROVE  /\ Steps(world, e)[0] = {e}
         /\ \A n \in Nat : n + 1 <= Cardinality(DOMAIN world) =>
              Steps(world, e)[n + 1] = Step(world, Steps(world, e)[n])
<1> DEFINE Top == Cardinality(DOMAIN world)
           Value(f, i) == IF i = 0 THEN {e} ELSE Step(world, f[i - 1])
           Fits(f, n) == f = [i \in 0..n |-> Value(f, i)]
           up == CHOOSE f : Fits(f, Top)
<1>1. Steps(world, e) = up
  BY DEF Steps, Step
<1>2. Top \in Nat
  BY FS_CardinalityType
<1> HIDE DEF Top
<1>3. Fits(up, Top)
  <2> DEFINE T == {n \in Nat : \E f : Fits(f, n)}
  <2>1. 0 \in T
    <3> DEFINE f == [i \in 0..0 |-> {e}]
    <3>1. Fits(f, 0)
      OBVIOUS
    <3> QED
      BY <3>1
  <2>2. ASSUME NEW n \in Nat, n \in T PROVE n + 1 \in T
    <3>1. PICK f : Fits(f, n)
      BY <2>2
    <3> DEFINE g == [i \in 0..(n + 1) |-> IF i <= n THEN f[i] ELSE Value(f, n + 1)]
    <3>2. ASSUME NEW i \in 0..n PROVE f[i] = Value(f, i)
      BY <3>1
    <3>3. ASSUME NEW i \in 0..(n + 1) PROVE g[i] = Value(f, i)
      <4>1. CASE i <= n
        <5>1. i \in 0..n /\ g[i] = f[i]
          BY <4>1
        <5> QED
          BY <3>2, <5>1
      <4>2. CASE ~(i <= n)
        <5>1. i = n + 1
          BY <4>2
        <5> QED
          BY <4>2, <5>1
      <4> QED
        BY <4>1, <4>2
    <3>4. ASSUME NEW i \in 0..(n + 1) PROVE Value(f, i) = Value(g, i)
      <4>1. i # 0 => g[i - 1] = f[i - 1]
        OBVIOUS
      <4> HIDE DEF g
      <4> QED
        BY <4>1
    <3>5. DOMAIN g = 0..(n + 1) /\ g = [i \in 0..(n + 1) |-> g[i]]
      OBVIOUS
    <3> HIDE DEF g, Value
    <3>6. g = [i \in 0..(n + 1) |-> Value(g, i)]
      BY <3>3, <3>4, <3>5
    <3> QED
      BY <3>6
  <2> HIDE DEF T
  <2>3. Top \in T
    BY <1>2, <2>1, <2>2, AllNumbers
  <2> HIDE DEF Fits
  <2>4. \E f : Fits(f, Top)
    BY <2>3 DEF T
  <2> QED
    BY <2>4
<1> HIDE DEF up
<1>4. ASSUME NEW i \in 0..Top PROVE up[i] = Value(up, i)
  BY <1>3
<1>5. up[0] = {e}
  BY <1>2, <1>4
<1>6. ASSUME NEW n \in Nat, n + 1 <= Top PROVE up[n + 1] = Step(world, up[n])
  <2>1. n + 1 \in 0..Top /\ n + 1 # 0 /\ (n + 1) - 1 = n
    BY <1>2, <1>6
  <2> QED
    BY <1>4, <2>1
<1> QED
  BY <1>1, <1>5, <1>6 DEF Top

\* Nobody gets out of a closed set.
LEMMA StepsStay ==
  ASSUME NEW world, NEW e, IsFiniteSet(DOMAIN world),
         NEW T, e \in T, Closed(world, T)
  PROVE  \A n \in 0 .. Cardinality(DOMAIN world) : Steps(world, e)[n] \subseteq T
<1> DEFINE Top == Cardinality(DOMAIN world)
           up == Steps(world, e)
           In == {n \in Nat : n <= Top => up[n] \subseteq T}
<1>1. Top \in Nat
  BY FS_CardinalityType
<1>2. up[0] = {e} /\ \A n \in Nat : n + 1 <= Top => up[n + 1] = Step(world, up[n])
  BY StepsAre
<1> HIDE DEF up, Top
<1>3. 0 \in In
  BY <1>2
<1>4. ASSUME NEW n \in Nat, n \in In PROVE n + 1 \in In
  <2> SUFFICES ASSUME n + 1 <= Top PROVE up[n + 1] \subseteq T
    OBVIOUS
  <2>1. up[n] \subseteq T
    BY <1>1, <1>4
  <2>2. up[n + 1] = Step(world, up[n])
    BY <1>2
  <2> QED
    BY <2>1, <2>2 DEF Step, Closed
<1> HIDE DEF In
<1>5. Nat \subseteq In
  BY <1>3, <1>4, AllNumbers
<1> QED
  BY <1>1, <1>5 DEF In, up, Top

\* What is closed and can be reached in two steps is all there is above.
LEMMA AboveIs ==
  ASSUME NEW world, NEW e, IsFiniteSet(DOMAIN world), Cardinality(DOMAIN world) >= 2,
         NEW T, e \in T, Closed(world, T),
         T \subseteq Step(world, Step(world, {e}))
  PROVE  Above(world, e) = T
<1> DEFINE Top == Cardinality(DOMAIN world)
           up == Steps(world, e)
           Ends(n) == Closed(world, up[n])
           n == CHOOSE n \in 0..Top : Ends(n)
<1>1. Top \in Nat /\ Top >= 2
  BY FS_CardinalityType
<1>2. up[0] = {e} /\ \A k \in Nat : k + 1 <= Top => up[k + 1] = Step(world, up[k])
  BY StepsAre
<1>3. ASSUME NEW S, e \in S, Closed(world, S) PROVE \A k \in 0..Top : up[k] \subseteq S
  BY <1>3, StepsStay
<1>4. Above(world, e) = up[n]
  BY DEF Above
<1> HIDE DEF up, Top
<1>5. up[1] = Step(world, {e}) /\ up[2] = Step(world, up[1])
  BY <1>1, <1>2
<1>6. up[2] = T
  <2>1. T \subseteq up[2]
    BY <1>5
  <2>2. 2 \in 0..Top
    BY <1>1
  <2> QED
    BY <1>3, <2>1, <2>2
<1>7. 2 \in 0..Top /\ Ends(2)
  BY <1>1, <1>6
<1> HIDE DEF Ends
<1>8. n \in 0..Top /\ Ends(n)
  BY <1>7
<1> HIDE DEF n
<1>9. e \in up[n]
  <2> DEFINE In == {k \in Nat : k <= Top => e \in up[k]}
  <2>1. 0 \in In
    BY <1>2
  <2>2. ASSUME NEW k \in Nat, k \in In PROVE k + 1 \in In
    <3> SUFFICES ASSUME k + 1 <= Top PROVE e \in up[k + 1]
      OBVIOUS
    <3>1. e \in up[k] /\ up[k + 1] = Step(world, up[k])
      BY <1>1, <1>2, <2>2
    <3> QED
      BY <3>1 DEF Step
  <2> HIDE DEF In
  <2>3. n \in In /\ n <= Top
    BY <1>1, <1>8, <2>1, <2>2, AllNumbers
  <2> QED
    BY <2>3 DEF In
<1>10. up[2] \subseteq up[n]
  <2> DEFINE S == up[n]
  <2>1. e \in S /\ Closed(world, S)
    BY <1>8, <1>9 DEF Ends
  <2> HIDE DEF S
  <2>2. up[2] \subseteq S
    BY <1>3, <1>7, <2>1
  <2> QED
    BY <2>2 DEF S
<1>11. up[n] \subseteq T
  BY <1>3, <1>8
<1> QED
  BY <1>4, <1>6, <1>10, <1>11

-----------------------------------------------------------------------------
(* The catalog.                                                            *)

Catalog == ActionNames \cup GroupNames

LEMMA LatticeIs ==
  /\ DOMAIN ActionLattice = Catalog /\ DOMAIN Actions = ActionNames /\ DOMAIN Groups = GroupNames
  /\ DOMAIN Says = Catalog /\ ActionNames \cap GroupNames = {}
  /\ \A a \in ActionNames : ActionLattice[a] = {GroupOf(a)} /\ GroupOf(a) \in GroupNames
  /\ \A g \in GroupNames : ActionLattice[g] = Groups[g] /\ Groups[g] \subseteq GroupNames
<1>1. DOMAIN Actions = ActionNames /\ DOMAIN Groups = GroupNames /\ DOMAIN Says = Catalog
  BY DEF Actions, Groups, Says, Catalog
<1>2. ActionNames \cap GroupNames = {}
  BY DEF ActionNames, GroupNames
<1>3. ASSUME NEW a \in ActionNames PROVE GroupOf(a) \in GroupNames
  BY DEF GroupOf, GroupNames
<1>4. ASSUME NEW g \in GroupNames PROVE Groups[g] \subseteq GroupNames
  BY DEF Groups, GroupNames
<1>5. ActionLattice = [name \in Catalog |-> IF name \in ActionNames THEN Actions[name] ELSE Groups[name]]
  BY <1>1 DEF ActionLattice, Catalog
<1>6. DOMAIN ActionLattice = Catalog
  BY <1>5
<1>7. ASSUME NEW a \in ActionNames PROVE ActionLattice[a] = {GroupOf(a)}
  BY <1>5, <1>7 DEF Actions, Catalog
<1>8. ASSUME NEW g \in GroupNames PROVE ActionLattice[g] = Groups[g]
  BY <1>2, <1>5, <1>8 DEF Catalog
<1> QED
  BY <1>1, <1>2, <1>3, <1>4, <1>6, <1>7, <1>8

\* What is said of an action is said of its group, what is said of a group of
\* the group that it is in.
LEMMA GroupSaysMore ==
  ASSUME NEW x \in Catalog, NEW p \in ActionLattice[x]
  PROVE  p \in GroupNames /\ Says[x] \subseteq Says[p]
<1>1. CASE x \in ActionNames
  <2>1. p = GroupOf(x) /\ p \in GroupNames
    BY <1>1, LatticeIs
  <2>2. Says[x] = {x}
    BY <1>1 DEF Says, ActionNames, GroupNames
  <2>3. x \in Says[GroupOf(x)]
    BY <1>1 DEF Says, GroupOf, ActionNames, GroupNames
  <2> QED
    BY <2>1, <2>2, <2>3
<1>2. CASE x \in GroupNames
  <2>1. p \in Groups[x] /\ p \in GroupNames
    BY <1>2, LatticeIs
  <2>2. Says[x] \subseteq Says[p]
    BY <1>2, <2>1 DEF Says, Groups, GroupNames
  <2> QED
    BY <2>1, <2>2
<1> QED
  BY <1>1, <1>2 DEF Catalog

\* An action that is named by a description is in what is described.
LEMMA NamedIsIn ==
  ASSUME NEW a \in ActionNames, NEW x \in Catalog, a \in Says[x]
  PROVE  x = a \/ x = GroupOf(a) \/ x \in Groups[GroupOf(a)]
<1>1. CASE x \in ActionNames
  BY <1>1 DEF Says, ActionNames, GroupNames
<1>2. CASE x \in GroupNames
  BY <1>2 DEF Says, GroupOf, Groups, ActionNames, GroupNames
<1> QED
  BY <1>1, <1>2 DEF Catalog

\* A group names actions only.
LEMMA NamesActions ==
  ASSUME NEW x \in Catalog
  PROVE  Says[x] \subseteq ActionNames /\ (x \in ActionNames => Says[x] = {x})
BY DEF Says, Catalog, ActionNames, GroupNames

-----------------------------------------------------------------------------
(* The world of a question.                                                *)

LEMMA ImageIsFinite ==
  ASSUME NEW S, IsFiniteSet(S), NEW f, DOMAIN f = S
  PROVE  IsFiniteSet({f[x] : x \in S})
<1> DEFINE T == {f[x] : x \in S}
           g == [x \in S |-> f[x]]
<1>1. g \in Surjection(S, T)
  BY DEF Surjection
<1> HIDE DEF g, T
<1>2. IsFiniteSet(T)
  BY <1>1, FS_Surjection
<1> QED
  BY <1>2 DEF T

LEMMA UpToIsFinite ==
  ASSUME NEW n \in Nat
  PROVE  IsFiniteSet(1..n)
BY FS_Interval

LEMMA TwoAre ==
  ASSUME NEW x, NEW y, x # y
  PROVE  Cardinality({x} \cup {y}) = 2
<1>1. IsFiniteSet({x}) /\ Cardinality({x}) = 1
  BY FS_Singleton
<1>2. y \notin {x}
  OBVIOUS
<1> DEFINE S == {x}
<1> HIDE DEF S
<1>3. Cardinality(S \cup {y}) = 1 + 1
  BY <1>1, <1>2, FS_AddElement DEF S
<1> QED
  BY <1>3 DEF S

LEMMA MembersAreFinite ==
  ASSUME NEW ref, ref \in Seq(ToSet(ref))
  PROVE  IsFiniteSet({NodeEntity(node) : node \in ToSet(ref)})
<1>1. DOMAIN ref = 1..Len(ref) /\ Len(ref) \in Nat
  OBVIOUS
<1>2. IsFiniteSet(1..Len(ref))
  BY <1>1, FS_Interval
<1> DEFINE f == [i \in 1..Len(ref) |-> NodeEntity(ref[i])]
<1>3. {NodeEntity(node) : node \in ToSet(ref)} = {f[i] : i \in 1..Len(ref)}
  BY <1>1 DEF ToSet
<1>4. DOMAIN f = 1..Len(ref)
  OBVIOUS
<1> HIDE DEF f
<1> QED
  BY <1>2, <1>3, <1>4, ImageIsFinite

LEMMA CatalogIsFinite == IsFiniteSet({ActionEntity(a) : a \in Catalog})
<1>1. IsFiniteSet(ActionNames)
  <2> DEFINE f == <<"repo.clone", "repo.push", "comment.read",
                    "issue.list", "issue.view", "issue.create", "issue.comment", "issue.edit",
                    "issue.close", "issue.reopen", "pull.list", "pull.view", "pull.diff",
                    "pull.create", "pull.comment", "pull.review", "pull.edit", "pull.merge",
                    "pull.close", "pull.reopen">>
  <2>1. IsFiniteSet(1..20)
    BY UpToIsFinite
  <2>2. DOMAIN f = 1..20
    OBVIOUS
  <2>3. ActionNames = {f[i] : i \in 1..20}
    BY DEF ActionNames
  <2> HIDE DEF f
  <2> QED
    BY <2>1, <2>2, <2>3, ImageIsFinite
<1>2. IsFiniteSet(GroupNames)
  <2> DEFINE f == <<"read", "write", "triage", "issues.read", "pulls.read", "issues.write",
                    "pulls.write", "issues.triage", "pulls.triage">>
  <2>1. IsFiniteSet(1..9)
    BY UpToIsFinite
  <2>2. DOMAIN f = 1..9
    OBVIOUS
  <2>3. GroupNames = {f[i] : i \in 1..9}
    BY DEF GroupNames
  <2> HIDE DEF f
  <2> QED
    BY <2>1, <2>2, <2>3, ImageIsFinite
<1>3. IsFiniteSet(Catalog)
  BY <1>1, <1>2, FS_Union DEF Catalog
<1> DEFINE f == [a \in Catalog |-> ActionEntity(a)]
<1>4. {ActionEntity(a) : a \in Catalog} = {f[a] : a \in Catalog} /\ DOMAIN f = Catalog
  OBVIOUS
<1> HIDE DEF f
<1> QED
  BY <1>3, <1>4, ImageIsFinite

\* An action, the agent and a resource are never mixed up.
LEMMA Apart ==
  ASSUME NEW a, NEW b, NEW node
  PROVE  /\ ActionEntity(a) = ActionEntity(b) => a = b
         /\ ActionEntity(a)[2][1] = a
         /\ ActionEntity(a) # Agent
         /\ NodeEntity(node) # ActionEntity(a)
         /\ NodeEntity(node) # Agent
<1>1. ResourceEntity(node.type) \notin {"GitHub::Agent", "GitHub::Action"}
  BY DEF ResourceEntity, EntityType
<1>2. /\ NodeEntity(node)[1] = ResourceEntity(node.type)
      /\ ActionEntity(a)[1] = "GitHub::Action" /\ ActionEntity(a)[2][1] = a
      /\ ActionEntity(b)[2][1] = b
      /\ Agent[1] = "GitHub::Agent"
  BY DEF NodeEntity, ActionEntity, ActionType, Agent
<1> QED
  BY <1>1, <1>2

Resources(reqs) == UNION {{NodeEntity(node) : node \in ToSet(reqs[i].resource)} : i \in DOMAIN reqs}

\* Questions about sequences of resources.
Asks(reqs) ==
  /\ \E n \in Nat : n # 0 /\ DOMAIN reqs = 1..n
  /\ \A i \in DOMAIN reqs : reqs[i].resource \in Seq(ToSet(reqs[i].resource))

LEMMA VocabularyIs ==
  /\ DOMAIN Vocabulary = {Agent} \cup {ActionEntity(a) : a \in Catalog}
  /\ \A a \in Catalog : Vocabulary[ActionEntity(a)].parents = {ActionEntity(p) : p \in ActionLattice[a]}
<1>1. DOMAIN ActionLattice = Catalog
  BY LatticeIs
<1>2. DOMAIN Vocabulary = {Agent} \cup {ActionEntity(a) : a \in Catalog}
  BY <1>1 DEF Vocabulary
<1>3. ASSUME NEW a \in Catalog
      PROVE  Vocabulary[ActionEntity(a)].parents = {ActionEntity(p) : p \in ActionLattice[a]}
  <2>1. ActionEntity(a) # Agent /\ ActionEntity(a)[2][1] = a
    BY Apart
  <2>2. ActionEntity(a) \in {Agent} \cup {ActionEntity(b) : b \in DOMAIN ActionLattice}
    BY <1>1
  <2> QED
    BY <2>1, <2>2 DEF Vocabulary
<1> QED
  BY <1>2, <1>3

LEMMA WorldIs ==
  ASSUME NEW reqs, Asks(reqs)
  PROVE  /\ IsFiniteSet(DOMAIN VerifyWorld(reqs)) /\ Cardinality(DOMAIN VerifyWorld(reqs)) >= 2
         /\ DOMAIN VerifyWorld(reqs) = {Agent} \cup {ActionEntity(a) : a \in Catalog} \cup Resources(reqs)
         /\ \A a \in Catalog :
              VerifyWorld(reqs)[ActionEntity(a)].parents = {ActionEntity(p) : p \in ActionLattice[a]}
<1> DEFINE world == VerifyWorld(reqs)
<1>1. DOMAIN world = DOMAIN Vocabulary \cup Resources(reqs)
  BY DEF VerifyWorld, Resources
<1>2. \A e \in DOMAIN Vocabulary : world[e] = Vocabulary[e]
  BY DEF VerifyWorld
<1> HIDE DEF world
<1>3. IsFiniteSet(Resources(reqs))
  <2> DEFINE f == [i \in DOMAIN reqs |-> {NodeEntity(node) : node \in ToSet(reqs[i].resource)}]
             all == {f[i] : i \in DOMAIN reqs}
  <2>1. IsFiniteSet(DOMAIN reqs)
    BY FS_Interval DEF Asks
  <2>2. DOMAIN f = DOMAIN reqs
    OBVIOUS
  <2>3. ASSUME NEW i \in DOMAIN reqs PROVE IsFiniteSet(f[i])
    BY MembersAreFinite DEF Asks
  <2>4. Resources(reqs) = UNION all
    BY DEF Resources
  <2> HIDE DEF f
  <2>5. IsFiniteSet(all) /\ \A T \in all : IsFiniteSet(T)
    BY <2>1, <2>2, <2>3, ImageIsFinite
  <2> HIDE DEF all
  <2> QED
    BY <2>4, <2>5, FS_UNION
<1>4. IsFiniteSet(DOMAIN Vocabulary)
  <2>1. IsFiniteSet({Agent})
    BY FS_Singleton
  <2> DEFINE names == {ActionEntity(a) : a \in Catalog}
  <2>2. IsFiniteSet(names) /\ DOMAIN Vocabulary = {Agent} \cup names
    BY VocabularyIs, CatalogIsFinite
  <2> HIDE DEF names
  <2> QED
    BY <2>1, <2>2, FS_Union
<1>5. IsFiniteSet(DOMAIN world)
  BY <1>1, <1>3, <1>4, FS_Union
<1>6. Cardinality(DOMAIN world) >= 2
  <2> DEFINE two == {Agent} \cup {ActionEntity("read")}
  <2>1. "read" \in Catalog
    BY DEF Catalog, GroupNames
  <2>2. two \subseteq DOMAIN world
    BY <1>1, <2>1, VocabularyIs
  <2>3. ActionEntity("read") # Agent
    BY Apart
  <2>4. Cardinality(two) = 2
    BY <2>3, TwoAre
  <2> HIDE DEF two
  <2>5. Cardinality(two) <= Cardinality(DOMAIN world)
    BY <1>5, <2>2, FS_Subset
  <2> QED
    BY <1>5, <2>4, <2>5, FS_CardinalityType
<1>7. \A a \in Catalog : world[ActionEntity(a)].parents = {ActionEntity(p) : p \in ActionLattice[a]}
  BY <1>2, VocabularyIs
<1>8. DOMAIN world = {Agent} \cup {ActionEntity(a) : a \in Catalog} \cup Resources(reqs)
  BY <1>1, VocabularyIs
<1> QED
  BY <1>5, <1>6, <1>7, <1>8 DEF world

\* What an action is in: what names it.
LEMMA ActionAbove ==
  ASSUME NEW reqs, Asks(reqs), NEW a \in ActionNames
  PROVE  Above(VerifyWorld(reqs), ActionEntity(a)) = {ActionEntity(x) : x \in {x \in Catalog : a \in Says[x]}}
<1> DEFINE world == VerifyWorld(reqs)
           Above2 == {x \in Catalog : a \in Says[x]}
           T == {ActionEntity(x) : x \in Above2}
<1>1. /\ IsFiniteSet(DOMAIN world) /\ Cardinality(DOMAIN world) >= 2
      /\ \A x \in Catalog : /\ ActionEntity(x) \in DOMAIN world
                            /\ world[ActionEntity(x)].parents = {ActionEntity(p) : p \in ActionLattice[x]}
  BY WorldIs
<1> HIDE DEF world
<1>2. a \in Above2
  BY NamesActions DEF Catalog
<1>3. Closed(world, T)
  <2> SUFFICES ASSUME NEW x \in Above2, NEW p \in ActionLattice[x] PROVE p \in Above2
    BY <1>1 DEF Closed
  <2> QED
    BY GroupSaysMore DEF Catalog
<1>4. ASSUME NEW x \in Above2 PROVE ActionEntity(x) \in Step(world, Step(world, {ActionEntity(a)}))
  <2> DEFINE one == Step(world, {ActionEntity(a)})
             two == Step(world, one)
             g == GroupOf(a)
  <2>1. x = a \/ x = g \/ x \in Groups[g]
    BY NamedIsIn
  <2>2. /\ a \in Catalog /\ g \in Catalog /\ g \in GroupNames
        /\ ActionLattice[a] = {g} /\ ActionLattice[g] = Groups[g]
    BY LatticeIs DEF Catalog
  <2>3. ActionEntity(a) \in one /\ ActionEntity(g) \in one
    BY <1>1, <2>2 DEF Step
  <2> HIDE DEF one
  <2>4. one \subseteq two
    BY DEF Step
  <2>5. ASSUME x \in Groups[g] PROVE ActionEntity(x) \in two
    BY <1>1, <2>2, <2>3, <2>5 DEF Step
  <2> QED
    BY <2>1, <2>3, <2>4, <2>5 DEF one
<1>5. ActionEntity(a) \in T /\ T \subseteq Step(world, Step(world, {ActionEntity(a)}))
  BY <1>2, <1>4
<1> HIDE DEF T
<1>6. Above(world, ActionEntity(a)) = T
  BY <1>1, <1>3, <1>5, AboveIs
<1> QED
  BY <1>6 DEF T, world

\* An action that the catalog does not have is in nothing.
LEMMA NothingAbove ==
  ASSUME NEW reqs, Asks(reqs), NEW a, a \notin Catalog
  PROVE  Above(VerifyWorld(reqs), ActionEntity(a)) = {ActionEntity(a)}
<1> DEFINE world == VerifyWorld(reqs)
           T == {ActionEntity(a)}
<1>1. /\ IsFiniteSet(DOMAIN world) /\ Cardinality(DOMAIN world) >= 2
      /\ DOMAIN world = {Agent} \cup {ActionEntity(x) : x \in Catalog} \cup Resources(reqs)
  BY WorldIs
<1> HIDE DEF world
<1>2. ActionEntity(a) \notin DOMAIN world
  <2>1. ActionEntity(a) \notin Resources(reqs)
    BY Apart DEF Resources
  <2>2. ActionEntity(a) # Agent
    BY Apart
  <2>3. \A x \in Catalog : ActionEntity(x) # ActionEntity(a)
    BY Apart
  <2> QED
    BY <1>1, <2>1, <2>2, <2>3
<1>3. Closed(world, T)
  BY <1>2 DEF Closed
<1>4. ActionEntity(a) \in T /\ T \subseteq Step(world, Step(world, {ActionEntity(a)}))
  BY DEF Step
<1> HIDE DEF T
<1>5. Above(world, ActionEntity(a)) = T
  BY <1>1, <1>3, <1>4, AboveIs
<1> QED
  BY <1>5 DEF T, world

-----------------------------------------------------------------------------
(* Short sequences put together.                                           *)

LEMMA JoinOneOne ==
  ASSUME NEW x, NEW y
  PROVE  <<x>> \o <<y>> = <<x, y>>
<1> DEFINE S == {x, y}
           s == <<x>>
           t == <<y>>
           w == <<x, y>>
<1>1. s \in Seq(S) /\ t \in Seq(S) /\ w \in Seq(S) /\ Len(s) = 1 /\ Len(t) = 1 /\ Len(w) = 2
  OBVIOUS
<1>2. s[1] = x /\ t[1] = y /\ w[1] = x /\ w[2] = y
  OBVIOUS
<1> HIDE DEF S, s, t, w
<1>3. /\ s \o t \in Seq(S) /\ Len(s \o t) = Len(s) + Len(t)
      /\ \A i \in 1 .. Len(s) + Len(t) : (s \o t)[i] = IF i <= Len(s) THEN s[i] ELSE t[i - Len(s)]
  BY <1>1, ConcatProperties
<1>4. s \o t = w
  BY <1>1, <1>2, <1>3, SeqEqual
<1> QED
  BY <1>4 DEF s, t, w

LEMMA JoinOneTwo ==
  ASSUME NEW x, NEW y, NEW z
  PROVE  <<x>> \o <<y, z>> = <<x, y, z>>
<1> DEFINE S == {x, y, z}
           s == <<x>>
           t == <<y, z>>
           w == <<x, y, z>>
<1>1. s \in Seq(S) /\ t \in Seq(S) /\ w \in Seq(S) /\ Len(s) = 1 /\ Len(t) = 2 /\ Len(w) = 3
  OBVIOUS
<1>2. s[1] = x /\ t[1] = y /\ t[2] = z /\ w[1] = x /\ w[2] = y /\ w[3] = z
  OBVIOUS
<1> HIDE DEF S, s, t, w
<1>3. /\ s \o t \in Seq(S) /\ Len(s \o t) = Len(s) + Len(t)
      /\ \A i \in 1 .. Len(s) + Len(t) : (s \o t)[i] = IF i <= Len(s) THEN s[i] ELSE t[i - Len(s)]
  BY <1>1, ConcatProperties
<1>4. s \o t = w
  BY <1>1, <1>2, <1>3, SeqEqual
<1> QED
  BY <1>4 DEF s, t, w

LEMMA JoinTwoOne ==
  ASSUME NEW x, NEW y, NEW z
  PROVE  <<x, y>> \o <<z>> = <<x, y, z>>
<1> DEFINE S == {x, y, z}
           s == <<x, y>>
           t == <<z>>
           w == <<x, y, z>>
<1>1. s \in Seq(S) /\ t \in Seq(S) /\ w \in Seq(S) /\ Len(s) = 2 /\ Len(t) = 1 /\ Len(w) = 3
  OBVIOUS
<1>2. s[1] = x /\ s[2] = y /\ t[1] = z /\ w[1] = x /\ w[2] = y /\ w[3] = z
  OBVIOUS
<1> HIDE DEF S, s, t, w
<1>3. /\ s \o t \in Seq(S) /\ Len(s \o t) = Len(s) + Len(t)
      /\ \A i \in 1 .. Len(s) + Len(t) : (s \o t)[i] = IF i <= Len(s) THEN s[i] ELSE t[i - Len(s)]
  BY <1>1, ConcatProperties
<1>4. s \o t = w
  BY <1>1, <1>2, <1>3, SeqEqual
<1> QED
  BY <1>4 DEF s, t, w

LEMMA JoinNone ==
  ASSUME NEW x
  PROVE  <<x>> \o <<>> = <<x>>
<1>1. <<x>> \in Seq({x})
  OBVIOUS
<1> QED
  BY <1>1, ConcatEmptySeq

\* A path that begins with three segments and goes on.
Continues(path, x, y, z, rest) ==
  /\ Len(path) = 3 + Len(rest) /\ path[1] = x /\ path[2] = y /\ path[3] = z
  /\ \A i \in 1..Len(rest) : path[3 + i] = rest[i]

LEMMA JoinThree ==
  ASSUME NEW x, NEW y, NEW z, NEW s, s = <<x, y, z>>, NEW S, NEW t \in Seq(S), NEW path, path = s \o t
  PROVE  Continues(path, x, y, z, t)
<1> DEFINE R == S \cup {x, y, z}
<1>1. s \in Seq(R) /\ t \in Seq(R) /\ Len(s) = 3 /\ Len(t) \in Nat
  OBVIOUS
<1>2. s[1] = x /\ s[2] = y /\ s[3] = z
  OBVIOUS
<1> HIDE DEF R
<1>3. /\ path \in Seq(R) /\ Len(path) = Len(s) + Len(t)
      /\ \A i \in 1 .. Len(s) + Len(t) : path[i] = IF i <= Len(s) THEN s[i] ELSE t[i - Len(s)]
  BY <1>1, ConcatProperties
<1>4. Len(path) = 3 + Len(t) /\ path[1] = x /\ path[2] = y /\ path[3] = z
  BY <1>1, <1>2, <1>3
<1>5. ASSUME NEW i \in 1..Len(t) PROVE path[3 + i] = t[i]
  <2>1. 3 + i \in 1 .. Len(s) + Len(t) /\ ~(3 + i <= Len(s)) /\ (3 + i) - Len(s) = i
    BY <1>1
  <2> QED
    BY <1>3, <2>1
<1> QED
  BY <1>4, <1>5 DEF Continues

-----------------------------------------------------------------------------
(* The chains of resources.                                                *)

LEMMA RepoIs ==
  ASSUME NEW owner, NEW name
  PROVE  RepoRef(<<owner, name>>) = <<Node("github.repo", <<owner, name>>), Node("github.org", <<owner>>)>>
BY JoinOneOne DEF RepoRef, OrgRef

InIs(owner, name, number, type) ==
  <<Node(type, <<owner, name, number>>), Node("github.repo", <<owner, name>>), Node("github.org", <<owner>>)>>

LEMMA InRepoIs ==
  ASSUME NEW owner, NEW name, NEW number
  PROVE  /\ IssueRef(<<owner, name>>, number) = InIs(owner, name, number, "github.issue")
         /\ PullRef(<<owner, name>>, number) = InIs(owner, name, number, "github.pull")
<1>1. <<owner, name>> \o <<number>> = <<owner, name, number>>
  BY JoinTwoOne
<1> DEFINE repo == Node("github.repo", <<owner, name>>)
           org == Node("github.org", <<owner>>)
           In(type) == Node(type, <<owner, name, number>>)
<1>2. RepoRef(<<owner, name>>) = <<repo, org>>
  BY RepoIs
<1>3. /\ IssueRef(<<owner, name>>, number) = <<In("github.issue")>> \o <<repo, org>>
      /\ PullRef(<<owner, name>>, number) = <<In("github.pull")>> \o <<repo, org>>
  BY <1>1, <1>2 DEF IssueRef, PullRef
<1> HIDE DEF repo, org, In
<1>4. \A type : <<In(type)>> \o <<repo, org>> = <<In(type), repo, org>>
  BY JoinOneTwo
<1> QED
  BY <1>3, <1>4 DEF repo, org, In, InIs

\* What an operation is about: a repository, or an issue or a pull request in it.
Located(ref) ==
  \E owner, name :
    \/ ref = RepoRef(<<owner, name>>)
    \/ \E number : ref = IssueRef(<<owner, name>>, number) \/ ref = PullRef(<<owner, name>>, number)

LEMMA LocatedIs ==
  ASSUME NEW ref, Located(ref)
  PROVE  \E owner, name :
           \/ /\ ref = <<ref[1], ref[2]>>
              /\ NodeEntity(ref[1]) = <<"GitHub::Repo", <<owner, name>>>>
              /\ NodeEntity(ref[2]) = <<"GitHub::Org", <<owner>>>>
              /\ ref[1].id = <<owner, name>>
              /\ ref[1].attrs = NoAttrs
           \/ /\ ref = <<ref[1], ref[2], ref[3]>>
              /\ NodeEntity(ref[1])[1] \in {"GitHub::Issue", "GitHub::PullRequest"}
              /\ NodeEntity(ref[2]) = <<"GitHub::Repo", <<owner, name>>>>
              /\ NodeEntity(ref[3]) = <<"GitHub::Org", <<owner>>>>
              /\ \E number : ref[1].id = <<owner, name, number>>
              /\ ref[1].attrs = NoAttrs
<1>1. PICK owner, name :
        \/ ref = RepoRef(<<owner, name>>)
        \/ \E number : ref = IssueRef(<<owner, name>>, number) \/ ref = PullRef(<<owner, name>>, number)
  BY DEF Located
<1>2. /\ \A id : NodeEntity(Node("github.repo", id)) = <<"GitHub::Repo", id>>
      /\ \A id : NodeEntity(Node("github.org", id)) = <<"GitHub::Org", id>>
      /\ \A id : NodeEntity(Node("github.issue", id)) = <<"GitHub::Issue", id>>
      /\ \A id : NodeEntity(Node("github.pull", id)) = <<"GitHub::PullRequest", id>>
  BY DEF NodeEntity, Node, ResourceEntity, EntityType
<1>3. \A type, id : Node(type, id).id = id /\ Node(type, id).attrs = NoAttrs
  BY DEF Node
<1>4. CASE ref = RepoRef(<<owner, name>>)
  <2>1. ref = <<Node("github.repo", <<owner, name>>), Node("github.org", <<owner>>)>>
    BY <1>4, RepoIs
  <2> QED
    BY <1>2, <1>3, <2>1
<1>5. ASSUME NEW number, NEW type \in {"github.issue", "github.pull"},
             ref = InIs(owner, name, number, type)
      PROVE  /\ ref = <<ref[1], ref[2], ref[3]>>
             /\ NodeEntity(ref[1])[1] \in {"GitHub::Issue", "GitHub::PullRequest"}
             /\ NodeEntity(ref[2]) = <<"GitHub::Repo", <<owner, name>>>>
             /\ NodeEntity(ref[3]) = <<"GitHub::Org", <<owner>>>>
             /\ ref[1].id = <<owner, name, number>>
             /\ ref[1].attrs = NoAttrs
  BY <1>2, <1>3, <1>5 DEF InIs
<1>6. CASE \E number : ref = IssueRef(<<owner, name>>, number) \/ ref = PullRef(<<owner, name>>, number)
  BY <1>5, <1>6, InRepoIs
<1> QED
  BY <1>1, <1>4, <1>6

LEMMA OfItsMembers ==
  ASSUME NEW x, NEW y, NEW z
  PROVE  <<x, y>> \in Seq(ToSet(<<x, y>>)) /\ <<x, y, z>> \in Seq(ToSet(<<x, y, z>>))
BY DEF ToSet

LEMMA LocatedChain ==
  ASSUME NEW ref, Located(ref)
  PROVE  /\ ref \in Seq(ToSet(ref)) /\ Len(ref) \in {2, 3} /\ DOMAIN ref = 1..Len(ref)
         /\ \A k, l \in DOMAIN ref : NodeEntity(ref[k]) = NodeEntity(ref[l]) => k = l
<1>1. PICK owner, name :
        \/ /\ ref = <<ref[1], ref[2]>>
           /\ NodeEntity(ref[1]) = <<"GitHub::Repo", <<owner, name>>>>
           /\ NodeEntity(ref[2]) = <<"GitHub::Org", <<owner>>>>
        \/ /\ ref = <<ref[1], ref[2], ref[3]>>
           /\ NodeEntity(ref[1])[1] \in {"GitHub::Issue", "GitHub::PullRequest"}
           /\ NodeEntity(ref[2]) = <<"GitHub::Repo", <<owner, name>>>>
           /\ NodeEntity(ref[3]) = <<"GitHub::Org", <<owner>>>>
  BY LocatedIs
<1>2. CASE ref = <<ref[1], ref[2]>>
  <2>1. Len(ref) = 2 /\ DOMAIN ref = 1..2
    BY <1>2
  <2>2. ref \in Seq(ToSet(ref))
    BY <1>2, OfItsMembers
  <2> QED
    BY <1>1, <2>1, <2>2
<1>3. CASE ref = <<ref[1], ref[2], ref[3]>>
  <2>1. Len(ref) = 3 /\ DOMAIN ref = 1..3
    BY <1>3
  <2>2. ref \in Seq(ToSet(ref))
    BY <1>3, OfItsMembers
  <2> QED
    BY <1>1, <2>1, <2>2
<1> QED
  BY <1>1, <1>2, <1>3

\* The world of questions about one resource knows what it is in.
LEMMA ChainIsKnown ==
  ASSUME NEW reqs, Asks(reqs), NEW ref, Located(ref),
         \A i \in DOMAIN reqs : reqs[i].resource = ref,
         NEW k \in DOMAIN ref
  PROVE  /\ NodeEntity(ref[k]) \in DOMAIN VerifyWorld(reqs)
         /\ VerifyWorld(reqs)[NodeEntity(ref[k])] = Said(ref, k)
<1> DEFINE e == NodeEntity(ref[k])
           world == VerifyWorld(reqs)
           Chains == {i \in DOMAIN reqs : Places(reqs[i].resource, e) # {}}
<1>1. /\ DOMAIN ref = 1..Len(ref) /\ Len(ref) \in Nat
      /\ \A l \in DOMAIN ref : NodeEntity(ref[l]) = e => l = k
  BY LocatedChain
<1>2. e \notin DOMAIN Vocabulary
  BY VocabularyIs, Apart
<1>3. PICK n \in Nat : n # 0 /\ DOMAIN reqs = 1..n
  BY DEF Asks
<1>4. e \in Resources(reqs)
  <2>1. 1 \in DOMAIN reqs /\ reqs[1].resource = ref
    BY <1>3
  <2>2. ref[k] \in ToSet(ref)
    BY DEF ToSet
  <2> QED
    BY <2>1, <2>2 DEF Resources
<1>5. world[e] = Said(reqs[Min(Chains)].resource, Max(Places(reqs[Min(Chains)].resource, e)))
  BY <1>2, <1>4 DEF VerifyWorld, Resources
<1>6. e \in DOMAIN world
  BY <1>4 DEF VerifyWorld, Resources
<1>7. Places(ref, e) = {k}
  BY <1>1 DEF Places
<1>8. Max(Places(ref, e)) = k
  BY <1>1, <1>7 DEF Max
<1>9. Min(Chains) \in DOMAIN reqs
  <2>1. Chains = 1..n
    BY <1>3, <1>7
  <2>2. 1 \in Chains /\ \A j \in Chains : 1 <= j
    BY <1>3, <2>1
  <2> HIDE DEF Chains
  <2>3. Min(Chains) \in Chains
    BY <2>2 DEF Min
  <2> QED
    BY <1>3, <2>1, <2>3
<1> HIDE DEF Chains
<1>10. reqs[Min(Chains)].resource = ref
  BY <1>9
<1> QED
  BY <1>5, <1>6, <1>8, <1>10

\* What a resource is in: the chain that it is named with.
LEMMA ResourceAbove ==
  ASSUME NEW reqs, Asks(reqs), NEW ref, Located(ref),
         \A i \in DOMAIN reqs : reqs[i].resource = ref
  PROVE  Above(VerifyWorld(reqs), NodeEntity(ref[1])) = {NodeEntity(ref[k]) : k \in DOMAIN ref}
<1> DEFINE world == VerifyWorld(reqs)
           E(k) == NodeEntity(ref[k])
           T == {E(k) : k \in DOMAIN ref}
           one == Step(world, {E(1)})
<1>1. IsFiniteSet(DOMAIN world) /\ Cardinality(DOMAIN world) >= 2
  BY WorldIs
<1>2. \A k \in DOMAIN ref : E(k) \in DOMAIN world /\ world[E(k)] = Said(ref, k)
  BY ChainIsKnown
<1> HIDE DEF world
<1>3. Len(ref) \in {2, 3} /\ DOMAIN ref = 1..Len(ref)
  BY LocatedChain
<1>4. ASSUME NEW k \in DOMAIN ref
      PROVE  world[E(k)].parents = IF k < Len(ref) THEN {E(k + 1)} ELSE {}
  <2>1. world[E(k)] = Said(ref, k)
    BY <1>2
  <2>2. Said(ref, k).parents = IF k < Len(ref) THEN {E(k + 1)} ELSE {}
    BY DEF Said
  <2> HIDE DEF E
  <2> QED
    BY <2>1, <2>2
<1> HIDE DEF E
<1>5. Closed(world, T)
  <2>1. ASSUME NEW k \in DOMAIN ref PROVE world[E(k)].parents \subseteq T
    <3>1. CASE k < Len(ref)
      <4>1. k + 1 \in DOMAIN ref
        BY <1>3, <3>1
      <4>2. world[E(k)].parents = {E(k + 1)}
        BY <1>4, <3>1
      <4> QED
        BY <4>1, <4>2
    <3>2. CASE ~(k < Len(ref))
      BY <1>4, <3>2
    <3> QED
      BY <3>1, <3>2
  <2> QED
    BY <2>1 DEF Closed
<1>6. E(1) \in T
  BY <1>3
<1>7. T \subseteq Step(world, one)
  <2>1. E(1) \in one /\ E(2) \in one
    <3>1. 1 \in DOMAIN ref /\ 1 < Len(ref) /\ 1 + 1 = 2
      BY <1>3
    <3>2. world[E(1)].parents = {E(2)} /\ E(1) \in DOMAIN world
      BY <1>2, <1>4, <3>1
    <3> QED
      BY <3>2 DEF Step
  <2> HIDE DEF one
  <2>2. one \subseteq Step(world, one)
    BY DEF Step
  <2>3. CASE Len(ref) = 2
    BY <1>3, <2>1, <2>2, <2>3
  <2>4. CASE Len(ref) = 3
    <3>1. 2 \in DOMAIN ref /\ 2 < Len(ref) /\ 2 + 1 = 3
      BY <1>3, <2>4
    <3>2. world[E(2)].parents = {E(3)} /\ E(2) \in DOMAIN world
      BY <1>2, <1>4, <3>1
    <3>3. E(3) \in Step(world, one)
      BY <2>1, <3>2 DEF Step
    <3> QED
      BY <1>3, <2>1, <2>2, <2>4, <3>3
  <2> QED
    BY <1>3, <2>3, <2>4
<1> HIDE DEF T
<1>8. Above(world, E(1)) = T
  BY <1>1, <1>5, <1>6, <1>7, AboveIs
<1> QED
  BY <1>8 DEF T, E, world

-----------------------------------------------------------------------------
(* A policy, and what the approver was shown of it.                        *)

LEMMA PrefixIs ==
  ASSUME NEW S, NEW s \in Seq(S), NEW t \in Seq(S)
  PROVE  IsPrefix(s, t) <=> Len(s) <= Len(t) /\ \A i \in 1..Len(s) : s[i] = t[i]
<1>1. /\ Len(s) \in Nat /\ DOMAIN s = 1..Len(s) /\ \A i \in 1..Len(s) : s[i] \in S
      /\ Len(t) \in Nat /\ DOMAIN t = 1..Len(t) /\ \A i \in 1..Len(t) : t[i] \in S
  BY LenProperties, ElementOfSeq
<1>2. CASE Len(s) <= Len(t)
  <2> DEFINE a == SubSeq(s, 1, Len(s))
             b == SubSeq(t, 1, Len(s))
  <2>1. /\ a \in Seq(S) /\ Len(a) = Len(s) /\ \A i \in 1..Len(s) : a[i] = s[i]
    <3>1. /\ a \in Seq(S) /\ Len(a) = IF 1 <= Len(s) THEN Len(s) - 1 + 1 ELSE 0
          /\ \A i \in 1..Len(s) - 1 + 1 : a[i] = s[1 + i - 1]
      BY <1>1, SubSeqProperties
    <3> HIDE DEF a
    <3> QED
      BY <1>1, <3>1
  <2>2. /\ b \in Seq(S) /\ Len(b) = Len(s) /\ \A i \in 1..Len(s) : b[i] = t[i]
    <3>1. /\ b \in Seq(S) /\ Len(b) = IF 1 <= Len(s) THEN Len(s) - 1 + 1 ELSE 0
          /\ \A i \in 1..Len(s) - 1 + 1 : b[i] = t[1 + i - 1]
      BY <1>1, <1>2, SubSeqProperties
    <3> HIDE DEF b
    <3> QED
      BY <1>1, <3>1
  <2>3. IsPrefix(s, t) <=> a = b
    BY <1>2 DEF IsPrefix
  <2> HIDE DEF a, b
  <2>4. a = b <=> \A i \in 1..Len(s) : s[i] = t[i]
    <3>1. ASSUME a = b, NEW i \in 1..Len(s) PROVE s[i] = t[i]
      BY <2>1, <2>2, <3>1
    <3>2. ASSUME \A i \in 1..Len(s) : s[i] = t[i] PROVE a = b
      BY <2>1, <2>2, <3>2, SeqEqual
    <3> QED
      BY <3>1, <3>2
  <2> QED
    BY <1>2, <2>3, <2>4
<1>3. CASE ~(Len(s) <= Len(t))
  BY <1>3 DEF IsPrefix
<1> QED
  BY <1>2, <1>3

\* The id of a resource is that of its repository, with or without a number.
Of(owner, name, id) == id = <<owner, name>> \/ \E number : id = <<owner, name, number>>

Spells(S, owner, name, id) ==
  id \in Seq(S) /\ Len(id) \in {2, 3} /\ id[1] = owner /\ id[2] = name

LEMMA IdIs ==
  ASSUME NEW owner, NEW name, NEW id, Of(owner, name, id), NEW o, NEW n
  PROVE  \E S : o \in S /\ n \in S /\ Spells(S, owner, name, id)
<1>1. CASE id = <<owner, name>>
  <2> DEFINE S == {o, n, owner, name}
  <2>1. o \in S /\ n \in S /\ id \in Seq(S) /\ Len(id) = 2 /\ id[1] = owner /\ id[2] = name
    BY <1>1
  <2> QED
    BY <2>1 DEF Spells
<1>2. ASSUME NEW number, id = <<owner, name, number>>
      PROVE  \E S : o \in S /\ n \in S /\ Spells(S, owner, name, id)
  <2> DEFINE S == {o, n, owner, name, number}
  <2>1. o \in S /\ n \in S /\ id \in Seq(S) /\ Len(id) = 3 /\ id[1] = owner /\ id[2] = name
    BY <1>2
  <2> QED
    BY <2>1 DEF Spells
<1> QED
  BY <1>1, <1>2 DEF Of

LEMMA OwnerBegins ==
  ASSUME NEW owner, NEW name, NEW id, Of(owner, name, id), NEW o
  PROVE  IsPrefix(<<o>>, id) <=> o = owner
<1>1. PICK S : o \in S /\ Spells(S, owner, name, id)
  BY IdIs
<1> DEFINE one == <<o>>
<1>2. one \in Seq(S)
  BY <1>1
<1>3. Len(one) = 1 /\ one[1] = o
  OBVIOUS
<1>4. id \in Seq(S)
  BY <1>1 DEF Spells
<1>5. 1 <= Len(id) /\ 1..1 = {1} /\ id[1] = owner /\ id[2] = name
  BY <1>1 DEF Spells
<1> HIDE DEF one
<1>6. IsPrefix(one, id) <=> Len(one) <= Len(id) /\ \A i \in 1..Len(one) : one[i] = id[i]
  BY <1>2, <1>4, PrefixIs
<1>7. IsPrefix(one, id) <=> o = owner
  BY <1>3, <1>5, <1>6
<1> QED
  BY <1>7 DEF one

LEMMA RepoBegins ==
  ASSUME NEW owner, NEW name, NEW id, Of(owner, name, id), NEW o, NEW n
  PROVE  IsPrefix(<<o, n>>, id) <=> o = owner /\ n = name
<1>1. PICK S : o \in S /\ n \in S /\ Spells(S, owner, name, id)
  BY IdIs
<1> DEFINE two == <<o, n>>
<1>2. two \in Seq(S)
  BY <1>1
<1>3. Len(two) = 2 /\ two[1] = o /\ two[2] = n
  OBVIOUS
<1>4. id \in Seq(S)
  BY <1>1 DEF Spells
<1>5. 2 <= Len(id) /\ 1..2 = {1, 2} /\ id[1] = owner /\ id[2] = name
  BY <1>1 DEF Spells
<1> HIDE DEF two
<1>6. IsPrefix(two, id) <=> Len(two) <= Len(id) /\ \A i \in 1..Len(two) : two[i] = id[i]
  BY <1>2, <1>4, PrefixIs
<1>7. IsPrefix(two, id) <=> o = owner /\ n = name
  BY <1>3, <1>5, <1>6
<1> QED
  BY <1>7 DEF two

LEMMA ScopeIs ==
  ASSUME NEW selector, Scope(selector) # NoScope
  PROVE  \E owner, name :
           \/ Scope(selector) = [entity |-> <<"GitHub::Repo", <<owner, name>>>>, label |-> <<owner, name>>]
           \/ Scope(selector) = [entity |-> <<"GitHub::Org", <<owner>>>>, label |-> <<owner>>]
BY DEF Scope

\* A permit and its description, of one capability or of one template.
Described(p, d) ==
  \E actions, selector, when :
    /\ actions \subseteq Catalog /\ Scope(selector) # NoScope
    /\ p = Permit(actions, Scope(selector), when)
    /\ d = GrantDetail(actions, Scope(selector), when)

\* A scope is one of those that a resource is in when its label begins the
\* id of the resource.
LEMMA ScopeCovers ==
  ASSUME NEW selector, Scope(selector) # NoScope, NEW ref, Located(ref)
  PROVE  Scope(selector).entity \in {NodeEntity(ref[k]) : k \in DOMAIN ref}
           <=> IsPrefix(Scope(selector).label, ref[1].id)
<1>1. PICK o, n :
        \/ Scope(selector) = [entity |-> <<"GitHub::Repo", <<o, n>>>>, label |-> <<o, n>>]
        \/ Scope(selector) = [entity |-> <<"GitHub::Org", <<o>>>>, label |-> <<o>>]
  BY ScopeIs
<1>2. PICK owner, name :
           \/ /\ ref = <<ref[1], ref[2]>>
              /\ NodeEntity(ref[1]) = <<"GitHub::Repo", <<owner, name>>>>
              /\ NodeEntity(ref[2]) = <<"GitHub::Org", <<owner>>>>
              /\ ref[1].id = <<owner, name>>
           \/ /\ ref = <<ref[1], ref[2], ref[3]>>
              /\ NodeEntity(ref[1])[1] \in {"GitHub::Issue", "GitHub::PullRequest"}
              /\ NodeEntity(ref[2]) = <<"GitHub::Repo", <<owner, name>>>>
              /\ NodeEntity(ref[3]) = <<"GitHub::Org", <<owner>>>>
              /\ \E number : ref[1].id = <<owner, name, number>>
  BY LocatedIs
<1> DEFINE scope == Scope(selector)
           E(k) == NodeEntity(ref[k])
           T == {E(k) : k \in DOMAIN ref}
<1>3. \/ /\ T = {E(1), E(2)} /\ E(1) = <<"GitHub::Repo", <<owner, name>>>>
         /\ E(2) = <<"GitHub::Org", <<owner>>>>
      \/ /\ T = {E(1), E(2), E(3)} /\ E(1)[1] \in {"GitHub::Issue", "GitHub::PullRequest"}
         /\ E(2) = <<"GitHub::Repo", <<owner, name>>>> /\ E(3) = <<"GitHub::Org", <<owner>>>>
  <2>1. ASSUME ref = <<ref[1], ref[2]>> PROVE T = {E(1), E(2)}
    <3>1. DOMAIN ref = 1..2
      BY <2>1
    <3> HIDE DEF E
    <3> QED
      BY <3>1
  <2>2. ASSUME ref = <<ref[1], ref[2], ref[3]>> PROVE T = {E(1), E(2), E(3)}
    <3>1. DOMAIN ref = 1..3
      BY <2>2
    <3> HIDE DEF E
    <3> QED
      BY <3>1
  <2> HIDE DEF T
  <2> QED
    BY <1>2, <2>1, <2>2
<1> HIDE DEF T
<1> DEFINE id == ref[1].id
<1>4. Of(owner, name, id)
  BY <1>2 DEF Of
<1> HIDE DEF id, E
<1>5. ASSUME scope = [entity |-> <<"GitHub::Repo", <<o, n>>>>, label |-> <<o, n>>]
      PROVE  scope.entity \in T <=> IsPrefix(scope.label, id)
  <2> DEFINE repo == <<"GitHub::Repo", <<o, n>>>>
  <2>1. scope.entity = repo /\ scope.label = <<o, n>>
    BY <1>5
  <2>2. /\ repo # <<"GitHub::Org", <<owner>>>> /\ repo[1] \notin {"GitHub::Issue", "GitHub::PullRequest"}
        /\ repo = <<"GitHub::Repo", <<owner, name>>>> <=> o = owner /\ n = name
    OBVIOUS
  <2>3. IsPrefix(<<o, n>>, id) <=> o = owner /\ n = name
    BY <1>4, RepoBegins
  <2> HIDE DEF repo, scope
  <2>4. repo \in T <=> o = owner /\ n = name
    BY <1>3, <2>2
  <2> QED
    BY <2>1, <2>3, <2>4
<1>6. ASSUME scope = [entity |-> <<"GitHub::Org", <<o>>>>, label |-> <<o>>]
      PROVE  scope.entity \in T <=> IsPrefix(scope.label, id)
  <2> DEFINE org == <<"GitHub::Org", <<o>>>>
             repo == <<"GitHub::Repo", <<owner, name>>>>
  <2>1. scope.entity = org /\ scope.label = <<o>>
    BY <1>6
  <2>2. /\ org # repo /\ org[1] \notin {"GitHub::Issue", "GitHub::PullRequest"}
        /\ org = <<"GitHub::Org", <<owner>>>> <=> o = owner
    <3>1. <<o>> = <<owner>> <=> o = owner
      OBVIOUS
    <3> QED
      BY <3>1
  <2>3. IsPrefix(<<o>>, id) <=> o = owner
    BY <1>4, OwnerBegins
  <2> HIDE DEF org, scope
  <2>4. org \in T <=> o = owner
    <3>1. CASE T = {E(1), E(2)} /\ E(1) = repo /\ E(2) = <<"GitHub::Org", <<owner>>>>
      <4> HIDE DEF repo
      <4> QED
        BY <2>2, <3>1
    <3>2. CASE /\ T = {E(1), E(2), E(3)} /\ E(1)[1] \in {"GitHub::Issue", "GitHub::PullRequest"}
               /\ E(2) = repo /\ E(3) = <<"GitHub::Org", <<owner>>>>
      <4> HIDE DEF repo
      <4> QED
        BY <2>2, <3>2
    <3> QED
      BY <1>3, <3>1, <3>2
  <2> QED
    BY <2>1, <2>3, <2>4
<1> QED
  BY <1>1, <1>5, <1>6 DEF T, E, id

\* Questions about one resource, of actions in the catalog.
Asking(reqs, ref) ==
  /\ Asks(reqs) /\ Located(ref)
  /\ \A i \in DOMAIN reqs : reqs[i].resource = ref /\ reqs[i].action \in ActionNames

\* A policy permits what its description names, where the conditions hold.
LEMMA PermitsWhatIsNamed ==
  ASSUME NEW reqs, NEW ref, Asking(reqs, ref), NEW i \in DOMAIN reqs,
         NEW p, NEW d, Described(p, d)
  PROVE  Permits(p, VerifyWorld(reqs), VerifyRequest(reqs[i]))
           <=> Names(d, reqs[i]) /\ True(d.conditions, reqs[i].resource[1].attrs)
<1>1. PICK actions, selector, when :
        /\ actions \subseteq Catalog /\ Scope(selector) # NoScope
        /\ p = Permit(actions, Scope(selector), when)
        /\ d = GrantDetail(actions, Scope(selector), when)
  BY DEF Described
<1> DEFINE world == VerifyWorld(reqs)
           q == VerifyRequest(reqs[i])
           a == reqs[i].action
           scope == Scope(selector)
<1>2. Asks(reqs) /\ Located(ref) /\ reqs[i].resource = ref /\ a \in ActionNames
      /\ \A j \in DOMAIN reqs : reqs[j].resource = ref
  BY DEF Asking
<1>3. /\ p.principal = Agent /\ p.actions = {ActionEntity(x) : x \in actions}
      /\ p.resource = scope.entity /\ p.when = when
  BY <1>1 DEF Permit
<1>4. /\ d.actions = UNION {ActionLabel(x) : x \in actions}
      /\ d.resource = scope.label /\ d.conditions = when
  BY <1>1 DEF GrantDetail
<1>5. /\ q.principal = Agent /\ q.action = ActionEntity(a) /\ q.resource = NodeEntity(ref[1])
  BY <1>2 DEF VerifyRequest
<1>6. p.actions \cap Above(world, q.action) # {} <=> a \in d.actions
  <2>1. Above(world, ActionEntity(a)) = {ActionEntity(x) : x \in {x \in Catalog : a \in Says[x]}}
    BY <1>2, ActionAbove
  <2>2. \A x \in actions : ActionLabel(x) = Says[x]
    BY <1>1, LatticeIs DEF ActionLabel
  <2>3. \A x, y : ActionEntity(x) = ActionEntity(y) => x = y
    BY Apart
  <2> HIDE DEF world, q, a, scope
  <2>4. ASSUME p.actions \cap Above(world, q.action) # {} PROVE a \in d.actions
    <3>1. PICK x \in actions : ActionEntity(x) \in Above(world, ActionEntity(a))
      BY <1>3, <1>5, <2>4
    <3>2. a \in Says[x]
      BY <2>1, <2>3, <3>1
    <3> QED
      BY <1>4, <2>2, <3>2
  <2>5. ASSUME a \in d.actions PROVE p.actions \cap Above(world, q.action) # {}
    <3>1. PICK x \in actions : a \in Says[x]
      BY <1>4, <2>2, <2>5
    <3>2. ActionEntity(x) \in Above(world, ActionEntity(a)) /\ ActionEntity(x) \in p.actions
      BY <1>1, <1>3, <2>1, <3>1
    <3> QED
      BY <1>5, <3>2
  <2> QED
    BY <2>4, <2>5
<1>7. p.resource \in Above(world, q.resource) <=> IsPrefix(d.resource, ref[1].id)
  <2>1. Above(world, NodeEntity(ref[1])) = {NodeEntity(ref[k]) : k \in DOMAIN ref}
    BY <1>2, ResourceAbove
  <2>2. scope.entity \in {NodeEntity(ref[k]) : k \in DOMAIN ref} <=> IsPrefix(scope.label, ref[1].id)
    BY <1>1, <1>2, ScopeCovers
  <2> QED
    BY <1>3, <1>4, <1>5, <2>1, <2>2
<1>8. world[q.resource].attrs = ref[1].attrs
  <2>1. 1 \in DOMAIN ref
    BY <1>2, LocatedChain
  <2>2. world[NodeEntity(ref[1])] = Said(ref, 1)
    BY <1>2, <2>1, ChainIsKnown
  <2> QED
    BY <1>5, <2>2 DEF Said
<1> HIDE DEF world, q, scope
<1>9. (p.when # {} => \A c \in p.when : Holds(c, world[q.resource].attrs)) <=> True(d.conditions, ref[1].attrs)
  BY <1>3, <1>4, <1>8 DEF True
<1>10. Permits(p, world, q) <=> /\ p.actions \cap Above(world, q.action) # {}
                               /\ p.resource \in Above(world, q.resource)
                               /\ True(d.conditions, ref[1].attrs)
  BY <1>3, <1>5, <1>9, Zenon DEF Permits
<1>11. Names(d, reqs[i]) <=> a \in d.actions /\ IsPrefix(d.resource, ref[1].id)
  BY <1>2 DEF Names
<1>12. Permits(p, world, q) <=> Names(d, reqs[i]) /\ True(d.conditions, ref[1].attrs)
  BY <1>6, <1>7, <1>10, <1>11, Zenon
<1> QED
  BY <1>2, <1>12, Zenon DEF world, q

-----------------------------------------------------------------------------
(* The grants of a token.                                                  *)

\* A grant of which every policy was described.
Explained(g) ==
  /\ \E n \in Nat : /\ n # 0 /\ DOMAIN g.policies = 1..n /\ DOMAIN g.shown = 1..n
                    /\ Len(g.policies) = n /\ Len(g.shown) = n
  /\ \A i \in DOMAIN g.policies : Described(g.policies[i], g.shown[i])

Policies(gs) == UNION {ToSet(g.policies) : g \in gs}

LEMMA PoliciesAre ==
  ASSUME NEW gs, \A g \in gs : Explained(g)
  PROVE  /\ \A p \in Policies(gs) : \E g \in gs : \E d \in ToSet(g.shown) : Described(p, d)
         /\ \A g \in gs : \A d \in ToSet(g.shown) : \E p \in Policies(gs) : Described(p, d)
<1>1. ASSUME NEW p \in Policies(gs)
      PROVE \E g \in gs : \E d \in ToSet(g.shown) : Described(p, d)
  <2>1. PICK g \in gs : p \in ToSet(g.policies)
    BY DEF Policies
  <2>2. PICK i \in DOMAIN g.policies : p = g.policies[i]
    BY <2>1 DEF ToSet
  <2>3. Described(p, g.shown[i]) /\ i \in DOMAIN g.shown
    BY <2>2 DEF Explained
  <2>4. g.shown[i] \in ToSet(g.shown)
    BY <2>3 DEF ToSet
  <2> QED
    BY <2>3, <2>4
<1>2. ASSUME NEW g \in gs, NEW d \in ToSet(g.shown)
      PROVE \E p \in Policies(gs) : Described(p, d)
  <2>1. PICK i \in DOMAIN g.shown : d = g.shown[i]
    BY DEF ToSet
  <2>2. Described(g.policies[i], d) /\ i \in DOMAIN g.policies
    BY <2>1 DEF Explained
  <2>3. g.policies[i] \in Policies(gs)
    BY <2>2 DEF Policies, ToSet
  <2> QED
    BY <2>2, <2>3
<1> QED
  BY <1>1, <1>2

\* What is signed was described.
LEMMA SignedIsExplained ==
  ASSUME NEW req, req.capabilities \in Seq(ToSet(req.capabilities)), HandleSign(req) # Refused
  PROVE  Explained(HandleSign(req))
<1>1. ASSUME NEW actions, NEW selector, NEW when,
             \A a \in actions : HasAction(a), Scope(selector) # NoScope
      PROVE  Described(Permit(actions, Scope(selector), when), GrantDetail(actions, Scope(selector), when))
  <2>1. actions \subseteq Catalog
    BY <1>1, LatticeIs DEF HasAction
  <2> QED
    BY <1>1, <2>1 DEF Described
<1>2. ASSUME NEW caps, caps \in Seq(ToSet(caps)), PoliciesFromCapabilities(caps) # Refused
      PROVE  Explained(PoliciesFromCapabilities(caps))
  <2> DEFINE g == PoliciesFromCapabilities(caps)
             Policy(i) == Permit(caps[i].actions, Scope(caps[i].resource), {})
             Detail(i) == GrantDetail(caps[i].actions, Scope(caps[i].resource), {})
  <2>1. caps # <<>> /\ \A i \in DOMAIN caps : WellFormed(caps[i])
    BY <1>2 DEF PoliciesFromCapabilities
  <2>2. g = [policies |-> [i \in DOMAIN caps |-> Policy(i)], shown |-> [i \in DOMAIN caps |-> Detail(i)]]
    BY <2>1 DEF PoliciesFromCapabilities
  <2>3. Len(caps) \in Nat /\ DOMAIN caps = 1..Len(caps) /\ Len(caps) # 0
    BY <1>2, <2>1, LenProperties, EmptySeq
  <2>4. ASSUME NEW i \in DOMAIN caps PROVE Described(Policy(i), Detail(i))
    BY <1>1, <2>1 DEF WellFormed
  <2> HIDE DEF g, Policy, Detail
  <2>5. /\ g.policies = [i \in 1..Len(caps) |-> Policy(i)]
        /\ g.shown = [i \in 1..Len(caps) |-> Detail(i)]
    BY <2>2, <2>3
  <2>6. /\ DOMAIN g.policies = 1..Len(caps) /\ DOMAIN g.shown = 1..Len(caps)
        /\ Len(g.policies) = Len(caps) /\ Len(g.shown) = Len(caps)
    BY <2>3, <2>5
  <2>7. ASSUME NEW i \in DOMAIN g.policies PROVE Described(g.policies[i], g.shown[i])
    BY <2>3, <2>4, <2>5, <2>6
  <2>8. Explained(g)
    BY <2>3, <2>6, <2>7 DEF Explained
  <2> QED
    BY <2>8 DEF g
<1>3. ASSUME NEW p, NEW d, Described(p, d)
      PROVE  Explained([policies |-> <<p>>, shown |-> <<d>>])
  <2> DEFINE g == [policies |-> <<p>>, shown |-> <<d>>]
  <2>1. g.policies = <<p>> /\ g.shown = <<d>>
    OBVIOUS
  <2> HIDE DEF g
  <2>2. /\ DOMAIN g.policies = 1..1 /\ DOMAIN g.shown = 1..1
        /\ Len(g.policies) = 1 /\ Len(g.shown) = 1
        /\ g.policies[1] = p /\ g.shown[1] = d
    BY <2>1
  <2>3. Explained(g)
    BY <1>3, <2>2 DEF Explained
  <2> QED
    BY <2>3 DEF g
<1>4. ASSUME NEW name, NEW bindings, ExpandTemplate(name, bindings) # Refused
      PROVE  Explained(ExpandTemplate(name, bindings))
  <2>1. \E actions, selector, when :
          /\ \A a \in actions : HasAction(a)
          /\ Scope(selector) # NoScope
          /\ ExpandTemplate(name, bindings)
               = [policies |-> <<Permit(actions, Scope(selector), when)>>,
                  shown |-> <<GrantDetail(actions, Scope(selector), when)>>]
    BY <1>4 DEF ExpandTemplate
  <2> QED
    BY <1>1, <1>3, <2>1
<1> QED
  BY <1>2, <1>4 DEF HandleSign

-----------------------------------------------------------------------------
(* The verdicts.                                                           *)

\* Somebody was shown a right, under conditions that hold.
Covered(gs, need) ==
  \E g \in gs : \E d \in ToSet(g.shown) :
    Names(d, need) /\ True(d.conditions, need.resource[1].attrs)

Verdict(gs, covered) ==
  IF Policies(gs) = {} THEN "denied"
  ELSE IF \E p \in Policies(gs) : ~Parses(p) THEN "error"
  ELSE IF covered THEN "allowed" ELSE "denied"

LEMMA AnswerIs ==
  ASSUME NEW gs, NEW reqs, Asks(reqs)
  PROVE  Authorize(gs, reqs)
           = Verdict(gs, \A i \in DOMAIN reqs :
                           \E p \in Policies(gs) : Permits(p, VerifyWorld(reqs), VerifyRequest(reqs[i])))
<1> DEFINE world == VerifyWorld(reqs)
           requests == [i \in DOMAIN reqs |-> VerifyRequest(reqs[i])]
           each == \A i \in DOMAIN reqs : \E p \in Policies(gs) : Permits(p, world, VerifyRequest(reqs[i]))
<1>1. requests # <<>>
  <2>1. 1 \in DOMAIN requests
    BY DEF Asks
  <2> HIDE DEF requests
  <2> QED
    BY <2>1
<1>2. DOMAIN requests = DOMAIN reqs /\ \A i \in DOMAIN reqs : requests[i] = VerifyRequest(reqs[i])
  OBVIOUS
<1>3. Authorize(gs, reqs) = Evaluate(gs, world, requests)
  BY DEF Authorize
<1> HIDE DEF requests, world
<1>4. (\A i \in DOMAIN requests : \E p \in Policies(gs) : Permits(p, world, requests[i])) <=> each
  BY <1>2
<1>5. Evaluate(gs, world, requests)
        = IF Policies(gs) = {} \/ requests = <<>> THEN "denied"
          ELSE IF \E p \in Policies(gs) : ~Parses(p) THEN "error"
          ELSE IF \A i \in DOMAIN requests : \E p \in Policies(gs) : Permits(p, world, requests[i])
          THEN "allowed" ELSE "denied"
  BY DEF Evaluate, Policies
<1> HIDE DEF each
<1>6. Evaluate(gs, world, requests) = Verdict(gs, each)
  BY <1>1, <1>4, <1>5 DEF Verdict
<1> QED
  BY <1>3, <1>6 DEF world, each

\* One more approval never takes away what the earlier ones allow, unless its
\* policies cannot be read: the answer is from the permits of all grants
\* together, and the SDK writes no other policies.
THEOREM MoreGrantsAllowMore ==
  ASSUME NEW gs, NEW hs, gs \subseteq hs, \A p \in Policies(hs) : Parses(p),
         NEW reqs, Asks(reqs), Authorize(gs, reqs) = "allowed"
  PROVE  Authorize(hs, reqs) = "allowed"
<1> DEFINE Permitted(ps, i) == \E p \in ps : Permits(p, VerifyWorld(reqs), VerifyRequest(reqs[i]))
           Each(ps) == \A i \in DOMAIN reqs : Permitted(ps, i)
<1>1. Policies(gs) \subseteq Policies(hs)
  BY DEF Policies
<1>2. /\ Authorize(gs, reqs) = Verdict(gs, Each(Policies(gs)))
      /\ Authorize(hs, reqs) = Verdict(hs, Each(Policies(hs)))
  BY AnswerIs
<1>3. Each(Policies(gs)) => Each(Policies(hs))
  BY <1>1
<1> HIDE DEF Each
<1>4. Policies(gs) # {} /\ Each(Policies(gs))
  BY <1>2 DEF Verdict
<1> QED
  BY <1>1, <1>2, <1>3, <1>4 DEF Verdict

\* The answer to questions about one resource: every right was shown.
LEMMA AuthorizeIs ==
  ASSUME NEW gs, \A g \in gs : Explained(g), NEW reqs, NEW ref, Asking(reqs, ref)
  PROVE  Authorize(gs, reqs) = Verdict(gs, \A i \in DOMAIN reqs : Covered(gs, reqs[i]))
<1> DEFINE Permitted(i) == \E p \in Policies(gs) : Permits(p, VerifyWorld(reqs), VerifyRequest(reqs[i]))
<1>1. ASSUME NEW i \in DOMAIN reqs PROVE Permitted(i) <=> Covered(gs, reqs[i])
  <2>1. ASSUME NEW p, NEW d, Described(p, d)
        PROVE  Permits(p, VerifyWorld(reqs), VerifyRequest(reqs[i]))
                 <=> Names(d, reqs[i]) /\ True(d.conditions, reqs[i].resource[1].attrs)
    BY <2>1, PermitsWhatIsNamed
  <2>2. ASSUME Permitted(i) PROVE Covered(gs, reqs[i])
    <3>1. PICK p \in Policies(gs) : Permits(p, VerifyWorld(reqs), VerifyRequest(reqs[i]))
      BY <2>2
    <3>2. PICK g \in gs : \E d \in ToSet(g.shown) : Described(p, d)
      BY PoliciesAre
    <3>3. PICK d \in ToSet(g.shown) : Described(p, d)
      BY <3>2
    <3>4. Names(d, reqs[i]) /\ True(d.conditions, reqs[i].resource[1].attrs)
      BY <2>1, <3>1, <3>3
    <3> QED
      BY <3>4 DEF Covered
  <2>3. ASSUME Covered(gs, reqs[i]) PROVE Permitted(i)
    <3>1. PICK g \in gs : \E d \in ToSet(g.shown) :
            Names(d, reqs[i]) /\ True(d.conditions, reqs[i].resource[1].attrs)
      BY <2>3 DEF Covered
    <3>2. PICK d \in ToSet(g.shown) : Names(d, reqs[i]) /\ True(d.conditions, reqs[i].resource[1].attrs)
      BY <3>1
    <3>3. PICK p \in Policies(gs) : Described(p, d)
      BY PoliciesAre
    <3>4. Permits(p, VerifyWorld(reqs), VerifyRequest(reqs[i]))
      BY <2>1, <3>2, <3>3
    <3> QED
      BY <3>4
  <2> QED
    BY <2>2, <2>3
<1>2. Authorize(gs, reqs) = Verdict(gs, \A i \in DOMAIN reqs : Permitted(i))
  BY AnswerIs DEF Asking
<1> HIDE DEF Permitted
<1>3. (\A i \in DOMAIN reqs : Permitted(i)) <=> (\A i \in DOMAIN reqs : Covered(gs, reqs[i]))
  BY <1>1
<1> QED
  BY <1>2, <1>3 DEF Verdict

\* No grant is for an action that the catalog does not have.
LEMMA UnknownIsDenied ==
  ASSUME NEW gs, \A g \in gs : Explained(g), NEW reqs, Asks(reqs),
         NEW i \in DOMAIN reqs, reqs[i].action \notin Catalog
  PROVE  Authorize(gs, reqs) # "allowed"
<1> DEFINE a == reqs[i].action
           world == VerifyWorld(reqs)
<1>1. Above(world, ActionEntity(a)) = {ActionEntity(a)}
  BY NothingAbove
<1>2. VerifyRequest(reqs[i]).action = ActionEntity(a)
  BY DEF VerifyRequest
<1> HIDE DEF world
<1>3. ASSUME NEW p \in Policies(gs) PROVE ~Permits(p, world, VerifyRequest(reqs[i]))
  <2>1. PICK d : Described(p, d)
    BY PoliciesAre
  <2>2. \E actions : actions \subseteq Catalog /\ p.actions = {ActionEntity(x) : x \in actions}
    BY <2>1 DEF Described, Permit
  <2>3. ActionEntity(a) \notin p.actions
    BY <2>2, Apart
  <2> QED
    BY <1>1, <1>2, <2>3 DEF Permits
<1>4. ~(\A j \in DOMAIN reqs : \E p \in Policies(gs) : Permits(p, world, VerifyRequest(reqs[j])))
  BY <1>3
<1>5. Authorize(gs, reqs)
        = Verdict(gs, \A j \in DOMAIN reqs : \E p \in Policies(gs) : Permits(p, world, VerifyRequest(reqs[j])))
  BY AnswerIs DEF world
<1> QED
  BY <1>4, <1>5 DEF Verdict

-----------------------------------------------------------------------------
(* The rights that requests need.                                          *)

LEMMA OneAsks ==
  ASSUME NEW need, Located(need.resource), need.action \in ActionNames
  PROVE  Asking(<<need>>, need.resource)
<1> DEFINE reqs == <<need>>
<1>1. DOMAIN reqs = 1..1 /\ reqs[1] = need
  OBVIOUS
<1> HIDE DEF reqs
<1>2. need.resource \in Seq(ToSet(need.resource))
  BY LocatedChain
<1>3. Asks(reqs)
  BY <1>1, <1>2 DEF Asks
<1>4. Asking(reqs, need.resource)
  BY <1>1, <1>3 DEF Asking
<1> QED
  BY <1>4 DEF reqs

LEMMA TwoAsk ==
  ASSUME NEW one, NEW two, Located(one.resource), two.resource = one.resource,
         one.action \in ActionNames, two.action \in ActionNames
  PROVE  Asking(<<one, two>>, one.resource)
<1> DEFINE reqs == <<one, two>>
<1>1. DOMAIN reqs = 1..2 /\ reqs[1] = one /\ reqs[2] = two
  OBVIOUS
<1> HIDE DEF reqs
<1>2. one.resource \in Seq(ToSet(one.resource))
  BY LocatedChain
<1>3. Asks(reqs)
  BY <1>1, <1>2 DEF Asks
<1>4. Asking(reqs, one.resource)
  BY <1>1, <1>3 DEF Asking
<1> QED
  BY <1>4 DEF reqs

Target(op) ==
  CASE op.action \in ForRepo -> RepoRef(op.repo)
    [] op.action \in ForIssue -> IssueRef(op.repo, op.number)
    [] OTHER -> PullRef(op.repo, op.number)

Main(op) == Requirement(op.action, Target(op), op.content)

WithComments(op) == op.action \in {"issue.view", "pull.view"} /\ op.comments

\* What an operation needs, in one request about what it works on.
LEMMA OperationAsks ==
  ASSUME NEW op \in OperationRequests
  PROVE  /\ Located(Target(op)) /\ op.action \in ActionNames
         /\ Asking(Requirements(op), Target(op))
         /\ ~WithComments(op) => Requirements(op) = <<Main(op)>>
<1>1. op.action \in ActionNames /\ op.repo = <<op.repo[1], op.repo[2]>>
  BY RequestsAssumption, LatticeIs
<1>2. Located(Target(op))
  <2>1. \/ Target(op) = RepoRef(<<op.repo[1], op.repo[2]>>)
        \/ Target(op) = IssueRef(<<op.repo[1], op.repo[2]>>, op.number)
        \/ Target(op) = PullRef(<<op.repo[1], op.repo[2]>>, op.number)
    BY <1>1 DEF Target
  <2> QED
    BY <2>1 DEF Located
<1> DEFINE main == Main(op)
           read == Requirement("comment.read", Target(op), "")
<1>3. Requirements(op) = <<main>> \o IF WithComments(op) THEN <<read>> ELSE <<>>
  BY DEF Requirements, Target, Main, WithComments
<1>4. /\ main.resource = Target(op) /\ main.action = op.action
      /\ read.resource = Target(op) /\ read.action \in ActionNames
  BY DEF Main, Requirement, ActionNames
<1> HIDE DEF main, read
<1>5. CASE WithComments(op)
  <2>1. Requirements(op) = <<main, read>>
    BY <1>3, <1>5, JoinOneOne
  <2>2. Asking(<<main, read>>, main.resource)
    BY <1>1, <1>2, <1>4, TwoAsk
  <2> QED
    BY <1>1, <1>2, <1>4, <1>5, <2>1, <2>2
<1>6. CASE ~WithComments(op)
  <2>1. Requirements(op) = <<main>>
    BY <1>3, <1>6, JoinNone
  <2>2. Asking(<<main>>, main.resource)
    BY <1>1, <1>2, <1>4, OneAsks
  <2> QED
    BY <1>1, <1>2, <1>4, <2>1, <2>2 DEF main
<1> QED
  BY <1>5, <1>6

LEMMA SubSeqTwo ==
  ASSUME NEW S, NEW path \in Seq(S), Len(path) >= 3
  PROVE  SubSeq(path, 2, 3) = <<path[2], path[3]>>
<1>1. Len(path) \in Nat /\ \A i \in 2..3 : path[i] \in S
  BY LenProperties, ElementOfSeq
<1> DEFINE s == SubSeq(path, 2, 3)
           t == <<path[2], path[3]>>
<1>2. s \in Seq(S) /\ Len(s) = 2 /\ s[1] = path[2] /\ s[2] = path[3]
  <2>1. /\ s \in Seq(S) /\ Len(s) = IF 2 <= 3 THEN 3 - 2 + 1 ELSE 0
        /\ \A i \in 1..3 - 2 + 1 : s[i] = path[2 + i - 1]
    BY <1>1, SubSeqProperties
  <2> HIDE DEF s
  <2> QED
    BY <2>1
<1>3. t \in Seq(S) /\ Len(t) = 2 /\ t[1] = path[2] /\ t[2] = path[3]
  BY <1>1
<1> HIDE DEF s, t
<1>4. s = t
  BY <1>2, <1>3, SeqEqual
<1> QED
  BY <1>4 DEF s, t

\* What a mapped call needs.
LEMMA MappedAsks ==
  ASSUME NEW call \in RestCalls, Mapped(call.method, call.path)
  PROVE  LET need == RequirementFor(call)
             route == Route(call.method, call.path)
         IN  /\ need.action = route.action /\ need.resource = route.resource
             /\ Asking(<<need>>, need.resource)
<1> DEFINE path == call.path
           route == Route(call.method, path)
           need == RequirementFor(call)
           owner == path[2]
           name == path[3]
<1>1. path \in Seq(ToSet(path))
  BY RequestsAssumption
<1>2. /\ Len(path) >= 4
      /\ \/ route.action = "pull.review" /\ route.resource = PullRef(SubSeq(path, 2, 3), Atoi(path[5]))
         \/ route.action \in {"issue.create", "pull.list"} /\ route.resource = RepoRef(SubSeq(path, 2, 3))
  BY DEF Mapped, Route
<1>3. SubSeq(path, 2, 3) = <<owner, name>>
  <2>1. Len(path) >= 3
    BY <1>1, <1>2
  <2> QED
    BY <1>1, <2>1, SubSeqTwo
<1>4. need.action = route.action /\ need.resource = route.resource
  BY DEF RequirementFor, Requirement
<1> HIDE DEF need, route
<1>5. Located(need.resource)
  BY <1>2, <1>3, <1>4 DEF Located
<1>6. need.action \in ActionNames
  BY <1>2, <1>4 DEF ActionNames
<1>7. Asking(<<need>>, need.resource)
  BY <1>5, <1>6, OneAsks
<1> QED
  BY <1>4, <1>7 DEF need, route

\* What any other call needs.
LEMMA UnmappedAsks ==
  ASSUME NEW call \in RestCalls, ~Mapped(call.method, call.path)
  PROVE  /\ Asks(<<RequirementFor(call)>>)
         /\ RequirementFor(call).action \notin Catalog
<1> DEFINE path == call.path
           need == RequirementFor(call)
           ref == ResourceFromPath(path)
<1>1. path \in Seq(ToSet(path))
  BY RequestsAssumption
<1>2. need.action \in {"github.read", "github.write"} /\ need.resource = ref
  BY DEF RequirementFor, Requirement
<1>3. ref \in Seq(ToSet(ref))
  <2>1. CASE Len(path) >= 3 /\ path[1] = "repos"
    <3>1. SubSeq(path, 2, 3) = <<path[2], path[3]>>
      BY <1>1, <2>1, SubSeqTwo
    <3>2. ref = RepoRef(<<path[2], path[3]>>)
      BY <2>1, <3>1 DEF ResourceFromPath
    <3> QED
      BY <3>2, LocatedChain DEF Located
  <2>2. CASE ~(Len(path) >= 3 /\ path[1] = "repos")
    <3>1. \E node : ref = <<node>>
      BY <2>2 DEF ResourceFromPath, OrgRef
    <3>2. \A node : <<node>> \in Seq(ToSet(<<node>>))
      BY DEF ToSet
    <3> QED
      BY <3>1, <3>2
  <2> QED
    BY <2>1, <2>2
<1>4. need.action \notin Catalog
  BY <1>2 DEF Catalog, ActionNames, GroupNames
<1> DEFINE reqs == <<need>>
<1>5. DOMAIN reqs = 1..1 /\ reqs[1] = need
  OBVIOUS
<1> HIDE DEF reqs, need, ref
<1>6. Asks(reqs)
  BY <1>2, <1>3, <1>5 DEF Asks
<1> QED
  BY <1>4, <1>6 DEF reqs, need

\* What git needs.
GitNeed(r) == Requirement(ServiceAction(r.service), RepoRef(r.repo), "")

LEMMA GitAsks ==
  ASSUME NEW r \in GitRequests, ServiceAction(r.service) # ""
  PROVE  /\ Asking(<<GitNeed(r)>>, RepoRef(r.repo))
         /\ r.service \in {"git-upload-pack", "git-receive-pack"}
<1> DEFINE need == GitNeed(r)
<1>1. r.service \in {"git-upload-pack", "git-receive-pack"}
  BY DEF ServiceAction
<1>2. need.action \in ActionNames /\ need.resource = RepoRef(r.repo)
  BY <1>1 DEF GitNeed, Requirement, ServiceAction, ActionNames
<1>3. Located(need.resource)
  BY <1>2, RequestsAssumption DEF Located
<1> HIDE DEF need
<1>4. Asking(<<need>>, need.resource)
  BY <1>2, <1>3, OneAsks
<1> QED
  BY <1>1, <1>2, <1>4 DEF need

-----------------------------------------------------------------------------
(* The inductive invariant.                                                *)

ByOperation(l) == \E op \in OperationRequests :
  l.via = "operation" /\ l.asked = op /\ l.needs = Requirements(op)

ByREST(l) == \E call \in RestCalls :
  l.via = "rest" /\ l.asked = call /\ l.needs = <<RequirementFor(call)>>

ByGit(l) == \E r \in GitRequests :
  /\ ServiceAction(r.service) # ""
  /\ l.via = "git" /\ l.asked = r /\ l.needs = <<GitNeed(r)>>

\* The last request was decided from the grants as they are.
Answered(l, gs) ==
  \/ l = Nothing
  \/ /\ l.verdict = Authorize(gs, l.needs)
     /\ ByOperation(l) \/ ByREST(l) \/ ByGit(l)

Inv == (\A g \in grants : Explained(g)) /\ Answered(last, grants)

LEMMA NothingIs ==
  Nothing.verdict = "denied" /\ Nothing.via = "none"
BY DEF Nothing

LEMMA InitInv == Init => Inv
BY DEF Init, Inv, Answered

LEMMA NextInv == Inv /\ [Next]_vars => Inv'
<1> SUFFICES ASSUME Inv, [Next]_vars PROVE Inv'
  OBVIOUS
<1>1. ASSUME NEW request \in GrantRequests, Approve(request) PROVE Inv'
  <2>1. Explained(HandleSign(request))
    BY <1>1, RequestsAssumption, SignedIsExplained DEF Approve
  <2>2. grants' = grants \cup {HandleSign(request)} /\ last' = Nothing
    BY <1>1 DEF Approve
  <2>3. \A g \in grants' : Explained(g)
    BY <2>1, <2>2 DEF Inv
  <2> QED
    BY <2>2, <2>3 DEF Inv, Answered
<1>2. ASSUME NEW g \in grants, Expire(g) PROVE Inv'
  <2>1. grants' \subseteq grants /\ last' = Nothing
    BY <1>2 DEF Expire
  <2>2. \A h \in grants' : Explained(h)
    BY <2>1 DEF Inv
  <2> QED
    BY <2>1, <2>2 DEF Inv, Answered
<1>3. CASE RevokeGrants
  <2>1. grants' = {} /\ last' = Nothing
    BY <1>3 DEF RevokeGrants
  <2> QED
    BY <2>1 DEF Inv, Answered
<1>4. ASSUME NEW op \in OperationRequests, HandleOperation(op) PROVE Inv'
  <2>1. grants' = grants /\ last' = Decided("operation", op, Requirements(op))
    BY <1>4 DEF HandleOperation
  <2>2. /\ last'.via = "operation" /\ last'.asked = op /\ last'.needs = Requirements(op)
        /\ last'.verdict = Authorize(grants, Requirements(op))
    BY <2>1 DEF Decided
  <2>3. ByOperation(last') /\ last'.verdict = Authorize(grants, last'.needs)
    BY <2>2 DEF ByOperation
  <2>4. Answered(last', grants)
    BY <2>3 DEF Answered
  <2> QED
    BY <2>1, <2>4 DEF Inv
<1>5. ASSUME NEW call \in RestCalls, RESTServeHTTP(call) PROVE Inv'
  <2>1. grants' = grants /\ last' = Decided("rest", call, <<RequirementFor(call)>>)
    BY <1>5 DEF RESTServeHTTP
  <2>2. /\ last'.via = "rest" /\ last'.asked = call /\ last'.needs = <<RequirementFor(call)>>
        /\ last'.verdict = Authorize(grants, <<RequirementFor(call)>>)
    BY <2>1 DEF Decided
  <2>3. ByREST(last') /\ last'.verdict = Authorize(grants, last'.needs)
    BY <2>2 DEF ByREST
  <2>4. Answered(last', grants)
    BY <2>3 DEF Answered
  <2> QED
    BY <2>1, <2>4 DEF Inv
<1>6. ASSUME NEW r \in GitRequests, GitServeHTTP(r) PROVE Inv'
  <2> DEFINE needs == <<GitNeed(r)>>
  <2>1. grants' = grants /\ last' = Decided("git", r, needs) /\ ServiceAction(r.service) # ""
    BY <1>6 DEF GitServeHTTP, GitNeed
  <2> HIDE DEF needs
  <2>2. /\ last'.via = "git" /\ last'.asked = r /\ last'.needs = needs
        /\ last'.verdict = Authorize(grants, needs)
    BY <2>1 DEF Decided
  <2>3. ByGit(last') /\ last'.verdict = Authorize(grants, last'.needs)
    BY <2>1, <2>2 DEF ByGit, needs
  <2>4. Answered(last', grants)
    BY <2>3 DEF Answered
  <2> QED
    BY <2>1, <2>4 DEF Inv
<1>7. CASE Reply
  BY <1>7 DEF Reply, Inv, Answered
<1>8. CASE UNCHANGED vars
  BY <1>8 DEF vars, Inv
<1> QED
  BY <1>1, <1>2, <1>3, <1>4, <1>5, <1>6, <1>7, <1>8 DEF Next

\* The grants of every token have been described, and the last request was
\* decided from them.
THEOREM DecisionsAreFromGrants == Spec => []Inv
BY InitInv, NextInv, PTL DEF Spec

\* What a token has been granted was described to the approver and asks for
\* nothing outside the catalog.
THEOREM SignedRightsTypes == Spec => []TypeOK
<1>1. ASSUME Inv PROVE TypeOK
  <2>1. last.verdict \in {"allowed", "denied", "error"}
    <3>1. CASE last = Nothing
      BY <3>1, NothingIs
    <3>2. CASE last # Nothing
      <4>1. last.verdict = Authorize(grants, last.needs)
        BY <1>1, <3>2 DEF Inv, Answered
      <4> QED
        BY <4>1 DEF Authorize, Evaluate
    <3> QED
      BY <3>1, <3>2
  <2>2. ASSUME NEW g \in grants
        PROVE  /\ Len(g.policies) = Len(g.shown) /\ g.policies # <<>>
               /\ \A i \in DOMAIN g.policies :
                    /\ g.policies[i].principal = Agent
                    /\ g.policies[i].actions
                         \subseteq {ActionEntity(a) : a \in DOMAIN Groups \cup DOMAIN Actions}
    <3>1. Explained(g)
      BY <1>1 DEF Inv
    <3>2. Len(g.policies) = Len(g.shown) /\ g.policies # <<>>
      <4>1. 1 \in DOMAIN g.policies /\ Len(g.policies) = Len(g.shown)
        BY <3>1 DEF Explained
      <4> QED
        BY <4>1
    <3>3. ASSUME NEW i \in DOMAIN g.policies
          PROVE  /\ g.policies[i].principal = Agent
                 /\ g.policies[i].actions \subseteq {ActionEntity(a) : a \in Catalog}
      <4>1. PICK actions, selector, when :
              actions \subseteq Catalog /\ g.policies[i] = Permit(actions, Scope(selector), when)
        BY <3>1 DEF Explained, Described
      <4>2. /\ g.policies[i].principal = Agent
            /\ g.policies[i].actions = {ActionEntity(a) : a \in actions}
        BY <4>1 DEF Permit
      <4> QED
        BY <4>1, <4>2
    <3>4. DOMAIN Groups \cup DOMAIN Actions = Catalog
      BY LatticeIs DEF Catalog
    <3> QED
      BY <3>2, <3>3, <3>4
  <2> QED
    BY <2>1, <2>2 DEF TypeOK
<1> QED
  BY <1>1, DecisionsAreFromGrants, PTL

-----------------------------------------------------------------------------
(* What is right.                                                          *)

\* A request that was answered is about one resource, or is a call that no
\* grant is for.
LEMMA AnsweredIs ==
  ASSUME Inv, last # Nothing
  PROVE  /\ last.verdict = Authorize(grants, last.needs)
         /\ \/ \E ref : Asking(last.needs, ref)
            \/ /\ last.verdict # "allowed"
               /\ last.needs = <<last.needs[1]>> /\ last.needs[1].action \notin Catalog
<1>1. last.verdict = Authorize(grants, last.needs) /\ \A g \in grants : Explained(g)
  BY DEF Inv, Answered
<1>2. CASE ByOperation(last)
  BY <1>1, <1>2, OperationAsks DEF ByOperation
<1>3. CASE ByREST(last)
  <2>1. PICK call \in RestCalls : last.needs = <<RequirementFor(call)>>
    BY <1>3 DEF ByREST
  <2>2. CASE Mapped(call.method, call.path)
    BY <1>1, <2>1, <2>2, MappedAsks
  <2>3. CASE ~Mapped(call.method, call.path)
    <3>1. Asks(last.needs) /\ RequirementFor(call).action \notin Catalog
      BY <2>1, <2>3, UnmappedAsks
    <3>2. /\ last.needs = <<last.needs[1]>> /\ 1 \in DOMAIN last.needs
          /\ last.needs[1].action \notin Catalog
      BY <2>1, <3>1
    <3>3. Authorize(grants, last.needs) # "allowed"
      BY <1>1, <3>1, <3>2, UnknownIsDenied
    <3> QED
      BY <1>1, <3>2, <3>3
  <2> QED
    BY <2>2, <2>3
<1>4. CASE ByGit(last)
  BY <1>1, <1>4, GitAsks DEF ByGit
<1> QED
  BY <1>2, <1>3, <1>4 DEF Inv, Answered

\* "Fails closed": a call that is not mapped is never allowed, whatever has
\* been granted.
THEOREM UnmappedFailsClosed == Spec => []FailsClosed
<1>1. ASSUME Inv PROVE FailsClosed
  <2> SUFFICES ASSUME last.via = "rest", ~Mapped(last.asked.method, last.asked.path)
               PROVE  last.verdict # "allowed"
    BY DEF FailsClosed, Allowed
  <2>1. last # Nothing
    BY NothingIs
  <2>2. PICK call \in RestCalls : last.asked = call /\ last.needs = <<RequirementFor(call)>>
    BY <1>1, <2>1 DEF Inv, Answered, ByOperation, ByREST, ByGit
  <2>3. Asks(last.needs) /\ RequirementFor(call).action \notin Catalog
    BY <2>2, UnmappedAsks
  <2>4. 1 \in DOMAIN last.needs /\ last.needs[1].action \notin Catalog
    BY <2>2, <2>3
  <2>5. Authorize(grants, last.needs) # "allowed"
    BY <1>1, <2>3, <2>4, UnknownIsDenied DEF Inv
  <2> QED
    BY <1>1, <2>1, <2>5 DEF Inv, Answered
<1> QED
  BY <1>1, DecisionsAreFromGrants, PTL

\* Whatever is allowed has been shown to a human in plain words.
THEOREM NothingUnseenIsAllowed == Spec => []AllowedWasShown
<1>1. ASSUME Inv PROVE AllowedWasShown
  <2> SUFFICES ASSUME last.verdict = "allowed", NEW i \in DOMAIN last.needs
               PROVE  \E d \in Shown : /\ Names(d, last.needs[i])
                                      /\ True(d.conditions, last.needs[i].resource[1].attrs)
    BY DEF AllowedWasShown, Allowed
  <2>1. last # Nothing
    BY NothingIs
  <2>2. PICK ref : Asking(last.needs, ref)
    BY <1>1, <2>1, AnsweredIs
  <2>3. Authorize(grants, last.needs) = Verdict(grants, \A j \in DOMAIN last.needs : Covered(grants, last.needs[j]))
    BY <1>1, <2>2, AuthorizeIs DEF Inv
  <2>4. last.verdict = Authorize(grants, last.needs)
    BY <1>1, <2>1, AnsweredIs
  <2>5. \A j \in DOMAIN last.needs : Covered(grants, last.needs[j])
    BY <2>3, <2>4 DEF Verdict
  <2> QED
    BY <2>5 DEF Covered, Shown
<1> QED
  BY <1>1, DecisionsAreFromGrants, PTL

\* ... and no right that was shown without a condition is lost between the
\* policy, the catalog and the chain of the resource.
THEOREM NothingShownIsLost == Spec => []ShownIsAllowed
<1>1. ASSUME Inv PROVE ShownIsAllowed
  <2> SUFFICES ASSUME last # Nothing, Readable,
                      \A i \in DOMAIN last.needs :
                        \E d \in Shown : Names(d, last.needs[i]) /\ d.conditions = {}
               PROVE  last.verdict = "allowed"
    BY DEF ShownIsAllowed, Allowed
  <2>1. \A g \in grants : Explained(g)
    BY <1>1 DEF Inv
  <2>2. ASSUME NEW i \in DOMAIN last.needs PROVE Covered(grants, last.needs[i]) /\ last.needs[i].action \in Catalog
    <3>1. PICK d \in Shown : Names(d, last.needs[i]) /\ d.conditions = {}
      OBVIOUS
    <3>2. PICK g \in grants : d \in ToSet(g.shown)
      BY DEF Shown
    <3>3. Covered(grants, last.needs[i])
      BY <3>1, <3>2 DEF Covered, True
    <3>4. PICK p : Described(p, d)
      BY <2>1, <3>2, PoliciesAre
    <3>5. PICK actions, scope, when : actions \subseteq Catalog /\ d = GrantDetail(actions, scope, when)
      BY <3>4 DEF Described
    <3>6. PICK x \in actions : last.needs[i].action \in Says[x]
      BY <3>1, <3>5, LatticeIs DEF Names, GrantDetail, ActionLabel
    <3>7. last.needs[i].action \in Catalog
      BY <3>5, <3>6, NamesActions DEF Catalog
    <3> QED
      BY <3>3, <3>7
  <2>3. PICK ref : Asking(last.needs, ref)
    <3>1. ASSUME last.needs = <<last.needs[1]>> PROVE 1 \in DOMAIN last.needs
      BY <3>1
    <3> QED
      BY <1>1, <2>2, <3>1, AnsweredIs
  <2>4. Authorize(grants, last.needs) = Verdict(grants, \A i \in DOMAIN last.needs : Covered(grants, last.needs[i]))
    BY <2>1, <2>3, AuthorizeIs
  <2>5. \A p \in Policies(grants) : Parses(p)
    BY DEF Readable, Policies, ToSet
  <2>6. Policies(grants) # {}
    <3>1. 1 \in DOMAIN last.needs
      BY <2>3 DEF Asking, Asks
    <3>2. PICK g \in grants : \E d \in ToSet(g.shown) : Names(d, last.needs[1])
      BY <2>2, <3>1 DEF Covered
    <3>3. \E p \in Policies(grants) : TRUE
      BY <2>1, <3>2, PoliciesAre
    <3> QED
      BY <3>3
  <2>7. Authorize(grants, last.needs) = "allowed"
    BY <2>2, <2>4, <2>5, <2>6 DEF Verdict
  <2> QED
    BY <1>1, <2>7, AnsweredIs
<1> QED
  BY <1>1, DecisionsAreFromGrants, PTL

\* Asking for two rights at once is asking for each of them.
THEOREM JointQuestionsAreSeparate == Spec => []JointIsEach
<1>1. ASSUME Inv PROVE JointIsEach
  <2> SUFFICES ASSUME last # Nothing
               PROVE  last.verdict = "allowed"
                        <=> \A i \in DOMAIN last.needs : Authorize(grants, <<last.needs[i]>>) = "allowed"
    BY DEF JointIsEach, Allowed
  <2> DEFINE needs == last.needs
  <2>1. last.verdict = Authorize(grants, needs) /\ \A g \in grants : Explained(g)
    BY <1>1, AnsweredIs DEF Inv
  <2>2. ASSUME NEW ref, Asking(needs, ref)
        PROVE  Authorize(grants, needs) = "allowed"
                 <=> \A i \in DOMAIN needs : Authorize(grants, <<needs[i]>>) = "allowed"
    <3> DEFINE plain == Policies(grants) # {} /\ \A p \in Policies(grants) : Parses(p)
    <3>1. Authorize(grants, needs) = "allowed" <=> plain /\ \A i \in DOMAIN needs : Covered(grants, needs[i])
      <4>1. Authorize(grants, needs) = Verdict(grants, \A i \in DOMAIN needs : Covered(grants, needs[i]))
        BY <2>1, <2>2, AuthorizeIs
      <4> QED
        BY <4>1 DEF Verdict
    <3>2. ASSUME NEW i \in DOMAIN needs
          PROVE  Authorize(grants, <<needs[i]>>) = "allowed" <=> plain /\ Covered(grants, needs[i])
      <4> DEFINE need == needs[i]
                 one == <<need>>
      <4>1. Located(need.resource) /\ need.action \in ActionNames
        BY <2>2 DEF Asking
      <4>2. Asking(one, need.resource)
        BY <4>1, OneAsks
      <4>3. DOMAIN one = {1} /\ one[1] = need
        OBVIOUS
      <4> HIDE DEF one
      <4>4. Authorize(grants, one) = Verdict(grants, \A j \in DOMAIN one : Covered(grants, one[j]))
        BY <2>1, <4>2, AuthorizeIs
      <4>5. Authorize(grants, one) = "allowed" <=> plain /\ Covered(grants, need)
        BY <4>3, <4>4 DEF Verdict
      <4> QED
        BY <4>5 DEF one
    <3>3. 1 \in DOMAIN needs
      BY <2>2 DEF Asking, Asks
    <3> HIDE DEF plain, needs
    <3> QED
      BY <3>1, <3>2, <3>3
  <2>3. ASSUME needs = <<needs[1]>>
        PROVE  Authorize(grants, needs) = "allowed"
                 <=> \A i \in DOMAIN needs : Authorize(grants, <<needs[i]>>) = "allowed"
    <3>1. DOMAIN needs = {1}
      BY <2>3
    <3> HIDE DEF needs
    <3> QED
      BY <2>3, <3>1
  <2>4. (\E ref : Asking(needs, ref)) \/ needs = <<needs[1]>>
    BY <1>1, AnsweredIs
  <2> HIDE DEF needs
  <2>5. Authorize(grants, needs) = "allowed"
          <=> \A i \in DOMAIN needs : Authorize(grants, <<needs[i]>>) = "allowed"
    BY <2>2, <2>3, <2>4
  <2> QED
    BY <2>1, <2>5 DEF needs
<1> QED
  BY <1>1, DecisionsAreFromGrants, PTL

\* The decision for what is needed about one resource depends on the actions
\* and on the resource, and on nothing else that is asked.
LEMMA SameDecision ==
  ASSUME NEW gs, \A g \in gs : Explained(g),
         NEW one, NEW other, Located(one.resource), one.action \in ActionNames,
         other.resource = one.resource, other.action = one.action
  PROVE  Authorize(gs, <<one>>) = Authorize(gs, <<other>>)
<1> DEFINE a == <<one>>
           b == <<other>>
<1>1. Asking(a, one.resource) /\ Asking(b, one.resource)
  <2>1. Asking(<<one>>, one.resource)
    BY OneAsks
  <2>2. Asking(<<other>>, other.resource)
    BY OneAsks
  <2> QED
    BY <2>1, <2>2
<1>2. DOMAIN a = {1} /\ a[1] = one /\ DOMAIN b = {1} /\ b[1] = other
  OBVIOUS
<1> HIDE DEF a, b
<1>3. /\ Authorize(gs, a) = Verdict(gs, \A i \in DOMAIN a : Covered(gs, a[i]))
      /\ Authorize(gs, b) = Verdict(gs, \A i \in DOMAIN b : Covered(gs, b[i]))
  BY <1>1, AuthorizeIs
<1>4. Covered(gs, one) <=> Covered(gs, other)
  BY DEF Covered, Names
<1>5. Authorize(gs, a) = Authorize(gs, b)
  BY <1>2, <1>3, <1>4 DEF Verdict
<1> QED
  BY <1>5 DEF a, b

\* The path of a call that an operation makes in its repository.
LEMMA PathOf ==
  ASSUME NEW op \in OperationRequests, NEW S, NEW rest \in Seq(S),
         NEW path, path = <<"repos">> \o op.repo \o rest
  PROVE  Continues(path, "repos", op.repo[1], op.repo[2], rest)
<1> DEFINE owner == op.repo[1]
           name == op.repo[2]
           s == <<"repos">> \o op.repo
<1>1. op.repo = <<owner, name>>
  BY RequestsAssumption
<1>2. <<"repos">> \o <<owner, name>> = <<"repos", owner, name>>
  BY JoinOneTwo
<1>3. s = <<"repos", owner, name>> /\ path = s \o rest
  BY <1>1, <1>2
<1> HIDE DEF owner, name, s
<1>4. Continues(path, "repos", owner, name, rest)
  BY <1>3, JoinThree
<1> QED
  BY <1>4 DEF owner, name

\* A mapped call that an operation makes needs what the operation needs.
LEMMA MappedIsOperation ==
  ASSUME NEW op \in OperationRequests, NEW method, NEW path, NEW S, path \in Seq(S),
         [method |-> method, path |-> path] \in CallsOf(op), Mapped(method, path)
  PROVE  /\ ~WithComments(op)
         /\ Route(method, path).action = op.action /\ Route(method, path).resource = Target(op)
<1> DEFINE call == [method |-> method, path |-> path]
           repo == SubSeq(path, 2, 3)
           In(rest) == <<"repos">> \o op.repo \o rest
           Numbers == {s \in DOMAIN Numeral : Numeral[s] = op.number}
           Numbered(kind, what) ==
             {[method |-> "POST", path |-> In(<<kind, n, what>>)] : n \in Numbers}
<1>1. call.method = method /\ call.path = path
  OBVIOUS
<1>2. ASSUME NEW kind, path = In(<<kind>>)
      PROVE  Len(path) = 4 /\ path[4] = kind /\ repo = op.repo
  <2> DEFINE rest == <<kind>>
             R == {kind}
  <2>1. rest \in Seq(R) /\ Len(rest) = 1 /\ rest[1] = kind
    OBVIOUS
  <2>2. path = <<"repos">> \o op.repo \o rest
    BY <1>2
  <2> HIDE DEF rest, R
  <2>3. /\ Len(path) = 3 + Len(rest) /\ <<path[2], path[3]>> = op.repo
        /\ \A i \in 1..Len(rest) : path[3 + i] = rest[i]
    <3>1. Continues(path, "repos", op.repo[1], op.repo[2], rest)
      BY <2>1, <2>2, PathOf
    <3> QED
      BY <3>1, RequestsAssumption DEF Continues
  <2>4. Len(path) = 4 /\ path[4] = kind
    BY <2>1, <2>3
  <2>5. repo = <<path[2], path[3]>>
    <3>1. Len(path) >= 3
      BY <2>4
    <3> QED
      BY <3>1, SubSeqTwo
  <2> QED
    BY <2>3, <2>4, <2>5
<1>3. ASSUME NEW kind, NEW n, NEW what, path = In(<<kind, n, what>>)
      PROVE  Len(path) = 6 /\ path[4] = kind /\ path[5] = n /\ path[6] = what /\ repo = op.repo
  <2> DEFINE rest == <<kind, n, what>>
             R == {kind, n, what}
  <2>1. /\ rest \in Seq(R) /\ Len(rest) = 3
        /\ rest[1] = kind /\ rest[2] = n /\ rest[3] = what
    OBVIOUS
  <2>2. path = <<"repos">> \o op.repo \o rest
    BY <1>3
  <2> HIDE DEF rest, R
  <2>3. /\ Len(path) = 3 + Len(rest) /\ <<path[2], path[3]>> = op.repo
        /\ \A i \in 1..Len(rest) : path[3 + i] = rest[i]
    <3>1. Continues(path, "repos", op.repo[1], op.repo[2], rest)
      BY <2>1, <2>2, PathOf
    <3> QED
      BY <3>1, RequestsAssumption DEF Continues
  <2>4. Len(path) = 6 /\ path[4] = kind /\ path[5] = n /\ path[6] = what
    BY <2>1, <2>3
  <2>5. repo = <<path[2], path[3]>>
    <3>1. Len(path) >= 3
      BY <2>4
    <3> QED
      BY <3>1, SubSeqTwo
  <2> QED
    BY <2>3, <2>4, <2>5
<1> HIDE DEF repo, In
<1>4. /\ op.action = "issue.list" => method = "GET" /\ path = In(<<"issues">>)
      /\ op.action = "pull.list" => method = "GET" /\ path = In(<<"pulls">>)
      /\ op.action = "issue.create" => method = "POST" /\ path = In(<<"issues">>)
      /\ op.action = "pull.create" => method = "POST" /\ path = In(<<"pulls">>)
      /\ op.action \in {"issue.comment", "pull.comment"} => call \in Numbered("issues", "comments")
      /\ op.action = "pull.review" => call \in Numbered("pulls", "reviews")
      /\ op.action \in {"issue.list", "pull.list", "issue.create", "pull.create", "issue.comment",
                        "pull.comment", "pull.review"}
  BY DEF CallsOf, In
<1>5. ASSUME NEW kind, NEW what, call \in Numbered(kind, what)
      PROVE  /\ method = "POST" /\ Len(path) = 6 /\ path[4] = kind /\ path[6] = what
             /\ Atoi(path[5]) = op.number /\ repo = op.repo
  <2>1. PICK n \in Numbers : method = "POST" /\ path = In(<<kind, n, what>>)
    BY <1>1, <1>5
  <2>2. Len(path) = 6 /\ path[4] = kind /\ path[5] = n /\ path[6] = what /\ repo = op.repo
    BY <1>3, <2>1
  <2> QED
    BY <2>1, <2>2 DEF Atoi
<1> HIDE DEF Numbered, call
<1>6. \/ /\ method = "POST" /\ Len(path) = 6 /\ path[4] = "pulls" /\ path[6] = "reviews"
         /\ Route(method, path).action = "pull.review"
         /\ Route(method, path).resource = PullRef(repo, Atoi(path[5]))
      \/ /\ method = "POST" /\ Len(path) = 4 /\ path[4] = "issues"
         /\ Route(method, path).action = "issue.create" /\ Route(method, path).resource = RepoRef(repo)
      \/ /\ method = "GET" /\ Len(path) = 4 /\ path[4] = "pulls"
         /\ Route(method, path).action = "pull.list" /\ Route(method, path).resource = RepoRef(repo)
  BY DEF Mapped, Route, repo
<1>7. CASE op.action \in {"issue.list", "pull.create"}
  BY <1>2, <1>4, <1>6, <1>7
<1>8. CASE op.action \in {"issue.comment", "pull.comment"}
  BY <1>4, <1>5, <1>6, <1>8
<1>9. CASE op.action \in {"pull.list", "issue.create"}
  <2>1. Len(path) = 4 /\ repo = op.repo
    BY <1>2, <1>4, <1>9
  <2>2. Target(op) = RepoRef(op.repo) /\ ~WithComments(op)
    BY <1>9 DEF Target, ForRepo, ForIssue, WithComments
  <2>3. Route(method, path).action = op.action
    BY <1>2, <1>4, <1>6, <1>9
  <2> QED
    BY <1>6, <2>1, <2>2, <2>3
<1>10. CASE op.action = "pull.review"
  <2>1. Len(path) = 6 /\ path[4] = "pulls" /\ Atoi(path[5]) = op.number /\ repo = op.repo
    BY <1>4, <1>5, <1>10
  <2>2. Target(op) = PullRef(op.repo, op.number) /\ ~WithComments(op)
    BY <1>10 DEF Target, ForRepo, ForIssue, WithComments
  <2> QED
    BY <1>6, <1>10, <2>1, <2>2
<1> QED
  BY <1>4, <1>7, <1>8, <1>9, <1>10

\* The three ways to GitHub are decided alike.
THEOREM WaysAreDecidedAlike == Spec => []SameAsOperation
<1>1. ASSUME Inv PROVE SameAsOperation
  <2>1. \A g \in grants : Explained(g)
    BY <1>1 DEF Inv
  <2>2. ASSUME last.via = "rest", NEW op \in OperationRequests,
               [method |-> last.asked.method, path |-> last.asked.path] \in CallsOf(op)
        PROVE  IF Mapped(last.asked.method, last.asked.path)
               THEN last.verdict = Authorize(grants, Requirements(op))
               ELSE Allowed => Authorize(grants, Requirements(op)) = "allowed"
    <3>1. last # Nothing
      BY <2>2, NothingIs
    <3>2. PICK call \in RestCalls : last.asked = call /\ last.needs = <<RequirementFor(call)>>
      BY <1>1, <2>2, <3>1 DEF Inv, Answered, ByOperation, ByREST, ByGit
    <3> DEFINE need == RequirementFor(call)
    <3>3. last.verdict = Authorize(grants, <<need>>)
      BY <1>1, <3>1, <3>2, AnsweredIs
    <3>4. CASE Mapped(call.method, call.path)
      <4>1. call.path \in Seq(ToSet(call.path))
        BY RequestsAssumption
      <4>2. /\ ~WithComments(op)
            /\ Route(call.method, call.path).action = op.action
            /\ Route(call.method, call.path).resource = Target(op)
        BY <2>2, <3>2, <3>4, <4>1, MappedIsOperation
      <4>3. need.action = op.action /\ need.resource = Target(op)
        BY <3>4, <4>2, MappedAsks
      <4>4. Requirements(op) = <<Main(op)>> /\ Located(Target(op)) /\ op.action \in ActionNames
        BY <4>2, OperationAsks
      <4>5. Main(op).action = op.action /\ Main(op).resource = Target(op)
        BY DEF Main, Requirement
      <4> HIDE DEF need
      <4>6. Authorize(grants, <<need>>) = Authorize(grants, <<Main(op)>>)
        BY <2>1, <4>3, <4>4, <4>5, SameDecision
      <4> QED
        BY <3>2, <3>3, <3>4, <4>4, <4>6
    <3>5. CASE ~Mapped(call.method, call.path)
      <4>1. Asks(<<need>>) /\ need.action \notin Catalog
        BY <3>5, UnmappedAsks
      <4> HIDE DEF need
      <4>2. 1 \in DOMAIN <<need>> /\ <<need>>[1].action \notin Catalog
        BY <4>1
      <4>3. Authorize(grants, <<need>>) # "allowed"
        BY <2>1, <4>1, <4>2, UnknownIsDenied
      <4> QED
        BY <3>2, <3>3, <3>5, <4>3 DEF Allowed
    <3> QED
      BY <3>4, <3>5
  <2>3. ASSUME last.via = "git", NEW op \in OperationRequests, op.repo = last.asked.repo,
               op.action = (IF last.asked.service = "git-upload-pack" THEN "repo.clone" ELSE "repo.push")
        PROVE  last.verdict = Authorize(grants, Requirements(op))
    <3>1. last # Nothing
      BY <2>3, NothingIs
    <3>2. PICK r \in GitRequests : /\ ServiceAction(r.service) # ""
                                  /\ last.asked = r /\ last.needs = <<GitNeed(r)>>
      BY <1>1, <2>3, <3>1 DEF Inv, Answered, ByOperation, ByREST, ByGit
    <3> DEFINE need == GitNeed(r)
    <3>3. last.verdict = Authorize(grants, <<need>>)
      BY <1>1, <3>1, <3>2, AnsweredIs
    <3>4. r.service \in {"git-upload-pack", "git-receive-pack"}
      BY <3>2, GitAsks
    <3>5. op.action \in {"repo.clone", "repo.push"} /\ ~WithComments(op)
      BY <2>3 DEF WithComments
    <3>6. Target(op) = RepoRef(op.repo)
      BY <3>5 DEF Target, ForRepo, ForIssue
    <3>7. need.action = op.action /\ need.resource = Target(op)
      BY <2>3, <3>2, <3>4, <3>6 DEF GitNeed, Requirement, ServiceAction
    <3>8. Requirements(op) = <<Main(op)>> /\ Located(Target(op)) /\ op.action \in ActionNames
      BY <3>5, OperationAsks
    <3>9. Main(op).action = op.action /\ Main(op).resource = Target(op)
      BY DEF Main, Requirement
    <3> HIDE DEF need
    <3>10. Authorize(grants, <<need>>) = Authorize(grants, <<Main(op)>>)
      BY <2>1, <3>7, <3>8, <3>9, SameDecision
    <3> QED
      BY <3>3, <3>8, <3>10
  <2> QED
    BY <2>2, <2>3 DEF SameAsOperation
<1> QED
  BY <1>1, DecisionsAreFromGrants, PTL
=============================================================================
