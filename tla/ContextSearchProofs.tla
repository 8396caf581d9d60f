------------------------ MODULE ContextSearchProofs ------------------------
(***************************************************************************)
(* What holds of the search for every DAG, every number of contexts and    *)
(* every order of visits: a built context never changes, every type is     *)
(* kept, what a context caches never hides something better, and nothing   *)
(* that was found is lost.                                                 *)
(***************************************************************************)
EXTENDS ContextRefinement, MeaningProofs, FiniteSetTheorems, TLAPS

\* Every context has a search state and a run, in use or not.
Indexed == DOMAIN state = Contexts /\ DOMAIN run = Contexts

\* A step of a construction changes its own search state and run, no others.
LEMMA StepIsLocal ==
    ASSUME Indexed, NEW c \in Contexts, Start(c) \/ Step(c)
    PROVE  /\ Indexed'
           /\ \A d \in Contexts \ {c} : state'[d] = state[d] /\ run'[d] = run[d]
<1>1. CASE Start(c)
  BY <1>1 DEF Start, StartRoot, StartChild, Indexed
<1>2. CASE Step(c)
  <2>1. CASE CacheProperty(c)
    BY <2>1 DEF CacheProperty, Indexed
  <2>2. CASE ActivateAnd(c)
    BY <2>2 DEF ActivateAnd, SetTallyState, Indexed
  <2>3. CASE ActivateOr(c)
    BY <2>3 DEF ActivateOr, Indexed
  <2>4. CASE Return(c)
    BY <2>4 DEF Return, Indexed
  <2>5. CASE NextNode(c)
    BY <2>5 DEF NextNode, Indexed
  <2>6. CASE NextChild(c)
    BY <2>6 DEF NextChild, Indexed
  <2>7. CASE NextRootRound(c)
    BY <2>7 DEF NextRootRound, Indexed
  <2>8. CASE NextAncestor(c)
    BY <2>8 DEF NextAncestor, Indexed
  <2>9. CASE EndRound(c)
    BY <2>9 DEF EndRound, Indexed
  <2> QED
    BY <1>2, <2>1, <2>2, <2>3, <2>4, <2>5, <2>6, <2>7, <2>8, <2>9 DEF Step
<1> QED
  BY <1>1, <1>2

\* A built context never changes, whatever is built beside or below it.
THEOREM BuiltIsKeptAlways == Spec => BuiltIsKept
<1>1. Init => Indexed
  BY DEF Init, Indexed
<1>2. Indexed /\ [Next]_vars => Indexed'
  BY StepIsLocal DEF Next, vars, Indexed
<1>3. Indexed /\ [Next]_vars => [KeepsBuilt]_vars
  <2> SUFFICES ASSUME Indexed, NEW c \in Contexts, Start(c) \/ Step(c),
                      NEW d \in Built
               PROVE  state'[d] = state[d]
    BY DEF Next, KeepsBuilt
  <2>1. d # c
    BY DEF Built, Start, Step
  <2> QED
    BY <2>1, StepIsLocal DEF Built
<1> QED
  BY <1>1, <1>2, <1>3, PTL DEF Spec, BuiltIsKept

----------------------------------------------------------------------------
(* Rankings.                                                               *)

\* What a setting must have to be ranked.
Ranked(s) == s.spec \in Specificities /\ s.override \in BOOLEAN

\* PropertySetting::better is a strict weak order too.
LEMMA BetterOrder ==
    ASSUME NEW s, NEW t, NEW u, Ranked(s), Ranked(t), Ranked(u)
    PROVE  /\ ~Better(s, s)
           /\ Better(s, t) /\ Better(t, u) => Better(s, u)
           /\ Better(s, t) /\ ~Better(u, t) => Better(s, u)
           /\ ~Better(s, t) /\ ~Better(t, u) => ~Better(s, u)
           /\ Better(s, t) => ~Better(t, s)
<1> DEFINE o(x) == x.override = TRUE
<1>1. ASSUME NEW x \in {s, t, u}, NEW y \in {s, t, u}
      PROVE  Better(x, y) <=> IF o(x) <=> o(y) THEN Below(y.spec, x.spec) ELSE o(x)
  BY DEF Better, Ranked
<1> HIDE DEF o
<1>2. ASSUME NEW x \in {s, t, u}, NEW y \in {s, t, u}, NEW z \in {s, t, u}
      PROVE  /\ ~Below(x.spec, x.spec)
             /\ Below(x.spec, y.spec) /\ Below(y.spec, z.spec) => Below(x.spec, z.spec)
             /\ Below(x.spec, y.spec) => ~Below(y.spec, x.spec)
             /\ ~Below(x.spec, y.spec) /\ ~Below(y.spec, z.spec) => ~Below(x.spec, z.spec)
  BY BelowOrder DEF Ranked
<1> QED
  BY <1>1, <1>2

----------------------------------------------------------------------------
(* Keys and DAGs.                                                          *)

\* Key::addAll makes a key that says no less.
LEMMA KeysAdd ==
    ASSUME NEW k \in Keys, NEW c \in Keys
    PROVE  AddAll(k, c) \in Keys /\ Matches(k, AddAll(k, c)) /\ Matches(k, k)
BY DEF Keys, AddAll, Matches

\* The counters of a key are finite.
LEMMA KeysCount ==
    ASSUME NEW k \in Keys
    PROVE  KeySpecificity(k) \in Specificities
BY SearchAssumption, KeysFinite

\* The constraints of a node add up to a key.
LEMMA ConstraintIsKey ==
    ASSUME NEW d, WellFormed(d), NEW n
    PROVE  ConstraintOf(d, n) \in Keys
<1> DEFINE added == {c.key : c \in {x \in d.constraints : x.node = n}}
           names == UNION {k.names : k \in added}
           values == UNION {k.values : k \in added}
<1>1. added \subseteq Keys
  BY DEF WellFormed, Constraints
<1>2. \A k \in added : /\ k.names \subseteq Names /\ k.values \subseteq Names \X Values
                       /\ \A v \in k.values : v[1] \in k.names
  <2> HIDE DEF added
  <2> QED
    BY <1>1 DEF Keys
<1> HIDE DEF added
<1>3. names \subseteq Names /\ values \subseteq Names \X Values
  BY <1>2
<1>4. \A v \in values : v[1] \in names
  BY <1>2
<1> HIDE DEF names, values
<1>5. [names |-> names, values |-> values] \in Keys
  BY <1>3, <1>4 DEF Keys
<1> QED
  BY <1>5 DEF ConstraintOf, added, names, values

\* A call of Node::activate has what belongs to its node left to do.
LEMMA CallsTyped ==
    ASSUME WellFormed(dag), NEW n \in NodesOf(dag), NEW spec \in Specificities
    PROVE  Call(n, spec) \in Calls
BY DEF Call, Calls, PropsOf, TalliesOf

----------------------------------------------------------------------------
(* One step of a search state.                                             *)

\* Tally states are ordered by what they remember.
LEMMA AtLeastOrder ==
    ASSUME NEW s \in TallyStates, NEW t \in TallyStates, NEW u \in TallyStates
    PROVE  AtLeast(s, s) /\ (AtLeast(s, t) /\ AtLeast(t, u) => AtLeast(s, u))
<1>1. \A x \in {s, t, u} : x.firstMatch \in Specificities /\ x.secondMatch \in Specificities
  BY DEF TallyStates
<1>2. ~Below(s.firstMatch, s.firstMatch) /\ ~Below(s.secondMatch, s.secondMatch)
  BY <1>1, BelowOrder
<1>3. /\ ~Below(s.firstMatch, t.firstMatch) /\ ~Below(t.firstMatch, u.firstMatch)
         => ~Below(s.firstMatch, u.firstMatch)
      /\ ~Below(s.secondMatch, t.secondMatch) /\ ~Below(t.secondMatch, u.secondMatch)
         => ~Below(s.secondMatch, u.secondMatch)
  BY <1>1, BelowOrder
<1> QED
  BY <1>2, <1>3, Zenon DEF AtLeast

\* A search state is no worse than itself.
LEMMA NoWorseReflexive ==
    ASSUME NEW s, StateOK(s)
    PROVE  NoWorse(s, s)
<1>1. Matches(s.key, s.key)
  BY KeysAdd DEF StateOK
<1>2. \A n \in DOMAIN s.nodes : ~Below(s.nodes[n], s.nodes[n])
  BY BelowOrder DEF StateOK
<1>3. \A a \in DOMAIN s.tallies : AtLeast(s.tallies[a], s.tallies[a])
  BY AtLeastOrder DEF StateOK
<1>4. \A x \in DOMAIN s.settings : ~Better(s.settings[x], s.settings[x])
  BY BetterOrder DEF StateOK, Settings, Ranked
<1> QED
  BY <1>1, <1>2, <1>3, <1>4 DEF NoWorse

\* What Node::activate does at once.
LEMMA ActivationGrows ==
    ASSUME WellFormed(dag), NEW s, StateOK(s),
           NEW n \in NodesOf(dag), NEW spec \in Specificities
    PROVE  /\ StateOK(Activated(s, n, spec)) /\ NoWorse(s, Activated(s, n, spec))
           /\ Activated(s, n, spec).parent = s.parent
           /\ Activated(s, n, spec).above = s.above
           /\ Activated(s, n, spec).settings = s.settings
           /\ Activated(s, n, spec).tallies = s.tallies
<1> DEFINE k == AddAll(s.key, ConstraintOf(dag, n))
           c == Constrain(s, ConstraintOf(dag, n))
           t == Activated(s, n, spec)
           nodes == IF IsNews(s, n, spec) THEN Put(s.nodes, n, spec) ELSE s.nodes
<1>1. k \in Keys /\ Matches(s.key, k)
  BY ConstraintIsKey, KeysAdd DEF StateOK
<1>2. /\ DOMAIN nodes \subseteq NodesOf(dag)
      /\ \A m \in DOMAIN nodes : nodes[m] \in Specificities
      /\ \A m \in DOMAIN s.nodes : m \in DOMAIN nodes /\ ~Below(nodes[m], s.nodes[m])
  BY BelowOrder DEF IsNews, Put, StateOK
<1>3. /\ DOMAIN t = DOMAIN s
      /\ t.parent = s.parent /\ t.above = s.above /\ t.key = k /\ t.nodes = nodes
      /\ t.tallies = s.tallies /\ t.settings = s.settings /\ t.changed \in BOOLEAN
  <2>1. /\ DOMAIN c = DOMAIN s /\ c.parent = s.parent /\ c.above = s.above /\ c.key = k
        /\ c.nodes = s.nodes /\ c.tallies = s.tallies /\ c.settings = s.settings
        /\ c.changed = (s.changed \/ k # s.key)
    BY DEF Constrain, StateOK
  <2> HIDE DEF c, k
  <2> QED
    BY <2>1 DEF Activated, StateOK, c
<1> HIDE DEF k, t, nodes
<1>4. StateOK(t)
  BY <1>1, <1>2, <1>3 DEF StateOK
<1>5. NoWorse(s, t)
  BY <1>1, <1>2, <1>3, NoWorseReflexive DEF NoWorse
<1> QED
  BY <1>3, <1>4, <1>5 DEF t

\* Activating a node keeps the calls in progress well typed.
LEMMA StackTyped ==
    ASSUME WellFormed(dag), NEW s, NEW stack \in Seq(Calls),
           NEW n \in NodesOf(dag), NEW spec \in Specificities
    PROVE  CallsAfter(s, stack, n, spec) \in Seq(Calls)
<1>1. Call(n, spec) \in Calls
  BY CallsTyped
<1> QED
  BY <1>1 DEF CallsAfter

----------------------------------------------------------------------------
(* What is inherited.                                                      *)

\* Of several ancestors one is nearest.
LEMMA OneNearest ==
    ASSUME NEW cs \in SUBSET Contexts, NEW a \in Nearest(cs), NEW b \in Nearest(cs)
    PROVE  a = b
<1>1. a \in Contexts /\ b \in Contexts /\ a <= b /\ b <= a
  BY DEF Nearest
<1>2. a \in Nat /\ b \in Nat
  BY <1>1, SearchAssumption DEF Contexts
<1> QED
  BY <1>1, <1>2

\* A context inherits at most one setting of a property, and one tally state.
LEMMA OneInherited ==
    ASSUME TypeOK, NEW s, s.above \subseteq Contexts
    PROVE  /\ \A x : /\ Inherited(s, x) \subseteq Settings
                     /\ \A g, h \in Inherited(s, x) : g = h
           /\ \A t : /\ InheritedTally(s, t) \subseteq TallyStates
                     /\ \A g, h \in InheritedTally(s, t) : g = h
<1>1. ASSUME NEW x
      PROVE  /\ Inherited(s, x) \subseteq Settings
             /\ \A g, h \in Inherited(s, x) : g = h
  <2> DEFINE cs == {b \in s.above : x \in DOMAIN state[b].settings}
  <2>1. cs \in SUBSET Contexts /\ Nearest(cs) \subseteq cs
    BY DEF Nearest
  <2>2. \A a \in cs : state[a].settings[x] \in Settings
    BY DEF TypeOK, StateOK
  <2>3. \A a, b \in Nearest(cs) : a = b
    BY <2>1, OneNearest
  <2>4. Inherited(s, x) = {state[a].settings[x] : a \in Nearest(cs)}
    BY DEF Inherited
  <2> HIDE DEF cs
  <2> QED
    BY <2>1, <2>2, <2>3, <2>4
<1>2. ASSUME NEW t
      PROVE  /\ InheritedTally(s, t) \subseteq TallyStates
             /\ \A g, h \in InheritedTally(s, t) : g = h
  <2> DEFINE cs == {b \in s.above : t.node \in DOMAIN state[b].tallies}
  <2>1. cs \in SUBSET Contexts /\ Nearest(cs) \subseteq cs
    BY DEF Nearest
  <2>2. \A a \in cs : state[a].tallies[t.node] \in TallyStates
    BY DEF TypeOK, StateOK
  <2>3. \A a, b \in Nearest(cs) : a = b
    BY <2>1, OneNearest
  <2>4. InheritedTally(s, t) = {state[a].tallies[t.node] : a \in Nearest(cs)}
    BY DEF InheritedTally
  <2> HIDE DEF cs
  <2> QED
    BY <2>1, <2>2, <2>3, <2>4
<1> QED
  BY <1>1, <1>2

\* A setting of a context may hide an inherited one.
Hides(v, hidden) == \/ Better(v, hidden)
                    \/ ~Better(hidden, v) /\ hidden.values \subseteq v.values

\* Settings can be ranked.
LEMMA SettingsRanked ==
    ASSUME NEW s \in Settings
    PROVE  Ranked(s)
BY DEF Settings, Ranked

\* A setting that is no worse than the own one, and hides the inherited one.
LEMMA PuttingSetting ==
    ASSUME NEW s, StateOK(s), OutdoesHidden(s), NEW x \in PropNames, NEW v \in Settings,
           x \in DOMAIN s.settings => ~Better(s.settings[x], v),
           \A hidden \in Inherited(s, x) : Hides(v, hidden),
           NEW t, t = [s EXCEPT !.settings = Put(@, x, v)]
    PROVE  /\ StateOK(t) /\ NoWorse(s, t) /\ OutdoesHidden(t)
           /\ t.parent = s.parent /\ t.above = s.above /\ t.tallies = s.tallies
<1> DEFINE settings == Put(s.settings, x, v)
<1>1. /\ DOMAIN t = DOMAIN s
      /\ t.parent = s.parent /\ t.above = s.above /\ t.key = s.key /\ t.nodes = s.nodes
      /\ t.tallies = s.tallies /\ t.settings = settings /\ t.changed = s.changed
  BY DEF StateOK
<1>2. /\ DOMAIN settings = DOMAIN s.settings \cup {x}
      /\ settings[x] = v
      /\ \A y \in DOMAIN s.settings : y # x => settings[y] = s.settings[y]
  BY DEF Put
<1> HIDE DEF settings
<1>3. StateOK(t)
  BY <1>1, <1>2 DEF StateOK
<1>4. NoWorse(s, t)
  BY <1>1, <1>2, NoWorseReflexive DEF NoWorse
<1>5. OutdoesHidden(t)
  <2>1. \A y : Inherited(t, y) = Inherited(s, y)
    BY <1>1 DEF Inherited
  <2> QED
    BY <1>1, <1>2, <2>1 DEF OutdoesHidden, Hides
<1> QED
  BY <1>1, <1>3, <1>4, <1>5

\* What SearchState::cacheProperty does, in each of its branches.
LEMMA CachingGrows ==
    ASSUME WellFormed(dag), TypeOK, NEW s, StateOK(s), OutdoesHidden(s),
           NEW p \in dag.props, NEW spec \in Specificities
    PROVE  LET t == Cached(s, p, spec)
           IN  /\ StateOK(t) /\ NoWorse(s, t) /\ OutdoesHidden(t)
               /\ t.parent = s.parent /\ t.above = s.above /\ t.tallies = s.tallies
<1> DEFINE x == p.name
           new == [spec |-> spec, override |-> p.override, values |-> {p}]
           own == x \in DOMAIN s.settings
           olds == IF own THEN {s.settings[x]} ELSE Inherited(s, x)
           more(old) == [old EXCEPT !.values = @ \cup {p}]
           merged(old) == IF Better(new, old) THEN new
                          ELSE IF Better(old, new) THEN old ELSE more(old)
           good(t) == /\ StateOK(t) /\ NoWorse(s, t) /\ OutdoesHidden(t)
                      /\ t.parent = s.parent /\ t.above = s.above /\ t.tallies = s.tallies
<1>1. x \in PropNames /\ new \in Settings
  BY DEF WellFormed, Props, Settings
<1>2. olds \subseteq Settings /\ \A g, h \in olds : g = h
  BY OneInherited DEF StateOK
<1>3. CASE olds = {}
  <2>1. ~own /\ Inherited(s, x) = {}
    BY <1>3
  <2>2. Cached(s, p, spec) = [s EXCEPT !.settings = Put(@, x, new)]
    BY <1>3 DEF Cached
  <2> HIDE DEF new, x
  <2> QED
    BY <1>1, <2>1, <2>2, PuttingSetting
<1>4. ASSUME NEW old \in olds
      PROVE  good(Cached(s, p, spec))
  <2>1. olds = {old} /\ old \in Settings
    BY <1>2
  <2>2. Cached(s, p, spec) = IF ~own /\ Better(old, new) THEN s
                             ELSE [s EXCEPT !.settings = Put(@, x, merged(old))]
    <3> HIDE DEF olds
    <3>1. olds # {} /\ (CHOOSE o \in olds : TRUE) = old
      BY <2>1
    <3> QED
      BY <3>1 DEF Cached, olds
  <2>3. CASE ~own /\ Better(old, new)
    BY <2>2, <2>3, NoWorseReflexive
  <2>4. CASE ~(~own /\ Better(old, new))
    <3>1. /\ more(old) \in Settings /\ more(old).spec = old.spec
          /\ more(old).override = old.override /\ old.values \subseteq more(old).values
      BY <2>1 DEF Settings
    <3> DEFINE v == merged(old)
    <3>2. v \in Settings
      BY <1>1, <2>1, <3>1
    <3>3. Better(v, old) \/ (~Better(old, v) /\ ~Better(v, old) /\ old.values \subseteq v.values)
      <4> HIDE DEF new
      <4>1. ~Better(old, old)
        BY <2>1, SettingsRanked, BetterOrder
      <4>2. ~Better(old, more(old)) /\ ~Better(more(old), old)
        BY <3>1, <4>1 DEF Better
      <4> QED
        BY <3>1, <4>1, <4>2
    <3> HIDE DEF v
    <3>4. own => ~Better(s.settings[x], v)
      <4> SUFFICES ASSUME own PROVE ~Better(old, v)
        BY <2>1
      <4> QED
        BY <2>1, <3>2, <3>3, SettingsRanked, BetterOrder
    <3>5. \A hidden \in Inherited(s, x) : Hides(v, hidden)
      <4> SUFFICES ASSUME NEW hidden \in Inherited(s, x) PROVE Hides(v, hidden)
        OBVIOUS
      <4>1. hidden \in Settings
        BY OneInherited DEF StateOK
      <4>2. hidden = old \/ Hides(old, hidden)
        BY <2>1 DEF OutdoesHidden, Hides
      <4>3. Ranked(v) /\ Ranked(old) /\ Ranked(hidden)
        BY <2>1, <3>2, <4>1, SettingsRanked
      <4> HIDE DEF olds
      <4> QED
        BY <3>3, <4>2, <4>3, BetterOrder DEF Hides
    <3>6. Cached(s, p, spec) = [s EXCEPT !.settings = Put(@, x, v)]
      BY <2>2, <2>4 DEF v
    <3> HIDE DEF x, new
    <3> QED
      BY <1>1, <3>2, <3>4, <3>5, <3>6, PuttingSetting
  <2> QED
    BY <2>3, <2>4
<1> HIDE DEF good, olds
<1>5. good(Cached(s, p, spec))
  BY <1>3, <1>4 DEF good
<1> QED
  BY <1>5 DEF good

\* Growth adds up over the parts of a step.
LEMMA NoWorseTransitive ==
    ASSUME NEW s, StateOK(s), NEW t, StateOK(t), NEW u, StateOK(u),
           NoWorse(s, t), NoWorse(t, u)
    PROVE  NoWorse(s, u)
<1>1. Matches(s.key, u.key)
  BY DEF NoWorse, Matches
<1>2. \A n \in DOMAIN s.nodes : n \in DOMAIN u.nodes /\ ~Below(u.nodes[n], s.nodes[n])
  BY BelowOrder DEF NoWorse, StateOK
<1>3. \A a \in DOMAIN s.tallies : a \in DOMAIN u.tallies /\ AtLeast(u.tallies[a], s.tallies[a])
  BY AtLeastOrder DEF NoWorse, StateOK
<1>4. ASSUME NEW x \in DOMAIN s.settings
      PROVE  x \in DOMAIN u.settings /\ ~Better(s.settings[x], u.settings[x])
  <2>1. x \in DOMAIN t.settings /\ x \in DOMAIN u.settings
    BY DEF NoWorse
  <2>2. Ranked(s.settings[x]) /\ Ranked(t.settings[x]) /\ Ranked(u.settings[x])
    BY <2>1, SettingsRanked DEF StateOK
  <2> QED
    BY <2>1, <2>2, BetterOrder DEF NoWorse
<1> QED
  BY <1>1, <1>2, <1>3, <1>4 DEF NoWorse

\* What TallyState::activate and SearchState::setTallyState do.
LEMMA MatchingGrows ==
    ASSUME WellFormed(dag), TypeOK, NEW s, StateOK(s), RemembersLegs(s),
           NEW t \in dag.tallies, NEW leg, NEW spec \in Specificities,
           NEW new, new = LegMatched(TallyState(s, t), t, leg, spec),
           NEW u, u = [s EXCEPT !.tallies = Put(@, t.node, new)]
    PROVE  /\ new \in TallyStates
           /\ StateOK(u) /\ NoWorse(s, u) /\ RemembersLegs(u)
           /\ u.parent = s.parent /\ u.above = s.above /\ u.settings = s.settings
<1> DEFINE old == TallyState(s, t)
           tallies == Put(s.tallies, t.node, new)
<1>1. ASSUME NEW hidden \in InheritedTally(s, t), t.node \notin DOMAIN s.tallies
      PROVE  old = hidden
  <2>1. \A g \in InheritedTally(s, t) : g = hidden
    BY OneInherited DEF StateOK
  <2> QED
    BY <1>1, <2>1 DEF TallyState
<1>2. old \in TallyStates
  <2>1. EmptyTally \in TallyStates
    BY DEF EmptyTally, TallyStates, Spec0, Specificities
  <2>2. CASE t.node \in DOMAIN s.tallies
    BY <2>2 DEF TallyState, StateOK
  <2>3. CASE t.node \notin DOMAIN s.tallies /\ InheritedTally(s, t) = {}
    BY <2>1, <2>3 DEF TallyState
  <2>4. ASSUME t.node \notin DOMAIN s.tallies, NEW hidden \in InheritedTally(s, t)
        PROVE  old \in TallyStates
    BY <1>1, <2>4, OneInherited DEF StateOK
  <2> QED
    BY <2>2, <2>3, <2>4
<1> HIDE DEF old
<1>3. new \in TallyStates /\ AtLeast(new, old)
  <2>1. old.firstMatch \in Specificities /\ old.secondMatch \in Specificities
    BY <1>2 DEF TallyStates
  <2>2. new = LegMatched(old, t, leg, spec)
    BY DEF old
  <2>3. new.firstMatch \in Specificities /\ ~Below(new.firstMatch, old.firstMatch)
    BY <2>1, <2>2, HigherBounds, BelowOrder DEF LegMatched
  <2>4. new.secondMatch \in Specificities /\ ~Below(new.secondMatch, old.secondMatch)
    BY <2>1, <2>2, HigherBounds, BelowOrder DEF LegMatched
  <2>5. /\ new.firstMatched = (old.firstMatched \/ leg = t.first)
        /\ new.secondMatched = (old.secondMatched \/ leg = t.second)
        /\ new = [firstMatched |-> new.firstMatched, secondMatched |-> new.secondMatched,
                  firstMatch |-> new.firstMatch, secondMatch |-> new.secondMatch]
    BY <2>2 DEF LegMatched
  <2> HIDE DEF old
  <2>6. new.firstMatched \in BOOLEAN /\ new.secondMatched \in BOOLEAN
    BY <2>5
  <2>7. new \in TallyStates
    BY <2>3, <2>4, <2>5, <2>6 DEF TallyStates
  <2> QED
    BY <2>3, <2>4, <2>5, <2>7 DEF AtLeast
<1>4. /\ DOMAIN u = DOMAIN s
      /\ u.parent = s.parent /\ u.above = s.above /\ u.key = s.key /\ u.nodes = s.nodes
      /\ u.tallies = tallies /\ u.settings = s.settings /\ u.changed = s.changed
  BY DEF StateOK
<1>5. /\ DOMAIN tallies = DOMAIN s.tallies \cup {t.node}
      /\ tallies[t.node] = new
      /\ \A m \in DOMAIN s.tallies : m # t.node => tallies[m] = s.tallies[m]
  BY DEF Put
<1> HIDE DEF tallies
<1>6. StateOK(u)
  BY <1>3, <1>4, <1>5 DEF StateOK, WellFormed
<1>7. t.node \in DOMAIN s.tallies => AtLeast(new, s.tallies[t.node])
  BY <1>3 DEF old, TallyState
<1>8. NoWorse(s, u)
  BY <1>4, <1>5, <1>7, NoWorseReflexive DEF NoWorse
<1>9. \A hidden \in InheritedTally(s, t) : AtLeast(new, hidden)
  <2> SUFFICES ASSUME NEW hidden \in InheritedTally(s, t) PROVE AtLeast(new, hidden)
    OBVIOUS
  <2>1. hidden \in TallyStates
    BY OneInherited DEF StateOK
  <2>2. CASE t.node \notin DOMAIN s.tallies
    BY <1>1, <1>3, <2>2
  <2>3. CASE t.node \in DOMAIN s.tallies
    <3>1. AtLeast(s.tallies[t.node], hidden) /\ s.tallies[t.node] \in TallyStates
      BY <2>3 DEF RemembersLegs, StateOK
    <3> QED
      BY <1>3, <1>7, <2>1, <2>3, <3>1, AtLeastOrder
  <2> QED
    BY <2>2, <2>3
<1>10. RemembersLegs(u)
  <2>1. \A r : InheritedTally(u, r) = InheritedTally(s, r)
    BY <1>4 DEF InheritedTally
  <2>2. \A r : r.node = t.node => InheritedTally(s, r) = InheritedTally(s, t)
    BY DEF InheritedTally
  <2> QED
    BY <1>4, <1>5, <1>9, <2>1, <2>2 DEF RemembersLegs
<1> QED
  BY <1>3, <1>4, <1>6, <1>8, <1>10

----------------------------------------------------------------------------
(* Steps of a construction.                                                *)

\* Where a run is, given what its context looks up to.
Follows(r, s) ==
    /\ r.phase = "building" /\ s.parent # None => r.ancestor # None
    /\ r.ancestor # None => r.ancestor \in Built
    /\ r.todo # {} => /\ r.ancestor # None
                      /\ r.todo \subseteq DOMAIN state[r.ancestor].nodes

\* What a step of the construction with search state s and run r may make of them.
Grows(s, t, r) ==
    /\ StateOK(t) /\ NoWorse(s, t) /\ OutdoesHidden(t) /\ RemembersLegs(t)
    /\ t.parent = s.parent /\ t.above = s.above
    /\ RunOK(r) /\ Follows(r, t) /\ r.phase \in {"building", "built"}

\* Taking work off the innermost call keeps the calls well typed.
LEMMA StackEdited ==
    ASSUME NEW stack \in Seq(Calls), stack # <<>>, NEW S
    PROVE  /\ Head(stack) \in Calls /\ Tail(stack) \in Seq(Calls)
           /\ [stack EXCEPT ![1].props = @ \ S] \in Seq(Calls)
           /\ [stack EXCEPT ![1].ands = @ \ S] \in Seq(Calls)
           /\ [stack EXCEPT ![1].ors = @ \ S] \in Seq(Calls)
<1>1. Head(stack) \in Calls /\ Tail(stack) \in Seq(Calls) /\ Head(stack) = stack[1]
  OBVIOUS
<1>2. \A call \in Calls : /\ [call EXCEPT !.props = @ \ S] \in Calls
                          /\ [call EXCEPT !.ands = @ \ S] \in Calls
                          /\ [call EXCEPT !.ors = @ \ S] \in Calls
  BY DEF Calls
<1>3. \A call \in Calls : [stack EXCEPT ![1] = call] \in Seq(Calls)
  OBVIOUS
<1>4. /\ [stack EXCEPT ![1].props = @ \ S] = [stack EXCEPT ![1] = [stack[1] EXCEPT !.props = @ \ S]]
      /\ [stack EXCEPT ![1].ands = @ \ S] = [stack EXCEPT ![1] = [stack[1] EXCEPT !.ands = @ \ S]]
      /\ [stack EXCEPT ![1].ors = @ \ S] = [stack EXCEPT ![1] = [stack[1] EXCEPT !.ors = @ \ S]]
  OBVIOUS
<1> QED
  BY <1>1, <1>2, <1>3, <1>4

\* Changing no more than the calls in progress.
LEMMA StackReplaced ==
    ASSUME NEW s, NEW r, RunOK(r), Follows(r, s), r.phase = "building",
           NEW stack \in Seq(Calls), NEW t, t.parent = s.parent
    PROVE  LET q == [r EXCEPT !.stack = stack]
           IN  RunOK(q) /\ Follows(q, t) /\ q.phase \in {"building", "built"}
BY DEF RunOK, Follows

\* What the invariant says of a context under construction.
LEMMA Situation ==
    ASSUME IInv, NEW c \in Contexts, run[c].phase = "building"
    PROVE  /\ WellFormed(dag) /\ TypeOK
           /\ StateOK(state[c]) /\ OutdoesHidden(state[c]) /\ RemembersLegs(state[c])
           /\ RunOK(run[c]) /\ Follows(run[c], state[c])
           /\ DOMAIN state = Contexts /\ DOMAIN run = Contexts
BY SearchAssumption DEF IInv, TypeOK, CacheCoherent, TallyCoherent, LineageOK, Follows

\* Node::activate, with what becomes of the calls in progress.
LEMMA ActivationStep ==
    ASSUME IInv, NEW c \in Contexts, run[c].phase = "building",
           NEW s, StateOK(s), OutdoesHidden(s), RemembersLegs(s), NoWorse(state[c], s),
           s.parent = state[c].parent, s.above = state[c].above,
           NEW n \in NodesOf(dag), NEW spec \in Specificities
    PROVE  LET t == Activated(s, n, spec)
           IN  /\ StateOK(t) /\ NoWorse(state[c], t) /\ OutdoesHidden(t) /\ RemembersLegs(t)
               /\ t.parent = state[c].parent /\ t.above = state[c].above
<1> DEFINE t == Activated(s, n, spec)
<1>1. /\ StateOK(t) /\ NoWorse(s, t) /\ t.parent = s.parent /\ t.above = s.above
      /\ t.settings = s.settings /\ t.tallies = s.tallies
  BY Situation, ActivationGrows
<1> HIDE DEF t
<1>2. NoWorse(state[c], t)
  BY <1>1, Situation, NoWorseTransitive
<1>3. OutdoesHidden(t)
  BY <1>1 DEF OutdoesHidden, Inherited
<1>4. RemembersLegs(t)
  BY <1>1 DEF RemembersLegs, InheritedTally
<1> QED
  BY <1>1, <1>2, <1>3, <1>4 DEF t

\* One lemma for each step of a construction.
LEMMA CachePropertyGrows ==
    ASSUME IInv, NEW c \in Contexts, run[c].phase = "building", run[c].stack # <<>>,
           CacheProperty(c)
    PROVE  Grows(state[c], state'[c], run'[c])
<1> PICK p \in Top(c).props : /\ state' = [state EXCEPT ![c] = Cached(@, p, Top(c).spec)]
                              /\ run' = [run EXCEPT ![c].stack[1].props = @ \ {p}]
  BY DEF CacheProperty
<1> DEFINE stack == [run[c].stack EXCEPT ![1].props = @ \ {p}]
<1>1. /\ state'[c] = Cached(state[c], p, Top(c).spec)
      /\ run'[c] = [run[c] EXCEPT !.stack = stack]
  BY Situation DEF RunOK
<1>2. Top(c) \in Calls /\ stack \in Seq(Calls)
  BY Situation, StackEdited DEF RunOK, Top
<1>3. p \in dag.props /\ Top(c).spec \in Specificities
  BY <1>2 DEF Calls
<1>4. LET t == Cached(state[c], p, Top(c).spec)
      IN  /\ StateOK(t) /\ NoWorse(state[c], t) /\ OutdoesHidden(t)
          /\ t.parent = state[c].parent /\ t.above = state[c].above
          /\ t.tallies = state[c].tallies
  BY <1>3, Situation, CachingGrows
<1>5. RemembersLegs(state'[c])
  BY <1>1, <1>4, Situation DEF RemembersLegs, InheritedTally
<1> HIDE DEF stack
<1> QED
  BY <1>1, <1>2, <1>4, <1>5, Situation, StackReplaced DEF Grows

LEMMA ActivateOrGrows ==
    ASSUME IInv, NEW c \in Contexts, run[c].phase = "building", run[c].stack # <<>>,
           ActivateOr(c)
    PROVE  Grows(state[c], state'[c], run'[c])
<1> PICK t \in Top(c).ors :
        LET rest == [run[c].stack EXCEPT ![1].ors = @ \ {t}]
        IN  /\ state' = [state EXCEPT ![c] = Activated(@, t.node, Top(c).spec)]
            /\ run' = [run EXCEPT ![c].stack =
                          CallsAfter(state[c], rest, t.node, Top(c).spec)]
  BY DEF ActivateOr
<1> DEFINE rest == [run[c].stack EXCEPT ![1].ors = @ \ {t}]
           stack == CallsAfter(state[c], rest, t.node, Top(c).spec)
<1>1. /\ state'[c] = Activated(state[c], t.node, Top(c).spec)
      /\ run'[c] = [run[c] EXCEPT !.stack = stack]
  BY Situation DEF RunOK
<1>2. Top(c) \in Calls /\ rest \in Seq(Calls)
  BY Situation, StackEdited DEF RunOK, Top
<1>3. t.node \in NodesOf(dag) /\ Top(c).spec \in Specificities
  BY <1>2, Situation DEF Calls, WellFormed
<1> HIDE DEF rest
<1>4. stack \in Seq(Calls)
  BY <1>2, <1>3, Situation, StackTyped
<1> HIDE DEF stack
<1>5. /\ StateOK(state'[c]) /\ NoWorse(state[c], state'[c]) /\ OutdoesHidden(state'[c])
      /\ RemembersLegs(state'[c])
      /\ state'[c].parent = state[c].parent /\ state'[c].above = state[c].above
  BY <1>1, <1>3, Situation, NoWorseReflexive, ActivationStep
<1> QED
  BY <1>1, <1>4, <1>5, Situation, StackReplaced DEF Grows

LEMMA ActivateAndGrows ==
    ASSUME IInv, NEW c \in Contexts, run[c].phase = "building", run[c].stack # <<>>,
           ActivateAnd(c)
    PROVE  Grows(state[c], state'[c], run'[c])
<1> PICK t \in Top(c).ands :
        LET new  == LegMatched(TallyState(state[c], t), t, Top(c).node, Top(c).spec)
            set  == SetTallyState(c, state[c], t, new)
            spec == Plus(new.firstMatch, new.secondMatch)
            rest == [run[c].stack EXCEPT ![1].ands = @ \ {t}]
        IN  IF new.firstMatched /\ new.secondMatched
            THEN /\ state' = [set EXCEPT ![c] = Activated(@, t.node, spec)]
                 /\ run' = [run EXCEPT ![c].stack =
                               CallsAfter(set[c], rest, t.node, spec)]
            ELSE /\ state' = set
                 /\ run' = [run EXCEPT ![c].stack = rest]
  BY DEF ActivateAnd
<1> DEFINE new  == LegMatched(TallyState(state[c], t), t, Top(c).node, Top(c).spec)
           s    == [state[c] EXCEPT !.tallies = Put(@, t.node, new)]
           set  == SetTallyState(c, state[c], t, new)
           spec == Plus(new.firstMatch, new.secondMatch)
           rest == [run[c].stack EXCEPT ![1].ands = @ \ {t}]
<1>1. Top(c) \in Calls /\ rest \in Seq(Calls)
  BY Situation, StackEdited DEF RunOK, Top
<1>2. t \in dag.tallies /\ Top(c).spec \in Specificities
  BY <1>1 DEF Calls
<1>3. t.node \in NodesOf(dag)
  BY <1>2, Situation DEF WellFormed
<1>4. /\ new \in TallyStates /\ StateOK(s) /\ NoWorse(state[c], s) /\ RemembersLegs(s)
      /\ s.parent = state[c].parent /\ s.above = state[c].above
      /\ s.settings = state[c].settings
  <2> HIDE DEF new
  <2>1. new = LegMatched(TallyState(state[c], t), t, Top(c).node, Top(c).spec)
    BY DEF new
  <2> QED
    BY <1>2, <2>1, Situation, MatchingGrows
<1>5. set = [state EXCEPT ![c] = s] /\ set[c] = s
  BY Situation DEF SetTallyState
<1> HIDE DEF s, rest
<1>6. OutdoesHidden(s)
  BY <1>4, Situation DEF OutdoesHidden, Inherited
<1>7. spec \in Specificities
  <2> HIDE DEF new
  <2> QED
    BY <1>4, HigherBounds DEF TallyStates
<1> HIDE DEF new, set, spec
<1>8. CASE state' = set /\ run' = [run EXCEPT ![c].stack = rest]
  <2>1. state'[c] = s /\ run'[c] = [run[c] EXCEPT !.stack = rest]
    BY <1>5, <1>8, Situation DEF RunOK
  <2> QED
    BY <1>1, <1>4, <1>6, <2>1, Situation, StackReplaced DEF Grows
<1>9. CASE /\ state' = [set EXCEPT ![c] = Activated(@, t.node, spec)]
           /\ run' = [run EXCEPT ![c].stack = CallsAfter(set[c], rest, t.node, spec)]
  <2> DEFINE stack == CallsAfter(s, rest, t.node, spec)
  <2>1. /\ state'[c] = Activated(s, t.node, spec)
        /\ run'[c] = [run[c] EXCEPT !.stack = stack]
    BY <1>5, <1>9, Situation DEF RunOK
  <2>2. stack \in Seq(Calls)
    BY <1>1, <1>3, <1>7, Situation, StackTyped
  <2> HIDE DEF stack
  <2>3. /\ StateOK(state'[c]) /\ NoWorse(state[c], state'[c]) /\ OutdoesHidden(state'[c])
        /\ RemembersLegs(state'[c])
        /\ state'[c].parent = state[c].parent /\ state'[c].above = state[c].above
    BY <1>3, <1>4, <1>6, <1>7, <2>1, ActivationStep
  <2> QED
    BY <2>1, <2>2, <2>3, Situation, StackReplaced DEF Grows
<1> QED
  BY <1>8, <1>9 DEF new, set, spec, rest

\* The search state is left alone, but for the flag of the key.
LEMMA FlagReset ==
    ASSUME IInv, NEW c \in Contexts, run[c].phase = "building",
           NEW t, t = state[c] \/ t = [state[c] EXCEPT !.changed = FALSE]
    PROVE  /\ StateOK(t) /\ NoWorse(state[c], t) /\ OutdoesHidden(t) /\ RemembersLegs(t)
           /\ t.parent = state[c].parent /\ t.above = state[c].above
<1> DEFINE s == state[c]
<1>1. StateOK(s) /\ OutdoesHidden(s) /\ RemembersLegs(s)
  BY Situation
<1>2. /\ DOMAIN t = DOMAIN s
      /\ t.parent = s.parent /\ t.above = s.above /\ t.key = s.key /\ t.nodes = s.nodes
      /\ t.tallies = s.tallies /\ t.settings = s.settings /\ t.changed \in BOOLEAN
  BY <1>1 DEF StateOK
<1> HIDE DEF s
<1>3. StateOK(t) /\ NoWorse(s, t)
  BY <1>1, <1>2, NoWorseReflexive DEF StateOK, NoWorse
<1>4. OutdoesHidden(t) /\ RemembersLegs(t)
  BY <1>1, <1>2 DEF OutdoesHidden, Inherited, RemembersLegs, InheritedTally
<1> QED
  BY <1>2, <1>3, <1>4 DEF s

LEMMA ReturnGrows ==
    ASSUME IInv, NEW c \in Contexts, run[c].phase = "building", run[c].stack # <<>>,
           Return(c)
    PROVE  Grows(state[c], state'[c], run'[c])
<1> DEFINE rest == Tail(run[c].stack)
<1>1. state'[c] = state[c] /\ run'[c] = [run[c] EXCEPT !.stack = rest]
  BY Situation DEF Return, RunOK
<1>2. rest \in Seq(Calls)
  BY Situation, StackEdited DEF RunOK
<1> HIDE DEF rest
<1>3. RunOK(run'[c]) /\ Follows(run'[c], state[c]) /\ run'[c].phase \in {"building", "built"}
  BY <1>1, <1>2, Situation, StackReplaced
<1> QED
  BY <1>1, <1>3, FlagReset DEF Grows

LEMMA NextNodeGrows ==
    ASSUME IInv, NEW c \in Contexts, run[c].phase = "building", NextNode(c)
    PROVE  Grows(state[c], state'[c], run'[c])
<1> DEFINE a == run[c].ancestor
<1> PICK n \in run[c].todo :
        run' = [run EXCEPT ![c].todo = @ \ {n},
                           ![c].edges = {<<e, state[a].nodes[n]>> : e \in EdgesFrom(dag, n)}]
  BY DEF NextNode
<1> DEFINE edges == {<<e, state[a].nodes[n]>> : e \in EdgesFrom(dag, n)}
<1>1. /\ state'[c] = state[c]
      /\ run'[c] = [run[c] EXCEPT !.todo = @ \ {n}, !.edges = edges]
  BY Situation DEF NextNode, RunOK
<1>2. a \in Contexts /\ n \in DOMAIN state[a].nodes
  BY Situation DEF Follows, Built
<1>3. state[a].nodes[n] \in Specificities
  BY <1>2, Situation DEF TypeOK, StateOK
<1>4. edges \subseteq dag.edges \X Specificities
  BY <1>3 DEF EdgesFrom
<1> HIDE DEF edges, a
<1>5. RunOK(run'[c]) /\ Follows(run'[c], state[c]) /\ run'[c].phase = "building"
  BY <1>1, <1>4, Situation DEF RunOK, Follows
<1> QED
  BY <1>1, <1>5, FlagReset DEF Grows

LEMMA NextChildGrows ==
    ASSUME IInv, NEW c \in Contexts, run[c].phase = "building", NextChild(c)
    PROVE  Grows(state[c], state'[c], run'[c])
<1> PICK es \in run[c].edges :
        LET n    == es[1].child
            spec == Plus(es[2], KeySpecificity(es[1].key))
        IN  IF Matches(es[1].key, state[c].key)
            THEN /\ state' = [state EXCEPT ![c] = Activated(@, n, spec)]
                 /\ run' = [run EXCEPT ![c].edges = @ \ {es},
                                       ![c].stack = CallsAfter(state[c], @, n, spec)]
            ELSE /\ run' = [run EXCEPT ![c].edges = @ \ {es}]
                 /\ UNCHANGED state
  BY DEF NextChild
<1> DEFINE n     == es[1].child
           spec  == Plus(es[2], KeySpecificity(es[1].key))
           stack == CallsAfter(state[c], run[c].stack, n, spec)
<1>1. es[1] \in dag.edges /\ es[2] \in Specificities
  BY Situation DEF RunOK
<1>2. n \in NodesOf(dag) /\ es[1].key \in Keys
  BY <1>1, Situation DEF WellFormed, Edges
<1>3. spec \in Specificities
  BY <1>1, <1>2, KeysCount, HigherBounds
<1> HIDE DEF n, spec
<1>4. stack \in Seq(Calls)
  BY <1>2, <1>3, Situation, StackTyped DEF RunOK
<1> DEFINE r == [run[c] EXCEPT !.edges = @ \ {es}]
<1>5. RunOK(r) /\ Follows(r, state[c]) /\ r.phase = "building"
  BY Situation DEF RunOK, Follows
<1>6. CASE /\ state' = [state EXCEPT ![c] = Activated(@, n, spec)]
           /\ run' = [run EXCEPT ![c].edges = @ \ {es}, ![c].stack = CallsAfter(state[c], @, n, spec)]
  <2>1. state'[c] = Activated(state[c], n, spec) /\ run'[c] = [r EXCEPT !.stack = stack]
    BY <1>6, Situation DEF RunOK
  <2>2. /\ StateOK(state'[c]) /\ NoWorse(state[c], state'[c]) /\ OutdoesHidden(state'[c])
        /\ RemembersLegs(state'[c])
        /\ state'[c].parent = state[c].parent /\ state'[c].above = state[c].above
    BY <1>2, <1>3, <2>1, Situation, NoWorseReflexive, ActivationStep
  <2> HIDE DEF r, stack
  <2> QED
    BY <1>4, <1>5, <2>1, <2>2, StackReplaced DEF Grows
<1>7. CASE state' = state /\ run' = [run EXCEPT ![c].edges = @ \ {es}]
  <2>1. state'[c] = state[c] /\ run'[c] = r
    BY <1>7, Situation
  <2> HIDE DEF r
  <2> QED
    BY <1>5, <2>1, FlagReset DEF Grows
<1> QED
  BY <1>6, <1>7 DEF n, spec

\* A run that has ended looks up to nothing.
LEMMA FinishedRun ==
    ASSUME NEW s
    PROVE  RunOK(Finished) /\ Follows(Finished, s) /\ Finished.phase = "built"
BY DEF RunOK, Follows, Finished, Idle, None

LEMMA NextRootRoundGrows ==
    ASSUME IInv, NEW c \in Contexts, run[c].phase = "building", NextRootRound(c)
    PROVE  Grows(state[c], state'[c], run'[c])
<1>1. CASE state[c].changed
  <2> DEFINE edges == {<<e, Spec0>> : e \in EdgesFrom(dag, Root)}
  <2>1. /\ state'[c] = [state[c] EXCEPT !.changed = FALSE]
        /\ run'[c] = [run[c] EXCEPT !.edges = edges]
    BY <1>1, Situation DEF NextRootRound
  <2>2. edges \subseteq dag.edges \X Specificities
    BY DEF EdgesFrom, Spec0, Specificities
  <2> HIDE DEF edges
  <2>3. /\ StateOK(state'[c]) /\ NoWorse(state[c], state'[c]) /\ OutdoesHidden(state'[c])
        /\ RemembersLegs(state'[c])
        /\ state'[c].parent = state[c].parent /\ state'[c].above = state[c].above
    BY <2>1, FlagReset
  <2>4. RunOK(run'[c]) /\ Follows(run'[c], state'[c]) /\ run'[c].phase = "building"
    BY <2>1, <2>2, <2>3, Situation DEF RunOK, Follows
  <2> QED
    BY <2>3, <2>4 DEF Grows
<1>2. CASE ~state[c].changed
  <2>1. state'[c] = state[c] /\ run'[c] = Finished
    BY <1>2, Situation DEF NextRootRound
  <2> QED
    BY <2>1, FlagReset, FinishedRun DEF Grows
<1> QED
  BY <1>1, <1>2

\* Parents are above, and what is above is built.
LEMMA ParentsBuilt ==
    ASSUME IInv, NEW c \in Contexts, state[c].parent # None
    PROVE  /\ state[c].parent \in Built /\ state[c].parent \in Contexts
           /\ DOMAIN state[state[c].parent].nodes \subseteq NodesOf(dag)
BY DEF IInv, LineageOK, Built, TypeOK, StateOK

LEMMA NextAncestorGrows ==
    ASSUME IInv, NEW c \in Contexts, run[c].phase = "building", NextAncestor(c)
    PROVE  Grows(state[c], state'[c], run'[c])
<1> DEFINE p == state[run[c].ancestor].parent
<1>1. /\ state'[c] = [state[c] EXCEPT !.changed = FALSE]
      /\ run'[c] = [run[c] EXCEPT !.ancestor = p, !.again = @ \/ state[c].changed,
                                  !.todo = DOMAIN state[p].nodes]
      /\ state[c].parent # None /\ p # None
  BY Situation DEF NextAncestor
<1>2. run[c].ancestor \in Contexts
  BY <1>1, Situation DEF Follows, Built
<1>3. p \in Built /\ p \in Contexts /\ DOMAIN state[p].nodes \subseteq NodesOf(dag)
  BY <1>1, <1>2, ParentsBuilt
<1> HIDE DEF p
<1>4. /\ StateOK(state'[c]) /\ NoWorse(state[c], state'[c]) /\ OutdoesHidden(state'[c])
      /\ RemembersLegs(state'[c])
      /\ state'[c].parent = state[c].parent /\ state'[c].above = state[c].above
  BY <1>1, FlagReset
<1>5. RunOK(run'[c])
  <2>1. (run[c].again \/ state[c].changed) \in BOOLEAN
    OBVIOUS
  <2> QED
    BY <1>1, <1>3, <2>1, Situation DEF RunOK
<1>6. Follows(run'[c], state'[c]) /\ run'[c].phase = "building"
  BY <1>1, <1>3, <1>4, Situation DEF RunOK, Follows
<1> QED
  BY <1>4, <1>5, <1>6 DEF Grows

LEMMA EndRoundGrows ==
    ASSUME IInv, NEW c \in Contexts, run[c].phase = "building", EndRound(c)
    PROVE  Grows(state[c], state'[c], run'[c])
<1> DEFINE p == state[c].parent
<1>1. CASE run[c].again \/ state[c].changed
  <2>1. /\ state'[c] = [state[c] EXCEPT !.changed = FALSE]
        /\ run'[c] = [run[c] EXCEPT !.ancestor = p, !.again = FALSE,
                                    !.todo = DOMAIN state[p].nodes]
        /\ p # None
    BY <1>1, Situation DEF EndRound
  <2>2. p \in Built /\ p \in Contexts /\ DOMAIN state[p].nodes \subseteq NodesOf(dag)
    BY <2>1, ParentsBuilt
  <2> HIDE DEF p
  <2>3. /\ StateOK(state'[c]) /\ NoWorse(state[c], state'[c]) /\ OutdoesHidden(state'[c])
        /\ RemembersLegs(state'[c])
        /\ state'[c].parent = state[c].parent /\ state'[c].above = state[c].above
    BY <2>1, FlagReset
  <2>4. RunOK(run'[c]) /\ Follows(run'[c], state'[c]) /\ run'[c].phase = "building"
    BY <2>1, <2>2, <2>3, Situation DEF RunOK, Follows
  <2> QED
    BY <2>3, <2>4 DEF Grows
<1>2. CASE ~(run[c].again \/ state[c].changed)
  <2>1. state'[c] = state[c] /\ run'[c] = Finished
    BY <1>2, Situation DEF EndRound
  <2> QED
    BY <2>1, FlagReset, FinishedRun DEF Grows
<1> QED
  BY <1>1, <1>2

\* Every step of a construction makes its search state grow, and keeps it coherent.
LEMMA StepGrows ==
    ASSUME IInv, NEW c \in Contexts, Step(c)
    PROVE  run[c].phase = "building" /\ Grows(state[c], state'[c], run'[c])
BY CachePropertyGrows, ActivateAndGrows, ActivateOrGrows, ReturnGrows, NextNodeGrows,
   NextChildGrows, NextRootRoundGrows, NextAncestorGrows, EndRoundGrows DEF Step

\* A new context starts out coherent, and looks up to built ones.
LEMMA StartBegins ==
    ASSUME IInv, NEW c \in Contexts, Start(c)
    PROVE  /\ run[c].phase = "unused"
           /\ StateOK(state'[c]) /\ OutdoesHidden(state'[c]) /\ RemembersLegs(state'[c])
           /\ state'[c].above \subseteq Built
           /\ state'[c].parent # None => state'[c].parent \in state'[c].above
           /\ RunOK(run'[c]) /\ Follows(run'[c], state'[c]) /\ run'[c].phase = "building"
<1>1. /\ run[c].phase = "unused" /\ WellFormed(dag) /\ TypeOK
      /\ DOMAIN state = Contexts /\ DOMAIN run = Contexts
  BY SearchAssumption DEF Start, IInv, TypeOK
<1>2. ASSUME NEW p, NEW above \in SUBSET Contexts, NEW k \in Keys, p \in Contexts \cup {None}
      PROVE  /\ StateOK(NewState(p, above, k))
             /\ OutdoesHidden(NewState(p, above, k)) /\ RemembersLegs(NewState(p, above, k))
             /\ NewState(p, above, k).parent = p /\ NewState(p, above, k).above = above
  BY <1>2 DEF NewState, StateOK, OutdoesHidden, RemembersLegs
<1>3. CASE StartRoot(c)
  <2> DEFINE t == Activated(Unused, Root, Spec0)
             stack == CallsAfter(Unused, <<>>, Root, Spec0)
  <2>1. /\ state'[c] = t
        /\ run'[c] = [Idle EXCEPT !.phase = "building", !.stack = stack]
    BY <1>1, <1>3 DEF StartRoot
  <2>2. /\ StateOK(Unused) /\ OutdoesHidden(Unused) /\ RemembersLegs(Unused)
        /\ Unused.parent = None /\ Unused.above = {}
    <3>1. EmptyKey \in Keys
      BY DEF EmptyKey, Keys
    <3> QED
      BY <1>2, <3>1 DEF Unused
  <2>3. Root \in NodesOf(dag) /\ Spec0 \in Specificities
    BY <1>1 DEF WellFormed, NodesOf, Root, Spec0, Specificities
  <2>4. /\ StateOK(t) /\ t.parent = None /\ t.above = {}
        /\ t.settings = Unused.settings /\ t.tallies = Unused.tallies
    BY <1>1, <2>2, <2>3, ActivationGrows
  <2>5. stack \in Seq(Calls)
    <3>1. <<>> \in Seq(Calls)
      OBVIOUS
    <3> QED
      BY <1>1, <2>3, <3>1, StackTyped
  <2> HIDE DEF t, stack
  <2>6. OutdoesHidden(t) /\ RemembersLegs(t)
    BY <2>2, <2>4 DEF OutdoesHidden, Inherited, RemembersLegs, InheritedTally
  <2>7. RunOK(run'[c]) /\ Follows(run'[c], state'[c]) /\ run'[c].phase = "building"
    BY <2>1, <2>4, <2>5 DEF Idle, RunOK, Follows
  <2> QED
    BY <1>1, <2>1, <2>4, <2>6, <2>7
<1>4. ASSUME NEW p \in Built, NEW requested \in Requests, StartChild(c, p, requested)
      PROVE  /\ StateOK(state'[c]) /\ OutdoesHidden(state'[c]) /\ RemembersLegs(state'[c])
             /\ state'[c].above \subseteq Built
             /\ state'[c].parent # None => state'[c].parent \in state'[c].above
             /\ RunOK(run'[c]) /\ Follows(run'[c], state'[c]) /\ run'[c].phase = "building"
  <2> DEFINE above == {p} \cup state[p].above
  <2>1. /\ state'[c] = NewState(p, above, requested)
        /\ run'[c] = [Idle EXCEPT !.phase = "building", !.ancestor = p,
                                  !.todo = DOMAIN state[p].nodes]
    BY <1>1, <1>4 DEF StartChild
  <2>2. p \in Contexts /\ above \subseteq Built /\ above \subseteq Contexts
    BY DEF Built, IInv, LineageOK
  <2>3. requested \in Keys /\ DOMAIN state[p].nodes \subseteq NodesOf(dag)
    BY <1>1, <2>2, SearchAssumption DEF TypeOK, StateOK
  <2> HIDE DEF above
  <2>4. /\ StateOK(state'[c]) /\ OutdoesHidden(state'[c]) /\ RemembersLegs(state'[c])
        /\ state'[c].parent = p /\ state'[c].above = above
    BY <1>2, <2>1, <2>2, <2>3
  <2>5. <<>> \in Seq(Calls) /\ p # None
    BY <2>2, SearchAssumption DEF Contexts, None
  <2>6. RunOK(run'[c]) /\ Follows(run'[c], state'[c]) /\ run'[c].phase = "building"
    BY <2>1, <2>2, <2>3, <2>4, <2>5 DEF Idle, RunOK, Follows
  <2> QED
    BY <2>2, <2>4, <2>6 DEF above
<1> QED
  BY <1>1, <1>3, <1>4 DEF Start

\* Only the context that takes a step, which is not built, can lose the invariant.
LEMMA Framed ==
    ASSUME IInv, dag' = dag, NEW c \in Contexts, c \notin Built, Indexed',
           \A d \in Contexts \ {c} : state'[d] = state[d] /\ run'[d] = run[d],
           StateOK(state'[c]), OutdoesHidden(state'[c]), RemembersLegs(state'[c]),
           state'[c].above \subseteq Built,
           state'[c].parent # None => state'[c].parent \in state'[c].above,
           RunOK(run'[c]), Follows(run'[c], state'[c])
    PROVE  IInv'
<1>1. /\ \A b \in Built : b \in Contexts /\ b # c /\ state'[b] = state[b] /\ run'[b] = run[b]
      /\ Built \subseteq Built'
  BY DEF Built
<1>2. \A d \in Contexts : state'[d].above \subseteq Built
  BY DEF IInv, LineageOK
<1>3. TypeOK'
  <2>1. \A d \in Contexts : StateOK(state'[d]) /\ RunOK(run'[d])
    BY DEF IInv, TypeOK
  <2> QED
    BY <2>1 DEF TypeOK, Indexed, StateOK, RunOK, Calls, Settings
<1>4. ASSUME NEW d \in Contexts
      PROVE  LineageOK(d)'
  <2>1. CASE d = c
    BY <1>1, <2>1 DEF LineageOK, Follows
  <2>2. CASE d # c
    BY <1>1, <2>2 DEF IInv, LineageOK
  <2> QED
    BY <2>1, <2>2
<1>5. CacheCoherent'
  <2> SUFFICES ASSUME NEW d \in Contexts PROVE OutdoesHidden(state[d])'
    BY DEF CacheCoherent
  <2>1. OutdoesHidden(state'[d])
    BY DEF IInv, CacheCoherent
  <2>2. ASSUME NEW x
        PROVE  Inherited(state[d], x)' = Inherited(state'[d], x)
    <3>1. {b \in state'[d].above : x \in DOMAIN state'[b].settings}
            = {b \in state'[d].above : x \in DOMAIN state[b].settings}
      BY <1>1, <1>2
    <3>2. Nearest({b \in state'[d].above : x \in DOMAIN state[b].settings})
            \subseteq state'[d].above
      BY DEF Nearest
    <3> QED
      BY <1>1, <1>2, <3>1, <3>2 DEF Inherited, Nearest
  <2> QED
    BY <2>1, <2>2 DEF OutdoesHidden
<1>6. TallyCoherent'
  <2> SUFFICES ASSUME NEW d \in Contexts PROVE RemembersLegs(state[d])'
    BY DEF TallyCoherent
  <2>1. RemembersLegs(state'[d])
    BY DEF IInv, TallyCoherent
  <2>2. ASSUME NEW t
        PROVE  InheritedTally(state[d], t)' = InheritedTally(state'[d], t)
    <3>1. {b \in state'[d].above : t.node \in DOMAIN state'[b].tallies}
            = {b \in state'[d].above : t.node \in DOMAIN state[b].tallies}
      BY <1>1, <1>2
    <3>2. Nearest({b \in state'[d].above : t.node \in DOMAIN state[b].tallies})
            \subseteq state'[d].above
      BY DEF Nearest
    <3> QED
      BY <1>1, <1>2, <3>1, <3>2 DEF InheritedTally, Nearest
  <2> QED
    BY <2>1, <2>2 DEF RemembersLegs
<1> QED
  BY <1>3, <1>4, <1>5, <1>6 DEF IInv

----------------------------------------------------------------------------
(* The theorems.                                                           *)

\* The inductive invariant, which is TypeOK, the coherence of the caches, and
\* that contexts look up to built ones only, holds before anything is built.
LEMMA InitInvariant == Init => IInv
<1> SUFFICES ASSUME Init PROVE IInv
  OBVIOUS
<1>1. /\ WellFormed(dag) /\ EmptyKey \in Keys /\ <<>> \in Seq(Calls)
      /\ DOMAIN state = Contexts /\ DOMAIN run = Contexts
      /\ \A c \in Contexts : state[c] = Unused /\ run[c] = Idle
  BY SearchAssumption DEF Init, EmptyKey, Keys
<1>2. StateOK(Unused) /\ RunOK(Idle)
  BY <1>1 DEF Unused, NewState, StateOK, Idle, RunOK
<1>3. TypeOK
  BY <1>1, <1>2 DEF TypeOK
<1>4. \A c \in Contexts : LineageOK(c)
  BY <1>1 DEF LineageOK, Unused, NewState, Idle, None
<1>5. CacheCoherent /\ TallyCoherent
  BY <1>1 DEF CacheCoherent, OutdoesHidden, TallyCoherent, RemembersLegs, Unused, NewState
<1> QED
  BY <1>3, <1>4, <1>5 DEF IInv, Init

\* Every step of a construction preserves it.
LEMMA NextInvariant == IInv /\ [Next]_vars => IInv'
<1>1. ASSUME IInv, NEW c \in Contexts, Start(c)
      PROVE  IInv'
  <2>1. dag' = dag /\ c \notin Built
    BY <1>1 DEF Start, Built
  <2>2. Indexed' /\ \A d \in Contexts \ {c} : state'[d] = state[d] /\ run'[d] = run[d]
    BY <1>1, StepIsLocal DEF Indexed, IInv, TypeOK
  <2> QED
    BY <1>1, <2>1, <2>2, StartBegins, Framed
<1>2. ASSUME IInv, NEW c \in Contexts, Step(c)
      PROVE  IInv'
  <2>1. dag' = dag
    BY <1>2 DEF Step, CacheProperty, ActivateAnd, ActivateOr, Return, NextNode,
                NextChild, NextRootRound, NextAncestor, EndRound
  <2>2. Indexed' /\ \A d \in Contexts \ {c} : state'[d] = state[d] /\ run'[d] = run[d]
    BY <1>2, StepIsLocal DEF Indexed, IInv, TypeOK
  <2>3. run[c].phase = "building" /\ Grows(state[c], state'[c], run'[c])
    BY <1>2, StepGrows
  <2>4. c \notin Built
    BY <2>3 DEF Built
  <2>5. /\ state'[c].above \subseteq Built
        /\ state'[c].parent # None => state'[c].parent \in state'[c].above
    BY <1>2, <2>3 DEF Grows, IInv, LineageOK
  <2> QED
    BY <1>2, <2>1, <2>2, <2>3, <2>4, <2>5, Framed DEF Grows
<1>3. IInv /\ UNCHANGED vars => IInv'
  <2> SUFFICES ASSUME IInv, UNCHANGED vars PROVE IInv'
    OBVIOUS
  <2>1. dag' = dag /\ state' = state /\ run' = run
    BY DEF vars
  <2>2. TypeOK'
    BY <2>1 DEF IInv, TypeOK, StateOK, RunOK, Calls, Settings
  <2>3. \A c \in Contexts : LineageOK(c)'
    BY <2>1 DEF IInv, LineageOK, Built
  <2>4. CacheCoherent'
    BY <2>1 DEF IInv, CacheCoherent, OutdoesHidden, Inherited
  <2>5. TallyCoherent'
    BY <2>1 DEF IInv, TallyCoherent, RemembersLegs, InheritedTally
  <2> QED
    BY <2>1, <2>2, <2>3, <2>4, <2>5 DEF IInv
<1> QED
  BY <1>1, <1>2, <1>3 DEF Next

\* So it always holds.
THEOREM Invariance == Spec => []IInv
BY InitInvariant, NextInvariant, PTL DEF Spec

\* Every search state and every run has its type, for every DAG.
THEOREM TypeCorrect == Spec => []TypeOK
<1>1. IInv => TypeOK
  BY DEF IInv
<1> QED
  BY <1>1, Invariance, PTL

\* A context's own setting of a property is never worse than the one it
\* hides, and loses none of the conflicts with it.
THEOREM CacheCoherentAlways == Spec => []CacheCoherent
<1>1. IInv => CacheCoherent
  BY DEF IInv
<1> QED
  BY <1>1, Invariance, PTL

\* A context's own state of a conjunction remembers its ancestors' legs.
THEOREM TallyCoherentAlways == Spec => []TallyCoherent
<1>1. IInv => TallyCoherent
  BY DEF IInv
<1> QED
  BY <1>1, Invariance, PTL

\* A step makes none of the searches fall back.
LEMMA NextGrows ==
    IInv /\ [Next]_vars => [\A c \in Building : NoWorse(state[c], state'[c])]_vars
<1> SUFFICES ASSUME IInv, NEW d \in Contexts, Start(d) \/ Step(d),
                    NEW c \in Building
             PROVE  NoWorse(state[c], state'[c])
  BY DEF Next
<1>1. CASE c # d
  <2>1. c \in Contexts /\ StateOK(state[c])
    BY DEF Building, IInv, TypeOK
  <2>2. state'[c] = state[c]
    BY <1>1, <2>1, StepIsLocal DEF Indexed, IInv, TypeOK
  <2> QED
    BY <2>1, <2>2, NoWorseReflexive
<1>2. CASE c = d
  <2>1. Step(c)
    BY <1>2 DEF Start, Building
  <2> QED
    BY <1>2, <2>1, StepGrows DEF Grows
<1> QED
  BY <1>1, <1>2

\* Nothing that a search has found falls back: keys, nodes, legs, settings.
THEOREM SearchGrowsAlways == Spec => SearchGrows
BY Invariance, NextGrows, PTL DEF Spec, SearchGrows

----------------------------------------------------------------------------
(***************************************************************************)
(* Loads between constructions disturb none of this: what is shown above   *)
(* for one DAG is shown here for a DAG that grows, for all loads that only *)
(* add to it.                                                              *)
(***************************************************************************)
\* A load leaves a DAG with all that the old one has.
LEMMA LoadGrows ==
    ASSUME IInv, Load
    PROVE  /\ dag' \in Dags /\ Grown(dag, dag')
           /\ WellFormed(dag) /\ WellFormed(dag')
           /\ NodesOf(dag) \subseteq NodesOf(dag')
<1>1. dag \in Dags /\ dag' \in Dags /\ Grown(dag, dag')
  BY DomainAssumption DEF IInv, Load
<1>2. WellFormed(dag) /\ WellFormed(dag')
  BY <1>1, SearchAssumption
<1> QED
  BY <1>1, <1>2 DEF Grown, WellFormed, NodesOf

\* What has its type in the old DAG has it in the new one.
LEMMA LoadKeepsTypes ==
    ASSUME IInv, Load
    PROVE  TypeOK'
<1>1. state' = state /\ run' = run
  BY DEF Load
<1>2. Settings \subseteq Settings' /\ Calls \subseteq Calls'
  BY LoadGrows DEF Settings, Calls, Grown
<1>3. Seq(Calls) \subseteq Seq(Calls')
  BY <1>2
<1>4. ASSUME NEW c \in Contexts PROVE StateOK(state[c])'
  BY <1>1, <1>2, LoadGrows DEF IInv, TypeOK, StateOK
<1>5. ASSUME NEW c \in Contexts PROVE RunOK(run[c])'
  BY <1>1, <1>3, LoadGrows DEF IInv, TypeOK, RunOK, Grown
<1> QED
  BY <1>1, <1>4, <1>5 DEF IInv, TypeOK

\* A conjunction that is new has no state in any context yet.
LEMMA LoadKeepsTallies ==
    ASSUME IInv, Load
    PROVE  TallyCoherent'
<1> SUFFICES ASSUME NEW c \in Contexts, NEW t \in dag'.tallies,
                    t.node \in DOMAIN state[c].tallies,
                    NEW hidden \in InheritedTally(state[c], t)
             PROVE  AtLeast(state[c].tallies[t.node], hidden)
  BY DEF Load, TallyCoherent, RemembersLegs, InheritedTally
<1>1. t.node \in NodesOf(dag)
  BY DEF IInv, TypeOK, StateOK
<1>2. t \in dag.tallies
  BY <1>1, LoadGrows DEF Grown, NodesOf, WellFormed
<1> QED
  BY <1>2 DEF IInv, TallyCoherent, RemembersLegs

LEMMA LoadInvariant ==
    ASSUME IInv, Load
    PROVE  IInv'
<1>1. state' = state /\ run' = run
  BY DEF Load
<1>2. CacheCoherent'
  BY <1>1 DEF IInv, CacheCoherent, OutdoesHidden, Inherited
<1>3. \A c \in Contexts : LineageOK(c)'
  BY <1>1 DEF IInv, LineageOK, Built
<1> QED
  BY <1>2, <1>3, LoadGrows, LoadKeepsTypes, LoadKeepsTallies DEF IInv

\* Constructions take the steps that they take without loads.
LEMMA ConstructionSteps == [DomainNext]_domainVars => [Next]_vars \/ Load
BY DEF DomainNext, Construct, Next, domainVars, vars

\* The inductive invariant of the search survives loads.
THEOREM DomainInvariance == DomainSpec => []IInv
<1>1. DomainInit => IInv
  BY InitInvariant DEF DomainInit
<1>2. IInv /\ [DomainNext]_domainVars => IInv'
  BY ConstructionSteps, NextInvariant, LoadInvariant
<1> QED
  BY <1>1, <1>2, PTL DEF DomainSpec

\* Whatever is loaded in between, search states and runs have their types.
THEOREM DomainTypeCorrect == DomainSpec => []TypeOK
<1>1. IInv => TypeOK
  BY DEF IInv
<1> QED
  BY <1>1, DomainInvariance, PTL

\* The setting a context goes by stays as good as the one it hides, although
\* context and ancestor may have been built under different rules.
THEOREM DomainCacheCoherent == DomainSpec => []CacheCoherent
<1>1. IInv => CacheCoherent
  BY DEF IInv
<1> QED
  BY <1>1, DomainInvariance, PTL

\* So does a context's own state of a conjunction.
THEOREM DomainTallyCoherent == DomainSpec => []TallyCoherent
<1>1. IInv => TallyCoherent
  BY DEF IInv
<1> QED
  BY <1>1, DomainInvariance, PTL

\* Nothing that a search has found falls back, with loads in between or not.
THEOREM DomainSearchGrows == DomainSpec => SearchGrows
<1> DEFINE Grow == \A c \in Building : NoWorse(state[c], state'[c])
<1>1. IInv /\ [DomainNext]_domainVars => [Grow]_vars
  <2>1. IInv /\ [Next]_vars => [Grow]_vars
    BY NextGrows
  <2>2. Load => Grow
    BY DEF Load
  <2> QED
    BY <2>1, <2>2, ConstructionSteps
<1> QED
  BY <1>1, DomainInvariance, PTL DEF DomainSpec, SearchGrows

\* A built context never changes, and does not hear of loads.
THEOREM DomainBuiltIsKept == DomainSpec => BuiltIsKept
<1>1. IInv /\ [DomainNext]_domainVars => [KeepsBuilt]_vars
  <2> SUFFICES ASSUME IInv, [DomainNext]_domainVars
               PROVE  KeepsBuilt \/ UNCHANGED vars
    OBVIOUS
  <2>1. CASE Load
    BY <2>1 DEF Load, KeepsBuilt
  <2>2. ASSUME NEW c \in Contexts, Start(c) \/ Step(c), NEW d \in Built
        PROVE  state'[d] = state[d]
    <3>1. d # c
      BY <2>2 DEF Built, Start, Step
    <3>2. Indexed
      BY DEF IInv, TypeOK, Indexed
    <3> QED
      BY <2>2, <3>1, <3>2, StepIsLocal DEF Built
  <2> QED
    BY <2>1, <2>2 DEF DomainNext, Construct, KeepsBuilt, domainVars, vars
<1> QED
  BY <1>1, DomainInvariance, PTL DEF DomainSpec, BuiltIsKept

----------------------------------------------------------------------------
(***************************************************************************)
(* What a finished search has found, and that the order in which it was    *)
(* found does not show.  The nodes active in a context are the least that  *)
(* its key, its rules and its ancestors ask for: at any moment of the      *)
(* search no node is active without cause (NodesBounded), and when it ends *)
(* nothing that has a cause is missing (Closed).  Two searches with the    *)
(* same key under the same parent then have the same nodes, and what they  *)
(* hold besides follows from these.                                        *)
(*                                                                         *)
(* The operators take the parts of a search state, the states of its       *)
(* ancestors (up), the calls of Node::activate in progress (calls) and the *)
(* DAG (d), so that what other contexts do is plainly of no consequence.   *)
(***************************************************************************)

\* The search states that following parent pointers leads to.
View(c) == [a \in state[c].above |-> state[a]]

\* What checkCache and getTallyState find in them.
Hidden(up, x) ==
    {up[a].settings[x] :
        a \in Nearest({b \in DOMAIN up : x \in DOMAIN up[b].settings})}

HiddenTally(up, t) ==
    {up[a].tallies[t.node] :
        a \in Nearest({b \in DOMAIN up : t.node \in DOMAIN up[b].tallies})}

\* The calls on a stack.
Pending(stack) == {stack[i] : i \in DOMAIN stack}

\* Node n is active with at least this specificity.
At(nodes, n, spec) == n \in DOMAIN nodes /\ ~Below(nodes[n], spec)

Ranks(nodes) == \A n \in DOMAIN nodes : nodes[n] \in Specificities

----------------------------------------------------------------------------
(* What is active has been, or will be, acted on.                          *)

CallsOK(nodes, calls, d) ==
    \A call \in calls : /\ At(nodes, call.node, call.spec)
                        /\ call.props \subseteq PropsOf(d, call.node)
                        /\ call.ands \subseteq TalliesOf(d, call.node, "and")
                        /\ call.ors \subseteq TalliesOf(d, call.node, "or")

\* A call that will act on node n for its present specificity.
ForNode(call, nodes, n) == call.node = n /\ call.spec = nodes[n]

OrsDone(nodes, calls, d) ==
    \A n \in DOMAIN nodes : \A t \in TalliesOf(d, n, "or") :
        \/ At(nodes, t.node, nodes[n])
        \/ \E call \in calls : ForNode(call, nodes, n) /\ t \in call.ors

LegDone(tally, t, n, spec) ==
    /\ n = t.first => tally.firstMatched /\ ~Below(tally.firstMatch, spec)
    /\ n = t.second => tally.secondMatched /\ ~Below(tally.secondMatch, spec)

AndsDone(nodes, tallies, calls, d) ==
    \A n \in DOMAIN nodes : \A t \in TalliesOf(d, n, "and") :
        \/ t.node \in DOMAIN tallies /\ LegDone(tallies[t.node], t, n, nodes[n])
        \/ \E call \in calls : ForNode(call, nodes, n) /\ t \in call.ands

\* Both legs matched: the tally's node is active.
LegsDone(nodes, tallies, d) ==
    \A t \in d.tallies :
        t.node \in DOMAIN tallies
        /\ tallies[t.node].firstMatched /\ tallies[t.node].secondMatched
        => At(nodes, t.node, Plus(tallies[t.node].firstMatch, tallies[t.node].secondMatch))

\* The setting that property p makes when its node is reached with spec.
Candidate(p, spec) == [spec |-> spec, override |-> p.override, values |-> {p}]

PropDone(settings, up, p, spec) ==
    IF p.name \in DOMAIN settings
    THEN Hides(settings[p.name], Candidate(p, spec))
    ELSE \E hidden \in Hidden(up, p.name) : Better(hidden, Candidate(p, spec))

PropsDone(nodes, settings, calls, up, d) ==
    \A n \in DOMAIN nodes : \A p \in PropsOf(d, n) :
        \/ PropDone(settings, up, p, nodes[n])
        \/ \E call \in calls : ForNode(call, nodes, n) /\ p \in call.props

----------------------------------------------------------------------------
(* Nothing is there without cause.                                         *)

\* The specificities with which the parent of an edge is active where the
\* children of a context's nodes are looked for.
Reaching(up, e) ==
    {up[a].nodes[e.parent] : a \in {b \in DOMAIN up : e.parent \in DOMAIN up[b].nodes}}
      \cup {s \in {Spec0} : DOMAIN up = {} /\ e.parent = Root}

\* What the legs of a conjunction have been worth so far: above this context,
\* and in it.
HiddenFirst(up, t) ==
    {h.firstMatch : h \in {g \in HiddenTally(up, t) : g.firstMatched}}

HiddenSecond(up, t) ==
    {h.secondMatch : h \in {g \in HiddenTally(up, t) : g.secondMatched}}

Worth(nodes, leg, hidden) == hidden \cup {nodes[n] : n \in {leg} \cap DOMAIN nodes}

(***************************************************************************)
(* The nodes active in a context with key k under the states up, each at   *)
(* least as specific as everything that leads to it asks for.              *)
(***************************************************************************)
Closed(nodes, k, up, d) ==
    /\ Ranks(nodes)
    /\ DOMAIN up = {} => Root \in DOMAIN nodes
    /\ \A e \in d.edges : Matches(e.key, k) => \A q \in Reaching(up, e) :
           At(nodes, e.child, Plus(q, KeySpecificity(e.key)))
    /\ \A t \in d.tallies : t.kind = "or" => \A n \in {t.first, t.second} \cap DOMAIN nodes :
           At(nodes, t.node, nodes[n])
    /\ \A t \in d.tallies :
           t.kind = "and" /\ {t.first, t.second} \cap DOMAIN nodes # {}
           => \A a \in Worth(nodes, t.first, HiddenFirst(up, t)) :
              \A b \in Worth(nodes, t.second, HiddenSecond(up, t)) :
                  At(nodes, t.node, Plus(a, b))

\* Whatever is closed under the key, or under one that says more, has the
\* node with this specificity.
Justified(key, up, d, n, spec) ==
    \A nodes, k : Closed(nodes, k, up, d) /\ Matches(key, k) => At(nodes, n, spec)

NodesBounded(key, nodes, up, d) ==
    \A n \in DOMAIN nodes : Justified(key, up, d, n, nodes[n])

\* A leg has been worth as much, here or above, or counts nothing.
MatchBounded(nodes, leg, matched, match, hidden) ==
    IF matched THEN At(nodes, leg, match) \/ \E h \in hidden : ~Below(h, match)
    ELSE match = Spec0

LegBounded(nodes, up, t, tally) ==
    /\ MatchBounded(nodes, t.first, tally.firstMatched, tally.firstMatch, HiddenFirst(up, t))
    /\ MatchBounded(nodes, t.second, tally.secondMatched, tally.secondMatch,
                    HiddenSecond(up, t))

LegsBounded(nodes, tallies, up, d) ==
    \A m \in DOMAIN tallies : \E t \in d.tallies :
        /\ t.node = m /\ t.kind = "and"
        /\ t.first \in DOMAIN nodes \/ t.second \in DOMAIN nodes
        /\ LegBounded(nodes, up, t, tallies[m])

\* Property p of an active node, reached with a setting's specificity.
Owned(nodes, d, x, v, p) ==
    /\ p \in d.props /\ p.name = x /\ p.override = v.override
    /\ At(nodes, p.node, v.spec)

Founded(nodes, up, d, x, v) ==
    /\ \E p \in v.values : Owned(nodes, d, x, v, p)
    /\ \A p \in v.values :
          \/ Owned(nodes, d, x, v, p)
          \/ \E h \in Hidden(up, x) :
                p \in h.values /\ h.spec = v.spec /\ h.override = v.override

SettingsFounded(nodes, settings, up, d) ==
    \A x \in DOMAIN settings : Founded(nodes, up, d, x, settings[x])

----------------------------------------------------------------------------
(* How far the loops have come.                                            *)

\* The child at the end of an edge has been looked at under this key.
Handled(key, nodes, e, q) ==
    Matches(e.key, key) => At(nodes, e.child, Plus(q, KeySpecificity(e.key)))

AllHandled(key, nodes, up, d) ==
    \A e \in d.edges : \A q \in Reaching(up, e) : Handled(key, nodes, e, q)

EdgesReaching(edges, up, d) ==
    \A es \in edges : es[1] \in d.edges /\ es[2] \in Reaching(up, es[1])

\* As long as the key stays what it is, what the loops have passed is done.
RootRound(s, r, up, d) ==
    ~s.changed => \A e \in d.edges : \A q \in Reaching(up, e) :
        Handled(s.key, s.nodes, e, q) \/ <<e, q>> \in r.edges

Passed(r, up) == DOMAIN up \ ({r.ancestor} \cup up[r.ancestor].above)

ChildRound(s, r, up, d) ==
    ~s.changed /\ ~r.again =>
        \A e \in d.edges :
            /\ \A a \in Passed(r, up) : e.parent \in DOMAIN up[a].nodes =>
                  Handled(s.key, s.nodes, e, up[a].nodes[e.parent])
            /\ e.parent \in DOMAIN up[r.ancestor].nodes \ r.todo =>
                  \/ Handled(s.key, s.nodes, e, up[r.ancestor].nodes[e.parent])
                  \/ <<e, up[r.ancestor].nodes[e.parent]>> \in r.edges

Rounds(s, r, up, d) ==
    /\ r.phase = "unused" => s = Unused /\ r = Idle
    /\ r.phase = "built" => /\ r = Finished /\ s.changed = FALSE
                            /\ AllHandled(s.key, s.nodes, up, d)
    /\ r.phase = "building" =>
          IF s.parent = None THEN r.todo = {} /\ RootRound(s, r, up, d)
          ELSE r.ancestor \in DOMAIN up /\ ChildRound(s, r, up, d)
    /\ EdgesReaching(r.edges, up, d)

\* Following parent pointers leads to the parent and what is above it.
Lineage(s, up) ==
    /\ IF s.parent = None THEN s.above = {}
       ELSE s.parent \in DOMAIN up /\ s.above = {s.parent} \cup up[s.parent].above
    /\ \A a \in DOMAIN up : up[a].above \subseteq s.above

\* A root context has the root node active.
Rooted(s, r) ==
    r.phase # "unused" /\ s.above = {} => Root \in DOMAIN s.nodes

\* A search state has no more than its fields.
Plain(s) ==
    /\ s = [parent |-> s.parent, above |-> s.above, key |-> s.key, nodes |-> s.nodes,
            tallies |-> s.tallies, settings |-> s.settings, changed |-> s.changed]
    /\ s.nodes = [n \in DOMAIN s.nodes |-> s.nodes[n]]
    /\ s.tallies = [t \in DOMAIN s.tallies |-> s.tallies[t]]
    /\ s.settings = [x \in DOMAIN s.settings |-> s.settings[x]]

----------------------------------------------------------------------------
(* Nodes are activated.                                                    *)

\* SearchState::add on the nodes alone, and the calls in progress after it.
News(nodes, n, spec) == n \notin DOMAIN nodes \/ Below(nodes[n], spec)

NodesAfter(nodes, n, spec) ==
    IF News(nodes, n, spec) THEN Put(nodes, n, spec) ELSE nodes

Fresh(nodes, n, spec) == {call \in {Call(n, spec)} : News(nodes, n, spec)}

LEMMA AtLess ==
    ASSUME NEW nodes, Ranks(nodes), NEW n, NEW a \in Specificities,
           NEW b \in Specificities, At(nodes, n, a), ~Below(a, b)
    PROVE  At(nodes, n, b)
BY BelowOrder DEF At, Ranks

\* Everything active stays active, with no less.
LEMMA NodesGrow ==
    ASSUME NEW nodes, Ranks(nodes), NEW n, NEW spec \in Specificities,
           NEW new, new = NodesAfter(nodes, n, spec)
    PROVE  /\ Ranks(new) /\ At(new, n, spec)
           /\ DOMAIN new = DOMAIN nodes \cup {n}
           /\ \A m \in DOMAIN nodes : m # n => new[m] = nodes[m]
           /\ IF News(nodes, n, spec) THEN new[n] = spec ELSE new = nodes
           /\ \A m : \A x \in Specificities : At(nodes, m, x) => At(new, m, x)
<1>1. CASE News(nodes, n, spec)
  <2>1. /\ DOMAIN new = DOMAIN nodes \cup {n} /\ new[n] = spec
        /\ \A m \in DOMAIN nodes : m # n => new[m] = nodes[m]
    BY <1>1 DEF NodesAfter, Put
  <2>2. ~Below(spec, spec)
    BY BelowOrder
  <2>3. ASSUME NEW m, NEW x \in Specificities, At(nodes, m, x)
        PROVE  At(new, m, x)
    <3>1. CASE m = n
      <4>1. nodes[n] \in Specificities /\ ~Below(nodes[n], x) /\ Below(nodes[n], spec)
        BY <1>1, <2>3, <3>1 DEF At, Ranks, News
      <4>2. ~Below(spec, nodes[n])
        BY <4>1, BelowOrder
      <4>3. ~Below(spec, x)
        BY <4>1, <4>2, BelowOrder
      <4> QED
        BY <2>1, <3>1, <4>3 DEF At
    <3> QED
      BY <2>1, <2>3, <3>1 DEF At
  <2> QED
    BY <1>1, <2>1, <2>2, <2>3 DEF Ranks, At
<1>2. CASE ~News(nodes, n, spec)
  BY <1>2 DEF NodesAfter, News, At
<1> QED
  BY <1>1, <1>2

LEMMA ActivatedAt ==
    ASSUME NEW nodes, Ranks(nodes), NEW n, NEW spec \in Specificities
    PROVE  At(NodesAfter(nodes, n, spec), n, spec)
BY NodesGrow

LEMMA ActivationCalls ==
    ASSUME NEW nodes, Ranks(nodes), NEW n, NEW spec \in Specificities,
           NEW new, new = NodesAfter(nodes, n, spec), NEW calls,
           \A call \in calls : call.spec \in Specificities,
           CallsOK(nodes, calls, dag)
    PROVE  CallsOK(new, calls \cup Fresh(nodes, n, spec), dag)
<1>1. \A call \in Fresh(nodes, n, spec) : call = Call(n, spec)
  BY DEF Fresh
<1>2. /\ At(new, n, spec)
      /\ \A m : \A x \in Specificities : At(nodes, m, x) => At(new, m, x)
  BY NodesGrow
<1>3. Call(n, spec).node = n /\ Call(n, spec).spec = spec
  BY DEF Call
<1> QED
  BY <1>1, <1>2, <1>3 DEF CallsOK, Call

LEMMA ActivationOrs ==
    ASSUME NEW nodes, Ranks(nodes), NEW n, NEW spec \in Specificities,
           NEW new, new = NodesAfter(nodes, n, spec), NEW calls,
           OrsDone(nodes, calls, dag)
    PROVE  OrsDone(new, calls \cup Fresh(nodes, n, spec), dag)
<1> SUFFICES ASSUME NEW m \in DOMAIN new, NEW t \in TalliesOf(dag, m, "or")
             PROVE  \/ At(new, t.node, new[m])
                    \/ \E call \in calls \cup Fresh(nodes, n, spec) :
                          ForNode(call, new, m) /\ t \in call.ors
  BY DEF OrsDone
<1>1. CASE m \in DOMAIN nodes /\ new[m] = nodes[m]
  <2>1. \/ At(nodes, t.node, nodes[m])
        \/ \E call \in calls : ForNode(call, nodes, m) /\ t \in call.ors
    BY <1>1 DEF OrsDone
  <2>2. nodes[m] \in Specificities
    BY <1>1 DEF Ranks
  <2> QED
    BY <1>1, <2>1, <2>2, NodesGrow DEF ForNode
<1>2. CASE m = n /\ News(nodes, n, spec)
  <2>1. Call(n, spec) \in Fresh(nodes, n, spec) /\ new[n] = spec
    BY <1>2, NodesGrow DEF Fresh
  <2> QED
    BY <1>2, <2>1 DEF ForNode, Call
<1>3. \/ m \in DOMAIN nodes /\ new[m] = nodes[m]
      \/ m = n /\ News(nodes, n, spec)
  BY DEF NodesAfter, News, Put
<1> QED
  BY <1>1, <1>2, <1>3

LEMMA ActivationAnds ==
    ASSUME NEW nodes, Ranks(nodes), NEW n, NEW spec \in Specificities,
           NEW new, new = NodesAfter(nodes, n, spec), NEW calls, NEW tallies,
           AndsDone(nodes, tallies, calls, dag)
    PROVE  AndsDone(new, tallies, calls \cup Fresh(nodes, n, spec), dag)
<1> SUFFICES ASSUME NEW m \in DOMAIN new, NEW t \in TalliesOf(dag, m, "and")
             PROVE  \/ /\ t.node \in DOMAIN tallies
                       /\ LegDone(tallies[t.node], t, m, new[m])
                    \/ \E call \in calls \cup Fresh(nodes, n, spec) :
                          ForNode(call, new, m) /\ t \in call.ands
  BY DEF AndsDone
<1>1. CASE m \in DOMAIN nodes /\ new[m] = nodes[m]
  BY <1>1 DEF AndsDone, ForNode
<1>2. CASE m = n /\ News(nodes, n, spec)
  <2>1. Call(n, spec) \in Fresh(nodes, n, spec) /\ new[n] = spec
    BY <1>2, NodesGrow DEF Fresh
  <2> QED
    BY <1>2, <2>1 DEF ForNode, Call
<1>3. \/ m \in DOMAIN nodes /\ new[m] = nodes[m]
      \/ m = n /\ News(nodes, n, spec)
  BY DEF NodesAfter, News, Put
<1> QED
  BY <1>1, <1>2, <1>3

LEMMA ActivationProps ==
    ASSUME NEW nodes, Ranks(nodes), NEW n, NEW spec \in Specificities,
           NEW new, new = NodesAfter(nodes, n, spec), NEW calls, NEW settings, NEW up,
           PropsDone(nodes, settings, calls, up, dag)
    PROVE  PropsDone(new, settings, calls \cup Fresh(nodes, n, spec), up, dag)
<1> SUFFICES ASSUME NEW m \in DOMAIN new, NEW p \in PropsOf(dag, m)
             PROVE  \/ PropDone(settings, up, p, new[m])
                    \/ \E call \in calls \cup Fresh(nodes, n, spec) :
                          ForNode(call, new, m) /\ p \in call.props
  BY DEF PropsDone
<1>1. CASE m \in DOMAIN nodes /\ new[m] = nodes[m]
  BY <1>1 DEF PropsDone, ForNode
<1>2. CASE m = n /\ News(nodes, n, spec)
  <2>1. Call(n, spec) \in Fresh(nodes, n, spec) /\ new[n] = spec
    BY <1>2, NodesGrow DEF Fresh
  <2> QED
    BY <1>2, <2>1 DEF ForNode, Call
<1>3. \/ m \in DOMAIN nodes /\ new[m] = nodes[m]
      \/ m = n /\ News(nodes, n, spec)
  BY DEF NodesAfter, News, Put
<1> QED
  BY <1>1, <1>2, <1>3

\* What nodes are needed for stays provided for when they grow.
LEMMA ActivationLegs ==
    ASSUME NEW nodes, Ranks(nodes), NEW n, NEW spec \in Specificities,
           NEW new, new = NodesAfter(nodes, n, spec), NEW tallies, NEW up,
           \A m \in DOMAIN tallies : tallies[m] \in TallyStates
    PROVE  /\ LegsDone(nodes, tallies, dag) => LegsDone(new, tallies, dag)
           /\ LegsBounded(nodes, tallies, up, dag) => LegsBounded(new, tallies, up, dag)
<1>1. /\ \A m : \A x \in Specificities : At(nodes, m, x) => At(new, m, x)
      /\ DOMAIN nodes \subseteq DOMAIN new
  <2>1. DOMAIN nodes \subseteq DOMAIN new
    BY DEF NodesAfter, Put
  <2> QED
    BY <2>1, NodesGrow
<1>2. \A m \in DOMAIN tallies :
         /\ tallies[m].firstMatch \in Specificities /\ tallies[m].secondMatch \in Specificities
         /\ Plus(tallies[m].firstMatch, tallies[m].secondMatch) \in Specificities
  BY HigherBounds DEF TallyStates
<1>3. LegsDone(nodes, tallies, dag) => LegsDone(new, tallies, dag)
  BY <1>1, <1>2 DEF LegsDone
<1>4. ASSUME NEW t, NEW m \in DOMAIN tallies, LegBounded(nodes, up, t, tallies[m])
      PROVE  LegBounded(new, up, t, tallies[m])
  <2>1. /\ At(nodes, t.first, tallies[m].firstMatch) => At(new, t.first, tallies[m].firstMatch)
        /\ At(nodes, t.second, tallies[m].secondMatch) => At(new, t.second, tallies[m].secondMatch)
    BY <1>1, <1>2
  <2> QED
    BY <1>4, <2>1 DEF LegBounded, MatchBounded
<1>5. ASSUME LegsBounded(nodes, tallies, up, dag)
      PROVE  LegsBounded(new, tallies, up, dag)
  BY <1>1, <1>4, <1>5 DEF LegsBounded
<1> QED
  BY <1>3, <1>5

LEMMA ActivationSettings ==
    ASSUME NEW nodes, Ranks(nodes), NEW n, NEW spec \in Specificities,
           NEW new, new = NodesAfter(nodes, n, spec), NEW settings, NEW up,
           \A x \in DOMAIN settings : settings[x].spec \in Specificities,
           SettingsFounded(nodes, settings, up, dag)
    PROVE  SettingsFounded(new, settings, up, dag)
<1>1. \A m : \A x \in Specificities : At(nodes, m, x) => At(new, m, x)
  BY NodesGrow
<1>2. \A x \in DOMAIN settings : \A p :
         Owned(nodes, dag, x, settings[x], p) => Owned(new, dag, x, settings[x], p)
  BY <1>1 DEF Owned
<1>3. ASSUME NEW x \in DOMAIN settings
      PROVE  Founded(new, up, dag, x, settings[x])
  <2>1. Founded(nodes, up, dag, x, settings[x])
    BY DEF SettingsFounded
  <2> QED
    BY <1>2, <2>1 DEF Founded
<1> QED
  BY <1>3 DEF SettingsFounded

LEMMA ActivationBounded ==
    ASSUME NEW nodes, Ranks(nodes), NEW n, NEW spec \in Specificities,
           NEW new, new = NodesAfter(nodes, n, spec), NEW up,
           NEW key, NEW more, Matches(key, more),
           Justified(key, up, dag, n, spec),
           NodesBounded(key, nodes, up, dag)
    PROVE  NodesBounded(more, new, up, dag)
<1>1. \A k : Matches(more, k) => Matches(key, k)
  BY DEF Matches
<1>2. \A m, x : Justified(key, up, dag, m, x) => Justified(more, up, dag, m, x)
  BY <1>1 DEF Justified
<1>3. ASSUME NEW m \in DOMAIN new
      PROVE  Justified(key, up, dag, m, new[m])
  <2>1. \/ m \in DOMAIN nodes /\ new[m] = nodes[m]
        \/ m = n /\ new[m] = spec
    BY DEF NodesAfter, News, Put
  <2> QED
    BY <2>1 DEF NodesBounded
<1> QED
  BY <1>2, <1>3 DEF NodesBounded

LEMMA ActivationHandled ==
    ASSUME NEW nodes, Ranks(nodes), NEW n, NEW spec \in Specificities,
           NEW new, new = NodesAfter(nodes, n, spec), NEW key,
           NEW e, e.key \in Keys, NEW q \in Specificities, Handled(key, nodes, e, q)
    PROVE  Handled(key, new, e, q)
<1>1. \A m : \A x \in Specificities : At(nodes, m, x) => At(new, m, x)
  BY NodesGrow
<1>2. Plus(q, KeySpecificity(e.key)) \in Specificities
  BY KeysCount, HigherBounds
<1> QED
  BY <1>1, <1>2 DEF Handled

\* A search state in which nothing is lost and nothing is without cause.
Sound(s, calls, up, d) ==
    /\ CallsOK(s.nodes, calls, d)
    /\ OrsDone(s.nodes, calls, d)
    /\ AndsDone(s.nodes, s.tallies, calls, d)
    /\ PropsDone(s.nodes, s.settings, calls, up, d)
    /\ LegsDone(s.nodes, s.tallies, d)
    /\ LegsBounded(s.nodes, s.tallies, up, d)
    /\ NodesBounded(s.key, s.nodes, up, d)
    /\ SettingsFounded(s.nodes, s.settings, up, d)

\* What is said about a state and its calls has the types it needs.
Typed(s, calls) ==
    /\ StateOK(s) /\ Ranks(s.nodes) /\ \A call \in calls : call.spec \in Specificities

\* The fields of the state after Node::activate.
LEMMA ActivatedFields ==
    ASSUME WellFormed(dag), NEW s, StateOK(s), NEW n, NEW spec,
           NEW t, t = Activated(s, n, spec)
    PROVE  /\ t.parent = s.parent /\ t.above = s.above
           /\ t.key = AddAll(s.key, ConstraintOf(dag, n))
           /\ t.nodes = NodesAfter(s.nodes, n, spec)
           /\ t.tallies = s.tallies /\ t.settings = s.settings
           /\ t.changed = (s.changed \/ t.key # s.key)
           /\ Matches(s.key, t.key)
           /\ Plain(s) => Plain(t)
<1> DEFINE k == AddAll(s.key, ConstraintOf(dag, n))
           c == Constrain(s, ConstraintOf(dag, n))
           nodes == NodesAfter(s.nodes, n, spec)
<1>1. Matches(s.key, k)
  BY ConstraintIsKey, KeysAdd DEF StateOK
<1>2. /\ DOMAIN c = DOMAIN s /\ c.parent = s.parent /\ c.above = s.above /\ c.key = k
      /\ c.nodes = s.nodes /\ c.tallies = s.tallies /\ c.settings = s.settings
      /\ c.changed = (s.changed \/ k # s.key)
      /\ c = [x \in DOMAIN c |-> c[x]]
  BY DEF Constrain, StateOK
<1>3. t = IF News(s.nodes, n, spec) THEN [c EXCEPT !.nodes = nodes] ELSE c
  BY <1>2 DEF Activated, IsNews, News, NodesAfter
<1> HIDE DEF c, k, nodes
<1>4. /\ t.parent = s.parent /\ t.above = s.above /\ t.key = k
      /\ t.tallies = s.tallies /\ t.settings = s.settings
      /\ t.changed = (s.changed \/ k # s.key)
      /\ DOMAIN t = DOMAIN s /\ t = [x \in DOMAIN t |-> t[x]]
  BY <1>2, <1>3 DEF StateOK
<1>5. t.nodes = nodes
  BY <1>2, <1>3 DEF StateOK, nodes, NodesAfter
<1>6. ASSUME s.nodes = [m \in DOMAIN s.nodes |-> s.nodes[m]]
      PROVE  nodes = [m \in DOMAIN nodes |-> nodes[m]]
  BY <1>6 DEF nodes, NodesAfter, Put
<1>7. t = [parent |-> t.parent, above |-> t.above, key |-> t.key, nodes |-> t.nodes,
           tallies |-> t.tallies, settings |-> t.settings, changed |-> t.changed]
  BY <1>4 DEF StateOK
<1>8. Plain(s) => Plain(t)
  BY <1>4, <1>5, <1>6, <1>7 DEF Plain
<1> QED
  BY <1>1, <1>4, <1>5, <1>8 DEF k, nodes

LEMMA ActivatedSound ==
    ASSUME WellFormed(dag), NEW s, NEW calls, Typed(s, calls), NEW up,
           NEW n \in NodesOf(dag), NEW spec \in Specificities,
           Sound(s, calls, up, dag), Justified(s.key, up, dag, n, spec),
           NEW t, t = Activated(s, n, spec)
    PROVE  Sound(t, calls \cup Fresh(s.nodes, n, spec), up, dag) /\ At(t.nodes, n, spec)
<1>1. /\ t.nodes = NodesAfter(s.nodes, n, spec) /\ Matches(s.key, t.key)
      /\ t.tallies = s.tallies /\ t.settings = s.settings
  BY ActivatedFields DEF Typed
<1>2. Ranks(s.nodes) /\ \A call \in calls : call.spec \in Specificities
  BY DEF Typed
<1>3. /\ \A m \in DOMAIN s.tallies : s.tallies[m] \in TallyStates
      /\ \A x \in DOMAIN s.settings : s.settings[x].spec \in Specificities
  BY DEF Typed, StateOK, Settings
<1>4. CallsOK(t.nodes, calls \cup Fresh(s.nodes, n, spec), dag)
  BY <1>1, <1>2, ActivationCalls DEF Sound
<1>5. OrsDone(t.nodes, calls \cup Fresh(s.nodes, n, spec), dag)
  BY <1>1, <1>2, ActivationOrs DEF Sound
<1>6. AndsDone(t.nodes, t.tallies, calls \cup Fresh(s.nodes, n, spec), dag)
  BY <1>1, <1>2, ActivationAnds DEF Sound
<1>7. PropsDone(t.nodes, t.settings, calls \cup Fresh(s.nodes, n, spec), up, dag)
  BY <1>1, <1>2, ActivationProps DEF Sound
<1>8. LegsDone(t.nodes, t.tallies, dag) /\ LegsBounded(t.nodes, t.tallies, up, dag)
  BY <1>1, <1>2, <1>3, ActivationLegs DEF Sound
<1>9. NodesBounded(t.key, t.nodes, up, dag)
  BY <1>1, <1>2, ActivationBounded DEF Sound
<1>10. SettingsFounded(t.nodes, t.settings, up, dag)
  BY <1>1, <1>2, <1>3, ActivationSettings DEF Sound
<1>11. At(t.nodes, n, spec)
  BY <1>1, <1>2, NodesGrow
<1> QED
  BY <1>4, <1>5, <1>6, <1>7, <1>8, <1>9, <1>10, <1>11 DEF Sound

----------------------------------------------------------------------------
(* Calls go on and return.                                                 *)

\* One call gives way to another one, with less to do for the same node.
Replaces(rest, calls, old, new) ==
    /\ calls \ {old} \subseteq rest /\ new \in rest /\ rest \subseteq calls \cup {new}
    /\ new.node = old.node /\ new.spec = old.spec
    /\ new.props \subseteq old.props /\ new.ands \subseteq old.ands /\ new.ors \subseteq old.ors

\* What it leaves out has been done.
Excused(s, up, old, new) ==
    /\ \A t \in old.ors \ new.ors : At(s.nodes, t.node, old.spec)
    /\ \A t \in old.ands \ new.ands :
          t.node \in DOMAIN s.tallies /\ LegDone(s.tallies[t.node], t, old.node, old.spec)
    /\ \A p \in old.props \ new.props : PropDone(s.settings, up, p, old.spec)

LEMMA CallGoesOn ==
    ASSUME NEW s, NEW calls, NEW up, NEW old \in calls, NEW new, NEW rest,
           Sound(s, calls, up, dag), Replaces(rest, calls, old, new),
           Excused(s, up, old, new)
    PROVE  Sound(s, rest, up, dag)
<1>1. CallsOK(s.nodes, rest, dag)
  BY DEF Sound, CallsOK, Replaces
<1>2. OrsDone(s.nodes, rest, dag)
  <2> SUFFICES ASSUME NEW n \in DOMAIN s.nodes, NEW t \in TalliesOf(dag, n, "or"),
                      ~At(s.nodes, t.node, s.nodes[n])
               PROVE  \E call \in rest : ForNode(call, s.nodes, n) /\ t \in call.ors
    BY DEF OrsDone
  <2>1. PICK call \in calls : ForNode(call, s.nodes, n) /\ t \in call.ors
    BY DEF Sound, OrsDone
  <2>2. CASE call = old
    <3>1. t \in new.ors
      BY <2>1, <2>2 DEF Excused, ForNode
    <3> QED
      BY <2>1, <2>2, <3>1 DEF Replaces, ForNode
  <2> QED
    BY <2>1, <2>2 DEF Replaces
<1>3. AndsDone(s.nodes, s.tallies, rest, dag)
  <2> SUFFICES ASSUME NEW n \in DOMAIN s.nodes, NEW t \in TalliesOf(dag, n, "and"),
                      ~(t.node \in DOMAIN s.tallies
                        /\ LegDone(s.tallies[t.node], t, n, s.nodes[n]))
               PROVE  \E call \in rest : ForNode(call, s.nodes, n) /\ t \in call.ands
    BY DEF AndsDone
  <2>1. PICK call \in calls : ForNode(call, s.nodes, n) /\ t \in call.ands
    BY DEF Sound, AndsDone
  <2>2. CASE call = old
    <3>1. t \in new.ands
      BY <2>1, <2>2 DEF Excused, ForNode
    <3> QED
      BY <2>1, <2>2, <3>1 DEF Replaces, ForNode
  <2> QED
    BY <2>1, <2>2 DEF Replaces
<1>4. PropsDone(s.nodes, s.settings, rest, up, dag)
  <2> SUFFICES ASSUME NEW n \in DOMAIN s.nodes, NEW p \in PropsOf(dag, n),
                      ~PropDone(s.settings, up, p, s.nodes[n])
               PROVE  \E call \in rest : ForNode(call, s.nodes, n) /\ p \in call.props
    BY DEF PropsDone
  <2>1. PICK call \in calls : ForNode(call, s.nodes, n) /\ p \in call.props
    BY DEF Sound, PropsDone
  <2>2. CASE call = old
    <3>1. p \in new.props
      BY <2>1, <2>2 DEF Excused, ForNode
    <3> QED
      BY <2>1, <2>2, <3>1 DEF Replaces, ForNode
  <2> QED
    BY <2>1, <2>2 DEF Replaces
<1> QED
  BY <1>1, <1>2, <1>3, <1>4 DEF Sound

\* A call that has nothing left to do is not missed.
LEMMA CallReturns ==
    ASSUME NEW s, NEW calls, NEW up, NEW old \in calls, NEW rest,
           Sound(s, calls, up, dag), calls \ {old} \subseteq rest, rest \subseteq calls,
           old.props = {}, old.ands = {}, old.ors = {}
    PROVE  Sound(s, rest, up, dag)
<1>1. CallsOK(s.nodes, rest, dag) /\ OrsDone(s.nodes, rest, dag)
  BY DEF Sound, CallsOK, OrsDone
<1>2. AndsDone(s.nodes, s.tallies, rest, dag)
  BY DEF Sound, AndsDone
<1>3. PropsDone(s.nodes, s.settings, rest, up, dag)
  BY DEF Sound, PropsDone
<1> QED
  BY <1>1, <1>2, <1>3 DEF Sound

----------------------------------------------------------------------------
(* Tallies.                                                                *)

\* A tally as it is after a leg was matched: no leg remembered before is
\* forgotten, and once both are matched the tally's node is active.
LEMMA TallyPut ==
    ASSUME NEW s, NEW calls, NEW up, Typed(s, calls), Sound(s, calls, up, dag),
           Regular(dag), NEW t \in dag.tallies, t.kind = "and",
           NEW new \in TallyStates,
           t.node \in DOMAIN s.tallies => AtLeast(new, s.tallies[t.node]),
           LegBounded(s.nodes, up, t, new),
           t.first \in DOMAIN s.nodes \/ t.second \in DOMAIN s.nodes,
           new.firstMatched /\ new.secondMatched
             => At(s.nodes, t.node, Plus(new.firstMatch, new.secondMatch)),
           NEW u, u.nodes = s.nodes, u.key = s.key, u.settings = s.settings,
           u.tallies = Put(s.tallies, t.node, new)
    PROVE  Sound(u, calls, up, dag)
<1>1. /\ DOMAIN u.tallies = DOMAIN s.tallies \cup {t.node} /\ u.tallies[t.node] = new
      /\ \A m \in DOMAIN s.tallies : m # t.node => u.tallies[m] = s.tallies[m]
  BY DEF Put
<1>2. \A v \in dag.tallies : v.node = t.node => v = t
  BY DEF Regular
<1>3. AndsDone(u.nodes, u.tallies, calls, dag)
  <2> SUFFICES ASSUME NEW n \in DOMAIN s.nodes, NEW v \in TalliesOf(dag, n, "and"),
                      v.node \in DOMAIN s.tallies,
                      LegDone(s.tallies[v.node], v, n, s.nodes[n])
               PROVE  v.node \in DOMAIN u.tallies
                      /\ LegDone(u.tallies[v.node], v, n, s.nodes[n])
    BY DEF Sound, AndsDone
  <2>1. CASE v.node # t.node
    BY <1>1, <2>1
  <2>2. CASE v.node = t.node
    <3>1. /\ s.tallies[v.node] \in TallyStates /\ s.nodes[n] \in Specificities
          /\ AtLeast(new, s.tallies[v.node])
      BY <2>2 DEF Typed, StateOK, Ranks
    <3>2. /\ s.tallies[v.node].firstMatch \in Specificities
          /\ s.tallies[v.node].secondMatch \in Specificities
          /\ new.firstMatch \in Specificities /\ new.secondMatch \in Specificities
      BY <3>1 DEF TallyStates
    <3>3. LegDone(new, v, n, s.nodes[n])
      BY <3>1, <3>2, BelowOrder DEF LegDone, AtLeast
    <3> QED
      BY <1>1, <2>2, <3>3
  <2> QED
    BY <2>1, <2>2
<1>4. LegsDone(u.nodes, u.tallies, dag)
  <2> SUFFICES ASSUME NEW v \in dag.tallies, v.node \in DOMAIN u.tallies,
                      u.tallies[v.node].firstMatched, u.tallies[v.node].secondMatched
               PROVE  At(s.nodes, v.node, Plus(u.tallies[v.node].firstMatch,
                                               u.tallies[v.node].secondMatch))
    BY DEF LegsDone
  <2>1. CASE v.node = t.node
    BY <1>1, <2>1
  <2>2. CASE v.node # t.node
    BY <1>1, <2>2 DEF Sound, LegsDone
  <2> QED
    BY <2>1, <2>2
<1>5. LegsBounded(u.nodes, u.tallies, up, dag)
  <2> SUFFICES ASSUME NEW m \in DOMAIN u.tallies
               PROVE  \E v \in dag.tallies :
                        /\ v.node = m /\ v.kind = "and"
                        /\ v.first \in DOMAIN s.nodes \/ v.second \in DOMAIN s.nodes
                        /\ LegBounded(s.nodes, up, v, u.tallies[m])
    BY DEF LegsBounded
  <2>1. CASE m = t.node
    BY <1>1, <2>1
  <2>2. CASE m # t.node
    BY <1>1, <2>2 DEF Sound, LegsBounded
  <2> QED
    BY <2>1, <2>2
<1> QED
  BY <1>3, <1>4, <1>5 DEF Sound

\* The states above a search state, as they are.
Above(s) == [a \in s.above |-> state[a]]

LEMMA ViewInherits ==
    ASSUME NEW s
    PROVE  /\ \A x : Hidden(Above(s), x) = Inherited(s, x)
           /\ \A t : HiddenTally(Above(s), t) = InheritedTally(s, t)
<1> DEFINE up == Above(s)
<1>1. DOMAIN up = s.above /\ \A a \in s.above : up[a] = state[a]
  BY DEF Above
<1> HIDE DEF up
<1>2. ASSUME NEW cs \in SUBSET s.above, NEW a \in Nearest(cs)
      PROVE  a \in s.above
  BY <1>2 DEF Nearest
<1>3. ASSUME NEW x
      PROVE  Hidden(up, x) = Inherited(s, x)
  <2> DEFINE cs == {b \in s.above : x \in DOMAIN state[b].settings}
  <2>1. {b \in DOMAIN up : x \in DOMAIN up[b].settings} = cs
    BY <1>1
  <2>2. \A a \in Nearest(cs) : up[a] = state[a]
    BY <1>1, <1>2
  <2> HIDE DEF cs
  <2>3. Hidden(up, x) = {up[a].settings[x] : a \in Nearest(cs)}
    BY <2>1 DEF Hidden
  <2>4. Inherited(s, x) = {state[a].settings[x] : a \in Nearest(cs)}
    BY DEF Inherited, cs
  <2> QED
    BY <2>2, <2>3, <2>4
<1>4. ASSUME NEW t
      PROVE  HiddenTally(up, t) = InheritedTally(s, t)
  <2> DEFINE cs == {b \in s.above : t.node \in DOMAIN state[b].tallies}
  <2>1. {b \in DOMAIN up : t.node \in DOMAIN up[b].tallies} = cs
    BY <1>1
  <2>2. \A a \in Nearest(cs) : up[a] = state[a]
    BY <1>1, <1>2
  <2> HIDE DEF cs
  <2>3. HiddenTally(up, t) = {up[a].tallies[t.node] : a \in Nearest(cs)}
    BY <2>1 DEF HiddenTally
  <2>4. InheritedTally(s, t) = {state[a].tallies[t.node] : a \in Nearest(cs)}
    BY DEF InheritedTally, cs
  <2> QED
    BY <2>2, <2>3, <2>4
<1> QED
  BY <1>3, <1>4 DEF up

\* A leg that was not matched yet counts nothing.
Blank(tally) ==
    /\ ~tally.firstMatched => tally.firstMatch = Spec0
    /\ ~tally.secondMatched => tally.secondMatch = Spec0

\* Nothing is below no match at all.
LEMMA LeastSpec ==
    ASSUME NEW a \in Specificities
    PROVE  Spec0 \in Specificities /\ ~Below(a, Spec0)
BY DEF Specificities, Below, Spec0

\* One leg of a tally, before and after a match of leg n.
LEMMA OneLegMatched ==
    ASSUME NEW nodes, Ranks(nodes), NEW n, NEW spec \in Specificities, At(nodes, n, spec),
           NEW leg, NEW matched \in BOOLEAN, NEW match \in Specificities, NEW hidden,
           MatchBounded(nodes, leg, matched, match, hidden), NEW more, more = (matched \/ n = leg),
           NEW new, new = IF n = leg THEN Higher(match, spec) ELSE match
    PROVE  /\ MatchBounded(nodes, leg, more, new, hidden)
           /\ new \in Specificities /\ ~Below(new, match)
           /\ n = leg => more /\ ~Below(new, spec)
<1> USE DEF MatchBounded
<1>1. new \in Specificities /\ ~Below(new, match) /\ (n = leg => more /\ ~Below(new, spec))
  BY HigherBounds, BelowOrder
<1>2. CASE n # leg
  BY <1>1, <1>2
<1>3. CASE n = leg /\ new = spec
  BY <1>1, <1>3
<1>4. CASE n = leg /\ new = match /\ matched
  BY <1>1, <1>4
<1>5. CASE n = leg /\ new = match /\ ~matched
  <2>1. nodes[leg] \in Specificities /\ leg \in DOMAIN nodes
    BY <1>5 DEF Ranks, At
  <2>2. At(nodes, leg, Spec0)
    BY <2>1, LeastSpec DEF At
  <2> QED
    BY <1>1, <1>5, <2>2
<1>6. n = leg => new = match \/ new = spec
  BY DEF Higher
<1> QED
  BY <1>1, <1>2, <1>3, <1>4, <1>5, <1>6

\* A tally registered with a node has it as a leg.
LEMMA RegisteredLeg ==
    ASSUME Regular(dag), NEW n, NEW kind, NEW t \in TalliesOf(dag, n, kind)
    PROVE  t \in dag.tallies /\ t.kind = kind /\ (n = t.first \/ n = t.second)
<1>1. t \in dag.tallies /\ t.kind = kind /\ <<n, t.node>> \in dag.registered
  BY DEF TalliesOf
<1>2. PICK u \in dag.tallies : u.node = t.node /\ (n = u.first \/ n = u.second)
  BY <1>1 DEF Regular
<1> QED
  BY <1>1, <1>2 DEF Regular

LEMMA LegRegistered ==
    ASSUME NEW d, Regular(d), NEW t \in d.tallies
    PROVE  t \in TalliesOf(d, t.first, t.kind) /\ t \in TalliesOf(d, t.second, t.kind)
BY DEF Regular, TalliesOf

\* The state of a conjunction that a context goes by is bounded, its own or not.
LEMMA TallyStateBounded ==
    ASSUME TypeOK, NEW s, s.above \subseteq Contexts, NEW up, up = Above(s),
           NEW calls, Typed(s, calls), Sound(s, calls, up, dag), Regular(dag),
           NEW t \in dag.tallies, \A h \in HiddenTally(up, t) : Blank(h)
    PROVE  /\ TallyState(s, t) \in TallyStates
           /\ LegBounded(s.nodes, up, t, TallyState(s, t))
<1>1. CASE t.node \in DOMAIN s.tallies
  <2>1. TallyState(s, t) = s.tallies[t.node]
    BY <1>1 DEF TallyState
  <2>2. PICK u \in dag.tallies : u.node = t.node /\ LegBounded(s.nodes, up, u, s.tallies[t.node])
    BY <1>1 DEF Sound, LegsBounded
  <2>3. u = t
    BY <2>2 DEF Regular
  <2> QED
    BY <1>1, <2>1, <2>2, <2>3 DEF Typed, StateOK
<1>2. CASE t.node \notin DOMAIN s.tallies /\ InheritedTally(s, t) # {}
  <2>1. TallyState(s, t) \in InheritedTally(s, t)
    BY <1>2 DEF TallyState
  <2> DEFINE h == TallyState(s, t)
  <2>2. h \in HiddenTally(up, t) /\ h \in TallyStates
    BY <2>1, ViewInherits, OneInherited
  <2> HIDE DEF h
  <2>3. Blank(h) /\ ~Below(h.firstMatch, h.firstMatch) /\ ~Below(h.secondMatch, h.secondMatch)
    BY <2>2, BelowOrder DEF TallyStates
  <2>4. LegBounded(s.nodes, up, t, h)
    BY <2>2, <2>3 DEF LegBounded, MatchBounded, HiddenFirst, HiddenSecond, Blank
  <2> QED
    BY <2>2, <2>4 DEF h
<1>3. CASE t.node \notin DOMAIN s.tallies /\ InheritedTally(s, t) = {}
  <2>1. TallyState(s, t) = EmptyTally
    BY <1>3 DEF TallyState
  <2> QED
    BY <2>1 DEF EmptyTally, LegBounded, MatchBounded, TallyStates, Spec0, Specificities
<1> QED
  BY <1>1, <1>2, <1>3

\* TallyState::activate keeps it so, and remembers the leg.
LEMMA LegMatchedBounded ==
    ASSUME NEW nodes, Ranks(nodes), NEW up, NEW t, NEW n, NEW spec \in Specificities,
           At(nodes, n, spec), NEW old \in TallyStates, LegBounded(nodes, up, t, old),
           NEW new, new = LegMatched(old, t, n, spec)
    PROVE  /\ new \in TallyStates /\ AtLeast(new, old)
           /\ LegBounded(nodes, up, t, new) /\ LegDone(new, t, n, spec)
<1>1. /\ MatchBounded(nodes, t.first, old.firstMatched, old.firstMatch, HiddenFirst(up, t))
      /\ MatchBounded(nodes, t.second, old.secondMatched, old.secondMatch, HiddenSecond(up, t))
  BY DEF LegBounded
<1>2. /\ new.firstMatched = (old.firstMatched \/ n = t.first)
      /\ new.secondMatched = (old.secondMatched \/ n = t.second)
      /\ new.firstMatch = IF n = t.first THEN Higher(old.firstMatch, spec) ELSE old.firstMatch
      /\ new.secondMatch = IF n = t.second THEN Higher(old.secondMatch, spec) ELSE old.secondMatch
  BY DEF LegMatched
<1>3. /\ old.firstMatched \in BOOLEAN /\ old.secondMatched \in BOOLEAN
      /\ old.firstMatch \in Specificities /\ old.secondMatch \in Specificities
  BY DEF TallyStates
<1>4. /\ MatchBounded(nodes, t.first, new.firstMatched, new.firstMatch, HiddenFirst(up, t))
      /\ new.firstMatch \in Specificities /\ ~Below(new.firstMatch, old.firstMatch)
      /\ n = t.first => new.firstMatched /\ ~Below(new.firstMatch, spec)
  BY ONLY <1>1, <1>2, <1>3, OneLegMatched, Ranks(nodes), spec \in Specificities, At(nodes, n, spec)
<1>5. /\ MatchBounded(nodes, t.second, new.secondMatched, new.secondMatch, HiddenSecond(up, t))
      /\ new.secondMatch \in Specificities /\ ~Below(new.secondMatch, old.secondMatch)
      /\ n = t.second => new.secondMatched /\ ~Below(new.secondMatch, spec)
  BY ONLY <1>1, <1>2, <1>3, OneLegMatched, Ranks(nodes), spec \in Specificities, At(nodes, n, spec)
<1>6. new \in TallyStates
  BY <1>3, <1>4, <1>5 DEF LegMatched, TallyStates
<1>7. AtLeast(new, old)
  BY <1>2, <1>4, <1>5 DEF AtLeast
<1>8. LegBounded(nodes, up, t, new)
  BY <1>4, <1>5 DEF LegBounded
<1> QED
  BY <1>4, <1>5, <1>6, <1>7, <1>8 DEF LegDone

----------------------------------------------------------------------------
(* What leads to a node justifies it.                                      *)

\* Whatever is closed has each leg worth as much.
LEMMA WorthAsMuch ==
    ASSUME NEW nodes, Ranks(nodes), NEW other, Ranks(other), NEW leg,
           NEW match \in Specificities, NEW hidden, hidden \subseteq Specificities,
           MatchBounded(nodes, leg, TRUE, match, hidden),
           leg \in DOMAIN nodes => At(other, leg, nodes[leg])
    PROVE  \E a \in Worth(other, leg, hidden) : a \in Specificities /\ ~Below(a, match)
<1>1. CASE At(nodes, leg, match)
  <2>1. /\ leg \in DOMAIN nodes /\ nodes[leg] \in Specificities /\ ~Below(nodes[leg], match)
        /\ leg \in DOMAIN other /\ other[leg] \in Specificities /\ ~Below(other[leg], nodes[leg])
    BY <1>1 DEF At, Ranks
  <2>2. ~Below(other[leg], match)
    BY <2>1, BelowOrder
  <2> QED
    BY <2>1, <2>2 DEF Worth
<1>2. CASE \E h \in hidden : ~Below(h, match)
  BY <1>2 DEF Worth
<1> QED
  BY <1>1, <1>2 DEF MatchBounded

LEMMA AndJustified ==
    ASSUME NEW s, NEW calls, NEW up, Typed(s, calls), Sound(s, calls, up, dag),
           NEW t \in dag.tallies, t.kind = "and", NEW tally \in TallyStates,
           HiddenTally(up, t) \subseteq TallyStates,
           LegBounded(s.nodes, up, t, tally), tally.firstMatched, tally.secondMatched,
           t.first \in DOMAIN s.nodes \/ t.second \in DOMAIN s.nodes
    PROVE  Justified(s.key, up, dag, t.node, Plus(tally.firstMatch, tally.secondMatch))
<1> SUFFICES ASSUME NEW other, NEW k, Closed(other, k, up, dag), Matches(s.key, k)
             PROVE  At(other, t.node, Plus(tally.firstMatch, tally.secondMatch))
  BY DEF Justified
<1>1. \A n \in DOMAIN s.nodes : At(other, n, s.nodes[n])
  BY DEF Sound, NodesBounded, Justified
<1>2. /\ tally.firstMatch \in Specificities /\ tally.secondMatch \in Specificities
      /\ HiddenFirst(up, t) \subseteq Specificities
      /\ HiddenSecond(up, t) \subseteq Specificities
  BY DEF TallyStates, HiddenFirst, HiddenSecond
<1>3. Ranks(s.nodes) /\ Ranks(other)
  BY DEF Typed, Closed
<1>4. /\ MatchBounded(s.nodes, t.first, TRUE, tally.firstMatch, HiddenFirst(up, t))
      /\ MatchBounded(s.nodes, t.second, TRUE, tally.secondMatch, HiddenSecond(up, t))
  BY DEF LegBounded, MatchBounded
<1>5. PICK a \in Worth(other, t.first, HiddenFirst(up, t)) :
              a \in Specificities /\ ~Below(a, tally.firstMatch)
  BY <1>1, <1>2, <1>3, <1>4, WorthAsMuch
<1>6. PICK b \in Worth(other, t.second, HiddenSecond(up, t)) :
              b \in Specificities /\ ~Below(b, tally.secondMatch)
  BY <1>1, <1>2, <1>3, <1>4, WorthAsMuch
<1>7. {t.first, t.second} \cap DOMAIN other # {}
  BY <1>1 DEF At
<1>8. At(other, t.node, Plus(a, b))
  BY <1>5, <1>6, <1>7 DEF Closed
<1>9. /\ ~Below(Plus(a, b), Plus(tally.firstMatch, tally.secondMatch))
      /\ Plus(a, b) \in Specificities
      /\ Plus(tally.firstMatch, tally.secondMatch) \in Specificities
  BY <1>2, <1>5, <1>6, PlusGrows, HigherBounds
<1> QED
  BY <1>3, <1>8, <1>9, AtLess

\* What justifies a specificity justifies a lower one.
LEMMA JustifiedLess ==
    ASSUME NEW key, NEW up, NEW n, NEW a \in Specificities, NEW b \in Specificities,
           Justified(key, up, dag, n, a), ~Below(a, b)
    PROVE  Justified(key, up, dag, n, b)
BY AtLess DEF Justified, Closed

LEMMA OrJustified ==
    ASSUME NEW s, NEW calls, NEW up, Typed(s, calls), Sound(s, calls, up, dag),
           Regular(dag), NEW n, NEW spec \in Specificities, At(s.nodes, n, spec),
           NEW t \in TalliesOf(dag, n, "or")
    PROVE  Justified(s.key, up, dag, t.node, spec)
<1>1. t \in dag.tallies /\ t.kind = "or" /\ n \in {t.first, t.second}
  BY RegisteredLeg
<1>2. n \in DOMAIN s.nodes /\ s.nodes[n] \in Specificities /\ ~Below(s.nodes[n], spec)
  BY DEF At, Typed, Ranks
<1>3. Justified(s.key, up, dag, t.node, s.nodes[n])
  <2> SUFFICES ASSUME NEW other, NEW k, Closed(other, k, up, dag), Matches(s.key, k)
               PROVE  At(other, t.node, s.nodes[n])
    BY DEF Justified
  <2>1. n \in DOMAIN other /\ ~Below(other[n], s.nodes[n])
    BY <1>2 DEF Sound, NodesBounded, Justified, At
  <2>2. At(other, t.node, other[n])
    BY <1>1, <2>1 DEF Closed
  <2>3. Ranks(other) /\ other[n] \in Specificities
    BY <2>1 DEF Closed, Ranks
  <2> QED
    BY <1>2, <2>1, <2>2, <2>3, AtLess
<1> QED
  BY <1>2, <1>3, JustifiedLess

LEMMA EdgeJustified ==
    ASSUME NEW key, NEW up, NEW e \in dag.edges, NEW q \in Reaching(up, e),
           Matches(e.key, key)
    PROVE  Justified(key, up, dag, e.child, Plus(q, KeySpecificity(e.key)))
<1> SUFFICES ASSUME NEW other, NEW k, Closed(other, k, up, dag), Matches(key, k)
             PROVE  At(other, e.child, Plus(q, KeySpecificity(e.key)))
  BY DEF Justified
<1>1. Matches(e.key, k)
  BY DEF Matches
<1> QED
  BY <1>1 DEF Closed

----------------------------------------------------------------------------
(* Settings.                                                               *)

\* One setting takes the place of another: it is better, or as good with all
\* of its values.
Improves(new, old) ==
    \/ Better(new, old)
    \/ new.spec = old.spec /\ new.override = old.override /\ old.values \subseteq new.values

LEMMA HidesStill ==
    ASSUME NEW old, NEW new, NEW other, Ranked(old), Ranked(new), Ranked(other),
           Improves(new, old)
    PROVE  /\ Hides(old, other) => Hides(new, other)
           /\ Better(old, other) => Better(new, other)
<1>1. CASE Better(new, old)
  BY <1>1, BetterOrder DEF Hides
<1>2. CASE new.spec = old.spec /\ new.override = old.override /\ old.values \subseteq new.values
  BY <1>2 DEF Hides, Better
<1> QED
  BY <1>1, <1>2 DEF Improves

\* Caching a setting that is founded and improves on the one before.
LEMMA SettingPut ==
    ASSUME NEW s, NEW calls, NEW up, Typed(s, calls), Sound(s, calls, up, dag),
           WellFormed(dag), NEW x, NEW v, Ranked(v), Founded(s.nodes, up, dag, x, v),
           \A h \in Hidden(up, x) : Ranked(h),
           IF x \in DOMAIN s.settings THEN Improves(v, s.settings[x])
           ELSE \A h \in Hidden(up, x) : Improves(v, h),
           NEW u, u.nodes = s.nodes, u.key = s.key, u.tallies = s.tallies,
           u.settings = Put(s.settings, x, v)
    PROVE  Sound(u, calls, up, dag)
<1>1. /\ DOMAIN u.settings = DOMAIN s.settings \cup {x} /\ u.settings[x] = v
      /\ \A y \in DOMAIN s.settings : y # x => u.settings[y] = s.settings[y]
  BY DEF Put
<1>2. SettingsFounded(u.nodes, u.settings, up, dag)
  <2> SUFFICES ASSUME NEW y \in DOMAIN u.settings
               PROVE  Founded(s.nodes, up, dag, y, u.settings[y])
    BY DEF SettingsFounded
  <2>1. CASE y = x
    BY <1>1, <2>1
  <2>2. CASE y # x
    BY <1>1, <2>2 DEF Sound, SettingsFounded
  <2> QED
    BY <2>1, <2>2
<1>3. ASSUME NEW p \in dag.props, NEW spec \in Specificities,
             PropDone(s.settings, up, p, spec)
      PROVE  PropDone(u.settings, up, p, spec)
  <2>1. CASE p.name # x
    BY <1>1, <1>3, <2>1 DEF PropDone
  <2>2. CASE p.name = x
    <3> DEFINE c == Candidate(p, spec)
    <3>1. Ranked(c)
      BY DEF Candidate, Ranked, WellFormed, Props
    <3> HIDE DEF c
    <3>2. Hides(v, c)
      <4>1. CASE x \in DOMAIN s.settings
        <5>1. Ranked(s.settings[x]) /\ Hides(s.settings[x], c) /\ Improves(v, s.settings[x])
          BY <1>3, <2>2, <4>1, SettingsRanked DEF PropDone, Typed, StateOK, c
        <5> QED
          BY <3>1, <5>1, HidesStill
      <4>2. CASE x \notin DOMAIN s.settings
        <5>1. PICK h \in Hidden(up, x) : Better(h, c)
          BY <1>3, <2>2, <4>2 DEF PropDone, c
        <5>2. Ranked(h) /\ Improves(v, h)
          BY <4>2
        <5>3. Better(v, c)
          BY <3>1, <5>1, <5>2, HidesStill
        <5> QED
          BY <5>3 DEF Hides
      <4> QED
        BY <4>1, <4>2
    <3> QED
      BY <1>1, <2>2, <3>2 DEF PropDone, c
  <2> QED
    BY <2>1, <2>2
<1>4. PropsDone(u.nodes, u.settings, calls, up, dag)
  BY <1>3 DEF Sound, PropsDone, PropsOf, Typed, Ranks
<1> QED
  BY <1>2, <1>4 DEF Sound

\* SearchState::cacheProperty in each of its branches.
LEMMA CachedSound ==
    ASSUME WellFormed(dag), TypeOK, NEW s, s.above \subseteq Contexts,
           NEW calls, Typed(s, calls), NEW up, up = Above(s), Sound(s, calls, up, dag),
           NEW p \in dag.props, NEW spec \in Specificities, At(s.nodes, p.node, spec),
           NEW u, u = Cached(s, p, spec)
    PROVE  /\ Sound(u, calls, up, dag) /\ PropDone(u.settings, up, p, spec)
           /\ u.parent = s.parent /\ u.above = s.above /\ u.key = s.key /\ u.nodes = s.nodes
           /\ u.tallies = s.tallies /\ u.changed = s.changed
           /\ Plain(s) => Plain(u)
<1> DEFINE x == p.name
           new == Candidate(p, spec)
           own == x \in DOMAIN s.settings
           olds == IF own THEN {s.settings[x]} ELSE Hidden(up, x)
           more(old) == [old EXCEPT !.values = @ \cup {p}]
           merged(old) == IF Better(new, old) THEN new
                          ELSE IF Better(old, new) THEN old ELSE more(old)
           same(t) == /\ t.parent = s.parent /\ t.above = s.above /\ t.key = s.key
                      /\ t.nodes = s.nodes /\ t.tallies = s.tallies /\ t.changed = s.changed
                      /\ Plain(s) => Plain(t)
<1>1. x \in PropNames /\ new \in Settings /\ Ranked(new)
      /\ new.spec = spec /\ new.override = p.override /\ new.values = {p}
  <2>1. x \in PropNames /\ new \in Settings
    BY DEF WellFormed, Props, Settings, Candidate
  <2> QED
    BY <2>1, SettingsRanked DEF Candidate
<1>2. olds \subseteq Settings /\ (\A g, h \in olds : g = h)
      /\ \A h \in Hidden(up, x) : h \in Settings /\ Ranked(h)
  BY OneInherited, ViewInherits, SettingsRanked DEF Typed, StateOK
<1>3. ASSUME NEW v, NEW t, t = [s EXCEPT !.settings = Put(@, x, v)]
      PROVE  same(t) /\ t.settings = Put(s.settings, x, v)
  <2>1. /\ DOMAIN t = DOMAIN s /\ t = [y \in DOMAIN t |-> t[y]]
        /\ t.parent = s.parent /\ t.above = s.above /\ t.key = s.key
        /\ t.nodes = s.nodes /\ t.tallies = s.tallies /\ t.changed = s.changed
        /\ t.settings = Put(s.settings, x, v)
    BY <1>3 DEF Typed, StateOK
  <2>2. t.settings = [y \in DOMAIN t.settings |-> t.settings[y]]
    BY <2>1 DEF Put
  <2>3. t = [parent |-> t.parent, above |-> t.above, key |-> t.key, nodes |-> t.nodes,
             tallies |-> t.tallies, settings |-> t.settings, changed |-> t.changed]
    BY <2>1 DEF Typed, StateOK
  <2> QED
    BY <2>1, <2>2, <2>3 DEF Plain
<1>4. Owned(s.nodes, dag, x, new, p)
  BY <1>1 DEF Owned
<1>5. Founded(s.nodes, up, dag, x, new) /\ Hides(new, new)
  <2>1. ~Better(new, new)
    BY <1>1, BetterOrder
  <2> QED
    BY <1>1, <1>4, <2>1 DEF Founded, Hides
<1>6. CASE olds = {}
  <2>1. ~own /\ Hidden(up, x) = {}
    BY <1>6
  <2>2. u = [s EXCEPT !.settings = Put(@, x, new)]
    BY <2>1, ViewInherits DEF Cached, Candidate
  <2>3. same(u) /\ u.settings = Put(s.settings, x, new)
    BY <1>3, <2>2
  <2>4. Sound(u, calls, up, dag)
    BY <1>1, <1>5, <2>1, <2>3, SettingPut
  <2>5. PropDone(u.settings, up, p, spec)
    BY <1>5, <2>3 DEF PropDone, Put
  <2> QED
    BY <2>3, <2>4, <2>5
<1>7. CASE olds # {}
  <2> DEFINE old == CHOOSE o \in olds : TRUE
  <2>1. old \in olds
    BY <1>7
  <2>2. u = IF ~own /\ Better(old, new) THEN s
            ELSE [s EXCEPT !.settings = Put(@, x, merged(old))]
    BY <1>7, ViewInherits DEF Cached, Candidate
  <2> HIDE DEF old
  <2>3. /\ old \in Settings /\ Ranked(old)
        /\ own => old = s.settings[x]
        /\ ~own => old \in Hidden(up, x) /\ \A h \in Hidden(up, x) : h = old
    BY <1>2, <2>1, SettingsRanked
  <2>4. CASE ~own /\ Better(old, new)
    BY <2>2, <2>3, <2>4 DEF PropDone
  <2>5. CASE own \/ ~Better(old, new)
    <3> DEFINE v == merged(old)
    <3>1. u = [s EXCEPT !.settings = Put(@, x, v)]
      BY <2>2, <2>5
    <3>2. same(u) /\ u.settings = Put(s.settings, x, v)
      BY <1>3, <3>1
    <3>3. more(old).spec = old.spec /\ more(old).override = old.override
          /\ more(old).values = old.values \cup {p} /\ Ranked(more(old))
      BY <2>3 DEF Settings, Ranked
    <3>4. Ranked(v) /\ Improves(v, old) /\ Hides(v, new)
      <4>1. CASE Better(new, old)
        BY <1>1, <1>5, <4>1 DEF Improves
      <4>2. CASE ~Better(new, old) /\ Better(old, new)
        BY <2>3, <4>2 DEF Improves, Hides
      <4>3. CASE ~Better(new, old) /\ ~Better(old, new)
        <5>1. v = more(old)
          BY <4>3
        <5>2. ~Better(new, v)
          BY <3>3, <4>3, <5>1 DEF Better
        <5> QED
          BY <1>1, <3>3, <5>1, <5>2 DEF Improves, Hides
      <4> QED
        BY <4>1, <4>2, <4>3
    <3>5. Founded(s.nodes, up, dag, x, v)
      <4>1. CASE Better(new, old)
        BY <1>5, <4>1
      <4>2. CASE ~Better(new, old) /\ Better(old, new)
        BY <2>3, <2>5, <4>2 DEF Sound, SettingsFounded
      <4>3. CASE ~Better(new, old) /\ ~Better(old, new)
        <5>1. v = more(old)
          BY <4>3
        <5> HIDE DEF v, more
        <5>2. old.override = new.override /\ old.spec = new.spec
          <6>1. old.override = new.override /\ ~Below(old.spec, new.spec) /\ ~Below(new.spec, old.spec)
            BY <1>1, <2>3, <4>3 DEF Better, Ranked
          <6> QED
            BY <1>1, <2>3, <6>1 DEF Ranked, Below, Specificities
        <5>3. Owned(s.nodes, dag, x, v, p)
          BY <1>1, <1>4, <3>3, <5>1, <5>2 DEF Owned
        <5>4. ASSUME own
              PROVE  \A q \in old.values :
                        \/ Owned(s.nodes, dag, x, v, q)
                        \/ \E h \in Hidden(up, x) :
                              q \in h.values /\ h.spec = v.spec /\ h.override = v.override
          <6>1. Founded(s.nodes, up, dag, x, old)
            BY <2>3, <5>4 DEF Sound, SettingsFounded
          <6> QED
            BY <3>3, <5>1, <6>1 DEF Founded, Owned
        <5>5. ASSUME ~own
              PROVE  \A q \in old.values : \E h \in Hidden(up, x) :
                        q \in h.values /\ h.spec = v.spec /\ h.override = v.override
          BY <2>3, <3>3, <5>1, <5>5
        <5> QED
          BY <3>3, <5>1, <5>3, <5>4, <5>5 DEF Founded
      <4> QED
        BY <4>1, <4>2, <4>3
    <3> HIDE DEF v
    <3>6. Sound(u, calls, up, dag)
      BY <1>2, <2>3, <3>2, <3>4, <3>5, SettingPut
    <3>7. PropDone(u.settings, up, p, spec)
      BY <3>2, <3>4 DEF PropDone, Put
    <3> QED
      BY <3>2, <3>6, <3>7
  <2> QED
    BY <2>4, <2>5
<1> QED
  BY <1>6, <1>7

----------------------------------------------------------------------------
(* The invariant of a search.                                              *)

Searched(s, r, up, d) ==
    /\ Sound(s, Pending(r.stack), up, d)
    /\ Rounds(s, r, up, d)
    /\ Lineage(s, up) /\ Rooted(s, r) /\ Plain(s)

AllSearched == \A c \in Contexts : Searched(state[c], run[c], View(c), dag)

(***************************************************************************)
(* What the steps of a search rely on: the invariant for the contexts not  *)
(* built yet, and little of the built ones, which may have been built      *)
(* under older rules.                                                      *)
(***************************************************************************)
Underway ==
    \A c \in Contexts :
        /\ Lineage(state[c], View(c))
        /\ \A m \in DOMAIN state[c].tallies : Blank(state[c].tallies[m])
        /\ c \notin Built => Searched(state[c], run[c], View(c), dag)

LEMMA SearchedLegs ==
    ASSUME NEW s, NEW r, NEW up, NEW d, Searched(s, r, up, d)
    PROVE  Lineage(s, up) /\ \A m \in DOMAIN s.tallies : Blank(s.tallies[m])
<1> SUFFICES ASSUME NEW m \in DOMAIN s.tallies PROVE Blank(s.tallies[m])
  BY DEF Searched
<1>1. PICK t : LegBounded(s.nodes, up, t, s.tallies[m])
  BY DEF Searched, Sound, LegsBounded
<1> QED
  BY <1>1 DEF LegBounded, MatchBounded, Blank

----------------------------------------------------------------------------
(* The stack of calls.                                                     *)

LEMMA PendingCalls ==
    ASSUME NEW stack \in Seq(Calls), stack # <<>>
    PROVE  /\ Head(stack) \in Pending(stack) /\ Pending(stack) \subseteq Calls
           /\ Pending(stack) \ {Head(stack)} \subseteq Pending(Tail(stack))
           /\ Pending(Tail(stack)) \subseteq Pending(stack)
<1>1. /\ Len(stack) \in Nat /\ DOMAIN stack = 1..Len(stack) /\ Len(stack) >= 1
      /\ Head(stack) = stack[1] /\ \A i \in 1..Len(stack) : stack[i] \in Calls
  OBVIOUS
<1>2. /\ Len(Tail(stack)) = Len(stack) - 1 /\ DOMAIN Tail(stack) = 1..(Len(stack) - 1)
      /\ \A i \in 1..(Len(stack) - 1) : Tail(stack)[i] = stack[i + 1]
  OBVIOUS
<1>3. ASSUME NEW i \in 1..Len(stack), i # 1
      PROVE  stack[i] \in Pending(Tail(stack))
  <2>1. i - 1 \in 1..(Len(stack) - 1) /\ Tail(stack)[i - 1] = stack[i]
    BY <1>1, <1>2, <1>3
  <2> QED
    BY <1>2, <2>1 DEF Pending
<1>4. Pending(Tail(stack)) \subseteq Pending(stack)
  <2>1. \A i \in 1..(Len(stack) - 1) : i + 1 \in 1..Len(stack)
    BY <1>1
  <2> QED
    BY <1>1, <1>2, <2>1 DEF Pending
<1> QED
  BY <1>1, <1>3, <1>4 DEF Pending

LEMMA PendingEdited ==
    ASSUME NEW stack \in Seq(Calls), stack # <<>>, NEW call,
           NEW rest, rest = [stack EXCEPT ![1] = call]
    PROVE  /\ Pending(stack) \ {Head(stack)} \subseteq Pending(rest)
           /\ call \in Pending(rest) /\ Pending(rest) \subseteq Pending(stack) \cup {call}
<1>1. /\ Head(stack) = stack[1] /\ 1 \in DOMAIN stack
  OBVIOUS
<1>2. /\ DOMAIN rest = DOMAIN stack /\ rest[1] = call
      /\ \A i \in DOMAIN stack : i # 1 => rest[i] = stack[i]
  BY <1>1
<1> QED
  BY <1>1, <1>2 DEF Pending

LEMMA PendingActivated ==
    ASSUME NEW s, NEW stack \in Seq(Calls), WellFormed(dag),
           NEW n \in NodesOf(dag), NEW spec \in Specificities
    PROVE  Pending(CallsAfter(s, stack, n, spec)) = Pending(stack) \cup Fresh(s.nodes, n, spec)
<1>1. Call(n, spec) \in Calls
  BY CallsTyped
<1>2. CASE ~IsNews(s, n, spec)
  BY <1>2 DEF CallsAfter, Fresh, IsNews, News
<1>3. CASE IsNews(s, n, spec)
  <2> DEFINE all == <<Call(n, spec)>> \o stack
  <2>1. CallsAfter(s, stack, n, spec) = all /\ Fresh(s.nodes, n, spec) = {Call(n, spec)}
    BY <1>3 DEF CallsAfter, Fresh, IsNews, News
  <2>2. /\ all \in Seq(Calls) /\ Len(all) = Len(stack) + 1 /\ DOMAIN all = 1..(Len(stack) + 1)
        /\ Len(stack) \in Nat /\ DOMAIN stack = 1..Len(stack)
        /\ all[1] = Call(n, spec) /\ \A i \in 1..Len(stack) : all[i + 1] = stack[i]
    BY <1>1
  <2> HIDE DEF all
  <2>3. ASSUME NEW i \in 1..(Len(stack) + 1), i # 1
        PROVE  i - 1 \in DOMAIN stack /\ all[i] = stack[i - 1]
    <3>1. i \in Nat /\ i - 1 \in 1..Len(stack) /\ (i - 1) + 1 = i
      BY <2>2, <2>3
    <3>2. all[(i - 1) + 1] = stack[i - 1]
      BY <2>2, <3>1
    <3> QED
      BY <2>2, <3>1, <3>2
  <2>4. \A i \in 1..Len(stack) : i + 1 \in DOMAIN all
    BY <2>2
  <2>5. Pending(all) \subseteq Pending(stack) \cup {Call(n, spec)}
    <3> SUFFICES ASSUME NEW i \in DOMAIN all
                 PROVE  all[i] = Call(n, spec) \/ all[i] \in Pending(stack)
      BY DEF Pending
    <3>1. CASE i = 1
      BY <2>2, <3>1
    <3>2. CASE i # 1
      BY <2>2, <2>3, <3>2 DEF Pending
    <3> QED
      BY <3>1, <3>2
  <2>6. Pending(stack) \cup {Call(n, spec)} \subseteq Pending(all)
    BY <2>2, <2>4 DEF Pending
  <2> QED
    BY <2>1, <2>5, <2>6
<1> QED
  BY <1>2, <1>3

----------------------------------------------------------------------------
(* The steps of a search.                                                  *)

\* What a context under construction has to go by.
LEMMA Setting ==
    ASSUME IInv, Underway, NEW c \in Contexts, run[c].phase = "building"
    PROVE  /\ WellFormed(dag) /\ Regular(dag) /\ TypeOK /\ View(c) = Above(state[c])
           /\ state[c].above \subseteq Contexts /\ DOMAIN View(c) = state[c].above
           /\ Searched(state[c], run[c], View(c), dag)
           /\ Typed(state[c], Pending(run[c].stack)) /\ run[c].stack \in Seq(Calls)
           /\ \A e \in dag.edges : Reaching(View(c), e) \subseteq Specificities
           /\ \A a \in state[c].above : View(c)[a] = state[a] /\ a \in Built
<1>1. /\ WellFormed(dag) /\ Regular(dag) /\ TypeOK /\ StateOK(state[c]) /\ RunOK(run[c])
      /\ state[c].above \subseteq Built /\ Built \subseteq Contexts
  BY SearchAssumption DEF IInv, TypeOK, LineageOK, Built
<1>2. run[c].stack \in Seq(Calls)
  BY <1>1 DEF RunOK
<1>3. \A call \in Pending(run[c].stack) : call.spec \in Specificities
  <2>1. Pending(run[c].stack) \subseteq Calls
    BY <1>2 DEF Pending
  <2> QED
    BY <2>1 DEF Calls
<1>4. Typed(state[c], Pending(run[c].stack))
  BY <1>1, <1>3 DEF Typed, StateOK, Ranks
<1>5. DOMAIN View(c) = state[c].above /\ \A a \in state[c].above : View(c)[a] = state[a]
  BY DEF View
<1>6. \A e \in dag.edges : Reaching(View(c), e) \subseteq Specificities
  <2>1. \A a \in state[c].above : StateOK(state[a])
    BY <1>1 DEF TypeOK
  <2>2. Spec0 \in Specificities
    BY DEF Spec0, Specificities
  <2> QED
    BY <1>5, <2>1, <2>2 DEF Reaching, StateOK
<1> QED
  BY <1>1, <1>2, <1>4, <1>5, <1>6 DEF View, Above, Underway, Built

\* The rounds go on: what has been handled stays so unless the key changes,
\* and the children no longer to be looked at have been handled.
LEMMA RoundsGoOn ==
    ASSUME NEW s, NEW r, NEW up, Rounds(s, r, up, dag), r.phase = "building",
           NEW t, t.parent = s.parent, ~t.changed => ~s.changed /\ t.key = s.key,
           ~t.changed => \A e \in dag.edges : \A q \in Reaching(up, e) :
                             Handled(s.key, s.nodes, e, q) => Handled(s.key, t.nodes, e, q),
           NEW v, v.phase = "building", v.ancestor = r.ancestor, v.again = r.again,
           v.todo = r.todo, v.edges \subseteq r.edges,
           ~t.changed => \A es \in r.edges \ v.edges : Handled(s.key, t.nodes, es[1], es[2])
    PROVE  Rounds(t, v, up, dag)
<1>1. EdgesReaching(v.edges, up, dag)
  BY DEF Rounds, EdgesReaching
<1>2. ASSUME ~t.changed, NEW e \in dag.edges, NEW q \in Reaching(up, e),
             Handled(s.key, s.nodes, e, q) \/ <<e, q>> \in r.edges
      PROVE  Handled(t.key, t.nodes, e, q) \/ <<e, q>> \in v.edges
  BY <1>2
<1>3. CASE s.parent = None
  <2>1. RootRound(t, v, up, dag)
    <3>1. RootRound(s, r, up, dag)
      BY <1>3 DEF Rounds
    <3> SUFFICES ASSUME ~t.changed, NEW e \in dag.edges, NEW q \in Reaching(up, e)
                 PROVE  Handled(t.key, t.nodes, e, q) \/ <<e, q>> \in v.edges
      BY DEF RootRound
    <3>2. Handled(s.key, s.nodes, e, q) \/ <<e, q>> \in r.edges
      BY <3>1 DEF RootRound
    <3> QED
      BY <1>2, <3>2
  <2> QED
    BY <1>1, <1>3, <2>1 DEF Rounds
<1>4. CASE s.parent # None
  <2>1. r.ancestor \in DOMAIN up /\ ChildRound(s, r, up, dag)
    BY <1>4 DEF Rounds
  <2>2. \A a \in DOMAIN up : \A e \in dag.edges :
            e.parent \in DOMAIN up[a].nodes => up[a].nodes[e.parent] \in Reaching(up, e)
    BY DEF Reaching
  <2>3. ChildRound(t, v, up, dag)
    <3> SUFFICES ASSUME ~t.changed, ~v.again, NEW e \in dag.edges
                 PROVE  /\ \A a \in Passed(v, up) : e.parent \in DOMAIN up[a].nodes =>
                              Handled(t.key, t.nodes, e, up[a].nodes[e.parent])
                        /\ e.parent \in DOMAIN up[v.ancestor].nodes \ v.todo =>
                              \/ Handled(t.key, t.nodes, e, up[v.ancestor].nodes[e.parent])
                              \/ <<e, up[v.ancestor].nodes[e.parent]>> \in v.edges
      BY DEF ChildRound
    <3>1. ASSUME NEW a \in Passed(v, up), e.parent \in DOMAIN up[a].nodes
          PROVE  Handled(t.key, t.nodes, e, up[a].nodes[e.parent])
      <4>1. a \in DOMAIN up /\ a \in Passed(r, up)
        BY DEF Passed
      <4>2. Handled(s.key, s.nodes, e, up[a].nodes[e.parent])
        BY <2>1, <3>1, <4>1 DEF ChildRound
      <4> QED
        BY <2>2, <3>1, <4>1, <4>2
    <3>2. ASSUME e.parent \in DOMAIN up[r.ancestor].nodes \ r.todo
          PROVE  \/ Handled(t.key, t.nodes, e, up[r.ancestor].nodes[e.parent])
                 \/ <<e, up[r.ancestor].nodes[e.parent]>> \in v.edges
      <4>1. \/ Handled(s.key, s.nodes, e, up[r.ancestor].nodes[e.parent])
            \/ <<e, up[r.ancestor].nodes[e.parent]>> \in r.edges
        BY <2>1, <3>2 DEF ChildRound
      <4> QED
        BY <1>2, <2>1, <2>2, <3>2, <4>1
    <3> QED
      BY <3>1, <3>2
  <2> QED
    BY <1>1, <1>4, <2>1, <2>3 DEF Rounds
<1> QED
  BY <1>3, <1>4

\* The call on top of the stack is one with less to do.
LEMMA CallReplaced ==
    ASSUME NEW stack \in Seq(Calls), stack # <<>>, NEW call,
           call.node = Head(stack).node, call.spec = Head(stack).spec,
           call.props \subseteq Head(stack).props, call.ands \subseteq Head(stack).ands,
           call.ors \subseteq Head(stack).ors,
           NEW rest, rest = [stack EXCEPT ![1] = call]
    PROVE  Replaces(Pending(rest), Pending(stack), Head(stack), call)
BY PendingEdited DEF Replaces

\* A search goes on: its state is sound still and has lost no node.
LEMMA SearchGoesOn ==
    ASSUME NEW s, NEW r, NEW up, Searched(s, r, up, dag), r.phase = "building",
           NEW t, NEW v, Sound(t, Pending(v.stack), up, dag), Plain(t),
           t.parent = s.parent, t.above = s.above, DOMAIN s.nodes \subseteq DOMAIN t.nodes,
           Rounds(t, v, up, dag)
    PROVE  Searched(t, v, up, dag)
<1>1. Lineage(t, up) /\ Rooted(t, v)
  BY DEF Searched, Lineage, Rooted
<1> QED
  BY <1>1 DEF Searched

\* What an activation may make of a state, as far as the rounds go.
Furthers(s, t, up) ==
    /\ t.parent = s.parent /\ t.above = s.above /\ DOMAIN s.nodes \subseteq DOMAIN t.nodes
    /\ ~t.changed => ~s.changed /\ t.key = s.key
    /\ \A e \in dag.edges : \A q \in Reaching(up, e) :
           Handled(s.key, s.nodes, e, q) => Handled(s.key, t.nodes, e, q)
    /\ Plain(s) => Plain(t)

(***************************************************************************)
(* The key stays, and the nodes that are active, or it takes in what a     *)
(* node asks for that has a cause to be active.                            *)
(***************************************************************************)
KeyGoesOn(s, t, up) ==
    \/ t.key = s.key /\ DOMAIN t.nodes = DOMAIN s.nodes
    \/ \E n \in NodesOf(dag), spec \in Specificities :
          /\ Justified(s.key, up, dag, n, spec)
          /\ t.key = AddAll(s.key, ConstraintOf(dag, n))
          /\ DOMAIN t.nodes = DOMAIN s.nodes \cup {n}

\* Node::activate and the rounds: what was handled stays so, or the key is new.
LEMMA ActivationRounds ==
    ASSUME WellFormed(dag), NEW s, NEW calls, Typed(s, calls), NEW up,
           \A e \in dag.edges : Reaching(up, e) \subseteq Specificities,
           NEW n \in NodesOf(dag), NEW spec \in Specificities,
           NEW t, t = Activated(s, n, spec)
    PROVE  Furthers(s, t, up)
<1>1. /\ t.nodes = NodesAfter(s.nodes, n, spec) /\ t.parent = s.parent /\ t.above = s.above
      /\ t.changed = (s.changed \/ t.key # s.key)
      /\ Plain(s) => Plain(t)
  BY ActivatedFields DEF Typed
<1>2. s.changed \in BOOLEAN /\ Ranks(s.nodes)
  BY DEF Typed, StateOK
<1>3. ~t.changed => ~s.changed /\ t.key = s.key
  BY <1>1, <1>2
<1>4. DOMAIN s.nodes \subseteq DOMAIN t.nodes
  BY <1>1 DEF NodesAfter, Put
<1>5. ASSUME NEW e \in dag.edges, NEW q \in Reaching(up, e), Handled(s.key, s.nodes, e, q)
      PROVE  Handled(s.key, t.nodes, e, q)
  <2>1. e.key \in Keys /\ q \in Specificities
    BY DEF WellFormed, Edges
  <2> QED
    BY <1>1, <1>2, <1>5, <2>1, ActivationHandled
<1> QED
  BY <1>1, <1>3, <1>4, <1>5 DEF Furthers

LEMMA CachePropertySearches ==
    ASSUME IInv, Underway, NEW c \in Contexts, run[c].phase = "building",
           run[c].stack # <<>>, CacheProperty(c)
    PROVE  /\ Searched(state'[c], run'[c], View(c), dag) /\ state'[c].above = state[c].above
           /\ KeyGoesOn(state[c], state'[c], View(c))
<1> PICK p \in Top(c).props : /\ state' = [state EXCEPT ![c] = Cached(@, p, Top(c).spec)]
                              /\ run' = [run EXCEPT ![c].stack[1].props = @ \ {p}]
  BY DEF CacheProperty
<1> DEFINE call == [Top(c) EXCEPT !.props = @ \ {p}]
           rest == [run[c].stack EXCEPT ![1] = call]
           s == state[c]
           t == state'[c]
           up == View(c)
           calls == Pending(run[c].stack)
<1>1. /\ t = Cached(s, p, Top(c).spec)
      /\ run'[c] = [run[c] EXCEPT !.stack = rest]
  <2>1. run[c].stack[1] = Top(c) /\ 1 \in DOMAIN run[c].stack
    BY Setting DEF Top
  <2> QED
    BY <2>1, Situation DEF RunOK
<1>2. Top(c) \in calls /\ Top(c) \in Calls
  BY Setting, PendingCalls DEF Top
<1>3. /\ Top(c).spec \in Specificities /\ At(s.nodes, Top(c).node, Top(c).spec)
      /\ p \in PropsOf(dag, Top(c).node)
  BY <1>2, Setting DEF Calls, Searched, Sound, CallsOK
<1>4. p \in dag.props /\ p.node = Top(c).node
  BY <1>3 DEF PropsOf
<1>5. /\ Sound(t, calls, up, dag) /\ PropDone(t.settings, up, p, Top(c).spec)
      /\ t.parent = s.parent /\ t.above = s.above /\ t.key = s.key /\ t.nodes = s.nodes
      /\ t.tallies = s.tallies /\ t.changed = s.changed /\ Plain(t)
  <2> HIDE DEF t, s, calls, up
  <2>1. /\ WellFormed(dag) /\ TypeOK /\ s.above \subseteq Contexts /\ Typed(s, calls)
        /\ up = Above(s) /\ Sound(s, calls, up, dag) /\ Plain(s)
    BY Setting DEF Searched, s, calls, up
  <2> QED
    BY <1>1, <1>3, <1>4, <2>1, CachedSound
<1>6. /\ call.node = Top(c).node /\ call.spec = Top(c).spec /\ call.ands = Top(c).ands
      /\ call.ors = Top(c).ors /\ call.props = Top(c).props \ {p}
  BY <1>2 DEF Calls
<1>7. Replaces(Pending(rest), calls, Top(c), call)
  <2>1. run[c].stack \in Seq(Calls) /\ Head(run[c].stack) = Top(c)
    BY Setting DEF Top
  <2>2. rest = [run[c].stack EXCEPT ![1] = call]
    OBVIOUS
  <2> HIDE DEF call, rest, calls
  <2>3. Replaces(Pending(rest), Pending(run[c].stack), Top(c), call)
    BY <1>6, <2>1, <2>2, CallReplaced
  <2> QED
    BY <2>3 DEF calls
<1>8. Excused(t, up, Top(c), call)
  BY <1>5, <1>6 DEF Excused
<1> HIDE DEF call, rest, s, t, up, calls
<1>9. Sound(t, Pending(rest), up, dag)
  BY <1>2, <1>5, <1>7, <1>8, CallGoesOn
<1> DEFINE v == run'[c]
<1>10. /\ v.phase = "building" /\ v.ancestor = run[c].ancestor /\ v.again = run[c].again
       /\ v.todo = run[c].todo /\ v.edges = run[c].edges /\ v.stack = rest
  BY <1>1, Situation DEF RunOK
<1> HIDE DEF v
<1>11. Rounds(s, run[c], up, dag) /\ Searched(s, run[c], up, dag)
  BY Setting DEF Searched, s, up
<1>12. Rounds(t, v, up, dag)
  BY <1>5, <1>10, <1>11, RoundsGoOn
<1>13. KeyGoesOn(s, t, up)
  BY <1>5 DEF KeyGoesOn
<1> QED
  BY <1>5, <1>9, <1>10, <1>11, <1>12, <1>13, SearchGoesOn DEF s, t, up, v

(***************************************************************************)
(* A step that activates a node: b is what it has made of the state s and  *)
(* call of the call at the top before, t the state after.                  *)
(***************************************************************************)
Activation(s, b, t, r, v, up, n, spec, call, rest) ==
    /\ b.parent = s.parent /\ b.above = s.above /\ b.key = s.key /\ b.nodes = s.nodes
    /\ b.changed = s.changed /\ Plain(b)
    /\ Typed(b, Pending(r.stack)) /\ n \in NodesOf(dag) /\ spec \in Specificities
    /\ t = Activated(b, n, spec) /\ Justified(s.key, up, dag, n, spec)
    /\ Sound(t, Pending(r.stack) \cup Fresh(b.nodes, n, spec), up, dag)
    /\ rest \in Seq(Calls) /\ v.stack = CallsAfter(b, rest, n, spec)
    /\ Head(r.stack) \in Pending(r.stack)
    /\ Replaces(Pending(rest), Pending(r.stack), Head(r.stack), call)
    /\ At(t.nodes, n, spec) /\ t.tallies = b.tallies => Excused(t, up, Head(r.stack), call)
    /\ v.phase = "building" /\ v.ancestor = r.ancestor /\ v.again = r.again
    /\ v.todo = r.todo /\ v.edges = r.edges

LEMMA ActivationSearches ==
    ASSUME WellFormed(dag), NEW s, NEW r, NEW up, Searched(s, r, up, dag),
           r.phase = "building", \A e \in dag.edges : Reaching(up, e) \subseteq Specificities,
           NEW b, NEW t, NEW v, NEW n, NEW spec, NEW call, NEW rest,
           Activation(s, b, t, r, v, up, n, spec, call, rest)
    PROVE  Searched(t, v, up, dag) /\ t.above = s.above /\ KeyGoesOn(s, t, up)
<1> USE DEF Activation
<1> DEFINE old == Head(r.stack)
           calls == Pending(r.stack)
           fresh == Fresh(b.nodes, n, spec)
<1>1. Sound(t, calls \cup fresh, up, dag)
  OBVIOUS
<1>2. t.tallies = b.tallies /\ At(t.nodes, n, spec)
  <2>1. t.tallies = b.tallies /\ t.nodes = NodesAfter(b.nodes, n, spec)
    BY ActivatedFields DEF Typed
  <2>2. Ranks(b.nodes) /\ spec \in Specificities
    BY DEF Typed
  <2>3. At(t.nodes, n, spec)
    BY <2>1, <2>2, ActivatedAt
  <2> QED
    BY <2>1, <2>3
<1>3. Pending(v.stack) = Pending(rest) \cup fresh
  BY PendingActivated
<1>4. Replaces(Pending(v.stack), calls \cup fresh, old, call)
  BY <1>3 DEF Replaces
<1>5. Excused(t, up, old, call)
  BY <1>1, <1>2
<1> HIDE DEF fresh
<1>6. Sound(t, Pending(v.stack), up, dag)
  BY <1>1, <1>4, <1>5, CallGoesOn
<1>7. /\ t.parent = s.parent /\ t.above = s.above /\ DOMAIN s.nodes \subseteq DOMAIN t.nodes
      /\ ~t.changed => ~s.changed /\ t.key = s.key
      /\ \A e \in dag.edges : \A q \in Reaching(up, e) :
             Handled(s.key, s.nodes, e, q) => Handled(s.key, t.nodes, e, q)
      /\ Plain(t)
  <2>1. Furthers(b, t, up)
    BY ActivationRounds
  <2> QED
    BY <2>1 DEF Furthers
<1>8. Rounds(s, r, up, dag)
  BY DEF Searched
<1>9. Rounds(t, v, up, dag)
  BY <1>7, <1>8, RoundsGoOn
<1>10. KeyGoesOn(s, t, up)
  <2>1. t.key = AddAll(s.key, ConstraintOf(dag, n)) /\ t.nodes = NodesAfter(s.nodes, n, spec)
    BY ActivatedFields DEF Typed
  <2>2. DOMAIN t.nodes = DOMAIN s.nodes \cup {n}
    BY <2>1 DEF NodesAfter, News, Put
  <2> QED
    BY <2>1, <2>2 DEF KeyGoesOn
<1> QED
  BY <1>6, <1>7, <1>9, <1>10, SearchGoesOn

LEMMA ActivateOrSearches ==
    ASSUME IInv, Underway, NEW c \in Contexts, run[c].phase = "building",
           run[c].stack # <<>>, ActivateOr(c)
    PROVE  /\ Searched(state'[c], run'[c], View(c), dag) /\ state'[c].above = state[c].above
           /\ KeyGoesOn(state[c], state'[c], View(c))
<1> PICK w \in Top(c).ors :
        LET rest == [run[c].stack EXCEPT ![1].ors = @ \ {w}]
        IN  /\ state' = [state EXCEPT ![c] = Activated(@, w.node, Top(c).spec)]
            /\ run' = [run EXCEPT ![c].stack =
                          CallsAfter(state[c], rest, w.node, Top(c).spec)]
  BY DEF ActivateOr
<1> DEFINE call == [Top(c) EXCEPT !.ors = @ \ {w}]
           rest == [run[c].stack EXCEPT ![1] = call]
           s == state[c]
           t == state'[c]
           up == View(c)
           calls == Pending(run[c].stack)
           v == run'[c]
<1>1. rest = [run[c].stack EXCEPT ![1].ors = @ \ {w}] /\ rest \in Seq(Calls)
  <2>1. rest = [run[c].stack EXCEPT ![1].ors = @ \ {w}]
    BY Setting DEF Top
  <2> QED
    BY <2>1, Setting, StackEdited
<1> HIDE DEF rest
<1>2. /\ t = Activated(s, w.node, Top(c).spec)
      /\ v = [run[c] EXCEPT !.stack = CallsAfter(s, rest, w.node, Top(c).spec)]
  BY <1>1, Situation DEF RunOK
<1>3. Top(c) \in calls /\ Top(c) \in Calls
  BY Setting, PendingCalls DEF Top
<1>4. /\ Top(c).spec \in Specificities /\ At(s.nodes, Top(c).node, Top(c).spec)
      /\ w \in TalliesOf(dag, Top(c).node, "or")
  BY <1>3, Setting DEF Calls, Searched, Sound, CallsOK
<1>5. w.node \in NodesOf(dag)
  BY <1>4, Setting DEF TalliesOf, WellFormed
<1>6. /\ call.node = Top(c).node /\ call.spec = Top(c).spec /\ call.ands = Top(c).ands
      /\ call.props = Top(c).props /\ call.ors = Top(c).ors \ {w}
  BY <1>3 DEF Calls
<1> HIDE DEF call
<1>7. Replaces(Pending(rest), calls, Top(c), call)
  <2>1. run[c].stack \in Seq(Calls) /\ Head(run[c].stack) = Top(c)
    BY Setting DEF Top
  <2>2. rest = [run[c].stack EXCEPT ![1] = call]
    BY DEF rest
  <2> HIDE DEF calls
  <2>3. Replaces(Pending(rest), Pending(run[c].stack), Top(c), call)
    BY <1>6, <2>1, <2>2, CallReplaced
  <2> QED
    BY <2>3 DEF calls
<1>8. At(t.nodes, w.node, Top(c).spec) => Excused(t, up, Top(c), call)
  BY <1>6 DEF Excused
<1>9. /\ v.phase = "building" /\ v.ancestor = run[c].ancestor /\ v.again = run[c].again
      /\ v.todo = run[c].todo /\ v.edges = run[c].edges
      /\ v.stack = CallsAfter(s, rest, w.node, Top(c).spec)
  BY <1>2, Situation DEF RunOK
<1>10. Searched(s, run[c], up, dag) /\ Sound(s, calls, up, dag) /\ Plain(s) /\ Typed(s, calls)
  BY Setting DEF Searched
<1> HIDE DEF s, t, up, calls, v
<1>11. Justified(s.key, up, dag, w.node, Top(c).spec)
  BY <1>4, <1>10, Setting, OrJustified
<1> DEFINE r == run[c]
<1>12. /\ WellFormed(dag) /\ r.stack \in Seq(Calls) /\ r.phase = "building"
       /\ \A e \in dag.edges : Reaching(up, e) \subseteq Specificities
       /\ calls = Pending(r.stack)
  BY Setting DEF up, calls
<1> HIDE DEF r
<1>13. Searched(t, v, up, dag) /\ t.above = s.above /\ KeyGoesOn(s, t, up)
  <2>1. Searched(s, r, up, dag)
    BY <1>10 DEF r
  <2>2. /\ v.phase = "building" /\ v.ancestor = r.ancestor /\ v.again = r.again
        /\ v.todo = r.todo /\ v.edges = r.edges
    BY <1>9 DEF r
  <2>3. /\ rest \in Seq(Calls) /\ t = Activated(s, w.node, Top(c).spec)
        /\ v.stack = CallsAfter(s, rest, w.node, Top(c).spec)
    BY <1>1, <1>2, <1>9
  <2>4. Activation(s, s, t, r, v, up, w.node, Top(c).spec, call, rest)
    <3>1. Head(r.stack) = Top(c)
      BY DEF r, Top
    <3>2. Sound(t, calls \cup Fresh(s.nodes, w.node, Top(c).spec), up, dag)
      BY <1>4, <1>5, <1>10, <1>11, <1>12, <2>3, ActivatedSound
    <3> QED
      BY <1>3, <1>4, <1>5, <1>7, <1>8, <1>10, <1>11, <1>12, <2>2, <2>3, <3>1, <3>2 DEF Activation
  <2> QED
    BY <1>12, <2>1, <2>4, ActivationSearches
<1> QED
  BY <1>13 DEF s, t, up, v

\* What the ancestors, which have been searched, hold of a conjunction.
LEMMA HiddenBlank ==
    ASSUME IInv, Underway, NEW c \in Contexts, run[c].phase = "building", NEW t
    PROVE  \A h \in HiddenTally(View(c), t) : Blank(h) /\ h \in TallyStates
<1> SUFFICES ASSUME NEW h \in HiddenTally(View(c), t) PROVE Blank(h) /\ h \in TallyStates
  OBVIOUS
<1>1. PICK a \in Nearest({b \in DOMAIN View(c) : t.node \in DOMAIN View(c)[b].tallies}) :
             h = View(c)[a].tallies[t.node]
  BY DEF HiddenTally
<1>2. /\ a \in state[c].above /\ View(c)[a] = state[a] /\ a \in Contexts
      /\ t.node \in DOMAIN state[a].tallies
  BY <1>1, Setting DEF Nearest
<1>3. Blank(state[a].tallies[t.node]) /\ StateOK(state[a])
  BY <1>2, Setting DEF Underway, TypeOK
<1> QED
  BY <1>1, <1>2, <1>3 DEF StateOK

\* What bounds a leg still does when nodes are activated.
LEMMA LegBoundedStill ==
    ASSUME NEW nodes, Ranks(nodes), NEW n, NEW spec \in Specificities,
           NEW new, new = NodesAfter(nodes, n, spec), NEW up, NEW t,
           NEW tally \in TallyStates, LegBounded(nodes, up, t, tally)
    PROVE  LegBounded(new, up, t, tally)
<1>1. \A m : \A x \in Specificities : At(nodes, m, x) => At(new, m, x)
  BY NodesGrow
<1>2. tally.firstMatch \in Specificities /\ tally.secondMatch \in Specificities
  BY DEF TallyStates
<1> QED
  BY <1>1, <1>2 DEF LegBounded, MatchBounded

\* AndTally::activate that completes a conjunction: its node, and its tally.
LEMMA CompletedSound ==
    ASSUME WellFormed(dag), Regular(dag), NEW s, NEW calls, Typed(s, calls), Plain(s),
           \A call \in calls : call \in Calls,
           NEW up, Sound(s, calls, up, dag), NEW w \in dag.tallies, w.kind = "and",
           HiddenTally(up, w) \subseteq TallyStates,
           NEW new \in TallyStates, LegBounded(s.nodes, up, w, new),
           w.node \in DOMAIN s.tallies => AtLeast(new, s.tallies[w.node]),
           w.first \in DOMAIN s.nodes \/ w.second \in DOMAIN s.nodes,
           new.firstMatched, new.secondMatched,
           NEW spec, spec = Plus(new.firstMatch, new.secondMatch),
           NEW b, StateOK(b), b.nodes = s.nodes, b.key = s.key, b.settings = s.settings,
           b.tallies = Put(s.tallies, w.node, new),
           NEW t, t = Activated(b, w.node, spec)
    PROVE  /\ Sound(t, calls \cup Fresh(s.nodes, w.node, spec), up, dag)
           /\ Justified(s.key, up, dag, w.node, spec)
<1> DEFINE m == Activated(s, w.node, spec)
           all == calls \cup Fresh(s.nodes, w.node, spec)
<1>1. spec \in Specificities /\ w.node \in NodesOf(dag)
  BY HigherBounds DEF TallyStates, WellFormed
<1>2. Justified(s.key, up, dag, w.node, spec)
  BY AndJustified
<1>3. Sound(m, all, up, dag) /\ At(m.nodes, w.node, spec)
  BY <1>1, <1>2, ActivatedSound
<1>4. /\ m.nodes = NodesAfter(s.nodes, w.node, spec) /\ m.tallies = s.tallies
      /\ m.key = AddAll(s.key, ConstraintOf(dag, w.node)) /\ m.settings = s.settings
  BY ActivatedFields DEF Typed
<1>5. /\ t.nodes = NodesAfter(s.nodes, w.node, spec) /\ t.tallies = Put(s.tallies, w.node, new)
      /\ t.key = AddAll(s.key, ConstraintOf(dag, w.node)) /\ t.settings = s.settings
  BY ActivatedFields
<1>6. StateOK(m)
  BY <1>1, ActivationGrows DEF Typed
<1> HIDE DEF m
<1>7. Typed(m, all)
  <2>1. Call(w.node, spec).spec \in Specificities
    BY <1>1 DEF Call
  <2> QED
    BY <1>6, <2>1 DEF Typed, Fresh, StateOK, Ranks
<1> HIDE DEF all
<1>8. LegBounded(m.nodes, up, w, new)
  BY <1>1, <1>4, LegBoundedStill DEF Typed
<1>9. w.first \in DOMAIN m.nodes \/ w.second \in DOMAIN m.nodes
  BY <1>4 DEF NodesAfter, Put
<1>10. Sound(t, all, up, dag)
  BY <1>3, <1>4, <1>5, <1>7, <1>8, <1>9, TallyPut
<1> QED
  BY <1>2, <1>10 DEF all

LEMMA ActivateAndSearches ==
    ASSUME IInv, Underway, NEW c \in Contexts, run[c].phase = "building",
           run[c].stack # <<>>, ActivateAnd(c)
    PROVE  /\ Searched(state'[c], run'[c], View(c), dag) /\ state'[c].above = state[c].above
           /\ KeyGoesOn(state[c], state'[c], View(c))
<1> PICK w \in Top(c).ands :
        LET new  == LegMatched(TallyState(state[c], w), w, Top(c).node, Top(c).spec)
            set  == SetTallyState(c, state[c], w, new)
            spec == Plus(new.firstMatch, new.secondMatch)
            rest == [run[c].stack EXCEPT ![1].ands = @ \ {w}]
        IN  IF new.firstMatched /\ new.secondMatched
            THEN /\ state' = [set EXCEPT ![c] = Activated(@, w.node, spec)]
                 /\ run' = [run EXCEPT ![c].stack =
                               CallsAfter(set[c], rest, w.node, spec)]
            ELSE /\ state' = set
                 /\ run' = [run EXCEPT ![c].stack = rest]
  BY DEF ActivateAnd
<1> DEFINE call == [Top(c) EXCEPT !.ands = @ \ {w}]
           rest == [run[c].stack EXCEPT ![1] = call]
           s == state[c]
           t == state'[c]
           up == View(c)
           r == run[c]
           v == run'[c]
           calls == Pending(r.stack)
           new == LegMatched(TallyState(s, w), w, Top(c).node, Top(c).spec)
           spec == Plus(new.firstMatch, new.secondMatch)
           b == [s EXCEPT !.tallies = Put(@, w.node, new)]
<1>1. rest = [run[c].stack EXCEPT ![1].ands = @ \ {w}] /\ rest \in Seq(Calls)
  <2>1. rest = [run[c].stack EXCEPT ![1].ands = @ \ {w}]
    BY Setting DEF Top
  <2> QED
    BY <2>1, Setting, StackEdited
<1> HIDE DEF rest
<1>2. IF new.firstMatched /\ new.secondMatched
      THEN t = Activated(b, w.node, spec) /\ v = [r EXCEPT !.stack = CallsAfter(b, rest, w.node, spec)]
      ELSE t = b /\ v = [r EXCEPT !.stack = rest]
  <2> HIDE DEF new, spec
  <2>1. SetTallyState(c, s, w, new) = [state EXCEPT ![c] = b] /\ SetTallyState(c, s, w, new)[c] = b
    BY Situation DEF SetTallyState
  <2> HIDE DEF b
  <2> QED
    BY <1>1, <2>1, Situation DEF RunOK, new, spec
<1>3. Top(c) \in calls /\ Top(c) \in Calls
  BY Setting, PendingCalls DEF Top
<1>4. /\ Top(c).spec \in Specificities /\ At(s.nodes, Top(c).node, Top(c).spec)
      /\ w \in TalliesOf(dag, Top(c).node, "and")
  BY <1>3, Setting DEF Calls, Searched, Sound, CallsOK
<1>5. /\ w \in dag.tallies /\ w.kind = "and" /\ w.node \in NodesOf(dag)
      /\ w.first \in DOMAIN s.nodes \/ w.second \in DOMAIN s.nodes
  BY <1>4, Setting, RegisteredLeg DEF WellFormed, At
<1>6. /\ call.node = Top(c).node /\ call.spec = Top(c).spec /\ call.ors = Top(c).ors
      /\ call.props = Top(c).props /\ call.ands = Top(c).ands \ {w}
  BY <1>3 DEF Calls
<1> HIDE DEF call, calls
<1>7. Replaces(Pending(rest), calls, Top(c), call)
  <2>1. run[c].stack \in Seq(Calls) /\ Head(run[c].stack) = Top(c)
    BY Setting DEF Top
  <2>2. rest = [run[c].stack EXCEPT ![1] = call]
    BY DEF rest
  <2>3. Replaces(Pending(rest), Pending(run[c].stack), Top(c), call)
    BY <1>6, <2>1, <2>2, CallReplaced
  <2> QED
    BY <2>3 DEF calls
<1>8. /\ Searched(s, r, up, dag) /\ Sound(s, calls, up, dag) /\ Plain(s) /\ Typed(s, calls)
      /\ up = Above(s) /\ s.above \subseteq Contexts /\ StateOK(s)
      /\ WellFormed(dag) /\ Regular(dag) /\ TypeOK
      /\ \A e \in dag.edges : Reaching(up, e) \subseteq Specificities
  BY Setting, Situation DEF Searched, calls
<1>9. \A h \in HiddenTally(up, w) : Blank(h) /\ h \in TallyStates
  BY HiddenBlank
<1>10. calls \subseteq Calls /\ r.stack \in Seq(Calls) /\ r.phase = "building"
       /\ Head(r.stack) = Top(c) /\ calls = Pending(r.stack)
  BY Setting, PendingCalls DEF Top, calls
<1>11. \A stack : LET q == [r EXCEPT !.stack = stack]
                  IN  /\ q.phase = r.phase /\ q.ancestor = r.ancestor /\ q.again = r.again
                      /\ q.todo = r.todo /\ q.edges = r.edges /\ q.stack = stack
  BY Situation DEF RunOK
<1> HIDE DEF s, t, up, r, v
<1>12. /\ new \in TallyStates /\ LegBounded(s.nodes, up, w, new)
       /\ w.node \in DOMAIN s.tallies => AtLeast(new, s.tallies[w.node])
       /\ LegDone(new, w, Top(c).node, Top(c).spec)
  <2>1. TallyState(s, w) \in TallyStates /\ LegBounded(s.nodes, up, w, TallyState(s, w))
    BY <1>5, <1>8, <1>9, TallyStateBounded
  <2>2. Ranks(s.nodes)
    BY <1>8 DEF Typed
  <2>3. /\ new \in TallyStates /\ AtLeast(new, TallyState(s, w))
        /\ LegBounded(s.nodes, up, w, new) /\ LegDone(new, w, Top(c).node, Top(c).spec)
    BY <1>4, <2>1, <2>2, LegMatchedBounded
  <2> HIDE DEF new
  <2> QED
    BY <2>3 DEF TallyState
<1> HIDE DEF new
<1>13. /\ b.parent = s.parent /\ b.above = s.above /\ b.key = s.key /\ b.nodes = s.nodes
       /\ b.settings = s.settings /\ b.changed = s.changed
       /\ b.tallies = Put(s.tallies, w.node, new) /\ StateOK(b) /\ Plain(b)
  <2>1. /\ DOMAIN b = DOMAIN s /\ b = [x \in DOMAIN b |-> b[x]]
        /\ b.parent = s.parent /\ b.above = s.above /\ b.key = s.key /\ b.nodes = s.nodes
        /\ b.settings = s.settings /\ b.changed = s.changed
        /\ b.tallies = Put(s.tallies, w.node, new)
    BY <1>8 DEF StateOK
  <2> HIDE DEF b
  <2>2. StateOK(b)
    BY <1>5, <1>8, <1>12, <2>1 DEF StateOK, Put
  <2>3. b.tallies = [x \in DOMAIN b.tallies |-> b.tallies[x]]
    BY <2>1 DEF Put
  <2>4. b = [parent |-> b.parent, above |-> b.above, key |-> b.key, nodes |-> b.nodes,
             tallies |-> b.tallies, settings |-> b.settings, changed |-> b.changed]
    BY <2>1, <2>2 DEF StateOK
  <2> QED
    BY <1>8, <2>1, <2>2, <2>3, <2>4 DEF Plain
<1>14. b.tallies[w.node] = new /\ w.node \in DOMAIN b.tallies /\ Typed(b, calls)
  BY <1>8, <1>13 DEF Put, Typed
<1> HIDE DEF b, spec
<1>15. ASSUME NEW x, x.tallies = b.tallies
       PROVE  Excused(x, up, Top(c), call)
  BY <1>6, <1>12, <1>14, <1>15 DEF Excused
<1>16. CASE new.firstMatched /\ new.secondMatched
  <2>1. /\ t = Activated(b, w.node, spec)
        /\ v = [r EXCEPT !.stack = CallsAfter(b, rest, w.node, spec)]
    BY <1>2, <1>16
  <2>2. spec = Plus(new.firstMatch, new.secondMatch) /\ spec \in Specificities
    BY <1>12, HigherBounds DEF TallyStates, spec
  <2>3. /\ Sound(t, calls \cup Fresh(b.nodes, w.node, spec), up, dag)
        /\ Justified(s.key, up, dag, w.node, spec)
    <3>1. HiddenTally(up, w) \subseteq TallyStates /\ \A x \in calls : x \in Calls
      BY <1>9, <1>10
    <3>2. /\ Sound(t, calls \cup Fresh(s.nodes, w.node, spec), up, dag)
          /\ Justified(s.key, up, dag, w.node, spec)
      BY <1>5, <1>8, <1>12, <1>13, <1>16, <2>1, <2>2, <3>1, CompletedSound
    <3> QED
      BY <1>13, <3>2
  <2>4. Activation(s, b, t, r, v, up, w.node, spec, call, rest)
    BY <1>1, <1>3, <1>5, <1>7, <1>10, <1>11, <1>13, <1>14, <1>15, <2>1, <2>2, <2>3 DEF Activation
  <2>5. Searched(t, v, up, dag) /\ t.above = s.above /\ KeyGoesOn(s, t, up)
    BY <1>8, <1>10, <2>4, ActivationSearches
  <2> QED
    BY <2>5 DEF s, t, up, v
<1>17. CASE ~(new.firstMatched /\ new.secondMatched)
  <2>1. t = b /\ v = [r EXCEPT !.stack = rest]
    BY <1>2, <1>17
  <2>2. Sound(t, calls, up, dag)
    BY <1>5, <1>8, <1>12, <1>13, <1>17, <2>1, TallyPut
  <2>3. Sound(t, Pending(rest), up, dag)
    BY <1>3, <1>7, <1>15, <2>1, <2>2, CallGoesOn
  <2>4. /\ v.phase = "building" /\ v.ancestor = r.ancestor /\ v.again = r.again
        /\ v.todo = r.todo /\ v.edges = r.edges /\ v.stack = rest
    BY <1>10, <1>11, <2>1
  <2>5. Rounds(t, v, up, dag)
    <3>1. Rounds(s, r, up, dag)
      BY <1>8 DEF Searched
    <3> QED
      BY <1>10, <1>13, <2>1, <2>4, <3>1, RoundsGoOn
  <2>6. Searched(t, v, up, dag)
    BY <1>8, <1>10, <1>13, <2>1, <2>3, <2>4, <2>5, SearchGoesOn
  <2>7. KeyGoesOn(s, t, up)
    BY <1>13, <2>1 DEF KeyGoesOn
  <2> QED
    BY <1>13, <2>1, <2>6, <2>7 DEF s, t, up, v
<1> QED
  BY <1>16, <1>17

LEMMA ReturnSearches ==
    ASSUME IInv, Underway, NEW c \in Contexts, run[c].phase = "building",
           run[c].stack # <<>>, Return(c)
    PROVE  /\ Searched(state'[c], run'[c], View(c), dag) /\ state'[c].above = state[c].above
           /\ KeyGoesOn(state[c], state'[c], View(c))
<1> DEFINE s == state[c]
           up == View(c)
           r == run[c]
           v == run'[c]
           rest == Tail(r.stack)
<1>1. state'[c] = s /\ v = [r EXCEPT !.stack = rest]
  BY Situation DEF Return
<1>2. /\ v.phase = "building" /\ v.ancestor = r.ancestor /\ v.again = r.again
      /\ v.todo = r.todo /\ v.edges = r.edges /\ v.stack = rest
  BY <1>1, Situation DEF RunOK
<1>3. Searched(s, r, up, dag) /\ r.stack \in Seq(Calls)
  BY Setting
<1>4. Top(c).props = {} /\ Top(c).ands = {} /\ Top(c).ors = {} /\ Top(c) = Head(r.stack)
  BY DEF Return, Top
<1> HIDE DEF s, up, r, v
<1>5. Sound(s, Pending(rest), up, dag)
  <2>1. /\ Head(r.stack) \in Pending(r.stack) /\ Pending(rest) \subseteq Pending(r.stack)
        /\ Pending(r.stack) \ {Head(r.stack)} \subseteq Pending(rest)
    BY <1>3, PendingCalls DEF r
  <2> HIDE DEF rest
  <2> QED
    BY <1>3, <1>4, <2>1, CallReturns DEF Searched
<1>6. Rounds(s, v, up, dag) /\ Plain(s)
  <2>1. Rounds(s, r, up, dag) /\ Plain(s) /\ r.phase = "building"
    BY <1>3 DEF Searched, r
  <2> QED
    BY <1>2, <2>1, RoundsGoOn
<1>7. Searched(s, v, up, dag)
  BY <1>2, <1>3, <1>5, <1>6, SearchGoesOn DEF r
<1>8. KeyGoesOn(s, s, up)
  BY DEF KeyGoesOn
<1> QED
  BY <1>1, <1>7, <1>8 DEF s, v, up

\* The loops leave the state alone but for the flag, and activate on their own.
LEMMA LoopSearches ==
    ASSUME NEW s, NEW r, NEW up, Searched(s, r, up, dag), StateOK(s),
           r.phase = "building", NEW t, t = s \/ t = [s EXCEPT !.changed = FALSE],
           NEW v, v.stack = r.stack, Rounds(t, v, up, dag)
    PROVE  Searched(t, v, up, dag) /\ t.above = s.above /\ KeyGoesOn(s, t, up)
<1>1. /\ t.parent = s.parent /\ t.above = s.above /\ t.key = s.key /\ t.nodes = s.nodes
      /\ t.tallies = s.tallies /\ t.settings = s.settings
  BY DEF StateOK
<1>2. Plain(t)
  <2>1. CASE t = s
    BY <2>1 DEF Searched
  <2>2. CASE t = [s EXCEPT !.changed = FALSE]
    <3>1. t = [parent |-> t.parent, above |-> t.above, key |-> t.key, nodes |-> t.nodes,
               tallies |-> t.tallies, settings |-> t.settings, changed |-> t.changed]
      BY <2>2 DEF StateOK
    <3> QED
      BY <1>1, <3>1 DEF Searched, Plain
  <2> QED
    BY <2>1, <2>2
<1>3. Sound(t, Pending(v.stack), up, dag)
  BY <1>1 DEF Searched, Sound
<1>4. Searched(t, v, up, dag)
  BY <1>1, <1>2, <1>3, SearchGoesOn
<1>5. KeyGoesOn(s, t, up)
  BY <1>1 DEF KeyGoesOn
<1> QED
  BY <1>1, <1>4, <1>5

LEMMA NextNodeSearches ==
    ASSUME IInv, Underway, NEW c \in Contexts, run[c].phase = "building", NextNode(c)
    PROVE  /\ Searched(state'[c], run'[c], View(c), dag) /\ state'[c].above = state[c].above
           /\ KeyGoesOn(state[c], state'[c], View(c))
<1> DEFINE s == state[c]
           up == View(c)
           r == run[c]
           v == run'[c]
           a == r.ancestor
<1> PICK n \in r.todo :
        run' = [run EXCEPT ![c].todo = @ \ {n},
                           ![c].edges = {<<e, state[a].nodes[n]>> : e \in EdgesFrom(dag, n)}]
  BY DEF NextNode
<1> DEFINE edges == {<<e, up[a].nodes[n]>> : e \in EdgesFrom(dag, n)}
<1>1. a # None /\ a \in Built /\ n \in DOMAIN state[a].nodes
  BY DEF IInv, LineageOK
<1>2. Searched(s, r, up, dag) /\ StateOK(s) /\ DOMAIN up = s.above
  BY Setting, Situation
<1>3. Rounds(s, r, up, dag) /\ r.phase = "building"
  BY <1>2 DEF Searched
<1>4. s.parent # None
  BY <1>3 DEF Rounds
<1>5. a \in DOMAIN up /\ ChildRound(s, r, up, dag)
  BY <1>3, <1>4 DEF Rounds
<1>6. up[a] = state[a]
  BY <1>2, <1>5, Setting
<1>7. state'[c] = s /\ v = [r EXCEPT !.todo = @ \ {n}, !.edges = edges]
  <2>1. edges = {<<e, state[a].nodes[n]>> : e \in EdgesFrom(dag, n)}
    BY <1>6
  <2> HIDE DEF edges
  <2> QED
    BY <2>1, Situation DEF NextNode, RunOK
<1>8. /\ v.phase = "building" /\ v.ancestor = a /\ v.again = r.again
      /\ v.todo = r.todo \ {n} /\ v.edges = edges /\ v.stack = r.stack /\ r.edges = {}
  BY <1>7, Situation DEF RunOK, NextNode
<1>9. EdgesReaching(v.edges, up, dag)
  <2>1. ASSUME NEW es \in edges
        PROVE  es[1] \in dag.edges /\ es[2] \in Reaching(up, es[1])
    <3>1. PICK e \in EdgesFrom(dag, n) : es = <<e, up[a].nodes[n]>>
      OBVIOUS
    <3>2. e \in dag.edges /\ e.parent = n /\ es[1] = e /\ es[2] = up[a].nodes[n]
      BY <3>1 DEF EdgesFrom
    <3> HIDE DEF up
    <3> QED
      BY <1>1, <1>5, <1>6, <3>2 DEF Reaching
  <2> HIDE DEF edges
  <2> QED
    BY <1>8, <2>1 DEF EdgesReaching
<1>10. ChildRound(s, v, up, dag)
  <2> SUFFICES ASSUME ~s.changed, ~v.again, NEW e \in dag.edges
               PROVE  /\ \A b \in Passed(v, up) : e.parent \in DOMAIN up[b].nodes =>
                              Handled(s.key, s.nodes, e, up[b].nodes[e.parent])
                      /\ e.parent \in DOMAIN up[v.ancestor].nodes \ v.todo =>
                              \/ Handled(s.key, s.nodes, e, up[v.ancestor].nodes[e.parent])
                              \/ <<e, up[v.ancestor].nodes[e.parent]>> \in v.edges
    BY DEF ChildRound
  <2>1. Passed(v, up) = Passed(r, up)
    BY <1>8 DEF Passed
  <2>2. /\ \A b \in Passed(r, up) : e.parent \in DOMAIN up[b].nodes =>
              Handled(s.key, s.nodes, e, up[b].nodes[e.parent])
        /\ e.parent \in DOMAIN up[a].nodes \ r.todo =>
              Handled(s.key, s.nodes, e, up[a].nodes[e.parent])
    BY <1>5, <1>8 DEF ChildRound
  <2>3. e.parent = n => <<e, up[a].nodes[e.parent]>> \in edges
    BY DEF EdgesFrom
  <2> HIDE DEF edges, v, r, s, up, a
  <2> QED
    BY <1>8, <2>1, <2>2, <2>3
<1>11. Rounds(s, v, up, dag)
  BY <1>4, <1>5, <1>8, <1>9, <1>10 DEF Rounds
<1> HIDE DEF s, r, v, up
<1>12. Searched(s, v, up, dag) /\ KeyGoesOn(s, s, up)
  BY <1>2, <1>3, <1>8, <1>11, LoopSearches
<1> QED
  BY <1>7, <1>12 DEF s, v, up

LEMMA NextChildSearches ==
    ASSUME IInv, Underway, NEW c \in Contexts, run[c].phase = "building", NextChild(c)
    PROVE  /\ Searched(state'[c], run'[c], View(c), dag) /\ state'[c].above = state[c].above
           /\ KeyGoesOn(state[c], state'[c], View(c))
<1> PICK es \in run[c].edges :
        LET n    == es[1].child
            spec == Plus(es[2], KeySpecificity(es[1].key))
        IN  IF Matches(es[1].key, state[c].key)
            THEN /\ state' = [state EXCEPT ![c] = Activated(@, n, spec)]
                 /\ run' = [run EXCEPT ![c].edges = @ \ {es},
                                       ![c].stack = CallsAfter(state[c], @, n, spec)]
            ELSE /\ run' = [run EXCEPT ![c].edges = @ \ {es}]
                 /\ UNCHANGED state
  BY DEF NextChild
<1> DEFINE n == es[1].child
           spec == Plus(es[2], KeySpecificity(es[1].key))
           s == state[c]
           t == state'[c]
           up == View(c)
           r == run[c]
           v == run'[c]
           calls == Pending(r.stack)
           hit == Matches(es[1].key, s.key)
<1>1. /\ hit => /\ t = Activated(s, n, spec)
                /\ v = [r EXCEPT !.edges = @ \ {es}, !.stack = CallsAfter(s, @, n, spec)]
      /\ ~hit => t = s /\ v = [r EXCEPT !.edges = @ \ {es}]
  <2> HIDE DEF n, spec
  <2> QED
    BY Situation DEF n, spec
<1>2. /\ WellFormed(dag) /\ Typed(s, calls) /\ r.stack \in Seq(Calls) /\ r.phase = "building"
      /\ \A e \in dag.edges : Reaching(up, e) \subseteq Specificities
      /\ Searched(s, r, up, dag) /\ StateOK(s) /\ es \in r.edges
  BY Setting, Situation
<1>3. /\ v.phase = "building" /\ v.ancestor = r.ancestor /\ v.again = r.again
      /\ v.todo = r.todo /\ v.edges = r.edges \ {es}
      /\ v.stack = IF hit THEN CallsAfter(s, r.stack, n, spec) ELSE r.stack
  <2> HIDE DEF n, spec, hit
  <2> QED
    BY <1>1, Situation DEF RunOK
<1> HIDE DEF s, t, up, r, v, calls
<1>4. /\ Rounds(s, r, up, dag) /\ Sound(s, calls, up, dag) /\ Plain(s)
      /\ es[1] \in dag.edges /\ es[2] \in Reaching(up, es[1])
  BY <1>2 DEF Searched, calls, Rounds, EdgesReaching
<1>5. n \in NodesOf(dag) /\ spec \in Specificities
  <2>1. es[2] \in Specificities /\ es[1].key \in Keys /\ es[1].child \in NodesOf(dag)
    BY <1>2, <1>4 DEF WellFormed, Edges
  <2> QED
    BY <2>1, KeysCount, HigherBounds
<1>6. CASE hit
  <2>1. Justified(s.key, up, dag, n, spec)
    BY <1>4, <1>6, EdgeJustified
  <2> HIDE DEF n, spec
  <2>2. t = Activated(s, n, spec)
    BY <1>1, <1>6
  <2>3. Sound(t, calls \cup Fresh(s.nodes, n, spec), up, dag) /\ At(t.nodes, n, spec)
    BY <1>2, <1>4, <1>5, <2>1, <2>2, ActivatedSound
  <2>4. Pending(v.stack) = calls \cup Fresh(s.nodes, n, spec)
    BY <1>2, <1>3, <1>5, <1>6, PendingActivated DEF calls
  <2>5. /\ t.parent = s.parent /\ t.above = s.above /\ DOMAIN s.nodes \subseteq DOMAIN t.nodes
        /\ ~t.changed => ~s.changed /\ t.key = s.key
        /\ \A e \in dag.edges : \A q \in Reaching(up, e) :
               Handled(s.key, s.nodes, e, q) => Handled(s.key, t.nodes, e, q)
        /\ Plain(t)
    <3>1. Furthers(s, t, up)
      BY <1>2, <1>5, <2>2, ActivationRounds
    <3> QED
      BY <1>4, <3>1 DEF Furthers
  <2>6. Handled(s.key, t.nodes, es[1], es[2])
    BY <2>3 DEF Handled, n, spec
  <2>7. Rounds(t, v, up, dag)
    BY <1>2, <1>3, <1>4, <2>5, <2>6, RoundsGoOn
  <2>8. Searched(t, v, up, dag)
    BY <1>2, <2>3, <2>4, <2>5, <2>7, SearchGoesOn
  <2>9. KeyGoesOn(s, t, up)
    <3>1. /\ t.key = AddAll(s.key, ConstraintOf(dag, n))
          /\ t.nodes = NodesAfter(s.nodes, n, spec)
      BY <1>2, <2>2, ActivatedFields
    <3>2. DOMAIN t.nodes = DOMAIN s.nodes \cup {n}
      BY <3>1 DEF NodesAfter, News, Put
    <3> QED
      BY <1>5, <2>1, <3>1, <3>2 DEF KeyGoesOn
  <2> QED
    BY <2>5, <2>8, <2>9 DEF s, t, up, v
<1>7. CASE ~hit
  <2>1. t = s /\ v.stack = r.stack
    BY <1>1, <1>3, <1>7
  <2>2. Handled(s.key, s.nodes, es[1], es[2])
    BY <1>7 DEF Handled
  <2>3. Rounds(s, v, up, dag)
    BY <1>2, <1>3, <1>4, <2>2, RoundsGoOn
  <2>4. Searched(s, v, up, dag) /\ KeyGoesOn(s, s, up)
    BY <1>2, <2>1, <2>3, LoopSearches
  <2> QED
    BY <2>1, <2>4 DEF s, t, up, v
<1> QED
  BY <1>6, <1>7

\* The flag is reset, and a round begins anew.
LEMMA FlagDown ==
    ASSUME NEW s, StateOK(s), NEW t, t = [s EXCEPT !.changed = FALSE]
    PROVE  /\ t.parent = s.parent /\ t.above = s.above /\ t.key = s.key /\ t.nodes = s.nodes
           /\ t.changed = FALSE
BY DEF StateOK

LEMMA NextRootRoundSearches ==
    ASSUME IInv, Underway, NEW c \in Contexts, run[c].phase = "building",
           run[c].stack = <<>>, NextRootRound(c)
    PROVE  /\ Searched(state'[c], run'[c], View(c), dag) /\ state'[c].above = state[c].above
           /\ KeyGoesOn(state[c], state'[c], View(c))
<1> DEFINE s == state[c]
           t == state'[c]
           up == View(c)
           r == run[c]
           v == run'[c]
           edges == {<<e, Spec0>> : e \in EdgesFrom(dag, Root)}
<1>1. /\ s.changed => t = [s EXCEPT !.changed = FALSE] /\ v = [r EXCEPT !.edges = edges]
      /\ ~s.changed => t = s /\ v = Finished
      /\ s.parent = None /\ r.edges = {} /\ r.stack = <<>> /\ r.phase = "building"
  <2> HIDE DEF edges
  <2> QED
    BY Situation DEF NextRootRound, Exhausted, edges
<1>2. Searched(s, r, up, dag) /\ StateOK(s) /\ s.changed \in BOOLEAN /\ DOMAIN up = s.above
  BY Setting, Situation DEF StateOK
<1>3. [r EXCEPT !.edges = edges] = [x \in DOMAIN r |-> IF x = "edges" THEN edges ELSE r[x]]
      /\ DOMAIN r = {"phase", "ancestor", "again", "todo", "edges", "stack"}
  BY Situation DEF RunOK
<1> HIDE DEF s, t, up, r, v
<1>4. s.above = {} /\ r.todo = {} /\ RootRound(s, r, up, dag)
  BY <1>1, <1>2 DEF Searched, Lineage, Rounds
<1>5. CASE s.changed
  <2>1. /\ t = [s EXCEPT !.changed = FALSE] /\ v.phase = "building" /\ v.edges = edges
        /\ v.stack = r.stack /\ v.todo = {} /\ t.parent = None /\ t.key = s.key
    BY <1>1, <1>2, <1>3, <1>4, <1>5, FlagDown
  <2>2. EdgesReaching(edges, up, dag)
    <3> SUFFICES ASSUME NEW es \in edges
                 PROVE  es[1] \in dag.edges /\ es[2] \in Reaching(up, es[1])
      BY DEF EdgesReaching
    <3>1. PICK e \in EdgesFrom(dag, Root) : es = <<e, Spec0>>
      OBVIOUS
    <3>2. e \in dag.edges /\ e.parent = Root /\ es[1] = e /\ es[2] = Spec0
      BY <3>1 DEF EdgesFrom
    <3> QED
      BY <1>2, <1>4, <3>2 DEF Reaching
  <2>3. ASSUME NEW e \in dag.edges, NEW q \in Reaching(up, e)
        PROVE  <<e, q>> \in edges
    <3>1. e.parent = Root /\ q = Spec0
      BY <1>2, <1>4, <2>3 DEF Reaching
    <3> QED
      BY <3>1 DEF EdgesFrom
  <2> HIDE DEF edges
  <2>4. Rounds(t, v, up, dag)
    BY <2>1, <2>2, <2>3 DEF Rounds, RootRound
  <2>5. Searched(t, v, up, dag) /\ t.above = s.above /\ KeyGoesOn(s, t, up)
    BY <1>1, <1>2, <2>1, <2>4, LoopSearches
  <2> QED
    BY <2>5 DEF s, t, up, v
<1>6. CASE ~s.changed
  <2>1. t = s /\ v = Finished /\ v.stack = r.stack /\ v.phase = "built" /\ v.edges = {}
    BY <1>1, <1>6 DEF Finished, Idle
  <2>2. AllHandled(s.key, s.nodes, up, dag)
    BY <1>1, <1>4, <1>6 DEF RootRound, AllHandled
  <2>3. Rounds(t, v, up, dag)
    BY <1>2, <1>6, <2>1, <2>2 DEF Rounds, EdgesReaching
  <2>4. Searched(t, v, up, dag) /\ KeyGoesOn(s, t, up)
    BY <1>1, <1>2, <2>1, <2>3, LoopSearches
  <2> QED
    BY <2>1, <2>4 DEF s, t, up, v
<1> QED
  BY <1>5, <1>6

\* What is above an ancestor is above the context.
LEMMA AncestorLineage ==
    ASSUME IInv, Underway, NEW c \in Contexts, run[c].phase = "building",
           NEW a \in DOMAIN View(c), NEW up, up = View(c)
    PROVE  IF up[a].parent = None THEN up[a].above = {}
           ELSE /\ up[a].parent \in DOMAIN up
                /\ up[a].above = {up[a].parent} \cup up[up[a].parent].above
<1>1. a \in Contexts /\ up[a] = state[a] /\ DOMAIN up = state[c].above
  BY Setting
<1>2. Lineage(state[a], View(a)) /\ \A b \in DOMAIN View(a) : View(a)[b] = state[b]
  BY <1>1 DEF Underway, View
<1>3. up[a].above \subseteq DOMAIN up
  BY <1>1, Setting DEF Searched, Lineage
<1>4. \A b \in DOMAIN up : up[b] = state[b]
  BY <1>1, Setting
<1> QED
  BY <1>1, <1>2, <1>3, <1>4 DEF Lineage

LEMMA NextAncestorSearches ==
    ASSUME IInv, Underway, NEW c \in Contexts, run[c].phase = "building",
           NextAncestor(c)
    PROVE  /\ Searched(state'[c], run'[c], View(c), dag) /\ state'[c].above = state[c].above
           /\ KeyGoesOn(state[c], state'[c], View(c))
<1> DEFINE s == state[c]
           t == state'[c]
           up == View(c)
           r == run[c]
           v == run'[c]
           a == r.ancestor
           p == state[a].parent
<1>1. /\ t = [s EXCEPT !.changed = FALSE]
      /\ v = [r EXCEPT !.ancestor = p, !.again = @ \/ s.changed,
                       !.todo = DOMAIN state[p].nodes]
      /\ s.parent # None /\ p # None /\ r.edges = {} /\ r.todo = {}
  BY Situation DEF NextAncestor, Exhausted
<1>2. /\ v.phase = "building" /\ v.ancestor = p /\ v.again = (r.again \/ s.changed)
      /\ v.todo = DOMAIN state[p].nodes /\ v.edges = {} /\ v.stack = r.stack
  BY <1>1, Situation DEF RunOK
<1>3. Searched(s, r, up, dag) /\ StateOK(s) /\ s.changed \in BOOLEAN /\ r.phase = "building"
  BY Setting, Situation DEF StateOK
<1>4. a \in DOMAIN up /\ ChildRound(s, r, up, dag)
  BY <1>1, <1>3 DEF Searched, Rounds
<1>5. up[a] = state[a] /\ p \in DOMAIN up /\ up[p] = state[p] /\ up[a].above = {p} \cup up[p].above
  <2>1. \A b \in DOMAIN up : up[b] = state[b]
    BY Setting
  <2> QED
    BY <1>1, <1>4, <2>1, AncestorLineage
<1> HIDE DEF s, t, up, r, v, a, p
<1>6. t.parent = s.parent /\ t.key = s.key /\ t.nodes = s.nodes /\ t.changed = FALSE
  BY <1>1, <1>3, FlagDown
<1>7. Passed(v, up) \subseteq Passed(r, up) \cup {a}
  BY <1>2, <1>5 DEF Passed, a
<1>8. ChildRound(t, v, up, dag)
  <2> SUFFICES ASSUME ~v.again, NEW e \in dag.edges
               PROVE  \A b \in Passed(v, up) : e.parent \in DOMAIN up[b].nodes =>
                          Handled(s.key, s.nodes, e, up[b].nodes[e.parent])
    BY <1>2, <1>5, <1>6 DEF ChildRound
  <2>1. ~s.changed /\ ~r.again
    BY <1>2
  <2>2. /\ \A b \in Passed(r, up) : e.parent \in DOMAIN up[b].nodes =>
              Handled(s.key, s.nodes, e, up[b].nodes[e.parent])
        /\ e.parent \in DOMAIN up[a].nodes =>
              Handled(s.key, s.nodes, e, up[a].nodes[e.parent])
    BY <1>1, <1>4, <2>1 DEF ChildRound, a
  <2> QED
    BY <1>7, <2>2
<1>9. Rounds(t, v, up, dag)
  BY <1>1, <1>2, <1>5, <1>6, <1>8 DEF Rounds, EdgesReaching
<1>10. Searched(t, v, up, dag) /\ t.above = s.above /\ KeyGoesOn(s, t, up)
  <2>1. t = [s EXCEPT !.changed = FALSE] /\ v.stack = r.stack
    BY <1>1, <1>2
  <2> QED
    BY ONLY <1>3, <1>9, <2>1, LoopSearches
<1> QED
  BY <1>10 DEF s, t, up, v

LEMMA EndRoundSearches ==
    ASSUME IInv, Underway, NEW c \in Contexts, run[c].phase = "building",
           run[c].stack = <<>>, EndRound(c)
    PROVE  /\ Searched(state'[c], run'[c], View(c), dag) /\ state'[c].above = state[c].above
           /\ KeyGoesOn(state[c], state'[c], View(c))
<1> DEFINE s == state[c]
           t == state'[c]
           up == View(c)
           r == run[c]
           v == run'[c]
           a == r.ancestor
           p == s.parent
<1>1. /\ IF r.again \/ s.changed
         THEN /\ t = [s EXCEPT !.changed = FALSE]
              /\ v = [r EXCEPT !.ancestor = p, !.again = FALSE, !.todo = DOMAIN state[p].nodes]
         ELSE t = s /\ v = Finished
      /\ p # None /\ state[a].parent = None /\ r.edges = {} /\ r.todo = {} /\ r.stack = <<>>
  BY Situation DEF EndRound, Exhausted
<1>2. Searched(s, r, up, dag) /\ StateOK(s) /\ s.changed \in BOOLEAN /\ r.phase = "building"
  BY Setting, Situation DEF StateOK
<1>3. /\ a \in DOMAIN up /\ ChildRound(s, r, up, dag) /\ Lineage(s, up) /\ DOMAIN up = s.above
      /\ \A b \in DOMAIN up : up[b] = state[b]
  BY <1>1, <1>2, Setting DEF Searched, Rounds
<1>4. up[a].above = {}
  BY <1>1, <1>3, AncestorLineage
<1>5. p \in DOMAIN up /\ s.above = {p} \cup up[p].above /\ up[p] = state[p]
  BY <1>1, <1>3 DEF Lineage
<1>6. CASE r.again \/ s.changed
  <2>1. /\ t = [s EXCEPT !.changed = FALSE]
        /\ v.phase = "building" /\ v.ancestor = p /\ v.again = FALSE
        /\ v.todo = DOMAIN state[p].nodes /\ v.edges = {} /\ v.stack = r.stack
    BY <1>1, <1>6, Situation DEF RunOK
  <2> HIDE DEF s, t, up, r, v, p
  <2>2. t.parent = p
    BY <1>2, <2>1, FlagDown DEF p
  <2>3. Passed(v, up) = {}
    BY <1>3, <1>5, <2>1 DEF Passed
  <2>4. ChildRound(t, v, up, dag)
    BY <1>5, <2>1, <2>3 DEF ChildRound
  <2>5. Rounds(t, v, up, dag)
    BY <1>1, <1>5, <2>1, <2>2, <2>4 DEF Rounds, EdgesReaching
  <2>6. Searched(t, v, up, dag) /\ t.above = s.above /\ KeyGoesOn(s, t, up)
    BY <1>2, <2>1, <2>5, LoopSearches
  <2> QED
    BY <2>6 DEF s, t, up, v
<1>7. CASE ~(r.again \/ s.changed)
  <2>1. t = s /\ v = Finished /\ v.stack = r.stack /\ v.phase = "built" /\ v.edges = {}
        /\ ~s.changed /\ ~r.again
    BY <1>1, <1>7 DEF Finished, Idle
  <2> HIDE DEF s, t, up, r, v, p, a
  <2>2. ASSUME NEW e \in dag.edges, NEW q \in Reaching(up, e)
        PROVE  Handled(s.key, s.nodes, e, q)
    <3>1. PICK b \in DOMAIN up : e.parent \in DOMAIN up[b].nodes /\ q = up[b].nodes[e.parent]
      BY <1>3 DEF Reaching
    <3>2. CASE b = a
      BY <1>1, <1>3, <2>1, <3>1, <3>2 DEF ChildRound, a
    <3>3. CASE b # a
      <4>1. b \in Passed(r, up)
        BY <1>4, <3>3 DEF Passed, a
      <4> QED
        BY <1>3, <2>1, <3>1, <4>1 DEF ChildRound
    <3> QED
      BY <3>2, <3>3
  <2>3. Rounds(t, v, up, dag)
    BY <1>2, <2>1, <2>2 DEF Rounds, EdgesReaching, AllHandled
  <2>4. Searched(t, v, up, dag) /\ KeyGoesOn(s, t, up)
    BY <1>2, <2>1, <2>3, LoopSearches
  <2> QED
    BY <2>1, <2>4 DEF s, t, up, v
<1> QED
  BY <1>6, <1>7

\* Every step of a search keeps its invariant.
LEMMA StepSearches ==
    ASSUME IInv, Underway, NEW c \in Contexts, Step(c)
    PROVE  /\ Searched(state'[c], run'[c], View(c), dag) /\ state'[c].above = state[c].above
           /\ KeyGoesOn(state[c], state'[c], View(c))
<1>1. CASE run[c].stack # <<>>
  BY <1>1, CachePropertySearches, ActivateAndSearches, ActivateOrSearches, ReturnSearches DEF Step
<1>2. CASE run[c].stack = <<>>
  BY <1>2, NextNodeSearches, NextChildSearches, NextRootRoundSearches, NextAncestorSearches,
     EndRoundSearches DEF Step
<1> QED
  BY <1>1, <1>2

----------------------------------------------------------------------------
(* The beginning of a search.                                              *)

\* A root context has the root node, whatever else it has.
LEMMA RootJustified ==
    ASSUME NEW up, DOMAIN up = {}, NEW key
    PROVE  Justified(key, up, dag, Root, Spec0)
<1> SUFFICES ASSUME NEW nodes, NEW k, Closed(nodes, k, up, dag)
             PROVE  At(nodes, Root, Spec0)
  BY DEF Justified
<1>1. Root \in DOMAIN nodes /\ nodes[Root] \in Specificities
  BY DEF Closed, Ranks
<1> QED
  BY <1>1, LeastSpec DEF At

\* No step of a selector is empty: under the empty key nothing is reached.
LEMMA EmptyHandled ==
    ASSUME WellFormed(dag), Regular(dag), NEW e \in dag.edges, NEW nodes, NEW q
    PROVE  Handled(EmptyKey, nodes, e, q)
<1>1. e.key \in Keys /\ e.key # EmptyKey
  BY DEF WellFormed, Edges, Regular
<1>2. ~Matches(e.key, EmptyKey)
  BY <1>1 DEF Keys, Matches, EmptyKey
<1> QED
  BY <1>2 DEF Handled

LEMMA StartRootSearches ==
    ASSUME IInv, Underway, NEW c \in Contexts, run[c].phase = "unused", StartRoot(c)
    PROVE  Searched(state'[c], run'[c], Above(state'[c]), dag)
<1> DEFINE t == Activated(Unused, Root, Spec0)
           stack == CallsAfter(Unused, <<>>, Root, Spec0)
           v == [Idle EXCEPT !.phase = "building", !.stack = stack]
           up == View(c)
<1>1. /\ WellFormed(dag) /\ Regular(dag) /\ DOMAIN state = Contexts /\ DOMAIN run = Contexts
      /\ Searched(state[c], run[c], up, dag) /\ StateOK(state[c])
  BY SearchAssumption DEF IInv, TypeOK, Underway, Built
<1>2. state'[c] = t /\ run'[c] = v
  <2> HIDE DEF t, stack
  <2> QED
    BY <1>1 DEF StartRoot, t, stack
<1>3. state[c] = Unused /\ run[c] = Idle
  BY <1>1 DEF Searched, Rounds
<1>4. /\ Unused.parent = None /\ Unused.above = {} /\ Unused.key = EmptyKey
      /\ Unused.changed = FALSE /\ DOMAIN Unused.nodes = {}
      /\ Idle.stack = <<>> /\ Idle.edges = {} /\ Idle.todo = {}
  BY DEF Unused, NewState, Idle
<1>5. /\ v.phase = "building" /\ v.stack = stack /\ v.edges = {} /\ v.todo = {}
  <2> HIDE DEF stack
  <2> QED
    BY DEF Idle
<1>6. DOMAIN up = {}
  BY <1>3, <1>4 DEF View
<1>7. Root \in NodesOf(dag) /\ Spec0 \in Specificities
  BY <1>1 DEF WellFormed, NodesOf, Root, Spec0, Specificities
<1> HIDE DEF t, v, up, stack
<1>8. Sound(Unused, {}, up, dag) /\ Plain(Unused) /\ Typed(Unused, {})
  <2>1. Pending(<<>>) = {}
    BY DEF Pending
  <2> QED
    BY <1>1, <1>3, <1>4, <2>1 DEF Searched, Typed, Ranks
<1>9. Justified(Unused.key, up, dag, Root, Spec0)
  BY <1>6, RootJustified
<1>10. Sound(t, {} \cup Fresh(Unused.nodes, Root, Spec0), up, dag) /\ At(t.nodes, Root, Spec0)
  BY <1>1, <1>7, <1>8, <1>9, ActivatedSound DEF t
<1>11. Pending(stack) = {} \cup Fresh(Unused.nodes, Root, Spec0)
  <2>1. <<>> \in Seq(Calls) /\ Pending(<<>>) = {}
    BY DEF Pending
  <2>2. Pending(CallsAfter(Unused, <<>>, Root, Spec0))
          = Pending(<<>>) \cup Fresh(Unused.nodes, Root, Spec0)
    BY ONLY <1>1, <1>7, <2>1, PendingActivated
  <2> QED
    BY <2>1, <2>2 DEF stack
<1>12. /\ t.parent = None /\ t.above = {} /\ Plain(t)
       /\ t.changed = (Unused.changed \/ t.key # Unused.key)
  BY <1>1, <1>3, <1>4, <1>8, ActivatedFields DEF t
<1>13. RootRound(t, v, up, dag)
  BY <1>1, <1>4, <1>12, EmptyHandled DEF RootRound
<1>14. Rounds(t, v, up, dag)
  BY <1>5, <1>12, <1>13 DEF Rounds, EdgesReaching
<1>15. Lineage(t, up) /\ Rooted(t, v)
  BY <1>6, <1>10, <1>12 DEF Lineage, Rooted, At
<1>16. Searched(t, v, up, dag)
  BY <1>5, <1>10, <1>11, <1>12, <1>14, <1>15 DEF Searched
<1>17. Above(t) = up
  BY <1>3, <1>4, <1>12 DEF up, View, Above
<1> QED
  BY <1>2, <1>16, <1>17

LEMMA StartChildSearches ==
    ASSUME IInv, Underway, NEW c \in Contexts, run[c].phase = "unused",
           NEW p \in Built, NEW requested \in Requests, StartChild(c, p, requested)
    PROVE  Searched(state'[c], run'[c], Above(state'[c]), dag)
<1> DEFINE above == {p} \cup state[p].above
           t == NewState(p, above, requested)
           v == [Idle EXCEPT !.phase = "building", !.ancestor = p, !.todo = DOMAIN state[p].nodes]
           up == Above(t)
<1>1. state'[c] = t /\ run'[c] = v
  BY DEF StartChild, IInv, TypeOK
<1>2. /\ p \in Contexts /\ p # None /\ Lineage(state[p], View(p))
      /\ \A a \in DOMAIN View(p) : View(p)[a] = state[a] /\ DOMAIN View(p) = state[p].above
  BY SearchAssumption DEF Built, Contexts, None, Underway, View
<1>3. /\ t.parent = p /\ t.above = above /\ DOMAIN t.nodes = {} /\ DOMAIN t.tallies = {}
      /\ DOMAIN t.settings = {} /\ t.changed = FALSE
  BY DEF NewState
<1>4. Plain(t)
  BY DEF NewState, Plain
<1>5. /\ v.phase = "building" /\ v.ancestor = p /\ v.todo = DOMAIN state[p].nodes
      /\ v.edges = {} /\ v.stack = <<>> /\ v.again = FALSE
  BY DEF Idle
<1> HIDE DEF t, v
<1>6. DOMAIN up = above /\ \A a \in above : up[a] = state[a]
  BY <1>3 DEF Above
<1> HIDE DEF up
<1>7. Sound(t, Pending(v.stack), up, dag)
  <2>1. Pending(v.stack) = {}
    BY <1>5 DEF Pending
  <2>2. /\ CallsOK(t.nodes, {}, dag) /\ OrsDone(t.nodes, {}, dag)
        /\ AndsDone(t.nodes, t.tallies, {}, dag)
        /\ PropsDone(t.nodes, t.settings, {}, up, dag) /\ NodesBounded(t.key, t.nodes, up, dag)
    BY <1>3 DEF CallsOK, OrsDone, AndsDone, PropsDone, NodesBounded
  <2>3. /\ LegsDone(t.nodes, t.tallies, dag) /\ LegsBounded(t.nodes, t.tallies, up, dag)
        /\ SettingsFounded(t.nodes, t.settings, up, dag)
    BY <1>3 DEF LegsDone, LegsBounded, SettingsFounded
  <2> QED
    BY <2>1, <2>2, <2>3 DEF Sound
<1>8. Lineage(t, up)
  <2>1. \A a \in state[p].above : state[a].above \subseteq state[p].above
    BY <1>2 DEF Lineage
  <2> QED
    BY <1>2, <1>3, <1>6, <2>1 DEF Lineage
<1>9. ChildRound(t, v, up, dag)
  <2>1. Passed(v, up) = {} /\ DOMAIN up[v.ancestor].nodes \ v.todo = {}
    BY <1>5, <1>6 DEF Passed
  <2> QED
    BY <2>1 DEF ChildRound
<1>10. Rounds(t, v, up, dag)
  BY <1>2, <1>3, <1>5, <1>6, <1>9 DEF Rounds, EdgesReaching
<1>11. Rooted(t, v)
  BY <1>3 DEF Rooted
<1>12. Searched(t, v, up, dag)
  BY <1>4, <1>7, <1>8, <1>10, <1>11 DEF Searched
<1> QED
  BY <1>1, <1>12 DEF up

----------------------------------------------------------------------------
(* The invariant.                                                          *)

\* A step of one context is of no consequence for what the others look up to.
LEMMA SearchFramed ==
    ASSUME IInv, NEW c \in Contexts, c \notin Built,
           \A b \in Contexts \ {c} : state'[b] = state[b] /\ run'[b] = run[b],
           state'[c].above \subseteq Built
    PROVE  /\ View(c)' = Above(state'[c])
           /\ \A b \in Contexts \ {c} : View(b)' = View(b)
<1>1. \A b \in Built : b \in Contexts /\ state'[b] = state[b]
  BY DEF Built
<1>2. View(c)' = Above(state'[c])
  BY <1>1 DEF View, Above
<1>3. ASSUME NEW b \in Contexts \ {c}
      PROVE  View(b)' = View(b)
  <2>1. state'[b] = state[b] /\ state[b].above \subseteq Built
    BY <1>3 DEF IInv, LineageOK
  <2> QED
    BY <1>1, <2>1 DEF View
<1> QED
  BY <1>2, <1>3

\* The beginning of a construction, or a step of it, keeps the invariant.
LEMMA ConstructionSearches ==
    ASSUME IInv, Underway, NEW c \in Contexts, Start(c) \/ Step(c)
    PROVE  /\ dag' = dag /\ c \notin Built
           /\ Searched(state'[c], run'[c], View(c)', dag)
           /\ \A b \in Contexts \ {c} : /\ state'[b] = state[b] /\ run'[b] = run[b]
                                        /\ View(b)' = View(b)
<1>1. \A b \in Contexts \ {c} : state'[b] = state[b] /\ run'[b] = run[b]
  BY StepIsLocal DEF Indexed, IInv, TypeOK
<1>2. CASE Start(c)
  <2>1. dag' = dag /\ c \notin Built /\ run[c].phase = "unused"
    BY <1>2 DEF Start, Built
  <2>2. Searched(state'[c], run'[c], Above(state'[c]), dag)
    BY <1>2, <2>1, StartRootSearches, StartChildSearches DEF Start
  <2>3. state'[c].above \subseteq Built
    BY <1>2, StartBegins
  <2> QED
    BY <1>1, <2>1, <2>2, <2>3, SearchFramed
<1>3. CASE Step(c)
  <2>1. dag' = dag /\ c \notin Built
    BY <1>3 DEF Built, Step, CacheProperty, ActivateAnd, ActivateOr, Return, NextNode,
                NextChild, NextRootRound, NextAncestor, EndRound
  <2>2. Searched(state'[c], run'[c], View(c), dag) /\ state'[c].above = state[c].above
    BY <1>3, StepSearches
  <2>3. View(c) = Above(state'[c])
    BY <2>2 DEF View, Above
  <2>4. state'[c].above \subseteq Built
    BY <2>2 DEF IInv, LineageOK
  <2> QED
    BY <1>1, <2>1, <2>2, <2>3, <2>4, SearchFramed
<1> QED
  BY <1>2, <1>3

\* A context that is not in use, under whatever rules.
LEMMA UnusedSearched ==
    ASSUME NEW c, state[c] = Unused, NEW d
    PROVE  Searched(Unused, Idle, View(c), d)
<1>2. /\ Unused.parent = None /\ Unused.above = {} /\ DOMAIN Unused.nodes = {}
      /\ DOMAIN Unused.tallies = {} /\ DOMAIN Unused.settings = {} /\ Plain(Unused)
  BY DEF Unused, NewState, Plain
<1>3. Idle.phase = "unused" /\ Idle.edges = {} /\ Idle.stack = <<>>
  BY DEF Idle
<1>4. DOMAIN View(c) = {}
  BY <1>2 DEF View
<1>5. Pending(Idle.stack) = {}
  BY <1>3 DEF Pending
<1>6. /\ CallsOK(Unused.nodes, {}, d) /\ OrsDone(Unused.nodes, {}, d)
      /\ AndsDone(Unused.nodes, Unused.tallies, {}, d)
      /\ PropsDone(Unused.nodes, Unused.settings, {}, View(c), d)
      /\ NodesBounded(Unused.key, Unused.nodes, View(c), d)
  BY <1>2 DEF CallsOK, OrsDone, AndsDone, PropsDone, NodesBounded
<1>7. /\ LegsDone(Unused.nodes, Unused.tallies, d)
      /\ LegsBounded(Unused.nodes, Unused.tallies, View(c), d)
      /\ SettingsFounded(Unused.nodes, Unused.settings, View(c), d)
  BY <1>2 DEF LegsDone, LegsBounded, SettingsFounded
<1>8. Sound(Unused, Pending(Idle.stack), View(c), d)
  BY <1>5, <1>6, <1>7 DEF Sound
<1>9. Rounds(Unused, Idle, View(c), d)
  BY <1>3 DEF Rounds, EdgesReaching
<1>10. Lineage(Unused, View(c)) /\ Rooted(Unused, Idle)
  BY <1>2, <1>3, <1>4 DEF Lineage, Rooted
<1> QED
  BY <1>2, <1>8, <1>9, <1>10 DEF Searched

LEMMA InitSearched == Init => AllSearched
BY UnusedSearched DEF Init, AllSearched

LEMMA NextSearched == IInv /\ AllSearched /\ [Next]_vars => AllSearched'
<1>1. ASSUME IInv, AllSearched, NEW c \in Contexts, Start(c) \/ Step(c)
      PROVE  AllSearched'
  <2>1. Underway
    BY <1>1, SearchedLegs DEF AllSearched, Underway
  <2> QED
    BY <1>1, <2>1, ConstructionSearches DEF AllSearched
<1>2. IInv /\ AllSearched /\ UNCHANGED vars => AllSearched'
  BY DEF vars, AllSearched, View
<1> QED
  BY <1>1, <1>2 DEF Next

\* At every moment of every search nothing is active without cause, and all
\* that is active has been, or will be, acted on.
THEOREM SearchedAlways == Spec => [](IInv /\ AllSearched)
<1>1. Init => IInv /\ AllSearched
  BY InitInvariant, InitSearched
<1>2. IInv /\ AllSearched /\ [Next]_vars => (IInv /\ AllSearched)'
  BY NextInvariant, NextSearched
<1> QED
  BY <1>1, <1>2, PTL DEF Spec

----------------------------------------------------------------------------
(* What a finished search has found.                                       *)

\* A search state with nothing left to do.
Settled(s, up, d) ==
    /\ StateOK(s) /\ Plain(s) /\ s.changed = FALSE
    /\ Sound(s, {}, up, d) /\ AllHandled(s.key, s.nodes, up, d)
    /\ DOMAIN up = {} => Root \in DOMAIN s.nodes
    /\ \A t \in d.tallies : \A h \in HiddenTally(up, t) :
          h \in TallyStates /\ (t.node \in DOMAIN s.tallies => AtLeast(s.tallies[t.node], h))
    /\ \A x : \A h \in Hidden(up, x) :
          h \in Settings /\ (x \in DOMAIN s.settings => Hides(s.settings[x], h))

LEMMA BuiltSettled ==
    ASSUME IInv, NEW c \in Built, NEW d, Searched(state[c], run[c], View(c), d),
           d.tallies \subseteq dag.tallies
    PROVE  Settled(state[c], View(c), d)
<1> DEFINE s == state[c]
           up == View(c)
<1>1. /\ c \in Contexts /\ run[c].phase = "built" /\ TypeOK /\ StateOK(s)
      /\ Searched(s, run[c], up, d) /\ s.above \subseteq Contexts
  BY DEF Built, IInv, TypeOK, LineageOK
<1>2. OutdoesHidden(s) /\ RemembersLegs(s)
  BY <1>1 DEF IInv, CacheCoherent, TallyCoherent
<1>3. up = Above(s) /\ DOMAIN up = s.above
  BY DEF View, Above
<1> HIDE DEF s, up
<1>4. /\ run[c] = Finished /\ s.changed = FALSE /\ AllHandled(s.key, s.nodes, up, d)
      /\ Sound(s, Pending(run[c].stack), up, d) /\ Plain(s) /\ Rooted(s, run[c])
  BY <1>1 DEF Searched, Rounds
<1>5. Sound(s, {}, up, d)
  <2>1. Pending(Finished.stack) = {}
    BY DEF Finished, Idle, Pending
  <2> QED
    BY <1>4, <2>1
<1>6. DOMAIN up = {} => Root \in DOMAIN s.nodes
  BY <1>1, <1>3, <1>4 DEF Rooted
<1>7. \A t \in d.tallies : \A h \in HiddenTally(up, t) :
          h \in TallyStates /\ (t.node \in DOMAIN s.tallies => AtLeast(s.tallies[t.node], h))
  BY <1>1, <1>2, <1>3, ViewInherits, OneInherited DEF RemembersLegs
<1>8. \A x : \A h \in Hidden(up, x) :
          h \in Settings /\ (x \in DOMAIN s.settings => Hides(s.settings[x], h))
  BY <1>1, <1>2, <1>3, ViewInherits, OneInherited DEF OutdoesHidden, Hides
<1>9. Settled(s, up, d)
  BY <1>1, <1>4, <1>5, <1>6, <1>7, <1>8 DEF Settled
<1> QED
  BY <1>9 DEF s, up

\* What a leg has been worth, a settled state remembers.
LEMMA LegsRemembered ==
    ASSUME NEW d, WellFormed(d), Regular(d), NEW s, NEW up, Settled(s, up, d),
           NEW t \in d.tallies, t.kind = "and", t.node \in DOMAIN s.tallies
    PROVE  /\ s.tallies[t.node] \in TallyStates
           /\ \A a \in Worth(s.nodes, t.first, HiddenFirst(up, t)) :
                 /\ a \in Specificities /\ s.tallies[t.node].firstMatched
                 /\ ~Below(s.tallies[t.node].firstMatch, a)
           /\ \A a \in Worth(s.nodes, t.second, HiddenSecond(up, t)) :
                 /\ a \in Specificities /\ s.tallies[t.node].secondMatched
                 /\ ~Below(s.tallies[t.node].secondMatch, a)
<1> DEFINE tally == s.tallies[t.node]
<1>1. tally \in TallyStates
  BY DEF Settled, StateOK
<1>2. /\ \A n \in DOMAIN s.nodes : s.nodes[n] \in Specificities
      /\ \A h \in HiddenTally(up, t) : h \in TallyStates /\ AtLeast(tally, h)
      /\ AndsDone(s.nodes, s.tallies, {}, d)
  BY DEF Settled, StateOK, Sound
<1>3. \A n \in {t.first, t.second} \cap DOMAIN s.nodes : LegDone(tally, t, n, s.nodes[n])
  BY <1>2, LegRegistered DEF AndsDone
<1> HIDE DEF tally
<1>4. ASSUME NEW a \in Worth(s.nodes, t.first, HiddenFirst(up, t))
      PROVE  a \in Specificities /\ tally.firstMatched /\ ~Below(tally.firstMatch, a)
  <2>1. CASE a \in HiddenFirst(up, t)
    BY <1>2, <2>1 DEF HiddenFirst, AtLeast, TallyStates
  <2>2. CASE a \notin HiddenFirst(up, t)
    <3>1. t.first \in DOMAIN s.nodes /\ a = s.nodes[t.first]
      BY <1>4, <2>2 DEF Worth
    <3> QED
      BY <1>2, <1>3, <3>1 DEF LegDone
  <2> QED
    BY <2>1, <2>2
<1>5. ASSUME NEW a \in Worth(s.nodes, t.second, HiddenSecond(up, t))
      PROVE  a \in Specificities /\ tally.secondMatched /\ ~Below(tally.secondMatch, a)
  <2>1. CASE a \in HiddenSecond(up, t)
    BY <1>2, <2>1 DEF HiddenSecond, AtLeast, TallyStates
  <2>2. CASE a \notin HiddenSecond(up, t)
    <3>1. t.second \in DOMAIN s.nodes /\ a = s.nodes[t.second]
      BY <1>5, <2>2 DEF Worth
    <3> QED
      BY <1>2, <1>3, <3>1 DEF LegDone
  <2> QED
    BY <2>1, <2>2
<1> QED
  BY <1>1, <1>4, <1>5 DEF tally

\* The nodes of a settled state are closed: nothing that has a cause is missing.
LEMMA SettledClosed ==
    ASSUME NEW d, WellFormed(d), Regular(d), NEW s, NEW up, Settled(s, up, d)
    PROVE  Closed(s.nodes, s.key, up, d)
<1> DEFINE nodes == s.nodes
<1>1. Ranks(nodes)
  BY DEF Settled, StateOK, Ranks
<1>2. DOMAIN up = {} => Root \in DOMAIN nodes
  BY DEF Settled
<1>3. \A e \in d.edges : Matches(e.key, s.key) => \A q \in Reaching(up, e) :
          At(nodes, e.child, Plus(q, KeySpecificity(e.key)))
  BY DEF Settled, AllHandled, Handled
<1>4. \A t \in d.tallies : t.kind = "or" => \A n \in {t.first, t.second} \cap DOMAIN nodes :
          At(nodes, t.node, nodes[n])
  BY LegRegistered DEF Settled, Sound, OrsDone
<1>5. ASSUME NEW t \in d.tallies, t.kind = "and", {t.first, t.second} \cap DOMAIN nodes # {},
             NEW a \in Worth(nodes, t.first, HiddenFirst(up, t)),
             NEW b \in Worth(nodes, t.second, HiddenSecond(up, t))
      PROVE  At(nodes, t.node, Plus(a, b))
  <2> DEFINE tally == s.tallies[t.node]
  <2>1. t.node \in DOMAIN s.tallies
    BY <1>5, LegRegistered DEF Settled, Sound, AndsDone
  <2>2. /\ tally \in TallyStates /\ tally.firstMatched /\ tally.secondMatched
        /\ a \in Specificities /\ b \in Specificities
        /\ ~Below(tally.firstMatch, a) /\ ~Below(tally.secondMatch, b)
    BY <1>5, <2>1, LegsRemembered
  <2>3. At(nodes, t.node, Plus(tally.firstMatch, tally.secondMatch))
    BY <2>1, <2>2 DEF Settled, Sound, LegsDone
  <2> HIDE DEF tally
  <2>4. tally.firstMatch \in Specificities /\ tally.secondMatch \in Specificities
    BY <2>2 DEF TallyStates
  <2>5. /\ Plus(tally.firstMatch, tally.secondMatch) \in Specificities
        /\ Plus(a, b) \in Specificities
        /\ ~Below(Plus(tally.firstMatch, tally.secondMatch), Plus(a, b))
    BY <2>2, <2>4, HigherBounds, PlusGrows
  <2> HIDE DEF nodes
  <2> QED
    BY <1>1, <2>3, <2>5, AtLess
<1> QED
  BY <1>1, <1>2, <1>3, <1>4, <1>5 DEF Closed

----------------------------------------------------------------------------
(* Two finished searches with the same key and the same ancestors.         *)

LEMMA SameNodes ==
    ASSUME NEW d, WellFormed(d), Regular(d), NEW s, NEW t, NEW up,
           Settled(s, up, d), Settled(t, up, d), s.key = t.key
    PROVE  s.nodes = t.nodes
<1>1. /\ Closed(s.nodes, s.key, up, d) /\ Closed(t.nodes, s.key, up, d)
      /\ NodesBounded(s.key, s.nodes, up, d) /\ NodesBounded(s.key, t.nodes, up, d)
  BY SettledClosed DEF Settled, Sound
<1>2. Matches(s.key, s.key)
  BY DEF Matches
<1>3. /\ \A n \in DOMAIN s.nodes : At(t.nodes, n, s.nodes[n])
      /\ \A n \in DOMAIN t.nodes : At(s.nodes, n, t.nodes[n])
  BY <1>1, <1>2 DEF NodesBounded, Justified
<1>4. DOMAIN s.nodes = DOMAIN t.nodes
  BY <1>3 DEF At
<1>5. ASSUME NEW n \in DOMAIN s.nodes
      PROVE  s.nodes[n] = t.nodes[n]
  <2>1. s.nodes[n] \in Specificities /\ t.nodes[n] \in Specificities
    BY <1>1, <1>4 DEF Closed, Ranks
  <2>2. ~Below(t.nodes[n], s.nodes[n]) /\ ~Below(s.nodes[n], t.nodes[n])
    BY <1>3, <1>4 DEF At
  <2> QED
    BY <2>1, <2>2, SameSpec
<1>6. /\ s.nodes = [n \in DOMAIN s.nodes |-> s.nodes[n]]
      /\ t.nodes = [n \in DOMAIN t.nodes |-> t.nodes[n]]
  BY DEF Settled, Plain
<1> DEFINE f == s.nodes
           g == t.nodes
<1> HIDE DEF f, g
<1>7. /\ f = [n \in DOMAIN f |-> f[n]] /\ g = [n \in DOMAIN g |-> g[n]]
      /\ DOMAIN f = DOMAIN g /\ \A n \in DOMAIN f : f[n] = g[n]
  BY <1>4, <1>5, <1>6 DEF f, g
<1>8. f = g
  BY <1>7
<1> QED
  BY <1>8 DEF f, g

\* What a leg is worth, a tally's half remembers.
Remembered(nodes, leg, hidden, matched, match) ==
    \A a \in Worth(nodes, leg, hidden) : a \in Specificities /\ matched /\ ~Below(match, a)

\* One leg of a conjunction, as both remember it.
LEMMA LegNoMore ==
    ASSUME NEW nodes, Ranks(nodes), NEW leg, NEW hidden, NEW matched, NEW match \in Specificities,
           MatchBounded(nodes, leg, matched, match, hidden),
           NEW other, NEW most \in Specificities, Remembered(nodes, leg, hidden, other, most)
    PROVE  matched => other /\ ~Below(most, match)
<1> SUFFICES ASSUME matched PROVE other /\ ~Below(most, match)
  OBVIOUS
<1>1. CASE At(nodes, leg, match)
  <2>1. leg \in DOMAIN nodes /\ nodes[leg] \in Specificities /\ ~Below(nodes[leg], match)
    BY <1>1 DEF At, Ranks
  <2>2. other /\ ~Below(most, nodes[leg])
    BY <2>1 DEF Worth, Remembered
  <2> QED
    BY <2>1, <2>2, BelowOrder
<1>2. CASE \E h \in hidden : ~Below(h, match)
  <2>1. PICK h \in hidden : ~Below(h, match)
    BY <1>2
  <2>2. h \in Specificities /\ other /\ ~Below(most, h)
    BY DEF Worth, Remembered
  <2> QED
    BY <2>1, <2>2, BelowOrder
<1> QED
  BY <1>1, <1>2 DEF MatchBounded

LEMMA TallyNoMore ==
    ASSUME NEW d, WellFormed(d), Regular(d), NEW s, NEW t, NEW up,
           Settled(s, up, d), Settled(t, up, d), s.nodes = t.nodes, NEW m \in DOMAIN s.tallies
    PROVE  /\ m \in DOMAIN t.tallies /\ AtLeast(t.tallies[m], s.tallies[m])
           /\ s.tallies[m] \in TallyStates /\ Blank(s.tallies[m])
<1>1. PICK w \in d.tallies :
          /\ w.node = m /\ w.kind = "and"
          /\ w.first \in DOMAIN s.nodes \/ w.second \in DOMAIN s.nodes
          /\ LegBounded(s.nodes, up, w, s.tallies[m])
  BY DEF Settled, Sound, LegsBounded
<1>2. m \in DOMAIN t.tallies
  BY <1>1, LegRegistered DEF Settled, Sound, AndsDone
<1> DEFINE x == s.tallies[m]
           y == t.tallies[m]
<1>3. x \in TallyStates /\ y \in TallyStates /\ Ranks(s.nodes)
  BY <1>2 DEF Settled, StateOK, Ranks
<1>4. /\ Remembered(s.nodes, w.first, HiddenFirst(up, w), y.firstMatched, y.firstMatch)
      /\ Remembered(s.nodes, w.second, HiddenSecond(up, w), y.secondMatched, y.secondMatch)
  BY <1>1, <1>2, LegsRemembered DEF Remembered
<1>5. /\ MatchBounded(s.nodes, w.first, x.firstMatched, x.firstMatch, HiddenFirst(up, w))
      /\ MatchBounded(s.nodes, w.second, x.secondMatched, x.secondMatch, HiddenSecond(up, w))
  BY <1>1 DEF LegBounded
<1>6. /\ x.firstMatch \in Specificities /\ x.secondMatch \in Specificities
      /\ y.firstMatch \in Specificities /\ y.secondMatch \in Specificities
  BY <1>3 DEF TallyStates
<1> HIDE DEF x, y
<1>7. x.firstMatched => y.firstMatched /\ ~Below(y.firstMatch, x.firstMatch)
  BY ONLY <1>3, <1>4, <1>5, <1>6, LegNoMore
<1>8. x.secondMatched => y.secondMatched /\ ~Below(y.secondMatch, x.secondMatch)
  BY ONLY <1>3, <1>4, <1>5, <1>6, LegNoMore
<1>9. Blank(x)
  BY <1>5 DEF Blank, MatchBounded
<1>10. AtLeast(y, x)
  BY <1>6, <1>7, <1>8, <1>9, LeastSpec DEF AtLeast, Blank
<1> QED
  BY <1>2, <1>3, <1>9, <1>10 DEF x, y

LEMMA SameTallies ==
    ASSUME NEW d, WellFormed(d), Regular(d), NEW s, NEW t, NEW up,
           Settled(s, up, d), Settled(t, up, d), s.nodes = t.nodes
    PROVE  s.tallies = t.tallies
<1> DEFINE f == s.tallies
           g == t.tallies
<1>1. \A m \in DOMAIN f : m \in DOMAIN g /\ AtLeast(g[m], f[m]) /\ f[m] \in TallyStates
  BY TallyNoMore
<1>2. \A m \in DOMAIN g : m \in DOMAIN f /\ AtLeast(f[m], g[m]) /\ g[m] \in TallyStates
  BY TallyNoMore
<1>3. f = [m \in DOMAIN f |-> f[m]] /\ g = [m \in DOMAIN g |-> g[m]]
  BY DEF Settled, Plain
<1> HIDE DEF f, g
<1>4. ASSUME NEW a \in TallyStates, NEW b \in TallyStates, AtLeast(a, b), AtLeast(b, a)
      PROVE  a = b
  <2>1. a.firstMatch = b.firstMatch /\ a.secondMatch = b.secondMatch
    BY <1>4, SameSpec DEF TallyStates, AtLeast
  <2>2. a.firstMatched = b.firstMatched /\ a.secondMatched = b.secondMatched
    BY <1>4 DEF TallyStates, AtLeast
  <2> QED
    BY <2>1, <2>2 DEF TallyStates
<1>5. DOMAIN f = DOMAIN g /\ \A m \in DOMAIN f : f[m] = g[m]
  BY <1>1, <1>2, <1>4
<1>6. f = g
  BY <1>3, <1>5
<1> QED
  BY <1>6 DEF f, g

\* A setting that is no better than another, and names nothing more.
NoMore(v, w) ==
    v \in Settings /\ w \in Settings /\ ~Better(v, w) /\ (~Better(w, v) => v.values \subseteq w.values)

\* The setting that an active property makes is as good as the one it is in.
LEMMA OwnedCandidate ==
    ASSUME NEW d, NEW s, NEW t, NEW up, Settled(s, up, d), Settled(t, up, d), s.nodes = t.nodes,
           NEW x, NEW v \in Settings, NEW p, Owned(s.nodes, d, x, v, p)
    PROVE  \E c : /\ Ranked(c) /\ ~Better(v, c) /\ p \in c.values
                  /\ IF x \in DOMAIN t.settings THEN Hides(t.settings[x], c)
                     ELSE \E h \in Hidden(up, x) : Better(h, c)
<1> DEFINE c == Candidate(p, t.nodes[p.node])
<1>1. /\ p.node \in DOMAIN t.nodes /\ p \in PropsOf(d, p.node) /\ p.name = x
      /\ p.override = v.override /\ ~Below(t.nodes[p.node], v.spec)
  BY DEF Owned, At, PropsOf
<1>2. PropDone(t.settings, up, p, t.nodes[p.node])
  BY <1>1 DEF Settled, Sound, PropsDone
<1>3. t.nodes[p.node] \in Specificities
  BY <1>1 DEF Settled, StateOK
<1>4. /\ c.spec = t.nodes[p.node] /\ c.override = v.override /\ p \in c.values
  BY <1>1 DEF Candidate
<1>5. IF x \in DOMAIN t.settings THEN Hides(t.settings[x], c)
      ELSE \E h \in Hidden(up, x) : Better(h, c)
  BY <1>1, <1>2 DEF PropDone
<1> HIDE DEF c
<1>6. Ranked(c)
  BY <1>3, <1>4 DEF Ranked, Settings
<1>7. ~Better(v, c)
  BY <1>1, <1>4 DEF Better, Settings
<1> QED
  BY <1>4, <1>5, <1>6, <1>7

LEMMA SettingNoMore ==
    ASSUME NEW d, NEW s, NEW t, NEW up, Settled(s, up, d), Settled(t, up, d), s.nodes = t.nodes,
           NEW x \in DOMAIN s.settings
    PROVE  x \in DOMAIN t.settings /\ NoMore(s.settings[x], t.settings[x])
<1> DEFINE v == s.settings[x]
           w == t.settings[x]
<1>1. /\ v \in Settings /\ Founded(s.nodes, up, d, x, v)
      /\ \A h \in Hidden(up, x) : h \in Settings /\ Hides(v, h)
  BY DEF Settled, StateOK, Sound, SettingsFounded
<1> HIDE DEF v
<1>2. PICK p \in v.values : Owned(s.nodes, d, x, v, p)
  BY <1>1 DEF Founded
<1>3. PICK c : /\ Ranked(c) /\ ~Better(v, c)
               /\ IF x \in DOMAIN t.settings THEN Hides(w, c)
                  ELSE \E h \in Hidden(up, x) : Better(h, c)
  BY <1>1, <1>2, OwnedCandidate
<1>4. Ranked(v)
  BY <1>1, SettingsRanked
<1>5. x \in DOMAIN t.settings
  <2> SUFFICES ASSUME x \notin DOMAIN t.settings PROVE FALSE
    OBVIOUS
  <2>1. PICK h \in Hidden(up, x) : Better(h, c)
    BY <1>3
  <2>2. Ranked(h) /\ Hides(v, h)
    BY <1>1, SettingsRanked
  <2>3. Better(h, v)
    BY <1>3, <1>4, <2>1, <2>2, BetterOrder
  <2> QED
    BY <1>4, <2>2, <2>3, BetterOrder DEF Hides
<1>6. /\ w \in Settings /\ Hides(w, c)
      /\ \A h \in Hidden(up, x) : h \in Settings /\ Hides(w, h)
  BY <1>3, <1>5 DEF Settled, StateOK
<1> HIDE DEF w
<1>7. Ranked(w)
  BY <1>6, SettingsRanked
<1>8. ~Better(v, w)
  BY <1>3, <1>4, <1>6, <1>7, BetterOrder DEF Hides
<1>9. ASSUME ~Better(w, v), NEW q \in v.values
      PROVE  q \in w.values
  <2>1. CASE Owned(s.nodes, d, x, v, q)
    <3>1. PICK e : /\ Ranked(e) /\ ~Better(v, e) /\ q \in e.values
                   /\ Hides(w, e)
      BY <1>1, <1>5, <2>1, OwnedCandidate DEF w
    <3>2. ~Better(w, e)
      BY <1>4, <1>7, <1>9, <3>1, BetterOrder
    <3> QED
      BY <3>1, <3>2 DEF Hides
  <2>2. CASE \E h \in Hidden(up, x) :
                q \in h.values /\ h.spec = v.spec /\ h.override = v.override
    <3>1. PICK h \in Hidden(up, x) :
                q \in h.values /\ h.spec = v.spec /\ h.override = v.override
      BY <2>2
    <3>2. ~Better(w, h)
      BY <1>9, <3>1 DEF Better
    <3> QED
      BY <1>6, <3>1, <3>2 DEF Hides
  <2> QED
    BY <1>1, <1>9, <2>1, <2>2 DEF Founded
<1> QED
  BY <1>1, <1>5, <1>6, <1>8, <1>9 DEF NoMore, v, w

LEMMA SameSetting ==
    ASSUME NEW v, NEW w, NoMore(v, w), NoMore(w, v)
    PROVE  v = w
<1>1. /\ v \in Settings /\ w \in Settings /\ ~Better(v, w) /\ ~Better(w, v)
      /\ v.values = w.values
  BY DEF NoMore
<1>2. v.override = w.override
  BY <1>1 DEF Better, Settings
<1>3. v.spec \in Specificities /\ w.spec \in Specificities
      /\ ~Below(v.spec, w.spec) /\ ~Below(w.spec, v.spec)
  BY <1>1, <1>2 DEF Better, Settings
<1>4. v.spec = w.spec
  BY <1>3, SameSpec
<1> QED
  BY <1>1, <1>2, <1>4 DEF Settings

LEMMA SameSettings ==
    ASSUME NEW d, NEW s, NEW t, NEW up, Settled(s, up, d), Settled(t, up, d), s.nodes = t.nodes
    PROVE  s.settings = t.settings
<1> DEFINE f == s.settings
           g == t.settings
<1>1. \A x \in DOMAIN f : x \in DOMAIN g /\ NoMore(f[x], g[x])
  BY SettingNoMore
<1>2. \A x \in DOMAIN g : x \in DOMAIN f /\ NoMore(g[x], f[x])
  BY SettingNoMore
<1>3. f = [x \in DOMAIN f |-> f[x]] /\ g = [x \in DOMAIN g |-> g[x]]
  BY DEF Settled, Plain
<1> HIDE DEF f, g
<1>4. DOMAIN f = DOMAIN g /\ \A x \in DOMAIN f : f[x] = g[x]
  BY <1>1, <1>2, SameSetting
<1>5. f = g
  BY <1>3, <1>4
<1> QED
  BY <1>5 DEF f, g

\* Contexts under the same parent look up to the same states.
LEMMA SameView ==
    ASSUME NEW c \in Contexts, NEW b \in Contexts,
           Lineage(state[c], View(c)), Lineage(state[b], View(b)),
           state[c].parent = state[b].parent
    PROVE  state[c].above = state[b].above /\ View(c) = View(b)
<1>1. state[c].above = state[b].above
  <2>1. CASE state[c].parent = None
    BY <2>1 DEF Lineage
  <2>2. CASE state[c].parent # None
    BY <2>2 DEF Lineage, View
  <2> QED
    BY <2>1, <2>2
<1> QED
  BY <1>1 DEF View

\* Contexts with the same parent and key that were built under the same rules.
LEMMA SameContext ==
    ASSUME IInv, NEW c \in Built, NEW b \in Built, NEW d \in Dags,
           d.tallies \subseteq dag.tallies,
           Searched(state[c], run[c], View(c), d), Searched(state[b], run[b], View(b), d),
           state[c].parent = state[b].parent, state[c].key = state[b].key
    PROVE  state[c] = state[b]
<1> DEFINE s == state[c]
           t == state[b]
           up == View(c)
<1>1. WellFormed(d) /\ Regular(d) /\ c \in Contexts /\ b \in Contexts
  BY SearchAssumption DEF Built
<1>2. s.above = t.above /\ View(b) = up
  BY <1>1, SameView DEF Searched
<1>3. Settled(s, up, d) /\ Settled(t, up, d)
  BY <1>2, BuiltSettled
<1> HIDE DEF s, t, up
<1>4. s.parent = t.parent /\ s.key = t.key
  BY DEF s, t
<1>5. s.nodes = t.nodes
  BY <1>1, <1>3, <1>4, SameNodes
<1>6. s.tallies = t.tallies /\ s.settings = t.settings
  BY <1>1, <1>3, <1>5, SameTallies, SameSettings
<1>7. s.changed = FALSE /\ t.changed = FALSE /\ Plain(s) /\ Plain(t)
  BY <1>3 DEF Settled
<1>8. s = t
  BY <1>2, <1>4, <1>5, <1>6, <1>7 DEF Plain
<1> QED
  BY <1>8 DEF s, t

(***************************************************************************)
(* The order of pointers does not show: built contexts with one parent and *)
(* one key have the same nodes, tallies and settings, whatever the order   *)
(* in which Node::activate, Node::getChildren and SearchState::extendWith  *)
(* went through theirs.                                                    *)
(***************************************************************************)
THEOREM OrderIndependentAlways == Spec => []OrderIndependent
<1>1. IInv /\ AllSearched => OrderIndependent
  <2> SUFFICES ASSUME IInv, AllSearched, NEW c \in Built, NEW b \in Built,
                      state[c].parent = state[b].parent, state[c].key = state[b].key
               PROVE  state[c] = state[b]
    BY DEF OrderIndependent
  <2>1. dag \in Dags /\ Searched(state[c], run[c], View(c), dag)
        /\ Searched(state[b], run[b], View(b), dag)
    BY DEF IInv, AllSearched, Built
  <2> QED
    BY <2>1, SameContext
<1> QED
  BY <1>1, SearchedAlways, PTL

(***************************************************************************)
(* A finished search has found exactly what there is to find: its nodes    *)
(* have all that the rules ask for under its key, and whatever does so has *)
(* these nodes, at least as specific.                                      *)
(***************************************************************************)
Least(c, d) ==
    /\ Closed(state[c].nodes, state[c].key, View(c), d)
    /\ \A nodes : Closed(nodes, state[c].key, View(c), d)
                    => \A n \in DOMAIN state[c].nodes : At(nodes, n, state[c].nodes[n])

LEMMA SettledLeast ==
    ASSUME IInv, NEW c \in Built, NEW d \in Dags, Searched(state[c], run[c], View(c), d),
           d.tallies \subseteq dag.tallies
    PROVE  Least(c, d)
<1> DEFINE s == state[c]
           up == View(c)
<1>1. WellFormed(d) /\ Regular(d)
  BY SearchAssumption
<1>2. Settled(s, up, d)
  BY BuiltSettled
<1>3. Matches(s.key, s.key)
  BY DEF Matches
<1>4. NodesBounded(s.key, s.nodes, up, d)
  BY <1>2 DEF Settled, Sound
<1> HIDE DEF s, up
<1>5. Closed(s.nodes, s.key, up, d)
  BY <1>1, <1>2, SettledClosed
<1>6. \A nodes : Closed(nodes, s.key, up, d)
                   => \A n \in DOMAIN s.nodes : At(nodes, n, s.nodes[n])
  BY <1>3, <1>4 DEF NodesBounded, Justified
<1> QED
  BY <1>5, <1>6 DEF Least, s, up

\* Every built context has the least nodes that the rules ask for.
THEOREM SearchFindsTheLeast == Spec => [](\A c \in Built : Least(c, dag))
<1>1. IInv /\ AllSearched => \A c \in Built : Least(c, dag)
  <2> SUFFICES ASSUME IInv, AllSearched, NEW c \in Built PROVE Least(c, dag)
    OBVIOUS
  <2>1. dag \in Dags /\ Searched(state[c], run[c], View(c), dag)
    BY DEF IInv, AllSearched, Built
  <2> QED
    BY <2>1, SettledLeast
<1> QED
  BY <1>1, SearchedAlways, PTL

----------------------------------------------------------------------------
(* With loads between constructions.                                       *)

\* The rules that a context was built with, or is being built with.
Rules(c) == IF c \in Built THEN seen[c] ELSE dag

(***************************************************************************)
(* The invariant of the searches of a domain: that of each search is about *)
(* the rules it has read, which are the present ones as long as it goes    *)
(* on, and part of these ever after.                                       *)
(***************************************************************************)
SeenOK(c) ==
    /\ run[c].phase # "unused" => c \in DOMAIN seen
    /\ c \in DOMAIN seen => seen[c] \in Dags /\ PartOf(seen[c], dag)
    /\ run[c].phase = "building" => seen[c] = dag

DomainSearched ==
    \A c \in Contexts : SeenOK(c) /\ Searched(state[c], run[c], View(c), Rules(c))

LEMMA DomainUnderway == DomainSearched => Underway
BY SearchedLegs DEF DomainSearched, Underway, Rules

LEMMA DomainStart == DomainInit => DomainSearched
<1> SUFFICES ASSUME DomainInit, NEW c \in Contexts
             PROVE  SeenOK(c) /\ Searched(state[c], run[c], View(c), Rules(c))
  BY DEF DomainSearched
<1>1. state[c] = Unused /\ run[c] = Idle /\ Idle.phase = "unused" /\ DOMAIN seen = {}
  BY DEF DomainInit, Init, Idle
<1> QED
  BY <1>1, UnusedSearched DEF SeenOK

LEMMA ConstructSearches ==
    ASSUME IInv, DomainSearched, NEW c \in Contexts, Construct(c)
    PROVE  DomainSearched'
<1>1. /\ dag' = dag /\ c \notin Built
      /\ Searched(state'[c], run'[c], View(c)', dag)
      /\ \A b \in Contexts \ {c} : /\ state'[b] = state[b] /\ run'[b] = run[b]
                                   /\ View(b)' = View(b)
  BY DomainUnderway, ConstructionSearches DEF Construct
<1>2. dag \in Dags /\ PartOf(dag, dag)
  BY SearchAssumption DEF IInv, PartOf, WellFormed
<1>3. /\ c \in DOMAIN seen' /\ seen'[c] = dag
      /\ \A b \in Contexts \ {c} : b \in DOMAIN seen' <=> b \in DOMAIN seen
      /\ \A b \in DOMAIN seen \ {c} : seen'[b] = seen[b]
  <2>1. CASE Start(c) /\ seen' = Put(seen, c, dag)
    <3>1. DOMAIN seen' = DOMAIN seen \cup {c}
      BY <2>1 DEF Put
    <3>2. \A b \in DOMAIN seen' : seen'[b] = IF b = c THEN dag ELSE seen[b]
      BY <2>1 DEF Put
    <3> QED
      BY <3>1, <3>2
  <2>2. CASE Step(c) /\ UNCHANGED seen
    BY <2>2 DEF Step, DomainSearched, SeenOK
  <2> QED
    BY <2>1, <2>2 DEF Construct
<1>4. SeenOK(c)' /\ Rules(c)' = dag
  BY <1>1, <1>2, <1>3 DEF SeenOK, Rules
<1>5. ASSUME NEW b \in Contexts \ {c}
      PROVE  SeenOK(b)' /\ Rules(b)' = Rules(b)
  BY <1>1, <1>3, <1>5 DEF DomainSearched, SeenOK, Rules, Built
<1> QED
  BY <1>1, <1>4, <1>5 DEF DomainSearched

LEMMA LoadSearches ==
    ASSUME IInv, DomainSearched, Load
    PROVE  DomainSearched'
<1>1. /\ state' = state /\ run' = run /\ seen' = seen /\ Building = {}
      /\ PartOf(dag, dag') /\ dag \in Dags /\ dag' \in Dags
  BY LoadGrows DEF Load, IInv, Grown, PartOf
<1> SUFFICES ASSUME NEW c \in Contexts
             PROVE  SeenOK(c)' /\ Searched(state'[c], run'[c], View(c)', Rules(c)')
  BY DEF DomainSearched
<1>2. SeenOK(c) /\ Searched(state[c], run[c], View(c), Rules(c)) /\ View(c)' = View(c)
  BY <1>1 DEF DomainSearched, View
<1>3. SeenOK(c)'
  <2>1. run[c].phase # "building"
    BY <1>1 DEF Building
  <2>2. c \in DOMAIN seen => PartOf(seen[c], dag')
    <3>1. \A d \in Dags : d.size \in Nat
      BY SearchAssumption DEF WellFormed
    <3> QED
      BY <1>1, <1>2, <3>1 DEF SeenOK, PartOf
  <2> QED
    BY <1>1, <1>2, <2>1, <2>2 DEF SeenOK
<1>4. CASE c \in Built
  BY <1>1, <1>2, <1>3, <1>4 DEF Rules, Built
<1>5. CASE c \notin Built
  <2>1. run[c].phase = "unused"
    BY <1>1, <1>5 DEF Building, Built, IInv, TypeOK, RunOK
  <2>2. state[c] = Unused /\ run[c] = Idle
    BY <1>2, <2>1 DEF Searched, Rounds
  <2> QED
    BY <1>1, <1>2, <1>3, <2>2, UnusedSearched
<1> QED
  BY <1>4, <1>5

\* Constructions and loads together keep the invariant of all searches.
THEOREM DomainSearchedAlways == DomainSpec => [](IInv /\ DomainSearched)
<1>1. DomainInit => IInv /\ DomainSearched
  BY InitInvariant, DomainStart DEF DomainInit
<1>2. IInv /\ DomainSearched /\ [DomainNext]_domainVars => (IInv /\ DomainSearched)'
  <2> SUFFICES ASSUME IInv, DomainSearched, [DomainNext]_domainVars
               PROVE  IInv' /\ DomainSearched'
    OBVIOUS
  <2>1. IInv'
    BY ConstructionSteps, NextInvariant, LoadInvariant
  <2>2. CASE UNCHANGED domainVars
    <3>1. dag' = dag /\ state' = state /\ run' = run /\ seen' = seen
      BY <2>2 DEF domainVars
    <3> SUFFICES ASSUME NEW c \in Contexts
                 PROVE  SeenOK(c)' /\ Searched(state'[c], run'[c], View(c)', Rules(c)')
      BY <2>1 DEF DomainSearched
    <3>2. SeenOK(c)' /\ View(c)' = View(c) /\ Rules(c)' = Rules(c)
      BY <3>1 DEF DomainSearched, SeenOK, View, Rules, Built
    <3> QED
      BY <3>1, <3>2 DEF DomainSearched
  <2> QED
    BY <2>1, <2>2, ConstructSearches, LoadSearches DEF DomainNext
<1> QED
  BY <1>1, <1>2, PTL DEF DomainSpec

LEMMA BuiltUnder ==
    ASSUME IInv, DomainSearched, NEW c \in Built
    PROVE  /\ c \in Contexts /\ seen[c] \in Dags /\ seen[c].tallies \subseteq dag.tallies
           /\ Searched(state[c], run[c], View(c), seen[c])
BY DEF DomainSearched, SeenOK, Rules, Built, PartOf

\* Loads and other constructions do not show either: what is found under a
\* parent with a key is a function of the rules of the time.
THEOREM RulesDecideAlways == DomainSpec => []RulesDecide
<1>1. IInv /\ DomainSearched => RulesDecide
  BY BuiltUnder, SameContext DEF RulesDecide
<1> QED
  BY <1>1, DomainSearchedAlways, PTL

\* Every context of a domain has the least nodes that the rules of the time
\* ask for, given what the steps above it have, found under older rules.
THEOREM DomainFindsTheLeast == DomainSpec => [](\A c \in Built : Least(c, seen[c]))
<1>1. IInv /\ DomainSearched => \A c \in Built : Least(c, seen[c])
  BY BuiltUnder, SettledLeast
<1> QED
  BY <1>1, DomainSearchedAlways, PTL

----------------------------------------------------------------------------
(***************************************************************************)
(* That Domain implements AbstractContext, and that a context which has    *)
(* missed loads finds nothing that is not there any more.                  *)
(*                                                                         *)
(* Both are about the steps that lead to a context, from the root one down *)
(* (Story): the search states of these steps on one side, and the rows of  *)
(* Active on the other.  The rows at one step are a column.  Node by node, *)
(* in the order of creation, the column of a step is closed under the      *)
(* rules of the step, and below everything that is; the nodes of a settled *)
(* search are so, too; hence they are equal, step by step (StoryAgrees).   *)
(* Then the settings that a context goes by are the winners among all      *)
(* candidates (StoryDecides), and its key, which a search never extends    *)
(* without need (Numbered), is the least closed one (KeyIsClosed).  A step *)
(* of the domain that finishes a context is therefore the Build of the     *)
(* abstract one (FinishBuilds), and no other step shows.                   *)
(*                                                                         *)
(* Under rules that have grown the rows are no worse (AllOver), so that a  *)
(* candidate stays one (StillCandidate).                                   *)
(***************************************************************************)

----------------------------------------------------------------------------
(* The contexts on the way to one, and what they remember.                 *)

\* The setting of x, and the state of a tally, that the next one down inherits.
GoesBy(s, up, x) ==
    IF x \in DOMAIN s.settings THEN {s.settings[x]} ELSE Hidden(up, x)

TallyBy(s, up, t) ==
    IF t.node \in DOMAIN s.tallies THEN {s.tallies[t.node]} ELSE HiddenTally(up, t)

\* Each of the states ss looks up to all before it.
Linked(ss, ups, m) ==
    /\ \A j \in 1..m : /\ \A a \in DOMAIN ups[j] : \E i \in 1..(j - 1) : ups[j][a] = ss[i]
                       /\ \A i \in 1..(j - 1) : \E a \in DOMAIN ups[j] : ups[j][a] = ss[i]
    /\ \A j \in 1..m : j < m =>
          /\ \A x : Hidden(ups[j + 1], x) = GoesBy(ss[j], ups[j], x)
          /\ \A t : HiddenTally(ups[j + 1], t) = TallyBy(ss[j], ups[j], t)

(***************************************************************************)
(* The search states from the root context's to a context's, what they     *)
(* look up to, the rules they were built with, and their keys; the last    *)
(* key may be any.                                                         *)
(***************************************************************************)
Story(ss, ups, ds, ks, m) ==
    /\ Steps(ds, ks, m) /\ Linked(ss, ups, m)
    /\ \A j \in 1..m : Settled(ss[j], ups[j], ds[j])
    /\ \A j \in 1..m : j < m => ks[j] = ss[j].key

\* What a state says of a leg of a tally, by the leg's number.
MatchedOf(tally, w) == IF w = 1 THEN tally.firstMatched ELSE tally.secondMatched

MatchOf(tally, w) == IF w = 1 THEN tally.firstMatch ELSE tally.secondMatch

HiddenOf(up, t, w) == IF w = 1 THEN HiddenFirst(up, t) ELSE HiddenSecond(up, t)

\* What node n is worth in a step: nothing or one specificity.
Marks(nodes, n) == {nodes[q] : q \in {n} \cap DOMAIN nodes}

LEMMA HiddenOfOne ==
    ASSUME NEW up, NEW t, NEW w \in {1, 2}
    PROVE  HiddenOf(up, t, w)
             = {MatchOf(h, w) : h \in {g \in HiddenTally(up, t) : MatchedOf(g, w)}}
BY DEF HiddenOf, HiddenFirst, HiddenSecond, MatchOf, MatchedOf

\* What is remembered of a leg has been, and what has been is remembered.
LegHistory(ss, ups, ds, t, w, j) ==
    /\ \A h \in HiddenOf(ups[j], t, w) : \E i \in 1..(j - 1) :
          t \in ds[i].tallies /\ \E s \in Marks(ss[i].nodes, LegOf(t, w)) : ~Below(s, h)
    /\ \A i \in 1..(j - 1) : t \in ds[i].tallies =>
          \A s \in Marks(ss[i].nodes, LegOf(t, w)) : \E h \in HiddenOf(ups[j], t, w) : ~Below(h, s)

LEMMA SettledMarks ==
    ASSUME NEW s, NEW up, NEW d, Settled(s, up, d), NEW n
    PROVE  Marks(s.nodes, n) \subseteq Specificities
BY DEF Settled, StateOK, Marks

\* What a state holds of a tally it has its own state of.
LEMMA OwnTally ==
    ASSUME NEW d, WellFormed(d), Regular(d), NEW s, NEW up, Settled(s, up, d),
           NEW all, Regular(all), d.tallies \subseteq all.tallies,
           NEW t \in all.tallies, t.node \in DOMAIN s.tallies, NEW w \in {1, 2}
    PROVE  /\ t \in d.tallies /\ t.kind = "and" /\ s.tallies[t.node] \in TallyStates
           /\ MatchedOf(s.tallies[t.node], w) =>
                 \/ At(s.nodes, LegOf(t, w), MatchOf(s.tallies[t.node], w))
                 \/ \E h \in HiddenOf(up, t, w) : ~Below(h, MatchOf(s.tallies[t.node], w))
           /\ \A a \in Marks(s.nodes, LegOf(t, w)) \cup HiddenOf(up, t, w) :
                 /\ a \in Specificities /\ MatchedOf(s.tallies[t.node], w)
                 /\ ~Below(MatchOf(s.tallies[t.node], w), a)
<1>1. PICK u \in d.tallies :
          u.node = t.node /\ u.kind = "and" /\ LegBounded(s.nodes, up, u, s.tallies[t.node])
  BY DEF Settled, Sound, LegsBounded
<1>2. u = t
  BY <1>1 DEF Regular
<1>3. /\ t \in d.tallies /\ t.kind = "and" /\ LegBounded(s.nodes, up, t, s.tallies[t.node])
  BY <1>1, <1>2
<1>4. /\ s.tallies[t.node] \in TallyStates
      /\ \A a \in Worth(s.nodes, t.first, HiddenFirst(up, t)) :
            /\ a \in Specificities /\ s.tallies[t.node].firstMatched
            /\ ~Below(s.tallies[t.node].firstMatch, a)
      /\ \A a \in Worth(s.nodes, t.second, HiddenSecond(up, t)) :
            /\ a \in Specificities /\ s.tallies[t.node].secondMatched
            /\ ~Below(s.tallies[t.node].secondMatch, a)
  BY <1>3, LegsRemembered
<1>5. \A a \in Marks(s.nodes, LegOf(t, w)) \cup HiddenOf(up, t, w) :
          a \in IF w = 1 THEN Worth(s.nodes, t.first, HiddenFirst(up, t))
                ELSE Worth(s.nodes, t.second, HiddenSecond(up, t))
  BY DEF Marks, LegOf, HiddenOf, Worth
<1>6. MatchedOf(s.tallies[t.node], w) =>
          \/ At(s.nodes, LegOf(t, w), MatchOf(s.tallies[t.node], w))
          \/ \E h \in HiddenOf(up, t, w) : ~Below(h, MatchOf(s.tallies[t.node], w))
  BY <1>3 DEF LegBounded, MatchBounded, MatchedOf, MatchOf, LegOf, HiddenOf
<1>7. \A a \in Marks(s.nodes, LegOf(t, w)) \cup HiddenOf(up, t, w) :
          /\ a \in Specificities /\ MatchedOf(s.tallies[t.node], w)
          /\ ~Below(MatchOf(s.tallies[t.node], w), a)
  BY <1>4, <1>5 DEF MatchedOf, MatchOf
<1> QED
  BY <1>3, <1>4, <1>6, <1>7

LEMMA LegsRecalled ==
    ASSUME NEW ss, NEW ups, NEW ds, NEW ks, NEW m, Story(ss, ups, ds, ks, m),
           NEW t \in ds[m].tallies, t.kind = "and", NEW w \in {1, 2}
    PROVE  \A j \in 1..m : LegHistory(ss, ups, ds, t, w, j)
<1> DEFINE S == {j \in Nat : j + 1 <= m => LegHistory(ss, ups, ds, t, w, j + 1)}
           leg == LegOf(t, w)
<1>1. /\ m \in Nat \ {0} /\ m \in 1..m
      /\ \A j \in 1..m : /\ WellFormed(ds[j]) /\ Regular(ds[j]) /\ PartOf(ds[j], ds[m])
                         /\ Settled(ss[j], ups[j], ds[j])
  BY StepsHere DEF Story
<1>2. 0 \in S
  <2>1. DOMAIN ups[1] = {}
    BY <1>1 DEF Story, Linked
  <2>2. HiddenTally(ups[1], t) = {}
    BY <2>1 DEF HiddenTally, Nearest
  <2>3. HiddenOf(ups[1], t, w) = {}
    BY <2>2, HiddenOfOne
  <2> QED
    BY <2>3 DEF LegHistory
<1>3. ASSUME NEW k \in Nat, k \in S
      PROVE  k + 1 \in S
  <2> SUFFICES ASSUME NEW j, j = k + 1, j + 1 <= m
               PROVE  LegHistory(ss, ups, ds, t, w, j + 1)
    OBVIOUS
  <2> DEFINE s == ss[j]
             nodes == ss[j].nodes
             tally == ss[j].tallies[t.node]
  <2>1. j \in 1..m /\ j < m /\ (j + 1) - 1 = j /\ j \in Nat /\ \A i \in 1..j : i # j => i \in 1..(j - 1)
    BY <1>1
  <2>2. LegHistory(ss, ups, ds, t, w, j)
    BY <1>3, <2>1
  <2>3. /\ WellFormed(ds[j]) /\ Regular(ds[j]) /\ ds[j].tallies \subseteq ds[m].tallies
        /\ Settled(s, ups[j], ds[j]) /\ Regular(ds[m])
    BY <1>1, <2>1 DEF PartOf
  <2>4. /\ HiddenOf(ups[j + 1], t, w)
             = {MatchOf(h, w) : h \in {g \in TallyBy(s, ups[j], t) : MatchedOf(g, w)}}
        /\ HiddenOf(ups[j], t, w)
             = {MatchOf(h, w) : h \in {g \in HiddenTally(ups[j], t) : MatchedOf(g, w)}}
    BY <2>1, HiddenOfOne DEF Story, Linked
  <2>5. /\ \A i \in 1..(j - 1) : i \in 1..j /\ i \in 1..m
        /\ \A i \in 1..j : i \in 1..m
    BY <1>1, <2>1
  <2>6. \A i \in 1..m : Marks(ss[i].nodes, leg) \subseteq Specificities
    BY <1>1, SettledMarks
  <2>7. CASE t.node \in DOMAIN s.tallies
    <3>1. /\ t \in ds[j].tallies /\ tally \in TallyStates
          /\ MatchedOf(tally, w) =>
                \/ At(nodes, leg, MatchOf(tally, w))
                \/ \E h \in HiddenOf(ups[j], t, w) : ~Below(h, MatchOf(tally, w))
          /\ \A a \in Marks(nodes, leg) \cup HiddenOf(ups[j], t, w) :
                a \in Specificities /\ MatchedOf(tally, w) /\ ~Below(MatchOf(tally, w), a)
      BY <2>3, <2>7, OwnTally
    <3>2. MatchOf(tally, w) \in Specificities
      BY <3>1 DEF TallyStates, MatchOf
    <3>3. HiddenOf(ups[j + 1], t, w)
            = {MatchOf(h, w) : h \in {g \in {tally} : MatchedOf(g, w)}}
      BY <2>4, <2>7 DEF TallyBy
    <3> HIDE DEF tally, s, leg
    <3>4. ASSUME NEW h \in HiddenOf(ups[j + 1], t, w)
          PROVE  \E i \in 1..j : t \in ds[i].tallies /\ \E x \in Marks(ss[i].nodes, leg) : ~Below(x, h)
      <4>1. h = MatchOf(tally, w) /\ MatchedOf(tally, w)
        BY <3>3
      <4>2. CASE At(nodes, leg, h)
        <5>1. nodes[leg] \in Marks(nodes, leg) /\ ~Below(nodes[leg], h)
          BY <4>2 DEF At, Marks
        <5> QED
          BY <2>1, <3>1, <5>1
      <4>3. CASE \E g \in HiddenOf(ups[j], t, w) : ~Below(g, h)
        <5>1. PICK g \in HiddenOf(ups[j], t, w) : ~Below(g, h)
          BY <4>3
        <5>2. PICK i \in 1..(j - 1) : /\ t \in ds[i].tallies
                                      /\ \E x \in Marks(ss[i].nodes, leg) : ~Below(x, g)
          BY <2>2 DEF LegHistory, leg
        <5>3. PICK x \in Marks(ss[i].nodes, leg) : ~Below(x, g)
          BY <5>2
        <5>4. x \in Specificities /\ g \in Specificities /\ h \in Specificities
          BY <2>5, <2>6, <3>1, <3>2, <4>1
        <5>5. ~Below(x, h)
          BY <5>1, <5>3, <5>4, BelowOrder
        <5> QED
          BY <2>5, <5>2, <5>5
      <4> QED
        BY <3>1, <4>1, <4>2, <4>3
    <3>5. ASSUME NEW i \in 1..j, t \in ds[i].tallies, NEW x \in Marks(ss[i].nodes, leg)
          PROVE  \E h \in HiddenOf(ups[j + 1], t, w) : ~Below(h, x)
      <4>1. \E a \in Marks(nodes, leg) \cup HiddenOf(ups[j], t, w) : ~Below(a, x)
        <5>1. x \in Specificities
          BY <2>5, <2>6
        <5>2. CASE i = j
          BY <3>5, <5>1, <5>2, BelowOrder
        <5>3. CASE i # j
          BY <2>1, <2>2, <3>5, <5>3 DEF LegHistory, leg
        <5> QED
          BY <5>2, <5>3
      <4>2. PICK a \in Marks(nodes, leg) \cup HiddenOf(ups[j], t, w) : ~Below(a, x)
        BY <4>1
      <4>3. x \in Specificities /\ a \in Specificities /\ MatchedOf(tally, w)
            /\ ~Below(MatchOf(tally, w), a)
        BY <2>5, <2>6, <3>1
      <4>4. MatchOf(tally, w) \in HiddenOf(ups[j + 1], t, w)
        BY <3>3, <4>3
      <4> QED
        BY <3>2, <4>2, <4>3, <4>4, BelowOrder
    <3> QED
      BY <2>1, <3>4, <3>5 DEF LegHistory, leg
  <2>8. CASE t.node \notin DOMAIN s.tallies
    <3>1. HiddenOf(ups[j + 1], t, w) = HiddenOf(ups[j], t, w)
      BY <2>4, <2>8 DEF TallyBy
    <3>2. t \in ds[j].tallies => Marks(nodes, leg) = {}
      <4> SUFFICES ASSUME t \in ds[j].tallies, leg \in DOMAIN nodes PROVE FALSE
        BY DEF Marks
      <4>1. t \in TalliesOf(ds[j], leg, "and")
        BY <2>3, LegRegistered DEF LegOf
      <4> QED
        BY <2>3, <2>8, <4>1 DEF Settled, Sound, AndsDone
    <3> HIDE DEF leg, s
    <3>3. \A i \in 1..j : t \in ds[i].tallies =>
              \A x \in Marks(ss[i].nodes, leg) : \E h \in HiddenOf(ups[j + 1], t, w) : ~Below(h, x)
      BY <2>1, <2>2, <3>1, <3>2 DEF LegHistory, leg
    <3>4. \A h \in HiddenOf(ups[j + 1], t, w) : \E i \in 1..j :
              t \in ds[i].tallies /\ \E x \in Marks(ss[i].nodes, leg) : ~Below(x, h)
      BY <2>2, <2>5, <3>1 DEF LegHistory, leg
    <3> QED
      BY <2>1, <3>3, <3>4 DEF LegHistory, leg
  <2> QED
    BY <2>7, <2>8
<1>4. Nat \subseteq S
  <2> HIDE DEF S
  <2> QED
    BY <1>2, <1>3, SimpleInduction
<1>5. ASSUME NEW j \in 1..m
      PROVE  LegHistory(ss, ups, ds, t, w, j)
  <2>1. j - 1 \in Nat /\ (j - 1) + 1 = j /\ j <= m
    BY <1>1
  <2>2. j - 1 \in S
    BY <1>4, <2>1
  <2> QED
    BY <2>1, <2>2
<1> QED
  BY <1>5

----------------------------------------------------------------------------
(* The columns: what the rows say of one step.                             *)

\* At step i the rows are the nodes of the search state.
Agrees(ss, ds, m, A, i) == \A n \in NodesOf(ds[m]) : A[n][i] = Marks(ss[i].nodes, n)

\* They are at every step before j.
Upto(ss, ups, ds, ks, m, A, j) ==
    /\ Story(ss, ups, ds, ks, m) /\ A = Active(ds, ks) /\ j \in 1..m
    /\ \A i \in 1..(j - 1) : Agrees(ss, ds, m, A, i)

\* The nodes active at step j, as a search state would have them.
Column(ds, m, A, j) ==
    [n \in {q \in NodesOf(ds[m]) : A[q][j] # {}} |-> CHOOSE s \in A[n][j] : TRUE]

LEMMA ColumnMarks ==
    ASSUME NEW ss, NEW ups, NEW ds, NEW ks, NEW m, NEW A, NEW j, Upto(ss, ups, ds, ks, m, A, j),
           NEW X, X = Column(ds, m, A, j)
    PROVE  /\ \A n \in NodesOf(ds[m]) : A[n] \in RowsOf(m) /\ A[n][j] = Marks(X, n)
           /\ DOMAIN X \subseteq NodesOf(ds[m]) /\ Ranks(X)
<1>1. j \in 1..m /\ \A n \in NodesOf(ds[m]) : A[n] \in RowsOf(m)
  BY ActiveRows, StepsHere DEF Upto, Story
<1>2. \A n \in NodesOf(ds[m]) : One(A[n][j])
  BY <1>1 DEF RowsOf
<1>3. DOMAIN X = {q \in NodesOf(ds[m]) : A[q][j] # {}}
  BY DEF Column
<1>4. \A n \in DOMAIN X : X[n] \in A[n][j] /\ X[n] \in Specificities
  BY <1>2, <1>3 DEF Column, One
<1>5. ASSUME NEW n \in NodesOf(ds[m])
      PROVE  A[n][j] = Marks(X, n)
  <2>1. CASE A[n][j] = {}
    BY <1>3, <2>1 DEF Marks
  <2>2. CASE A[n][j] # {}
    <3>1. n \in DOMAIN X
      BY <1>3, <2>2
    <3>2. A[n][j] = {X[n]}
      BY <1>2, <1>4, <3>1 DEF One
    <3> QED
      BY <3>1, <3>2 DEF Marks
  <2> QED
    BY <2>1, <2>2
<1> QED
  BY <1>1, <1>3, <1>4, <1>5 DEF Ranks

\* Where its children are looked for, a node is active as the rows say.
LEMMA ReachingIsFrom ==
    ASSUME NEW ss, NEW ups, NEW ds, NEW ks, NEW m, NEW A, NEW j, Upto(ss, ups, ds, ks, m, A, j),
           NEW e \in ds[m].edges
    PROVE  /\ From(A, e, j) = Reaching(ups[j], e)
           /\ From(A, e, j) \subseteq Specificities /\ HasTop(From(A, e, j))
<1> DEFINE p == e.parent
           I == {i \in 1..j : i < j \/ p = Root}
<1>1. /\ m \in Nat \ {0} /\ j \in 1..m /\ WellFormed(ds[m]) /\ Regular(ds[m])
      /\ Steps(ds, ks, m) /\ Last(ds) = ds[m] /\ Linked(ss, ups, m)
  BY StepsHere DEF Upto, Story
<1>2. p \in NodesOf(ds[m])
  <2>1. e.parent \in Nat /\ Root <= e.parent /\ e.parent < e.child /\ e.child \in NodesOf(ds[m])
    BY <1>1 DEF WellFormed, Edges, Regular
  <2> QED
    BY <1>1, <2>1 DEF NodesOf, Root, WellFormed
<1>3. From(A, e, j) = UNION {A[p][i] : i \in I}
  BY DEF From
<1>4. A[p] \in RowsOf(m) /\ I \in SUBSET (1..m)
  BY <1>1, <1>2, ActiveRows DEF Upto
<1>5. From(A, e, j) \subseteq Specificities /\ HasTop(From(A, e, j))
  BY <1>1, FromHasTop DEF Upto
<1>6. \A i \in 1..(j - 1) : A[p][i] = Marks(ss[i].nodes, p)
  BY <1>2 DEF Upto, Agrees
<1>7. p = Root => A[p][j] = {s \in {Spec0} : DOMAIN ups[j] = {}}
  <2>1. A[Root][j] = IF j = 1 THEN {Spec0} ELSE {}
    BY <1>1, RootCell DEF Upto
  <2>2. j = 1 <=> DOMAIN ups[j] = {}
    BY <1>1 DEF Linked
  <2> QED
    BY <2>1, <2>2
<1> DEFINE R == {ups[j][a].nodes[p] : a \in {b \in DOMAIN ups[j] : p \in DOMAIN ups[j][b].nodes}}
           T == {s \in {Spec0} : DOMAIN ups[j] = {} /\ p = Root}
<1>8. Reaching(ups[j], e) = R \cup T
  BY DEF Reaching
<1>9. \A x : x \in R <=> \E i \in 1..(j - 1) : x \in Marks(ss[i].nodes, p)
  <2>1. \A x : x \in R <=> \E a \in DOMAIN ups[j] : x \in Marks(ups[j][a].nodes, p)
    BY DEF Marks
  <2>2. /\ \A a \in DOMAIN ups[j] : \E i \in 1..(j - 1) : ups[j][a] = ss[i]
        /\ \A i \in 1..(j - 1) : \E a \in DOMAIN ups[j] : ups[j][a] = ss[i]
    BY <1>1 DEF Linked
  <2> HIDE DEF R, p
  <2> QED
    BY <2>1, <2>2
<1>10. \A x : x \in From(A, e, j) <=> \E i \in I : x \in A[p][i]
  BY <1>3
<1>11. \A i : i \in I <=> i \in 1..(j - 1) \/ (i = j /\ p = Root)
  BY <1>1
<1>12. \A x : x \in T <=> p = Root /\ x \in A[p][j]
  BY <1>7
<1> HIDE DEF R, T, I, p
<1>13. \A x : x \in From(A, e, j) <=> x \in R \cup T
  BY <1>6, <1>9, <1>10, <1>11, <1>12
<1> QED
  BY <1>5, <1>8, <1>13

\* What a leg has been worth, by the rows and by what is remembered of it.
LEMMA LegWorth ==
    ASSUME NEW ss, NEW ups, NEW ds, NEW ks, NEW m, NEW A, NEW j, Upto(ss, ups, ds, ks, m, A, j),
           NEW X, X = Column(ds, m, A, j),
           NEW t \in ds[j].tallies, t.kind = "and", NEW w \in {1, 2}
    PROVE  /\ SoFar(A, ds, t, w, j) \subseteq Specificities /\ HasTop(SoFar(A, ds, t, w, j))
           /\ \A a \in Marks(X, LegOf(t, w)) \cup HiddenOf(ups[j], t, w) :
                 a \in Specificities /\ \E u \in SoFar(A, ds, t, w, j) : ~Below(u, a)
           /\ \A u \in SoFar(A, ds, t, w, j) :
                 \E a \in Marks(X, LegOf(t, w)) \cup HiddenOf(ups[j], t, w) : ~Below(a, u)
<1> DEFINE leg == LegOf(t, w)
           I == {i \in 1..j : t \in ds[i].tallies}
           row == A[leg]
           U == SoFar(A, ds, t, w, j)
           H == HiddenOf(ups[j], t, w)
<1>1. /\ m \in Nat \ {0} /\ j \in 1..m /\ Steps(ds, ks, m) /\ Settled(ss[j], ups[j], ds[j])
      /\ PartOf(ds[j], ds[m])
  BY StepsHere DEF Upto, Story
<1>2. t \in ds[m].tallies
  BY <1>1 DEF PartOf
<1>3. leg \in NodesOf(ds[m]) /\ row \in RowsOf(m)
  BY <1>1, <1>2, TallyRow DEF Upto
<1>4. U = UNION {row[i] : i \in I}
  BY DEF SoFar
<1>5. U \subseteq Specificities /\ HasTop(U)
  BY <1>1, <1>2, SoFarHasTop DEF Upto
<1>6. H \subseteq Specificities
  <2>1. HiddenTally(ups[j], t) \subseteq TallyStates
    BY <1>1 DEF Settled
  <2> QED
    BY <2>1, HiddenOfOne DEF TallyStates, MatchOf
<1>7. /\ row[j] = Marks(X, leg) /\ Ranks(X)
      /\ \A i \in 1..(j - 1) : row[i] = Marks(ss[i].nodes, leg)
  BY <1>3, ColumnMarks DEF Upto, Agrees
<1>8. LegHistory(ss, ups, ds, t, w, j)
  BY <1>1, <1>2, LegsRecalled DEF Upto
<1>9. /\ \A i : i \in I <=> i = j \/ (i \in 1..(j - 1) /\ t \in ds[i].tallies)
      /\ \A u : u \in U <=> \E i \in I : u \in row[i]
  BY <1>1, <1>4
<1>10. Marks(X, leg) \subseteq Specificities
  BY <1>7 DEF Marks, Ranks
<1>11. /\ \A h \in H : \E i \in 1..(j - 1) :
             t \in ds[i].tallies /\ \E s \in row[i] : ~Below(s, h)
       /\ \A i \in 1..(j - 1) : t \in ds[i].tallies =>
             \A s \in row[i] : \E h \in H : ~Below(h, s)
  BY <1>7, <1>8 DEF LegHistory
<1>12. Marks(X, leg) = row[j]
  BY <1>7
<1> HIDE DEF U, I, row, H, leg
<1>13. ASSUME NEW a \in Marks(X, leg) \cup H
       PROVE  a \in Specificities /\ \E u \in U : ~Below(u, a)
  <2>1. CASE a \in Marks(X, leg)
    <3>1. a \in U /\ a \in Specificities
      BY <1>9, <1>10, <1>12, <2>1
    <3> QED
      BY <3>1, BelowOrder
  <2>2. CASE a \in H
    <3>1. PICK i \in 1..(j - 1) : t \in ds[i].tallies /\ \E s \in row[i] : ~Below(s, a)
      BY <1>11, <2>2
    <3>2. PICK s \in row[i] : ~Below(s, a)
      BY <3>1
    <3> QED
      BY <1>6, <1>9, <2>2, <3>1, <3>2
  <2> QED
    BY <2>1, <2>2
<1>14. \A u \in U : \E a \in Marks(X, leg) \cup H : ~Below(a, u)
  BY <1>5, <1>9, <1>11, <1>12, BelowOrder
<1> QED
  BY <1>5, <1>13, <1>14 DEF U, H, leg

LEMMA ColumnEdges ==
    ASSUME NEW ss, NEW ups, NEW ds, NEW ks, NEW m, NEW A, NEW j, Upto(ss, ups, ds, ks, m, A, j),
           NEW X, X = Column(ds, m, A, j),
           NEW e \in ds[j].edges, Matches(e.key, ks[j]), NEW q \in Reaching(ups[j], e)
    PROVE  At(X, e.child, Plus(q, KeySpecificity(e.key)))
<1> DEFINE k == KeySpecificity(e.key)
           U == From(A, e, j)
           V == {Plus(s, k) : s \in U}
<1>1. /\ j \in 1..m /\ Steps(ds, ks, m) /\ PartOf(ds[j], ds[m]) /\ WellFormed(ds[m])
      /\ A = Active(ds, ks)
  BY StepsHere DEF Upto, Story
<1>2. e \in ds[m].edges /\ e.child \in NodesOf(ds[m]) /\ k \in Specificities
  <2>1. e \in ds[m].edges
    BY <1>1 DEF PartOf
  <2> QED
    BY <1>1, <2>1, KeysCount DEF WellFormed, Edges
<1>3. q \in U /\ U \subseteq Specificities /\ HasTop(U)
  BY <1>2, ReachingIsFrom
<1>4. Marks(X, e.child) = Highest(V)
  <2>1. Marks(X, e.child) = A[e.child][j]
    BY <1>2, ColumnMarks
  <2>2. A[e.child][j] = EdgeBest(A, e, j)
    BY <1>1, <1>2, EdgeCell
  <2> QED
    BY <2>1, <2>2 DEF EdgeBest
<1>5. Plus(q, k) \in V
  BY <1>3
<1>6. V \subseteq Specificities /\ HasTop(V)
  <2> HIDE DEF U, k
  <2> QED
    BY <1>2, <1>3, SumsHaveTop
<1> HIDE DEF U, V, k
<1>7. \A h \in Highest(V) : ~Below(h, Plus(q, k))
  BY <1>5, <1>6, HighestOne
<1>8. Highest(V) # {}
  BY <1>5, <1>6, HighestOne
<1> QED
  BY <1>4, <1>7, <1>8 DEF Marks, At, k

LEMMA ColumnOrs ==
    ASSUME NEW ss, NEW ups, NEW ds, NEW ks, NEW m, NEW A, NEW j, Upto(ss, ups, ds, ks, m, A, j),
           NEW X, X = Column(ds, m, A, j),
           NEW t \in ds[j].tallies, t.kind = "or", NEW n \in {t.first, t.second} \cap DOMAIN X
    PROVE  At(X, t.node, X[n])
<1> DEFINE V == A[t.first][j] \cup A[t.second][j]
<1>1. /\ j \in 1..m /\ Steps(ds, ks, m) /\ PartOf(ds[j], ds[m]) /\ A = Active(ds, ks)
  BY StepsHere DEF Upto, Story
<1>2. t \in ds[m].tallies
  BY <1>1 DEF PartOf
<1>3. /\ t.node \in NodesOf(ds[m]) /\ A[t.first] \in RowsOf(m) /\ A[t.second] \in RowsOf(m)
      /\ t.first \in NodesOf(ds[m]) /\ t.second \in NodesOf(ds[m])
  BY <1>1, <1>2, TallyRow DEF LegOf
<1>4. X[n] \in V /\ Marks(X, t.node) = Highest(V)
  <2>1. Marks(X, t.node) = Highest(V)
    BY <1>1, <1>2, <1>3, OrCell, ColumnMarks
  <2>2. X[n] \in Marks(X, n) /\ Marks(X, n) = A[n][j] /\ (n = t.first \/ n = t.second)
    BY <1>3, ColumnMarks DEF Marks
  <2> QED
    BY <2>1, <2>2
<1>5. V \subseteq Specificities /\ HasTop(V)
  <2>1. One(A[t.first][j]) /\ One(A[t.second][j])
    BY <1>1, <1>3 DEF RowsOf
  <2> QED
    BY <2>1, OneHasTop, TopOfBoth DEF One
<1> HIDE DEF V
<1>6. Highest(V) # {} /\ \A h \in Highest(V) : ~Below(h, X[n])
  BY <1>4, <1>5, HighestOne
<1> QED
  BY <1>4, <1>6 DEF Marks, At

LEMMA ColumnAnds ==
    ASSUME NEW ss, NEW ups, NEW ds, NEW ks, NEW m, NEW A, NEW j, Upto(ss, ups, ds, ks, m, A, j),
           NEW X, X = Column(ds, m, A, j),
           NEW t \in ds[j].tallies, t.kind = "and", {t.first, t.second} \cap DOMAIN X # {},
           NEW a \in Worth(X, t.first, HiddenFirst(ups[j], t)),
           NEW b \in Worth(X, t.second, HiddenSecond(ups[j], t))
    PROVE  At(X, t.node, Plus(a, b))
<1> DEFINE U == SoFar(A, ds, t, 1, j)
           W == SoFar(A, ds, t, 2, j)
<1>1. /\ j \in 1..m /\ Steps(ds, ks, m) /\ PartOf(ds[j], ds[m]) /\ A = Active(ds, ks)
  BY StepsHere DEF Upto, Story
<1>2. t \in ds[m].tallies
  BY <1>1 DEF PartOf
<1>3. t.node \in NodesOf(ds[m]) /\ t.first \in NodesOf(ds[m]) /\ t.second \in NodesOf(ds[m])
  BY <1>1, <1>2, TallyRow DEF LegOf
<1>4. A[t.first][j] \cup A[t.second][j] # {}
  BY <1>3, ColumnMarks DEF Marks
<1>5. Marks(X, t.node) = {Plus(x, y) : x \in Highest(U), y \in Highest(W)}
  <2>1. Marks(X, t.node) = A[t.node][j]
    BY <1>3, ColumnMarks
  <2>2. A[t.node][j] = AndBest(A, ds, t, j)
    BY <1>1, <1>2, <1>4, AndCell
  <2> QED
    BY <2>1, <2>2 DEF AndBest
<1>6. /\ a \in Marks(X, LegOf(t, 1)) \cup HiddenOf(ups[j], t, 1)
      /\ b \in Marks(X, LegOf(t, 2)) \cup HiddenOf(ups[j], t, 2)
  BY DEF Worth, Marks, LegOf, HiddenOf
<1>7. /\ U \subseteq Specificities /\ HasTop(U) /\ a \in Specificities
      /\ \E u \in U : ~Below(u, a)
  BY <1>6, LegWorth
<1>8. /\ W \subseteq Specificities /\ HasTop(W) /\ b \in Specificities
      /\ \E u \in W : ~Below(u, b)
  BY <1>6, LegWorth
<1> HIDE DEF U, W
<1>9. PICK x \in Highest(U) : x \in Specificities /\ ~Below(x, a)
  BY <1>7, HighestOne, BelowOrder
<1>10. PICK y \in Highest(W) : y \in Specificities /\ ~Below(y, b)
  BY <1>8, HighestOne, BelowOrder
<1>11. Plus(x, y) \in Marks(X, t.node) /\ ~Below(Plus(x, y), Plus(a, b))
  BY <1>5, <1>7, <1>8, <1>9, <1>10, PlusGrows
<1> QED
  BY <1>11 DEF Marks, At

LEMMA ColumnClosed ==
    ASSUME NEW ss, NEW ups, NEW ds, NEW ks, NEW m, NEW A, NEW j, Upto(ss, ups, ds, ks, m, A, j),
           NEW X, X = Column(ds, m, A, j)
    PROVE  Closed(X, ks[j], ups[j], ds[j])
<1>1. Ranks(X)
  BY ColumnMarks
<1>2. ASSUME DOMAIN ups[j] = {} PROVE Root \in DOMAIN X
  <2>1. /\ j \in 1..m /\ Steps(ds, ks, m) /\ A = Active(ds, ks) /\ Linked(ss, ups, m)
        /\ WellFormed(ds[m]) /\ m \in Nat \ {0}
    BY StepsHere DEF Upto, Story
  <2>2. j = 1
    BY <1>2, <2>1 DEF Linked
  <2>3. Root \in NodesOf(ds[m])
    BY <2>1 DEF WellFormed, NodesOf, Root
  <2>4. A[Root][j] = {Spec0} /\ A[Root][j] = Marks(X, Root)
    BY <2>1, <2>2, <2>3, RootCell, ColumnMarks
  <2> QED
    BY <2>4 DEF Marks
<1>3. \A e \in ds[j].edges : Matches(e.key, ks[j]) => \A q \in Reaching(ups[j], e) :
          At(X, e.child, Plus(q, KeySpecificity(e.key)))
  BY ColumnEdges
<1>4. \A t \in ds[j].tallies : t.kind = "or" => \A n \in {t.first, t.second} \cap DOMAIN X :
          At(X, t.node, X[n])
  BY ColumnOrs
<1>5. \A t \in ds[j].tallies :
          t.kind = "and" /\ {t.first, t.second} \cap DOMAIN X # {}
          => \A a \in Worth(X, t.first, HiddenFirst(ups[j], t)) :
             \A b \in Worth(X, t.second, HiddenSecond(ups[j], t)) :
                 At(X, t.node, Plus(a, b))
  BY ColumnAnds
<1> QED
  BY <1>1, <1>2, <1>3, <1>4, <1>5 DEF Closed

LEMMA EdgeLeast ==
    ASSUME NEW ss, NEW ups, NEW ds, NEW ks, NEW m, NEW A, NEW j, Upto(ss, ups, ds, ks, m, A, j),
           NEW X, X = Column(ds, m, A, j), NEW Y, Closed(Y, ks[j], ups[j], ds[j]),
           NEW e \in ds[m].edges, e.child \in DOMAIN X
    PROVE  At(Y, e.child, X[e.child])
<1>1. /\ j \in 1..m /\ Steps(ds, ks, m) /\ A = Active(ds, ks) /\ WellFormed(ds[m])
  BY StepsHere DEF Upto, Story
<1>2. e.child \in NodesOf(ds[m])
  BY <1>1 DEF WellFormed
<1>3. X[e.child] \in A[e.child][j]
  <2>1. A[e.child][j] = Marks(X, e.child)
    BY <1>2, ColumnMarks
  <2> QED
    BY <2>1 DEF Marks
<1>4. e \in ds[j].edges /\ Matches(e.key, ks[j]) /\ X[e.child] \in EdgeBest(A, e, j)
  BY <1>1, <1>3, EdgeCell
<1>5. From(A, e, j) = Reaching(ups[j], e)
  BY ReachingIsFrom
<1>6. PICK q \in Reaching(ups[j], e) : X[e.child] = Plus(q, KeySpecificity(e.key))
  BY <1>4, <1>5 DEF EdgeBest, Highest
<1> QED
  BY <1>4, <1>6 DEF Closed

LEMMA TallyLeast ==
    ASSUME NEW ss, NEW ups, NEW ds, NEW ks, NEW m, NEW A, NEW j, Upto(ss, ups, ds, ks, m, A, j),
           NEW X, X = Column(ds, m, A, j), NEW Y, Closed(Y, ks[j], ups[j], ds[j]),
           NEW t \in ds[m].tallies, t.node \in DOMAIN X,
           \A leg \in {t.first, t.second} \cap DOMAIN X : At(Y, leg, X[leg])
    PROVE  At(Y, t.node, X[t.node])
<1>1. /\ j \in 1..m /\ Steps(ds, ks, m) /\ A = Active(ds, ks) /\ WellFormed(ds[m])
      /\ Settled(ss[j], ups[j], ds[j])
  BY StepsHere DEF Upto, Story
<1>2. t.node \in NodesOf(ds[m]) /\ t.first \in NodesOf(ds[m]) /\ t.second \in NodesOf(ds[m])
  BY <1>1, TallyRow DEF LegOf
<1>3. Ranks(X) /\ Ranks(Y) /\ X[t.node] \in Specificities
  BY ColumnMarks DEF Closed, Ranks
<1>4. /\ A[t.node][j] = Marks(X, t.node) /\ A[t.first][j] = Marks(X, t.first)
      /\ A[t.second][j] = Marks(X, t.second)
  BY <1>2, ColumnMarks
<1>5. X[t.node] \in A[t.node][j]
  BY <1>4 DEF Marks
<1>6. CASE t.kind # "and"
  <2>1. t \in ds[j].tallies /\ X[t.node] \in Highest(A[t.first][j] \cup A[t.second][j])
    BY <1>1, <1>5, <1>6, OrCell
  <2>2. PICK leg \in {t.first, t.second} \cap DOMAIN X : X[t.node] = X[leg]
    BY <1>4, <2>1 DEF Highest, Marks
  <2>3. At(Y, leg, X[leg]) /\ leg \in DOMAIN Y /\ Y[leg] \in Specificities
        /\ ~Below(Y[leg], X[t.node])
    BY <1>3, <2>2 DEF At, Ranks
  <2>4. t.kind = "or"
    BY <1>1, <1>6 DEF WellFormed, Tallies, Kinds
  <2>5. At(Y, t.node, Y[leg])
    BY <2>1, <2>2, <2>3, <2>4 DEF Closed
  <2> QED
    BY <1>3, <2>3, <2>5, AtLess
<1>7. CASE t.kind = "and"
  <2> DEFINE U == SoFar(A, ds, t, 1, j)
             W == SoFar(A, ds, t, 2, j)
  <2>1. /\ t \in ds[j].tallies /\ A[t.first][j] \cup A[t.second][j] # {}
        /\ X[t.node] \in AndBest(A, ds, t, j)
    BY <1>1, <1>5, <1>7, AndCell
  <2>2. PICK u \in U, w \in W : X[t.node] = Plus(u, w)
    BY <2>1 DEF AndBest, Highest
  <2>3. /\ u \in Specificities
        /\ \E a \in Marks(X, LegOf(t, 1)) \cup HiddenOf(ups[j], t, 1) :
              a \in Specificities /\ ~Below(a, u)
    BY <1>7, <2>1, LegWorth
  <2>4. /\ w \in Specificities
        /\ \E a \in Marks(X, LegOf(t, 2)) \cup HiddenOf(ups[j], t, 2) :
              a \in Specificities /\ ~Below(a, w)
    BY <1>7, <2>1, LegWorth
  <2> HIDE DEF U, W
  <2>5. \E leg \in {t.first, t.second} \cap DOMAIN X : TRUE
    BY <1>4, <2>1 DEF Marks
  <2>6. {t.first, t.second} \cap DOMAIN Y # {}
    BY <2>5 DEF At
  <2>7. \A a \in Specificities : a \in Marks(X, t.first) =>
            \E b \in Worth(Y, t.first, HiddenFirst(ups[j], t)) : b \in Specificities /\ ~Below(b, a)
    BY <1>3 DEF Marks, At, Worth, Ranks
  <2>8. \A a \in Specificities : a \in Marks(X, t.second) =>
            \E b \in Worth(Y, t.second, HiddenSecond(ups[j], t)) : b \in Specificities /\ ~Below(b, a)
    BY <1>3 DEF Marks, At, Worth, Ranks
  <2>9. PICK a \in Worth(Y, t.first, HiddenFirst(ups[j], t)) : a \in Specificities /\ ~Below(a, u)
    <3>1. PICK x \in Marks(X, t.first) \cup HiddenFirst(ups[j], t) :
             x \in Specificities /\ ~Below(x, u)
      BY <2>3 DEF LegOf, HiddenOf
    <3>2. CASE x \in HiddenFirst(ups[j], t)
      BY <3>1, <3>2 DEF Worth
    <3>3. CASE x \in Marks(X, t.first)
      BY <2>3, <2>7, <3>1, <3>3, BelowOrder
    <3> QED
      BY <3>1, <3>2, <3>3
  <2>10. PICK b \in Worth(Y, t.second, HiddenSecond(ups[j], t)) : b \in Specificities /\ ~Below(b, w)
    <3>1. PICK x \in Marks(X, t.second) \cup HiddenSecond(ups[j], t) :
             x \in Specificities /\ ~Below(x, w)
      BY <2>4 DEF LegOf, HiddenOf
    <3>2. CASE x \in HiddenSecond(ups[j], t)
      BY <3>1, <3>2 DEF Worth
    <3>3. CASE x \in Marks(X, t.second)
      BY <2>4, <2>8, <3>1, <3>3, BelowOrder
    <3> QED
      BY <3>1, <3>2, <3>3
  <2>11. At(Y, t.node, Plus(a, b))
    BY <1>7, <2>1, <2>6, <2>9, <2>10 DEF Closed
  <2>12. ~Below(Plus(a, b), Plus(u, w)) /\ Plus(a, b) \in Specificities
    BY <2>3, <2>4, <2>9, <2>10, PlusGrows, HigherBounds
  <2> QED
    BY <1>3, <2>2, <2>11, <2>12, AtLess
<1> QED
  BY <1>6, <1>7

LEMMA ColumnLeast ==
    ASSUME NEW ss, NEW ups, NEW ds, NEW ks, NEW m, NEW A, NEW j, Upto(ss, ups, ds, ks, m, A, j),
           NEW X, X = Column(ds, m, A, j), NEW Y, Closed(Y, ks[j], ups[j], ds[j])
    PROVE  \A n \in DOMAIN X : At(Y, n, X[n])
<1> DEFINE S == {n \in Nat : n \in DOMAIN X => At(Y, n, X[n])}
<1>1. /\ j \in 1..m /\ Steps(ds, ks, m) /\ A = Active(ds, ks) /\ m \in Nat \ {0}
      /\ WellFormed(ds[m]) /\ Regular(ds[m]) /\ Linked(ss, ups, m)
  BY StepsHere DEF Upto, Story
<1>2. DOMAIN X \subseteq NodesOf(ds[m]) /\ Ranks(X)
  BY ColumnMarks
<1>3. ASSUME NEW n \in Nat, \A q \in Nat : q < n => q \in S
      PROVE  n \in S
  <2> SUFFICES ASSUME n \in DOMAIN X PROVE At(Y, n, X[n])
    OBVIOUS
  <2>1. n \in NodesOf(ds[m])
    BY <1>2
  <2>2. CASE n = Root
    <3>1. X[Root] \in A[Root][j]
      BY <2>1, <2>2, ColumnMarks DEF Marks
    <3>2. j = 1 /\ X[Root] = Spec0
      BY <1>1, <3>1, RootCell
    <3>3. DOMAIN ups[j] = {}
      BY <1>1, <3>2 DEF Linked
    <3>4. Root \in DOMAIN Y /\ Y[Root] \in Specificities
      BY <3>3 DEF Closed, Ranks
    <3> QED
      BY <2>2, <3>2, <3>4, LeastSpec DEF At
  <2>3. CASE n # Root
    <3>1. HangsOn(ds[m], n)
      BY <1>1, <2>1, <2>3, NodesHang
    <3>2. CASE IsChild(ds[m], n)
      BY <3>1, <3>2, EdgeLeast DEF HangsOn
    <3>3. CASE ~IsChild(ds[m], n)
      <4>1. PICK t \in ds[m].tallies : t.node = n /\ t.first \in 1..(n - 1) /\ t.second \in 1..(n - 1)
        BY <3>1, <3>3 DEF HangsOn
      <4>2. \A leg \in {t.first, t.second} : leg \in Nat /\ leg < n
        BY <4>1
      <4>3. \A leg \in {t.first, t.second} \cap DOMAIN X : At(Y, leg, X[leg])
        BY <1>3, <4>2
      <4> QED
        BY <4>1, <4>3, TallyLeast
    <3> QED
      BY <3>2, <3>3
  <2> QED
    BY <2>2, <2>3
<1>4. Nat \subseteq S
  <2> HIDE DEF S
  <2> QED
    BY <1>3, StrongInduction
<1> QED
  BY <1>2, <1>4 DEF NodesOf

\* A search has the nodes that the rows say, if the row goes by its key.
LEMMA ColumnAgrees ==
    ASSUME NEW ss, NEW ups, NEW ds, NEW ks, NEW m, NEW A, NEW j, Upto(ss, ups, ds, ks, m, A, j),
           ks[j] = ss[j].key
    PROVE  /\ Agrees(ss, ds, m, A, j)
           /\ \A n \in DOMAIN ss[j].nodes : n \in NodesOf(ds[m]) /\ A[n][j] # {}
<1> DEFINE X == Column(ds, m, A, j)
           nodes == ss[j].nodes
<1>1. /\ j \in 1..m /\ WellFormed(ds[j]) /\ Regular(ds[j]) /\ Settled(ss[j], ups[j], ds[j])
  BY StepsHere DEF Upto, Story
<1>2. /\ DOMAIN X \subseteq NodesOf(ds[m]) /\ Ranks(X)
      /\ \A n \in NodesOf(ds[m]) : A[n][j] = Marks(X, n)
  BY ColumnMarks
<1>3. Closed(X, ks[j], ups[j], ds[j])
  BY ColumnClosed
<1>4. Closed(nodes, ks[j], ups[j], ds[j])
  BY <1>1, SettledClosed
<1>5. \A n \in DOMAIN X : At(nodes, n, X[n])
  BY <1>4, ColumnLeast
<1>6. \A n \in DOMAIN nodes : At(X, n, nodes[n])
  <2>1. NodesBounded(ks[j], nodes, ups[j], ds[j])
    BY <1>1 DEF Settled, Sound
  <2>2. Matches(ks[j], ks[j])
    BY DEF Matches
  <2> HIDE DEF X
  <2> QED
    BY <1>3, <2>1, <2>2 DEF NodesBounded, Justified
<1>7. Ranks(nodes)
  BY <1>4 DEF Closed
<1> HIDE DEF X, nodes
<1>8. DOMAIN X = DOMAIN nodes /\ \A n \in DOMAIN X : X[n] = nodes[n]
  BY <1>2, <1>5, <1>6, <1>7, SameSpec DEF At, Ranks
<1>9. \A n : Marks(X, n) = Marks(nodes, n)
  BY <1>8 DEF Marks
<1> QED
  BY <1>2, <1>8, <1>9 DEF Agrees, nodes, Marks

LEMMA StoryUpto ==
    ASSUME NEW ss, NEW ups, NEW ds, NEW ks, NEW m, Story(ss, ups, ds, ks, m),
           NEW A, A = Active(ds, ks), NEW j \in 1..m
    PROVE  Upto(ss, ups, ds, ks, m, A, j)
<1> DEFINE S == {i \in Nat : i \in 1..m => Agrees(ss, ds, m, A, i) \/ i = m}
<1>1. m \in Nat \ {0}
  BY StepsHere DEF Story
<1>2. ASSUME NEW n \in Nat, \A q \in Nat : q < n => q \in S
      PROVE  n \in S
  <2> SUFFICES ASSUME n \in 1..m, n # m PROVE Agrees(ss, ds, m, A, n)
    OBVIOUS
  <2>1. \A i \in 1..(n - 1) : i \in Nat /\ i < n /\ i \in 1..m /\ i # m
    BY <1>1
  <2>2. Upto(ss, ups, ds, ks, m, A, n)
    BY <1>2, <2>1 DEF Upto
  <2>3. ks[n] = ss[n].key
    BY <1>1 DEF Story
  <2> QED
    BY <2>2, <2>3, ColumnAgrees
<1>3. Nat \subseteq S
  <2> HIDE DEF S
  <2> QED
    BY <1>2, StrongInduction
<1>4. \A i \in 1..(j - 1) : i \in Nat /\ i \in 1..m /\ i # m
  BY <1>1
<1> QED
  BY <1>3, <1>4 DEF Upto

LEMMA StoryAgrees ==
    ASSUME NEW ss, NEW ups, NEW ds, NEW ks, NEW m, Story(ss, ups, ds, ks, m),
           ks[m] = ss[m].key, NEW A, A = Active(ds, ks), NEW j \in 1..m
    PROVE  /\ Agrees(ss, ds, m, A, j)
           /\ \A n \in DOMAIN ss[j].nodes : n \in NodesOf(ds[m]) /\ A[n][j] # {}
<1>1. Upto(ss, ups, ds, ks, m, A, j)
  BY StoryUpto
<1>2. ks[j] = ss[j].key
  BY StepsHere DEF Story
<1> QED
  BY <1>1, <1>2, ColumnAgrees

(***************************************************************************)
(* For the last key, whichever it is, the rows of the last step are closed *)
(* under it, and the least that is.                                        *)
(***************************************************************************)
LEMMA LastColumn ==
    ASSUME NEW ss, NEW ups, NEW ds, NEW ks, NEW m, Story(ss, ups, ds, ks, m),
           NEW A, A = Active(ds, ks), NEW X, X = Column(ds, m, A, m)
    PROVE  /\ Closed(X, ks[m], ups[m], ds[m])
           /\ \A Y : Closed(Y, ks[m], ups[m], ds[m]) => \A n \in DOMAIN X : At(Y, n, X[n])
           /\ \A n \in NodesOf(ds[m]) : A[n][m] # {} <=> n \in DOMAIN X
           /\ DOMAIN X \subseteq NodesOf(ds[m])
<1>1. m \in 1..m
  BY StepsHere DEF Story
<1>2. Upto(ss, ups, ds, ks, m, A, m)
  BY <1>1, StoryUpto
<1>3. \A n \in NodesOf(ds[m]) : A[n][m] = Marks(X, n)
  BY <1>2, ColumnMarks
<1> QED
  BY <1>2, <1>3, ColumnClosed, ColumnLeast, ColumnMarks DEF Marks

----------------------------------------------------------------------------
(* The settings that a context goes by.                                    *)

\* Property p is at a node active with this specificity, up to step j.
Offered(ss, ds, x, j, p, spec) ==
    /\ p.name = x
    /\ \E i \in 1..j : /\ p \in ds[i].props /\ p.node \in DOMAIN ss[i].nodes
                       /\ spec = ss[i].nodes[p.node]

\* The setting gone by comes of what is offered, and outdoes all of it.
Comes(ss, ds, x, j, v) ==
    /\ v \in Settings /\ v.values # {}
    /\ \A p \in v.values : \E spec \in Specificities :
          Offered(ss, ds, x, j, p, spec) /\ p.override = v.override /\ ~Below(spec, v.spec)

Decided(ss, ds, x, j, goes) ==
    /\ \A v, w \in goes : v = w
    /\ \A v \in goes : Comes(ss, ds, x, j, v)
    /\ \A p, spec : Offered(ss, ds, x, j, p, spec)
                      => \E v \in goes : Hides(v, Candidate(p, spec))

LEMMA HidesThrough ==
    ASSUME NEW v \in Settings, NEW h \in Settings, NEW c, Ranked(c), Hides(v, h), Hides(h, c)
    PROVE  Hides(v, c)
<1>1. Ranked(v) /\ Ranked(h)
  BY SettingsRanked
<1>2. CASE Better(v, h) \/ Better(h, c)
  <2>1. Better(v, c)
    <3>1. ~Better(h, v)
      BY <1>1, BetterOrder DEF Hides
    <3>2. ~Better(c, h)
      BY <1>1, BetterOrder DEF Hides
    <3>3. CASE Better(v, h)
      BY <1>1, <3>2, <3>3, BetterOrder
    <3>4. CASE Better(h, c) /\ ~Better(v, h)
      BY <1>1, <3>1, <3>4, BetterOrder
    <3> QED
      BY <1>2, <3>3, <3>4
  <2> QED
    BY <2>1 DEF Hides
<1>3. CASE ~Better(v, h) /\ ~Better(h, c)
  BY <1>1, <1>3, BetterOrder DEF Hides
<1> QED
  BY <1>2, <1>3

LEMMA OfferedRanked ==
    ASSUME NEW ss, NEW ds, NEW x, NEW j, \A i \in 1..j : WellFormed(ds[i]) /\ Ranks(ss[i].nodes),
           NEW p, NEW spec, Offered(ss, ds, x, j, p, spec)
    PROVE  Ranked(Candidate(p, spec)) /\ spec \in Specificities
BY DEF Offered, WellFormed, Props, Ranks, Ranked, Candidate

\* One step: the context's own setting, or what it inherits.
LEMMA StepDecides ==
    ASSUME NEW ss, NEW ds, NEW x, NEW j \in Nat, j >= 1, NEW up, NEW s, s = ss[j],
           NEW d, d = ds[j], Settled(s, up, d),
           \A i \in 1..j : WellFormed(ds[i]) /\ Ranks(ss[i].nodes),
           Decided(ss, ds, x, j - 1, Hidden(up, x))
    PROVE  Decided(ss, ds, x, j, GoesBy(s, up, x))
<1> DEFINE H == Hidden(up, x)
           G == GoesBy(s, up, x)
           Here(p, spec) == /\ p.name = x /\ p \in d.props /\ p.node \in DOMAIN s.nodes
                            /\ spec = s.nodes[p.node]
<1>1. /\ j \in 1..j /\ \A i \in 1..(j - 1) : i \in 1..j
      /\ \A i \in 1..j : i = j \/ i \in 1..(j - 1)
  OBVIOUS
<1>2. \A p, spec : Offered(ss, ds, x, j, p, spec)
                     <=> Here(p, spec) \/ Offered(ss, ds, x, j - 1, p, spec)
  BY <1>1 DEF Offered
<1>3. /\ \A h \in H : h \in Settings /\ (x \in DOMAIN s.settings => Hides(s.settings[x], h))
      /\ \A n \in DOMAIN s.nodes : s.nodes[n] \in Specificities
      /\ x \in DOMAIN s.settings => s.settings[x] \in Settings
  BY DEF Settled, StateOK
<1>4. /\ \A v, w \in H : v = w
      /\ \A v \in H : Comes(ss, ds, x, j - 1, v)
      /\ \A p, spec : Offered(ss, ds, x, j - 1, p, spec)
                        => \E v \in H : Hides(v, Candidate(p, spec))
  BY DEF Decided
<1>5. ASSUME NEW v, Comes(ss, ds, x, j - 1, v)
      PROVE  Comes(ss, ds, x, j, v)
  BY <1>2, <1>5 DEF Comes
<1>6. ASSUME NEW p, NEW spec, Here(p, spec)
      PROVE  /\ PropDone(s.settings, up, p, spec) /\ Ranked(Candidate(p, spec)) /\ p.name = x
  <2>1. p \in PropsOf(d, p.node) /\ p.node \in DOMAIN s.nodes
    BY <1>6 DEF PropsOf
  <2>2. PropDone(s.settings, up, p, s.nodes[p.node])
    BY <2>1 DEF Settled, Sound, PropsDone
  <2>3. Offered(ss, ds, x, j, p, spec)
    BY <1>2, <1>6
  <2> QED
    BY <1>6, <2>2, <2>3, OfferedRanked
<1> HIDE DEF Here
<1>7. CASE x \notin DOMAIN s.settings
  <2>1. G = H
    BY <1>7 DEF GoesBy
  <2>2. \A p, spec : Here(p, spec) => \E v \in H : Hides(v, Candidate(p, spec))
    BY <1>6, <1>7 DEF PropDone, Hides
  <2> HIDE DEF G, H
  <2> QED
    BY <1>2, <1>4, <1>5, <2>1, <2>2 DEF Decided, G
<1>8. CASE x \in DOMAIN s.settings
  <2> DEFINE v == s.settings[x]
  <2>1. G = {v} /\ v \in Settings
    BY <1>3, <1>8 DEF GoesBy
  <2>2. Founded(s.nodes, up, d, x, v)
    BY <1>8 DEF Settled, Sound, SettingsFounded
  <2>3. v.values # {}
    BY <2>2 DEF Founded
  <2>4. ASSUME NEW p \in v.values
        PROVE  \E spec \in Specificities :
                  Offered(ss, ds, x, j, p, spec) /\ p.override = v.override /\ ~Below(spec, v.spec)
    <3>1. CASE Owned(s.nodes, d, x, v, p)
      <4>1. /\ Here(p, s.nodes[p.node]) /\ p.override = v.override
            /\ ~Below(s.nodes[p.node], v.spec) /\ s.nodes[p.node] \in Specificities
        BY <1>3, <3>1 DEF Owned, At, Here
      <4> QED
        BY <1>2, <4>1
    <3>2. CASE \E h \in H : p \in h.values /\ h.spec = v.spec /\ h.override = v.override
      <4>1. PICK h \in H : p \in h.values /\ h.spec = v.spec /\ h.override = v.override
        BY <3>2
      <4>2. Comes(ss, ds, x, j - 1, h)
        BY <1>4
      <4> QED
        BY <1>2, <4>1, <4>2 DEF Comes
    <3> QED
      BY <2>2, <3>1, <3>2 DEF Founded
  <2>5. Comes(ss, ds, x, j, v)
    BY <2>1, <2>3, <2>4 DEF Comes
  <2>6. ASSUME NEW p, NEW spec, Here(p, spec)
        PROVE  Hides(v, Candidate(p, spec))
    BY <1>6, <1>8, <2>6 DEF PropDone
  <2>7. ASSUME NEW p, NEW spec, Offered(ss, ds, x, j - 1, p, spec)
        PROVE  Hides(v, Candidate(p, spec))
    <3>1. PICK h \in H : Hides(h, Candidate(p, spec))
      BY <1>4, <2>7
    <3>2. Ranked(Candidate(p, spec))
      BY <1>2, <2>7, OfferedRanked
    <3> QED
      BY <1>3, <1>8, <2>1, <3>1, <3>2, HidesThrough
  <2> HIDE DEF G, v
  <2> QED
    BY <1>2, <2>1, <2>5, <2>6, <2>7 DEF Decided, G
<1> QED
  BY <1>7, <1>8

LEMMA StoryDecides ==
    ASSUME NEW ss, NEW ups, NEW ds, NEW ks, NEW m, Story(ss, ups, ds, ks, m), NEW x
    PROVE  \A j \in 1..m : Decided(ss, ds, x, j, GoesBy(ss[j], ups[j], x))
<1> DEFINE S == {j \in Nat : j \in 1..m => Decided(ss, ds, x, j, GoesBy(ss[j], ups[j], x))}
<1>1. /\ m \in Nat \ {0} /\ Linked(ss, ups, m)
      /\ \A j \in 1..m : WellFormed(ds[j]) /\ Settled(ss[j], ups[j], ds[j])
  BY StepsHere DEF Story
<1>2. \A j \in 1..m : Ranks(ss[j].nodes)
  BY <1>1 DEF Settled, StateOK, Ranks
<1>3. ASSUME NEW j \in 1..m, Decided(ss, ds, x, j - 1, Hidden(ups[j], x))
      PROVE  Decided(ss, ds, x, j, GoesBy(ss[j], ups[j], x))
  <2>1. j \in Nat /\ j >= 1 /\ \A i \in 1..j : i \in 1..m
    BY <1>1
  <2> QED
    BY <1>1, <1>2, <1>3, <2>1, StepDecides
<1>4. 0 \in S
  OBVIOUS
<1>5. ASSUME NEW i \in Nat, i \in S
      PROVE  i + 1 \in S
  <2> SUFFICES ASSUME NEW j, j = i + 1, j \in 1..m
               PROVE  Decided(ss, ds, x, j, GoesBy(ss[j], ups[j], x))
    OBVIOUS
  <2>1. CASE i = 0
    <3>1. DOMAIN ups[j] = {}
      BY <1>1, <2>1 DEF Linked
    <3>2. Hidden(ups[j], x) = {}
      BY <3>1 DEF Hidden, Nearest
    <3>3. Decided(ss, ds, x, j - 1, {})
      BY <2>1 DEF Decided, Offered
    <3> QED
      BY <1>3, <3>2, <3>3
  <2>2. CASE i # 0
    <3>1. i \in 1..m /\ i < m /\ j - 1 = i
      BY <1>1, <2>2
    <3>2. Hidden(ups[j], x) = GoesBy(ss[i], ups[i], x)
      BY <1>1, <3>1 DEF Linked
    <3> QED
      BY <1>3, <1>5, <3>1, <3>2
  <2> QED
    BY <2>1, <2>2
<1>6. Nat \subseteq S
  <2> HIDE DEF S
  <2> QED
    BY <1>4, <1>5, SimpleInduction
<1> QED
  BY <1>1, <1>6

\* The candidates that are to win by the rules are what the searches offer.
LEMMA CandidatesAre ==
    ASSUME NEW ss, NEW ups, NEW ds, NEW ks, NEW m, Story(ss, ups, ds, ks, m),
           ks[m] = ss[m].key, NEW x, NEW c
    PROVE  c \in Candidates(ds, ks, x)
             <=> \E p, s : /\ Offered(ss, ds, x, m, p, s)
                           /\ c = [spec |-> s, override |-> p.override, prop |-> p]
<1> DEFINE A == Active(ds, ks)
           Mine(p, j) == p.name = x /\ j \in 1..m /\ p \in ds[j].props
<1>1. /\ m \in Nat \ {0} /\ DOMAIN ks = 1..m /\ Last(ds) = ds[m] /\ WellFormed(ds[m])
      /\ \A j \in 1..m : PartOf(ds[j], ds[m])
  BY StepsHere DEF Story
<1>2. \A j \in 1..m : Agrees(ss, ds, m, A, j)
  BY StoryAgrees
<1> HIDE DEF A
<1>3. c \in Candidates(ds, ks, x)
        <=> \E p \in {q \in ds[m].props : q.name = x} : \E j \in {i \in 1..m : p \in ds[i].props} :
               \E s \in A[p.node][j] : c = [spec |-> s, override |-> p.override, prop |-> p]
  BY <1>1 DEF Candidates, A
<1>4. ASSUME NEW p, NEW j, Mine(p, j)
      PROVE  p \in ds[m].props /\ A[p.node][j] = Marks(ss[j].nodes, p.node)
  <2>1. p \in ds[m].props /\ p.node \in NodesOf(ds[m])
    BY <1>1, <1>4 DEF WellFormed, PartOf
  <2> QED
    BY <1>2, <1>4, <2>1 DEF Agrees
<1>5. c \in Candidates(ds, ks, x)
        <=> \E p, j, s : /\ Mine(p, j) /\ s \in Marks(ss[j].nodes, p.node)
                         /\ c = [spec |-> s, override |-> p.override, prop |-> p]
  BY <1>3, <1>4
<1>6. \A p, s : Offered(ss, ds, x, m, p, s)
                  <=> \E j : Mine(p, j) /\ s \in Marks(ss[j].nodes, p.node)
  BY DEF Offered, Marks
<1> HIDE DEF Mine
<1> QED
  BY <1>5, <1>6

\* The values gone by are those that win.
LEMMA GoesByWins ==
    ASSUME NEW ss, NEW ups, NEW ds, NEW ks, NEW m, Story(ss, ups, ds, ks, m),
           ks[m] = ss[m].key, NEW x
    PROVE  Winners(ds, ks, x) = UNION {v.values : v \in GoesBy(ss[m], ups[m], x)}
<1> DEFINE G == GoesBy(ss[m], ups[m], x)
           all == Candidates(ds, ks, x)
           As(p, s) == [spec |-> s, override |-> p.override, prop |-> p]
           O(p, s) == Offered(ss, ds, x, m, p, s)
           Wins(c) == c \in all /\ \A a \in all : ~Better(a, c)
<1>1. /\ m \in 1..m /\ \A j \in 1..m : WellFormed(ds[j]) /\ Settled(ss[j], ups[j], ds[j])
  BY StepsHere DEF Story
<1>2. Decided(ss, ds, x, m, G)
  BY <1>1, StoryDecides
<1>3. \A c : c \in all <=> \E p, s : O(p, s) /\ c = As(p, s)
  BY CandidatesAre
<1>4. \A p, s : O(p, s) => Ranked(As(p, s)) /\ Ranked(Candidate(p, s))
  <2>1. \A j \in 1..m : WellFormed(ds[j]) /\ Ranks(ss[j].nodes)
    BY <1>1 DEF Settled, StateOK, Ranks
  <2> QED
    BY <2>1, OfferedRanked DEF Ranked, Candidate
<1>5. \A p, s : As(p, s).spec = s /\ As(p, s).override = p.override /\ As(p, s).prop = p
  OBVIOUS
<1>6. \A v, p, s : /\ Better(v, Candidate(p, s)) <=> Better(v, As(p, s))
                   /\ Better(Candidate(p, s), v) <=> Better(As(p, s), v)
                   /\ Candidate(p, s).values = {p}
  BY DEF Better, Candidate
<1>7. \A y : y \in Winners(ds, ks, x) <=> \E c : Wins(c) /\ y = c.prop
  BY DEF Winners
<1> HIDE DEF As, O, all, G
<1>8. ASSUME NEW v \in G, NEW p \in v.values
      PROVE  \E s : /\ O(p, s) /\ Wins(As(p, s)) /\ ~Better(v, As(p, s))
  <2>1. v \in Settings /\ Ranked(v) /\ \A w \in G : w = v
    BY <1>2, SettingsRanked DEF Decided, Comes
  <2>2. PICK s \in Specificities : O(p, s) /\ p.override = v.override /\ ~Below(s, v.spec)
    BY <1>2 DEF Decided, Comes, O
  <2>3. ~Better(v, As(p, s)) /\ Ranked(As(p, s))
    BY <1>4, <1>5, <2>1, <2>2 DEF Better, Ranked
  <2>4. ASSUME NEW a \in all, Better(a, As(p, s)) PROVE FALSE
    <3>1. PICK q, r : O(q, r) /\ a = As(q, r)
      BY <1>3
    <3>2. Hides(v, Candidate(q, r))
      BY <1>2, <2>1, <3>1 DEF Decided, O
    <3>3. ~Better(a, v) /\ Ranked(a)
      BY <1>4, <1>6, <2>1, <3>1, <3>2, BetterOrder DEF Hides
    <3> QED
      BY <2>1, <2>3, <2>4, <3>3, BetterOrder
  <2> QED
    BY <1>3, <2>2, <2>3, <2>4
<1>9. ASSUME NEW c, Wins(c)
      PROVE  \E v \in G : c.prop \in v.values
  <2>1. PICK p, s : O(p, s) /\ c = As(p, s)
    BY <1>3, <1>9
  <2>2. PICK v \in G : Hides(v, Candidate(p, s))
    BY <1>2, <2>1 DEF Decided, O
  <2>3. CASE Better(v, Candidate(p, s))
    <3>1. PICK q \in v.values : TRUE
      BY <1>2 DEF Decided, Comes
    <3>2. PICK r : O(q, r) /\ Wins(As(q, r)) /\ ~Better(v, As(q, r))
      BY <1>8
    <3>3. Ranked(v) /\ Ranked(c) /\ Ranked(As(q, r)) /\ Better(v, c)
      BY <1>2, <1>4, <1>6, <2>1, <2>3, <3>2, SettingsRanked DEF Decided, Comes
    <3>4. Better(As(q, r), c)
      BY <3>2, <3>3, BetterOrder
    <3> QED
      BY <1>9, <3>2, <3>4
  <2>4. CASE ~Better(v, Candidate(p, s))
    BY <1>5, <1>6, <2>1, <2>2, <2>4 DEF Hides
  <2> QED
    BY <2>3, <2>4
<1>10. \A y : y \in Winners(ds, ks, x) <=> \E v \in G : y \in v.values
  BY <1>5, <1>7, <1>8, <1>9
<1> QED
  BY <1>10 DEF G

----------------------------------------------------------------------------
(* The key that a context ends with.                                       *)

\* A key says all that active nodes ask for.
Served(nodes, k, d) == \A n \in DOMAIN nodes : Matches(ConstraintOf(d, n), k)

(***************************************************************************)
(* The key says what was requested and what the nodes reached so far ask   *)
(* for, and nothing that some key could do without.                        *)
(***************************************************************************)
KeyWanted(r, key, nodes, up, d) ==
    /\ Matches(r, key) /\ Served(nodes, key, d)
    /\ \A others, k : Closed(others, k, up, d) /\ Matches(r, k) /\ Served(others, k, d)
                        => Matches(key, k)

RequestsOf(parent) == IF parent = None THEN {EmptyKey} ELSE Requests

KeyLeast(c) ==
    run[c].phase # "unused" =>
        \E r \in RequestsOf(state[c].parent) :
            KeyWanted(r, state[c].key, state[c].nodes, View(c), Rules(c))

(***************************************************************************)
(* Contexts are numbered as they are begun, so those above one have a      *)
(* smaller number, and were built with part of its rules.                  *)
(***************************************************************************)
Ordered(c) ==
    /\ run[c].phase # "unused" => \A b \in Contexts : b < c => run[b].phase # "unused"
    /\ \A a \in state[c].above : a < c /\ PartOf(seen[a], Rules(c))

Numbered == \A c \in Contexts : KeyLeast(c) /\ Ordered(c)

LEMMA MatchesAll ==
    ASSUME NEW a, NEW k
    PROVE  /\ Matches(k, AddAll(k, a)) /\ Matches(a, AddAll(k, a)) /\ Matches(k, k)
           /\ \A m : Matches(a, m) /\ Matches(k, m) => Matches(AddAll(k, a), m)
           /\ \A m, n : Matches(k, m) /\ Matches(m, n) => Matches(k, n)
BY DEF Matches, AddAll

LEMMA WantedStill ==
    ASSUME NEW r, NEW s, NEW t, NEW up, KeyWanted(r, s.key, s.nodes, up, dag), KeyGoesOn(s, t, up)
    PROVE  KeyWanted(r, t.key, t.nodes, up, dag)
<1>1. CASE t.key = s.key /\ DOMAIN t.nodes = DOMAIN s.nodes
  BY <1>1 DEF KeyWanted, Served
<1>2. ASSUME NEW n \in NodesOf(dag), NEW spec \in Specificities,
             Justified(s.key, up, dag, n, spec), t.key = AddAll(s.key, ConstraintOf(dag, n)),
             DOMAIN t.nodes = DOMAIN s.nodes \cup {n}
      PROVE  KeyWanted(r, t.key, t.nodes, up, dag)
  <2> DEFINE k0 == s.key
             a == ConstraintOf(dag, n)
  <2>1. Matches(r, k0) /\ \A q \in DOMAIN s.nodes : Matches(ConstraintOf(dag, q), k0)
    BY DEF KeyWanted, Served
  <2>2. /\ Matches(k0, t.key) /\ Matches(a, t.key)
        /\ \A m : Matches(a, m) /\ Matches(k0, m) => Matches(t.key, m)
    BY <1>2, MatchesAll
  <2>3. Matches(r, t.key) /\ Served(t.nodes, t.key, dag)
    BY <1>2, <2>1, <2>2, MatchesAll DEF Served
  <2>4. ASSUME NEW others, NEW k, Closed(others, k, up, dag), Matches(r, k), Served(others, k, dag)
        PROVE  Matches(t.key, k)
    <3>1. Matches(k0, k)
      BY <2>4 DEF KeyWanted
    <3>2. n \in DOMAIN others
      BY <1>2, <2>4, <3>1 DEF Justified, At
    <3>3. Matches(a, k)
      BY <2>4, <3>2 DEF Served
    <3> QED
      BY <2>2, <3>1, <3>3
  <2> QED
    BY <2>3, <2>4 DEF KeyWanted
<1> QED
  BY <1>1, <1>2 DEF KeyGoesOn

\* The key at the beginning of a search is what was requested.
LEMMA WantedFirst ==
    ASSUME NEW r, NEW nodes, DOMAIN nodes = {}, NEW up, NEW d
    PROVE  KeyWanted(r, r, nodes, up, d)
BY DEF KeyWanted, Served, Matches

LEMMA NumberedFirst == DomainInit => Numbered
<1> SUFFICES ASSUME DomainInit, NEW c \in Contexts PROVE KeyLeast(c) /\ Ordered(c)
  BY DEF Numbered
<1>1. run[c].phase = "unused" /\ state[c].above = {}
  BY DEF DomainInit, Init, Idle, Unused, NewState
<1> QED
  BY <1>1 DEF KeyLeast, Ordered

\* What the beginning of a search does to a context.
LEMMA StartWanted ==
    ASSUME IInv, DomainSearched, NEW c \in Contexts, Start(c)
    PROVE  /\ \E r \in RequestsOf(state'[c].parent) :
                 KeyWanted(r, state'[c].key, state'[c].nodes, View(c)', dag)
           /\ \/ state'[c].above = {}
              \/ \E p \in Built : state'[c].above = {p} \cup state[p].above
<1>1. /\ c \notin Built /\ \A b \in Contexts \ {c} : state'[b] = state[b] /\ run'[b] = run[b]
      /\ run[c].phase = "unused" /\ DOMAIN state = Contexts
      /\ WellFormed(dag) /\ StateOK(state[c])
  BY StepIsLocal, SearchAssumption DEF Indexed, IInv, TypeOK, Start, Built
<1>2. state'[c].above \subseteq Built
  BY StartBegins
<1>3. View(c)' = Above(state'[c])
  BY <1>1, <1>2, SearchFramed
<1>4. CASE StartRoot(c)
  <2> DEFINE t == Activated(Unused, Root, Spec0)
  <2>1. state'[c] = t
    <3> HIDE DEF t
    <3> QED
      BY <1>1, <1>4 DEF StartRoot, t
  <2>2. state[c] = Unused
    <3>1. Searched(state[c], run[c], View(c), Rules(c))
      BY DEF DomainSearched
    <3> QED
      BY <1>1, <3>1 DEF Searched, Rounds
  <2>3. /\ Unused.parent = None /\ Unused.above = {} /\ Unused.key = EmptyKey
        /\ DOMAIN Unused.nodes = {}
    BY DEF Unused, NewState
  <2>4. Root \in NodesOf(dag) /\ Spec0 \in Specificities
    BY <1>1 DEF WellFormed, NodesOf, Root, Spec0, Specificities
  <2> DEFINE up == View(c)'
  <2>5. /\ t.parent = None /\ t.above = {} /\ t.key = AddAll(EmptyKey, ConstraintOf(dag, Root))
        /\ t.nodes = NodesAfter(Unused.nodes, Root, Spec0)
    BY <1>1, <2>2, <2>3, <2>4, ActivatedFields
  <2> HIDE DEF t
  <2>6. DOMAIN t.nodes = DOMAIN Unused.nodes \cup {Root}
    BY <2>3, <2>5 DEF NodesAfter, News, Put
  <2>7. DOMAIN up = {}
    BY <1>3, <2>1, <2>5 DEF Above
  <2> HIDE DEF up
  <2>8. KeyGoesOn(Unused, t, up)
    BY <2>3, <2>4, <2>5, <2>6, <2>7, RootJustified DEF KeyGoesOn
  <2>9. KeyWanted(EmptyKey, Unused.key, Unused.nodes, up, dag)
    BY <2>3, WantedFirst
  <2>10. KeyWanted(EmptyKey, t.key, t.nodes, up, dag)
    BY <2>8, <2>9, WantedStill
  <2> QED
    BY <2>1, <2>5, <2>10 DEF RequestsOf, up
<1>5. ASSUME NEW p \in Built, NEW requested \in Requests, StartChild(c, p, requested)
      PROVE  /\ \E r \in RequestsOf(state'[c].parent) :
                   KeyWanted(r, state'[c].key, state'[c].nodes, View(c)', dag)
             /\ state'[c].above = {p} \cup state[p].above
  <2> DEFINE t == NewState(p, {p} \cup state[p].above, requested)
  <2>1. state'[c] = t
    BY <1>1, <1>5 DEF StartChild
  <2>2. /\ t.parent = p /\ t.above = {p} \cup state[p].above /\ t.key = requested
        /\ DOMAIN t.nodes = {}
    BY DEF NewState
  <2>3. p # None
    BY DEF Built, Contexts, None
  <2> HIDE DEF t
  <2> DEFINE up == View(c)'
  <2> HIDE DEF up
  <2>4. KeyWanted(requested, t.key, t.nodes, up, dag)
    BY <2>2, WantedFirst
  <2> QED
    BY <2>1, <2>2, <2>3, <2>4 DEF RequestsOf, up
<1> QED
  BY <1>4, <1>5 DEF Start

\* What a step of a search does to the same.
LEMMA StepWanted ==
    ASSUME IInv, DomainSearched, NEW c \in Contexts, Step(c), KeyLeast(c)
    PROVE  /\ \E r \in RequestsOf(state'[c].parent) :
                 KeyWanted(r, state'[c].key, state'[c].nodes, View(c)', dag)
           /\ state'[c].above = state[c].above /\ run[c].phase = "building"
<1>1. /\ run[c].phase = "building" /\ c \notin Built /\ Rules(c) = dag
      /\ state'[c].parent = state[c].parent
  BY StepGrows DEF Grows, Built, Rules
<1>2. /\ KeyGoesOn(state[c], state'[c], View(c)) /\ state'[c].above = state[c].above
  BY DomainUnderway, StepSearches
<1>3. \A b \in Contexts \ {c} : state'[b] = state[b] /\ run'[b] = run[b]
  BY StepIsLocal DEF Indexed, IInv, TypeOK
<1>4. state[c].above \subseteq Built
  BY DEF IInv, LineageOK
<1>5. View(c)' = Above(state'[c]) /\ View(c) = Above(state'[c])
  BY <1>1, <1>2, <1>3, <1>4, SearchFramed DEF View, Above
<1>6. PICK r \in RequestsOf(state[c].parent) :
          KeyWanted(r, state[c].key, state[c].nodes, View(c), dag)
  BY <1>1 DEF KeyLeast
<1>7. KeyWanted(r, state'[c].key, state'[c].nodes, View(c), dag)
  BY <1>2, <1>6, WantedStill
<1>8. View(c)' = View(c)
  BY <1>5
<1> QED
  BY <1>1, <1>2, <1>6, <1>7, <1>8

\* A construction leaves everything else alone.
LEMMA ConstructFrames ==
    ASSUME IInv, DomainSearched, NEW c \in Contexts, Construct(c)
    PROVE  /\ dag' = dag /\ c \notin Built /\ seen'[c] = dag
           /\ \A b \in Contexts \ {c} : /\ state'[b] = state[b] /\ run'[b] = run[b]
                                        /\ View(b)' = View(b)
           /\ \A b \in Built : b \in Contexts /\ b \in DOMAIN seen /\ b # c /\ seen'[b] = seen[b]
<1>1. /\ dag' = dag /\ c \notin Built
      /\ \A b \in Contexts \ {c} : /\ state'[b] = state[b] /\ run'[b] = run[b]
                                   /\ View(b)' = View(b)
  BY DomainUnderway, ConstructionSearches DEF Construct
<1>2. seen'[c] = dag /\ \A b \in DOMAIN seen \ {c} : seen'[b] = seen[b]
  <2>1. CASE Start(c) /\ seen' = Put(seen, c, dag)
    <3>1. DOMAIN seen' = DOMAIN seen \cup {c}
      BY <2>1 DEF Put
    <3>2. \A b \in DOMAIN seen' : seen'[b] = IF b = c THEN dag ELSE seen[b]
      BY <2>1 DEF Put
    <3> QED
      BY <3>1, <3>2
  <2>2. CASE Step(c) /\ UNCHANGED seen
    BY <2>2 DEF Step, DomainSearched, SeenOK
  <2> QED
    BY <2>1, <2>2 DEF Construct
<1> QED
  BY <1>1, <1>2 DEF Built, DomainSearched, SeenOK

LEMMA NumberedConstruct ==
    ASSUME IInv, DomainSearched, Numbered, NEW c \in Contexts, Construct(c)
    PROVE  Numbered'
<1>1. /\ dag' = dag /\ c \notin Built /\ seen'[c] = dag
      /\ \A b \in Contexts \ {c} : /\ state'[b] = state[b] /\ run'[b] = run[b]
                                   /\ View(b)' = View(b)
  BY ConstructFrames
<1>2. \A b \in Built : b \in Contexts /\ b \in DOMAIN seen /\ b # c /\ seen'[b] = seen[b]
  BY ConstructFrames
<1>3. \A b \in Contexts : state[b].above \subseteq Built
  BY DEF IInv, LineageOK
<1>4. \A b \in Contexts \ {c} : Rules(b)' = Rules(b)
  BY <1>1, <1>2 DEF Rules, Built
<1>5. Rules(c)' = dag
  BY <1>1 DEF Rules
<1>6. \A a \in Built : PartOf(seen[a], dag)
  BY <1>2 DEF DomainSearched, SeenOK
<1>7. run'[c].phase # "unused"
  <2>1. CASE Start(c)
    BY <2>1, StartBegins
  <2>2. CASE Step(c)
    BY <2>2, StepGrows DEF Grows
  <2> QED
    BY <2>1, <2>2 DEF Construct
<1>8. ASSUME NEW b \in Contexts \ {c}
      PROVE  KeyLeast(b)' /\ Ordered(b)'
  <2>1. KeyLeast(b)'
    <3>1. KeyLeast(b)
      BY DEF Numbered
    <3> QED
      BY <1>1, <1>4, <3>1 DEF KeyLeast
  <2>2. Ordered(b)
    BY DEF Numbered
  <2>3. run'[b].phase # "unused" => \A a \in Contexts : a < b => run'[a].phase # "unused"
    BY <1>1, <1>7, <2>2 DEF Ordered
  <2>4. \A a \in state'[b].above : a < b /\ PartOf(seen'[a], Rules(b)')
    BY <1>1, <1>2, <1>3, <1>4, <2>2 DEF Ordered
  <2> QED
    BY <2>1, <2>3, <2>4 DEF Ordered
<1>9. KeyLeast(c)' /\ Ordered(c)'
  <2> SUFFICES /\ \E r \in RequestsOf(state'[c].parent) :
                     KeyWanted(r, state'[c].key, state'[c].nodes, View(c)', dag)
               /\ \A b \in Contexts : b < c => run'[b].phase # "unused"
               /\ state'[c].above \subseteq Built /\ \A a \in state'[c].above : a < c
    BY <1>2, <1>5, <1>6 DEF KeyLeast, Ordered
  <2>1. KeyLeast(c) /\ Ordered(c)
    BY DEF Numbered
  <2>2. CASE Start(c)
    <3>1. /\ \A b \in Contexts : b < c => run[b].phase # "unused"
          /\ run[c].phase = "unused"
      BY <2>2 DEF Start
    <3>2. \A b \in Built : b < c /\ Ordered(b)
      <4> SUFFICES ASSUME NEW b \in Built, ~(b < c) PROVE FALSE
        BY <1>2 DEF Numbered
      <4>1. b \in Contexts /\ b # c /\ Ordered(b) /\ run[b].phase # "unused"
        BY <1>2 DEF Numbered, Built
      <4>2. c < b
        BY <4>1 DEF Contexts
      <4> QED
        BY <3>1, <4>1, <4>2 DEF Ordered
    <3>3. \A b \in Contexts : b < c => run'[b].phase # "unused"
      BY <1>1, <3>1 DEF Contexts
    <3>4. state'[c].above \subseteq Built
      BY <2>2, StartBegins
    <3> QED
      BY <2>2, <3>2, <3>3, <3>4, StartWanted
  <2>3. CASE Step(c)
    <3>1. /\ state'[c].above = state[c].above /\ run[c].phase = "building"
          /\ \E r \in RequestsOf(state'[c].parent) :
                 KeyWanted(r, state'[c].key, state'[c].nodes, View(c)', dag)
      BY <2>1, <2>3, StepWanted
    <3>2. \A b \in Contexts : b < c => run'[b].phase # "unused"
      BY <1>1, <2>1, <3>1 DEF Ordered, Contexts
    <3> QED
      BY <1>3, <2>1, <3>1, <3>2 DEF Ordered
  <2> QED
    BY <2>2, <2>3 DEF Construct
<1> QED
  BY <1>8, <1>9 DEF Numbered

LEMMA NumberedLoad ==
    ASSUME IInv, DomainSearched, Numbered, Load
    PROVE  Numbered'
<1>1. /\ state' = state /\ run' = run /\ seen' = seen /\ Building = {} /\ Built' = Built
  BY DEF Load, Built
<1> SUFFICES ASSUME NEW c \in Contexts PROVE KeyLeast(c)' /\ Ordered(c)'
  BY DEF Numbered
<1>2. KeyLeast(c) /\ Ordered(c) /\ View(c)' = View(c)
  BY <1>1 DEF Numbered, View
<1>3. CASE c \in Built
  <2>1. Rules(c)' = Rules(c)
    BY <1>1, <1>3 DEF Rules
  <2>2. KeyLeast(c)'
    BY <1>1, <1>2, <2>1 DEF KeyLeast
  <2> QED
    BY <1>1, <1>2, <2>1, <2>2 DEF Ordered
<1>4. CASE c \notin Built
  <2>1. run[c].phase = "unused"
    BY <1>1, <1>4 DEF Building, Built, IInv, TypeOK, RunOK
  <2>2. Searched(state[c], run[c], View(c), Rules(c))
    BY DEF DomainSearched
  <2>3. state[c].above = {}
    BY <2>1, <2>2 DEF Searched, Rounds, Unused, NewState
  <2> QED
    BY <1>1, <2>1, <2>3 DEF KeyLeast, Ordered
<1> QED
  BY <1>3, <1>4

LEMMA NumberedNext ==
    IInv /\ DomainSearched /\ Numbered /\ [DomainNext]_domainVars => Numbered'
<1>1. CASE UNCHANGED domainVars
  <2>1. dag' = dag /\ state' = state /\ run' = run /\ seen' = seen
    BY <1>1 DEF domainVars
  <2>2. \A c : View(c)' = View(c) /\ Rules(c)' = Rules(c)
    BY <2>1 DEF View, Rules, Built
  <2> SUFFICES ASSUME Numbered, NEW c \in Contexts PROVE KeyLeast(c)' /\ Ordered(c)'
    BY DEF Numbered
  <2>3. KeyLeast(c) /\ Ordered(c)
    BY DEF Numbered
  <2>4. KeyLeast(c)'
    BY <2>1, <2>2, <2>3 DEF KeyLeast
  <2> QED
    BY <2>1, <2>2, <2>3, <2>4 DEF Ordered
<1> QED
  BY <1>1, NumberedConstruct, NumberedLoad DEF DomainNext

\* All that is known of the contexts and the searches of a domain.
Known == IInv /\ DomainSearched /\ Numbered

\* The key of every context, at any time, is the least that its request and
\* the rules met so far call for, and contexts are numbered as they are begun.
THEOREM KeysLeastAlways == DomainSpec => []Known
<1>1. DomainInit => Numbered
  BY NumberedFirst
<1>2. IInv /\ DomainSearched /\ Numbered /\ [DomainNext]_domainVars => Numbered'
  BY NumberedNext
<1> QED
  BY <1>1, <1>2, DomainSearchedAlways, PTL DEF DomainSpec, Known

----------------------------------------------------------------------------
(* The steps that lead to a context.                                       *)

\* A context is a root, or under another one that was built before.
LEMMA Parents ==
    ASSUME Known, NEW c \in Built
    PROVE  LET p == state[c].parent
           IN  /\ c \in Nat \ {0} /\ seen[c] \in Dags /\ state[c].key \in Keys
               /\ \A a \in state[c].above : PartOf(seen[a], seen[c])
               /\ \/ p = None /\ state[c].above = {}
                  \/ /\ p \in Built /\ p < c /\ p # None /\ state[c].above = {p} \cup state[p].above
                     /\ \A a \in state[p].above : a \in Built /\ a < p
<1> DEFINE p == state[c].parent
<1>1. \A b \in Built : b \in Contexts /\ b \in Nat \ {0} /\ Rules(b) = seen[b] /\ seen[b] \in Dags
  BY BuiltUnder, SearchAssumption DEF Known, Built, Contexts, Rules
<1>2. \A b \in Built : /\ state[b].above \subseteq Built
                       /\ \A a \in state[b].above : a < b /\ PartOf(seen[a], seen[b])
  BY <1>1 DEF Known, IInv, LineageOK, Numbered, Ordered
<1>3. Lineage(state[c], View(c)) /\ state[c].key \in Keys
  BY <1>1, BuiltUnder DEF Known, Searched, IInv, TypeOK, StateOK
<1>4. DOMAIN View(c) = state[c].above /\ \A a \in state[c].above : View(c)[a] = state[a]
  BY DEF View
<1>5. CASE p = None
  BY <1>1, <1>2, <1>3, <1>5 DEF Lineage
<1>6. CASE p # None
  <2>1. p \in state[c].above /\ state[c].above = {p} \cup state[p].above
    BY <1>3, <1>4, <1>6 DEF Lineage
  <2> QED
    BY <1>1, <1>2, <1>3, <1>6, <2>1
<1> QED
  BY <1>5, <1>6

\* What a context looks up to is what its parent goes by.
LEMMA LookingUp ==
    ASSUME Known, NEW c \in Built, NEW p, p = state[c].parent, p # None
    PROVE  /\ \A x : Hidden(View(c), x) = GoesBy(state[p], View(p), x)
           /\ \A t : HiddenTally(View(c), t) = TallyBy(state[p], View(p), t)
<1>1. /\ p \in Built /\ state[c].above = {p} \cup state[p].above
      /\ \A a \in state[p].above : a < p
  BY Parents
<1>2. p \in Nat /\ \A a \in state[p].above : a \in Nat
  BY <1>1, Parents
<1>3. \A b : /\ DOMAIN View(b) = state[b].above
             /\ \A a \in state[b].above : View(b)[a] = state[a]
  BY DEF View
<1>4. ASSUME NEW cs \in SUBSET state[c].above, p \in cs
      PROVE  Nearest(cs) = {p}
  <2>1. \A a \in cs : a \in Nat /\ a <= p
    BY <1>1, <1>2
  <2>2. p \in Nearest(cs) /\ \A a \in Nearest(cs) : a \in cs /\ p <= a
    BY <1>4, <2>1 DEF Nearest
  <2>3. \A a \in Nearest(cs) : a = p
    BY <1>2, <2>1, <2>2
  <2> QED
    BY <2>2, <2>3
<1>5. \A b : \A cs \in SUBSET state[b].above : \A a \in Nearest(cs) : View(b)[a] = state[a]
  BY <1>3 DEF Nearest
<1>6. ASSUME NEW x
      PROVE  Hidden(View(c), x) = GoesBy(state[p], View(p), x)
  <2> DEFINE Having(b) == {a \in DOMAIN View(b) : x \in DOMAIN View(b)[a].settings}
  <2>1. \A b : /\ Hidden(View(b), x) = {View(b)[a].settings[x] : a \in Nearest(Having(b))}
               /\ Having(b) = {a \in state[b].above : x \in DOMAIN state[a].settings}
    BY <1>3 DEF Hidden
  <2>2. \A b : Having(b) \in SUBSET state[b].above
    BY <2>1
  <2>3. CASE x \in DOMAIN state[p].settings
    <3>1. p \in Having(c)
      BY <1>1, <2>1, <2>3
    <3>2. Nearest(Having(c)) = {p} /\ View(c)[p] = state[p]
      BY <1>1, <1>3, <1>4, <2>2, <3>1
    <3> HIDE DEF Having
    <3> QED
      BY <2>1, <2>3, <3>2 DEF GoesBy
  <2>4. CASE x \notin DOMAIN state[p].settings
    <3>1. Having(c) = Having(p)
      BY <1>1, <2>1, <2>4
    <3> DEFINE near == Nearest(Having(p))
    <3>2. \A a \in near : View(c)[a] = View(p)[a]
      BY <1>5, <2>2, <3>1
    <3>3. /\ Hidden(View(c), x) = {View(c)[a].settings[x] : a \in near}
          /\ Hidden(View(p), x) = {View(p)[a].settings[x] : a \in near}
      BY <2>1, <3>1
    <3> HIDE DEF near
    <3>4. Hidden(View(c), x) = Hidden(View(p), x)
      BY <3>2, <3>3
    <3> QED
      BY <2>4, <3>4 DEF GoesBy
  <2> QED
    BY <2>3, <2>4
<1>7. ASSUME NEW t
      PROVE  HiddenTally(View(c), t) = TallyBy(state[p], View(p), t)
  <2> DEFINE Having(b) == {a \in DOMAIN View(b) : t.node \in DOMAIN View(b)[a].tallies}
  <2>1. \A b : /\ HiddenTally(View(b), t) = {View(b)[a].tallies[t.node] : a \in Nearest(Having(b))}
               /\ Having(b) = {a \in state[b].above : t.node \in DOMAIN state[a].tallies}
    BY <1>3 DEF HiddenTally
  <2>2. \A b : Having(b) \in SUBSET state[b].above
    BY <2>1
  <2>3. CASE t.node \in DOMAIN state[p].tallies
    <3>1. p \in Having(c)
      BY <1>1, <2>1, <2>3
    <3>2. Nearest(Having(c)) = {p} /\ View(c)[p] = state[p]
      BY <1>1, <1>3, <1>4, <2>2, <3>1
    <3> HIDE DEF Having
    <3> QED
      BY <2>1, <2>3, <3>2 DEF TallyBy
  <2>4. CASE t.node \notin DOMAIN state[p].tallies
    <3>1. Having(c) = Having(p)
      BY <1>1, <2>1, <2>4
    <3> DEFINE near == Nearest(Having(p))
    <3>2. \A a \in near : View(c)[a] = View(p)[a]
      BY <1>5, <2>2, <3>1
    <3>3. /\ HiddenTally(View(c), t) = {View(c)[a].tallies[t.node] : a \in near}
          /\ HiddenTally(View(p), t) = {View(p)[a].tallies[t.node] : a \in near}
      BY <3>1 DEF HiddenTally
    <3> HIDE DEF near
    <3>4. HiddenTally(View(c), t) = HiddenTally(View(p), t)
      BY <3>2, <3>3
    <3> QED
      BY <2>4, <3>4 DEF TallyBy
  <2> QED
    BY <2>3, <2>4
<1> QED
  BY <1>6, <1>7

\* The contexts from the root one down to c.
PathTo(P, m, c) ==
    /\ m \in Nat \ {0} /\ P \in [1..m -> Built] /\ P[m] = c
    /\ state[P[1]].parent = None
    /\ \A j \in 1..m : j < m => state[P[j + 1]].parent = P[j]

LEMMA PathGoesOn ==
    ASSUME NEW p, NEW c \in Built, p = state[c].parent, NEW P, NEW m, PathTo(P, m, p)
    PROVE  LET Q == [j \in 1..(m + 1) |-> IF j <= m THEN P[j] ELSE c]
           IN  /\ PathTo(Q, m + 1, c) /\ m \in Nat \ {0} /\ P \in [1..m -> Built]
               /\ \A j \in 1..m : j \in 1..(m + 1) /\ Q[j] = P[j]
<1> DEFINE Q == [j \in 1..(m + 1) |-> IF j <= m THEN P[j] ELSE c]
<1>1. m \in Nat \ {0} /\ P \in [1..m -> Built] /\ P[m] = p
  BY DEF PathTo
<1>2. Q \in [1..(m + 1) -> Built] /\ Q[m + 1] = c /\ \A j \in 1..m : Q[j] = P[j]
  BY <1>1
<1>3. state[Q[1]].parent = None
  BY <1>1, <1>2 DEF PathTo
<1> HIDE DEF Q
<1>4. ASSUME NEW j \in 1..(m + 1), j < m + 1
      PROVE  state[Q[j + 1]].parent = Q[j]
  <2>1. CASE j = m
    BY <1>1, <1>2, <2>1
  <2>2. CASE j < m
    <3>1. j \in 1..m /\ j + 1 \in 1..m
      BY <1>1, <2>2
    <3> QED
      BY <1>2, <2>2, <3>1 DEF PathTo
  <2> QED
    BY <1>1, <1>4, <2>1, <2>2
<1>5. PathTo(Q, m + 1, c)
  BY <1>1, <1>2, <1>3, <1>4 DEF PathTo
<1> QED
  BY <1>1, <1>2, <1>5 DEF Q

LEMMA PathsExist ==
    ASSUME Known, NEW c \in Built
    PROVE  \E P, m : PathTo(P, m, c)
<1> DEFINE S == {n \in Nat : n \in Built => \E P, m : PathTo(P, m, n)}
<1>1. ASSUME NEW n \in Nat, \A b \in Nat : b < n => b \in S
      PROVE  n \in S
  <2> SUFFICES ASSUME n \in Built PROVE \E P, m : PathTo(P, m, n)
    OBVIOUS
  <2> DEFINE p == state[n].parent
  <2>1. CASE p = None
    <3>1. PathTo([j \in 1..1 |-> n], 1, n)
      BY <2>1 DEF PathTo
    <3> QED
      BY <3>1
  <2>2. CASE p # None
    <3>1. p \in Built /\ p \in Nat /\ p < n
      BY <2>2, Parents
    <3>2. PICK P, m : PathTo(P, m, p)
      BY <1>1, <3>1
    <3> DEFINE Q == [j \in 1..(m + 1) |-> IF j <= m THEN P[j] ELSE n]
    <3>3. PathTo(Q, m + 1, n)
      <4> HIDE DEF S
      <4> QED
        BY <3>2, PathGoesOn
    <3> HIDE DEF Q
    <3> QED
      BY <3>3
  <2> QED
    BY <2>1, <2>2
<1> HIDE DEF S
<1>2. Nat \subseteq S
  BY <1>1, StrongInduction
<1> QED
  BY <1>2, Parents DEF S

\* What a context looks up to is what comes before it on its path.
LEMMA PathAbove ==
    ASSUME Known, NEW c, NEW P, NEW m, PathTo(P, m, c)
    PROVE  \A j \in 1..m : \A a : a \in state[P[j]].above <=> \E i \in 1..(j - 1) : a = P[i]
<1> DEFINE Good(j) == \A a : a \in state[P[j]].above <=> \E i \in 1..(j - 1) : a = P[i]
           S == {j \in Nat : j \in 1..m => Good(j)}
<1>1. m \in Nat \ {0} /\ \A j \in 1..m : P[j] \in Built
  BY DEF PathTo
<1>2. 0 \in S
  OBVIOUS
<1>3. ASSUME NEW i \in Nat, i \in S
      PROVE  i + 1 \in S
  <2> SUFFICES ASSUME i + 1 \in 1..m PROVE Good(i + 1)
    OBVIOUS
  <2>1. CASE i = 0
    <3>1. state[P[1]].above = {}
      BY <1>1, Parents DEF PathTo
    <3> QED
      BY <2>1, <3>1
  <2>2. CASE i # 0
    <3>1. i \in 1..m /\ i < m /\ state[P[i + 1]].parent = P[i]
      BY <1>1, <2>2 DEF PathTo
    <3>2. state[P[i + 1]].above = {P[i]} \cup state[P[i]].above
      <4>1. P[i] # None
        BY <1>1, <3>1, Parents DEF None
      <4> QED
        BY <1>1, <3>1, <4>1, Parents
    <3>3. Good(i)
      BY <1>3, <3>1
    <3> QED
      BY <3>1, <3>2, <3>3
  <2> QED
    BY <2>1, <2>2
<1> HIDE DEF S
<1>4. Nat \subseteq S
  BY <1>2, <1>3, SimpleInduction
<1> SUFFICES ASSUME NEW j \in 1..m PROVE Good(j)
  OBVIOUS
<1>5. j \in S
  BY <1>1, <1>4
<1> QED
  BY <1>5 DEF S

\* The states, the rules and the keys on a path, with any key at its end.
StatesOn(P, m) == [j \in 1..m |-> state[P[j]]]

ViewsOn(P, m) == [j \in 1..m |-> View(P[j])]

RulesOn(P, m) == [j \in 1..m |-> seen[P[j]]]

KeysOn(P, m, k) == [j \in 1..m |-> IF j < m THEN state[P[j]].key ELSE k]

LEMMA PathStory ==
    ASSUME Known, NEW c, NEW P, NEW m, PathTo(P, m, c), NEW k \in Keys
    PROVE  Story(StatesOn(P, m), ViewsOn(P, m), RulesOn(P, m), KeysOn(P, m, k), m)
<1> DEFINE ss == StatesOn(P, m)
           ups == ViewsOn(P, m)
           ds == RulesOn(P, m)
           ks == KeysOn(P, m, k)
<1>1. m \in Nat \ {0} /\ \A j \in 1..m : P[j] \in Built
  BY DEF PathTo
<1>2. /\ DOMAIN ds = 1..m /\ DOMAIN ks = 1..m
      /\ \A j \in 1..m : /\ ss[j] = state[P[j]] /\ ups[j] = View(P[j]) /\ ds[j] = seen[P[j]]
                         /\ ks[j] = IF j < m THEN state[P[j]].key ELSE k
  BY DEF StatesOn, ViewsOn, RulesOn, KeysOn
<1>3. \A j \in 1..m : /\ P[j] # None /\ ds[j] \in Dags /\ WellFormed(ds[j]) /\ ks[j] \in Keys
                      /\ \A a \in state[P[j]].above : PartOf(seen[a], ds[j])
  <2> SUFFICES ASSUME NEW j \in 1..m
               PROVE  /\ P[j] # None /\ ds[j] \in Dags /\ WellFormed(ds[j]) /\ ks[j] \in Keys
                      /\ \A a \in state[P[j]].above : PartOf(seen[a], ds[j])
    OBVIOUS
  <2>1. /\ P[j] # None /\ seen[P[j]] \in Dags /\ state[P[j]].key \in Keys
        /\ \A a \in state[P[j]].above : PartOf(seen[a], seen[P[j]])
    BY <1>1, Parents DEF None
  <2> QED
    BY <1>2, <2>1, SearchAssumption
<1>4. \A j \in 1..m : \A a : a \in state[P[j]].above <=> \E i \in 1..(j - 1) : a = P[i]
  BY PathAbove
<1>5. \A j \in 1..m, i \in 1..m : i < j => P[i] \in state[P[j]].above /\ i \in 1..(j - 1)
  BY <1>1, <1>4
<1>6. ds \in Seq(Dags) /\ Len(ds) = m /\ ks \in Seq(Keys) /\ Len(ks) = m
  <2>1. ds \in [1..m -> Dags] /\ ks \in [1..m -> Keys]
    BY <1>2, <1>3 DEF RulesOn, KeysOn
  <2> HIDE DEF ds, ks
  <2> QED
    BY <1>1, <2>1
<1> HIDE DEF ss, ups, ds, ks
<1>7. \A j \in 1..m : \A i \in 1..j : PartOf(ds[i], ds[j])
  <2> SUFFICES ASSUME NEW j \in 1..m, NEW i \in 1..j PROVE PartOf(ds[i], ds[j])
    OBVIOUS
  <2>1. CASE i = j
    BY <1>3, <2>1 DEF PartOf, WellFormed
  <2>2. CASE i # j
    <3>1. i \in 1..m /\ i < j
      BY <1>1, <2>2
    <3> QED
      BY <1>2, <1>3, <1>5, <3>1
  <2> QED
    BY <2>1, <2>2
<1>8. Linked(ss, ups, m)
  <2>1. ASSUME NEW j \in 1..m
        PROVE  /\ \A a \in DOMAIN ups[j] : \E i \in 1..(j - 1) : ups[j][a] = ss[i]
               /\ \A i \in 1..(j - 1) : \E a \in DOMAIN ups[j] : ups[j][a] = ss[i]
    <3>1. DOMAIN ups[j] = state[P[j]].above /\ \A a \in state[P[j]].above : ups[j][a] = state[a]
      BY <1>2 DEF View
    <3>2. \A i \in 1..(j - 1) : i \in 1..m /\ ss[i] = state[P[i]]
      BY <1>1, <1>2
    <3>3. \A a \in DOMAIN ups[j] : \E i \in 1..(j - 1) : ups[j][a] = ss[i]
      <4> SUFFICES ASSUME NEW a \in DOMAIN ups[j]
                   PROVE  \E i \in 1..(j - 1) : ups[j][a] = ss[i]
        OBVIOUS
      <4>1. PICK i \in 1..(j - 1) : a = P[i]
        BY <1>4, <3>1
      <4> QED
        BY <3>1, <3>2, <4>1
    <3>4. \A i \in 1..(j - 1) : \E a \in DOMAIN ups[j] : ups[j][a] = ss[i]
      <4> SUFFICES ASSUME NEW i \in 1..(j - 1)
                   PROVE  \E a \in DOMAIN ups[j] : ups[j][a] = ss[i]
        OBVIOUS
      <4>1. P[i] \in DOMAIN ups[j] /\ ups[j][P[i]] = ss[i]
        BY <1>4, <3>1, <3>2
      <4> QED
        BY <4>1
    <3> QED
      BY <3>3, <3>4
  <2>2. ASSUME NEW j \in 1..m, j < m
        PROVE  /\ \A x : Hidden(ups[j + 1], x) = GoesBy(ss[j], ups[j], x)
               /\ \A t : HiddenTally(ups[j + 1], t) = TallyBy(ss[j], ups[j], t)
    <3>1. j + 1 \in 1..m /\ state[P[j + 1]].parent = P[j]
      BY <1>1, <2>2 DEF PathTo
    <3> QED
      BY <1>1, <1>2, <1>3, <3>1, LookingUp
  <2> QED
    BY <2>1, <2>2 DEF Linked
<1>9. \A j \in 1..m : Settled(ss[j], ups[j], ds[j])
  BY <1>1, <1>2, BuiltUnder, BuiltSettled DEF Known
<1>10. \A j \in 1..m : j < m => ks[j] = ss[j].key
  BY <1>2
<1>11. Steps(ds, ks, m)
  <2>1. DOMAIN ds = 1..m /\ DOMAIN ks = 1..m /\ \A j \in 1..m : ds[j] \in Dags /\ ks[j] \in Keys
    BY <1>1, <1>6
  <2> QED
    BY <1>1, <1>6, <1>7, <2>1, SearchAssumption DEF Steps
<1>12. Story(ss, ups, ds, ks, m)
  BY <1>8, <1>9, <1>10, <1>11 DEF Story
<1> QED
  BY <1>12 DEF ss, ups, ds, ks

----------------------------------------------------------------------------
(* The same path, as the abstract contexts have it.                        *)

\* Contexts whose parents are among them, and were there before.
Kin(ctxs) ==
    /\ DOMAIN ctxs \subseteq Contexts
    /\ \A x \in DOMAIN ctxs : LET p == ctxs[x].parent
                              IN  p = None \/ (p \in DOMAIN ctxs /\ p < x)

\* The recursive function in DownTo.
PathsDown(ctxs, f) ==
    CHOOSE path : path = [x \in DOMAIN ctxs |->
                            IF ctxs[x].parent = None THEN <<ctxs[x][f]>>
                            ELSE Append(path[ctxs[x].parent], ctxs[x][f])]

LEMMA DownToIsPath ==
    ASSUME NEW ctxs, NEW c, NEW f
    PROVE  Abstract!DownTo(ctxs, c, f) = IF c = None THEN <<>> ELSE PathsDown(ctxs, f)[c]
BY DEF Abstract!DownTo, PathsDown, None, Abstract!None

LEMMA PathsDownHere ==
    ASSUME NEW ctxs, Kin(ctxs), NEW f, NEW c \in DOMAIN ctxs
    PROVE  PathsDown(ctxs, f)[c]
             = IF ctxs[c].parent = None THEN <<ctxs[c][f]>>
               ELSE Append(PathsDown(ctxs, f)[ctxs[c].parent], ctxs[c][f])
<1> DEFINE D == DOMAIN ctxs
           up(x) == ctxs[x].parent
           says(x) == ctxs[x][f]
           V == Seq({says(x) : x \in D})
           value(x, h) == IF up(x) = None THEN <<says(x)>> ELSE Append(h[up(x)], says(x))
           G == [p \in D \X [D -> V] |-> value(p[1], p[2])]
<1>1. /\ MaxContexts \in Nat /\ D \subseteq 0..MaxContexts /\ D \subseteq Nat /\ None \notin D
      /\ \A x \in D : up(x) = None \/ (up(x) \in D /\ up(x) < x)
  BY SearchAssumption DEF Kin, Contexts, None
<1>2. \A x \in D : /\ <<says(x)>> \in V
                   /\ \A s \in V : Append(s, says(x)) \in V
  OBVIOUS
<1>3. \A x \in D, h \in [D -> V] : value(x, h) \in V
  <2> HIDE DEF V, says
  <2> QED
    BY <1>1, <1>2
<1>4. PathsDown(ctxs, f) = CHOOSE path : path = [x \in D |-> value(x, path)]
  BY DEF PathsDown
<1> HIDE DEF V
<1>5. G \in [D \X [D -> V] -> V] /\ \A x \in D, h \in [D -> V] : G[<<x, h>>] = value(x, h)
  BY <1>3
<1>6. LooksBelow(G, D, V)
  <2> SUFFICES ASSUME NEW x \in D, NEW g \in [D -> V], NEW h \in [D -> V],
                      \A y \in D : y < x => g[y] = h[y]
               PROVE  value(x, g) = value(x, h)
    BY <1>5 DEF LooksBelow
  <2> HIDE DEF up
  <2> QED
    BY <1>1
<1> HIDE DEF G, D
<1>7. PICK h \in [D -> V] : Solves(h, G, D)
  <2>1. <<>> \in V
    BY DEF V
  <2> QED
    BY <1>1, <1>5, <1>6, <2>1, RecursiveFunction
<1>8. h = [x \in D |-> value(x, h)]
  BY <1>5, <1>7 DEF Solves
<1> DEFINE R == PathsDown(ctxs, f)
<1>9. R = [x \in D |-> value(x, R)]
  <2>1. \E g : g = [x \in D |-> value(x, g)]
    BY <1>8
  <2> HIDE DEF value
  <2> QED
    BY <1>4, <2>1
<1> HIDE DEF R
<1>10. c \in D
  BY DEF D
<1>11. R[c] = value(c, R)
  BY <1>9, <1>10
<1> QED
  BY <1>11 DEF R

\* The m contexts from the root one down to c, none at all when c is None.
Leads(ctxs, P, m, c) ==
    /\ m \in Nat /\ \A j \in 1..m : P[j] \in DOMAIN ctxs
    /\ c = IF m = 0 THEN None ELSE P[m]
    /\ m # 0 => ctxs[P[1]].parent = None
    /\ \A j \in 1..m : j < m => ctxs[P[j + 1]].parent = P[j]

\* What field f says from the root context down to c.
LEMMA DownToPath ==
    ASSUME NEW ctxs, Kin(ctxs), NEW f, NEW P, NEW m, NEW c, Leads(ctxs, P, m, c)
    PROVE  Abstract!DownTo(ctxs, c, f) = [j \in 1..m |-> ctxs[P[j]][f]]
<1> USE DEF Leads
<1> DEFINE says(j) == ctxs[P[j]][f]
           down(i) == [j \in 1..i |-> says(j)]
           R == PathsDown(ctxs, f)
           S == {i \in Nat : i \in 1..m => R[P[i]] = down(i)}
<1>1. \A j \in 1..m : P[j] # None
  BY SearchAssumption DEF Kin, Contexts, None
<1>2. 0 \in S
  OBVIOUS
<1>3. ASSUME NEW i \in Nat, i \in S
      PROVE  i + 1 \in S
  <2> SUFFICES ASSUME i + 1 \in 1..m PROVE R[P[i + 1]] = down(i + 1)
    OBVIOUS
  <2>1. R[P[i + 1]] = IF ctxs[P[i + 1]].parent = None THEN <<says(i + 1)>>
                      ELSE Append(R[ctxs[P[i + 1]].parent], says(i + 1))
    BY PathsDownHere
  <2>2. CASE i = 0
    <3>1. R[P[i + 1]] = <<says(i + 1)>>
      BY <2>1, <2>2
    <3> HIDE DEF says
    <3> QED
      BY <2>2, <3>1
  <2>3. CASE i # 0
    <3>1. i \in 1..m /\ i < m /\ ctxs[P[i + 1]].parent = P[i] /\ P[i] # None
      BY <1>1, <2>3
    <3>2. R[P[i + 1]] = Append(down(i), says(i + 1))
      BY <1>3, <2>1, <3>1
    <3> HIDE DEF says
    <3>3. Append(down(i), says(i + 1)) = down(i + 1)
      OBVIOUS
    <3> QED
      BY <3>2, <3>3
  <2> QED
    BY <2>2, <2>3
<1> HIDE DEF S
<1>4. Nat \subseteq S
  BY <1>2, <1>3, SimpleInduction
<1>5. CASE m = 0
  <2>1. [j \in 1..m |-> says(j)] = <<>>
    BY <1>5
  <2> QED
    BY <1>5, <2>1, DownToIsPath
<1>6. CASE m # 0
  <2>1. m \in 1..m /\ m \in S
    BY <1>4, <1>6
  <2>2. R[P[m]] = down(m)
    BY <2>1 DEF S
  <2> QED
    BY <1>1, <1>6, <2>1, <2>2, DownToIsPath
<1> QED
  BY <1>5, <1>6

----------------------------------------------------------------------------
(* What the rules make of a built context.                                 *)

\* The keys of the steps above the last one.
PriorOn(P, m) == [j \in 1..(m - 1) |-> state[P[j]].key]

LEMMA Appended ==
    ASSUME NEW m \in Nat \ {0}, NEW s, s = [j \in 1..(m - 1) |-> s[j]], NEW k
    PROVE  Append(s, k) = [j \in 1..m |-> IF j < m THEN s[j] ELSE k]
<1>1. DOMAIN s = 1..(m - 1) /\ Len(s) = m - 1
  OBVIOUS
<1> QED
  BY <1>1

LEMMA PathKeys ==
    ASSUME NEW c, NEW P, NEW m \in Nat \ {0}, NEW k
    PROVE  Append(PriorOn(P, m), k) = KeysOn(P, m, k)
<1> DEFINE prior == PriorOn(P, m)
<1>1. prior = [j \in 1..(m - 1) |-> prior[j]]
  BY DEF PriorOn
<1>2. \A j \in 1..(m - 1) : prior[j] = state[P[j]].key
  BY DEF PriorOn
<1>3. KeysOn(P, m, k) = [j \in 1..m |-> IF j < m THEN prior[j] ELSE k]
  BY <1>2 DEF KeysOn
<1> HIDE DEF prior
<1>4. Append(prior, k) = [j \in 1..m |-> IF j < m THEN prior[j] ELSE k]
  BY <1>1, Appended
<1> QED
  BY <1>3, <1>4 DEF prior

\* The steps to a context, with a key for the last one that is given up to
\* what the nodes active there ask for: what must be active, and the key.
LEMMA LastStep ==
    ASSUME Known, NEW c \in Built, NEW P, NEW m, PathTo(P, m, c), NEW k \in Keys
    PROVE  \E X : /\ Closed(X, k, View(c), seen[c])
                  /\ \A Y : Closed(Y, k, View(c), seen[c]) => DOMAIN X \subseteq DOMAIN Y
                  /\ Satisfied(RulesOn(P, m), PriorOn(P, m), k) <=> Served(X, k, seen[c])
<1> DEFINE ss == StatesOn(P, m)
           ups == ViewsOn(P, m)
           ds == RulesOn(P, m)
           ks == KeysOn(P, m, k)
           A == Active(ds, ks)
           X == Column(ds, m, A, m)
<1>1. m \in Nat \ {0} /\ m \in 1..m /\ P[m] = c
  BY DEF PathTo
<1>2. Story(ss, ups, ds, ks, m)
  BY PathStory
<1>3. ups[m] = View(c) /\ ds[m] = seen[c] /\ ks[m] = k
  BY <1>1 DEF ViewsOn, RulesOn, KeysOn
<1>4. Last(ds) = ds[m] /\ Len(ds) = m
  BY <1>2, StepsHere DEF Story
<1>5. Append(PriorOn(P, m), k) = ks
  BY <1>1, PathKeys
<1> HIDE DEF ss, ups, ds, ks
<1>6. /\ Closed(X, ks[m], ups[m], ds[m])
      /\ \A Y : Closed(Y, ks[m], ups[m], ds[m]) => \A n \in DOMAIN X : At(Y, n, X[n])
      /\ \A n \in NodesOf(ds[m]) : A[n][m] # {} <=> n \in DOMAIN X
      /\ DOMAIN X \subseteq NodesOf(ds[m])
  <2> HIDE DEF A, X
  <2> QED
    BY <1>2, LastColumn DEF A, X
<1> HIDE DEF X, A
<1>7. Satisfied(ds, PriorOn(P, m), k)
        <=> \A n \in NodesOf(ds[m]) : A[n][m] # {} => Matches(ConstraintOf(ds[m], n), k)
  BY <1>4, <1>5 DEF Satisfied, A
<1>8. Satisfied(ds, PriorOn(P, m), k) <=> Served(X, k, ds[m])
  BY <1>6, <1>7 DEF Served
<1>9. \A Y : Closed(Y, k, View(c), seen[c]) => DOMAIN X \subseteq DOMAIN Y
  BY <1>3, <1>6 DEF At
<1> QED
  BY <1>3, <1>6, <1>8, <1>9 DEF ds

LEMMA MatchesBoth ==
    ASSUME NEW a \in Keys, NEW b \in Keys, Matches(a, b), Matches(b, a)
    PROVE  a = b
BY DEF Matches, Keys

\* The key of a built context is the least closed one.
LEMMA KeyIsClosed ==
    ASSUME Known, NEW c \in Built, NEW P, NEW m, PathTo(P, m, c)
    PROVE  \E r \in RequestsOf(state[c].parent) :
              state[c].key = ClosedKey(RulesOn(P, m), PriorOn(P, m), r)
<1> DEFINE key == state[c].key
           nodes == state[c].nodes
           up == View(c)
           d == seen[c]
           Fits(k) == Satisfied(RulesOn(P, m), PriorOn(P, m), k)
<1>1. /\ run[c].phase = "built" /\ Rules(c) = d /\ key \in Keys /\ c \in Contexts
      /\ d \in Dags /\ Closed(nodes, key, up, d)
  BY Parents, BuiltUnder, SettledLeast DEF Known, Built, Rules, Least
<1>2. PICK r \in RequestsOf(state[c].parent) : KeyWanted(r, key, nodes, up, d)
  BY <1>1 DEF Known, Numbered, KeyLeast
<1> DEFINE closed == {k \in Keys : Matches(r, k) /\ Fits(k)}
<1>3. ClosedKey(RulesOn(P, m), PriorOn(P, m), r)
        = CHOOSE k \in closed : \A other \in closed : Matches(k, other)
  BY DEF ClosedKey
<1>4. ASSUME NEW k \in Keys
      PROVE  \E X : /\ Closed(X, k, up, d)
                    /\ Fits(k) <=> Served(X, k, d)
                    /\ \A Y : Closed(Y, k, up, d) => DOMAIN X \subseteq DOMAIN Y
  BY LastStep
<1> HIDE DEF key, nodes, up, d, Fits
<1>5. Fits(key)
  <2>1. PICK X : /\ Closed(X, key, up, d)
                 /\ Fits(key) <=> Served(X, key, d)
                 /\ \A Y : Closed(Y, key, up, d) => DOMAIN X \subseteq DOMAIN Y
    BY <1>1, <1>4
  <2>2. DOMAIN X \subseteq DOMAIN nodes
    BY <1>1, <2>1
  <2> QED
    BY <1>2, <2>1, <2>2 DEF KeyWanted, Served
<1>6. key \in closed
  BY <1>1, <1>2, <1>5 DEF KeyWanted
<1>7. \A k \in closed : Matches(key, k)
  <2> SUFFICES ASSUME NEW k \in closed PROVE Matches(key, k)
    OBVIOUS
  <2>1. k \in Keys /\ Matches(r, k) /\ Fits(k)
    OBVIOUS
  <2>2. PICK X : Closed(X, k, up, d) /\ Served(X, k, d)
    BY <1>4, <2>1
  <2> QED
    BY <1>2, <2>1, <2>2 DEF KeyWanted
<1>8. \A k \in closed : k \in Keys
  OBVIOUS
<1> HIDE DEF closed
<1>9. (CHOOSE k \in closed : \A other \in closed : Matches(k, other)) = key
  <2> DEFINE least == CHOOSE k \in closed : \A other \in closed : Matches(k, other)
  <2>1. least \in closed /\ \A other \in closed : Matches(least, other)
    BY <1>6, <1>7
  <2> HIDE DEF least
  <2>2. least = key
    BY <1>6, <1>7, <1>8, <2>1, MatchesBoth
  <2> QED
    BY <2>2 DEF least
<1> QED
  BY <1>3, <1>9 DEF key

\* What a built context goes by, and finds, is what wins.
LEMMA FoundIsWinners ==
    ASSUME Known, NEW c \in Built, NEW P, NEW m, PathTo(P, m, c), NEW x
    PROVE  Found(c, x) = Winners(RulesOn(P, m), KeysOn(P, m, state[c].key), x)
<1> DEFINE ss == StatesOn(P, m)
           ups == ViewsOn(P, m)
           ds == RulesOn(P, m)
           ks == KeysOn(P, m, state[c].key)
<1>1. m \in Nat \ {0} /\ m \in 1..m /\ P[m] = c /\ state[c].key \in Keys
  BY Parents DEF PathTo
<1>2. Story(ss, ups, ds, ks, m)
  BY <1>1, PathStory
<1>3. ss[m] = state[c] /\ ups[m] = View(c) /\ ks[m] = ss[m].key
  BY <1>1 DEF StatesOn, ViewsOn, KeysOn
<1> HIDE DEF ss, ups, ds, ks
<1>4. Winners(ds, ks, x) = UNION {v.values : v \in GoesBy(ss[m], ups[m], x)}
  BY <1>2, <1>3, GoesByWins
<1>5. GoesBy(state[c], View(c), x) = Applied(c, x)
  <2>1. View(c) = Above(state[c])
    BY DEF View, Above
  <2> QED
    BY <2>1, ViewInherits DEF GoesBy, Applied
<1> QED
  BY <1>3, <1>4, <1>5 DEF Found, ds, ks

\* What is shown of a built context.
Shown(c) ==
    [parent  |-> state[c].parent, key |-> state[c].key, rules |-> seen[c],
     answers |-> [x \in PropNames |-> [conflict |-> Found(c, x),
                                       value |-> Returned(Found(c, x))]]]

LEMMA VisibleIsShown == Visible = [c \in Built |-> Shown(c)]
BY DEF Visible, Shown

\* The settings that win, and the last of them.
Answer(ds, ks, x) ==
    LET w == Winners(ds, ks, x)
    IN  [conflict |-> w, value |-> {p \in w : ~\E q \in w : p.num < q.num}]

\* A built context has the key and the answers that its path calls for.
Explained(c) ==
    \E P, m : /\ PathTo(P, m, c) /\ \A j \in 1..m : j < m => P[j] # c
              /\ \E r \in RequestsOf(state[c].parent) :
                    state[c].key = ClosedKey(RulesOn(P, m), PriorOn(P, m), r)
              /\ \A x \in PropNames :
                    Shown(c).answers[x] = Answer(RulesOn(P, m), KeysOn(P, m, state[c].key), x)

LEMMA FoundNumbered ==
    ASSUME Known, NEW c \in Built, NEW x
    PROVE  \A p \in Found(c, x) : p.num \in Nat
<1>1. /\ c \in Contexts /\ \A b \in Contexts : StateOK(state[b])
      /\ \A a \in state[c].above : a \in Contexts
  BY DEF Known, IInv, TypeOK, LineageOK, Built
<1>2. \A b \in Contexts : \A y \in DOMAIN state[b].settings : state[b].settings[y] \in Settings
  BY <1>1 DEF StateOK
<1>3. Inherited(state[c], x) \subseteq Settings
  BY <1>1, <1>2 DEF Inherited, Nearest
<1>4. Applied(c, x) \subseteq Settings
  BY <1>1, <1>2, <1>3 DEF Applied
<1>5. dag.props \subseteq Props
  BY SearchAssumption DEF Known, IInv, WellFormed
<1>6. \A s \in Settings : \A p \in s.values : p.num \in Nat
  BY <1>5 DEF Settings, Props
<1> QED
  BY <1>4, <1>6 DEF Found

LEMMA BuiltExplained ==
    ASSUME Known, NEW c \in Built
    PROVE  Explained(c)
<1>1. PICK P, m : PathTo(P, m, c)
  BY PathsExist
<1>2. \A j \in 1..m : j < m => P[j] # c
  <2> SUFFICES ASSUME NEW j \in 1..m, j < m PROVE P[j] # c
    OBVIOUS
  <2>1. m \in 1..m /\ j \in 1..(m - 1) /\ P[m] = c
    BY <1>1 DEF PathTo
  <2>2. P[j] \in state[c].above
    BY <1>1, <2>1, PathAbove
  <2>3. P[j] < c /\ c \in Nat
    BY <2>2, Parents DEF Known, Numbered, Ordered, Built
  <2> QED
    BY <2>3
<1>3. ASSUME NEW x \in PropNames
      PROVE  Shown(c).answers[x] = Answer(RulesOn(P, m), KeysOn(P, m, state[c].key), x)
  <2> DEFINE w == Winners(RulesOn(P, m), KeysOn(P, m, state[c].key), x)
  <2>1. Found(c, x) = w
    BY <1>1, FoundIsWinners
  <2>2. \A p \in w : p.num \in Nat
    BY <2>1, FoundNumbered
  <2>3. Shown(c).answers[x] = [conflict |-> Found(c, x), value |-> Returned(Found(c, x))]
    BY DEF Shown
  <2>4. Answer(RulesOn(P, m), KeysOn(P, m, state[c].key), x)
          = [conflict |-> w, value |-> {p \in w : ~\E q \in w : p.num < q.num}]
    BY DEF Answer
  <2> HIDE DEF w
  <2>5. \A p, q \in w : q.num <= p.num <=> ~(p.num < q.num)
    BY <2>2
  <2>6. Returned(w) = {p \in w : ~\E q \in w : p.num < q.num}
    BY <2>5 DEF Returned
  <2> QED
    BY <2>1, <2>3, <2>4, <2>6
<1>4. \E r \in RequestsOf(state[c].parent) :
          state[c].key = ClosedKey(RulesOn(P, m), PriorOn(P, m), r)
  BY <1>1, KeyIsClosed
<1> QED
  BY <1>1, <1>2, <1>3, <1>4 DEF Explained

----------------------------------------------------------------------------
(* Meaning as AbstractContext has it is Meaning.                           *)

LEMMA SameActive ==
    ASSUME NEW ds, NEW ks
    PROVE  Abstract!Active(ds, ks) = Active(ds, ks)
BY DEF Active, Row, ChildRow, AndRow, OrRow, IsChild, EdgeTo, TallyAt, There, NodesOf, Matches,
       Plus, Highest, Below, KeySpecificity, Spec0, Root, Last, Cardinality, Abstract!Cardinality,
       Abstract!Active, Abstract!Row, Abstract!ChildRow, Abstract!AndRow, Abstract!OrRow,
       Abstract!IsChild, Abstract!EdgeTo, Abstract!TallyAt, Abstract!There, Abstract!NodesOf,
       Abstract!Matches, Abstract!Plus, Abstract!Highest, Abstract!Below,
       Abstract!KeySpecificity, Abstract!Spec0, Abstract!Root, Abstract!Last

LEMMA SameClosedKey ==
    ASSUME NEW ds, NEW prior, NEW r
    PROVE  Abstract!ClosedKey(ds, prior, r) = ClosedKey(ds, prior, r)
<1>1. \A k : Abstract!Active(ds, Append(prior, k)) = Active(ds, Append(prior, k))
  BY SameActive
<1>2. /\ \A d : Abstract!NodesOf(d) = NodesOf(d)
      /\ \A d, n : Abstract!ConstraintOf(d, n) = ConstraintOf(d, n)
      /\ \A a, b : Abstract!Matches(a, b) <=> Matches(a, b)
      /\ Abstract!Last(ds) = Last(ds) /\ Abstract!Keys = Keys
  BY DEF NodesOf, ConstraintOf, Matches, Last, Keys, Abstract!NodesOf, Abstract!ConstraintOf,
         Abstract!Matches, Abstract!Last, Abstract!Keys
<1>3. \A k : Abstract!Satisfied(ds, prior, k) <=> Satisfied(ds, prior, k)
  BY <1>1, <1>2 DEF Satisfied, Abstract!Satisfied
<1> QED
  BY <1>2, <1>3 DEF ClosedKey, Abstract!ClosedKey

LEMMA SameCandidates ==
    ASSUME NEW ds, NEW ks, NEW x
    PROVE  Abstract!Candidates(ds, ks, x) = Candidates(ds, ks, x)
<1>1. Abstract!Active(ds, ks) = Active(ds, ks) /\ Abstract!Last(ds) = Last(ds)
  BY SameActive DEF Last, Abstract!Last
<1> QED
  BY <1>1 DEF Candidates, Abstract!Candidates

LEMMA SameAnswers ==
    ASSUME NEW ds, NEW ks
    PROVE  Abstract!Answers(ds, ks) = [x \in PropNames |-> Answer(ds, ks, x)]
<1>2. \A a, b : Abstract!Better(a, b) <=> Better(a, b)
  BY DEF Better, Below, Abstract!Better, Abstract!Below
<1>3. \A x : Abstract!Candidates(ds, ks, x) = Candidates(ds, ks, x)
  BY SameCandidates
<1>4. \A x : Abstract!Winners(ds, ks, x) = Winners(ds, ks, x)
  BY <1>2, <1>3 DEF Winners, Abstract!Winners
<1> DEFINE shown(w) == [conflict |-> w, value |-> {p \in w : ~\E q \in w : p.num < q.num}]
<1>5. /\ Abstract!Answers(ds, ks) = [x \in PropNames |-> shown(Abstract!Winners(ds, ks, x))]
      /\ \A x : Answer(ds, ks, x) = shown(Winners(ds, ks, x))
  BY DEF Answer, Abstract!Answers
<1> HIDE DEF shown
<1> QED
  BY <1>4, <1>5

----------------------------------------------------------------------------
(* The steps of a domain are steps of AbstractContext, or do not show.     *)

\* What is shown of a built context does not change.
LEMMA ShownKept ==
    ASSUME IInv, \A b \in Built : state'[b] = state[b] /\ seen'[b] = seen[b],
           NEW c \in Built
    PROVE  Shown(c)' = Shown(c)
<1>1. state[c].above \subseteq Built
  BY DEF IInv, LineageOK, Built
<1>2. state'[c] = state[c] /\ seen'[c] = seen[c]
  OBVIOUS
<1>3. ASSUME NEW x
      PROVE  Inherited(state[c], x)' = Inherited(state[c], x)
  <2> DEFINE having == {b \in state[c].above : x \in DOMAIN state[b].settings}
  <2>1. having' = having
    BY <1>1, <1>2
  <2>2. \A a \in Nearest(having) : a \in Built
    BY <1>1 DEF Nearest
  <2>3. /\ Inherited(state[c], x) = {state[a].settings[x] : a \in Nearest(having)}
        /\ Inherited(state[c], x)' = {state'[a].settings[x] : a \in Nearest(having')}
    BY DEF Inherited
  <2> HIDE DEF having
  <2>4. \A a \in Nearest(having) : state'[a].settings[x] = state[a].settings[x]
    BY <2>2
  <2> QED
    BY <2>1, <2>3, <2>4
<1>4. \A x : Found(c, x)' = Found(c, x)
  BY <1>2, <1>3 DEF Found, Applied
<1> QED
  BY <1>2, <1>4 DEF Shown

LEMMA VisibleKin ==
    ASSUME Known
    PROVE  Kin(Visible) /\ DOMAIN Visible = Built
<1>1. DOMAIN Visible = Built /\ \A c \in Built : Visible[c].parent = state[c].parent
  BY DEF Visible
<1>2. Built \subseteq Contexts
  BY DEF Built
<1> QED
  BY <1>1, <1>2, Parents DEF Kin

\* The path to a context, up to the parent that it has, as Visible shows it.
LEMMA DownToParent ==
    ASSUME Known, NEW n, NEW P, NEW p, Leads(state, P, n, p), \A j \in 1..n : P[j] \in Built
    PROVE  /\ Abstract!DownTo(Visible, p, "rules") = [j \in 1..n |-> seen[P[j]]]
           /\ Abstract!DownTo(Visible, p, "key") = [j \in 1..n |-> state[P[j]].key]
<1>1. \A c \in Built : /\ Visible[c].parent = state[c].parent /\ Visible[c]["rules"] = seen[c]
                       /\ Visible[c]["key"] = state[c].key
  BY DEF Visible
<1>2. Leads(Visible, P, n, p)
  <2>1. n # 0 => 1 \in 1..n
    BY DEF Leads
  <2>2. \A j \in 1..n : j < n => j + 1 \in 1..n
    BY DEF Leads
  <2> QED
    BY <1>1, <2>1, <2>2, VisibleKin DEF Leads
<1>3. \A f : Abstract!DownTo(Visible, p, f) = [j \in 1..n |-> Visible[P[j]][f]]
  BY <1>2, VisibleKin, DownToPath
<1> QED
  BY <1>1, <1>3

LEMMA FinishBuilds ==
    ASSUME Known, NEW c \in Contexts, Construct(c), c \in Built', Explained(c)'
    PROVE  Abstract!Build(c)
<1> DEFINE p == state'[c].parent
           k == state'[c].key
<1>1. /\ dag' = dag /\ c \notin Built /\ seen'[c] = dag /\ Built' = Built \cup {c}
      /\ \A b \in Built : b # c /\ state'[b] = state[b] /\ seen'[b] = seen[b]
  BY ConstructFrames DEF Known, Built
<1>2. PICK P, m : (/\ PathTo(P, m, c) /\ \A j \in 1..m : j < m => P[j] # c
                   /\ \E r \in RequestsOf(state[c].parent) :
                         state[c].key = ClosedKey(RulesOn(P, m), PriorOn(P, m), r)
                   /\ \A x \in PropNames :
                         Shown(c).answers[x]
                           = Answer(RulesOn(P, m), KeysOn(P, m, state[c].key), x))'
  BY DEF Explained
<1> DEFINE n == m - 1
           rules == [j \in 1..m |-> seen'[P[j]]]
           prior == [j \in 1..n |-> state[P[j]].key]
<1>3. /\ m \in Nat \ {0} /\ n \in Nat /\ P[m] = c /\ state'[P[1]].parent = None
      /\ \A j \in 1..m : j < m => state'[P[j + 1]].parent = P[j]
      /\ \A j \in 1..n : P[j] \in Built
  <2>1. /\ m \in Nat \ {0} /\ P \in [1..m -> Built'] /\ P[m] = c /\ state'[P[1]].parent = None
        /\ \A j \in 1..m : j < m => state'[P[j + 1]].parent = P[j] /\ P[j] # c
    BY <1>2 DEF PathTo
  <2>2. n \in Nat /\ \A j \in 1..n : j \in 1..m /\ j < m
    BY <2>1
  <2> QED
    BY <1>1, <2>1, <2>2
<1>4. p = IF n = 0 THEN None ELSE P[n]
  BY <1>3
<1>5. /\ Abstract!DownTo(Visible, p, "rules") = [j \in 1..n |-> seen[P[j]]]
      /\ Abstract!DownTo(Visible, p, "key") = prior
  <2>1. n # 0 => state[P[1]].parent = None
    <3>1. n # 0 => 1 \in 1..n
      BY <1>3
    <3> QED
      BY <1>1, <1>3, <3>1
  <2>2. \A j \in 1..n : j < n => state[P[j + 1]].parent = P[j]
    <3>1. \A j \in 1..n : j < n => j + 1 \in 1..n /\ j \in 1..m /\ j < m
      BY <1>3
    <3> QED
      BY <1>1, <1>3, <3>1
  <2>3. \A j \in 1..n : P[j] \in DOMAIN state
    BY <1>3 DEF Known, IInv, TypeOK, Built
  <2> HIDE DEF p, n
  <2>4. Leads(state, P, n, p)
    BY <1>3, <1>4, <2>1, <2>2, <2>3 DEF Leads
  <2> QED
    BY <1>3, <2>4, DownToParent
<1>6. Append([j \in 1..n |-> seen[P[j]]], dag) = rules
  <2> DEFINE s == [j \in 1..n |-> seen[P[j]]]
  <2>1. s = [j \in 1..(m - 1) |-> s[j]]
    OBVIOUS
  <2>2. rules = [j \in 1..m |-> IF j < m THEN s[j] ELSE dag]
    BY <1>1, <1>3
  <2> HIDE DEF s, rules
  <2>3. Append(s, dag) = rules
    BY <1>3, <2>1, <2>2, Appended
  <2> QED
    BY <2>3 DEF s
<1>7. Append(prior, k) = [j \in 1..m |-> IF j < m THEN state'[P[j]].key ELSE k]
  <2>1. prior = [j \in 1..(m - 1) |-> prior[j]]
    OBVIOUS
  <2>2. [j \in 1..m |-> IF j < m THEN state'[P[j]].key ELSE k]
          = [j \in 1..m |-> IF j < m THEN prior[j] ELSE k]
    BY <1>1, <1>3
  <2> HIDE DEF prior, k
  <2>3. Append(prior, k) = [j \in 1..m |-> IF j < m THEN prior[j] ELSE k]
    BY <1>3, <2>1, Appended
  <2> QED
    BY <2>2, <2>3
<1>8. /\ RulesOn(P, m)' = rules /\ KeysOn(P, m, state[c].key)' = Append(prior, k)
  BY <1>7 DEF RulesOn, KeysOn
<1>9. PriorOn(P, m)' = prior
  BY <1>1, <1>3 DEF PriorOn
<1>10. PICK r \in RequestsOf(p) : k = ClosedKey(rules, prior, r)
  BY <1>2, <1>8, <1>9
<1>11. Shown(c)' = [parent |-> p, key |-> k, rules |-> dag,
                    answers |-> Abstract!Answers(rules, Append(prior, k))]
  <2>1. \A x \in PropNames : Shown(c)'.answers[x] = Answer(rules, Append(prior, k), x)
    BY <1>2, <1>8
  <2>2. Shown(c)'.answers = [x \in PropNames |-> Shown(c)'.answers[x]]
    BY DEF Shown
  <2>3. Shown(c)' = [parent |-> p, key |-> k, rules |-> dag, answers |-> Shown(c)'.answers]
    BY <1>1 DEF Shown
  <2> HIDE DEF rules, prior, p, k
  <2>4. Shown(c)'.answers = [x \in PropNames |-> Answer(rules, Append(prior, k), x)]
    BY <2>1, <2>2
  <2> QED
    BY <2>3, <2>4, SameAnswers
<1>12. Visible' = [x \in Built \cup {c} |-> IF x = c THEN Shown(c)' ELSE Visible[x]]
  <2>1. Visible' = [x \in Built' |-> Shown(x)']
    BY DEF Visible, Shown
  <2>2. \A x \in Built : Shown(x)' = Visible[x]
    BY <1>1, ShownKept, VisibleIsShown DEF Known
  <2> QED
    BY <1>1, <2>1, <2>2
<1> DEFINE asked == IF p = Abstract!None THEN {Abstract!EmptyKey} ELSE Requests
<1>13. DOMAIN Visible = Built /\ p \in Built \cup {Abstract!None} /\ r \in asked
  <2>1. Abstract!None = None /\ Abstract!EmptyKey = EmptyKey
    BY DEF None, EmptyKey, Abstract!None, Abstract!EmptyKey
  <2>2. n # 0 => P[n] \in Built
    BY <1>3
  <2> QED
    BY <1>4, <1>10, <2>1, <2>2, VisibleKin DEF RequestsOf
<1> HIDE DEF p, k, n, rules, prior, asked
<1>14. k = Abstract!ClosedKey(rules, prior, r)
  BY <1>10, SameClosedKey
<1> DEFINE ds == Append(Abstract!DownTo(Visible, p, "rules"), dag)
           above == Abstract!DownTo(Visible, p, "key")
           key == Abstract!ClosedKey(ds, above, r)
<1>15. ds = rules /\ above = prior /\ key = k
  BY <1>5, <1>6, <1>14
<1>16. Visible' = [x \in DOMAIN Visible \cup {c} |->
                     IF x = c THEN [parent |-> p, key |-> key, rules |-> dag,
                                    answers |-> Abstract!Answers(ds, Append(above, key))]
                     ELSE Visible[x]]
  <2> HIDE DEF ds, above, key
  <2> QED
    BY <1>11, <1>12, <1>13, <1>15
<1>17. c \notin DOMAIN Visible /\ c \in DOMAIN Visible'
  BY <1>1, <1>12, <1>13
<1> QED
  BY <1>1, <1>13, <1>16, <1>17 DEF Abstract!Build, asked

\* The key and the settings of every built context are what its rules make of it.
AllExplained == \A c \in Built : Explained(c)

LEMMA KnownExplains == Known => AllExplained
BY BuiltExplained DEF AllExplained

LEMMA StartsAbstract == DomainInit => Abstract!Init
<1> SUFFICES ASSUME DomainInit PROVE Abstract!Init
  OBVIOUS
<1>1. dag \in Dags /\ Built = {}
  BY DEF DomainInit, Init, Built, Idle
<1>2. Visible = [c \in {} |-> 0]
  BY <1>1 DEF Visible
<1> QED
  BY <1>1, <1>2 DEF Abstract!Init

LEMMA NextAbstract ==
    Known /\ AllExplained' /\ [DomainNext]_domainVars => [Abstract!Next]_<<dag, Visible>>
<1> SUFFICES ASSUME Known, AllExplained', [DomainNext]_domainVars
             PROVE  Abstract!Next \/ UNCHANGED <<dag, Visible>>
  OBVIOUS
<1>1. ASSUME Built' = Built, \A b \in Built : state'[b] = state[b] /\ seen'[b] = seen[b]
      PROVE  Visible' = Visible
  <2>1. Visible' = [x \in Built' |-> Shown(x)']
    BY DEF Visible, Shown
  <2>2. \A x \in Built : Shown(x)' = Shown(x)
    BY <1>1, ShownKept DEF Known
  <2> QED
    BY <1>1, <2>1, <2>2, VisibleIsShown
<1>2. ASSUME NEW c \in Contexts, Construct(c)
      PROVE  Abstract!Next \/ UNCHANGED <<dag, Visible>>
  <2>1. /\ dag' = dag /\ c \notin Built
        /\ \A b \in Contexts \ {c} : run'[b] = run[b]
        /\ \A b \in Built : b # c /\ state'[b] = state[b] /\ seen'[b] = seen[b]
    BY <1>2, ConstructFrames DEF Known, Built
  <2>2. CASE c \in Built'
    <3>1. Abstract!Build(c)
      BY <1>2, <2>2, FinishBuilds DEF AllExplained
    <3> QED
      BY <3>1 DEF Abstract!Next
  <2>3. CASE c \notin Built'
    <3>1. Built' = Built
      BY <2>1, <2>3 DEF Built
    <3> QED
      BY <1>1, <2>1, <3>1
  <2> QED
    BY <2>2, <2>3
<1>3. CASE Load
  <2>1. state' = state /\ run' = run /\ seen' = seen /\ dag' \in Dags /\ Grown(dag, dag')
    BY <1>3, LoadGrows DEF Load, Known
  <2>2. Visible' = Visible
    BY <1>1, <2>1 DEF Built
  <2>3. Abstract!Grown(dag, dag')
    BY <2>1 DEF Grown, Abstract!Grown
  <2> QED
    BY <2>1, <2>2, <2>3 DEF Abstract!Next, Abstract!AddRules
<1>4. CASE UNCHANGED domainVars
  <2>1. dag' = dag /\ state' = state /\ run' = run /\ seen' = seen
    BY <1>4 DEF domainVars
  <2> QED
    BY <1>1, <2>1 DEF Built
<1> QED
  BY <1>2, <1>3, <1>4 DEF DomainNext

\* The searches, with any number of them and of loads interleaved, implement
\* contexts that come into being at once, with the least key that is closed
\* under the constraints of what is active, and with the answers that win.
THEOREM ContextsAsPromised == DomainSpec => ImplementsAbstract
<1>1. DomainSpec => [](Known /\ AllExplained)
  BY KeysLeastAlways, KnownExplains, PTL
<1> QED
  BY <1>1, StartsAbstract, NextAbstract, PTL DEF DomainSpec, ImplementsAbstract, Abstract!Spec

----------------------------------------------------------------------------
(* The same steps under rules that have grown.                             *)

\* What is in S is no better than something in T.
Over(S, T) == \A s \in S : \E t \in T : ~Below(t, s)

LEMMA OverHighest ==
    ASSUME NEW S, NEW T, S \subseteq Specificities, T \subseteq Specificities, HasTop(T), Over(S, T)
    PROVE  Over(S, Highest(T))
<1> SUFFICES ASSUME NEW s \in S PROVE \E t \in Highest(T) : ~Below(t, s)
  BY DEF Over
<1>1. PICK t \in T : ~Below(t, s)
  BY DEF Over
<1>2. PICK h \in Highest(T) : ~Below(h, t)
  BY HighestOne
<1>3. h \in Specificities /\ t \in Specificities /\ s \in Specificities
  BY DEF Highest
<1> QED
  BY <1>1, <1>2, <1>3, BelowOrder

\* The rules es have all that the rules ds have, step by step.
Later(ds, es, ks, m, A, B) ==
    /\ Steps(ds, ks, m) /\ Steps(es, ks, m) /\ \A j \in 1..m : PartOf(ds[j], es[j])
    /\ A = Active(ds, ks) /\ B = Active(es, ks)

LEMMA LaterHere ==
    ASSUME NEW ds, NEW es, NEW ks, NEW m, NEW A, NEW B, Later(ds, es, ks, m, A, B)
    PROVE  /\ m \in Nat \ {0} /\ m \in 1..m
           /\ \A n \in NodesOf(ds[m]) : n \in NodesOf(es[m]) /\ A[n] \in RowsOf(m) /\ B[n] \in RowsOf(m)
           /\ ds[m].edges \subseteq es[m].edges /\ ds[m].tallies \subseteq es[m].tallies
<1>1. /\ m \in Nat \ {0} /\ m \in 1..m /\ PartOf(ds[m], es[m]) /\ Last(ds) = ds[m] /\ Last(es) = es[m]
      /\ WellFormed(ds[m]) /\ WellFormed(es[m])
  BY StepsHere DEF Later
<1>2. \A n \in NodesOf(ds[m]) : n \in NodesOf(es[m])
  BY <1>1 DEF PartOf, NodesOf, WellFormed
<1> QED
  BY <1>1, <1>2, ActiveRows DEF Later, PartOf

LEMMA EdgeOver ==
    ASSUME NEW ds, NEW es, NEW ks, NEW m, NEW A, NEW B, Later(ds, es, ks, m, A, B),
           NEW e \in ds[m].edges, NEW j \in 1..m,
           \A i \in 1..m : Over(A[e.parent][i], B[e.parent][i])
    PROVE  Over(A[e.child][j], B[e.child][j])
<1> SUFFICES ASSUME NEW s \in A[e.child][j] PROVE \E t \in B[e.child][j] : ~Below(t, s)
  BY DEF Over
<1>1. /\ Steps(ds, ks, m) /\ Steps(es, ks, m) /\ PartOf(ds[j], es[j])
      /\ A = Active(ds, ks) /\ B = Active(es, ks)
      /\ m \in Nat \ {0} /\ e \in es[m].edges /\ WellFormed(ds[m])
  BY LaterHere, StepsHere DEF Later
<1>2. e \in ds[j].edges /\ Matches(e.key, ks[j]) /\ s \in EdgeBest(A, e, j)
  BY <1>1, EdgeCell
<1>3. B[e.child][j] = EdgeBest(B, e, j)
  BY <1>1, <1>2, EdgeCell DEF PartOf
<1>4. /\ From(A, e, j) \subseteq Specificities
      /\ From(B, e, j) \subseteq Specificities /\ HasTop(From(B, e, j))
  BY <1>1, FromHasTop
<1> DEFINE k == KeySpecificity(e.key)
           sums(F) == {Plus(q, k) : q \in F}
<1>5. k \in Specificities
  BY <1>1, KeysCount DEF WellFormed, Edges
<1>6. EdgeBest(A, e, j) = Highest(sums(From(A, e, j))) /\ EdgeBest(B, e, j) = Highest(sums(From(B, e, j)))
  BY DEF EdgeBest
<1> HIDE DEF k
<1>7. PICK a \in From(A, e, j) : s = Plus(a, k)
  BY <1>2, <1>6 DEF Highest
<1>8. PICK b \in From(B, e, j) : ~Below(b, a)
  <2> DEFINE p == e.parent
  <2>1. PICK i \in {i \in 1..j : i < j \/ p = Root} : a \in A[p][i]
    BY <1>7 DEF From
  <2>2. i \in 1..m
    BY <1>1
  <2>3. PICK b \in B[p][i] : ~Below(b, a)
    BY <2>1, <2>2 DEF Over
  <2>4. b \in From(B, e, j)
    BY <2>1, <2>3 DEF From
  <2> QED
    BY <2>3, <2>4
<1>9. ~Below(Plus(b, k), s) /\ Plus(b, k) \in sums(From(B, e, j)) /\ s \in Specificities
  BY <1>4, <1>5, <1>7, <1>8, PlusGrows, HigherBounds, BelowOrder
<1>10. sums(From(B, e, j)) \subseteq Specificities /\ HasTop(sums(From(B, e, j)))
  BY <1>4, <1>5, SumsHaveTop
<1> HIDE DEF sums
<1>11. Over({s}, sums(From(B, e, j)))
  BY <1>9 DEF Over
<1>12. Over({s}, Highest(sums(From(B, e, j))))
  BY <1>9, <1>10, <1>11, OverHighest
<1> QED
  BY <1>3, <1>6, <1>12 DEF Over

LEMMA OrOver ==
    ASSUME NEW ds, NEW es, NEW ks, NEW m, NEW A, NEW B, Later(ds, es, ks, m, A, B),
           NEW t \in ds[m].tallies, t.kind # "and", NEW j \in 1..m,
           Over(A[t.first][j], B[t.first][j]), Over(A[t.second][j], B[t.second][j])
    PROVE  Over(A[t.node][j], B[t.node][j])
<1> DEFINE S == A[t.first][j] \cup A[t.second][j]
           T == B[t.first][j] \cup B[t.second][j]
<1>1. /\ Steps(ds, ks, m) /\ Steps(es, ks, m) /\ PartOf(ds[j], es[j])
      /\ A = Active(ds, ks) /\ B = Active(es, ks) /\ t \in es[m].tallies
  BY LaterHere DEF Later
<1>2. \A w \in {1, 2} : A[LegOf(t, w)] \in RowsOf(m) /\ B[LegOf(t, w)] \in RowsOf(m)
  BY <1>1, TallyRow
<1>3. /\ One(A[t.first][j]) /\ One(A[t.second][j]) /\ One(B[t.first][j]) /\ One(B[t.second][j])
  BY <1>2 DEF LegOf, RowsOf
<1>4. S \subseteq Specificities /\ T \subseteq Specificities /\ HasTop(T)
  BY <1>3, OneHasTop, TopOfBoth DEF One
<1>5. Over(S, T)
  BY DEF Over
<1>6. A[t.node][j] = IF t \in ds[j].tallies THEN Highest(S) ELSE {}
  BY <1>1, OrCell
<1>7. t \in ds[j].tallies => B[t.node][j] = Highest(T)
  BY <1>1, OrCell DEF PartOf
<1> HIDE DEF S, T
<1>8. Over(S, Highest(T))
  BY <1>4, <1>5, OverHighest
<1> QED
  BY <1>6, <1>7, <1>8 DEF Over, Highest

LEMMA SoFarOver ==
    ASSUME NEW ds, NEW es, NEW ks, NEW m, NEW A, NEW B, Later(ds, es, ks, m, A, B),
           NEW t \in ds[m].tallies, NEW j \in 1..m, NEW w \in {1, 2},
           \A i \in 1..m : Over(A[LegOf(t, w)][i], B[LegOf(t, w)][i]),
           NEW a \in Highest(SoFar(A, ds, t, w, j))
    PROVE  \E b \in Highest(SoFar(B, es, t, w, j)) :
              ~Below(b, a) /\ a \in Specificities /\ b \in Specificities
<1> DEFINE S == SoFar(A, ds, t, w, j)
           T == SoFar(B, es, t, w, j)
           leg == LegOf(t, w)
<1>1. /\ m \in Nat \ {0} /\ Steps(ds, ks, m) /\ Steps(es, ks, m) /\ t \in es[m].tallies
      /\ A = Active(ds, ks) /\ B = Active(es, ks) /\ \A i \in 1..m : PartOf(ds[i], es[i])
  BY LaterHere DEF Later
<1>2. S \subseteq Specificities /\ T \subseteq Specificities /\ HasTop(T)
  BY <1>1, SoFarHasTop
<1>3. Over(S, T)
  <2> SUFFICES ASSUME NEW s \in S PROVE \E q \in T : ~Below(q, s)
    BY DEF Over
  <2>1. PICK i \in {i \in 1..j : t \in ds[i].tallies} : s \in A[leg][i]
    BY DEF SoFar
  <2>2. i \in 1..m /\ i \in 1..j /\ t \in es[i].tallies
    BY <1>1, <2>1 DEF PartOf
  <2>3. PICK q \in B[leg][i] : ~Below(q, s)
    BY <2>1, <2>2 DEF Over
  <2>4. q \in T
    BY <2>2, <2>3 DEF SoFar
  <2> QED
    BY <2>3, <2>4
<1> HIDE DEF S, T
<1>4. Over(S, Highest(T))
  BY <1>2, <1>3, OverHighest
<1>5. a \in S
  BY DEF S, Highest
<1> QED
  BY <1>2, <1>4, <1>5 DEF Over, T, Highest

LEMMA AndOver ==
    ASSUME NEW ds, NEW es, NEW ks, NEW m, NEW A, NEW B, Later(ds, es, ks, m, A, B),
           NEW t \in ds[m].tallies, t.kind = "and", NEW j \in 1..m,
           \A w \in {1, 2} : \A i \in 1..m : Over(A[LegOf(t, w)][i], B[LegOf(t, w)][i])
    PROVE  Over(A[t.node][j], B[t.node][j])
<1> SUFFICES ASSUME NEW s \in A[t.node][j] PROVE \E q \in B[t.node][j] : ~Below(q, s)
  BY DEF Over
<1>1. /\ Steps(ds, ks, m) /\ Steps(es, ks, m) /\ PartOf(ds[j], es[j])
      /\ A = Active(ds, ks) /\ B = Active(es, ks) /\ t \in es[m].tallies
  BY LaterHere DEF Later
<1>2. /\ t \in ds[j].tallies /\ A[t.first][j] \cup A[t.second][j] # {}
      /\ s \in AndBest(A, ds, t, j)
  BY <1>1, AndCell
<1>3. B[t.first][j] \cup B[t.second][j] # {}
  BY <1>2 DEF Over, LegOf
<1>4. B[t.node][j] = AndBest(B, es, t, j)
  BY <1>1, <1>2, <1>3, AndCell DEF PartOf
<1>5. PICK a \in Highest(SoFar(A, ds, t, 1, j)), b \in Highest(SoFar(A, ds, t, 2, j)) : s = Plus(a, b)
  BY <1>2 DEF AndBest
<1>6. PICK x \in Highest(SoFar(B, es, t, 1, j)) : ~Below(x, a) /\ a \in Specificities /\ x \in Specificities
  BY SoFarOver
<1>7. PICK y \in Highest(SoFar(B, es, t, 2, j)) : ~Below(y, b) /\ b \in Specificities /\ y \in Specificities
  BY SoFarOver
<1>8. Plus(x, y) \in AndBest(B, es, t, j) /\ ~Below(Plus(x, y), s)
  BY <1>5, <1>6, <1>7, PlusGrows DEF AndBest
<1> QED
  BY <1>4, <1>8

\* Under later rules all that is active is active still, no worse.
LEMMA AllOver ==
    ASSUME NEW ds, NEW es, NEW ks, NEW m, NEW A, NEW B, Later(ds, es, ks, m, A, B)
    PROVE  \A n \in NodesOf(ds[m]) : \A j \in 1..m : Over(A[n][j], B[n][j])
<1> DEFINE Good(n) == \A j \in 1..m : Over(A[n][j], B[n][j])
           S == {n \in Nat : n \in NodesOf(ds[m]) => Good(n)}
<1>1. /\ m \in Nat \ {0} /\ WellFormed(ds[m]) /\ Regular(ds[m])
      /\ Steps(ds, ks, m) /\ Steps(es, ks, m) /\ A = Active(ds, ks) /\ B = Active(es, ks)
  BY LaterHere, StepsHere DEF Later
<1>2. ASSUME NEW n \in Nat, \A q \in Nat : q < n => q \in S
      PROVE  n \in S
  <2> SUFFICES ASSUME n \in NodesOf(ds[m]), NEW j \in 1..m PROVE Over(A[n][j], B[n][j])
    OBVIOUS
  <2>1. \A q \in 1..(n - 1) : q \in Nat /\ q < n /\ q \in NodesOf(ds[m]) /\ q \in S
    BY <1>1, <1>2 DEF NodesOf, WellFormed
  <2>2. \A q \in 1..(n - 1) : Good(q)
    BY <2>1
  <2>3. CASE n = Root
    <3>1. A[n][j] = B[n][j] /\ A[n][j] \subseteq {Spec0}
      BY <1>1, <2>3, RootCell
    <3>2. ~Below(Spec0, Spec0)
      BY DEF Below, Spec0
    <3> QED
      BY <3>1, <3>2 DEF Over
  <2>4. CASE n # Root
    <3>1. HangsOn(ds[m], n)
      BY <1>1, <2>4, NodesHang
    <3>2. CASE IsChild(ds[m], n)
      <4>1. PICK e \in ds[m].edges : e.child = n /\ e.parent \in 1..(n - 1)
        BY <3>1, <3>2 DEF HangsOn
      <4>2. \A i \in 1..m : Over(A[e.parent][i], B[e.parent][i])
        BY <2>2, <4>1
      <4> QED
        BY <4>1, <4>2, EdgeOver
    <3>3. CASE ~IsChild(ds[m], n)
      <4>1. PICK t \in ds[m].tallies : t.node = n /\ t.first \in 1..(n - 1) /\ t.second \in 1..(n - 1)
        BY <3>1, <3>3 DEF HangsOn
      <4>2. \A w \in {1, 2} : \A i \in 1..m : Over(A[LegOf(t, w)][i], B[LegOf(t, w)][i])
        BY <2>2, <4>1 DEF LegOf
      <4>3. Over(A[t.first][j], B[t.first][j]) /\ Over(A[t.second][j], B[t.second][j])
        BY <2>2, <4>1
      <4> QED
        BY <4>1, <4>2, <4>3, AndOver, OrOver
    <3> QED
      BY <3>2, <3>3
  <2> QED
    BY <2>3, <2>4
<1> HIDE DEF S
<1>3. Nat \subseteq S
  BY <1>2, StrongInduction
<1> SUFFICES ASSUME NEW n \in NodesOf(ds[m]) PROVE Good(n)
  OBVIOUS
<1>4. n \in S
  BY <1>1, <1>3 DEF NodesOf, WellFormed
<1> QED
  BY <1>4 DEF S

\* What a context has found would be among the candidates under later rules.
LEMMA StillCandidate ==
    ASSUME Known, NEW c \in Built, NEW x, NEW s \in Applied(c, x), NEW p \in s.values
    PROVE  \E now \in UnderLatest(c, x) : now.prop = p /\ ~Below(now.spec, s.spec)
<1>1. PICK P, m : PathTo(P, m, c)
  BY PathsExist
<1> DEFINE ss == StatesOn(P, m)
           ups == ViewsOn(P, m)
           ds == RulesOn(P, m)
           ks == KeysOn(P, m, state[c].key)
           es == [j \in DOMAIN ks |-> dag]
           A == Active(ds, ks)
           B == Active(es, ks)
<1>2. /\ m \in Nat \ {0} /\ m \in 1..m /\ P[m] = c /\ P \in [1..m -> Built]
      /\ state[c].key \in Keys
  BY <1>1, Parents DEF PathTo
<1>3. Story(ss, ups, ds, ks, m)
  BY <1>1, <1>2, PathStory
<1>4. ss[m] = state[c] /\ ups[m] = View(c) /\ ks[m] = ss[m].key
  BY <1>2 DEF StatesOn, ViewsOn, KeysOn
<1>5. Abstract!DownTo(Visible, c, "key") = ks
  <2>1. Leads(state, P, m, c)
    <3>1. \A j \in 1..m : P[j] \in DOMAIN state
      BY <1>2 DEF Known, IInv, TypeOK, Built
    <3> QED
      BY <1>1, <1>2, <3>1 DEF PathTo, Leads
  <2>2. Abstract!DownTo(Visible, c, "key") = [j \in 1..m |-> state[P[j]].key]
    BY <1>2, <2>1, DownToParent
  <2>3. [j \in 1..m |-> state[P[j]].key] = [j \in 1..m |-> IF j < m THEN state[P[j]].key ELSE state[c].key]
    BY <1>2
  <2> QED
    BY <2>2, <2>3 DEF KeysOn
<1>6. UnderLatest(c, x) = Candidates(es, ks, x)
  <2>1. UnderLatest(c, x) = Abstract!Candidates(es, ks, x)
    <3> HIDE DEF ks
    <3> QED
      BY <1>5 DEF UnderLatest
  <2> HIDE DEF es, ks
  <2> QED
    BY <2>1, SameCandidates
<1>7. dag \in Dags /\ WellFormed(dag) /\ PartOf(dag, dag)
  BY SearchAssumption DEF Known, IInv, WellFormed, PartOf
<1>8. \A j \in 1..m : PartOf(ds[j], dag)
  BY <1>2 DEF RulesOn, Known, DomainSearched, SeenOK, Built
<1> HIDE DEF ss, ups, ds, ks
<1>9. /\ Steps(ds, ks, m) /\ DOMAIN ks = 1..m
      /\ es \in Seq(Dags) /\ Len(es) = m /\ \A j \in 1..m : es[j] = dag
  <2>1. Steps(ds, ks, m) /\ DOMAIN ks = 1..m
    BY <1>3, StepsHere DEF Story
  <2>2. es = [j \in 1..m |-> dag] /\ es \in [1..m -> Dags]
    BY <1>7, <2>1
  <2> HIDE DEF es
  <2> QED
    BY <1>2, <2>1, <2>2
<1> HIDE DEF es
<1>10. Steps(es, ks, m)
  <2>1. DOMAIN es = 1..m /\ \A j \in 1..m : \A i \in 1..j : i \in 1..m
    BY <1>2, <1>9
  <2> QED
    BY <1>7, <1>9, <2>1, SearchAssumption DEF Steps
<1>11. Later(ds, es, ks, m, A, B)
  BY <1>8, <1>9, <1>10 DEF Later
<1>12. PICK spec \in Specificities : Offered(ss, ds, x, m, p, spec) /\ ~Below(spec, s.spec)
  <2>1. s \in GoesBy(ss[m], ups[m], x)
    <3>1. View(c) = Above(state[c])
      BY DEF View, Above
    <3> QED
      BY <1>4, <3>1, ViewInherits DEF GoesBy, Applied
  <2>2. Decided(ss, ds, x, m, GoesBy(ss[m], ups[m], x))
    BY <1>2, <1>3, StoryDecides
  <2> QED
    BY <2>1, <2>2 DEF Decided, Comes
<1>13. s.spec \in Specificities
  <2>1. Decided(ss, ds, x, m, GoesBy(ss[m], ups[m], x))
    BY <1>2, <1>3, StoryDecides
  <2>2. View(c) = Above(state[c])
    BY DEF View, Above
  <2>3. s \in GoesBy(ss[m], ups[m], x)
    BY <1>4, <2>2, ViewInherits DEF GoesBy, Applied
  <2> QED
    BY <2>1, <2>3 DEF Decided, Comes, Settings
<1>14. PICK i \in 1..m : /\ p \in ds[i].props /\ p.name = x
                         /\ p.node \in DOMAIN ss[i].nodes /\ spec = ss[i].nodes[p.node]
  BY <1>12 DEF Offered
<1> HIDE DEF A, B
<1>15. p.node \in NodesOf(ds[m]) /\ spec \in A[p.node][i]
  <2>1. A = Active(ds, ks)
    BY DEF A
  <2>2. Agrees(ss, ds, m, A, i) /\ \A n \in DOMAIN ss[i].nodes : n \in NodesOf(ds[m])
    BY <1>3, <1>4, <2>1, StoryAgrees
  <2> QED
    BY <1>14, <2>2 DEF Agrees, Marks
<1>16. PICK t \in B[p.node][i] : ~Below(t, spec)
  BY <1>11, <1>15, AllOver DEF Over
<1>17. t \in Specificities
  BY <1>11, <1>15, <1>16, LaterHere DEF RowsOf, One
<1>18. ~Below(t, s.spec)
  BY <1>12, <1>13, <1>16, <1>17, BelowOrder
<1>19. p \in dag.props
  BY <1>8, <1>14 DEF PartOf
<1> DEFINE now == [spec |-> t, override |-> p.override, prop |-> p]
<1>20. now \in Candidates(es, ks, x)
  <2>1. Last(es) = dag
    BY <1>2, <1>9 DEF Last
  <2>2. i \in {j \in DOMAIN ks : p \in es[j].props} /\ p \in {q \in Last(es).props : q.name = x}
    BY <1>9, <1>14, <1>19, <2>1
  <2>3. t \in UNION {B[p.node][j] : j \in {j \in DOMAIN ks : p \in es[j].props}}
    BY <1>16, <2>2
  <2>4. Active(es, ks) = B
    BY DEF B
  <2> QED
    BY <2>2, <2>3, <2>4 DEF Candidates
<1> QED
  BY <1>6, <1>18, <1>20

\* A context that has missed loads never finds what is not there any more.
THEOREM StaleOnlyMissesAlways == DomainSpec => []StaleOnlyMisses
<1>1. Known => StaleOnlyMisses
  BY StillCandidate DEF StaleOnlyMisses
<1> QED
  BY <1>1, KeysLeastAlways, PTL
=============================================================================
