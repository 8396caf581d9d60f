# A verification of ccs-cpp in TLA+

ccs-cpp evaluates CCS, a language of cascading configuration settings: rule
files say which properties hold in which contexts, a program builds contexts
step by step (`context.constrain(...)`) and asks them for properties. Paths
below are relative to the repository; its own source directory is `src/src`
and its public headers are in `src/api/ccs`.

## 1. The system

| Component | State it keeps | Operations | Interacts with |
|---|---|---|---|
| Specificity, ranking (`dag/specificity.h`, `PropertySetting::better`) | none | compare, add | everything that ranks a match |
| Key (`dag/key.h`) | names, values per name, their counts | `addName`, `addValue`, `addAll`, `matches` | selectors (patterns) and contexts |
| Rule DAG (`dag/node.h`, `dag/tally.*`, `dag/dag_builder.h`, `parser/build_context.cpp`) | nodes with children by key, properties, constraints, and/or tallies; the next property number | `addChild`, join of two legs, `addProperty`, `addConstraint` | written by loads and rule builders, read by every search |
| Context search (`search_state.*`, `Node::activate`, `AndTally::activate`, `OrTally::activate`) | per context: key, active nodes with specificities, conjunction states, cached settings; link to the parent | root construction, `newChild`, `findProperty` | reads the DAG and its ancestors' states |
| CcsContext (`context.cpp`) | a shared pointer to a search state | constructors, `Builder`, typed getters | search, values |
| Selector AST (`parser/ast.cpp`) | the parsed rules | `traverse`, `addTo`, `resolveImports` | turns files into operations on the DAG |
| Loader, imports (`parser/loader.h`, `Import::resolveImports`) | the stack of imports in progress | parse all, then add all | user-provided resolver (callback) |
| RuleBuilder (`rule_builder.cpp`) | a tree of shared handles, each with the rules given to it | `select`, `pop`, `set`, destruction | adds rules to the DAG when destroyed |
| CcsDomain (`domain.cpp`) | the DagBuilder | `loadCcsStream`, `ruleBuilder`, `build` | everything |
| Lexer, parser (`parser/parser.cpp`) | position, current and last token | recursive descent | produces the AST |
| Values (`dag/property.*`) | a typed value and its string | coercions | getters |
| Tracer, logger (`domain.cpp`) | none | callbacks on lookups, conflicts, parse errors | search, loader |
| Graphviz dump (`graphviz.cpp`) | none | prints the DAG | debugging only |

What is hard here, and what correctness means:

* *Order.* The search iterates over maps and sets keyed by pointers, so the
  order of activations differs between processes. The answer must not.
* *State that changes while it is read.* A constraint met during a search
  extends the very key the search is matching; nodes are reached again with
  higher specificities after their settings were cached.
* *Sharing.* Search states are shared by all the contexts below them. The
  state of a conjunction is inherited and copied on write. Contexts under one
  parent can be built by several threads.
* *Sequences of loads.* Rules loaded one after another must meet at the same
  nodes and tallies, and the order in which they arrive settles conflicts.
* *Termination* of the rounds of `newChild`. (The recursion of `activate` ends
  because new nodes are only put below older ones: `Acyclic` states it.)
* *Partial failure*: a load whose imports fail must leave the DAG alone.
* *Lifetimes*: rule builders act in destructors; contexts see later loads only
  in part.

`PROJECT.json` lists these hazards at the lines where they bite, with the
properties that cover them, or a note where none does.

## 2. The modules

```
Specificity          order of specificities, ranking of settings
  Dag                keys and the rule DAG, operations on it
    RuleDag          state machine: rules enter the DAG
      RuleDagProofs  theorems about it
      MCRuleDag      instances
    Meaning          what a context promises, without a search
      MeaningProofs  lemmas about that
      Selector       what written selectors do to the DAG, and what they mean
        SelectorProofs   theorems about that, on MeaningProofs
        MCSelector       instances
      AbstractContext    contexts as users see them
    ContextSearch    state machine: the search that builds contexts
      MCContexts           instances, with RuleFiles
      Domain           state machine: loads and constructions over time
        ContextRefinement    Domain implements AbstractContext
          ContextSearchProofs  theorems about all three, and what finished searches have found
          MCDomain           instances, with RuleFiles
    RuleFiles        rule files in two parts, as DAGs
AbstractLoader       what loading a file promises
  Loader             parsing, imports and resolvers; implements AbstractLoader
    LoaderProofs     theorems about it, and that it implements AbstractLoader
    MCLoader         instances
RuleBuilder          rules given by calls, delivered by destructors
  RuleBuilderProofs  theorems about it
  MCRuleBuilder      instances
Grammar              the documented language of rule files
  Parser             the recursive descent, compared with Grammar
    MCParser         instances
Lexer                from characters to tokens
  LexerTables        the lexer's functions at one position, for the proofs
  Values             values of properties, their texts and coercions
    Literals         state machine: a setting is written, loaded and looked up
      LiteralsProofs   theorems about it, with LexerTables
      MCLiterals       instances
Induction            lemmas the proofs share
```

**Specificity, Dag.** Pure data. A key is a pair of sets; the DAG is a record
of relations. Nodes carry the number of their creation in place of an address,
and a tally is identified by the node it owns. `ChildNode`/`WithChild` are the
two effects of `Node::addChild` (the node answered, the DAG left behind), and
likewise for the join of `TallyBuildContext::traverse`.

**RuleDag.** `AddChild` is `Step::traverse`, `Join` is
`TallyBuildContext::traverse`, `AddProperty` and `AddConstraint` are
`PropDef::addTo` and `Constraint::addTo`. Any two nodes but the root may become
the legs of a join, because parentheses let a selector put any two selectors
side by side.

**ContextSearch.** One `SearchState` record per context (`state`) and one
control record per construction (`run`). The recursion of `Node::activate` is a
stack of calls; each call first caches properties, then activates conjunctions,
then disjunctions, as in `node.h:81-91`. `NextNode`, `NextChild`,
`NextAncestor`, `EndRound` and `NextRootRound` are the loops of `extendWith`,
`getChildren`, `newChild` and the root constructor. Every choice that depends
on addresses is free; so is the order of children and of properties of one
node, which in the code depends on names, so that the model has more orders than
the code, never fewer. The local flag of `newChild` is `again`, the member
`constraintsChanged` is `changed`. `above` replaces the walk along parent
pointers: the set of contexts that it reaches, the nearest of which is the one
with the greatest number, since a parent exists before its children.

**Domain.** `Construct` is `ContextSearch` with a note, `seen`, of the DAG that a
construction reads; `Load` replaces the DAG by one grown from it (`Grown`), which
is all that `loadCcsStream` and the end of a rule builder do to it. Nothing in
the code locks the DAG, so a load comes while no context is being built:
programs that do otherwise have a data race.

**Meaning, AbstractContext.** `Meaning` says in which steps of a chain of keys
a node is active, with which specificity, which key a step ends with
(the least one closed under the constraints of the nodes active there), and
which settings win. The steps of a chain may have been built under different
rules: what was loaded later is not active at an earlier step, and a conjunction
has not seen its legs matched there. `AbstractContext` creates contexts in one
step, with exactly those answers, never changes one, and may have rules added
between two steps. `ContextRefinement` shows that `Domain` implements it:
nothing of a construction is visible until it ends.

**RuleFiles, MCContexts, MCDomain.** A rule file is a pair of DAGs, of its first
part and of the whole; `Versions` are both, `Loads` the pairs.

**Selector.** A selector is the sequence of the calls of `step`, `descendant`,
`conjunction` and `disjunction` that the parser makes for it, each naming the
calls that answered its operands: a tree without recursion. `Leaves` are the
`Step` and `Wrap` objects that these calls leave behind (`Applied` is
`Wrap::push`), `Traversals` the `traverse` of each, as functions from places (a
DAG and a node) to places. `InContext` is `BuildContext::traverse` in the two
classes of build contexts, `Branch` is `BranchImpl::traverse`, `ThroughWrap` is
`Wrap::traverse`, and `Placed` is the descent of `Nested::addTo` through the
blocks around a rule. `Load` adds one rule to the DAG. `RuleSteps` is the
README's meaning of selectors, without nodes or tallies: for every step of a
context, the steps after it at which the selector comes to match.

**AbstractLoader, Loader.** The calls in progress are the stack `frames`:
`Nested::resolveImports` with the rule it is at, and the user's `resolve` with
how many files it has offered. `asts` are the `Nested` of the file and of each
import, filled while parsing; `Parse` is `Loader::parseCcsStream` up to the call
of `resolveImports`, and `EndLoad` the end of `loadCcsStream`. The resolver is
not part of the repository; the model has one that offers the files of a search
path until one is accepted, and that may throw. The abstract loader adds a
file's settings, imports expanded in place, or reports an error, in one step.

**RuleBuilder.** `handles` counts the `RuleBuilder` objects that share an
`Impl`, `Children` the `Impl`s that hold it as their parent. `Drop` destroys one
handle; `Destroy` runs the destructor of `releasing`, which hands its rules on
and releases its parent. A setting carries the selectors it is nested in.

**Grammar, Parser.** `Grammar` is a reference, not a model: the productions of
`misc/grammar.txt`, a recogniser for them that keeps every derivation in
progress, and the README's precedence as a function from a written selector to
the order in which operators apply. `Parser` is `ParserImpl`: its calls are a
stack of what is still to be parsed, `cur` is `cur_`, `next` the token the lexer
has ready. Every token is any token, so runs go over all inputs up to a depth
of nesting. `written` and `built` record the selector being parsed and the
`SelectorLeaf` calls made for it. A string literal is plain, or has an
interpolation (EXPANDED), or has nothing in it (EMPTY): `parseIdent` and
`@import` read a literal first and look into it afterwards, and looking into an
EMPTY one is undefined (`Undefined`).

**Lexer.** `Buf` and `Lexer` as functions of a sequence of characters: a position
takes the place of the stream. `Skipped` is the loop over white space and
`comment`, `AfterBlock` is `multilineComment`, `TokenAt` is `nextToken`, and
`StringFrom`, `NumId`, `HexLiteral`, `Ident` are the functions it calls. Loops
are functions by recursion on a position. That of a string literal builds its
elements from the end: `WithPlain` puts a character before what the rest of the
literal says, `WithInterpolant` a variable, and the characters between two
variables are one element, as the code's buffer makes them. A token that ends the lexer is BAD where the code throws at a character, OPEN where it
throws because the input ends. Overflow of `hexLiteral`'s accumulator wraps
(`Wrapped`), as two's complement hardware does; `strtoll` saturates (`Clamped`).
`LexerAssumption`: letters are none of the other characters.

**Values.** A value is what was given (`raw`), which sort it is, and the text that
`Value::str` makes when it is set. `Cast` is `Caster` under `Value::accept`,
`CoerceString` is `coerceString`: `ReadInt` and `ReadDouble` say what the
library's `operator>>` leaves in the destination and whether it succeeds, and
`DoubleText` what `operator<<` prints, which is `%g` with six digits
(`Precision`). Doubles are decimal numbers `coef * 10^exp`; that their fractions
are binary is left out, but for ties of the last printed digit, which go to the
even digit and on which no property depends. `ValuesAssumption`: an int has two
bits or more and is narrower than int64_t.

**Literals.** `Write` extends the text after an equals sign, `LoadSetting` loads
the file with that setting, and `SetVariable` changes the environment before or
after. `Get`, `GetOr` and `GetInto` are the lookups of `context.cpp` for the four
types, `GetT`, `GetTOr` and `GetTInto` the templates of `context.h`, which also
read `int64_t`. `LiteralsAssumption`: no text has the lexer's mark of the end,
variables are names and their contents texts, and `Comments` are comments
(`IsComment`, which counts the marks that begin and end one, from the left).

## 3. What is checked

| Run | Question | Bounds |
|---|---|---|
| `dag` | Is every DAG acyclic, with one owner per node and one tally per pair of legs, registered at both? Do more rules keep what selectors lead to, and do later properties outrank earlier ones? | 6 nodes, 3 keys without properties; 4 nodes with 2 properties, 1 constraint |
| `contexts` | Does every order of the search end in what `AbstractContext` promises, does the search only grow, do caches ever hide something better, what do contexts older than a load find, and does a context depend on anything but its parent, its key and the rules of its time (`RulesDecide`)? | every rule file, loaded whole or in two parts, three requests, 4 contexts one after the other |
| `context_threads` | Do two constructions at once leave built contexts alone, agree when they should, and end? | three files, two requests, 3 contexts, 2 at once |
| `selector_meaning` | Do rules apply in exactly the contexts their selectors name, however grouped, nested or loaded together? Is the DAG they make fit for searches (`ShapedForSearch`), and does a rule loaded again find all its nodes (`RulesAreShared`)? | every selector of up to three steps, blocks in blocks, a second rule of up to two steps, two names, contexts of four steps |
| `load_inclusion` | Does a load add a file with its imports or nothing, find the circular imports and no others, give each import an AST of its own, and end? | every two files of up to two rules, two loads |
| `builder` | Does every setting reach the DAG once, under its selectors, with the rest of its builder? | 4 Impls, 3 settings, 2 handles each |
| `literals` | Do lookups answer what was written, or refuse it, and agree with one another? Are strings read back, comments skipped, variables read once? | int of 7 bits, int64_t of 11, 2 printed digits, texts of 3 to 7 characters from seven alphabets, one variable |
| `parser` | Does the parser accept what the grammar has, and build selectors in the documented order? | all tokens, 14 calls in progress, selectors of 6 tokens |
| `load_fallback` | Is a file added only if no error was reported? (it is not) | three files of one rule, one load |
| `builder_recent` | Is the most recently set value the one used? (it is not) | 3 Impls, 2 settings |
| `parser_semicolons` | May semicolons separate all rules? (not after blocks) | tokens of a few rules |
| `parser_empty` | May any string be a name? (not the empty one) | as `parser_semicolons` |

Bounds. Six nodes are enough for a join of a join with another node and for
three joins of the same pairs in both orders. The rule files of `MCContexts`
are chosen for the hazards: a conjunction whose legs are met in different
contexts and conflict before; constraints that bring in nodes that constrain
further; a node reached with three specificities; overrides that meet at
different depths; a root context that constrains itself; conjunctions whose
legs lie below one another. Three contexts (root, step, step) are the least
that have an ancestor other than the parent and the root; the fourth adds an
ancestor that is neither parent, root nor neighbour of either. Three steps are
the least for a group within a selector and for two operators of different
precedence; two rules are enough for one to meet the nodes and tallies of
another. The two parts of a rule file put each of these on either side of a
load: a conjunction loaded after its first leg was matched, a constraint or an
override loaded after the context it would have applied to. Two files of two rules import themselves, each other, one another
twice and before or after a setting. Four Impls are a root with a grandchild
and a sibling, or two builders. The parser's bound is on nesting only, and
leaves room for a selector in parentheses in a block in a block. Five
characters pass both integer limits in decimal and in hexadecimal digits, and
have doubles with more digits than are printed, with carries (`9.95`), in
scientific notation on either side; six hold an interpolation in quotes.

Fairness. `ContextSearch!Spec` has weak fairness of each construction's `Step`:
a construction is ordinary code in some thread, it takes no lock and waits for
nothing, so it advances as long as its thread is scheduled. Nothing is assumed
of `Start`. `Loader!Spec` is fair to the steps of a load, which is one call in one
thread, and so assumes that resolvers return; nothing makes a load begin.
`RuleBuilder!Spec` is fair to `Destroy`, since a destructor that was set off runs;
whether handles are dropped is up to the program. All specifications may stop (`CHECK_DEADLOCK FALSE`) because their
bounds end them.

Each property has a mutant, a variant of a definition marked *Defect* in the
modules, which makes TLC report that property violated.

Four runs are meant to fail; each shows where code and documentation differ.

* `load_fallback`. `loader.h:25` says of the moment rules are added "everything
  parsed, no errors". A resolver with a search path may have its callback refuse
  one file, which reports a parse error, and accept the next: the load goes on,
  and the rules before the error in the refused file are added too, since they
  are already in the import's AST.
* `builder_recent`. Conflicting settings are reported with "Using most recent
  value." (`domain.cpp:64`). The rules of two children of a builder reach it in
  the order in which their last handles are destroyed, so in
  `b.select("c").set("x","1").pop().select("c").set("x","2")`, whose temporaries
  are destroyed in reverse order, 1 is the value used.
* `parser_semicolons`. README.md:143 says that rules may be separated by
  semicolons; `a { } ; b { }` is an error, because `parseRule` looks for a
  semicolon only after a setting, an import or a constraint.
* `parser_empty`. misc/grammar.txt has any STRING as a name. `parseIdent` asks a
  literal whether it has an interpolation, and `StringVal::interpolation`
  (property.h:32) looks at the first element of a vector which for `''` is
  empty: undefined behaviour for `a.'' : x = 1`, `'' = 1` or `@import ''`.

What the runs show that a user may not expect:

* A context built before a load never sees its rules; one built below it sees
  part of them: those whose selectors begin at nodes the older context has
  active. `StaleOnlyMisses`: it misses settings, but each one it finds would be a
  candidate under all the rules, ranked as high at least.
* `getInt` of a double rounds to six digits and refuses what needs an exponent:
  2.9999999 is 3, 1.5 and 1000000.0 are refused (`DoublesRounded`).
* The typed lookups with a default throw for a value of another type, the
  template ones answer the default, and the template `getInto` may write to its
  destination and answer false (`FlavoursAgree`).
* A text `-0` in quotes is read by `getDouble` as the negative zero, which a
  literal -0, an integer, never is (`AsDoubles` has both; an attempt to prove
  `TypeOK` and `FlavoursAgree` with one zero failed here).
* `getInt` refuses integers that are too large only because int is narrower than
  int64_t. Were they equally wide, a decimal literal that is too large would be
  clamped to the largest int and answered (the proof of `IntegersAsWritten`
  needs `ValuesAssumption` for this).
* A decimal literal beyond int64_t becomes the largest or least int64_t, which
  `getString`, `getDouble` and `get<int64_t>` answer; only `getInt` refuses it
  (`IntegersAsWritten`). A hexadecimal one of too many digits
  may be answered as another number: no property forbids it, as nothing in the
  repository says what the answer should be.

## 4. What is proved

`tlapm` checks, for all values of the constants:

* `RuleDagProofs`: `Invariance`, that `IInv` holds in every reachable state of
  `RuleDag`, and from it the named safety and action properties. The wanted
  properties are not inductive alone: that a new tally is the only one of its
  legs needs `LegsRegistered` (so that the lookup would have seen another) and
  `SingleOwner` (so that two tallies are never confused); these need `InRange`,
  because a new node's number must not be in use. `OneChildPerKey`,
  `LegsDiffer` and `PropsInRange` serve the action properties, and the last
  also `WellFormedAlways`.
  No assumption is made about the constants.
  `WellFormedAlways` hands over to the search what it assumes of a DAG, and
  `OnlyGrows` to `Domain` what it assumes of loads.
* `ContextSearchProofs`: `BuiltIsKeptAlways` (a step of a construction writes the
  record of its own context only, and none of a built one), and from the
  invariant `IInv` of `ContextSearch`: `TypeCorrect`, `CacheCoherentAlways`,
  `TallyCoherentAlways` and `SearchGrowsAlways`. The coherence of a context's
  caches is about other contexts' records, so it is inductive only with
  `LineageOK`: what a context looks up to is built, hence does not change. The
  argument is local: an operator on one search state (`ActivationGrows`,
  `CachingGrows`, `MatchingGrows`) makes it grow and keeps it coherent; each
  action applies some of them (`...Grows`); and whatever else there is stays as
  it is (`Framed`). The heart of it is that `better` is a strict weak order
  (`BetterOrder`), so that a setting that is not worse than one that hides an
  inherited setting hides it as well. `SearchAssumption` asks for well-formed
  DAGs, finite sets of names and values, and requests that are keys.
  The second part of the module is about `Domain`: the same invariant, and the
  theorems that follow from it, with loads between constructions. A step of
  `DomainNext` is one of `Next`, for which the lemmas of the first part are cited,
  or a load, which leaves every search state alone; what the invariant says of a
  state with respect to the DAG (that its nodes and tallies are there) carries over
  to a grown one. `DomainAssumption`: each pair of `Loads` consists of DAGs, the
  second grown from the first.
* `LoaderProofs`: `LoaderTypeCorrect` (the ASTs of a load are a forest, each import
  has its own, so that `addTo` ends), `NeverReentered` and `StackAlwaysCurrent`.
  That no location is resolved within itself follows from two facts: the n-th
  resolver on the stack of calls is that of the n-th location in progress
  (`InProgressIsStack`, inductive with `CleanBetween`: a load starts from
  nothing), and the locations in progress differ (`NoRepeats`), which is what
  the test for circular imports keeps. The lemmas on `Stacked` say what a call
  and a return do to the stack; `ParseInv` is for a file parsed by a load and by
  a resolver. `LoaderAssumption`: resolvers look for locations, not for settings,
  and offer files.
* `LoaderProofs`, second part: `AllOrNothing`, that `Loader` implements
  `AbstractLoader`: a load adds the file's settings with its imports expanded in
  place, or nothing. The file that each AST in use was parsed from is recovered
  as a function `held` (it is not in the code's state); the invariant `LoadInv`
  says that what an AST holds is what its file says, that the imports still
  unfilled are those the calls in progress have yet to come to (`Ahead`), and
  that a file found circular, or refused, is on the way to every load that is to
  fail (`Doomed`). When a load ends without an error the ASTs are the tree of
  the expansion (`CompleteIsSound`), and the settings in `addTo`'s order are the
  abstract ones (`FlatIsInclusion`, an induction over the depth of imports that
  `NoRepeats` bounds). Two hypotheses: the resolver offers one file per location
  (`ByLocation`; the run `load_fallback` shows that nothing of this holds of one
  that goes on after a file was refused), and the files are finitely many, which
  bounds that depth. `NoErrorsThen`: under `ByLocation` rules are added only if
  no error was reported, the comment that `load_fallback` refutes in general.
* `RuleBuilderProofs`: `NeverLostOrDoubled`. The invariant gives every setting one
  place (`OnePlace`), and says why the place is there: a living child's parent
  lives, and the destructor that hands rules on runs when nothing can be handed
  to its own Impl any more (`ParentsLive`). `HandedOn` is the step that matters:
  rules appended to the parent's, or the DAG's, move to places behind all others.
  `AlwaysLandsWhereGiven` and `AlwaysWholeBuilders` are about the selectors on the
  way from an Impl to its root, the recursive functions `Paths` and `Roots`. These
  have values because parents are older than their children
  (`PlacesInvariance`), and a new Impl extends them without changing the others'.
* `Induction`: strong and simple induction over Nat as statements about a set, from
  the well-foundedness of `<`; least and greatest elements; and that a function
  defined by recursion below its argument exists (`RecursiveFunction`), without
  which nothing is known of a recursive definition, a CHOOSE. `ValueByValue` and
  `MeasuredRecursion` are the same for functions whose recursion depends on a value
  or on a measure, `ForwardRecursion` and `ForwardInduction` for the positions of a
  text, where a value depends on those at later positions. Also lemmas on sequences.
* `ContextSearchProofs`, third part: `OrderIndependentAlways`, that contexts with one parent and
  one key are the same, in whatever order their searches went, and
  `SearchFindsTheLeast`, why: the nodes of a built context are the least that are
  `Closed` under its rules, its key and what its ancestors have. `SearchedAlways`
  is the inductive invariant, for a search at any moment and any stack of calls.
  Its `Sound` says that nothing gets lost (what an active node asks of its
  disjunctions, conjunctions and properties has been done, or a call that has it
  still to do is on the stack: `OrsDone`, `AndsDone`, `LegsDone`, `PropsDone`)
  and that nothing is without cause: every closed set has the nodes
  (`NodesBounded`), every leg and setting comes from a node that is active here
  or above (`LegsBounded`, `SettingsFounded`). `Rounds` is about the loops: unless
  the key has changed since a round began, what the round has passed is done;
  this is what `constraintsChanged` is for. `RootRound` and `ChildRound` differ
  as `CcsDomain::build` and `newChild` do. A finished search has an empty stack
  and no change, so all of this holds without exceptions (`Settled`), its nodes
  are closed (`SettledClosed`) and least; two such searches have the same nodes,
  and then the same legs and settings, each being bounded by the nodes from both
  sides. `SearchAssumption` asks for DAGs that are `Regular` besides: every node but
  the root has one origin, an edge or a tally, and is newer than what it comes from,
  and tallies are registered with their legs; `WellFormedAlways` proves this of the
  DAGs that rules make. In a `Domain` the invariant of each search is about the rules
  it has read (`DomainSearchedAlways`), since a load comes only when none goes on;
  `RulesDecideAlways` and `DomainFindsTheLeast` are the same two results there.
* `ContextSearchProofs`, fourth part: `ContextsAsPromised`, that `Domain` implements
  `AbstractContext`, and `StaleOnlyMissesAlways`. `Meaning` computes its rows node
  by node, each for all steps; a search finds all nodes, one step at a time. To
  compare the two, the steps that lead to a context are a `Story`: settled search
  states, each with the states above it and the rules it was built with. By
  induction over the steps, the rows agree with the search states: the rows at
  one step (`Column`) are closed under its rules (`ColumnClosed`) and, by
  induction over the nodes, below all that is (`ColumnLeast`), and there is only
  one such thing (`StoryAgrees`). What a conjunction remembers of its legs in the
  nearest state that has it is what the rows say of all steps (`LegsRecalled`).
  The settings a context goes by are the winners (`StoryDecides`): one cached
  nearer by hides the others rightly, by `CacheCoherent`. The key needs an invariant
  of its own, `Known` (`KeysLeastAlways`): at any moment of a search, the key has what
  was requested and what the nodes reached so far ask for, and any key that has
  what was requested and satisfies the constraints of some nodes `Closed` under it
  has what this key has (`KeyWanted`). When the search ends, its key is
  closed and hence the least such key, and `ClosedKey` is it (`KeyIsClosed`).
  `Known` also has that contexts are numbered in the order they are begun, and that
  those above one were built with part of its rules. The step that finishes a
  context is then the abstract `Build` (`FinishBuilds`); that the path to it is the
  same in both (`DownToPath`) is again an induction, since `DownTo` is a recursive
  function. For `StaleOnlyMisses` the rows are compared with themselves under later
  rules: each is no worse there (`AllOver`), so what was a candidate still is one.

* `SelectorProofs`: `MeansWhatItSaysAlways`, `ShapedForSearchAlways` and
  `RulesAreSharedAlways`, for all selectors, however many, long and nested, and all
  contexts. The inductive invariant `Inv` (`RulesEndWhereTheySay`) says of every
  rule loaded where its node is active and that the rule would lead there again,
  in the DAG there is and in every `Larger` one: a load changes the DAG under all
  rules before it, so an invariant about the present DAG alone would not survive
  one. The argument follows the code. `ChildMade` and `JoinMade` say what
  `addChild` and a join of two nodes make of a DAG, `ChildFound` and `JoinFound`
  that they find it again (for which a node has one child per key and two nodes
  have one tally, `Unique`), `ChildActive` and `JoinActive` where these nodes are
  active, from `MeaningProofs`. A leaf `Means` its table of steps if from every
  place of every such DAG it leads where the table says. `WrapApplies` shows that
  the leaf of an operator takes its right operand in the context that the left
  one leads to, although a `Wrap` holds a list of branches and not a tree: what
  was written in parentheses on the left comes to the same. `InContextLeads` then
  is the step of the induction over the calls (`SelectorMeans`), `OperatorsReach`
  its counterpart in the README's words: operators may be applied to each step
  of a set or to the set, because who starts later sees no more (`StepsFall`), so
  that the first step decides. `NextBlock` is the step of the induction over the
  blocks around a rule. Recursive definitions have values by `RecursiveFunction`
  (`LeavesAre`, `TraversalsAre`, `StepsAre`, `AfterEach`). `SelectorAssumption`:
  finitely many names and values; rules are made of the parser's calls, each
  answer used once; contexts have a root. TLC checks what follows from `Inv`, not
  `Inv` itself, which is about all larger DAGs.
* `MeaningProofs`: lemmas on `Highest`, on `Active` (its rows exist, and what each
  is made from) and on DAGs that are part of another, for the modules above.

* `LiteralsProofs`: `TypesHold`, `LoadedOnceAlways`, `FlavoursAgreeAlways`,
  `IntegersAsWrittenAlways`, `DoublesRoundedAlways`, `StringsReadBackAlways` and
  `CommentsAreBlanksAlways`, for texts of any length over any alphabets, and
  integers of any width. The invariant `LitInv` (`LoadedFromItsText`) says that a
  loaded property is the value of the only token of its text, in some environment;
  what is left are statements about the lexer and the coercions. `LexerTables` has
  what the lexer's recursive functions are at a position, by what they are further
  on, and what texts have to do with each other that the lexer reads alike. The
  lexer's functions have values by `ForwardRecursion`, those of digits and numbers
  by `ValueByValue` or `RecursiveFunction`.
  - `FlavoursAgree`: `DoubleReadBack`, that a double which is printed and read
    again is the double rounded to what is printed, so that the ways through a
    string and those that are not come to the same.
  - `IntegersAsWritten`: `ExactlyIs` says which number a text writes, without the
    lexer; `IntTokenIs` and `HexTokenIs` (with `HexIs`: nothing wraps below the
    largest int64_t) which one the token has; `IntegerReadBack` that a printed
    integer is read as that integer; `QuotedSays` and `TooLarge` what becomes of
    integers in quotes and of those that are out of range.
  - `DoublesRounded`: `DoubleTokenIs`, which double the token has; `DigitsSpan`,
    between which powers of ten a number of so many digits is, and `RoundedHas`,
    what is left of it by rounding. A double printed without point or exponent is
    read as the integer printed (`WholeText`); of any other the reading stops
    where the digits do, and something is left (`BrokenUnread`). `NearbyRounded`:
    the integer printed is the only one that is near enough.
  - `StringsReadBack`: one text after another, what `Escaped` makes of a character
    `Adds` that character to what the literal says (`EscapedRead`), and an
    interpolation adds the variable's contents (`VariableRead`); hence
    `LiteralIs`.
  - `CommentsAreBlanks`: one text `GoesOn` as another does when it has the same
    characters from some position on, some places further. Then whatever the lexer
    does there is the same but for the places (`SkippedAlike`, `StringAlike`,
    `NumIdAlike`, `IdentAlike`, `HexAlike`, hence `NextTokenAlike`), also where the
    first text ends and the second has a blank or a comment, except that a slash at
    the end may begin a comment. So the tokens after the comment are those after the
    blank (`RestAlike`), and those before are what they are without either
    (`PrefixAlike`). `CommentRead`: what `IsComment` says of the marks in a comment,
    from the left, is where `AfterBlock` and `AfterLine` stop.
  - `TypeOK`: `ValueTexts`, which characters the texts of values are made of.

  The assumptions are `LexerAssumption`, `ValuesAssumption` and
  `LiteralsAssumption` (section 2).

Only model-checked:

* termination and all other liveness, which is out of the prover's reach with
  fairness and ENABLED;
* all of `Parser` (`FollowsGrammar`, `FollowsPrecedence`), since `Grammar`'s
  productions refer to one another in RECURSIVE operators, which the prover has
  no rule for.

## 5. Not modelled

Components are listed with reasons in `PROJECT.json`. Left out for good:
graphviz output, the wording of log messages. Specificities are naturals. The
freeing of memory is not modelled; the acyclicity that makes `setTallyState`
safe is. Within the components that are modelled:

* a resolver that keeps the callback of an import and calls it from another
  one, or after it returned; one that reports success although its callback
  refused the file or was never called; `@context` of a stream that replaces that of one
  refused before;
* rule builders that outlive their domain;
* loads while a context is being built, which the code does not allow for;
* lines and columns of locations, tabs, carriage returns and capital letters in
  the lexer; the range of exponents of doubles, and their binary fractions;
* types of the template lookups with an `operator>>` of the program's own;
* the composition of lexer and parser: to `Parser` the lexer is a source of tokens
  that may fail at any time, which is more than the lexer does;
* the tree of rules the parser builds (`addRule`), except for selectors.

In `a > { b { c : x = 1 } }`, `b` is looked for below a step that matches `a`,
but `c` anywhere, since `Nested::addTo` hands the root on as the base context.
The README does not say which it should be; `RuleSteps` follows the code there.

## 6. Plan

All safety properties are proved but two of `Parser` (section 4). What may
follow:

1. `Parser`: that it follows the grammar for inputs of any nesting, with the
   productions of `Grammar` as one function over what is still to be parsed.
