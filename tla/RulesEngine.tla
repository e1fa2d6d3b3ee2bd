----------------------------- MODULE RulesEngine -----------------------------
(***************************************************************************)
(* The TOML rules of crates/policy/src/rules.rs: how a file's rules are    *)
(* ordered and which of them a node gets.                                  *)
(*                                                                         *)
(* A rule's predicates on name, kind and property are values, or Unset for *)
(* None; a kind stands for the word that names it, in any case, and a word *)
(* that names none is a value no node has as its kind.  A node's           *)
(* properties are a set of key-value pairs.                                *)
(***************************************************************************)
EXTENDS Integers

CONSTANT Unset  \* a predicate that is not given

NoAction == [type |-> "NoMatch"]

Predicates(rule) == <<rule.name, rule.kind, rule.property>>

\* Slip: a rule without predicates matches every node.
MatchesWhatIsSet(rule, node) ==
  /\ rule.name \in {Unset, node.name}
  /\ rule.kind \in {Unset, node.kind}
  /\ rule.property = Unset \/ rule.property \in node.properties

\* All predicates given must hold, and there must be one.
Matches(rule, node) ==
  /\ rule.name \in {Unset, node.name}
  /\ rule.kind \in {Unset, node.kind}
  /\ rule.property = Unset \/ rule.property \in node.properties
  /\ Predicates(rule) # <<Unset, Unset, Unset>>

\* Slip: the lowest priority first.
BeforeByLowest(rules, i, j) ==
  \/ rules[i].priority < rules[j].priority
  \/ rules[i].priority = rules[j].priority /\ i < j

\* The order of the stable sort by falling priority.
Before(rules, i, j) ==
  \/ rules[i].priority > rules[j].priority
  \/ rules[i].priority = rules[j].priority /\ i < j

SortedOrders(rules) ==
  {p \in [DOMAIN rules -> DOMAIN rules] :
     /\ \A i \in DOMAIN rules : \E k \in DOMAIN rules : p[k] = i
     /\ \A a, b \in DOMAIN rules : a < b => Before(rules, p[a], p[b])}

Arranged(rules, p) == [k \in DOMAIN rules |-> rules[p[k]]]

\* load_toml into an empty engine.
LoadToml(rules) == Arranged(rules, CHOOSE p \in SortedOrders(rules) : TRUE)

\* evaluate_node: the first rule of the engine that matches.
IsFirstMatch(engine, node, k) ==
  /\ k \in DOMAIN engine
  /\ Matches(engine[k], node)
  /\ \A j \in DOMAIN engine : j < k => ~Matches(engine[j], node)

EvaluateNode(engine, node) ==
  IF \E k \in DOMAIN engine : Matches(engine[k], node)
  THEN engine[CHOOSE k \in DOMAIN engine : IsFirstMatch(engine, node, k)].action
  ELSE NoAction

-----------------------------------------------------------------------------
(***************************************************************************)
(* A reference for the engine, which sorts and then takes the first match: *)
(* a rule that gives criteria and finds them all in the node applies; of   *)
(* the rules that do, the one of highest priority wins, among equals the   *)
(* earlier one in the file.  A name applies if it is the node's, as in the *)
(* code; docs/book/src/rules.md calls it a substring match, which the code *)
(* does not do.                                                            *)
(***************************************************************************)
Given(rule) ==
  {c \in {<<"name", rule.name>>, <<"kind", rule.kind>>, <<"property", rule.property>>} :
     c[2] # Unset}

Facts(node) ==
  {<<"name", node.name>>, <<"kind", node.kind>>} \cup ({"property"} \X node.properties)

Applies(rule, node) == Given(rule) # {} /\ Given(rule) \subseteq Facts(node)

Winner(rules, node, i) ==
  /\ i \in DOMAIN rules
  /\ Applies(rules[i], node)
  /\ \A j \in DOMAIN rules \ {i} :
       Applies(rules[j], node) => \/ rules[i].priority > rules[j].priority
                                  \/ rules[i].priority = rules[j].priority /\ i < j

=============================================================================
