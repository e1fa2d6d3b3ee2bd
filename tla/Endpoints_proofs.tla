--------------------------- MODULE Endpoints_proofs ---------------------------
(***************************************************************************)
(* Proofs about RulesEngine and Endpoints.                                 *)
(*                                                                         *)
(* Of the rules: whatever a file says, load_toml finds an order, and the   *)
(* rule that evaluate_node finds in it is the one the rules documentation  *)
(* promises.                                                               *)
(*                                                                         *)
(* Of the daemon on its platforms: types, the graph, the volumes, and what *)
(* GetMetrics counts.                                                      *)
(***************************************************************************)
EXTENDS Endpoints, FiniteSetTheorems, SequenceTheorems, TLAPS

-----------------------------------------------------------------------------
(***************************************************************************)
(* Least elements, from which what an induction would show follows.        *)
(***************************************************************************)
LEMMA LeastSubset ==
  ASSUME NEW S, IsFiniteSet(S), NEW T \in SUBSET SUBSET S, T # {}
  PROVE  \E X \in T : \A Y \in T : Y \subseteq X => Y = X
<1>1. IsWellFoundedOn(StrictSubsetOrdering(S), SUBSET S)
  BY FS_StrictSubsetOrderingWellFounded, FS_FiniteSubsetsOfFinite
<1>2. PICK X \in T : \A Y \in T : ~ (<<Y, X>> \in StrictSubsetOrdering(S))
  BY <1>1, WFMin
<1> QED
  BY <1>2 DEF StrictSubsetOrdering

LEMMA LeastNatural ==
  ASSUME NEW T \in SUBSET Nat, T # {}
  PROVE  \E m \in T : \A k \in T : m <= k
<1>1. PICK n \in T : TRUE
  OBVIOUS
<1> DEFINE N == 1..n
<1> DEFINE U == {1..k : k \in {j \in T : j <= n}}
<1>2. IsFiniteSet(N)
  BY FS_Interval
<1>3. U \in SUBSET SUBSET N /\ U # {}
  <2>1. 1..n \in U
    OBVIOUS
  <2>2. ASSUME NEW k \in T, k <= n PROVE 1..k \subseteq 1..n
    BY <2>2
  <2> QED
    BY <2>1, <2>2
<1>4. \A X \in U : \E k \in T : k <= n /\ X = 1..k
  OBVIOUS
<1>5. ASSUME NEW k \in T, k <= n PROVE 1..k \in U
  BY <1>5
<1> HIDE DEF U, N
<1>6. PICK X \in U : \A Y \in U : Y \subseteq X => Y = X
  BY <1>2, <1>3, LeastSubset
<1>7. PICK m \in T : m <= n /\ X = 1..m
  BY <1>4
<1>8. ASSUME NEW k \in T PROVE m <= k
  <2>1. CASE k < m
    <3>1. 1..k \in U /\ 1..k \subseteq 1..m
      BY <1>5, <1>7, <2>1
    <3>2. 1..k = 1..m
      BY <1>6, <1>7, <3>1
    <3>3. m \in 1..m /\ m \notin 1..k
      BY <2>1
    <3> QED
      BY <3>2, <3>3
  <2> QED
    BY <2>1
<1> QED
  BY <1>8

-----------------------------------------------------------------------------
(***************************************************************************)
(* The order of the rules.                                                 *)
(***************************************************************************)
\* The fields of a file of rules that load_toml can sort.
Sortable(rules, S) ==
  rules \in Seq(S) /\ \A i \in DOMAIN rules : rules[i].priority \in Int

LEMMA BeforeOrders ==
  ASSUME NEW S, NEW rules, Sortable(rules, S),
         NEW i \in DOMAIN rules, NEW j \in DOMAIN rules, NEW k \in DOMAIN rules
  PROVE  /\ ~Before(rules, i, i)
         /\ i # j => Before(rules, i, j) \/ Before(rules, j, i)
         /\ Before(rules, i, j) => ~Before(rules, j, i)
         /\ Before(rules, i, j) /\ Before(rules, j, k) => Before(rules, i, k)
<1>1. /\ i \in Nat /\ j \in Nat /\ k \in Nat
      /\ rules[i].priority \in Int /\ rules[j].priority \in Int /\ rules[k].priority \in Int
  BY DEF Sortable
<1> QED
  BY <1>1 DEF Before

\* Of any rules of the file one comes first.
LEMMA FirstOfRest ==
  ASSUME NEW S, NEW rules, Sortable(rules, S), NEW R \in SUBSET DOMAIN rules, R # {}
  PROVE  \E r \in R : \A i \in R \ {r} : Before(rules, r, i)
<1> DEFINE Low(i) == {j \in R : Before(rules, j, i)} \cup {i}
<1> DEFINE U == {Low(i) : i \in R}
<1>1. IsFiniteSet(DOMAIN rules)
  <2>1. DOMAIN rules = 1..Len(rules) /\ Len(rules) \in Nat
    BY DEF Sortable
  <2> QED
    BY <2>1, FS_Interval
<1>2. IsFiniteSet(R)
  BY <1>1, FS_Subset
<1>3. U \in SUBSET SUBSET R /\ U # {}
  OBVIOUS
<1>4. \A X \in U : \E i \in R : X = Low(i)
  OBVIOUS
<1>5. \A i \in R : Low(i) \in U
  OBVIOUS
<1> HIDE DEF U
<1>6. PICK X \in U : \A Y \in U : Y \subseteq X => Y = X
  BY <1>2, <1>3, LeastSubset
<1>7. PICK r \in R : X = Low(r)
  BY <1>4
<1>8. ASSUME NEW i \in R \ {r}, Before(rules, i, r)
      PROVE  FALSE
  <2>1. ASSUME NEW j \in Low(i) PROVE j \in Low(r)
    <3>1. j = i \/ (j \in R /\ Before(rules, j, i))
      OBVIOUS
    <3>2. j \in DOMAIN rules /\ i \in DOMAIN rules /\ r \in DOMAIN rules /\ j \in R
      BY <3>1
    <3>3. Before(rules, j, r)
      BY <1>8, <3>1, <3>2, BeforeOrders
    <3> QED
      BY <3>2, <3>3
  <2>2. Low(i) = Low(r)
    BY <1>5, <1>6, <1>7, <2>1
  <2>3. r \in Low(i)
    BY <2>2
  <2> QED
    BY <1>8, <2>3, BeforeOrders
<1> QED
  BY <1>8, BeforeOrders

\* The first m places of an order can be filled.
Filled(rules, m) ==
  \E p \in [1..m -> DOMAIN rules] :
    /\ \A a, b \in 1..m : a < b => Before(rules, p[a], p[b])
    /\ \A a \in 1..m, i \in DOMAIN rules \ {p[c] : c \in 1..m} : Before(rules, p[a], i)

LEMMA FillNext ==
  ASSUME NEW S, NEW rules, Sortable(rules, S), NEW m \in 1..Len(rules), Filled(rules, m - 1)
  PROVE  Filled(rules, m)
<1>1. DOMAIN rules = 1..Len(rules) /\ Len(rules) \in Nat
  BY DEF Sortable
<1>2. PICK p \in [1..(m - 1) -> DOMAIN rules] :
         /\ \A a, b \in 1..(m - 1) : a < b => Before(rules, p[a], p[b])
         /\ \A a \in 1..(m - 1), i \in DOMAIN rules \ {p[c] : c \in 1..(m - 1)} :
              Before(rules, p[a], i)
  BY DEF Filled
<1> DEFINE R == DOMAIN rules \ {p[c] : c \in 1..(m - 1)}
<1>3. R # {}
  <2>1. ASSUME R = {} PROVE FALSE
    <3>1. p \in Surjection(1..(m - 1), DOMAIN rules)
      BY <2>1 DEF Surjection
    <3>2. /\ IsFiniteSet(1..(m - 1)) /\ Cardinality(1..(m - 1)) = m - 1
          /\ Cardinality(DOMAIN rules) = Len(rules)
      <4>1. m - 1 \in Nat /\ 1 \in Int
        OBVIOUS
      <4>2. /\ IsFiniteSet(1..(m - 1))
            /\ Cardinality(1..(m - 1)) = IF 1 > m - 1 THEN 0 ELSE (m - 1) - 1 + 1
        BY <4>1, FS_Interval
      <4>3. Cardinality(1..Len(rules)) = IF 1 > Len(rules) THEN 0 ELSE Len(rules) - 1 + 1
        BY <1>1, FS_Interval
      <4> QED
        BY <1>1, <4>1, <4>2, <4>3
    <3>3. Cardinality(DOMAIN rules) <= Cardinality(1..(m - 1))
      BY <3>1, <3>2, FS_Surjection
    <3> QED
      BY <1>1, <3>2, <3>3
  <2> QED
    BY <2>1
<1>4. PICK r \in R : \A i \in R \ {r} : Before(rules, r, i)
  BY <1>3, FirstOfRest
<1> DEFINE q == [a \in 1..m |-> IF a = m THEN r ELSE p[a]]
<1>5. /\ \A a \in 1..(m - 1) : a \in 1..m /\ q[a] = p[a]
      /\ m \in 1..m /\ q[m] = r
      /\ \A a \in 1..m : a = m \/ a \in 1..(m - 1)
  OBVIOUS
<1>6. q \in [1..m -> DOMAIN rules]
  BY <1>5
<1> HIDE DEF q
<1>7. \A a, b \in 1..m : a < b => Before(rules, q[a], q[b])
  <2> SUFFICES ASSUME NEW a \in 1..m, NEW b \in 1..m, a < b
               PROVE  Before(rules, q[a], q[b])
    OBVIOUS
  <2>1. a \in 1..(m - 1)
    OBVIOUS
  <2>2. CASE b = m
    BY <1>2, <1>5, <2>1, <2>2
  <2>3. CASE b \in 1..(m - 1)
    BY <1>2, <1>5, <2>1, <2>3
  <2> QED
    BY <1>5, <2>2, <2>3
<1>8. \A a \in 1..m, i \in DOMAIN rules \ {q[c] : c \in 1..m} : Before(rules, q[a], i)
  <2> SUFFICES ASSUME NEW a \in 1..m, NEW i \in DOMAIN rules, \A c \in 1..m : i # q[c]
               PROVE  Before(rules, q[a], i)
    OBVIOUS
  <2>1. i \in R \ {r}
    BY <1>5
  <2> HIDE DEF R
  <2>2. CASE a = m
    BY <1>4, <1>5, <2>1, <2>2
  <2>3. CASE a \in 1..(m - 1)
    BY <1>2, <1>5, <2>1, <2>3 DEF R
  <2> QED
    BY <1>5, <2>2, <2>3
<1> QED
  BY <1>6, <1>7, <1>8 DEF Filled

\* load_toml finds an order, whatever the file.
LEMMA SomeOrder ==
  ASSUME NEW S, NEW rules, Sortable(rules, S)
  PROVE  SortedOrders(rules) # {}
<1>1. DOMAIN rules = 1..Len(rules) /\ Len(rules) \in Nat
  BY DEF Sortable
<1> DEFINE T == {m \in 0..Len(rules) : ~Filled(rules, m)}
<1>2. Filled(rules, 0)
  <2>1. [x \in {} |-> x] \in [1..0 -> DOMAIN rules] /\ 1..0 = {}
    OBVIOUS
  <2> QED
    BY <2>1 DEF Filled
<1>3. T = {}
  <2>1. ASSUME T # {} PROVE FALSE
    <3>1. T \in SUBSET Nat
      BY <1>1
    <3>2. PICK m \in T : \A k \in T : m <= k
      BY <2>1, <3>1, LeastNatural
    <3>3. m \in 1..Len(rules)
      BY <1>1, <1>2
    <3>4. m - 1 \in 0..Len(rules) /\ m - 1 \notin T
      BY <1>1, <3>2, <3>3
    <3>5. Filled(rules, m)
      BY <3>3, <3>4, FillNext
    <3> QED
      BY <3>5
  <2> QED
    BY <2>1
<1>4. Filled(rules, Len(rules))
  BY <1>1, <1>3
<1>5. PICK p \in [DOMAIN rules -> DOMAIN rules] :
         \A a, b \in DOMAIN rules : a < b => Before(rules, p[a], p[b])
  BY <1>1, <1>4 DEF Filled
<1>6. \A a, b \in DOMAIN rules : p[a] = p[b] => a = b
  <2> SUFFICES ASSUME NEW a \in DOMAIN rules, NEW b \in DOMAIN rules, p[a] = p[b], a # b
               PROVE  FALSE
    OBVIOUS
  <2>1. a < b \/ b < a
    BY <1>1
  <2> QED
    BY <1>5, <2>1, BeforeOrders
<1>7. p \in Surjection(DOMAIN rules, DOMAIN rules)
  <2>1. p \in Injection(DOMAIN rules, DOMAIN rules)
    BY <1>6 DEF Injection, IsInjective
  <2>2. IsFiniteSet(DOMAIN rules)
    BY <1>1, FS_Interval
  <2> QED
    BY <2>1, <2>2, FS_Injection
<1>8. \A i \in DOMAIN rules : \E k \in DOMAIN rules : p[k] = i
  BY <1>7 DEF Surjection
<1>9. p \in SortedOrders(rules)
  BY <1>5, <1>8 DEF SortedOrders
<1> QED
  BY <1>9

-----------------------------------------------------------------------------
(***************************************************************************)
(* The rule that applies.                                                  *)
(***************************************************************************)
\* What a rule matches by its fields, and what applies by its criteria, are
\* the same.
LEMMA MatchesApplies ==
  ASSUME NEW rule, NEW node
  PROVE  Matches(rule, node) <=> Applies(rule, node)
<1> DEFINE N == <<"name", rule.name>>
           K == <<"kind", rule.kind>>
           P == <<"property", rule.property>>
<1>1. /\ N[1] = "name" /\ N[2] = rule.name
      /\ K[1] = "kind" /\ K[2] = rule.kind
      /\ P[1] = "property" /\ P[2] = rule.property
  OBVIOUS
<1>2. /\ N \in Given(rule) <=> rule.name # Unset
      /\ K \in Given(rule) <=> rule.kind # Unset
      /\ P \in Given(rule) <=> rule.property # Unset
  BY <1>1 DEF Given
<1>3. Given(rule) \subseteq {N, K, P}
  BY DEF Given
<1>4. N \in Facts(node) <=> rule.name = node.name
  BY DEF Facts
<1>5. K \in Facts(node) <=> rule.kind = node.kind
  BY DEF Facts
<1>6. P \in Facts(node) <=> rule.property \in node.properties
  BY DEF Facts
<1>7. Given(rule) # {} <=> Predicates(rule) # <<Unset, Unset, Unset>>
  <2> HIDE DEF N, K, P
  <2>1. Given(rule) # {} <=> N \in Given(rule) \/ K \in Given(rule) \/ P \in Given(rule)
    BY <1>3
  <2> QED
    BY <2>1, <1>2 DEF Predicates
<1>8. Given(rule) \subseteq Facts(node)
        <=> /\ N \in Given(rule) => N \in Facts(node)
            /\ K \in Given(rule) => K \in Facts(node)
            /\ P \in Given(rule) => P \in Facts(node)
  <2> HIDE DEF N, K, P
  <2> QED
    BY <1>3
<1> HIDE DEF N, K, P
<1> QED
  BY <1>2, <1>4, <1>5, <1>6, <1>7, <1>8 DEF Matches, Applies

\* The winner's place in the order is the first that matches.
LEMMA WinnerComesFirst ==
  ASSUME NEW S, NEW rules \in Seq(S), \A i \in DOMAIN rules : rules[i].priority \in Int,
         NEW node, NEW p \in SortedOrders(rules),
         NEW k \in DOMAIN rules, Winner(rules, node, p[k])
  PROVE  IsFirstMatch(Arranged(rules, p), node, k)
<1>1. /\ p \in [DOMAIN rules -> DOMAIN rules]
      /\ \A a, b \in DOMAIN rules : a < b => Before(rules, p[a], p[b])
  BY DEF SortedOrders
<1>2. DOMAIN Arranged(rules, p) = DOMAIN rules
  BY DEF Arranged
<1>3. \A j \in DOMAIN rules : Arranged(rules, p)[j] = rules[p[j]]
  BY DEF Arranged
<1>4. Matches(Arranged(rules, p)[k], node)
  BY <1>3, MatchesApplies DEF Winner
<1>5. ASSUME NEW j \in DOMAIN rules, j < k
      PROVE  ~Matches(Arranged(rules, p)[j], node)
  <2>1. p[j] \in DOMAIN rules /\ p[k] \in DOMAIN rules
    BY <1>1
  <2>2. Before(rules, p[j], p[k])
    BY <1>1, <1>5
  <2>3. p[j] # p[k]
    BY <2>1, <2>2 DEF Before
  <2>4. ~Applies(rules[p[j]], node)
    BY <2>1, <2>2, <2>3 DEF Before, Winner
  <2> QED
    BY <2>4, <1>3, MatchesApplies
<1> QED
  BY <1>2, <1>4, <1>5 DEF IsFirstMatch

\* docs/book/src/rules.md: the applying rule of highest priority wins, the
\* earlier one in the file among equals, and a node to which none applies
\* gets no action; whatever the rules, their number and their order, and for
\* every order load_toml's sort may arrive at.
THEOREM HighestPriorityWins ==
  ASSUME NEW S, NEW rules \in Seq(S), \A i \in DOMAIN rules : rules[i].priority \in Int,
         NEW node, NEW p \in SortedOrders(rules)
  PROVE  /\ \A i : Winner(rules, node, i) =>
              EvaluateNode(Arranged(rules, p), node) = rules[i].action
         /\ (\A i \in DOMAIN rules : ~Applies(rules[i], node)) =>
              EvaluateNode(Arranged(rules, p), node) = NoAction
<1> DEFINE sorted == Arranged(rules, p)
<1>1. /\ p \in [DOMAIN rules -> DOMAIN rules]
      /\ \A i \in DOMAIN rules : \E k \in DOMAIN rules : p[k] = i
  BY DEF SortedOrders
<1>2. DOMAIN sorted = DOMAIN rules /\ \A j \in DOMAIN rules : sorted[j] = rules[p[j]]
  BY DEF Arranged
<1>3. ASSUME NEW i, Winner(rules, node, i)
      PROVE  EvaluateNode(sorted, node) = rules[i].action
  <2>1. PICK k \in DOMAIN rules : p[k] = i
    BY <1>1, <1>3 DEF Winner
  <2>2. IsFirstMatch(sorted, node, k)
    BY <1>3, <2>1, WinnerComesFirst
  <2>3. ASSUME NEW l \in DOMAIN sorted, IsFirstMatch(sorted, node, l)
        PROVE  l = k
    <3>1. k \in Nat /\ l \in Nat
      BY <1>2
    <3> HIDE DEF sorted
    <3> QED
      BY <2>2, <2>3, <3>1 DEF IsFirstMatch
  <2> HIDE DEF sorted
  <2>4. (CHOOSE l \in DOMAIN sorted : IsFirstMatch(sorted, node, l)) = k
    BY <2>2, <2>3, <1>2
  <2>5. \E l \in DOMAIN sorted : Matches(sorted[l], node)
    BY <2>2 DEF IsFirstMatch
  <2> QED
    BY <2>1, <2>4, <2>5, <1>2 DEF EvaluateNode
<1>4. ASSUME \A i \in DOMAIN rules : ~Applies(rules[i], node)
      PROVE  EvaluateNode(sorted, node) = NoAction
  <2>1. ~\E l \in DOMAIN sorted : Matches(sorted[l], node)
    BY <1>1, <1>2, <1>4, MatchesApplies
  <2> QED
    BY <2>1 DEF EvaluateNode
<1> QED
  BY <1>3, <1>4

\* If any rule applies to a node, one wins.
LEMMA SomeWinner ==
  ASSUME NEW S, NEW rules, Sortable(rules, S), NEW node,
         NEW i \in DOMAIN rules, Applies(rules[i], node)
  PROVE  \E w : Winner(rules, node, w)
<1> DEFINE R == {j \in DOMAIN rules : Applies(rules[j], node)}
<1>1. PICK w \in R : \A j \in R \ {w} : Before(rules, w, j)
  BY FirstOfRest
<1>2. Winner(rules, node, w)
  BY <1>1 DEF Winner, Before
<1> QED
  BY <1>2

\* The volume that the engine asks for, if it does, is the winning rule's.
LEMMA RuledVolume ==
  ASSUME engine \in {<<>>, Ordered}, NEW d
  PROVE  /\ engine = <<>> => VolumeRuled(d) = {}
         /\ \A t \in VolumeRuled(d) : \E v \in Int : t = [dev |-> d, volume |-> v]
         /\ engine # <<>> => \A i \in DOMAIN RuleFile :
              /\ Winner(RuleFile, NodeOf[d], i)
              /\ RuleFile[i].action.type = "SetVolume"
              => VolumeRuled(d) = {[dev |-> d, volume |-> RuleFile[i].action.volume]}
         /\ engine # <<>> =>
              \/ VolumeRuled(d) = {}
              \/ \E i \in DOMAIN RuleFile : /\ Winner(RuleFile, NodeOf[d], i)
                                            /\ RuleFile[i].action.type = "SetVolume"
<1> DEFINE action == EvaluateNode(engine, NodeOf[d])
<1>1. Sortable(RuleFile, ToSet(RuleFile))
  BY EndpointsAssumption DEF Sortable
<1>2. CASE engine = <<>>
  <2>1. action = NoAction
    BY <1>2 DEF EvaluateNode
  <2>2. VolumeRuled(d) = {}
    BY <2>1 DEF VolumeRuled, NoAction
  <2> QED
    BY <1>2, <2>2
<1>3. CASE engine # <<>>
  <2>1. PICK p \in SortedOrders(RuleFile) : engine = Arranged(RuleFile, p)
    BY <1>1, <1>3, SomeOrder DEF Ordered, LoadToml
  <2>2. /\ \A i : Winner(RuleFile, NodeOf[d], i) => action = RuleFile[i].action
        /\ (\A i \in DOMAIN RuleFile : ~Applies(RuleFile[i], NodeOf[d])) => action = NoAction
    BY <1>1, <2>1, HighestPriorityWins DEF Sortable
  <2>3. action = NoAction
          \/ \E i \in DOMAIN RuleFile : Winner(RuleFile, NodeOf[d], i) /\ action = RuleFile[i].action
    BY <1>1, <2>2, SomeWinner DEF Winner
  <2> HIDE DEF action
  <2>4. VolumeRuled(d) = IF action.type = "SetVolume"
                         THEN {[dev |-> d, volume |-> action.volume]} ELSE {}
    BY DEF VolumeRuled, action
  <2>5. ASSUME action.type = "SetVolume"
        PROVE  \E i \in DOMAIN RuleFile : Winner(RuleFile, NodeOf[d], i) /\ action = RuleFile[i].action
    BY <2>3, <2>5 DEF NoAction
  <2>6. action.type = "SetVolume" => action.volume \in Int
    BY <2>5, EndpointsAssumption
  <2>7. \A t \in VolumeRuled(d) : \E v \in Int : t = [dev |-> d, volume |-> v]
    BY <2>4, <2>6
  <2>8. \A i \in DOMAIN RuleFile :
          Winner(RuleFile, NodeOf[d], i) /\ RuleFile[i].action.type = "SetVolume"
          => VolumeRuled(d) = {[dev |-> d, volume |-> RuleFile[i].action.volume]}
    BY <2>2, <2>4
  <2>9. VolumeRuled(d) = {}
          \/ \E i \in DOMAIN RuleFile : /\ Winner(RuleFile, NodeOf[d], i)
                                        /\ RuleFile[i].action.type = "SetVolume"
    BY <2>4, <2>5
  <2> QED
    BY <1>3, <2>7, <2>8, <2>9
<1> QED
  BY <1>2, <1>3

-----------------------------------------------------------------------------
(***************************************************************************)
(* Types.                                                                  *)
(***************************************************************************)
\* Events are equal in kind and device only if they are equal.
LEMMA EventFields ==
  \A d : /\ Appeared(d).type = "NodeAppeared" /\ Appeared(d).dev = d
         /\ Removed(d).type = "NodeRemoved" /\ Removed(d).dev = d
         /\ Xrun(d).type = "Xrun" /\ Xrun(d).dev = d
         /\ \A ms : /\ Sample(d, ms).type = "LatencySample" /\ Sample(d, ms).dev = d
                    /\ Sample(d, ms).ms = ms
BY DEF Appeared, Removed, Xrun, Sample

LEMMA EventTypes ==
  ASSUME NEW d \in Device
  PROVE  /\ Appeared(d) \in BackendEvent /\ Removed(d) \in BackendEvent
         /\ Xrun(d) \in BackendEvent
         /\ \A ms \in Level : Sample(d, ms) \in BackendEvent
BY DEF Appeared, Removed, Xrun, Sample, BackendEvent

LEMMA EventCases ==
  ASSUME NEW ev \in BackendEvent
  PROVE  /\ ev.dev \in Device
         /\ \/ ev.type = "NodeAppeared" /\ ev = Appeared(ev.dev)
            \/ ev.type = "NodeRemoved" /\ ev = Removed(ev.dev)
            \/ ev.type = "Xrun" /\ ev = Xrun(ev.dev)
            \/ ev.type = "LatencySample" /\ ev.ms \in Level /\ ev = Sample(ev.dev, ev.ms)
BY DEF Appeared, Removed, Xrun, Sample, BackendEvent

\* What a callback announces is a sequence of events: on macOS the differences
\* between two lists, on Linux the samples and xruns of a node.
LEMMA SetToSeqsType ==
  ASSUME NEW S \in SUBSET Device, NEW s \in SetToSeqs(S)
  PROVE  \E n \in Nat : s \in [1..n -> S] /\ \A i, j \in 1..n : i # j => s[i] # s[j]
<1>1. IsFiniteSet(S)
  BY DeviceAssumption, FS_Subset
<1>2. Cardinality(S) \in Nat
  BY <1>1, FS_CardinalityType
<1> QED
  BY <1>2 DEF SetToSeqs

LEMMA DifferenceType ==
  ASSUME prev \subseteq Device, NEW seen \in SUBSET Device,
         NEW s \in SetToSeqs(seen \ prev), NEW t \in SetToSeqs(prev \ seen)
  PROVE  Arrivals(s) \o Departures(t) \in Seq(BackendEvent)
<1>2. PICK n \in Nat : s \in [1..n -> seen \ prev]
  BY SetToSeqsType
<1>3. PICK m \in Nat : t \in [1..m -> prev \ seen]
  BY SetToSeqsType
<1>4. Arrivals(s) \in Seq(BackendEvent)
  BY <1>2, EventTypes DEF Arrivals
<1>5. Departures(t) \in Seq(BackendEvent)
  BY <1>3, EventTypes DEF Departures
<1> QED
  BY <1>4, <1>5, ConcatProperties

LEMMA InfoType ==
  ASSUME NodeInfoOK, NEW d \in Device
  PROVE  /\ NewXruns(d) \in Nat
         /\ LatencyEvents(d) \in Seq(BackendEvent)
         /\ [i \in 1..NewXruns(d) |-> Xrun(d)] \in Seq(BackendEvent)
<1>1. /\ counter[d] \in Nat /\ latency[d] \in Level
      /\ lastXrun[d] = Unheard \/ lastXrun[d] \in Nat
  BY NodeInfoAssumption DEF NodeInfoOK
<1>2. NewXruns(d) \in Nat
  BY <1>1 DEF NewXruns
<1>3. LatencyEvents(d) \in Seq(BackendEvent)
  BY <1>1, EventTypes DEF LatencyEvents
<1>4. [i \in 1..NewXruns(d) |-> Xrun(d)] \in Seq(BackendEvent)
  BY <1>2, EventTypes
<1> QED
  BY <1>2, <1>3, <1>4

\* What an info announces: a new latency first, then the new xruns.
Informs(s, x, ms, n, new) ==
  /\ new => /\ DOMAIN s = 1..(1 + n) /\ 1 \in DOMAIN s
            /\ s[1] = Sample(x, ms)
            /\ \A k \in DOMAIN s : k # 1 => s[k] = Xrun(x)
  /\ ~new => DOMAIN s = 1..n /\ \A k \in DOMAIN s : s[k] = Xrun(x)

LEMMA InfoEvents ==
  ASSUME NodeInfoOK, NEW x \in Device
  PROVE  Informs(LatencyEvents(x) \o [i \in 1..NewXruns(x) |-> Xrun(x)],
                 x, latency[x], NewXruns(x), lastLat[x] # latency[x])
<1> DEFINE s == LatencyEvents(x) \o [i \in 1..NewXruns(x) |-> Xrun(x)]
<1> DEFINE t == [i \in 1..NewXruns(x) |-> Xrun(x)]
<1>1. /\ LatencyEvents(x) \in Seq(BackendEvent) /\ NewXruns(x) \in Nat
      /\ t \in Seq(BackendEvent)
  BY InfoType
<1>2. Len(t) = NewXruns(x) /\ \A k \in 1..NewXruns(x) : t[k] = Xrun(x)
  BY <1>1
<1> HIDE DEF t
<1>3. /\ s \in Seq(BackendEvent) /\ Len(s) = Len(LatencyEvents(x)) + Len(t)
      /\ \A k \in 1..(Len(LatencyEvents(x)) + Len(t)) :
           s[k] = IF k <= Len(LatencyEvents(x)) THEN LatencyEvents(x)[k]
                  ELSE t[k - Len(LatencyEvents(x))]
  BY <1>1, ConcatProperties DEF t
<1> HIDE DEF s
<1>4. CASE lastLat[x] = latency[x]
  <2>1. Len(LatencyEvents(x)) = 0
    BY <1>4 DEF LatencyEvents
  <2>2. DOMAIN s = 1..NewXruns(x)
    BY <1>1, <1>2, <1>3, <2>1, LenProperties
  <2>3. \A k \in DOMAIN s : s[k] = Xrun(x)
    BY <1>1, <1>2, <1>3, <2>1, <2>2
  <2> QED
    BY <1>4, <2>2, <2>3 DEF Informs, s
<1>5. CASE lastLat[x] # latency[x]
  <2>1. Len(LatencyEvents(x)) = 1 /\ LatencyEvents(x)[1] = Sample(x, latency[x])
    BY <1>5 DEF LatencyEvents
  <2>2. DOMAIN s = 1..(1 + NewXruns(x)) /\ 1 \in DOMAIN s
    BY <1>1, <1>2, <1>3, <2>1, LenProperties
  <2>3. s[1] = Sample(x, latency[x])
    BY <1>1, <1>2, <1>3, <2>1, <2>2
  <2>4. ASSUME NEW k \in DOMAIN s, k # 1 PROVE s[k] = Xrun(x)
    <3>1. k \in 1..(Len(LatencyEvents(x)) + Len(t)) /\ ~(k <= 1) /\ k - 1 \in 1..NewXruns(x)
      BY <1>1, <1>2, <2>1, <2>2, <2>4
    <3>2. s[k] = t[k - 1]
      BY <1>3, <2>1, <3>1
    <3> QED
      BY <1>2, <3>1, <3>2
  <2> QED
    BY <1>5, <2>2, <2>3, <2>4 DEF Informs, s
<1> QED
  BY <1>4, <1>5

\* XrunLog as it should be.
XrunsOK(log) ==
  /\ log = [ring |-> log.ring, counts |-> log.counts, total |-> log.total]
  /\ log.ring \in Seq(Device) /\ Len(log.ring) <= RingLen
  /\ log.counts \in [Device -> Nat]
  /\ log.total \in Nat

LEMMA RecordedXrun ==
  ASSUME NEW log, XrunsOK(log), NEW d \in Device
  PROVE  XrunsOK(RecordXrun(log, d))
<1> DEFINE kept == IF Len(log.ring) = RingLen THEN Tail(log.ring) ELSE log.ring
<1>1. /\ RecordXrun(log, d).ring = Append(kept, d)
      /\ RecordXrun(log, d).counts = [log.counts EXCEPT ![d] = @ + 1]
      /\ RecordXrun(log, d).total = log.total + 1
      /\ RecordXrun(log, d) = [ring |-> RecordXrun(log, d).ring,
                               counts |-> RecordXrun(log, d).counts,
                               total |-> RecordXrun(log, d).total]
  BY DEF RecordXrun
<1>2. log.ring \in Seq(Device) /\ RingLen \in Nat \ {0} /\ Len(log.ring) <= RingLen
  BY EndpointsAssumption DEF XrunsOK
<1>3. kept \in Seq(Device) /\ Len(kept) < RingLen
  <2>1. CASE Len(log.ring) = RingLen
    BY <1>2, <2>1, HeadTailProperties
  <2>2. CASE Len(log.ring) # RingLen
    BY <1>2, <2>2
  <2> QED
    BY <2>1, <2>2
<1> HIDE DEF kept
<1>4. Append(kept, d) \in Seq(Device) /\ Len(Append(kept, d)) <= RingLen
  BY <1>2, <1>3
<1> QED
  BY <1>1, <1>4 DEF XrunsOK


LEMMA BecomesType ==
  ASSUME TypeOK, NEW d \in Device, NEW from,
         NEW to \in {"absent", "inactive", "active", "gone"}, Becomes(d, from, to)
  PROVE  /\ platform' = platform
         /\ device' \in [Device -> {"absent", "inactive", "active", "gone"}]
         /\ changes' \in 0..MaxChanges
         /\ faults' \in 0..MaxFaults
BY DeviceAssumption DEF Becomes, TypeOK, DevicesOK

LEMMA FaultType ==
  ASSUME TypeOK, Fault \/ UNCHANGED machine
  PROVE  /\ platform' = platform /\ device' = device /\ changes' = changes
         /\ faults' \in 0..MaxFaults
BY DeviceAssumption DEF Fault, machine, TypeOK, DevicesOK

\* What the parts of TypeOK need when one of them stays as it is.
LEMMA TypeFrame ==
  ASSUME TypeOK
  PROVE  /\ UNCHANGED coreAudio => CoreAudioOK'
         /\ UNCHANGED wasapi => WasapiOK'
         /\ UNCHANGED nodeInfo => NodeInfoOK'
         /\ UNCHANGED daemon => DaemonOK'
BY DEF TypeOK, DaemonOK, CoreAudioOK, WasapiOK, NodeInfoOK, coreAudio, wasapi, nodeInfo, daemon

LEMMA HardwareType ==
  ASSUME TypeOK, Hardware
  PROVE  TypeOK'
<1>1. PICK d \in Device :
        \/ HalChange(d) /\ UNCHANGED <<wasapi, nodeInfo, rest>>
        \/ EndpointChange(d) /\ UNCHANGED <<coreAudio, nodeInfo, rest>>
        \/ /\ NodeGlobal(d) \/ NodeGone(d) \/ PropertyChange(d)
           /\ UNCHANGED <<coreAudio, wasapi, rest>>
  BY DEF Hardware
<1>2. volume' \in [Device -> Level] /\ owed' \subseteq Device
  <2>1. 0 \in Level
    BY DeviceAssumption DEF Level
  <2> QED
    BY <2>1 DEF Hardware, Adjusts, TypeOK, DaemonOK
<1>3. UNCHANGED rest => DaemonOK'
  BY <1>2 DEF TypeOK, DaemonOK, rest
<1>4. CASE HalChange(d) /\ UNCHANGED <<wasapi, nodeInfo, rest>>
  <2>1. DevicesOK'
    BY <1>4, BecomesType DEF HalChange, TypeOK, DevicesOK, channel
  <2>2. CoreAudioOK'
    BY <1>4 DEF HalChange, TypeOK, CoreAudioOK
  <2> QED
    BY <1>3, <1>4, <2>1, <2>2, TypeFrame DEF TypeOK
<1>5. CASE EndpointChange(d) /\ UNCHANGED <<coreAudio, nodeInfo, rest>>
  <2>1. DevicesOK'
    BY <1>5, BecomesType DEF EndpointChange, TypeOK, DevicesOK, channel
  <2>2. WasapiOK'
    <3>1. \A call \in {"StateChanged", "Added", "Removed"}, active \in BOOLEAN :
            Notify(call, d, active) => notices' \in Seq(Notice)
      <4> SUFFICES ASSUME NEW call \in {"StateChanged", "Added", "Removed"},
                          NEW active \in BOOLEAN, Notify(call, d, active)
                   PROVE  notices' \in Seq(Notice)
        OBVIOUS
      <4>1. [call |-> call, dev |-> d, active |-> active] \in Notice
        BY DEF Notice
      <4>2. notices \in Seq(Notice)
        BY DEF TypeOK, WasapiOK
      <4> QED
        BY <4>1, <4>2 DEF Notify
    <3> QED
      BY <1>5, <3>1 DEF EndpointChange, TypeOK, WasapiOK
  <2> QED
    BY <1>3, <1>5, <2>1, <2>2, TypeFrame DEF TypeOK
<1>6. CASE NodeGlobal(d) /\ UNCHANGED <<coreAudio, wasapi, rest>>
  <2>1. DevicesOK'
    BY <1>6, BecomesType, EventTypes DEF NodeGlobal, Announce, TypeOK, DevicesOK, channel
  <2>2. NodeInfoOK'
    <3>1. 0..1 \subseteq 0..MaxXruns
      BY NodeInfoAssumption
    <3> QED
    BY <1>6, <3>1 DEF NodeGlobal, TypeOK, NodeInfoOK
  <2> QED
    BY <1>3, <1>6, <2>1, <2>2, TypeFrame DEF TypeOK
<1>7. CASE NodeGone(d) /\ UNCHANGED <<coreAudio, wasapi, rest>>
  <2>1. DevicesOK'
    BY <1>7, BecomesType, EventTypes DEF NodeGone, Announce, TypeOK, DevicesOK, channel
  <2>2. NodeInfoOK'
    BY <1>7 DEF NodeGone, TypeOK, NodeInfoOK
  <2> QED
    BY <1>3, <1>7, <2>1, <2>2, TypeFrame DEF TypeOK
<1>8. CASE PropertyChange(d) /\ UNCHANGED <<coreAudio, wasapi, rest>>
  <2>1. DevicesOK'
    BY <1>8, DeviceAssumption DEF PropertyChange, TypeOK, DevicesOK, channel
  <2>2. NodeInfoOK'
    BY <1>8, NodeInfoAssumption DEF PropertyChange, TypeOK, NodeInfoOK
  <2> QED
    BY <1>3, <1>8, <2>1, <2>2, TypeFrame DEF TypeOK
<1> QED
  BY <1>1, <1>4, <1>5, <1>6, <1>7, <1>8


\* The middle of a callback: Announce with events of the right type.
LEMMA CallbacksType ==
  ASSUME TypeOK, Callbacks
  PROVE  TypeOK'
<1>1. CASE DevicesChanged /\ UNCHANGED <<wasapi, nodeInfo, daemon>>
  <2>1. PICK seen \in SUBSET Device :
          /\ HalDevices(seen)
          /\ AnnounceDifference(seen)
          /\ prev' = seen
          /\ lost' = lost \cup Misread(seen)
    BY <1>1 DEF DevicesChanged, NextPrev
  <2>2. outgoing' \in Seq(BackendEvent) /\ UNCHANGED <<sink, queue>>
    <3>1. PICK s \in SetToSeqs(seen \ prev), t \in SetToSeqs(prev \ seen) :
            Announce(Arrivals(s) \o Departures(t))
      BY <2>1 DEF AnnounceDifference
    <3>2. prev \subseteq Device
      BY DEF TypeOK, CoreAudioOK
    <3> QED
      BY <3>1, <3>2, DifferenceType DEF Announce
  <2>3. lost' \subseteq {"node", "gap", "Xrun", "LatencySample"} \X Device
    BY <2>1 DEF Misread, Nodes, Active, TypeOK, DevicesOK
  <2>4. DevicesOK'
    <3>1. Fault \/ UNCHANGED machine
      BY <2>1 DEF HalDevices
    <3> QED
      BY <1>1, <2>2, <2>3, <3>1, FaultType DEF DevicesChanged, TypeOK, DevicesOK
  <2>5. CoreAudioOK'
    BY <1>1, <2>1 DEF DevicesChanged, CoreAudioOK
  <2> QED
    BY <1>1, <2>4, <2>5, TypeFrame DEF TypeOK
<1>2. CASE Callback /\ UNCHANGED <<coreAudio, nodeInfo, daemon>>
  <2> DEFINE n == Head(notices)
  <2>1. /\ n \in Notice /\ Tail(notices) \in Seq(Notice)
    BY <1>2, HeadTailProperties DEF Callback, TypeOK, WasapiOK
  <2>2. n.dev \in Device
    BY <2>1 DEF Notice
  <2>3. outgoing' \in Seq(BackendEvent) /\ UNCHANGED <<sink, queue>>
    <3> HIDE DEF n
    <3>1. /\ NodeFor(n.dev) \in Seq(BackendEvent)
          /\ <<Removed(n.dev)>> \in Seq(BackendEvent)
      BY <2>2, EventTypes DEF NodeFor
    <3> QED
      BY <1>2, <3>1 DEF Callback, Announce, OnAdded, OnRemoved, OnStateChanged, n
  <2>4. DevicesOK'
    BY <1>2, <2>3 DEF Callback, machine, TypeOK, DevicesOK
  <2>5. WasapiOK'
    BY <1>2, <2>1, <2>2 DEF Callback, TypeOK, WasapiOK
  <2> QED
    BY <1>2, <2>4, <2>5, TypeFrame DEF TypeOK
<1>3. ASSUME NEW d \in Device, Info(d), UNCHANGED <<coreAudio, wasapi, daemon>>
      PROVE  TypeOK'
  <2>1. outgoing' \in Seq(BackendEvent) /\ UNCHANGED <<sink, queue>>
    BY <1>3, InfoType, ConcatProperties DEF Info, Announce, TypeOK
  <2>2. DevicesOK'
    BY <1>3, <2>1 DEF Info, machine, TypeOK, DevicesOK
  <2>3. NodeInfoOK'
    BY <1>3 DEF Info, TypeOK, NodeInfoOK
  <2> QED
    BY <1>3, <2>2, <2>3, TypeFrame DEF TypeOK
<1>4. CASE BroadcastNext /\ Owes /\ UNCHANGED <<coreAudio, wasapi, nodeInfo, volume, rest>>
  <2> DEFINE ev == Head(outgoing)
  <2>1. ev \in BackendEvent /\ Tail(outgoing) \in Seq(BackendEvent)
    BY <1>4, HeadTailProperties DEF BroadcastNext, TypeOK, DevicesOK
  <2>2. ev.dev \in Device /\ Topic(ev) \in {"node", "Xrun", "LatencySample"}
    BY <2>1 DEF BackendEvent, Topic
  <2>3. queue' \in Seq(BackendEvent) /\ Len(queue') <= EventCap
    BY <1>4, <2>1, DeviceAssumption DEF BroadcastNext, Room, TypeOK, DevicesOK
  <2>4. lost' \subseteq {"node", "gap", "Xrun", "LatencySample"} \X Device
    BY <1>4, <2>2 DEF BroadcastNext, TypeOK, DevicesOK
  <2>5. DevicesOK'
    BY <1>4, <2>1, <2>3, <2>4 DEF BroadcastNext, machine, TypeOK, DevicesOK
  <2>6. DaemonOK'
    <3>1. owed' \subseteq Device
      BY <1>4, <2>2 DEF Owes, TypeOK, DaemonOK
    <3> QED
      BY <1>4, <3>1 DEF TypeOK, DaemonOK, rest
  <2> QED
    BY <1>4, <2>5, <2>6, TypeFrame DEF TypeOK
<1> QED
  BY <1>1, <1>2, <1>3, <1>4 DEF Callbacks

LEMMA StartupType ==
  ASSUME TypeOK, Startup
  PROVE  TypeOK'
<1>1. CASE ReadInitial /\ UNCHANGED <<wasapi, nodeInfo, daemon>>
  <2>1. Fault \/ UNCHANGED machine
    BY <1>1 DEF ReadInitial, HalDevices
  <2>2. DevicesOK'
    BY <1>1, <2>1, FaultType DEF ReadInitial, channel, TypeOK, DevicesOK
  <2>3. CoreAudioOK'
    BY <1>1 DEF ReadInitial, TypeOK, CoreAudioOK
  <2> QED
    BY <1>1, <2>2, <2>3, TypeFrame DEF TypeOK
<1>2. CASE AddListener /\ UNCHANGED <<wasapi, nodeInfo, daemon>>
  <2>1. Fault \/ UNCHANGED machine
    BY <1>2 DEF AddListener
  <2>2. DevicesOK'
    BY <1>2, <2>1, FaultType DEF AddListener, channel, TypeOK, DevicesOK
  <2> QED
    BY <1>2, <2>2, TypeFrame DEF AddListener, TypeOK
<1>3. CASE Register /\ UNCHANGED <<coreAudio, nodeInfo, daemon>>
  <2>1. Fault \/ UNCHANGED machine
    BY <1>3 DEF Register
  <2>2. DevicesOK'
    BY <1>3, <2>1, FaultType DEF Register, channel, TypeOK, DevicesOK
  <2> QED
    BY <1>3, <2>2, TypeFrame DEF Register, TypeOK
<1>4. CASE StartLoop /\ UNCHANGED <<coreAudio, wasapi, daemon>>
  <2>1. DevicesOK'
    BY <1>4 DEF StartLoop, channel, machine, TypeOK, DevicesOK
  <2> QED
    BY <1>4, <2>1, TypeFrame DEF StartLoop, TypeOK
<1>5. CASE EnumerateNodes
  <2>1. PICK seen \in SUBSET Device :
          Listed(seen) /\ graph' = seen
            /\ lost' = {l \in lost : l[1] # "node"} \cup Disagreement(seen)
    BY <1>5 DEF EnumerateNodes
  <2>2. Fault \/ UNCHANGED machine
    BY <2>1 DEF Listed, HalDevices
  <2>3. Disagreement(seen) \subseteq {"gap"} \X Device
    BY DEF Disagreement, Misread, Nodes, Active, TypeOK, CoreAudioOK
  <2>4. DevicesOK'
    BY <1>5, <2>1, <2>2, <2>3, FaultType DEF EnumerateNodes, TypeOK, DevicesOK
  <2>5. DaemonOK'
    BY <1>5, <2>1 DEF EnumerateNodes, TypeOK, DaemonOK
  <2> QED
    BY <1>5, <2>4, <2>5, TypeFrame DEF EnumerateNodes, TypeOK
<1>6. CASE StartEventPump
  <2>1. DevicesOK'
    BY <1>6 DEF StartEventPump, SubscribeDevices, machine, TypeOK, DevicesOK
  <2>2. DaemonOK'
    BY <1>6 DEF StartEventPump, TypeOK, DaemonOK
  <2> QED
    BY <1>6, <2>1, <2>2, TypeFrame DEF StartEventPump, TypeOK
<1>7. CASE LoadRules
  <2>1. DevicesOK'
    BY <1>7 DEF LoadRules, machine, channel, TypeOK, DevicesOK
  <2>2. DaemonOK'
    BY <1>7 DEF LoadRules, TypeOK, DaemonOK
  <2> QED
    BY <1>7, <2>1, <2>2, TypeFrame DEF LoadRules, TypeOK
<1> QED
  BY <1>1, <1>2, <1>3, <1>4, <1>5, <1>6, <1>7 DEF Startup

LEMMA PumpEventType ==
  ASSUME TypeOK, PumpEvent
  PROVE  TypeOK'
<1> DEFINE ev == Head(queue)
<1>1. ev \in BackendEvent /\ Tail(queue) \in Seq(BackendEvent) /\ Len(Tail(queue)) <= EventCap
  BY HeadTailProperties, DeviceAssumption DEF PumpEvent, TypeOK, DevicesOK
<1>2. ev.dev \in Device /\ (ev.type = "LatencySample" => ev.ms \in Level)
  BY <1>1, EventCases, EventFields
<1>3. DevicesOK'
  BY <1>1 DEF PumpEvent, machine, TypeOK, DevicesOK
<1>4. /\ main' = main /\ engine' = engine /\ volume' = volume /\ owed' = owed
      /\ xruns' = IF ev.type = "Xrun" THEN RecordXrun(xruns, ev.dev) ELSE xruns
      /\ metrics' = IF ev.type = "LatencySample"
                    THEN RecordLatency(metrics, ev.dev, ev.ms) ELSE metrics
      /\ tasks' = IF ev.type = "NodeAppeared" THEN tasks \cup VolumeRuled(ev.dev) ELSE tasks
      /\ graph' = IF ev.type = "NodeAppeared" THEN graph \cup {ev.dev}
                  ELSE IF ev.type = "NodeRemoved" THEN graph \ {ev.dev} ELSE graph
  BY DEF PumpEvent
<1> HIDE DEF ev
<1>5. graph' \subseteq Device
  BY <1>2, <1>4 DEF TypeOK, DaemonOK
<1>6. metrics' \in [Device -> [Level -> Nat]]
  BY <1>2, <1>4 DEF RecordLatency, TypeOK, DaemonOK
<1>7. \A t \in tasks' : t.dev \in Device /\ t.volume \in Int
  <2>1. engine \in {<<>>, Ordered}
    BY DEF TypeOK, DaemonOK
  <2>2. \A t \in VolumeRuled(ev.dev) : t.dev \in Device /\ t.volume \in Int
    BY <1>2, <2>1, RuledVolume
  <2> QED
    BY <1>4, <2>2 DEF TypeOK, DaemonOK
<1>8. XrunsOK(xruns')
  <2>1. XrunsOK(xruns)
    BY DEF XrunsOK, TypeOK, DaemonOK
  <2> QED
    BY <1>2, <1>4, <2>1, RecordedXrun
<1>9. DaemonOK'
  BY <1>4, <1>5, <1>6, <1>7, <1>8 DEF TypeOK, DaemonOK, XrunsOK
<1> QED
  BY <1>3, <1>9, TypeFrame DEF PumpEvent, TypeOK

LEMMA VolumeType ==
  ASSUME TypeOK, NEW d \in Device, NEW v \in Int, Turn(d, v)
  PROVE  volume' \in [Device -> Level]
<1>1. Clamp(v) \in Level
  BY DeviceAssumption DEF Clamp, Level
<1> QED
  BY <1>1 DEF Turn, TypeOK, DaemonOK

LEMMA TypeStep ==
  ASSUME TypeOK, [Next]_vars
  PROVE  TypeOK'
<1>1. ASSUME NEW d \in Device, NEW v \in Asked, ClientVolume(d, v)
      PROVE  TypeOK'
  <2>1. volume' \in [Device -> Level]
    BY <1>1, VolumeType, EndpointsAssumption DEF ClientVolume
  <2>2. DevicesOK'
    BY <1>1 DEF ClientVolume, machine, channel, TypeOK, DevicesOK
  <2>3. DaemonOK'
    BY <1>1, <2>1 DEF ClientVolume, TypeOK, DaemonOK
  <2> QED
    BY <1>1, <2>2, <2>3, TypeFrame DEF ClientVolume, TypeOK
<1>2. ASSUME NEW t \in tasks, RunTask(t)
      PROVE  TypeOK'
  <2>1. volume' \in [Device -> Level] /\ owed' \subseteq Device
    BY <1>2, VolumeType DEF RunTask, TypeOK, DaemonOK
  <2>2. DevicesOK'
    BY <1>2 DEF RunTask, machine, channel, TypeOK, DevicesOK
  <2>3. DaemonOK'
    BY <1>2, <2>1 DEF RunTask, TypeOK, DaemonOK
  <2> QED
    BY <1>2, <2>2, <2>3, TypeFrame DEF RunTask, TypeOK
<1>3. CASE UNCHANGED vars
  <2>1. DevicesOK'
    BY <1>3 DEF vars, machine, channel, TypeOK, DevicesOK
  <2> QED
    BY <1>3, <2>1, TypeFrame DEF vars, TypeOK
<1> QED
  BY <1>1, <1>2, <1>3, HardwareType, CallbacksType, StartupType, PumpEventType DEF Next

LEMMA TypeInit == Init => TypeOK
<1> SUFFICES ASSUME Init PROVE TypeOK
  OBVIOUS
<1>1. 0 \in Level
  BY DeviceAssumption DEF Level
<1>2. DevicesOK
  BY DeviceAssumption DEF Init, DevicesInit, DevicesOK
<1>3. CoreAudioOK /\ WasapiOK
  <2>1. <<>> \in Seq(Notice)
    OBVIOUS
  <2> QED
    BY <2>1 DEF Init, CoreAudioInit, WasapiInit, CoreAudioOK, WasapiOK
<1>4. NodeInfoOK
  BY <1>1, NodeInfoAssumption DEF Init, NodeInfoInit, NodeInfoOK
<1>5. DaemonOK
  BY <1>1, EndpointsAssumption DEF Init, DaemonOK
<1> QED
  BY <1>2, <1>3, <1>4, <1>5 DEF TypeOK

\* Every variable of the daemon on its three platforms keeps its type; the
\* event channel and the ring of xruns keep their capacity.
THEOREM EndpointsTypeCorrect == Spec => []TypeOK
BY TypeInit, TypeStep, PTL DEF Spec

-----------------------------------------------------------------------------
(***************************************************************************)
(* The graph.  What it holds once the events under way are applied, and    *)
(* what that says of the devices.                                          *)
(***************************************************************************)
Comes(ev, d) == ev.type = "NodeAppeared" /\ ev.dev = d
Goes(ev, d)  == ev.type = "NodeRemoved" /\ ev.dev = d
About(ev, d) == Comes(ev, d) \/ Goes(ev, d)

\* A graph that holds nodes, after one event and after the events of s.
Apply(ev, nodes) ==
  IF ev.type = "NodeAppeared" THEN nodes \cup {ev.dev}
  ELSE IF ev.type = "NodeRemoved" THEN nodes \ {ev.dev} ELSE nodes

After(s, nodes) ==
  {d \in Device :
     \/ \E k \in DOMAIN s : Comes(s[k], d) /\ \A j \in DOMAIN s : j > k => ~Goes(s[j], d)
     \/ d \in nodes /\ \A j \in DOMAIN s : ~Goes(s[j], d)}

Present == After(outgoing, After(queue, graph))

\* The daemon's view of d is what its backend last saw, or will be once the
\* callbacks under way have been made.
Told(d, nodes) ==
  /\ platform = "macos" => (d \in nodes <=> d \in prev)
  /\ platform = "linux" => (d \in nodes <=> d \in Active)
  /\ platform = "windows" => \/ \E k \in DOMAIN notices : notices[k].dev = d
                             \/ d \in nodes <=> d \in Nodes(Active)
                             \/ d \in nodes /\ d \in early

Sure(d) == Knows("node", d) /\ Knows("gap", d)

\* Start-up, and what there is before the backend listens.
Quiet ==
  /\ main \in {"boot", "seeded"} <=> sink = "none"
  /\ sink = "none" => queue = <<>>
  /\ main # "boot" => backend = "listening"
  /\ backend # "listening" => outgoing = <<>> /\ notices = <<>> /\ ~dirty /\ news = {}
  /\ backend # "listening" /\ platform = "linux" => Active = {}
  /\ platform # "windows" => notices = <<>>
  /\ platform # "linux" => news = {}

\* The last call for an endpoint is made with the state it is in.
LastNotices ==
  \A k \in DOMAIN notices :
    \/ \E j \in DOMAIN notices : j > k /\ notices[j].dev = notices[k].dev
    \/ device[notices[k].dev] = IF notices[k].call = "Added" THEN "inactive"
                                ELSE IF notices[k].call = "Removed" THEN "absent"
                                ELSE IF notices[k].active THEN "active" ELSE "inactive"

\* A callback speaks of a device once, and says what is so.
Announced ==
  \A k \in DOMAIN outgoing, d \in Device :
    /\ Comes(outgoing[k], d) => Told(d, Device)
    /\ Goes(outgoing[k], d) => Told(d, {})
    /\ About(outgoing[k], d) => \A j \in DOMAIN outgoing : About(outgoing[j], d) => j = k

\* A device that is no node never comes to the daemon.
Unlisted ==
  /\ platform = "macos" => prev \subseteq Nodes(Device)
  /\ \A d \in Device \ Nodes(Device) :
       /\ d \notin graph
       /\ \A k \in DOMAIN queue : ~Comes(queue[k], d)
       /\ \A k \in DOMAIN outgoing : ~Comes(outgoing[k], d)

Heading ==
  main # "boot" => \A d \in Device : Sure(d) =>
    /\ Told(d, Present)
    /\ platform = "macos" => dirty \/ (d \in prev <=> d \in Nodes(Active))

MirrorInv == TypeOK /\ Quiet /\ LastNotices /\ Announced /\ Unlisted /\ Heading


LEMMA TailPlaces ==
  ASSUME NEW S, NEW s \in Seq(S), s # <<>>
  PROVE  /\ Tail(s) \in Seq(S) /\ Head(s) \in S
         /\ 1 \in DOMAIN s /\ Head(s) = s[1]
         /\ DOMAIN s \subseteq Nat /\ DOMAIN Tail(s) \subseteq Nat
         /\ \A k \in DOMAIN Tail(s) : k + 1 \in DOMAIN s /\ Tail(s)[k] = s[k + 1]
         /\ \A k \in DOMAIN s : k = 1 \/ (k > 1 /\ k - 1 \in DOMAIN Tail(s) /\ Tail(s)[k - 1] = s[k])
<1>1. /\ Tail(s) \in Seq(S) /\ Head(s) \in S /\ Len(Tail(s)) = Len(s) - 1
      /\ \A k \in 1..Len(Tail(s)) : Tail(s)[k] = s[k + 1]
  BY HeadTailProperties
<1>2. DOMAIN s = 1..Len(s) /\ DOMAIN Tail(s) = 1..Len(Tail(s)) /\ Len(s) \in Nat \ {0}
  BY <1>1, LenProperties, EmptySeq
<1> QED
  BY <1>1, <1>2

LEMMA AppendPlaces ==
  ASSUME NEW S, NEW s \in Seq(S), NEW e \in S
  PROVE  /\ Append(s, e) \in Seq(S)
         /\ Len(s) + 1 \in DOMAIN Append(s, e) /\ Append(s, e)[Len(s) + 1] = e
         /\ DOMAIN s \subseteq Nat /\ \A k \in DOMAIN s : k < Len(s) + 1
         /\ \A k \in DOMAIN s : k \in DOMAIN Append(s, e) /\ Append(s, e)[k] = s[k]
         /\ \A k \in DOMAIN Append(s, e) : k \in DOMAIN s \/ k = Len(s) + 1
OBVIOUS

LEMMA EventMeaning ==
  ASSUME NEW d, NEW x
  PROVE  /\ Comes(Appeared(x), d) <=> x = d
         /\ Goes(Removed(x), d) <=> x = d
         /\ ~Goes(Appeared(x), d) /\ ~Comes(Removed(x), d)
         /\ \A ms : ~About(Sample(x, ms), d)
         /\ ~About(Xrun(x), d)
         /\ \A ev : ~(Comes(ev, d) /\ Goes(ev, d))
BY EventFields DEF Comes, Goes, About

LEMMA AfterNothing ==
  ASSUME NEW nodes \in SUBSET Device
  PROVE  After(<<>>, nodes) = nodes
BY DEF After

LEMMA AfterHead ==
  ASSUME NEW s \in Seq(BackendEvent), s # <<>>, NEW nodes \in SUBSET Device
  PROVE  After(s, nodes) = After(Tail(s), Apply(Head(s), nodes))
<1> SUFFICES ASSUME NEW d \in Device
             PROVE  d \in After(s, nodes) <=> d \in After(Tail(s), Apply(Head(s), nodes))
  BY DEF After
<1>1. /\ 1 \in DOMAIN s /\ Head(s) = s[1]
      /\ DOMAIN s \subseteq Nat /\ DOMAIN Tail(s) \subseteq Nat
      /\ \A k \in DOMAIN Tail(s) : k + 1 \in DOMAIN s /\ Tail(s)[k] = s[k + 1]
      /\ \A k \in DOMAIN s :
           k = 1 \/ (k > 1 /\ k - 1 \in DOMAIN Tail(s) /\ Tail(s)[k - 1] = s[k])
  BY TailPlaces
<1>2. d \in Apply(Head(s), nodes) <=> Comes(s[1], d) \/ (d \in nodes /\ ~Goes(s[1], d))
  BY <1>1 DEF Apply, Comes, Goes
<1>3. (\A j \in DOMAIN s : ~Goes(s[j], d))
        <=> ~Goes(s[1], d) /\ \A j \in DOMAIN Tail(s) : ~Goes(Tail(s)[j], d)
  BY <1>1
<1>4. (\E k \in DOMAIN s : Comes(s[k], d) /\ \A j \in DOMAIN s : j > k => ~Goes(s[j], d))
        <=> \/ \E k \in DOMAIN Tail(s) :
                 Comes(Tail(s)[k], d) /\ \A j \in DOMAIN Tail(s) : j > k => ~Goes(Tail(s)[j], d)
            \/ Comes(s[1], d) /\ \A j \in DOMAIN Tail(s) : ~Goes(Tail(s)[j], d)
  <2>1. ASSUME NEW k \in DOMAIN s, Comes(s[k], d),
               \A j \in DOMAIN s : j > k => ~Goes(s[j], d)
        PROVE  \/ \E i \in DOMAIN Tail(s) :
                    Comes(Tail(s)[i], d) /\ \A j \in DOMAIN Tail(s) : j > i => ~Goes(Tail(s)[j], d)
               \/ Comes(s[1], d) /\ \A j \in DOMAIN Tail(s) : ~Goes(Tail(s)[j], d)
    <3>1. CASE k = 1
      <4>1. \A j \in DOMAIN Tail(s) : ~Goes(Tail(s)[j], d)
        BY <1>1, <2>1, <3>1
      <4> QED
        BY <2>1, <3>1, <4>1
    <3>2. CASE k # 1
      <4>1. k - 1 \in DOMAIN Tail(s) /\ Comes(Tail(s)[k - 1], d)
        BY <1>1, <2>1, <3>2
      <4>2. \A j \in DOMAIN Tail(s) : j > k - 1 => ~Goes(Tail(s)[j], d)
        BY <1>1, <2>1
      <4> QED
        BY <4>1, <4>2
    <3> QED
      BY <3>1, <3>2
  <2>2. ASSUME NEW i \in DOMAIN Tail(s), Comes(Tail(s)[i], d),
               \A j \in DOMAIN Tail(s) : j > i => ~Goes(Tail(s)[j], d)
        PROVE  \E k \in DOMAIN s : Comes(s[k], d) /\ \A j \in DOMAIN s : j > k => ~Goes(s[j], d)
    <3>1. i + 1 \in DOMAIN s /\ Comes(s[i + 1], d) /\ i \in Nat
      BY <1>1, <2>2
    <3>2. ASSUME NEW j \in DOMAIN s, j > i + 1 PROVE ~Goes(s[j], d)
      <4>1. j \in Nat /\ j # 1
        BY <1>1, <3>1, <3>2
      <4>2. j - 1 \in DOMAIN Tail(s) /\ Tail(s)[j - 1] = s[j]
        BY <1>1, <4>1
      <4>3. j - 1 > i
        BY <3>1, <3>2, <4>1
      <4> QED
        BY <2>2, <4>2, <4>3
    <3> QED
      BY <3>1, <3>2
  <2>3. ASSUME Comes(s[1], d), \A j \in DOMAIN Tail(s) : ~Goes(Tail(s)[j], d)
        PROVE  \E k \in DOMAIN s : Comes(s[k], d) /\ \A j \in DOMAIN s : j > k => ~Goes(s[j], d)
    <3>1. \A j \in DOMAIN s : j > 1 => ~Goes(s[j], d)
      BY <1>1, <2>3
    <3> QED
      BY <1>1, <2>3, <3>1
  <2> QED
    BY <2>1, <2>2, <2>3
<1> QED
  BY <1>2, <1>3, <1>4 DEF After

LEMMA AfterAppend ==
  ASSUME NEW s \in Seq(BackendEvent), NEW ev \in BackendEvent, NEW nodes \in SUBSET Device
  PROVE  After(Append(s, ev), nodes) = Apply(ev, After(s, nodes))
<1>0. ev.dev \in Device /\ After(s, nodes) \subseteq Device
  BY EventCases DEF After
<1>1. Apply(ev, After(s, nodes)) \subseteq Device /\ After(Append(s, ev), nodes) \subseteq Device
  BY <1>0 DEF After, Apply
<1> SUFFICES ASSUME NEW d \in Device
             PROVE  d \in After(Append(s, ev), nodes) <=> d \in Apply(ev, After(s, nodes))
  BY <1>1
<1> DEFINE t == Append(s, ev)
           m == Len(s) + 1
<1>2. /\ m \in DOMAIN t /\ t[m] = ev
      /\ DOMAIN s \subseteq Nat /\ \A k \in DOMAIN s : k < m
      /\ \A k \in DOMAIN s : k \in DOMAIN t /\ t[k] = s[k]
      /\ \A k \in DOMAIN t : k \in DOMAIN s \/ k = m
  BY AppendPlaces
<1>3. m \in Nat
  BY LenProperties
<1> HIDE DEF t, m
<1>4. d \in Apply(ev, After(s, nodes))
        <=> Comes(ev, d) \/ (d \in After(s, nodes) /\ ~Goes(ev, d))
  BY DEF Apply, Comes, Goes
<1>5. (\A j \in DOMAIN t : ~Goes(t[j], d)) <=> (\A j \in DOMAIN s : ~Goes(s[j], d)) /\ ~Goes(ev, d)
  BY <1>2
<1>6. CASE Comes(ev, d)
  <2>1. \A j \in DOMAIN t : j > m => ~Goes(t[j], d)
    BY <1>2, <1>3
  <2>2. d \in After(t, nodes)
    BY <1>2, <1>6, <2>1 DEF After
  <2> QED
    BY <1>4, <1>6, <2>2 DEF t
<1>7. CASE Goes(ev, d)
  <2>1. ~Comes(ev, d)
    BY <1>7, EventMeaning
  <2>2. \A k \in DOMAIN t : Comes(t[k], d) => k < m
    BY <1>2, <2>1
  <2>3. d \notin After(t, nodes)
    BY <1>2, <1>3, <1>7, <2>2 DEF After
  <2> QED
    BY <1>4, <1>7, <2>1, <2>3 DEF t
<1>8. CASE ~About(ev, d)
  <2>1. ~Comes(ev, d) /\ ~Goes(ev, d)
    BY <1>8 DEF About
  <2>2. ASSUME NEW k \in DOMAIN t, Comes(t[k], d), \A j \in DOMAIN t : j > k => ~Goes(t[j], d)
        PROVE  k \in DOMAIN s /\ Comes(s[k], d) /\ \A j \in DOMAIN s : j > k => ~Goes(s[j], d)
    BY <1>2, <2>1, <2>2
  <2>3. ASSUME NEW k \in DOMAIN s, Comes(s[k], d), \A j \in DOMAIN s : j > k => ~Goes(s[j], d)
        PROVE  k \in DOMAIN t /\ Comes(t[k], d) /\ \A j \in DOMAIN t : j > k => ~Goes(t[j], d)
    BY <1>2, <2>1, <2>3
  <2>4. d \in After(t, nodes) <=> d \in After(s, nodes)
    BY <1>5, <2>1, <2>2, <2>3 DEF After
  <2> QED
    BY <1>4, <2>1, <2>4 DEF t
<1> QED
  BY <1>6, <1>7, <1>8 DEF About

\* Events that are not about a device, and a single one that is.
LEMMA AfterUnrelated ==
  ASSUME NEW s, NEW nodes, NEW d \in Device, \A k \in DOMAIN s : ~About(s[k], d)
  PROVE  d \in After(s, nodes) <=> d \in nodes
BY DEF After, About

LEMMA AfterOnly ==
  ASSUME NEW s, NEW nodes, NEW d \in Device, NEW k \in DOMAIN s, DOMAIN s \subseteq Nat,
         \A j \in DOMAIN s : About(s[j], d) => j = k
  PROVE  /\ Comes(s[k], d) => d \in After(s, nodes)
         /\ Goes(s[k], d) => d \notin After(s, nodes)
<1>1. k \in Nat
  OBVIOUS
<1>2. ASSUME Comes(s[k], d) PROVE d \in After(s, nodes)
  <2>1. \A j \in DOMAIN s : j > k => ~Goes(s[j], d)
    BY <1>1 DEF About
  <2> QED
    BY <1>2, <2>1 DEF After
<1>3. ASSUME Goes(s[k], d) PROVE d \notin After(s, nodes)
  <2>1. \A j \in DOMAIN s : ~Comes(s[j], d)
    BY <1>3, EventMeaning DEF About
  <2> QED
    BY <1>3, <2>1 DEF After
<1> QED
  BY <1>2, <1>3


\* What is going to be in the graph does not change when the pump or the
\* channel takes an event, unless the event is lost.
LEMMA PresentType ==
  ASSUME TypeOK
  PROVE  /\ graph \subseteq Device /\ After(queue, graph) \subseteq Device
         /\ Present \subseteq Device
         /\ queue \in Seq(BackendEvent) /\ outgoing \in Seq(BackendEvent)
BY DEF TypeOK, DaemonOK, DevicesOK, Present, After

\* What the invariant says depends on these variables only.
view == <<platform, device, backend, channel, coreAudio, wasapi, graph>>

LEMMA MirrorFrame ==
  ASSUME MirrorInv, TypeOK', UNCHANGED view,
         main' = "boot" <=> main = "boot",
         main' \in {"boot", "seeded"} <=> main \in {"boot", "seeded"},
         news' = {} \/ (platform = "linux" /\ backend = "listening")
  PROVE  MirrorInv'
<1>1. Present' = Present
  BY DEF view, channel, Present
<1>2. \A d, nodes : Told(d, nodes)' <=> Told(d, nodes)
  BY DEF Told, Nodes, Active, view, coreAudio, wasapi
<1>3. Quiet'
  BY DEF MirrorInv, Quiet, Active, view, channel, coreAudio, wasapi
<1>4. LastNotices'
  BY DEF MirrorInv, LastNotices, view, wasapi
<1>5. Announced'
  BY <1>2 DEF MirrorInv, Announced, view, channel
<1>6. Unlisted'
  BY DEF MirrorInv, Unlisted, Nodes, view, channel, coreAudio
<1>7. Heading'
  BY <1>1, <1>2 DEF MirrorInv, Heading, Sure, Knows, Nodes, Active, view, channel, coreAudio
<1> QED
  BY <1>3, <1>4, <1>5, <1>6, <1>7 DEF MirrorInv

LEMMA MirrorInit == Init => MirrorInv
<1> SUFFICES ASSUME Init PROVE MirrorInv
  OBVIOUS
<1>1. /\ main = "boot" /\ sink = "none" /\ queue = <<>> /\ outgoing = <<>> /\ notices = <<>>
      /\ ~dirty /\ news = {} /\ prev = {} /\ graph = {}
  BY DEF Init, DevicesInit, CoreAudioInit, WasapiInit, NodeInfoInit
<1>2. platform = "linux" => Active = {}
  BY DEF Init, DevicesInit, Active
<1>3. Quiet
  BY <1>1, <1>2 DEF Quiet
<1> QED
  BY <1>1, <1>3, TypeInit DEF MirrorInv, LastNotices, Announced, Unlisted, Heading

LEMMA MirrorHalChange ==
  ASSUME MirrorInv, TypeOK', NEW x \in Device, HalChange(x), UNCHANGED <<wasapi, nodeInfo, rest>>
  PROVE  MirrorInv'
<1>1. /\ platform = "macos" /\ platform' = platform
      /\ dirty' = (dirty \/ backend = "listening")
      /\ prev' = prev /\ graph' = graph /\ main' = main /\ notices' = notices /\ news' = news
      /\ backend' = backend
      /\ sink' = sink /\ queue' = queue /\ outgoing' = outgoing /\ lost' = lost
  BY DEF HalChange, Becomes, channel, wasapi, nodeInfo, rest
<1>2. Present' = Present /\ Nodes(Device)' = Nodes(Device)
  BY <1>1 DEF Present, Nodes
<1>3. \A d, nodes : Told(d, nodes)' <=> Told(d, nodes)
  BY <1>1 DEF Told
<1>4. Quiet'
  BY <1>1 DEF MirrorInv, Quiet
<1>5. LastNotices'
  BY <1>1 DEF MirrorInv, LastNotices, Quiet
<1>6. Announced'
  BY <1>1, <1>3 DEF MirrorInv, Announced
<1>7. Unlisted'
  BY <1>1, <1>2 DEF MirrorInv, Unlisted
<1>8. Heading'
  BY <1>1, <1>2, <1>3 DEF MirrorInv, Heading, Quiet, Sure, Knows
<1> QED
  BY <1>4, <1>5, <1>6, <1>7, <1>8 DEF MirrorInv

LEMMA MirrorEndpointChange ==
  ASSUME MirrorInv, TypeOK', NEW x \in Device, EndpointChange(x),
         UNCHANGED <<coreAudio, nodeInfo, rest>>
  PROVE  MirrorInv'
<1>1. /\ platform = "windows" /\ platform' = platform
      /\ prev' = prev /\ dirty' = dirty /\ graph' = graph /\ main' = main /\ news' = news
      /\ backend' = backend /\ early' = early
      /\ sink' = sink /\ queue' = queue /\ outgoing' = outgoing /\ lost' = lost
      /\ \A d \in Device \ {x} : device'[d] = device[d]
  BY DEF EndpointChange, Becomes, channel, coreAudio, nodeInfo, rest, MirrorInv, TypeOK, DevicesOK
<1>2. PICK n \in Notice :
        /\ notices' = IF backend = "listening" THEN Append(notices, n) ELSE notices
        /\ n.dev = x
        /\ device'[x] = IF n.call = "Added" THEN "inactive"
                        ELSE IF n.call = "Removed" THEN "absent"
                        ELSE IF n.active THEN "active" ELSE "inactive"
  <2>1. PICK call \in {"StateChanged", "Added", "Removed"}, active \in BOOLEAN :
          /\ Notify(call, x, active)
          /\ device'[x] = IF call = "Added" THEN "inactive"
                          ELSE IF call = "Removed" THEN "absent"
                          ELSE IF active THEN "active" ELSE "inactive"
    BY DEF EndpointChange, Becomes, MirrorInv, TypeOK, DevicesOK
  <2> DEFINE n == [call |-> call, dev |-> x, active |-> active]
  <2>2. n \in Notice /\ n.dev = x /\ n.call = call /\ n.active = active
    BY DEF Notice
  <2>3. notices' = IF backend = "listening" THEN Append(notices, n) ELSE notices
    BY <2>1 DEF Notify
  <2> HIDE DEF n
  <2> QED
    BY <2>1, <2>2, <2>3
<1>3. notices \in Seq(Notice)
  BY DEF MirrorInv, TypeOK, WasapiOK
<1>4. CASE backend # "listening"
  <2>1. main = "boot" /\ outgoing = <<>> /\ notices = <<>> /\ notices' = notices
    BY <1>2, <1>4 DEF MirrorInv, Quiet
  <2>2. Quiet' /\ LastNotices' /\ Announced' /\ Heading'
    BY <1>1, <2>1 DEF MirrorInv, Quiet, LastNotices, Announced, Heading
  <2>3. Unlisted'
    BY <1>1 DEF MirrorInv, Unlisted, Nodes
  <2> QED
    BY <2>2, <2>3 DEF MirrorInv
<1>5. CASE backend = "listening"
  <2> DEFINE m == Len(notices) + 1
  <2>1. /\ m \in DOMAIN notices' /\ notices'[m] = n
        /\ DOMAIN notices \subseteq Nat /\ \A k \in DOMAIN notices : k < m
        /\ \A k \in DOMAIN notices : k \in DOMAIN notices' /\ notices'[k] = notices[k]
        /\ \A k \in DOMAIN notices' : k \in DOMAIN notices \/ k = m
    BY <1>2, <1>3, <1>5, AppendPlaces
  <2> HIDE DEF m
  <2>2. Present' = Present /\ Nodes(Device)' = Nodes(Device)
    BY <1>1 DEF Present, Nodes
  <2>3. ASSUME NEW d \in Device, NEW nodes PROVE Told(d, nodes) => Told(d, nodes)'
    <3>1. CASE d = x
      BY <1>1, <1>2, <2>1, <3>1 DEF Told
    <3>2. CASE d # x
      <4>1. d \in Nodes(Active)' <=> d \in Nodes(Active)
        BY <1>1, <3>2 DEF Nodes, Active
      <4>2. (\E k \in DOMAIN notices : notices[k].dev = d)
              => (\E k \in DOMAIN notices' : notices'[k].dev = d)
        BY <2>1
      <4> QED
        BY <1>1, <4>1, <4>2 DEF Told
    <3> QED
      BY <3>1, <3>2
  <2>4. Quiet'
    BY <1>1, <1>5 DEF MirrorInv, Quiet
  <2>5. LastNotices'
    <3> SUFFICES ASSUME NEW k \in DOMAIN notices'
                 PROVE  \/ \E j \in DOMAIN notices' : j > k /\ notices'[j].dev = notices'[k].dev
                        \/ device'[notices'[k].dev] =
                             IF notices'[k].call = "Added" THEN "inactive"
                             ELSE IF notices'[k].call = "Removed" THEN "absent"
                             ELSE IF notices'[k].active THEN "active" ELSE "inactive"
      BY DEF LastNotices
    <3>1. CASE k = m
      BY <1>2, <2>1, <3>1
    <3>2. CASE k \in DOMAIN notices /\ notices[k].dev = x
      BY <1>2, <2>1, <3>2
    <3>3. CASE k \in DOMAIN notices /\ notices[k].dev # x
      <4>1. notices[k].dev \in Device
        <5>1. notices[k] \in Notice
          BY <1>3, <3>3, LenProperties
        <5> QED
          BY <5>1 DEF Notice
      <4>2. device'[notices[k].dev] = device[notices[k].dev]
        BY <1>1, <3>3, <4>1
      <4>3. CASE \E j \in DOMAIN notices : j > k /\ notices[j].dev = notices[k].dev
        BY <2>1, <3>3, <4>3
      <4>4. CASE ~\E j \in DOMAIN notices : j > k /\ notices[j].dev = notices[k].dev
        BY <2>1, <3>3, <4>2, <4>4 DEF MirrorInv, LastNotices
      <4> QED
        BY <4>3, <4>4
    <3> QED
      BY <2>1, <3>1, <3>2, <3>3
  <2>6. Announced'
    BY <1>1, <2>3 DEF MirrorInv, Announced
  <2>7. Unlisted'
    BY <1>1, <2>2 DEF MirrorInv, Unlisted
  <2>8. Heading'
    BY <1>1, <2>2, <2>3 DEF MirrorInv, Heading, Sure, Knows
  <2> QED
    BY <2>4, <2>5, <2>6, <2>7, <2>8 DEF MirrorInv
<1> QED
  BY <1>4, <1>5

\* A node that comes or goes is announced at once.
LEMMA MirrorNode ==
  ASSUME MirrorInv, TypeOK', NEW x \in Device,
         platform = "linux", platform' = platform, backend = "listening", outgoing = <<>>,
         UNCHANGED <<backend, sink, queue, lost, coreAudio, wasapi, graph, main>>,
         \A d \in Device \ {x} : device'[d] = device[d],
         \/ device'[x] = "active" /\ outgoing' = <<Appeared(x)>>
         \/ device'[x] # "active" /\ outgoing' = <<Removed(x)>>
  PROVE  MirrorInv'
<1>1. /\ Nodes(Device) = Device /\ Nodes(Device)' = Device
      /\ prev' = prev /\ notices' = notices /\ dirty' = dirty /\ notices = <<>>
      /\ graph' = graph /\ queue' = queue
  BY DEF Nodes, coreAudio, wasapi, MirrorInv, Quiet
<1>2. \A d \in Device \ {x} : d \in Active' <=> d \in Active
  BY DEF Active
<1>3. x \in Active' <=> device'[x] = "active"
  BY DEF Active
<1>4. DOMAIN outgoing' = {1} /\ outgoing'[1] \in {Appeared(x), Removed(x)}
  OBVIOUS
<1>5. /\ \A d : Comes(outgoing'[1], d) <=> d = x /\ device'[x] = "active"
      /\ \A d : Goes(outgoing'[1], d) <=> d = x /\ device'[x] # "active"
  BY EventMeaning
<1>6. \A d, nodes : Told(d, nodes)' <=> (d \in nodes <=> d \in Active')
  BY DEF Told
<1>7. Present = After(queue, graph)
  BY PresentType, AfterNothing DEF Present, MirrorInv
<1>8. \A d \in Device \ {x} : d \in Present' <=> d \in Present
  BY <1>1, <1>4, <1>5, <1>7, AfterUnrelated DEF Present, About
<1>9. x \in Present' <=> x \in Active'
  BY <1>3, <1>4, <1>5, AfterOnly DEF Present, About
<1>10. Quiet'
  BY <1>1 DEF MirrorInv, Quiet
<1>11. LastNotices'
  BY <1>1 DEF LastNotices
<1>12. Announced'
  BY <1>3, <1>4, <1>5, <1>6 DEF Announced, About
<1>13. Unlisted'
  BY <1>1 DEF Unlisted
<1>14. Heading'
  <2> SUFFICES ASSUME main # "boot", NEW d \in Device, Sure(d)'
               PROVE  Told(d, Present)'
    BY DEF Heading
  <2>1. CASE d = x
    BY <1>9, <2>1 DEF Told
  <2>2. CASE d # x
    <3>1. Told(d, Present)
      BY DEF MirrorInv, Heading, Sure, Knows
    <3> QED
      BY <1>2, <1>8, <2>2, <3>1 DEF Told
  <2> QED
    BY <2>1, <2>2
<1> QED
  BY <1>10, <1>11, <1>12, <1>13, <1>14 DEF MirrorInv


\* The sequences that SetToSeqs gives list every member once.
LEMMA Listing ==
  ASSUME NEW S \in SUBSET Device, NEW s \in SetToSeqs(S)
  PROVE  /\ DOMAIN s \subseteq Nat
         /\ \A k \in DOMAIN s : s[k] \in S /\ \A j \in DOMAIN s : s[j] = s[k] => j = k
         /\ \A d \in S : \E k \in DOMAIN s : s[k] = d
<1>1. IsFiniteSet(S)
  BY DeviceAssumption, FS_Subset
<1> DEFINE n == Cardinality(S)
<1>2. n \in Nat
  BY <1>1, FS_CardinalityType
<1>3. s \in [1..n -> S] /\ \A i, j \in 1..n : i # j => s[i] # s[j]
  BY DEF SetToSeqs
<1>4. IsFiniteSet(1..n) /\ Cardinality(1..n) = n
  <2>1. 1 \in Int /\ n \in Int
    BY <1>2
  <2> HIDE DEF n
  <2>2. IsFiniteSet(1..n) /\ Cardinality(1..n) = IF 1 > n THEN 0 ELSE n - 1 + 1
    BY <2>1, FS_Interval
  <2> QED
    BY <1>2, <2>2
<1>5. s \in Surjection(1..n, S)
  <2>1. s \in Injection(1..n, S)
    BY <1>3 DEF Injection, IsInjective
  <2> QED
    BY <1>1, <1>4, <2>1, FS_Injection
<1> HIDE DEF n
<1>6. \A d \in S : \E k \in 1..n : s[k] = d
  BY <1>5 DEF Surjection
<1> QED
  BY <1>2, <1>3, <1>6

\* Events that announce the devices of A and the removal of those of B, each
\* once.
Announces(events, A, B) ==
  /\ DOMAIN events \subseteq Nat
  /\ \A k \in DOMAIN events : \A d :
       /\ Comes(events[k], d) => d \in A
       /\ Goes(events[k], d) => d \in B
       /\ About(events[k], d) => \A j \in DOMAIN events : About(events[j], d) => j = k
  /\ \A d \in A : \E k \in DOMAIN events : Comes(events[k], d)
  /\ \A d \in B : \E k \in DOMAIN events : Goes(events[k], d)

LEMMA DifferenceEvents ==
  ASSUME NEW A \in SUBSET Device, NEW B \in SUBSET Device, A \cap B = {},
         NEW s \in SetToSeqs(A), NEW t \in SetToSeqs(B)
  PROVE  Announces(Arrivals(s) \o Departures(t), A, B)
<1> DEFINE events == Arrivals(s) \o Departures(t)
<1>1. PICK n \in Nat : s \in [1..n -> A]
  BY SetToSeqsType
<1>2. PICK m \in Nat : t \in [1..m -> B]
  BY SetToSeqsType
<1>3. /\ Arrivals(s) \in Seq(BackendEvent) /\ Len(Arrivals(s)) = n
      /\ \A k \in 1..n : Arrivals(s)[k] = Appeared(s[k])
  <2>1. Arrivals(s) = [k \in 1..n |-> Appeared(s[k])] /\ \A k \in 1..n : s[k] \in Device
    BY <1>1 DEF Arrivals
  <2>2. \A k \in 1..n : Appeared(s[k]) \in BackendEvent
    BY <2>1, EventTypes
  <2> QED
    BY <2>1, <2>2
<1>4. /\ Departures(t) \in Seq(BackendEvent) /\ Len(Departures(t)) = m
      /\ \A k \in 1..m : Departures(t)[k] = Removed(t[k])
  <2>1. Departures(t) = [k \in 1..m |-> Removed(t[k])] /\ \A k \in 1..m : t[k] \in Device
    BY <1>2 DEF Departures
  <2>2. \A k \in 1..m : Removed(t[k]) \in BackendEvent
    BY <2>1, EventTypes
  <2> QED
    BY <2>1, <2>2
<1>5. DOMAIN events = 1..(n + m)
  <2>1. events \in Seq(BackendEvent) /\ Len(events) = n + m
    BY <1>3, <1>4, ConcatProperties
  <2> QED
    BY <2>1, LenProperties
<1>6. \A k \in 1..n : k \in DOMAIN events /\ events[k] = Appeared(s[k])
  BY <1>3, <1>4, <1>5, ConcatProperties
<1>7. \A k \in 1..m : n + k \in DOMAIN events /\ events[n + k] = Removed(t[k])
  <2> SUFFICES ASSUME NEW k \in 1..m
               PROVE  n + k \in DOMAIN events /\ events[n + k] = Removed(t[k])
    OBVIOUS
  <2>1. n + k \in 1..(n + m) /\ ~(n + k <= n) /\ (n + k) - n = k
    OBVIOUS
  <2>2. events[n + k] = Departures(t)[(n + k) - n]
    BY <1>3, <1>4, <2>1, ConcatProperties
  <2> QED
    BY <1>4, <1>5, <2>1, <2>2
<1>8. \A k \in DOMAIN events : k \in 1..n \/ \E i \in 1..m : k = n + i
  <2> SUFFICES ASSUME NEW k \in 1..(n + m), k \notin 1..n
               PROVE  \E i \in 1..m : k = n + i
    BY <1>5
  <2>1. k - n \in 1..m /\ k = n + (k - n)
    OBVIOUS
  <2> QED
    BY <2>1
<1>9. /\ \A k \in 1..n : s[k] \in A /\ \A j \in 1..n : s[j] = s[k] => j = k
      /\ \A k \in 1..m : t[k] \in B /\ \A j \in 1..m : t[j] = t[k] => j = k
      /\ \A d \in A : \E k \in 1..n : s[k] = d
      /\ \A d \in B : \E k \in 1..m : t[k] = d
  <2>1. DOMAIN s = 1..n /\ DOMAIN t = 1..m
    BY <1>1, <1>2
  <2>2. /\ \A k \in DOMAIN s : s[k] \in A /\ \A j \in DOMAIN s : s[j] = s[k] => j = k
        /\ \A d \in A : \E k \in DOMAIN s : s[k] = d
    BY Listing
  <2>3. /\ \A k \in DOMAIN t : t[k] \in B /\ \A j \in DOMAIN t : t[j] = t[k] => j = k
        /\ \A d \in B : \E k \in DOMAIN t : t[k] = d
    BY Listing
  <2> QED
    BY <2>1, <2>2, <2>3
<1>10. /\ \A k \in 1..n : \A d : (Comes(events[k], d) <=> d = s[k]) /\ ~Goes(events[k], d)
       /\ \A k \in 1..m : \A d : (Goes(events[n + k], d) <=> d = t[k]) /\ ~Comes(events[n + k], d)
  <2>1. ASSUME NEW k \in 1..n, NEW d
        PROVE  (Comes(events[k], d) <=> d = s[k]) /\ ~Goes(events[k], d)
    <3>1. events[k] = Appeared(s[k])
      BY <1>6
    <3> QED
      BY <3>1, EventMeaning
  <2>2. ASSUME NEW k \in 1..m, NEW d
        PROVE  (Goes(events[n + k], d) <=> d = t[k]) /\ ~Comes(events[n + k], d)
    <3>1. events[n + k] = Removed(t[k])
      BY <1>7
    <3> QED
      BY <3>1, EventMeaning
  <2> QED
    BY <2>1, <2>2
<1>11. ASSUME NEW k \in DOMAIN events, NEW d
       PROVE  /\ Comes(events[k], d) => d \in A
              /\ Goes(events[k], d) => d \in B
              /\ About(events[k], d) => \A j \in DOMAIN events : About(events[j], d) => j = k
  <2>1. /\ Comes(events[k], d) => k \in 1..n /\ d = s[k]
        /\ Goes(events[k], d) => \E i \in 1..m : k = n + i /\ d = t[i]
    BY <1>8, <1>10
  <2>2. ASSUME NEW j \in DOMAIN events
        PROVE  /\ Comes(events[j], d) => j \in 1..n /\ d = s[j]
               /\ Goes(events[j], d) => \E i \in 1..m : j = n + i /\ d = t[i]
    BY <1>8, <1>10
  <2>3. Comes(events[k], d) => d \in A
    BY <1>9, <2>1
  <2>4. Goes(events[k], d) => d \in B
    BY <1>9, <2>1
  <2>5. ASSUME NEW j \in DOMAIN events, About(events[k], d), About(events[j], d)
        PROVE  j = k
    <3>1. ~(d \in A /\ d \in B)
      OBVIOUS
    <3>2. /\ Comes(events[j], d) => d \in A
          /\ Goes(events[j], d) => d \in B
      BY <1>9, <2>2
    <3>3. CASE Comes(events[k], d)
      BY <1>9, <2>1, <2>2, <2>3, <2>5, <3>1, <3>2, <3>3 DEF About
    <3>4. CASE Goes(events[k], d)
      <4>1. Goes(events[j], d)
        BY <2>4, <2>5, <3>1, <3>2, <3>4 DEF About
      <4> QED
        BY <1>9, <2>1, <2>2, <3>4, <4>1
    <3> QED
      BY <2>5, <3>3, <3>4 DEF About
  <2> QED
    BY <2>3, <2>4, <2>5
<1>12. \A d \in A : \E k \in DOMAIN events : Comes(events[k], d)
  BY <1>6, <1>9, <1>10
<1>13. \A d \in B : \E k \in DOMAIN events : Goes(events[k], d)
  BY <1>7, <1>9, <1>10
<1>14. DOMAIN events \subseteq Nat
  BY <1>5
<1> HIDE DEF events
<1>15. Announces(events, A, B)
  BY <1>11, <1>12, <1>13, <1>14 DEF Announces
<1> QED
  BY <1>15 DEF events

LEMMA MirrorDevicesChanged ==
  ASSUME MirrorInv, TypeOK', DevicesChanged, UNCHANGED <<wasapi, nodeInfo, daemon>>
  PROVE  MirrorInv'
<1>1. PICK seen \in SUBSET Device :
        /\ HalDevices(seen)
        /\ AnnounceDifference(seen)
        /\ prev' = seen
        /\ lost' = lost \cup Misread(seen)
  BY DEF DevicesChanged, NextPrev
<1>2. PICK s \in SetToSeqs(seen \ prev), t \in SetToSeqs(prev \ seen) :
        /\ outgoing' = Arrivals(s) \o Departures(t)
        /\ sink' = sink /\ queue' = queue
  BY <1>1 DEF AnnounceDifference, Announce
<1>3. /\ platform = "macos" /\ platform' = platform /\ device' = device
      /\ dirty /\ ~dirty' /\ outgoing = <<>>
      /\ graph' = graph /\ main' = main /\ notices' = notices /\ news' = news
      /\ backend' = backend
  BY <1>1 DEF DevicesChanged, HalDevices, Fault, machine, CallbackIdle, wasapi, nodeInfo, daemon
<1>4. seen \subseteq Nodes(Active) /\ Nodes(Active) \subseteq Nodes(Device)
  BY <1>1 DEF HalDevices, Nodes, Active
<1>5. Nodes(Device)' = Nodes(Device) /\ Nodes(Active)' = Nodes(Active)
  BY <1>3 DEF Nodes, Active
<1>6. prev \subseteq Device
  BY DEF MirrorInv, TypeOK, CoreAudioOK
<1>7. /\ DOMAIN outgoing' \subseteq Nat
      /\ \A k \in DOMAIN outgoing' : \A d :
           /\ Comes(outgoing'[k], d) => d \in seen \ prev
           /\ Goes(outgoing'[k], d) => d \in prev \ seen
           /\ About(outgoing'[k], d) =>
                \A j \in DOMAIN outgoing' : About(outgoing'[j], d) => j = k
      /\ \A d \in seen \ prev : \E k \in DOMAIN outgoing' : Comes(outgoing'[k], d)
      /\ \A d \in prev \ seen : \E k \in DOMAIN outgoing' : Goes(outgoing'[k], d)
  <2>1. (seen \ prev) \cap (prev \ seen) = {} /\ prev \ seen \in SUBSET Device
    BY <1>6
  <2>2. Announces(outgoing', seen \ prev, prev \ seen)
    BY <1>2, <2>1, DifferenceEvents
  <2> QED
    BY <2>2 DEF Announces
<1>8. \A d, nodes : Told(d, nodes)' <=> (d \in nodes <=> d \in seen)
  BY <1>1, <1>3 DEF Told
<1>9. Present = After(queue, graph)
  BY <1>3, PresentType, AfterNothing DEF Present, MirrorInv
<1>10. \A d \in Device : d \in Present' <=> \/ d \in seen \ prev
                                            \/ d \in Present /\ d \notin prev \ seen
  <2> SUFFICES ASSUME NEW d \in Device
               PROVE  d \in Present' <=> \/ d \in seen \ prev
                                         \/ d \in Present /\ d \notin prev \ seen
    OBVIOUS
  <2>0. Present' = After(outgoing', Present)
    BY <1>2, <1>3, <1>9 DEF Present
  <2>1. CASE d \in seen \ prev
    <3>1. PICK k \in DOMAIN outgoing' : Comes(outgoing'[k], d)
      BY <1>7, <2>1
    <3>2. \A j \in DOMAIN outgoing' : About(outgoing'[j], d) => j = k
      BY <1>7, <3>1 DEF About
    <3> QED
      BY <1>7, <2>0, <2>1, <3>1, <3>2, AfterOnly
  <2>2. CASE d \in prev \ seen
    <3>1. PICK k \in DOMAIN outgoing' : Goes(outgoing'[k], d)
      BY <1>7, <2>2
    <3>2. \A j \in DOMAIN outgoing' : About(outgoing'[j], d) => j = k
      BY <1>7, <3>1 DEF About
    <3> QED
      BY <1>7, <2>0, <2>2, <3>1, <3>2, AfterOnly
  <2>3. CASE d \notin seen \ prev /\ d \notin prev \ seen
    <3>1. \A k \in DOMAIN outgoing' : ~About(outgoing'[k], d)
      BY <1>7, <2>3 DEF About
    <3> QED
      BY <2>0, <2>3, <3>1, AfterUnrelated
  <2> QED
    BY <2>1, <2>2, <2>3
<1>11. Quiet'
  BY <1>2, <1>3 DEF MirrorInv, Quiet
<1>12. LastNotices'
  BY <1>3 DEF MirrorInv, LastNotices, Quiet
<1>13. Announced'
  BY <1>7, <1>8 DEF Announced
<1>14. Unlisted'
  <2>1. \A k \in DOMAIN outgoing', d \in Device \ Nodes(Device) : ~Comes(outgoing'[k], d)
    BY <1>4, <1>7
  <2> QED
    BY <1>1, <1>2, <1>3, <1>4, <1>5, <2>1 DEF MirrorInv, Unlisted
<1>15. Heading'
  <2> SUFFICES ASSUME main # "boot", NEW d \in Device, Sure(d)'
               PROVE  /\ Told(d, Present)'
                      /\ d \in prev' <=> d \in Nodes(Active)'
    BY <1>3 DEF Heading
  <2>1. Sure(d)
    BY <1>1 DEF Sure, Knows
  <2>2. d \in prev <=> d \in Present
    BY <1>3, <2>1 DEF MirrorInv, Heading, Told
  <2>3. d \in Present' <=> d \in seen
    BY <1>10, <2>2
  <2>4. <<"gap", d>> \notin Misread(seen)
    BY <1>1 DEF Sure, Knows
  <2>5. d \in seen <=> d \in Nodes(Active)
    BY <1>4, <2>4 DEF Misread
  <2> QED
    BY <1>1, <1>3, <1>5, <2>3, <2>5 DEF Told
<1> QED
  BY <1>11, <1>12, <1>13, <1>14, <1>15 DEF MirrorInv


LEMMA MirrorCallback ==
  ASSUME MirrorInv, TypeOK', Callback, UNCHANGED <<coreAudio, nodeInfo, daemon>>
  PROVE  MirrorInv'
<1>n. PICK n : n = Head(notices)
  OBVIOUS
<1>x. PICK x : x = n.dev
  OBVIOUS
<1> DEFINE events == IF n.call = "Added" THEN OnAdded(n)
                     ELSE IF n.call = "Removed" THEN OnRemoved(n) ELSE OnStateChanged(n)
<1>1. /\ platform = "windows" /\ platform' = platform /\ device' = device
      /\ notices # <<>> /\ notices' = Tail(notices) /\ outgoing = <<>>
      /\ graph' = graph /\ main' = main /\ prev' = prev /\ dirty' = dirty /\ news' = news
      /\ backend' = backend /\ sink' = sink /\ queue' = queue /\ lost' = lost
      /\ outgoing' = events
      /\ early' = IF n.call = "Added" /\ x \notin Active THEN early \cup {x} ELSE early \ {x}
  BY <1>n, <1>x DEF Callback, Announce, machine, CallbackIdle, coreAudio, nodeInfo, daemon
<1>2. /\ n \in Notice /\ 1 \in DOMAIN notices /\ n = notices[1]
      /\ DOMAIN notices \subseteq Nat /\ DOMAIN notices' \subseteq Nat
      /\ \A k \in DOMAIN notices' : k + 1 \in DOMAIN notices /\ notices'[k] = notices[k + 1]
      /\ \A k \in DOMAIN notices :
           k = 1 \/ (k > 1 /\ k - 1 \in DOMAIN notices' /\ notices'[k - 1] = notices[k])
  BY <1>n, <1>1, TailPlaces DEF MirrorInv, TypeOK, WasapiOK
<1> DEFINE Later == \E k \in DOMAIN notices' : notices'[k].dev = x
<1>3. x \in Device
  BY <1>x, <1>2 DEF Notice
<1>4. Later \/ device[x] = IF n.call = "Added" THEN "inactive"
                           ELSE IF n.call = "Removed" THEN "absent"
                           ELSE IF n.active THEN "active" ELSE "inactive"
  BY <1>x, <1>2 DEF MirrorInv, LastNotices
<1>5. \/ events = <<>> /\ ~(Known(x) /\ Kind[x] # "Other") /\ n.call # "Removed"
           /\ (n.call = "Added" \/ n.active)
      \/ events = <<Appeared(x)>> /\ Known(x) /\ Kind[x] # "Other" /\ n.call # "Removed"
           /\ (n.call = "Added" \/ n.active)
      \/ events = <<Removed(x)>> /\ n.call # "Added" /\ (n.call = "Removed" \/ ~n.active)
  BY <1>x DEF OnAdded, OnRemoved, OnStateChanged, NodeFor
<1>6. Nodes(Device)' = Nodes(Device) /\ Nodes(Active)' = Nodes(Active) /\ Active' = Active
  BY <1>1 DEF Nodes, Active
<1>7. /\ x \in Active <=> device[x] = "active"
      /\ x \in Nodes(Active) <=> device[x] = "active" /\ Kind[x] # "Other"
      /\ x \in Nodes(Device) <=> Kind[x] # "Other"
  BY <1>1, <1>3 DEF Nodes, Active
<1> HIDE DEF events, Later
<1>8. Present = After(queue, graph) /\ Present' = After(events, Present)
  BY <1>1, PresentType, AfterNothing DEF Present, MirrorInv
<1>9. \A k \in DOMAIN events : k = 1 /\ \A d : About(events[k], d) => d = x
  BY <1>5, EventMeaning DEF About
<1>10. ASSUME ~Later, NEW nodes,
              \/ events = <<Appeared(x)>> /\ x \in nodes
              \/ events = <<Removed(x)>> /\ x \notin nodes
       PROVE  Told(x, nodes)'
  <2>1. CASE events = <<Appeared(x)>> /\ x \in nodes
    <3>1. Kind[x] # "Other" /\ (n.call = "Added" \/ n.active) /\ n.call # "Removed"
      BY <1>5, <2>1, EventFields
    <3>2. CASE n.call = "Added"
      <4>1. x \in early'
        BY <1>1, <1>4, <1>7, <1>10, <3>2
      <4> QED
        BY <1>1, <2>1, <4>1 DEF Told
    <3>3. CASE n.call # "Added"
      <4>1. x \in Nodes(Active)
        BY <1>4, <1>7, <1>10, <3>1, <3>3
      <4> QED
        BY <1>1, <1>6, <2>1, <4>1 DEF Told
    <3> QED
      BY <3>2, <3>3
  <2>2. CASE events = <<Removed(x)>> /\ x \notin nodes
    <3>1. n.call # "Added" /\ (n.call = "Removed" \/ ~n.active)
      BY <1>5, <2>2, EventFields
    <3>2. x \notin Nodes(Active)
      BY <1>4, <1>7, <1>10, <3>1
    <3> QED
      BY <1>1, <1>6, <2>2, <3>2 DEF Told
  <2> QED
    BY <1>10, <2>1, <2>2
<1>11. \A nodes : Later => Told(x, nodes)'
  BY <1>1 DEF Told, Later
<1>12. Quiet'
  BY <1>1 DEF MirrorInv, Quiet
<1>13. LastNotices'
  <2> SUFFICES ASSUME NEW k \in DOMAIN notices'
               PROVE  \/ \E j \in DOMAIN notices' : j > k /\ notices'[j].dev = notices'[k].dev
                      \/ device'[notices'[k].dev] =
                           IF notices'[k].call = "Added" THEN "inactive"
                           ELSE IF notices'[k].call = "Removed" THEN "absent"
                           ELSE IF notices'[k].active THEN "active" ELSE "inactive"
    BY DEF LastNotices
  <2>1. k + 1 \in DOMAIN notices /\ notices'[k] = notices[k + 1] /\ k \in Nat
    BY <1>2
  <2>2. CASE \E j \in DOMAIN notices : j > k + 1 /\ notices[j].dev = notices[k + 1].dev
    <3>1. PICK j \in DOMAIN notices : j > k + 1 /\ notices[j].dev = notices[k + 1].dev
      BY <2>2
    <3>2. j \in Nat /\ j # 1 /\ j - 1 > k
      BY <1>2, <2>1, <3>1
    <3>3. j - 1 \in DOMAIN notices' /\ notices'[j - 1] = notices[j]
      BY <1>2, <3>2
    <3> QED
      BY <2>1, <3>1, <3>2, <3>3
  <2>3. CASE ~\E j \in DOMAIN notices : j > k + 1 /\ notices[j].dev = notices[k + 1].dev
    BY <1>1, <2>1, <2>3 DEF MirrorInv, LastNotices
  <2> QED
    BY <2>2, <2>3
<1>14. Announced'
  <2> SUFFICES ASSUME NEW k \in DOMAIN outgoing', NEW d \in Device
               PROVE  /\ Comes(outgoing'[k], d) => Told(d, Device)'
                      /\ Goes(outgoing'[k], d) => Told(d, {})'
                      /\ About(outgoing'[k], d) =>
                           \A j \in DOMAIN outgoing' : About(outgoing'[j], d) => j = k
    BY DEF Announced
  <2>1. About(outgoing'[k], d) => d = x /\ k = 1
    BY <1>1, <1>9
  <2>2. About(outgoing'[k], d) => \A j \in DOMAIN outgoing' : About(outgoing'[j], d) => j = k
    BY <1>1, <1>9
  <2>3. ASSUME Comes(outgoing'[k], d) PROVE Told(d, Device)'
    <3>1. d = x /\ k = 1
      BY <2>1, <2>3 DEF About
    <3>2. events = <<Appeared(x)>>
      BY <1>1, <1>5, <2>3, <3>1, EventMeaning
    <3> QED
      BY <1>3, <1>10, <1>11, <3>1, <3>2
  <2>4. ASSUME Goes(outgoing'[k], d) PROVE Told(d, {})'
    <3>1. d = x /\ k = 1
      BY <2>1, <2>4 DEF About
    <3>2. events = <<Removed(x)>>
      BY <1>1, <1>5, <2>4, <3>1, EventMeaning
    <3> QED
      BY <1>10, <1>11, <3>1, <3>2
  <2> QED
    BY <2>2, <2>3, <2>4
<1>15. Unlisted'
  <2>1. \A k \in DOMAIN outgoing', d \in Device \ Nodes(Device) : ~Comes(outgoing'[k], d)
    <3> SUFFICES ASSUME NEW k \in DOMAIN outgoing', NEW d \in Device, Comes(outgoing'[k], d)
                 PROVE  d \in Nodes(Device)
      OBVIOUS
    <3>1. d = x /\ k = 1
      BY <1>1, <1>9 DEF About
    <3>2. events = <<Appeared(x)>>
      BY <1>1, <1>5, <3>1, EventMeaning
    <3>3. Kind[x] # "Other"
      BY <1>5, <3>2, EventFields
    <3> QED
      BY <1>7, <3>1, <3>3
  <2> QED
    BY <1>1, <1>6, <2>1 DEF MirrorInv, Unlisted
<1>16. Heading'
  <2> SUFFICES ASSUME main # "boot", NEW d \in Device, Sure(d)'
               PROVE  Told(d, Present)'
    BY <1>1 DEF Heading
  <2>1. Told(d, Present)
    BY <1>1 DEF MirrorInv, Heading, Sure, Knows
  <2>2. CASE d # x
    <3>1. \A k \in DOMAIN events : ~About(events[k], d)
      BY <1>9, <2>2
    <3>2. d \in Present' <=> d \in Present
      BY <1>8, <3>1, AfterUnrelated
    <3>3. d \in early' <=> d \in early
      BY <1>1, <2>2
    <3>4. (\E k \in DOMAIN notices : notices[k].dev = d)
            => (\E k \in DOMAIN notices' : notices'[k].dev = d)
      BY <1>x, <1>2, <2>2
    <3> QED
      BY <1>1, <1>6, <2>1, <3>2, <3>3, <3>4 DEF Told
  <2>3. CASE d = x /\ Later
    BY <1>11, <2>3
  <2>4. CASE d = x /\ ~Later /\ events = <<Appeared(x)>>
    <3>1. 1 \in DOMAIN events /\ Comes(events[1], x) /\ DOMAIN events \subseteq Nat
      BY <2>4, EventMeaning
    <3>2. x \in Present'
      BY <1>3, <1>8, <1>9, <3>1, AfterOnly
    <3> QED
      BY <1>10, <2>4, <3>2
  <2>5. CASE d = x /\ ~Later /\ events = <<Removed(x)>>
    <3>1. 1 \in DOMAIN events /\ Goes(events[1], x) /\ DOMAIN events \subseteq Nat
      BY <2>5, EventMeaning
    <3>2. x \notin Present'
      BY <1>3, <1>8, <1>9, <3>1, AfterOnly
    <3> QED
      BY <1>10, <2>5, <3>2
  <2>6. CASE d = x /\ ~Later /\ events = <<>>
    <3>1. Kind[x] = "Other"
      BY <1>4, <1>5, <2>6 DEF Known
    <3>2. x \notin Nodes(Device) /\ x \notin Nodes(Active)
      BY <1>7, <3>1
    <3>3. x \notin Present'
      <4>1. x \notin graph /\ \A k \in DOMAIN queue : ~Comes(queue[k], x)
        BY <1>3, <3>2 DEF MirrorInv, Unlisted
      <4>2. x \notin Present
        BY <1>8, <4>1 DEF After
      <4> QED
        BY <1>3, <1>8, <1>9, <2>6, <4>2, AfterUnrelated
    <3> QED
      BY <1>1, <1>6, <2>6, <3>2, <3>3 DEF Told
  <2> QED
    BY <1>5, <2>2, <2>3, <2>4, <2>5, <2>6
<1> QED
  BY <1>12, <1>13, <1>14, <1>15, <1>16 DEF MirrorInv

\* An info speaks of no device that comes or goes.
LEMMA MirrorInfo ==
  ASSUME MirrorInv, TypeOK', NEW x \in Device, Info(x), UNCHANGED <<coreAudio, wasapi, daemon>>
  PROVE  MirrorInv'
<1>1. /\ platform' = platform /\ device' = device /\ outgoing = <<>> /\ x \in news
      /\ graph' = graph /\ main' = main /\ prev' = prev /\ dirty' = dirty
      /\ notices' = notices /\ early' = early /\ news' = news \ {x}
      /\ backend' = backend /\ sink' = sink /\ queue' = queue /\ lost' = lost
      /\ outgoing' = LatencyEvents(x) \o [i \in 1..NewXruns(x) |-> Xrun(x)]
  BY DEF Info, Announce, machine, CallbackIdle, coreAudio, wasapi, daemon
<1>2. \A k \in DOMAIN outgoing' : \A d : ~About(outgoing'[k], d)
  <2> DEFINE s == LatencyEvents(x)
             t == [i \in 1..NewXruns(x) |-> Xrun(x)]
  <2>1. s \in Seq(BackendEvent) /\ t \in Seq(BackendEvent) /\ NewXruns(x) \in Nat
    BY InfoType DEF MirrorInv, TypeOK
  <2>2. \A k \in DOMAIN s : \A d : ~About(s[k], d)
    <3>1. \A k \in DOMAIN s : s[k] = Sample(x, latency[x])
      BY DEF LatencyEvents
    <3>2. \A ms, d : ~About(Sample(x, ms), d)
      BY EventMeaning
    <3> HIDE DEF s
    <3> QED
      BY <3>1, <3>2
  <2>3. \A k \in DOMAIN t : \A d : ~About(t[k], d)
    BY EventMeaning
  <2> HIDE DEF s, t
  <2>4. \A k \in DOMAIN (s \o t) : \/ k \in DOMAIN s /\ (s \o t)[k] = s[k]
                                   \/ k - Len(s) \in DOMAIN t /\ (s \o t)[k] = t[k - Len(s)]
    <3>1. /\ DOMAIN s = 1..Len(s) /\ DOMAIN t = 1..Len(t) /\ Len(s) \in Nat /\ Len(t) \in Nat
      BY <2>1, LenProperties
    <3>2. /\ DOMAIN (s \o t) = 1..(Len(s) + Len(t))
          /\ \A k \in 1..(Len(s) + Len(t)) :
               (s \o t)[k] = IF k <= Len(s) THEN s[k] ELSE t[k - Len(s)]
      BY <2>1, ConcatProperties, LenProperties
    <3> QED
      BY <3>1, <3>2
  <2> QED
    BY <1>1, <2>2, <2>3, <2>4 DEF s, t
<1>3. \A d \in Device : d \in Present' <=> d \in Present
  <2>1. Present = After(queue, graph) /\ Present' = After(outgoing', Present)
    BY <1>1, PresentType, AfterNothing DEF Present, MirrorInv
  <2> QED
    BY <1>2, <2>1, AfterUnrelated
<1>4. \A d, nodes : Told(d, nodes)' <=> Told(d, nodes)
  BY <1>1 DEF Told, Nodes, Active
<1>5. Quiet'
  BY <1>1 DEF MirrorInv, Quiet
<1>6. LastNotices'
  BY <1>1 DEF MirrorInv, LastNotices
<1>7. Announced'
  BY <1>2 DEF Announced, About
<1>8. Unlisted'
  BY <1>1, <1>2 DEF MirrorInv, Unlisted, Nodes, About
<1>9. Heading'
  <2>1. \A d \in Device : Told(d, Present) => Told(d, Present)'
    BY <1>1, <1>3 DEF Told, Nodes, Active
  <2> QED
    BY <1>1, <2>1 DEF MirrorInv, Heading, Sure, Knows, Nodes, Active
<1> QED
  BY <1>5, <1>6, <1>7, <1>8, <1>9 DEF MirrorInv


\* An event taken into the channel says what is so; one that is not makes the
\* daemon unsure.
LEMMA MirrorBroadcastNext ==
  ASSUME MirrorInv, TypeOK', BroadcastNext,
         UNCHANGED <<coreAudio, wasapi, nodeInfo, volume, rest>>
  PROVE  MirrorInv'
<1>n. PICK ev : ev = Head(outgoing)
  OBVIOUS
<1>t. PICK taken \in BOOLEAN : taken = (sink = "open" /\ Room)
  OBVIOUS
<1>1. /\ platform' = platform /\ device' = device /\ outgoing # <<>> /\ outgoing' = Tail(outgoing)
      /\ graph' = graph /\ main' = main /\ prev' = prev /\ dirty' = dirty
      /\ notices' = notices /\ early' = early /\ news' = news /\ backend' = backend
      /\ queue' = IF taken THEN Append(queue, ev) ELSE queue
      /\ sink' = IF sink = "open" /\ ~taken THEN "pruned" ELSE sink
      /\ lost' = IF taken THEN lost \ Learned(ev) ELSE lost \cup {<<Topic(ev), ev.dev>>}
      /\ taken => sink = "open"
  BY <1>n, <1>t DEF BroadcastNext, machine, coreAudio, wasapi, nodeInfo, rest
<1>2. /\ ev \in BackendEvent /\ 1 \in DOMAIN outgoing /\ ev = outgoing[1]
      /\ outgoing' \in Seq(BackendEvent)
      /\ DOMAIN outgoing \subseteq Nat /\ DOMAIN outgoing' \subseteq Nat
      /\ \A k \in DOMAIN outgoing' : k + 1 \in DOMAIN outgoing /\ outgoing'[k] = outgoing[k + 1]
  BY <1>n, <1>1, PresentType, TailPlaces DEF MirrorInv
<1>3. /\ ev.dev \in Device
      /\ \A d : Comes(ev, d) \/ Goes(ev, d) => d = ev.dev /\ Topic(ev) = "node"
      /\ Topic(ev) = "node" => About(ev, ev.dev)
  BY <1>2, EventCases DEF Comes, Goes, About, Topic
<1>4. /\ queue \in Seq(BackendEvent) /\ outgoing \in Seq(BackendEvent)
      /\ graph \subseteq Device /\ After(queue, graph) \subseteq Device
  BY PresentType DEF MirrorInv
<1>5. Nodes(Device)' = Nodes(Device) /\ Nodes(Active)' = Nodes(Active) /\ Active' = Active
  BY <1>1 DEF Nodes, Active
<1>6. \A d, nodes : Told(d, nodes)' <=> Told(d, nodes)
  BY <1>1 DEF Told, Nodes, Active
<1>7. Present = After(outgoing', Apply(ev, After(queue, graph)))
  BY <1>n, <1>1, <1>4, AfterHead DEF Present
<1>8. taken => Present' = Present
  BY <1>1, <1>2, <1>4, <1>7, AfterAppend DEF Present
<1>9. ASSUME ~taken, NEW d \in Device, ~About(ev, d)
      PROVE  d \in Present' <=> d \in Present
  <2>1. d \in Apply(ev, After(queue, graph)) <=> d \in After(queue, graph)
    BY <1>9 DEF Apply, About, Comes, Goes
  <2> QED
    BY <1>1, <1>7, <1>9, <2>1 DEF Present, After
<1>10. ASSUME NEW d \in Device, About(ev, d), taken
       PROVE  /\ Comes(ev, d) => d \in Present'
              /\ Goes(ev, d) => d \notin Present'
  <2>1. \A j \in DOMAIN outgoing : About(outgoing[j], d) => j = 1
    BY <1>2, <1>10 DEF MirrorInv, Announced
  <2> QED
    BY <1>2, <1>8, <1>10, <2>1, AfterOnly DEF Present
<1>11. Quiet'
  BY <1>1 DEF MirrorInv, Quiet
<1>12. LastNotices'
  BY <1>1 DEF MirrorInv, LastNotices
<1>13. Announced'
  <2> SUFFICES ASSUME NEW k \in DOMAIN outgoing', NEW d \in Device
               PROVE  /\ Comes(outgoing'[k], d) => Told(d, Device)'
                      /\ Goes(outgoing'[k], d) => Told(d, {})'
                      /\ About(outgoing'[k], d) =>
                           \A j \in DOMAIN outgoing' : About(outgoing'[j], d) => j = k
    BY DEF Announced
  <2>1. k + 1 \in DOMAIN outgoing /\ outgoing'[k] = outgoing[k + 1] /\ k \in Nat
    BY <1>2
  <2>2. /\ Comes(outgoing[k + 1], d) => Told(d, Device)
        /\ Goes(outgoing[k + 1], d) => Told(d, {})
        /\ About(outgoing[k + 1], d) =>
             \A j \in DOMAIN outgoing : About(outgoing[j], d) => j = k + 1
    BY <2>1 DEF MirrorInv, Announced
  <2>3. ASSUME About(outgoing'[k], d), NEW j \in DOMAIN outgoing', About(outgoing'[j], d)
        PROVE  j = k
    <3>1. j + 1 = k + 1 /\ j \in Nat
      BY <1>2, <2>1, <2>2, <2>3
    <3> QED
      BY <2>1, <3>1
  <2> QED
    BY <1>6, <2>1, <2>2, <2>3
<1>14. Unlisted'
  <2>1. ASSUME NEW d \in Device \ Nodes(Device) PROVE ~Comes(ev, d)
    BY <1>2 DEF MirrorInv, Unlisted
  <2>2. ASSUME NEW d \in Device \ Nodes(Device), NEW k \in DOMAIN queue' PROVE ~Comes(queue'[k], d)
    <3>1. \A i \in DOMAIN queue : ~Comes(queue[i], d)
      BY DEF MirrorInv, Unlisted
    <3>2. (k \in DOMAIN queue /\ queue'[k] = queue[k]) \/ queue'[k] = ev
      <4>1. CASE taken
        BY <1>1, <1>2, <1>4, <4>1, AppendPlaces
      <4>2. CASE ~taken
        BY <1>1, <4>2
      <4> QED
        BY <4>1, <4>2
    <3> QED
      BY <2>1, <3>1, <3>2
  <2>3. ASSUME NEW d \in Device \ Nodes(Device), NEW k \in DOMAIN outgoing'
        PROVE  ~Comes(outgoing'[k], d)
    BY <1>2 DEF MirrorInv, Unlisted
  <2> QED
    BY <1>1, <1>5, <2>2, <2>3 DEF MirrorInv, Unlisted
<1>15. Heading'
  <2> SUFFICES ASSUME main # "boot", NEW d \in Device, Sure(d)'
               PROVE  /\ Told(d, Present)'
                      /\ platform = "macos" => dirty \/ (d \in prev <=> d \in Nodes(Active))
    BY <1>1, <1>5 DEF Heading
  <2>1. CASE About(ev, d)
    <3>1. taken
      BY <1>1, <1>3, <2>1 DEF Sure, Knows, About
    <3>2. \/ Comes(ev, d) /\ Told(d, Device) /\ d \in Present'
          \/ Goes(ev, d) /\ Told(d, {}) /\ d \notin Present'
      BY <1>2, <1>10, <2>1, <3>1 DEF About, MirrorInv, Announced
    <3>3. Told(d, Present)'
      BY <1>1, <1>5, <3>2 DEF Told
    <3>4. CASE Sure(d)
      BY <3>3, <3>4 DEF MirrorInv, Heading
    <3>5. CASE ~Sure(d)
      <4>1. Learned(ev) \cap {<<"node", d>>, <<"gap", d>>} # {}
        BY <1>1, <3>1, <3>5 DEF Sure, Knows
      <4>2. ev.type # "LatencySample" /\ Topic(ev) = "node" /\ ev.dev = d
        BY <2>1 DEF About, Comes, Goes, Topic
      <4>3. ev.type = "NodeAppeared" <=> d \in Active
        BY <4>1, <4>2 DEF Learned
      <4>4. Comes(ev, d) <=> d \in Active
        BY <4>2, <4>3 DEF Comes
      <4>5. platform = "macos" => (d \in prev <=> d \in Active)
        BY <3>2, <4>4, EventMeaning DEF Told
      <4>6. platform = "macos" => (d \in prev => d \in Nodes(Device))
        BY DEF MirrorInv, Unlisted
      <4> QED
        BY <3>3, <4>5, <4>6 DEF Nodes, Active
    <3> QED
      BY <3>4, <3>5
  <2>2. CASE ~About(ev, d)
    <3>1. Sure(d)
      <4>1. CASE taken
        <5>1. Topic(ev) = "node" => ev.dev # d
          BY <1>3, <2>2
        <5>2. <<"node", d>> \notin Learned(ev) /\ <<"gap", d>> \notin Learned(ev)
          BY <5>1 DEF Learned
        <5> QED
          BY <1>1, <4>1, <5>2 DEF Sure, Knows
      <4>2. CASE ~taken
        BY <1>1, <4>2 DEF Sure, Knows
      <4> QED
        BY <4>1, <4>2
    <3>2. Told(d, Present) /\ (platform = "macos" => dirty \/ (d \in prev <=> d \in Nodes(Active)))
      BY <3>1 DEF MirrorInv, Heading
    <3>3. d \in Present' <=> d \in Present
      BY <1>8, <1>9, <2>2
    <3>4. Told(d, Present)'
      BY <1>1, <1>5, <3>2, <3>3 DEF Told
    <3> QED
      BY <3>2, <3>4
  <2> QED
    BY <2>1, <2>2
<1> QED
  BY <1>11, <1>12, <1>13, <1>14, <1>15 DEF MirrorInv

LEMMA MirrorPumpEvent ==
  ASSUME MirrorInv, TypeOK', PumpEvent
  PROVE  MirrorInv'
<1>1. /\ platform' = platform /\ device' = device /\ outgoing' = outgoing /\ queue # <<>>
      /\ main' = main /\ prev' = prev /\ dirty' = dirty
      /\ notices' = notices /\ early' = early /\ news' = news /\ backend' = backend
      /\ sink' = sink /\ lost' = lost /\ queue' = Tail(queue)
      /\ graph' = Apply(Head(queue), graph)
  BY DEF PumpEvent, Apply, machine, coreAudio, wasapi, nodeInfo
<1>2. queue \in Seq(BackendEvent) /\ graph \subseteq Device
  BY PresentType DEF MirrorInv
<1>3. Present' = Present
  BY <1>1, <1>2, AfterHead DEF Present
<1>4. Nodes(Device)' = Nodes(Device) /\ Nodes(Active)' = Nodes(Active) /\ Active' = Active
  BY <1>1 DEF Nodes, Active
<1>5. \A d, nodes : Told(d, nodes)' <=> Told(d, nodes)
  BY <1>1 DEF Told, Nodes, Active
<1>6. Quiet'
  BY <1>1 DEF MirrorInv, Quiet
<1>7. LastNotices'
  BY <1>1 DEF MirrorInv, LastNotices
<1>8. Announced'
  BY <1>1, <1>5 DEF MirrorInv, Announced
<1>9. Unlisted'
  <2> SUFFICES ASSUME NEW d \in Device \ Nodes(Device)
               PROVE  /\ d \notin graph'
                      /\ \A k \in DOMAIN queue' : ~Comes(queue'[k], d)
    BY <1>1, <1>4 DEF MirrorInv, Unlisted
  <2>1. d \notin graph /\ \A k \in DOMAIN queue : ~Comes(queue[k], d)
    BY DEF MirrorInv, Unlisted
  <2>2. /\ 1 \in DOMAIN queue /\ Head(queue) = queue[1]
        /\ \A k \in DOMAIN Tail(queue) : k + 1 \in DOMAIN queue /\ Tail(queue)[k] = queue[k + 1]
    BY <1>1, <1>2, TailPlaces
  <2> QED
    BY <1>1, <2>1, <2>2 DEF Apply, Comes
<1>10. Heading'
  BY <1>1, <1>3, <1>4, <1>5 DEF MirrorInv, Heading, Sure, Knows
<1> QED
  BY <1>6, <1>7, <1>8, <1>9, <1>10 DEF MirrorInv

LEMMA MirrorEnumerateNodes ==
  ASSUME MirrorInv, TypeOK', EnumerateNodes
  PROVE  MirrorInv'
<1>1. PICK seen \in SUBSET Device :
        /\ Listed(seen)
        /\ graph' = seen
        /\ lost' = {l \in lost : l[1] # "node"} \cup Disagreement(seen)
  BY DEF EnumerateNodes
<1>2. /\ platform' = platform /\ device' = device
      /\ seen \subseteq Nodes(Device)
      /\ platform # "linux" => seen \subseteq Nodes(Active)
  BY <1>1 DEF Listed, HalDevices, Fault, machine, Nodes, Active
<1>3. /\ main = "boot" /\ main' = "seeded" /\ backend = "listening" /\ sink' = sink
      /\ outgoing' = outgoing /\ queue' = queue /\ prev' = prev /\ dirty' = dirty
      /\ notices' = notices /\ early' = early /\ news' = news /\ backend' = backend
  BY DEF EnumerateNodes, coreAudio, wasapi, nodeInfo
<1>4. queue = <<>> /\ sink = "none"
  BY <1>3 DEF MirrorInv, Quiet
<1>5. Present' = After(outgoing, seen)
  BY <1>1, <1>3, <1>4, AfterNothing DEF Present
<1>6. Nodes(Device)' = Nodes(Device) /\ Nodes(Active)' = Nodes(Active) /\ Active' = Active
  BY <1>2 DEF Nodes, Active
<1>7. \A d, nodes : Told(d, nodes)' <=> Told(d, nodes)
  BY <1>2, <1>3 DEF Told, Nodes, Active
<1>8. Quiet'
  BY <1>3, <1>4, <1>2 DEF MirrorInv, Quiet
<1>9. LastNotices'
  BY <1>2, <1>3 DEF MirrorInv, LastNotices
<1>10. Announced'
  BY <1>3, <1>7 DEF MirrorInv, Announced
<1>11. Unlisted'
  BY <1>1, <1>2, <1>3, <1>6 DEF MirrorInv, Unlisted
<1>12. Heading'
  <2> SUFFICES ASSUME NEW d \in Device, Sure(d)'
               PROVE  /\ Told(d, Present)'
                      /\ platform = "macos" => dirty \/ (d \in prev <=> d \in Nodes(Active))
    BY <1>2, <1>3, <1>6 DEF Heading
  <2>1. <<"gap", d>> \notin Disagreement(seen)
    BY <1>1 DEF Sure, Knows
  <2>2. d \in seen <=> d \in Nodes(Active)
    <3>1. platform = "linux" => Nodes(Active) = Active
      BY DEF Nodes, Active
    <3>2. d \notin Nodes(Active) \ seen /\ d \notin seen \ Active
      BY <2>1 DEF Disagreement, Misread
    <3> QED
      BY <1>2, <3>1, <3>2
  <2>3. platform = "macos" => (d \in prev <=> d \in seen)
    BY <2>1 DEF Disagreement
  <2>4. CASE \A k \in DOMAIN outgoing : ~About(outgoing[k], d)
    <3>1. d \in Present' <=> d \in seen
      BY <1>5, <2>4, AfterUnrelated
    <3>2. platform = "linux" => (d \in Nodes(Active) <=> d \in Active)
      BY DEF Nodes, Active
    <3>3. Told(d, Present)'
      BY <1>2, <1>3, <1>6, <2>2, <2>3, <3>1, <3>2 DEF Told
    <3> QED
      BY <2>2, <2>3, <3>3
  <2>5. CASE \E k \in DOMAIN outgoing : About(outgoing[k], d)
    <3>1. PICK k \in DOMAIN outgoing : About(outgoing[k], d)
      BY <2>5
    <3>2. /\ Comes(outgoing[k], d) => Told(d, Device)
          /\ Goes(outgoing[k], d) => Told(d, {})
          /\ \A j \in DOMAIN outgoing : About(outgoing[j], d) => j = k
      BY <3>1 DEF MirrorInv, Announced
    <3>3. DOMAIN outgoing \subseteq Nat
      BY PresentType, LenProperties DEF MirrorInv
    <3>4. \/ Told(d, Device) /\ d \in Present'
          \/ Told(d, {}) /\ d \notin Present'
      BY <1>5, <3>1, <3>2, <3>3, AfterOnly DEF About
    <3>5. Told(d, Present)'
      BY <1>2, <1>3, <1>6, <3>4 DEF Told
    <3> QED
      BY <2>2, <2>3, <3>5
  <2> QED
    BY <2>4, <2>5
<1> QED
  BY <1>8, <1>9, <1>10, <1>11, <1>12 DEF MirrorInv


\* A backend that starts: nobody has asked it for anything yet.
LEMMA MirrorBackendStarts ==
  ASSUME MirrorInv, TypeOK', backend # "listening",
         UNCHANGED <<platform, device, channel, dirty, wasapi, news, graph, main>>,
         platform = "macos" => prev' \subseteq Nodes(Device)
  PROVE  MirrorInv'
<1>1. /\ main = "boot" /\ main' = "boot" /\ outgoing = <<>> /\ outgoing' = <<>>
      /\ notices = <<>> /\ notices' = <<>> /\ ~dirty' /\ news' = {}
      /\ sink' = sink /\ queue' = queue /\ graph' = graph /\ platform' = platform
      /\ Active' = Active
  BY DEF MirrorInv, Quiet, Active, channel, wasapi
<1>2. Nodes(Device)' = Nodes(Device)
  BY <1>1 DEF Nodes
<1>3. Quiet'
  BY <1>1 DEF MirrorInv, Quiet
<1>4. Unlisted'
  BY <1>1, <1>2 DEF MirrorInv, Unlisted
<1>5. LastNotices' /\ Announced' /\ Heading'
  BY <1>1 DEF LastNotices, Announced, Heading
<1> QED
  BY <1>3, <1>4, <1>5 DEF MirrorInv

LEMMA MirrorStartEventPump ==
  ASSUME MirrorInv, TypeOK', StartEventPump
  PROVE  MirrorInv'
<1>1. /\ platform' = platform /\ device' = device /\ outgoing' = outgoing /\ queue' = queue
      /\ main = "seeded" /\ main' = "pumping" /\ prev' = prev /\ dirty' = dirty
      /\ notices' = notices /\ early' = early /\ news' = news /\ backend' = backend
      /\ sink' = "open" /\ lost' = lost /\ graph' = graph
  BY DEF StartEventPump, SubscribeDevices, machine, coreAudio, wasapi, nodeInfo
<1>2. Present' = Present /\ Nodes(Device)' = Nodes(Device) /\ Nodes(Active)' = Nodes(Active)
  BY <1>1 DEF Present, Nodes, Active
<1>3. \A d, nodes : Told(d, nodes)' <=> Told(d, nodes)
  BY <1>1 DEF Told, Nodes, Active
<1>4. Quiet'
  BY <1>1 DEF MirrorInv, Quiet
<1>5. LastNotices' /\ Unlisted'
  BY <1>1, <1>2 DEF MirrorInv, LastNotices, Unlisted
<1>6. Announced'
  BY <1>1, <1>3 DEF MirrorInv, Announced
<1>7. Heading'
  BY <1>1, <1>2, <1>3 DEF MirrorInv, Heading, Sure, Knows
<1> QED
  BY <1>4, <1>5, <1>6, <1>7 DEF MirrorInv

LEMMA MirrorStep ==
  ASSUME MirrorInv, [Next]_vars
  PROVE  MirrorInv'
<1>0. TypeOK'
  BY TypeStep DEF MirrorInv
<1>1. CASE Hardware
  <2>1. ASSUME NEW d \in Device, HalChange(d), UNCHANGED <<wasapi, nodeInfo, rest>>
        PROVE  MirrorInv'
    BY <1>0, <2>1, MirrorHalChange
  <2>2. ASSUME NEW d \in Device, EndpointChange(d), UNCHANGED <<coreAudio, nodeInfo, rest>>
        PROVE  MirrorInv'
    BY <1>0, <2>2, MirrorEndpointChange
  <2>3. ASSUME NEW d \in Device, NodeGlobal(d) \/ NodeGone(d), UNCHANGED <<coreAudio, wasapi, rest>>
        PROVE  MirrorInv'
    <3>1. /\ platform = "linux" /\ platform' = platform /\ backend = "listening"
          /\ outgoing = <<>> /\ UNCHANGED <<backend, sink, queue, lost, graph, main>>
          /\ \A x \in Device \ {d} : device'[x] = device[x]
          /\ \/ device'[d] = "active" /\ outgoing' = <<Appeared(d)>>
             \/ device'[d] # "active" /\ outgoing' = <<Removed(d)>>
      BY <2>3 DEF NodeGlobal, NodeGone, Becomes, Announce, CallbackIdle, rest, MirrorInv, TypeOK,
                  DevicesOK
    <3> QED
      BY <1>0, <2>3, <3>1, MirrorNode
  <2>4. ASSUME NEW d \in Device, PropertyChange(d), UNCHANGED <<coreAudio, wasapi, rest>>
        PROVE  MirrorInv'
    <3>1. platform = "linux" /\ UNCHANGED view /\ main' = main
      BY <2>4 DEF PropertyChange, view, rest
    <3>2. news' = {} \/ backend = "listening"
      <4>1. d \in Active /\ platform = "linux"
        BY <2>4 DEF PropertyChange
      <4> QED
        BY <4>1 DEF MirrorInv, Quiet
    <3> QED
      BY <1>0, <3>1, <3>2, MirrorFrame
  <2> QED
    BY <1>1, <2>1, <2>2, <2>3, <2>4 DEF Hardware
<1>2. CASE Callbacks
  BY <1>0, <1>2, MirrorDevicesChanged, MirrorCallback, MirrorInfo, MirrorBroadcastNext DEF Callbacks
<1>3. CASE Startup
  <2>1. CASE ReadInitial /\ UNCHANGED <<wasapi, nodeInfo, daemon>>
    <3>1. PICK seen \in SUBSET Device : HalDevices(seen) /\ prev' = seen
      BY <2>1 DEF ReadInitial
    <3>2. platform' = platform /\ device' = device /\ seen \subseteq Nodes(Device)
      BY <3>1 DEF HalDevices, Fault, machine, Nodes, Active
    <3> QED
      BY <1>0, <2>1, <3>1, <3>2, MirrorBackendStarts DEF ReadInitial, nodeInfo, daemon
  <2>2. CASE AddListener /\ UNCHANGED <<wasapi, nodeInfo, daemon>>
    <3>1. UNCHANGED <<platform, device, channel, dirty, prev, wasapi, news, graph, main>>
      BY <2>2 DEF AddListener, Fault, machine, coreAudio, nodeInfo, daemon
    <3> QED
      BY <1>0, <2>2, <3>1, MirrorBackendStarts DEF AddListener, MirrorInv, Unlisted
  <2>3. CASE Register /\ UNCHANGED <<coreAudio, nodeInfo, daemon>>
    <3>1. UNCHANGED <<platform, device, channel, dirty, prev, wasapi, news, graph, main>>
      BY <2>3 DEF Register, Fault, machine, coreAudio, nodeInfo, daemon
    <3> QED
      BY <1>0, <2>3, <3>1, MirrorBackendStarts DEF Register
  <2>4. CASE StartLoop /\ UNCHANGED <<coreAudio, wasapi, daemon>>
    <3>1. UNCHANGED <<platform, device, channel, dirty, prev, wasapi, news, graph, main>>
      BY <2>4 DEF StartLoop, machine, coreAudio, nodeInfo, daemon
    <3> QED
      BY <1>0, <2>4, <3>1, MirrorBackendStarts DEF StartLoop
  <2>5. CASE LoadRules
    <3>1. UNCHANGED view /\ news' = news /\ main = "pumping" /\ main' = "ready"
      BY <2>5 DEF LoadRules, view, machine, nodeInfo
    <3> QED
      BY <1>0, <3>1, MirrorFrame DEF MirrorInv, Quiet
  <2> QED
    BY <1>0, <1>3, <2>1, <2>2, <2>3, <2>4, <2>5, MirrorEnumerateNodes, MirrorStartEventPump
    DEF Startup
<1>4. CASE PumpEvent
  BY <1>0, <1>4, MirrorPumpEvent
<1>5. CASE \/ \E d \in Device, v \in Asked : ClientVolume(d, v)
           \/ \E t \in tasks : RunTask(t)
           \/ UNCHANGED vars
  <2>1. UNCHANGED view /\ news' = news /\ main' = main
    BY <1>5 DEF ClientVolume, RunTask, vars, view, machine, nodeInfo, daemon
  <2> QED
    BY <1>0, <2>1, MirrorFrame DEF MirrorInv, Quiet
<1> QED
  BY <1>1, <1>2, <1>3, <1>4, <1>5 DEF Next

LEMMA MirrorInvariant == Spec => []MirrorInv
BY MirrorInit, MirrorStep, PTL DEF Spec

\* The graph of a daemon that caught up holds the devices that are there,
\* whichever way its platform tells of them: by comparing lists (macOS), by
\* calls in order (Windows) or by the registry (Linux).
THEOREM GraphMirrorsTheDevices == Spec => []GraphMirrorsDevices
<1>1. ASSUME MirrorInv PROVE GraphMirrorsDevices
  <2> SUFFICES ASSUME CaughtUp, NEW d \in Device, Sure(d)
               PROVE  \/ d \in graph <=> d \in Nodes(Active)
                      \/ d \in early /\ d \in graph
    BY DEF GraphMirrorsDevices, Sure
  <2>1. main # "boot" /\ Present = graph /\ ~dirty /\ notices = <<>>
    BY <1>1, PresentType, AfterNothing DEF CaughtUp, Present, MirrorInv, Quiet
  <2>2. /\ Told(d, graph)
        /\ platform = "macos" => (d \in prev <=> d \in Nodes(Active))
    BY <1>1, <2>1 DEF MirrorInv, Heading
  <2>3. platform \in {"macos", "windows", "linux"}
    BY <1>1 DEF MirrorInv, TypeOK, DevicesOK
  <2>4. platform = "linux" => Nodes(Active) = Active
    BY DEF Nodes, Active
  <2> QED
    BY <2>1, <2>2, <2>3, <2>4 DEF Told
<1> QED
  BY <1>1, MirrorInvariant, PTL


-----------------------------------------------------------------------------
(***************************************************************************)
(* Volumes.  A device that is owed its rule's volume has it, or a call     *)
(* that sets it is waiting, or the announcement that spawns the call is    *)
(* under way; and a call that was spawned is always the rule's.            *)
(***************************************************************************)
Spawned == \A t \in tasks : t.dev \in Device /\ t \in VolumeRuled(t.dev)

Unruled ==
  \A d \in Device : VolumeRuled(d) = {} => volume[d] \in {0} \cup {Clamp(v) : v \in Asked}

Served(d) ==
  \A t \in VolumeRuled(d) :
    \/ \E k \in DOMAIN queue : Comes(queue[k], d)
    \/ t \in tasks
    \/ volume[d] = Clamp(t.volume)

RulesInv ==
  /\ TypeOK
  /\ main # "ready" => engine = <<>> /\ owed = {}
  /\ owed \subseteq Active
  /\ Spawned
  /\ Unruled
  /\ \A d \in owed : Served(d)

LEMMA RuledOnce ==
  \A d : \A t, u \in VolumeRuled(d) : t = u /\ t.dev = d
BY DEF VolumeRuled

LEMMA NothingRuled == engine = <<>> => \A d : VolumeRuled(d) = {}
BY DEF VolumeRuled, EvaluateNode, NoAction

\* A step that leaves these as they are keeps the rules' invariant.
LEMMA RulesFrame ==
  ASSUME RulesInv, TypeOK',
         UNCHANGED <<platform, device, queue, engine, tasks, volume, owed>>,
         main' = main \/ (main # "ready" /\ main' # "ready")
  PROVE  RulesInv'
<1>1. \A d : VolumeRuled(d)' = VolumeRuled(d)
  BY DEF VolumeRuled
<1>2. Active' = Active
  BY DEF Active
<1>3. main' # "ready" => engine' = <<>> /\ owed' = {}
  BY DEF RulesInv
<1> QED
  BY <1>1, <1>2, <1>3 DEF RulesInv, Spawned, Unruled, Served

LEMMA RulesHardware ==
  ASSUME RulesInv, TypeOK', NEW x \in Device, Adjusts(x),
         platform' = platform, queue' = queue, UNCHANGED rest,
         \A d \in Device \ {x} : device'[d] = device[d]
  PROVE  RulesInv'
<1>1. /\ main' = main /\ engine' = engine /\ tasks' = tasks
      /\ volume' = IF device'[x] = "active" /\ device[x] # "active"
                   THEN [volume EXCEPT ![x] = 0] ELSE volume
      /\ owed' = IF device'[x] # device[x] THEN owed \ {x} ELSE owed
  BY DEF Adjusts, rest
<1>2. \A d : VolumeRuled(d)' = VolumeRuled(d)
  BY <1>1 DEF VolumeRuled
<1>3. volume \in [Device -> Level] /\ volume' \in [Device -> Level] /\ owed \subseteq Device
  BY DEF RulesInv, TypeOK, DaemonOK
<1>4. \A d \in Device : volume'[d] = volume[d] \/ (volume'[d] = 0 /\ d \notin owed')
  BY <1>1, <1>3
<1>5. owed' \subseteq Active'
  <2> SUFFICES ASSUME NEW d \in owed' PROVE d \in Active'
    OBVIOUS
  <2>1. d \in owed /\ d \in Active /\ device'[d] = device[d]
    BY <1>1, <1>3 DEF RulesInv
  <2> QED
    BY <2>1 DEF Active
<1>6. Spawned'
  BY <1>1, <1>2 DEF RulesInv, Spawned
<1>7. Unruled'
  BY <1>2, <1>4 DEF RulesInv, Unruled
<1>8. \A d \in owed' : Served(d)'
  <2> SUFFICES ASSUME NEW d \in owed' PROVE Served(d)'
    OBVIOUS
  <2>1. d \in owed /\ d \in Device /\ volume'[d] = volume[d]
    BY <1>1, <1>3, <1>4
  <2>2. Served(d)
    BY <2>1 DEF RulesInv
  <2> QED
    BY <1>1, <1>2, <2>1, <2>2 DEF Served
<1> QED
  BY <1>1, <1>5, <1>6, <1>7, <1>8 DEF RulesInv

LEMMA RulesBroadcastNext ==
  ASSUME RulesInv, TypeOK', BroadcastNext, Owes,
         UNCHANGED <<coreAudio, wasapi, nodeInfo, volume, rest>>
  PROVE  RulesInv'
<1>n. PICK ev : ev = Head(outgoing)
  OBVIOUS
<1>1. /\ platform' = platform /\ device' = device /\ volume' = volume
      /\ main' = main /\ engine' = engine /\ tasks' = tasks
      /\ queue' = queue \/ queue' = Append(queue, ev)
      /\ owed' = IF main = "ready" /\ Len(queue') > Len(queue) /\ ev.type = "NodeAppeared"
                      /\ ev.dev \in Active
                 THEN owed \cup {ev.dev} ELSE owed
  BY <1>n DEF BroadcastNext, Owes, machine, rest
<1>2. queue \in Seq(BackendEvent) /\ outgoing \in Seq(BackendEvent) /\ outgoing # <<>>
  BY DEF RulesInv, TypeOK, DevicesOK, BroadcastNext
<1>3. ev \in BackendEvent
  BY <1>n, <1>2, HeadTailProperties
<1>4. \A d : VolumeRuled(d)' = VolumeRuled(d)
  BY <1>1 DEF VolumeRuled
<1>5. Active' = Active
  BY <1>1 DEF Active
<1>6. \A k \in DOMAIN queue : k \in DOMAIN queue' /\ queue'[k] = queue[k]
  BY <1>1, <1>2, <1>3, AppendPlaces
<1>7. ASSUME NEW d \in owed' PROVE Served(d)'
  <2>1. CASE d \in owed
    <3>1. Served(d)
      BY <2>1 DEF RulesInv
    <3> QED
      BY <1>1, <1>4, <1>6, <3>1 DEF Served
  <2>2. CASE d \notin owed
    <3>1. d = ev.dev /\ ev.type = "NodeAppeared" /\ Len(queue') > Len(queue)
      BY <1>1, <2>2
    <3>2. queue' = Append(queue, ev)
      BY <1>1, <1>2, <3>1
    <3>3. \E k \in DOMAIN queue' : queue'[k] = ev
      BY <1>2, <1>3, <3>2, AppendPlaces
    <3> QED
      BY <3>1, <3>3 DEF Served, Comes
  <2> QED
    BY <2>1, <2>2
<1>8. owed' \subseteq Active'
  BY <1>1, <1>5 DEF RulesInv
<1>9. main' # "ready" => engine' = <<>> /\ owed' = {}
  BY <1>1 DEF RulesInv
<1>10. Spawned' /\ Unruled'
  BY <1>1, <1>4 DEF RulesInv, Spawned, Unruled
<1> QED
  BY <1>7, <1>8, <1>9, <1>10 DEF RulesInv

LEMMA RulesPumpEvent ==
  ASSUME RulesInv, TypeOK', PumpEvent
  PROVE  RulesInv'
<1>n. PICK ev : ev = Head(queue)
  OBVIOUS
<1>1. /\ platform' = platform /\ device' = device /\ volume' = volume /\ owed' = owed
      /\ main' = main /\ engine' = engine
      /\ queue # <<>> /\ queue' = Tail(queue)
      /\ tasks' = IF ev.type = "NodeAppeared" THEN tasks \cup VolumeRuled(ev.dev) ELSE tasks
  BY <1>n DEF PumpEvent, machine
<1>2. queue \in Seq(BackendEvent)
  BY DEF RulesInv, TypeOK, DevicesOK
<1>3. /\ ev \in BackendEvent /\ ev.dev \in Device
      /\ \A k \in DOMAIN queue :
           queue[k] = ev \/ (k - 1 \in DOMAIN queue' /\ queue'[k - 1] = queue[k])
  BY <1>n, <1>1, <1>2, TailPlaces, EventCases
<1>4. \A d : VolumeRuled(d)' = VolumeRuled(d)
  BY <1>1 DEF VolumeRuled
<1>5. ASSUME NEW d \in owed' PROVE Served(d)'
  <2>1. Served(d)
    BY <1>1, <1>5 DEF RulesInv
  <2>2. CASE Comes(ev, d)
    <3>1. VolumeRuled(d) \subseteq tasks'
      BY <1>1, <2>2 DEF Comes
    <3> QED
      BY <1>4, <3>1 DEF Served
  <2>3. CASE ~Comes(ev, d)
    <3>1. (\E k \in DOMAIN queue : Comes(queue[k], d)) => \E k \in DOMAIN queue' : Comes(queue'[k], d)
      BY <1>3, <2>3
    <3> QED
      BY <1>1, <1>4, <2>1, <3>1 DEF Served
  <2> QED
    BY <2>2, <2>3
<1>6. Spawned'
  <2>1. \A t \in VolumeRuled(ev.dev) : t.dev = ev.dev
    BY RuledOnce
  <2> QED
    BY <1>1, <1>3, <1>4, <2>1 DEF RulesInv, Spawned
<1>7. Unruled' /\ owed' \subseteq Active'
  BY <1>1, <1>4 DEF RulesInv, Unruled, Active
<1>8. main' # "ready" => engine' = <<>> /\ owed' = {}
  BY <1>1 DEF RulesInv
<1> QED
  BY <1>5, <1>6, <1>7, <1>8 DEF RulesInv

LEMMA RulesLoadRules ==
  ASSUME RulesInv, TypeOK', LoadRules
  PROVE  RulesInv'
<1>1. /\ main = "pumping" /\ main' = "ready" /\ owed' = owed /\ tasks' = tasks
      /\ volume' = volume
  BY DEF LoadRules
<1>2. engine = <<>> /\ owed = {}
  BY <1>1 DEF RulesInv
<1>3. tasks = {}
  BY <1>2, NothingRuled DEF RulesInv, Spawned
<1>4. Unruled'
  BY <1>1, <1>2, NothingRuled DEF RulesInv, Unruled
<1> QED
  BY <1>1, <1>2, <1>3, <1>4 DEF RulesInv, Spawned

LEMMA RulesClientVolume ==
  ASSUME RulesInv, TypeOK', NEW x \in Device, NEW v \in Asked, ClientVolume(x, v)
  PROVE  RulesInv'
<1>1. /\ platform' = platform /\ device' = device /\ queue' = queue /\ owed' = owed \ {x}
      /\ main' = main /\ engine' = engine /\ tasks' = tasks
      /\ volume' = volume \/ volume' = [volume EXCEPT ![x] = Clamp(v)]
  BY DEF ClientVolume, Turn, machine, channel
<1>2. volume \in [Device -> Level]
  BY DEF RulesInv, TypeOK, DaemonOK
<1>3. \A d : VolumeRuled(d)' = VolumeRuled(d)
  BY <1>1 DEF VolumeRuled
<1>4. /\ \A d \in Device \ {x} : volume'[d] = volume[d]
      /\ volume'[x] = volume[x] \/ volume'[x] = Clamp(v)
  BY <1>1, <1>2
<1>5. ASSUME NEW d \in owed' PROVE Served(d)'
  <2>1. d \in owed /\ d # x /\ d \in Device
    BY <1>1 DEF RulesInv, TypeOK, DaemonOK
  <2>2. Served(d) /\ volume'[d] = volume[d]
    BY <1>4, <2>1 DEF RulesInv
  <2> QED
    BY <1>1, <1>3, <2>2 DEF Served
<1>6. Unruled'
  BY <1>3, <1>4 DEF RulesInv, Unruled
<1>7. Spawned' /\ owed' \subseteq Active'
  BY <1>1, <1>3 DEF RulesInv, Spawned, Active
<1>8. main' # "ready" => engine' = <<>> /\ owed' = {}
  BY <1>1 DEF RulesInv
<1> QED
  BY <1>5, <1>6, <1>7, <1>8 DEF RulesInv

\* The call that a rule spawned leaves the device with the rule's volume, or
\* fails, and then the device is owed nothing.
LEMMA RulesRunTask ==
  ASSUME RulesInv, TypeOK', NEW t \in tasks, RunTask(t)
  PROVE  RulesInv'
<1>x. PICK x : x = t.dev
  OBVIOUS
<1>1. /\ platform' = platform /\ device' = device /\ queue' = queue
      /\ main' = main /\ engine' = engine /\ tasks' = tasks \ {t}
      /\ \/ volume' = [volume EXCEPT ![x] = Clamp(t.volume)] /\ owed' = owed
         \/ volume' = volume /\ owed' = owed \ {x}
  BY <1>x DEF RunTask, Turn, machine, channel
<1>2. volume \in [Device -> Level]
  BY DEF RulesInv, TypeOK, DaemonOK
<1>3. x \in Device /\ t \in VolumeRuled(x)
  BY <1>x DEF RulesInv, Spawned
<1>4. \A d : VolumeRuled(d)' = VolumeRuled(d)
  BY <1>1 DEF VolumeRuled
<1>5. /\ \A d \in Device \ {x} : volume'[d] = volume[d]
      /\ x \in owed' => volume'[x] = Clamp(t.volume)
      /\ owed' \subseteq owed
  BY <1>1, <1>2, <1>3
<1>6. ASSUME NEW d \in owed' PROVE Served(d)'
  <2>1. d \in owed /\ d \in Device /\ Served(d)
    BY <1>5 DEF RulesInv, TypeOK, DaemonOK
  <2>2. CASE d = x
    <3>1. VolumeRuled(x) = {t}
      BY <1>3, RuledOnce
    <3> QED
      BY <1>4, <1>5, <2>1, <2>2, <3>1 DEF Served
  <2>3. CASE d # x
    <3>1. \A u \in VolumeRuled(d) : u # t
      BY <1>x, <2>3, RuledOnce
    <3>2. volume'[d] = volume[d]
      BY <1>5, <2>1, <2>3
    <3> QED
      BY <1>1, <1>4, <2>1, <3>1, <3>2 DEF Served
  <2> QED
    BY <2>2, <2>3
<1>7. Unruled'
  <2> SUFFICES ASSUME NEW d \in Device, VolumeRuled(d) = {}
               PROVE  volume'[d] = volume[d]
    BY <1>4 DEF RulesInv, Unruled
  <2>1. d # x
    BY <1>3
  <2> QED
    BY <1>5, <2>1
<1>8. Spawned' /\ owed' \subseteq Active'
  BY <1>1, <1>4, <1>5 DEF RulesInv, Spawned, Active
<1>9. main' # "ready" => engine' = <<>> /\ owed' = {}
  BY <1>1, <1>5 DEF RulesInv
<1> QED
  BY <1>6, <1>7, <1>8, <1>9 DEF RulesInv

LEMMA RulesStep ==
  ASSUME RulesInv, [Next]_vars
  PROVE  RulesInv'
<1>0. TypeOK'
  BY TypeStep DEF RulesInv
<1>1. CASE Hardware
  <2>1. PICK d \in Device :
          /\ HalChange(d) \/ EndpointChange(d) \/ NodeGlobal(d) \/ NodeGone(d) \/ PropertyChange(d)
          /\ Adjusts(d) /\ UNCHANGED rest
    BY <1>1 DEF Hardware
  <2>2. platform' = platform /\ queue' = queue /\ \A x \in Device \ {d} : device'[x] = device[x]
    BY <2>1 DEF HalChange, EndpointChange, NodeGlobal, NodeGone, PropertyChange, Becomes, Announce,
                channel, RulesInv, TypeOK, DevicesOK
  <2> QED
    BY <1>0, <2>1, <2>2, RulesHardware
<1>2. CASE Callbacks
  <2>1. ASSUME \/ DevicesChanged /\ UNCHANGED daemon
               \/ Callback /\ UNCHANGED daemon
               \/ \E d \in Device : Info(d) /\ UNCHANGED daemon
        PROVE  RulesInv'
    <3>1. UNCHANGED <<platform, device, queue, daemon>>
      BY <2>1 DEF DevicesChanged, AnnounceDifference, HalDevices, Fault, Callback, Info, Announce,
                  machine
    <3> QED
      BY <1>0, <3>1, RulesFrame DEF daemon
  <2> QED
    BY <1>0, <1>2, <2>1, RulesBroadcastNext DEF Callbacks
<1>3. CASE Startup
  <2>1. ASSUME (ReadInitial \/ AddListener \/ Register \/ StartLoop) /\ UNCHANGED daemon
        PROVE  RulesInv'
    <3>1. UNCHANGED <<platform, device, queue, daemon>>
      BY <2>1 DEF ReadInitial, AddListener, Register, StartLoop, HalDevices, Fault, machine, channel
    <3> QED
      BY <1>0, <3>1, RulesFrame DEF daemon
  <2>2. ASSUME EnumerateNodes \/ StartEventPump
        PROVE  RulesInv'
    <3>1. UNCHANGED <<platform, device, queue, engine, tasks, volume, owed>> /\ main' # "ready"
      BY <2>2 DEF EnumerateNodes, StartEventPump, SubscribeDevices, Listed, HalDevices, Fault, machine
    <3>2. main # "ready"
      BY <2>2 DEF EnumerateNodes, StartEventPump
    <3> QED
      BY <1>0, <3>1, <3>2, RulesFrame
  <2> QED
    BY <1>0, <1>3, <2>1, <2>2, RulesLoadRules DEF Startup
<1>4. CASE UNCHANGED vars
  BY <1>0, <1>4, RulesFrame DEF vars, machine, channel, daemon
<1> QED
  BY <1>0, <1>1, <1>2, <1>3, <1>4, RulesPumpEvent, RulesClientVolume, RulesRunTask DEF Next

LEMMA RulesInit == Init => RulesInv
<1> SUFFICES ASSUME Init PROVE RulesInv
  OBVIOUS
<1>1. engine = <<>> /\ owed = {} /\ tasks = {} /\ \A d \in Device : volume[d] = 0
  BY DEF Init
<1> QED
  BY <1>1, TypeInit DEF RulesInv, Spawned, Unruled

LEMMA RulesInvariant == Spec => []RulesInv
BY RulesInit, RulesStep, PTL DEF Spec

\* A device announced to a daemon with rules ends with the volume of the
\* winning rule, whatever the file, and in whichever order announcements,
\* spawned calls, clients and the hardware take their turns, unless the system
\* refuses a call a rule made for it.
THEOREM RulesReachTheDevices == Spec => []RulesReachDevices
<1>1. ASSUME RulesInv PROVE RulesReachDevices
  <2> SUFFICES ASSUME CaughtUp, engine # <<>>, NEW d \in owed
               PROVE  /\ \A i \in DOMAIN RuleFile :
                           /\ Winner(RuleFile, NodeOf[d], i)
                           /\ RuleFile[i].action.type = "SetVolume"
                           => volume[d] = Clamp(RuleFile[i].action.volume)
                      /\ (\A i \in DOMAIN RuleFile :
                            Winner(RuleFile, NodeOf[d], i) => RuleFile[i].action.type # "SetVolume")
                           => volume[d] \in {0} \cup {Clamp(v) : v \in Asked}
    BY DEF RulesReachDevices
  <2>1. engine \in {<<>>, Ordered} /\ d \in Device
    BY <1>1 DEF RulesInv, TypeOK, DaemonOK
  <2>2. \A t \in VolumeRuled(d) : volume[d] = Clamp(t.volume)
    BY <1>1 DEF RulesInv, Served, CaughtUp
  <2>3. ASSUME NEW i \in DOMAIN RuleFile, Winner(RuleFile, NodeOf[d], i),
               RuleFile[i].action.type = "SetVolume"
        PROVE  volume[d] = Clamp(RuleFile[i].action.volume)
    <3>1. [dev |-> d, volume |-> RuleFile[i].action.volume] \in VolumeRuled(d)
      BY <2>1, <2>3, RuledVolume
    <3> QED
      BY <2>2, <2>3, <3>1
  <2>4. ASSUME \A i \in DOMAIN RuleFile :
                 Winner(RuleFile, NodeOf[d], i) => RuleFile[i].action.type # "SetVolume"
        PROVE  volume[d] \in {0} \cup {Clamp(v) : v \in Asked}
    <3>1. VolumeRuled(d) = {}
      BY <2>1, <2>4, RuledVolume
    <3> QED
      BY <1>1, <2>1, <3>1 DEF RulesInv, Unruled
  <2> QED
    BY <2>3, <2>4
<1> QED
  BY <1>1, RulesInvariant, PTL


-----------------------------------------------------------------------------
(***************************************************************************)
(* Latencies.  The last one the listener reported of a node is recorded,   *)
(* or under way, or lost; and it is the one the node advertises, unless    *)
(* its info is still to come.                                              *)
(***************************************************************************)
IsSample(ev, d, ms) == ev.type = "LatencySample" /\ ev.dev = d /\ ev.ms = ms

Reported(d) ==
  \/ metrics[d][lastLat[d]] > 0
  \/ \E k \in DOMAIN queue : IsSample(queue[k], d, lastLat[d])
  \/ \E k \in DOMAIN outgoing : IsSample(outgoing[k], d, lastLat[d])

LatencyInv ==
  /\ TypeOK
  /\ platform = "linux" =>
       /\ \A d \in Device : lastLat[d] # Unheard /\ Knows("LatencySample", d) => Reported(d)
       /\ \A k \in DOMAIN outgoing, d \in Device, ms \in Level :
            IsSample(outgoing[k], d, ms) => lastLat[d] = ms
       /\ \A d \in Active \ news : lastLat[d] = latency[d]

LEMMA SampleMeaning ==
  ASSUME NEW d, NEW x, NEW ms
  PROVE  /\ ~IsSample(Appeared(x), d, ms) /\ ~IsSample(Removed(x), d, ms)
         /\ ~IsSample(Xrun(x), d, ms)
         /\ \A l : IsSample(Sample(x, l), d, ms) <=> x = d /\ l = ms
BY EventFields DEF IsSample

LEMMA SampleTyped ==
  ASSUME NEW ev \in BackendEvent, ev.type = "LatencySample"
  PROVE  /\ ev.dev \in Device /\ ev.ms \in Level /\ IsSample(ev, ev.dev, ev.ms)
         /\ \A d, ms : IsSample(ev, d, ms) => d = ev.dev /\ ms = ev.ms
BY EventCases, EventFields DEF IsSample

\* The measurements do not change while no info is read and no event moves.
LEMMA LatencyFrame ==
  ASSUME LatencyInv, TypeOK', platform' = platform,
         platform = "linux" =>
           /\ UNCHANGED <<queue, metrics, lastLat>>
           /\ outgoing' = outgoing
                \/ (outgoing = <<>> /\ \A k \in DOMAIN outgoing' : \A d, ms : ~IsSample(outgoing'[k], d, ms))
           /\ \A d \in Device : Knows("LatencySample", d)' => Knows("LatencySample", d)
           /\ \A d \in Active' \ news' : d \in Active \ news /\ latency'[d] = latency[d]
  PROVE  LatencyInv'
<1> SUFFICES ASSUME platform = "linux"
             PROVE  LatencyInv'
  BY DEF LatencyInv
<1>1. \A d \in Device : Reported(d) => Reported(d)'
  BY DEF Reported
<1>2. \A k \in DOMAIN outgoing', d \in Device, ms \in Level :
        IsSample(outgoing'[k], d, ms) => lastLat'[d] = ms
  BY DEF LatencyInv
<1> QED
  BY <1>1, <1>2 DEF LatencyInv

LEMMA LatencyInfo ==
  ASSUME LatencyInv, TypeOK', NEW x \in Device, Info(x), UNCHANGED <<coreAudio, wasapi, daemon>>
  PROVE  LatencyInv'
<1>1. /\ platform' = platform /\ device' = device /\ queue' = queue /\ lost' = lost
      /\ metrics' = metrics /\ latency' = latency /\ news' = news \ {x} /\ outgoing = <<>>
      /\ lastLat' = [lastLat EXCEPT ![x] = latency[x]]
      /\ outgoing' = LatencyEvents(x) \o [i \in 1..NewXruns(x) |-> Xrun(x)]
  BY DEF Info, Announce, CallbackIdle, machine, daemon
<1>2. /\ lastLat \in [Device -> Level \cup {Unheard}] /\ latency \in [Device -> Level]
  BY DEF LatencyInv, TypeOK, NodeInfoOK
<1>3. lastLat'[x] = latency[x] /\ \A d \in Device \ {x} : lastLat'[d] = lastLat[d]
  BY <1>1, <1>2
<1>4. /\ LatencyEvents(x) \in Seq(BackendEvent) /\ NewXruns(x) \in Nat
      /\ [i \in 1..NewXruns(x) |-> Xrun(x)] \in Seq(BackendEvent)
  BY InfoType DEF LatencyInv, TypeOK
<1>i. Informs(outgoing', x, latency[x], NewXruns(x), lastLat[x] # latency[x])
  BY <1>1, InfoEvents DEF LatencyInv, TypeOK
<1>5. \A k \in DOMAIN outgoing' : \A d, ms :
        IsSample(outgoing'[k], d, ms) => d = x /\ ms = latency[x]
  <2> SUFFICES ASSUME NEW k \in DOMAIN outgoing', NEW d, NEW ms, IsSample(outgoing'[k], d, ms)
               PROVE  d = x /\ ms = latency[x]
    OBVIOUS
  <2>1. outgoing'[k] = Sample(x, latency[x]) \/ outgoing'[k] = Xrun(x)
    BY <1>i DEF Informs
  <2>2. /\ ~IsSample(Xrun(x), d, ms)
        /\ \A l : IsSample(Sample(x, l), d, ms) <=> x = d /\ l = ms
    BY SampleMeaning
  <2> QED
    BY <2>1, <2>2
<1>6. lastLat[x] # latency[x] => \E k \in DOMAIN outgoing' : IsSample(outgoing'[k], x, latency[x])
  <2> SUFFICES ASSUME lastLat[x] # latency[x]
               PROVE  \E k \in DOMAIN outgoing' : IsSample(outgoing'[k], x, latency[x])
    OBVIOUS
  <2>1. 1 \in DOMAIN outgoing' /\ outgoing'[1] = Sample(x, latency[x])
    BY <1>i DEF Informs
  <2>2. \A l : IsSample(Sample(x, l), x, l)
    BY SampleMeaning
  <2> QED
    BY <2>1, <2>2
<1>7. ASSUME platform = "linux", NEW d \in Device, lastLat'[d] # Unheard, Knows("LatencySample", d)'
      PROVE  Reported(d)'
  <2>1. Knows("LatencySample", d)
    BY <1>1, <1>7 DEF Knows
  <2>2. CASE d = x /\ lastLat[x] # latency[x]
    BY <1>3, <1>6, <2>2 DEF Reported
  <2>3. CASE d # x \/ lastLat[x] = latency[x]
    <3>1. lastLat'[d] = lastLat[d]
      BY <1>3, <2>3
    <3>2. Reported(d)
      BY <1>7, <2>1, <3>1 DEF LatencyInv
    <3> QED
      BY <1>1, <3>1, <3>2 DEF Reported
  <2> QED
    BY <2>2, <2>3
<1>8. \A k \in DOMAIN outgoing', d \in Device, ms \in Level :
        IsSample(outgoing'[k], d, ms) => lastLat'[d] = ms
  BY <1>3, <1>5
<1>9. platform = "linux" => \A d \in Active' \ news' : lastLat'[d] = latency'[d]
  BY <1>1, <1>3 DEF LatencyInv, Active
<1> QED
  BY <1>1, <1>7, <1>8, <1>9 DEF LatencyInv

LEMMA LatencyBroadcastNext ==
  ASSUME LatencyInv, TypeOK', BroadcastNext,
         UNCHANGED <<coreAudio, wasapi, nodeInfo, volume, rest>>
  PROVE  LatencyInv'
<1>n. PICK ev : ev = Head(outgoing)
  OBVIOUS
<1>t. PICK taken \in BOOLEAN : taken = (sink = "open" /\ Room)
  OBVIOUS
<1>1. /\ platform' = platform /\ device' = device /\ outgoing # <<>> /\ outgoing' = Tail(outgoing)
      /\ metrics' = metrics /\ latency' = latency /\ news' = news /\ lastLat' = lastLat
      /\ queue' = IF taken THEN Append(queue, ev) ELSE queue
      /\ lost' = IF taken THEN lost \ Learned(ev) ELSE lost \cup {<<Topic(ev), ev.dev>>}
  BY <1>n, <1>t DEF BroadcastNext, machine, nodeInfo, rest
<1>2. queue \in Seq(BackendEvent) /\ outgoing \in Seq(BackendEvent)
  BY DEF LatencyInv, TypeOK, DevicesOK
<1>3. /\ ev \in BackendEvent /\ 1 \in DOMAIN outgoing /\ ev = outgoing[1]
      /\ \A k \in DOMAIN outgoing' : k + 1 \in DOMAIN outgoing /\ outgoing'[k] = outgoing[k + 1]
      /\ \A k \in DOMAIN outgoing :
           outgoing[k] = ev \/ (k - 1 \in DOMAIN outgoing' /\ outgoing'[k - 1] = outgoing[k])
  BY <1>n, <1>1, <1>2, TailPlaces
<1>4. \A k \in DOMAIN queue : k \in DOMAIN queue' /\ queue'[k] = queue[k]
  BY <1>1, <1>2, <1>3, AppendPlaces
<1>5. taken => \E k \in DOMAIN queue' : queue'[k] = ev
  BY <1>1, <1>2, <1>3, AppendPlaces
<1>6. ASSUME platform = "linux", NEW d \in Device, lastLat'[d] # Unheard, Knows("LatencySample", d)'
      PROVE  Reported(d)'
  <2>1. CASE ev.type = "LatencySample" /\ ev.dev = d
    <3>1. taken
      BY <1>1, <1>6, <2>1 DEF Knows, Topic
    <3>2. IsSample(ev, d, ev.ms) /\ ev.ms \in Level
      BY <1>3, <2>1, SampleTyped
    <3>3. lastLat[d] = ev.ms
      BY <1>3, <1>6, <3>2 DEF LatencyInv
    <3> QED
      BY <1>1, <1>5, <3>1, <3>2, <3>3 DEF Reported
  <2>2. CASE ~(ev.type = "LatencySample" /\ ev.dev = d)
    <3>1. Knows("LatencySample", d)
      <4>1. <<"LatencySample", d>> \notin Learned(ev)
        BY <2>2 DEF Learned
      <4> QED
        BY <1>1, <1>6, <4>1 DEF Knows
    <3>2. Reported(d)
      BY <1>1, <1>6, <3>1 DEF LatencyInv
    <3>3. \A ms : ~IsSample(ev, d, ms)
      BY <2>2 DEF IsSample
    <3> QED
      BY <1>1, <1>3, <1>4, <3>2, <3>3 DEF Reported
  <2> QED
    BY <2>1, <2>2
<1>7. platform = "linux" =>
        \A k \in DOMAIN outgoing', d \in Device, ms \in Level :
          IsSample(outgoing'[k], d, ms) => lastLat'[d] = ms
  BY <1>1, <1>3 DEF LatencyInv
<1>8. platform = "linux" => \A d \in Active' \ news' : lastLat'[d] = latency'[d]
  BY <1>1 DEF LatencyInv, Active
<1> QED
  BY <1>1, <1>6, <1>7, <1>8 DEF LatencyInv

LEMMA LatencyPumpEvent ==
  ASSUME LatencyInv, TypeOK', PumpEvent
  PROVE  LatencyInv'
<1>n. PICK ev : ev = Head(queue)
  OBVIOUS
<1>1. /\ platform' = platform /\ device' = device /\ outgoing' = outgoing /\ lost' = lost
      /\ latency' = latency /\ news' = news /\ lastLat' = lastLat
      /\ queue # <<>> /\ queue' = Tail(queue)
      /\ metrics' = IF ev.type = "LatencySample" THEN RecordLatency(metrics, ev.dev, ev.ms)
                    ELSE metrics
  BY <1>n DEF PumpEvent, machine, nodeInfo
<1>2. queue \in Seq(BackendEvent) /\ metrics \in [Device -> [Level -> Nat]]
      /\ lastLat \in [Device -> Level \cup {Unheard}]
  BY DEF LatencyInv, TypeOK, DevicesOK, DaemonOK, NodeInfoOK
<1>3. /\ ev \in BackendEvent
      /\ \A k \in DOMAIN queue :
           queue[k] = ev \/ (k - 1 \in DOMAIN queue' /\ queue'[k - 1] = queue[k])
  BY <1>n, <1>1, <1>2, TailPlaces
<1>4. ASSUME NEW d \in Device, NEW ms \in Level
      PROVE  /\ IsSample(ev, d, ms) => metrics'[d][ms] > 0
             /\ metrics[d][ms] > 0 => metrics'[d][ms] > 0
  <2>1. CASE ev.type = "LatencySample"
    <3>1. ev.dev \in Device /\ ev.ms \in Level
      BY <1>3, <2>1, SampleTyped
    <3>2. metrics'[d][ms] = IF d = ev.dev /\ ms = ev.ms THEN metrics[d][ms] + 1 ELSE metrics[d][ms]
      BY <1>1, <1>2, <2>1, <3>1 DEF RecordLatency
    <3>3. metrics[d][ms] \in Nat
      BY <1>2
    <3> QED
      BY <3>2, <3>3 DEF IsSample
  <2>2. CASE ev.type # "LatencySample"
    BY <1>1, <2>2 DEF IsSample
  <2> QED
    BY <2>1, <2>2
<1>5. ASSUME platform = "linux", NEW d \in Device, lastLat'[d] # Unheard, Knows("LatencySample", d)'
      PROVE  Reported(d)'
  <2>1. Reported(d) /\ lastLat[d] \in Level
    BY <1>1, <1>2, <1>5 DEF LatencyInv, Knows
  <2>2. CASE \E k \in DOMAIN queue : IsSample(queue[k], d, lastLat[d])
    BY <1>1, <1>3, <1>4, <2>1, <2>2 DEF Reported
  <2>3. CASE metrics[d][lastLat[d]] > 0
    BY <1>1, <1>4, <2>1, <2>3 DEF Reported
  <2>4. CASE \E k \in DOMAIN outgoing : IsSample(outgoing[k], d, lastLat[d])
    BY <1>1, <2>4 DEF Reported
  <2> QED
    BY <2>1, <2>2, <2>3, <2>4 DEF Reported
<1> QED
  BY <1>1, <1>5 DEF LatencyInv, Active

LEMMA LatencyStep ==
  ASSUME LatencyInv, [Next]_vars
  PROVE  LatencyInv'
<1>0. TypeOK'
  BY TypeStep DEF LatencyInv
<1>1. CASE Hardware
  <2>1. ASSUME NEW d \in Device, HalChange(d) \/ EndpointChange(d)
        PROVE  LatencyInv'
    <3>1. platform' = platform /\ platform # "linux"
      BY <2>1 DEF HalChange, EndpointChange, Becomes
    <3> QED
      BY <1>0, <3>1, LatencyFrame
  <2>2. ASSUME NEW d \in Device, NodeGlobal(d) \/ NodeGone(d) \/ PropertyChange(d), UNCHANGED rest
        PROVE  LatencyInv'
    <3>1. /\ platform' = platform
          /\ UNCHANGED <<queue, metrics, lastLat, lost>>
          /\ news' = news \cup {d} \/ (device'[d] = "gone" /\ news' = news \ {d})
          /\ \A x \in Device \ {d} : device'[x] = device[x] /\ latency'[x] = latency[x]
          /\ \/ outgoing' = outgoing
             \/ outgoing = <<>> /\ outgoing' \in {<<Appeared(d)>>, <<Removed(d)>>}
      BY <2>2 DEF NodeGlobal, NodeGone, PropertyChange, Becomes, Announce, CallbackIdle, channel,
                  rest, LatencyInv, TypeOK, DevicesOK, NodeInfoOK
    <3>2. outgoing' \in {<<Appeared(d)>>, <<Removed(d)>>} =>
            \A k \in DOMAIN outgoing' : \A x, ms : ~IsSample(outgoing'[k], x, ms)
      BY SampleMeaning
    <3>3. \A x \in Active' \ news' : x \in Active \ news /\ latency'[x] = latency[x]
      BY <3>1 DEF Active
    <3> QED
      BY <1>0, <3>1, <3>2, <3>3, LatencyFrame DEF Knows
  <2> QED
    BY <1>1, <2>1, <2>2 DEF Hardware
<1>2. CASE Callbacks
  <2>1. ASSUME DevicesChanged \/ Callback
        PROVE  LatencyInv'
    <3>1. platform' = platform /\ platform # "linux"
      BY <2>1 DEF DevicesChanged, HalDevices, Fault, Callback, machine
    <3> QED
      BY <1>0, <3>1, LatencyFrame
  <2> QED
    BY <1>0, <1>2, <2>1, LatencyInfo, LatencyBroadcastNext DEF Callbacks
<1>3. CASE Startup
  <2>1. /\ platform' = platform /\ device' = device
        /\ UNCHANGED <<queue, outgoing, metrics, lastLat, latency, news>>
    BY <1>3 DEF Startup, ReadInitial, AddListener, Register, StartLoop, EnumerateNodes,
                StartEventPump, LoadRules, SubscribeDevices, Listed, HalDevices, Fault, machine,
                channel, daemon, nodeInfo
  <2>2. \A d \in Device : Knows("LatencySample", d)' => Knows("LatencySample", d)
    BY <1>3 DEF Startup, ReadInitial, AddListener, Register, StartLoop, EnumerateNodes,
                StartEventPump, LoadRules, SubscribeDevices, channel, Knows
  <2> QED
    BY <1>0, <2>1, <2>2, LatencyFrame DEF Active
<1>4. CASE \/ \E d \in Device, v \in Asked : ClientVolume(d, v)
           \/ \E t \in tasks : RunTask(t)
           \/ UNCHANGED vars
  <2>1. UNCHANGED <<platform, device, queue, outgoing, lost, metrics, lastLat, latency, news>>
    BY <1>4 DEF ClientVolume, RunTask, vars, machine, channel, nodeInfo, daemon
  <2> QED
    BY <1>0, <2>1, LatencyFrame DEF Active, Knows
<1> QED
  BY <1>0, <1>1, <1>2, <1>3, <1>4, LatencyPumpEvent DEF Next

LEMMA LatencyInit == Init => LatencyInv
<1> SUFFICES ASSUME Init PROVE LatencyInv
  OBVIOUS
<1>1. outgoing = <<>> /\ \A d \in Device : lastLat[d] = Unheard
  BY DEF Init, DevicesInit, NodeInfoInit
<1>2. platform = "linux" => Active = {}
  BY DEF Init, DevicesInit, Active
<1> QED
  BY <1>1, <1>2, TypeInit DEF LatencyInv

LEMMA LatencyInvariant == Spec => []LatencyInv
BY LatencyInit, LatencyStep, PTL DEF Spec

\* The latency a node advertises reaches the samples, although the listener
\* reports changes only and its record outlives the node.
THEOREM LatencyIsRecorded == Spec => []LatencyRecorded
<1>1. ASSUME LatencyInv PROVE LatencyRecorded
  <2> SUFFICES ASSUME CaughtUp, platform = "linux", NEW d \in Active, Knows("LatencySample", d)
               PROVE  metrics[d][latency[d]] > 0
    BY DEF LatencyRecorded
  <2>1. d \in Device /\ latency[d] \in Level /\ Level \subseteq Nat
    BY <1>1 DEF Active, LatencyInv, TypeOK, NodeInfoOK, Level
  <2>2. lastLat[d] = latency[d]
    BY <1>1 DEF LatencyInv, CaughtUp
  <2>3. lastLat[d] # Unheard
    BY <2>1, <2>2, NodeInfoAssumption
  <2>4. Reported(d)
    BY <1>1, <2>1, <2>3 DEF LatencyInv
  <2> QED
    BY <2>2, <2>4 DEF Reported, CaughtUp
<1> QED
  BY <1>1, LatencyInvariant, PTL


-----------------------------------------------------------------------------
(***************************************************************************)
(* Sums of counts, which GetMetrics reports as the total.                  *)
(***************************************************************************)
Total(c, D) == MapThenSumSet(LAMBDA d : c[d], D)

Chosen(s) == CHOOSE x \in s : TRUE

\* What the fold over the subsets of D is to satisfy.
Summed(c, D, it) ==
  it = [s \in SUBSET D |-> IF s = {} THEN 0 ELSE c[Chosen(s)] + it[s \ {Chosen(s)}]]

\* The same for the sets of at most n members.
SummedUpTo(c, D, n) ==
  \E h \in [SUBSET D -> Int] : \A s \in SUBSET D :
    Cardinality(s) <= n => h[s] = IF s = {} THEN 0 ELSE c[Chosen(s)] + h[s \ {Chosen(s)}]

LEMMA ChosenFacts ==
  ASSUME NEW D, IsFiniteSet(D), NEW s \in SUBSET D, s # {}
  PROVE  /\ Chosen(s) \in s /\ s \ {Chosen(s)} \in SUBSET D
         /\ Cardinality(s) \in Nat
         /\ Cardinality(s \ {Chosen(s)}) = Cardinality(s) - 1
<1>1. Chosen(s) \in s
  BY DEF Chosen
<1>2. IsFiniteSet(s)
  BY FS_Subset
<1> QED
  BY <1>1, <1>2, FS_CardinalityType, FS_RemoveElement

LEMMA SumNext ==
  ASSUME NEW D, IsFiniteSet(D), NEW c \in [D -> Nat], NEW n \in Nat, SummedUpTo(c, D, n)
  PROVE  SummedUpTo(c, D, n + 1)
<1>1. PICK h \in [SUBSET D -> Int] : \A s \in SUBSET D :
        Cardinality(s) <= n => h[s] = IF s = {} THEN 0 ELSE c[Chosen(s)] + h[s \ {Chosen(s)}]
  BY DEF SummedUpTo
<1> DEFINE Value(s) == IF s = {} THEN 0 ELSE c[Chosen(s)] + h[s \ {Chosen(s)}]
           g == [s \in SUBSET D |-> IF Cardinality(s) <= n THEN h[s] ELSE Value(s)]
<1>2. \A s \in SUBSET D : Value(s) \in Int
  <2> SUFFICES ASSUME NEW s \in SUBSET D, s # {}
               PROVE  c[Chosen(s)] + h[s \ {Chosen(s)}] \in Int
    OBVIOUS
  <2>1. Chosen(s) \in D /\ s \ {Chosen(s)} \in SUBSET D
    BY ChosenFacts
  <2>2. c[Chosen(s)] \in Int /\ h[s \ {Chosen(s)}] \in Int
    BY <2>1
  <2> QED
    BY <2>2
<1>3. g \in [SUBSET D -> Int]
  BY <1>2
<1>4. \A s \in SUBSET D : g[s] = Value(s) \/ Cardinality(s) > n + 1 \/ Cardinality(s) <= n
  OBVIOUS
<1>5. \A s \in SUBSET D : g[s] = Value(s)
  BY <1>1
<1>6. \A s \in SUBSET D : Cardinality(s) <= n => g[s] = h[s]
  OBVIOUS
<1> HIDE DEF g
<1>7. ASSUME NEW s \in SUBSET D, Cardinality(s) <= n + 1, s # {}
      PROVE  g[s] = c[Chosen(s)] + g[s \ {Chosen(s)}]
  <2>1. s \ {Chosen(s)} \in SUBSET D /\ Cardinality(s \ {Chosen(s)}) <= n
    BY <1>7, ChosenFacts
  <2>2. g[s \ {Chosen(s)}] = h[s \ {Chosen(s)}]
    BY <1>6, <2>1
  <2> QED
    BY <1>5, <1>7, <2>2
<1>8. {} \in SUBSET D /\ g[{}] = 0
  BY <1>5
<1> QED
  BY <1>3, <1>7, <1>8 DEF SummedUpTo

\* The sums of c over the subsets of D.
Totals(c, D, it) ==
  /\ it \in [SUBSET D -> Nat]
  /\ Total(c, D) = it[D]
  /\ it[{}] = 0
  /\ \A s \in SUBSET D : s # {} => it[s] = c[Chosen(s)] + it[s \ {Chosen(s)}]

\* The fold exists, and its values are numbers.
LEMMA SumFacts ==
  ASSUME NEW D, IsFiniteSet(D), NEW c \in [D -> Nat]
  PROVE  \E it : Totals(c, D, it)
<1> DEFINE m == Cardinality(D)
<1>1. m \in Nat /\ \A s \in SUBSET D : Cardinality(s) <= m
  BY FS_CardinalityType, FS_Subset
<1>2. SummedUpTo(c, D, 0)
  <2> DEFINE h == [s \in SUBSET D |-> 0]
  <2>1. h \in [SUBSET D -> Int]
    OBVIOUS
  <2>2. ASSUME NEW s \in SUBSET D, Cardinality(s) <= 0 PROVE s = {}
    <3>1. Cardinality(s) = 0
      BY <2>2, FS_Subset, FS_CardinalityType
    <3> QED
      BY <3>1, FS_Subset, FS_EmptySet
  <2> QED
    BY <2>1, <2>2 DEF SummedUpTo
<1>3. SummedUpTo(c, D, m)
  <2> DEFINE T == {n \in Nat : ~SummedUpTo(c, D, n)}
  <2>1. ASSUME T # {} PROVE FALSE
    <3>1. PICK n \in T : \A k \in T : n <= k
      BY <2>1, LeastNatural
    <3>2. n # 0 /\ n \in Nat
      BY <1>2
    <3>3. n - 1 \in Nat /\ n - 1 \notin T /\ (n - 1) + 1 = n
      BY <3>1, <3>2
    <3>4. SummedUpTo(c, D, n)
      BY <3>3, SumNext
    <3> QED
      BY <3>4
  <2> QED
    BY <1>1, <2>1
<1> HIDE DEF m
<1>4. PICK h \in [SUBSET D -> Int] : \A s \in SUBSET D :
        h[s] = IF s = {} THEN 0 ELSE c[Chosen(s)] + h[s \ {Chosen(s)}]
  BY <1>1, <1>3 DEF SummedUpTo
<1>5. Summed(c, D, h)
  BY <1>4 DEF Summed
<1>6. PICK it : Total(c, D) = it[D] /\ it = CHOOSE f : Summed(c, D, f)
  BY DEF Total, MapThenSumSet, MapThenFoldSet, Summed, Chosen
<1>7. Summed(c, D, it)
  BY <1>5, <1>6
<1>8. /\ DOMAIN it = SUBSET D /\ it = [s \in SUBSET D |-> it[s]]
      /\ it[{}] = 0
      /\ \A s \in SUBSET D : s # {} => it[s] = c[Chosen(s)] + it[s \ {Chosen(s)}]
  BY <1>7 DEF Summed
<1>9. \A s \in SUBSET D : it[s] \in Nat
  <2> DEFINE T == {s \in SUBSET D : it[s] \notin Nat}
  <2>1. ASSUME T # {} PROVE FALSE
    <3>1. /\ T \in SUBSET SUBSET D
          /\ {} \notin T
          /\ \A s \in SUBSET D : s \in T <=> it[s] \notin Nat
      BY <1>8
    <3> HIDE DEF T
    <3>2. PICK X \in T : \A Y \in T : Y \subseteq X => Y = X
      BY <2>1, <3>1, LeastSubset
    <3>3. X # {} /\ X \in SUBSET D
      BY <3>1
    <3>4. Chosen(X) \in X /\ X \ {Chosen(X)} \in SUBSET D
      BY <3>3, ChosenFacts
    <3>5. it[X \ {Chosen(X)}] \in Nat
      BY <3>1, <3>2, <3>4
    <3>6. c[Chosen(X)] \in Nat
      BY <3>3, <3>4
    <3>7. it[X] = c[Chosen(X)] + it[X \ {Chosen(X)}]
      BY <1>8, <3>3
    <3>8. it[X] \in Nat
      BY <3>5, <3>6, <3>7
    <3> QED
      BY <3>1, <3>3, <3>8
  <2> QED
    BY <2>1
<1>10. it \in [SUBSET D -> Nat]
  BY <1>8, <1>9
<1> QED
  BY <1>6, <1>8, <1>10 DEF Totals

LEMMA SumZero ==
  ASSUME NEW D, IsFiniteSet(D)
  PROVE  Total([d \in D |-> 0], D) = 0
<1> DEFINE c == [d \in D |-> 0]
<1>1. c \in [D -> Nat] /\ \A d \in D : c[d] = 0
  OBVIOUS
<1> HIDE DEF c
<1>2. PICK it : Totals(c, D, it)
  BY <1>1, SumFacts
<1> USE DEF Totals
<1> DEFINE T == {s \in SUBSET D : it[s] # 0}
<1>3. ASSUME T # {} PROVE FALSE
  <2>1. /\ T \in SUBSET SUBSET D
        /\ {} \notin T
        /\ \A s \in SUBSET D : s \in T <=> it[s] # 0
    BY <1>2
  <2> HIDE DEF T
  <2>2. PICK X \in T : \A Y \in T : Y \subseteq X => Y = X
    BY <1>3, <2>1, LeastSubset
  <2>3. X # {} /\ X \in SUBSET D
    BY <2>1
  <2>4. Chosen(X) \in X /\ X \ {Chosen(X)} \in SUBSET D
    BY <2>3, ChosenFacts
  <2>5. it[X \ {Chosen(X)}] = 0 /\ c[Chosen(X)] = 0
    BY <1>1, <2>1, <2>2, <2>3, <2>4
  <2> QED
    BY <1>2, <2>1, <2>3, <2>5
<1>4. it[D] = 0
  BY <1>3
<1> QED
  BY <1>2, <1>4 DEF c

\* One more of one is one more in all.
LEMMA SumOneMore ==
  ASSUME NEW D, IsFiniteSet(D), NEW c \in [D -> Nat], NEW d \in D
  PROVE  Total([c EXCEPT ![d] = @ + 1], D) = Total(c, D) + 1
<1> DEFINE b == [c EXCEPT ![d] = @ + 1]
<1>1. b \in [D -> Nat] /\ b[d] = c[d] + 1 /\ \A x \in D : x # d => b[x] = c[x]
  OBVIOUS
<1> HIDE DEF b
<1>2. PICK i : Totals(c, D, i)
  BY SumFacts
<1>3. PICK j : Totals(b, D, j)
  BY <1>1, SumFacts
<1> USE DEF Totals
<1> DEFINE T == {s \in SUBSET D : j[s] # i[s] + IF d \in s THEN 1 ELSE 0}
<1>4. ASSUME T # {} PROVE FALSE
  <2>1. /\ T \in SUBSET SUBSET D
        /\ {} \notin T
        /\ \A s \in SUBSET D : s \in T <=> j[s] # i[s] + IF d \in s THEN 1 ELSE 0
    BY <1>2, <1>3
  <2> HIDE DEF T
  <2>2. PICK X \in T : \A Y \in T : Y \subseteq X => Y = X
    BY <1>4, <2>1, LeastSubset
  <2>3. X # {} /\ X \in SUBSET D
    BY <2>1
  <2>4. PICK x : x = Chosen(X)
    OBVIOUS
  <2>5. x \in X /\ x \in D /\ X \ {x} \in SUBSET D
    BY <2>3, <2>4, ChosenFacts
  <2>6. j[X \ {x}] = i[X \ {x}] + IF d \in X \ {x} THEN 1 ELSE 0
    BY <2>1, <2>2, <2>5
  <2>7. i[X] = c[x] + i[X \ {x}] /\ j[X] = b[x] + j[X \ {x}]
    BY <1>2, <1>3, <2>3, <2>4
  <2>8. c[x] \in Nat /\ b[x] \in Nat /\ i[X \ {x}] \in Nat /\ j[X \ {x}] \in Nat
    BY <1>1, <1>2, <1>3, <2>5
  <2>9. b[x] = c[x] + IF x = d THEN 1 ELSE 0
    BY <1>1, <2>5
  <2>10. j[X] # i[X] + IF d \in X THEN 1 ELSE 0
    BY <2>1, <2>3
  <2>11. CASE x = d
    <3>1. d \in X /\ d \notin X \ {x}
      BY <2>5, <2>11
    <3> QED
      BY <2>6, <2>7, <2>8, <2>9, <2>10, <2>11, <3>1
  <2>12. CASE x # d
    <3>1. d \in X <=> d \in X \ {x}
      BY <2>12
    <3> QED
      BY <2>6, <2>7, <2>8, <2>9, <2>10, <2>12, <3>1
  <2> QED
    BY <2>11, <2>12
<1>5. D \in SUBSET D /\ j[D] = i[D] + 1
  BY <1>4
<1> QED
  BY <1>2, <1>3, <1>5 DEF b



-----------------------------------------------------------------------------
(***************************************************************************)
(* Xruns.  Those a node reported since its first info are the ones counted *)
(* and the ones under way, if none was lost.                               *)
(***************************************************************************)
IsXrun(ev, d) == ev.type = "Xrun" /\ ev.dev = d

XrunsIn(s, d) == Cardinality({k \in DOMAIN s : IsXrun(s[k], d)})

LEMMA XrunPlaces ==
  ASSUME NEW s \in Seq(BackendEvent), NEW d
  PROVE  /\ IsFiniteSet({k \in DOMAIN s : IsXrun(s[k], d)})
         /\ XrunsIn(s, d) \in Nat
<1>1. DOMAIN s = 1..Len(s) /\ Len(s) \in Nat
  BY LenProperties
<1>2. IsFiniteSet(DOMAIN s)
  BY <1>1, FS_Interval
<1>3. {k \in DOMAIN s : IsXrun(s[k], d)} \in SUBSET DOMAIN s
  OBVIOUS
<1>4. IsFiniteSet({k \in DOMAIN s : IsXrun(s[k], d)})
  BY <1>2, <1>3, FS_Subset
<1> QED
  BY <1>4, FS_CardinalityType DEF XrunsIn

LEMMA NoXruns ==
  ASSUME NEW s, NEW d, \A k \in DOMAIN s : ~IsXrun(s[k], d)
  PROVE  XrunsIn(s, d) = 0
<1>1. {k \in DOMAIN s : IsXrun(s[k], d)} = {}
  OBVIOUS
<1> QED
  BY <1>1, FS_EmptySet DEF XrunsIn

LEMMA XrunsAppend ==
  ASSUME NEW s \in Seq(BackendEvent), NEW e \in BackendEvent, NEW d
  PROVE  XrunsIn(Append(s, e), d) = XrunsIn(s, d) + IF IsXrun(e, d) THEN 1 ELSE 0
<1> DEFINE A == {k \in DOMAIN s : IsXrun(s[k], d)}
           B == {k \in DOMAIN Append(s, e) : IsXrun(Append(s, e)[k], d)}
           n == Len(s) + 1
<1>1. IsFiniteSet(A) /\ n \notin A /\ XrunsIn(s, d) \in Nat
  BY XrunPlaces, AppendPlaces
<1>2. IsXrun(e, d) => B = A \cup {n}
  BY AppendPlaces
<1>3. ~IsXrun(e, d) => B = A
  BY AppendPlaces
<1>4. XrunsIn(s, d) = Cardinality(A) /\ XrunsIn(Append(s, e), d) = Cardinality(B)
  BY DEF XrunsIn
<1> HIDE DEF A, B, n
<1>5. Cardinality(A \cup {n}) = Cardinality(A) + 1
  BY <1>1, FS_AddElement
<1>6. CASE IsXrun(e, d)
  <2>1. XrunsIn(Append(s, e), d) = XrunsIn(s, d) + 1
    BY <1>2, <1>4, <1>5, <1>6
  <2> QED
    BY <1>6, <2>1
<1>7. CASE ~IsXrun(e, d)
  <2>1. XrunsIn(Append(s, e), d) = XrunsIn(s, d)
    BY <1>3, <1>4, <1>7
  <2> QED
    BY <1>1, <1>7, <2>1
<1> QED
  BY <1>6, <1>7

LEMMA XrunsTail ==
  ASSUME NEW s \in Seq(BackendEvent), s # <<>>, NEW d
  PROVE  XrunsIn(s, d) = XrunsIn(Tail(s), d) + IF IsXrun(Head(s), d) THEN 1 ELSE 0
<1> DEFINE A == {k \in DOMAIN s : IsXrun(s[k], d)}
           B == {k \in DOMAIN Tail(s) : IsXrun(Tail(s)[k], d)}
           f == [k \in B |-> k + 1]
<1>1. /\ IsFiniteSet(A) /\ IsFiniteSet(B) /\ B \subseteq Nat /\ 1 \notin A \ {1}
      /\ XrunsIn(Tail(s), d) \in Nat
  BY XrunPlaces, TailPlaces
<1>2. /\ \A k \in B : k + 1 \in A \ {1}
      /\ \A k \in A \ {1} : k - 1 \in B /\ (k - 1) + 1 = k
  BY TailPlaces
<1>3. 1 \in A <=> IsXrun(Head(s), d)
  BY TailPlaces
<1>4. XrunsIn(s, d) = Cardinality(A) /\ XrunsIn(Tail(s), d) = Cardinality(B)
  BY DEF XrunsIn
<1> HIDE DEF A, B
<1>5. f \in Bijection(B, A \ {1})
  <2>1. f \in [B -> A \ {1}]
    BY <1>2
  <2>2. \A a, b \in B : f[a] = f[b] => a = b
    BY <1>1
  <2>3. ASSUME NEW t \in A \ {1} PROVE \E k \in B : f[k] = t
    <3>1. t - 1 \in B /\ f[t - 1] = t
      BY <1>2
    <3> QED
      BY <3>1
  <2> HIDE DEF f
  <2> QED
    BY <2>1, <2>2, <2>3 DEF Bijection, Injection, Surjection, IsInjective
<1>6. Cardinality(A \ {1}) = Cardinality(B)
  BY <1>1, <1>5, FS_Bijection DEF ExistsBijection
<1>7. Cardinality(A \ {1}) = IF 1 \in A THEN Cardinality(A) - 1 ELSE Cardinality(A)
  BY <1>1, FS_RemoveElement
<1>8. Cardinality(A) \in Nat
  BY <1>1, FS_CardinalityType
<1> QED
  BY <1>1, <1>3, <1>4, <1>6, <1>7, <1>8

LEMMA XrunsInformed ==
  ASSUME NEW s, NEW x, NEW ms, NEW n \in Nat, NEW new \in BOOLEAN, Informs(s, x, ms, n, new)
  PROVE  XrunsIn(s, x) = n /\ \A d : d # x => XrunsIn(s, d) = 0
<1>1. \A d : IsXrun(Xrun(x), d) <=> d = x
  BY EventFields DEF IsXrun
<1>2. \A d : ~IsXrun(Sample(x, ms), d)
  BY EventFields DEF IsXrun
<1>3. ASSUME NEW d, d # x PROVE XrunsIn(s, d) = 0
  <2>1. \A k \in DOMAIN s : s[k] = Sample(x, ms) \/ s[k] = Xrun(x)
    BY DEF Informs
  <2> QED
    BY <1>1, <1>2, <1>3, <2>1, NoXruns
<1>4. CASE new
  <2>1. {k \in DOMAIN s : IsXrun(s[k], x)} = 2..(1 + n)
    BY <1>1, <1>2, <1>4 DEF Informs
  <2>2. Cardinality(2..(1 + n)) = n
    BY FS_Interval
  <2>3. XrunsIn(s, x) = n
    BY <2>1, <2>2 DEF XrunsIn
  <2> QED
    BY <1>3, <2>3
<1>5. CASE ~new
  <2>1. {k \in DOMAIN s : IsXrun(s[k], x)} = 1..n
    BY <1>1, <1>5 DEF Informs
  <2>2. Cardinality(1..n) = n
    BY FS_Interval
  <2>3. XrunsIn(s, x) = n
    BY <2>1, <2>2 DEF XrunsIn
  <2> QED
    BY <1>3, <2>3
<1> QED
  BY <1>4, <1>5


UnderWay(d) == XrunsIn(queue, d) + XrunsIn(outgoing, d)

Accounted(d) ==
  \/ /\ baseline[d] = Unheard /\ lastXrun[d] = Unheard
     /\ xruns.counts[d] = 0 /\ UnderWay(d) = 0
  \/ /\ baseline[d] # Unheard /\ lastXrun[d] # Unheard
     /\ baseline[d] <= lastXrun[d] /\ lastXrun[d] <= counter[d]
     /\ xruns.counts[d] + UnderWay(d) <= lastXrun[d] - baseline[d]
     /\ Knows("Xrun", d) => xruns.counts[d] + UnderWay(d) = lastXrun[d] - baseline[d]

XrunInv ==
  /\ TypeOK
  /\ platform # "linux" => news = {} /\ \A d \in Device : baseline[d] = Unheard
  /\ platform = "linux" =>
       /\ news \subseteq Active
       /\ \A d \in Device : device[d] = "absent" => lastXrun[d] = Unheard
       /\ \A d \in Active \ (news \cup reused) : lastXrun[d] = counter[d]
       /\ \A d \in Device \ reused : Accounted(d)

LEMMA XrunTypes ==
  ASSUME TypeOK, NEW d \in Device
  PROVE  /\ counter[d] \in Nat
         /\ lastXrun[d] \in Nat \cup {Unheard} /\ baseline[d] \in Nat \cup {Unheard}
         /\ Unheard \notin Nat
         /\ xruns.counts \in [Device -> Nat] /\ xruns.counts[d] \in Nat
         /\ queue \in Seq(BackendEvent) /\ outgoing \in Seq(BackendEvent)
         /\ XrunsIn(queue, d) \in Nat /\ XrunsIn(outgoing, d) \in Nat
<1>1. queue \in Seq(BackendEvent) /\ outgoing \in Seq(BackendEvent)
  BY DEF TypeOK, DevicesOK
<1>2. XrunsIn(queue, d) \in Nat /\ XrunsIn(outgoing, d) \in Nat
  BY <1>1, XrunPlaces
<1> QED
  BY <1>1, <1>2, NodeInfoAssumption DEF TypeOK, DaemonOK, NodeInfoOK

\* The counts do not change while no info is read and no event moves.
LEMMA XrunFrame ==
  ASSUME XrunInv, TypeOK', platform' = platform, UNCHANGED <<lastXrun, baseline>>,
         platform # "linux" => news' = news,
         platform = "linux" =>
           /\ UNCHANGED <<queue, xruns>>
           /\ outgoing' = outgoing
                \/ (outgoing = <<>> /\ \A k \in DOMAIN outgoing' : \A d : ~IsXrun(outgoing'[k], d))
           /\ \A d \in Device : Knows("Xrun", d)' => Knows("Xrun", d)
           /\ news' \subseteq Active'
           /\ reused \subseteq reused'
           /\ \A d \in Device : device'[d] = "absent" => device[d] = "absent"
           /\ \A d \in Active' \ (news' \cup reused') :
                d \in Active \ (news \cup reused) /\ counter'[d] = counter[d]
           /\ \A d \in Device \ reused' : counter[d] <= counter'[d] \/ lastXrun[d] = Unheard
  PROVE  XrunInv'
<1> SUFFICES ASSUME platform = "linux"
             PROVE  XrunInv'
  BY DEF XrunInv
<1>1. ASSUME NEW d \in Device \ reused'
      PROVE  Accounted(d)'
  <2>1. Accounted(d) /\ d \in Device
    BY <1>1 DEF XrunInv
  <2>2. XrunsIn(outgoing, d)' = XrunsIn(outgoing, d)
    <3>1. CASE outgoing' = outgoing
      BY <3>1
    <3>2. CASE outgoing = <<>> /\ \A k \in DOMAIN outgoing' : \A x : ~IsXrun(outgoing'[k], x)
      <4>1. XrunsIn(outgoing, d) = 0
        BY <3>2, NoXruns
      <4>2. PICK s : s = outgoing'
        OBVIOUS
      <4>3. XrunsIn(s, d) = 0
        BY <3>2, <4>2, NoXruns
      <4> QED
        BY <4>1, <4>2, <4>3 DEF XrunsIn
    <3> QED
      BY <3>1, <3>2
  <2>3. UnderWay(d)' = UnderWay(d)
    BY <2>2 DEF UnderWay, XrunsIn
  <2>4. xruns' = xruns /\ lastXrun' = lastXrun /\ baseline' = baseline
    OBVIOUS
  <2>5. Knows("Xrun", d)' => Knows("Xrun", d)
    BY <2>1
  <2>6. lastXrun[d] = Unheard \/ (lastXrun[d] <= counter[d] => lastXrun[d] <= counter'[d])
    <3>1. lastXrun[d] \in Nat \cup {Unheard} /\ counter[d] \in Nat
      BY <2>1, XrunTypes DEF XrunInv
    <3>2. counter'[d] \in Nat
      BY <2>1, NodeInfoAssumption DEF TypeOK, NodeInfoOK
    <3>3. counter[d] <= counter'[d] \/ lastXrun[d] = Unheard
      BY <1>1
    <3> QED
      BY <3>1, <3>2, <3>3
  <2> QED
    BY <2>1, <2>3, <2>4, <2>5, <2>6 DEF Accounted
<1>2. \A d \in Device : device'[d] = "absent" => lastXrun'[d] = Unheard
  BY DEF XrunInv
<1>3. \A d \in Active' \ (news' \cup reused') : lastXrun'[d] = counter'[d]
  BY DEF XrunInv
<1> QED
  BY <1>1, <1>2, <1>3 DEF XrunInv

LEMMA XrunInfo ==
  ASSUME XrunInv, TypeOK', NEW x \in Device, Info(x), UNCHANGED <<coreAudio, wasapi, daemon>>
  PROVE  XrunInv'
<1>1. /\ platform' = platform /\ device' = device /\ queue' = queue /\ lost' = lost
      /\ xruns' = xruns /\ counter' = counter /\ reused' = reused /\ x \in news
      /\ news' = news \ {x} /\ outgoing = <<>>
      /\ lastXrun' = [lastXrun EXCEPT ![x] = IF @ = Unheard \/ counter[x] > @ THEN counter[x]
                                             ELSE @]
      /\ baseline' = [baseline EXCEPT ![x] = IF @ = Unheard THEN counter[x] ELSE @]
      /\ outgoing' = LatencyEvents(x) \o [i \in 1..NewXruns(x) |-> Xrun(x)]
  BY DEF Info, Announce, CallbackIdle, machine, daemon
<1>2. TypeOK /\ NodeInfoOK /\ platform = "linux"
  BY <1>1 DEF XrunInv, TypeOK
<1>3. /\ lastXrun'[x] = (IF lastXrun[x] = Unheard \/ counter[x] > lastXrun[x] THEN counter[x]
                         ELSE lastXrun[x])
      /\ baseline'[x] = IF baseline[x] = Unheard THEN counter[x] ELSE baseline[x]
      /\ \A d \in Device \ {x} : lastXrun'[d] = lastXrun[d] /\ baseline'[d] = baseline[d]
  BY <1>1, <1>2 DEF NodeInfoOK
<1>4. PICK n \in Nat : n = NewXruns(x)
  BY <1>2, InfoType
<1>5. PICK new \in BOOLEAN : new = (lastLat[x] # latency[x])
  OBVIOUS
<1>6. Informs(outgoing', x, latency[x], n, new)
  BY <1>1, <1>2, <1>4, <1>5, InfoEvents
<1>7. PICK s : s = outgoing'
  OBVIOUS
<1>8. XrunsIn(s, x) = n /\ \A d : d # x => XrunsIn(s, d) = 0
  BY <1>6, <1>7, XrunsInformed
<1>9. ASSUME NEW d \in Device
      PROVE  /\ UnderWay(d) = XrunsIn(queue, d)
             /\ UnderWay(d)' = XrunsIn(queue, d) + IF d = x THEN n ELSE 0
             /\ XrunsIn(queue, d) \in Nat
  <2>1. XrunsIn(outgoing, d) = 0
    BY <1>1, NoXruns
  <2>2. XrunsIn(outgoing, d)' = XrunsIn(s, d) /\ XrunsIn(queue, d)' = XrunsIn(queue, d)
    BY <1>1, <1>7 DEF XrunsIn
  <2>3. XrunsIn(queue, d) \in Nat
    BY <1>2, XrunTypes
  <2> QED
    BY <1>8, <2>1, <2>2, <2>3 DEF UnderWay
<1>10. ASSUME NEW d \in Device \ reused'
       PROVE  Accounted(d)'
  <2>1. Accounted(d) /\ d \in Device
    BY <1>1, <1>2, <1>10 DEF XrunInv
  <2>2. Knows("Xrun", d)' <=> Knows("Xrun", d)
    BY <1>1 DEF Knows
  <2>3. /\ counter[d] \in Nat /\ lastXrun[d] \in Nat \cup {Unheard}
        /\ baseline[d] \in Nat \cup {Unheard} /\ Unheard \notin Nat /\ xruns.counts[d] \in Nat
    BY <1>2, <2>1, XrunTypes
  <2>4. CASE d # x
    BY <1>1, <1>3, <1>9, <2>1, <2>2, <2>3, <2>4 DEF Accounted
  <2>5. CASE d = x
    <3>1. CASE baseline[x] = Unheard
      <4>1. /\ lastXrun'[d] = counter[d] /\ baseline'[d] = counter[d]
            /\ n = 0 /\ xruns.counts[d] = 0 /\ UnderWay(d) = 0
        BY <1>3, <1>4, <2>1, <2>5, <3>1 DEF Accounted, NewXruns
      <4>2. UnderWay(d)' = 0
        BY <1>9, <2>5, <4>1
      <4> QED
        BY <1>1, <2>3, <4>1, <4>2 DEF Accounted
    <3>2. CASE baseline[x] # Unheard
      <4>1. /\ lastXrun[d] \in Nat /\ lastXrun[d] <= counter[d] /\ lastXrun'[d] = counter[d]
            /\ baseline'[d] = baseline[d] /\ n = counter[d] - lastXrun[d]
        BY <1>3, <1>4, <2>1, <2>3, <2>5, <3>2 DEF Accounted, NewXruns
      <4>2. /\ baseline[d] \in Nat /\ baseline[d] <= lastXrun[d]
            /\ xruns.counts[d] + UnderWay(d) <= lastXrun[d] - baseline[d]
            /\ Knows("Xrun", d) => xruns.counts[d] + UnderWay(d) = lastXrun[d] - baseline[d]
        BY <2>1, <2>3, <2>5, <3>2 DEF Accounted
      <4>3. UnderWay(d)' = UnderWay(d) + n /\ UnderWay(d) \in Nat
        BY <1>9, <2>5
      <4>4. xruns.counts[d] + UnderWay(d)' <= counter[d] - baseline[d]
        BY <2>3, <4>1, <4>2, <4>3
      <4>5. ASSUME Knows("Xrun", d)'
            PROVE  xruns.counts[d] + UnderWay(d)' = counter[d] - baseline[d]
        <5>1. xruns.counts[d] + UnderWay(d) = lastXrun[d] - baseline[d]
          BY <2>2, <4>2, <4>5
        <5>2. /\ baseline[d] \in Nat /\ lastXrun[d] \in Nat /\ counter[d] \in Nat
              /\ xruns.counts[d] \in Nat
          BY <2>3, <4>1, <4>2
        <5>3. UnderWay(d) = lastXrun[d] - baseline[d] - xruns.counts[d]
          BY <4>3, <5>1, <5>2
        <5>4. UnderWay(d)' = counter[d] - baseline[d] - xruns.counts[d]
          BY <4>1, <4>3, <5>2, <5>3
        <5>5. UnderWay(d)' \in Int
          BY <4>1, <4>3
        <5> QED
          BY <5>2, <5>4, <5>5
      <4>6. baseline'[d] # Unheard /\ lastXrun'[d] # Unheard /\ baseline[d] <= counter[d]
        BY <2>3, <4>1, <4>2
      <4> QED
        BY <1>1, <2>3, <4>1, <4>4, <4>5, <4>6 DEF Accounted
    <3> QED
      BY <3>1, <3>2
  <2> QED
    BY <2>4, <2>5
<1>11. ASSUME NEW d \in Active' \ (news' \cup reused')
       PROVE  lastXrun'[d] = counter'[d]
  <2>1. CASE d = x
    <3>1. Accounted(x)
      BY <1>1, <1>2, <1>11, <2>1 DEF XrunInv
    <3>2. /\ counter[x] \in Nat /\ lastXrun[x] \in Nat \cup {Unheard} /\ Unheard \notin Nat
      BY <1>2, XrunTypes
    <3>3. lastXrun'[x] = counter[x]
      BY <1>3, <3>1, <3>2 DEF Accounted
    <3> QED
      BY <1>1, <2>1, <3>3
  <2>2. CASE d # x
    BY <1>1, <1>2, <1>3, <1>11, <2>2 DEF XrunInv, Active
  <2> QED
    BY <2>1, <2>2
<1>12. \A d \in Device : device'[d] = "absent" => lastXrun'[d] = Unheard
  BY <1>1, <1>2, <1>3 DEF XrunInv, Active
<1>13. news' \subseteq Active'
  BY <1>1, <1>2 DEF XrunInv, Active
<1> QED
  BY <1>1, <1>2, <1>10, <1>11, <1>12, <1>13 DEF XrunInv


LEMMA XrunBroadcastNext ==
  ASSUME XrunInv, TypeOK', BroadcastNext, UNCHANGED <<nodeInfo, rest>>
  PROVE  XrunInv'
<1>n. PICK ev : ev = Head(outgoing)
  OBVIOUS
<1>t. PICK taken \in BOOLEAN : taken = (sink = "open" /\ Room)
  OBVIOUS
<1>1. /\ platform' = platform /\ device' = device /\ outgoing # <<>> /\ outgoing' = Tail(outgoing)
      /\ xruns' = xruns /\ counter' = counter /\ news' = news /\ lastXrun' = lastXrun
      /\ baseline' = baseline /\ reused' = reused
      /\ queue' = IF taken THEN Append(queue, ev) ELSE queue
      /\ lost' = IF taken THEN lost \ Learned(ev) ELSE lost \cup {<<Topic(ev), ev.dev>>}
  BY <1>n, <1>t DEF BroadcastNext, machine, nodeInfo, rest
<1>2. queue \in Seq(BackendEvent) /\ outgoing \in Seq(BackendEvent) /\ TypeOK
  BY DEF XrunInv, TypeOK, DevicesOK
<1>3. ev \in BackendEvent
  BY <1>n, <1>1, <1>2, TailPlaces
<1>4. PICK q, o : q = queue' /\ o = outgoing'
  OBVIOUS
<1>5. ASSUME platform = "linux", NEW d \in Device \ reused'
      PROVE  Accounted(d)'
  <2>1. Accounted(d) /\ d \in Device
    BY <1>1, <1>5 DEF XrunInv
  <2>2. /\ XrunsIn(queue, d) \in Nat /\ XrunsIn(outgoing, d) \in Nat
        /\ counter[d] \in Nat /\ lastXrun[d] \in Nat \cup {Unheard} /\ Unheard \notin Nat
        /\ baseline[d] \in Nat \cup {Unheard} /\ xruns.counts[d] \in Nat
    BY <1>2, <2>1, XrunTypes
  <2>3. XrunsIn(outgoing, d) = XrunsIn(o, d) + IF IsXrun(ev, d) THEN 1 ELSE 0
    BY <1>n, <1>1, <1>2, <1>4, XrunsTail
  <2>4. XrunsIn(q, d) = XrunsIn(queue, d) + IF taken /\ IsXrun(ev, d) THEN 1 ELSE 0
    <3>1. CASE taken
      BY <1>1, <1>2, <1>3, <1>4, <3>1, XrunsAppend
    <3>2. CASE ~taken
      BY <1>1, <1>4, <2>2, <3>2
    <3> QED
      BY <3>1, <3>2
  <2>5. o \in Seq(BackendEvent) /\ XrunsIn(o, d) \in Nat
    BY <1>1, <1>2, <1>4, TailPlaces, XrunPlaces
  <2>6. UnderWay(d)' = XrunsIn(q, d) + XrunsIn(o, d)
    BY <1>4 DEF UnderWay, XrunsIn
  <2>7. UnderWay(d) = XrunsIn(queue, d) + XrunsIn(outgoing, d)
    BY DEF UnderWay
  <2>8. Knows("Xrun", d)' => Knows("Xrun", d)
    <3>1. <<"Xrun", d>> \notin Learned(ev)
      BY DEF Learned
    <3> QED
      BY <1>1, <3>1 DEF Knows
  <2>9. CASE taken \/ ~IsXrun(ev, d)
    <3>1. UnderWay(d)' = UnderWay(d)
      BY <2>2, <2>3, <2>4, <2>5, <2>6, <2>7, <2>9
    <3> QED
      BY <1>1, <2>1, <2>8, <3>1 DEF Accounted
  <2>10. CASE ~taken /\ IsXrun(ev, d)
    <3>1. UnderWay(d) = UnderWay(d)' + 1 /\ UnderWay(d)' \in Nat
      BY <2>2, <2>3, <2>4, <2>5, <2>6, <2>7, <2>10
    <3>2. ~Knows("Xrun", d)'
      BY <1>1, <2>10 DEF Knows, IsXrun, Topic
    <3>3. /\ baseline[d] \in Nat /\ lastXrun[d] \in Nat
          /\ baseline[d] <= lastXrun[d] /\ lastXrun[d] <= counter[d]
          /\ xruns.counts[d] + UnderWay(d) <= lastXrun[d] - baseline[d]
      BY <2>1, <2>2, <3>1 DEF Accounted
    <3>4. xruns.counts[d] + UnderWay(d)' <= lastXrun[d] - baseline[d]
      BY <2>2, <3>1, <3>3
    <3> QED
      BY <1>1, <2>2, <3>2, <3>3, <3>4 DEF Accounted
  <2> QED
    BY <2>9, <2>10
<1>6. platform = "linux" =>
        /\ \A d \in Device : device'[d] = "absent" => lastXrun'[d] = Unheard
        /\ \A d \in Active' \ (news' \cup reused') : lastXrun'[d] = counter'[d]
        /\ news' \subseteq Active'
  BY <1>1 DEF XrunInv, Active
<1>7. platform # "linux" => news' = {} /\ \A d \in Device : baseline'[d] = Unheard
  BY <1>1 DEF XrunInv
<1> QED
  BY <1>1, <1>5, <1>6, <1>7 DEF XrunInv

LEMMA XrunPumpEvent ==
  ASSUME XrunInv, TypeOK', PumpEvent
  PROVE  XrunInv'
<1>n. PICK ev : ev = Head(queue)
  OBVIOUS
<1>1. /\ platform' = platform /\ device' = device /\ outgoing' = outgoing /\ lost' = lost
      /\ counter' = counter /\ news' = news /\ lastXrun' = lastXrun
      /\ baseline' = baseline /\ reused' = reused
      /\ queue # <<>> /\ queue' = Tail(queue)
      /\ xruns' = IF ev.type = "Xrun" THEN RecordXrun(xruns, ev.dev) ELSE xruns
  BY <1>n DEF PumpEvent, machine, nodeInfo
<1>2. queue \in Seq(BackendEvent) /\ TypeOK
  BY DEF XrunInv, TypeOK, DevicesOK
<1>3. ev \in BackendEvent /\ (IsXrun(ev, ev.dev) <=> ev.type = "Xrun")
  BY <1>n, <1>1, <1>2, TailPlaces DEF IsXrun
<1>4. PICK q : q = queue'
  OBVIOUS
<1>5. ASSUME platform = "linux", NEW d \in Device \ reused'
      PROVE  Accounted(d)'
  <2>1. Accounted(d) /\ d \in Device
    BY <1>1, <1>5 DEF XrunInv
  <2>2. /\ XrunsIn(queue, d) \in Nat /\ XrunsIn(outgoing, d) \in Nat
        /\ counter[d] \in Nat /\ lastXrun[d] \in Nat \cup {Unheard} /\ Unheard \notin Nat
        /\ baseline[d] \in Nat \cup {Unheard} /\ xruns.counts[d] \in Nat
        /\ xruns.counts \in [Device -> Nat]
    BY <1>2, <2>1, XrunTypes
  <2>3. XrunsIn(queue, d) = XrunsIn(q, d) + IF IsXrun(ev, d) THEN 1 ELSE 0
    BY <1>n, <1>1, <1>2, <1>4, XrunsTail
  <2>4. q \in Seq(BackendEvent) /\ XrunsIn(q, d) \in Nat
    BY <1>1, <1>2, <1>4, TailPlaces, XrunPlaces
  <2>5. UnderWay(d)' = XrunsIn(q, d) + XrunsIn(outgoing, d)
    BY <1>1, <1>4 DEF UnderWay, XrunsIn
  <2>6. xruns'.counts[d] = xruns.counts[d] + IF IsXrun(ev, d) THEN 1 ELSE 0
    <3>1. CASE ev.type = "Xrun"
      <4>1. xruns'.counts = [xruns.counts EXCEPT ![ev.dev] = @ + 1]
        BY <1>1, <3>1 DEF RecordXrun
      <4>2. IsXrun(ev, d) <=> ev.dev = d
        BY <3>1 DEF IsXrun
      <4> QED
        BY <2>2, <4>1, <4>2
    <3>2. CASE ev.type # "Xrun"
      BY <1>1, <2>2, <3>2 DEF IsXrun
    <3> QED
      BY <3>1, <3>2
  <2>7. UnderWay(d) = XrunsIn(queue, d) + XrunsIn(outgoing, d)
    BY DEF UnderWay
  <2>8. xruns'.counts[d] + UnderWay(d)' = xruns.counts[d] + UnderWay(d)
    BY <2>2, <2>3, <2>4, <2>5, <2>6, <2>7
  <2>9. xruns'.counts[d] \in Nat /\ UnderWay(d)' \in Nat /\ UnderWay(d) \in Nat
    <3>1. xruns'.counts[d] \in Nat
      BY <2>2, <2>6
    <3>2. UnderWay(d)' \in Nat
      BY <2>2, <2>4, <2>5
    <3>3. UnderWay(d) \in Nat
      BY <2>2, <2>7
    <3> QED
      BY <3>1, <3>2, <3>3
  <2>10. xruns.counts[d] = 0 /\ UnderWay(d) = 0 => xruns'.counts[d] = 0 /\ UnderWay(d)' = 0
    BY <2>2, <2>8, <2>9
  <2>11. Knows("Xrun", d)' <=> Knows("Xrun", d)
    BY <1>1 DEF Knows
  <2> QED
    BY <1>1, <2>1, <2>8, <2>10, <2>11 DEF Accounted
<1>6. platform = "linux" =>
        /\ \A d \in Device : device'[d] = "absent" => lastXrun'[d] = Unheard
        /\ \A d \in Active' \ (news' \cup reused') : lastXrun'[d] = counter'[d]
        /\ news' \subseteq Active'
  BY <1>1 DEF XrunInv, Active
<1>7. platform # "linux" => news' = {} /\ \A d \in Device : baseline'[d] = Unheard
  BY <1>1 DEF XrunInv
<1> QED
  BY <1>1, <1>5, <1>6, <1>7 DEF XrunInv


LEMMA XrunStays ==
  ASSUME XrunInv, TypeOK',
         UNCHANGED <<platform, device, queue, outgoing, xruns>>,
         UNCHANGED <<lastXrun, baseline, counter, news, reused>>,
         \A d \in Device : Knows("Xrun", d)' => Knows("Xrun", d)
  PROVE  XrunInv'
<1>1. \A d \in Device : counter[d] <= counter'[d]
  BY DEF XrunInv, TypeOK, NodeInfoOK
<1>2. Active' = Active /\ (platform = "linux" => news' \subseteq Active')
  BY DEF XrunInv, Active
<1> QED
  BY <1>1, <1>2, XrunFrame


LEMMA XrunNode ==
  ASSUME XrunInv, TypeOK', NEW d \in Device, NodeGlobal(d) \/ NodeGone(d) \/ PropertyChange(d),
         UNCHANGED rest
  PROVE  XrunInv'
<1>1. /\ platform' = platform /\ platform = "linux"
      /\ UNCHANGED <<queue, xruns, lastXrun, baseline, lost>>
      /\ \A x \in Device \ {d} : device'[x] = device[x] /\ counter'[x] = counter[x]
      /\ \A x \in Device : counter[x] \in Nat
  BY DEF NodeGlobal, NodeGone, PropertyChange, Becomes, Announce, channel, rest, XrunInv, TypeOK,
         DevicesOK, NodeInfoOK
<1>2. outgoing' = outgoing
        \/ (outgoing = <<>> /\ \A k \in DOMAIN outgoing' : \A x : ~IsXrun(outgoing'[k], x))
  <2>1. outgoing' = outgoing
          \/ (outgoing = <<>> /\ outgoing' \in {<<Appeared(d)>>, <<Removed(d)>>})
    BY DEF NodeGlobal, NodeGone, PropertyChange, Announce, CallbackIdle, channel
  <2>2. \A x : ~IsXrun(Appeared(d), x) /\ ~IsXrun(Removed(d), x)
    BY EventFields DEF IsXrun
  <2> QED
    BY <2>1, <2>2
<1>3. \/ /\ device'[d] = "active" /\ news' = news \cup {d}
         /\ \/ device[d] = "absent" /\ reused' = reused
            \/ device[d] = "gone" /\ reused' = reused \cup {d}
            \/ device[d] = "active" /\ reused' = reused /\ counter[d] <= counter'[d]
      \/ /\ device'[d] = "gone" /\ news' = news \ {d} /\ reused' = reused /\ counter' = counter
  BY <1>1 DEF NodeGlobal, NodeGone, PropertyChange, Becomes, Active, XrunInv, TypeOK, DevicesOK,
              NodeInfoOK
<1>4. news' \subseteq Active' /\ reused \subseteq reused'
  BY <1>1, <1>3 DEF XrunInv, Active
<1>5. \A x \in Device : device'[x] = "absent" => device[x] = "absent"
  BY <1>1, <1>3
<1>6. \A x \in Active' \ (news' \cup reused') :
        x \in Active \ (news \cup reused) /\ counter'[x] = counter[x]
  BY <1>1, <1>3 DEF Active
<1>7. \A x \in Device \ reused' : counter[x] <= counter'[x] \/ lastXrun[x] = Unheard
  BY <1>1, <1>3 DEF XrunInv
<1> QED
  BY <1>1, <1>2, <1>4, <1>5, <1>6, <1>7, XrunFrame DEF Knows

LEMMA XrunStep ==
  ASSUME XrunInv, [Next]_vars
  PROVE  XrunInv'
<1>0. TypeOK'
  BY TypeStep DEF XrunInv
<1>1. CASE Hardware
  <2>1. ASSUME NEW d \in Device, HalChange(d) \/ EndpointChange(d), UNCHANGED nodeInfo
        PROVE  XrunInv'
    <3>1. platform' = platform /\ platform # "linux" /\ UNCHANGED <<lastXrun, baseline, news>>
      BY <2>1 DEF HalChange, EndpointChange, Becomes, nodeInfo
    <3> QED
      BY <1>0, <3>1, XrunFrame
  <2> QED
    BY <1>0, <1>1, <2>1, XrunNode DEF Hardware
<1>2. CASE Callbacks
  <2>1. ASSUME DevicesChanged \/ Callback, UNCHANGED nodeInfo
        PROVE  XrunInv'
    <3>1. platform' = platform /\ platform # "linux" /\ UNCHANGED <<lastXrun, baseline, news>>
      BY <2>1 DEF DevicesChanged, HalDevices, Fault, Callback, machine, nodeInfo
    <3> QED
      BY <1>0, <3>1, XrunFrame
  <2> QED
    BY <1>0, <1>2, <2>1, XrunInfo, XrunBroadcastNext DEF Callbacks
<1>3. CASE Startup
  <2>1. /\ platform' = platform /\ device' = device
        /\ UNCHANGED <<queue, outgoing, xruns, lastXrun, baseline, counter, news, reused>>
    BY <1>3 DEF Startup, ReadInitial, AddListener, Register, StartLoop, EnumerateNodes,
                StartEventPump, LoadRules, SubscribeDevices, Listed, HalDevices, Fault, machine,
                channel, daemon, nodeInfo
  <2>2. \A d \in Device : Knows("Xrun", d)' => Knows("Xrun", d)
    BY <1>3 DEF Startup, ReadInitial, AddListener, Register, StartLoop, EnumerateNodes,
                StartEventPump, LoadRules, SubscribeDevices, channel, Knows
  <2> QED
    BY <1>0, <2>1, <2>2, XrunStays
<1>4. CASE \/ \E d \in Device, v \in Asked : ClientVolume(d, v)
           \/ \E t \in tasks : RunTask(t)
           \/ UNCHANGED vars
  <2>1. /\ UNCHANGED <<platform, device, queue, outgoing, lost, xruns>>
        /\ UNCHANGED <<lastXrun, baseline, counter, news, reused>>
    BY <1>4 DEF ClientVolume, RunTask, vars, machine, channel, nodeInfo, daemon
  <2> QED
    BY <1>0, <2>1, XrunStays DEF Knows
<1> QED
  BY <1>0, <1>1, <1>2, <1>3, <1>4, XrunPumpEvent DEF Next

LEMMA XrunInit == Init => XrunInv
<1> SUFFICES ASSUME Init PROVE XrunInv
  OBVIOUS
<1>1. /\ queue = <<>> /\ outgoing = <<>> /\ news = {}
      /\ \A d \in Device : lastXrun[d] = Unheard /\ baseline[d] = Unheard /\ xruns.counts[d] = 0
  BY DEF Init, DevicesInit, NodeInfoInit
<1>2. \A d : UnderWay(d) = 0
  BY <1>1, NoXruns DEF UnderWay
<1>3. platform = "linux" => Active = {}
  BY DEF Init, DevicesInit, Active
<1> QED
  BY <1>1, <1>2, <1>3, TypeInit DEF XrunInv, Accounted


\* The log: its total is that of the counts, and the ring holds as many of the
\* latest as fit.
LogInv ==
  /\ TypeOK
  /\ xruns.total = Total(xruns.counts, Device)
  /\ Len(xruns.ring) = IF xruns.total <= RingLen THEN xruns.total ELSE RingLen

LEMMA LogPumpEvent ==
  ASSUME LogInv, TypeOK', PumpEvent
  PROVE  LogInv'
<1>n. PICK ev : ev = Head(queue)
  OBVIOUS
<1>1. /\ queue # <<>> /\ queue \in Seq(BackendEvent)
      /\ xruns' = IF ev.type = "Xrun" THEN RecordXrun(xruns, ev.dev) ELSE xruns
  BY <1>n DEF PumpEvent, LogInv, TypeOK, DevicesOK
<1>2. ev.dev \in Device
  BY <1>n, <1>1, TailPlaces, EventCases
<1>3. /\ xruns.counts \in [Device -> Nat] /\ xruns.total \in Nat /\ xruns.ring \in Seq(Device)
      /\ RingLen \in Nat \ {0} /\ IsFiniteSet(Device)
  BY EndpointsAssumption, DeviceAssumption DEF LogInv, TypeOK, DaemonOK
<1>4. CASE ev.type = "Xrun"
  <2>1. /\ xruns'.counts = [xruns.counts EXCEPT ![ev.dev] = @ + 1]
        /\ xruns'.total = xruns.total + 1
        /\ xruns'.ring = Append(IF Len(xruns.ring) = RingLen THEN Tail(xruns.ring)
                                ELSE xruns.ring, ev.dev)
    BY <1>1, <1>4 DEF RecordXrun
  <2>2. Total([xruns.counts EXCEPT ![ev.dev] = @ + 1], Device) = Total(xruns.counts, Device) + 1
    BY <1>2, <1>3, SumOneMore
  <2>3. Len(xruns'.ring) = IF Len(xruns.ring) = RingLen THEN RingLen ELSE Len(xruns.ring) + 1
    <3>1. CASE Len(xruns.ring) = RingLen
      <4>1. Tail(xruns.ring) \in Seq(Device) /\ Len(Tail(xruns.ring)) = RingLen - 1
        BY <1>3, <3>1, HeadTailProperties, EmptySeq
      <4> QED
        BY <1>2, <1>3, <2>1, <3>1, <4>1, AppendProperties
    <3>2. CASE Len(xruns.ring) # RingLen
      BY <1>2, <1>3, <2>1, <3>2, AppendProperties
    <3> QED
      BY <3>1, <3>2
  <2>4. Total(xruns'.counts, Device) = Total(xruns.counts, Device) + 1
    BY <2>1, <2>2
  <2> QED
    BY <1>3, <2>1, <2>3, <2>4 DEF LogInv
<1>5. CASE ev.type # "Xrun"
  <2>1. xruns' = xruns
    BY <1>1, <1>5
  <2> QED
    BY <2>1 DEF LogInv
<1> QED
  BY <1>4, <1>5

LEMMA LogStep ==
  ASSUME LogInv, [Next]_vars
  PROVE  LogInv'
<1>0. TypeOK'
  BY TypeStep DEF LogInv
<1>1. CASE ~PumpEvent
  <2>1. xruns' = xruns
    BY <1>1 DEF Next, Hardware, Callbacks, Startup, EnumerateNodes, StartEventPump, LoadRules,
                ClientVolume, RunTask, vars, daemon, rest
  <2> QED
    BY <1>0, <2>1 DEF LogInv
<1> QED
  BY <1>0, <1>1, LogPumpEvent

LEMMA LogInit == Init => LogInv
<1> SUFFICES ASSUME Init PROVE LogInv
  OBVIOUS
<1>1. xruns.counts = [d \in Device |-> 0] /\ xruns.total = 0 /\ xruns.ring = <<>>
  BY DEF Init
<1>2. Total([d \in Device |-> 0], Device) = 0 /\ RingLen \in Nat
  BY SumZero, DeviceAssumption, EndpointsAssumption
<1>3. Total(xruns.counts, Device) = 0
  BY <1>1, <1>2
<1> QED
  BY <1>1, <1>2, <1>3, TypeInit DEF LogInv

\* Every xrun a node reports is counted once and for its own node, from its
\* first info on; the total is the sum of the counts, and the ring bounded.
THEOREM XrunsAreCounted == Spec => []XrunsCounted
<1>1. ASSUME XrunInv, NEW d \in Active \ reused, baseline[d] # Unheard
      PROVE  xruns.counts[d] <= counter[d] - baseline[d]
  <2>1. platform = "linux" /\ d \in Device /\ Accounted(d) /\ TypeOK
    BY <1>1 DEF XrunInv, Active
  <2>2. /\ counter[d] \in Nat /\ lastXrun[d] \in Nat \cup {Unheard} /\ Unheard \notin Nat
        /\ baseline[d] \in Nat \cup {Unheard} /\ xruns.counts[d] \in Nat
        /\ XrunsIn(queue, d) \in Nat /\ XrunsIn(outgoing, d) \in Nat
    BY <2>1, XrunTypes
  <2>3. UnderWay(d) \in Nat
    BY <2>2 DEF UnderWay
  <2>4. lastXrun[d] \in Nat /\ baseline[d] \in Nat /\ lastXrun[d] <= counter[d]
        /\ xruns.counts[d] + UnderWay(d) <= lastXrun[d] - baseline[d]
    BY <1>1, <2>1, <2>2 DEF Accounted
  <2> QED
    BY <2>2, <2>3, <2>4
<1>2. ASSUME XrunInv, CaughtUp, platform = "linux", NEW d \in Active \ reused, Knows("Xrun", d)
      PROVE  xruns.counts[d] = counter[d] - baseline[d]
  <2>1. d \in Device /\ Accounted(d) /\ lastXrun[d] = counter[d] /\ TypeOK
    BY <1>2 DEF XrunInv, Active, CaughtUp
  <2>2. /\ counter[d] \in Nat /\ Unheard \notin Nat /\ xruns.counts[d] \in Nat
        /\ baseline[d] \in Nat \cup {Unheard}
    BY <2>1, XrunTypes
  <2>3. UnderWay(d) = 0
    BY <1>2, NoXruns DEF UnderWay, CaughtUp
  <2>4. xruns.counts[d] + UnderWay(d) = lastXrun[d] - baseline[d]
    BY <1>2, <2>1, <2>2 DEF Accounted
  <2> QED
    BY <2>1, <2>2, <2>3, <2>4
<1>3. ASSUME LogInv
      PROVE  /\ xruns.total = MapThenSumSet(LAMBDA d : xruns.counts[d], Device)
             /\ Len(xruns.ring) = Min({xruns.total, RingLen})
  <2>1. xruns.total \in Nat /\ RingLen \in Nat
    BY <1>3, EndpointsAssumption DEF LogInv, TypeOK, DaemonOK
  <2>2. Len(xruns.ring) = Min({xruns.total, RingLen})
    <3>1. PICK a \in Nat, b \in Nat : a = xruns.total /\ b = RingLen
      BY <2>1
    <3>2. Min({a, b}) = IF a <= b THEN a ELSE b
      BY <3>1 DEF Min
    <3> QED
      BY <1>3, <3>1, <3>2 DEF LogInv
  <2>3. xruns.total = MapThenSumSet(LAMBDA d : xruns.counts[d], Device)
    BY <1>3 DEF LogInv, Total
  <2> QED
    BY <2>2, <2>3
<1>4. XrunInv /\ LogInv => XrunsCounted
  BY <1>1, <1>2, <1>3 DEF XrunsCounted
<1>5. Spec => []XrunInv
  BY XrunInit, XrunStep, PTL DEF Spec
<1>6. Spec => []LogInv
  BY LogInit, LogStep, PTL DEF Spec
<1> QED
  BY <1>4, <1>5, <1>6, PTL

================================================================================
