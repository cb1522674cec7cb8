---------------------------- MODULE PolicyLemmas ----------------------------
(***************************************************************************)
(* What the policy operators return, for every registry.                   *)
(***************************************************************************)
EXTENDS Policy, WellFoundedInduction, TLAPS

\* Any non-empty set of naturals has a least element.
LEMMA LeastNatural ==
  ASSUME NEW S, S \subseteq Nat, S # {}
  PROVE  \E n \in S : \A m \in S : n <= m
<1> DEFINE R == {ss \in Nat \X Nat : ss[1] < ss[2]}
<1>1. OpToRel(<, Nat) = R
  BY DEF OpToRel
<1>2. IsWellFoundedOn(R, Nat)
  BY <1>1, NatLessThanWellFounded
<1>3. PICK n \in S : \A m \in S : ~(<<m, n>> \in R)
  BY <1>2, WFMin
<1>4. ASSUME NEW m \in S, m < n
      PROVE  FALSE
  <2>1. <<m, n>> \in R
    BY <1>4
  <2>2. QED BY <1>3, <2>1
<1>5. QED BY <1>4

\* The options of a predicate are evidence types, each at a first position.
LEMMA OptionsType ==
  ASSUME NEW p \in DOMAIN Predicates
  PROVE  Options(p) \subseteq EvidenceTypes
BY RegistryAssumption DEF Options

LEMMA FirstPositionType ==
  ASSUME NEW p \in DOMAIN Predicates, NEW t \in Options(p)
  PROVE  FirstPosition(p, t) \in Nat
<1> DEFINE e == Predicates[p].evidence
           S == {i \in DOMAIN e : e[i] = t}
<1>1. e \in Seq(EvidenceTypes)
  BY RegistryAssumption
<1>2. S \subseteq Nat /\ S # {}
  BY <1>1 DEF Options
<1>3. PICK n \in S : \A m \in S : n <= m
  BY <1>2, LeastNatural
<1>4. \A j \in 1..(n - 1) : e[j] # t
  BY <1>1, <1>3
<1>5. \E i \in DOMAIN e : e[i] = t /\ \A j \in 1..(i - 1) : e[j] # t
  BY <1>3, <1>4
<1>6. FirstPosition(p, t) \in DOMAIN e
  BY <1>5 DEF FirstPosition
<1>7. QED BY <1>1, <1>6

LEMMA PrivacyRankType ==
  ASSUME NEW p \in DOMAIN Predicates, NEW t \in Options(p)
  PROVE  PrivacyRank(p, t) \in Nat
BY FirstPositionType DEF PrivacyRank

\* The privacy order picks one of the types it is given, and no other of them
\* comes before it.
LEMMA MostPrivateType ==
  ASSUME NEW p \in DOMAIN Predicates, NEW S, S \subseteq Options(p), S # {}
  PROVE  /\ MostPrivate(p, S) \in S
         /\ \A u \in S : PrivacyRank(p, MostPrivate(p, S)) <= PrivacyRank(p, u)
<1> DEFINE R == {PrivacyRank(p, t) : t \in S}
<1>1. R \subseteq Nat /\ R # {}
  BY PrivacyRankType
<1>2. PICK n \in R : \A m \in R : n <= m
  BY <1>1, LeastNatural
<1>3. \E t \in S : \A u \in S : PrivacyRank(p, t) <= PrivacyRank(p, u)
  BY <1>2
<1>4. QED BY <1>3 DEF MostPrivate

\* The plan of a predicate question or a policy requests evidence types only.
LEMMA BuildPlanType ==
  ASSUME NEW c, NEW kind, NEW established
  PROVE  BuildPlan(c, kind, established).requiredEvidence \subseteq EvidenceTypes
<1> DEFINE open == {p \in RequiredPredicates(c, kind) \ established : p \in DOMAIN Predicates}
<1>1. BuildPlan(c, kind, established).requiredEvidence
        = {MostPrivate(p, Options(p)) : p \in {q \in open : Options(q) # {}}}
  BY DEF BuildPlan
<1>2. ASSUME NEW p \in open, Options(p) # {}
      PROVE  MostPrivate(p, Options(p)) \in EvidenceTypes
  BY <1>2, MostPrivateType, OptionsType
<1>3. QED BY <1>1, <1>2

LEMMA PredicateStateType ==
  ASSUME NEW p, NEW ev
  PROVE  PredicateState(p, ev) \in {"TRUE", "FALSE", "UNKNOWN"}
BY DEF PredicateState

LEMMA DecideType == \A S : Decide(S) \in {"ALLOW", "DENY", "UNKNOWN"}
BY DEF Decide

LEMMA ReportDecision ==
  ASSUME NEW c, NEW kind, NEW ev, NEW given
  PROVE  Report(c, kind, ev, given).decision
           = Decide({PredicateState(p, ev) : p \in RequiredPredicates(c, kind)})
BY DEF Report

\* Evaluation decides one of three ways; a replay is not its business.
LEMMA ReportDecisionType ==
  \A c, kind, ev, given :
    Report(c, kind, ev, given).decision \in {"ALLOW", "DENY", "UNKNOWN"}
<1> TAKE c, kind, ev, given
<1> DEFINE states == {PredicateState(p, ev) : p \in RequiredPredicates(c, kind)}
<1>1. Report(c, kind, ev, given).decision = Decide(states)
  BY ReportDecision
<1> HIDE DEF states
<1>2. Decide(states) \in {"ALLOW", "DENY", "UNKNOWN"}
  BY DecideType
<1>3. QED BY <1>1, <1>2

=============================================================================
