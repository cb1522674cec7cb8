-------------------------- MODULE EvaluationProofs --------------------------
(***************************************************************************)
(* The properties of the decision dialogue, for every registry and lists   *)
(* of any length.                                                          *)
(***************************************************************************)
EXTENDS Evaluation, PolicyLemmas

\* The inductive invariant: the last report and audit are those of the list.
Inv ==
  /\ evidence \in Seq(Entries)
  /\ report = Evaluate(canonical, KindOf(canonical), evidence)
  /\ audit = BuildAudit(canonical, KindOf(canonical), report)

\* The dialogue's report and audit always belong to its current list.
THEOREM Invariance == Spec => []Inv
<1>1. Init => Inv
  BY DEF Init, Inv
<1>2. Inv /\ [Next]_vars => Inv'
  <2> SUFFICES ASSUME Inv, [Next]_vars PROVE Inv'
    OBVIOUS
  <2>1. ASSUME NEW entry \in Entries, AskAgain(entry)
        PROVE  Inv'
    BY <2>1 DEF AskAgain, Answer, Inv
  <2>2. CASE UNCHANGED vars
    BY <2>2 DEF vars, Inv
  <2>3. QED BY <2>1, <2>2 DEF Next
<1>3. QED BY <1>1, <1>2, PTL DEF Spec

-----------------------------------------------------------------------------

\* The decision of a report is that of the lookup it was made on.
LEMMA InvDecision ==
  Inv => report.decision = DecisionOn(canonical, StateOf(evidence))
BY ReportDecision DEF Inv, Evaluate, DecisionOn

\* In a lookup where every required predicate is TRUE the decision is ALLOW.
LEMMA AllTrueAllows ==
  ASSUME NEW c, NEW ev,
         \A p \in RequiredPredicates(c, KindOf(c)) : PredicateState(p, ev) = "TRUE"
  PROVE  DecisionOn(c, ev) = "ALLOW"
BY DEF DecisionOn, Decide

\* Lookups that give every required predicate the same state decide the same.
LEMMA SameStatesSameDecision ==
  ASSUME NEW c, NEW ev, NEW fv,
         \A p \in RequiredPredicates(c, KindOf(c)) :
           PredicateState(p, ev) = PredicateState(p, fv)
  PROVE  DecisionOn(c, ev) = DecisionOn(c, fv)
<1>1. {PredicateState(p, ev) : p \in RequiredPredicates(c, KindOf(c))}
        = {PredicateState(p, fv) : p \in RequiredPredicates(c, KindOf(c))}
  OBVIOUS
<1>2. QED BY <1>1 DEF DecisionOn

\* Following the plan of an UNKNOWN answer leads to ALLOW, whatever the
\* registry: every predicate left open gets its preferred option, and those
\* already established keep theirs.
THEOREM PlanLeadsToAllow == Spec => []FollowingThePlanAllows
<1>1. Inv => FollowingThePlanAllows
  <2> SUFFICES ASSUME Inv, report.decision = "UNKNOWN", Satisfiable(canonical)
               PROVE  DecisionOn(canonical,
                        WithAvailable(StateOf(evidence), report.plan.requiredEvidence)) = "ALLOW"
    BY DEF FollowingThePlanAllows
  <2> DEFINE kind == KindOf(canonical)
             ev == StateOf(evidence)
             fv == WithAvailable(ev, report.plan.requiredEvidence)
             established == {q \in RequiredPredicates(canonical, kind) :
                               PredicateState(q, ev) = "TRUE"}
  <2>1. report.plan = BuildPlan(canonical, kind, established)
    BY DEF Inv, Evaluate, Report
  <2>2. ASSUME NEW p \in RequiredPredicates(canonical, kind)
        PROVE  PredicateState(p, fv) = "TRUE"
    <3>1. p \in DOMAIN Predicates /\ Options(p) # {}
      BY DEF Satisfiable
    <3>2. Options(p) \subseteq EvidenceTypes
      BY <3>1, OptionsType
    <3>3. \E t \in Options(p) : fv[t] = "AVAILABLE"
      <4>1. CASE p \in established
        <5>1. PICK t \in Options(p) : ev[t] = "AVAILABLE"
          BY <4>1, <3>1 DEF PredicateState, AvailableOptions
        <5>2. fv[t] = "AVAILABLE"
          BY <5>1, <3>2 DEF WithAvailable
        <5>3. QED BY <5>2
      <4>2. CASE p \notin established
        <5>1. MostPrivate(p, Options(p)) \in report.plan.requiredEvidence
          BY <4>2, <3>1, <2>1 DEF BuildPlan
        <5>2. MostPrivate(p, Options(p)) \in Options(p)
          BY <3>1, MostPrivateType
        <5>3. fv[MostPrivate(p, Options(p))] = "AVAILABLE"
          BY <5>1, <5>2, <3>2 DEF WithAvailable
        <5>4. QED BY <5>2, <5>3
      <4>3. QED BY <4>1, <4>2
    <3>4. QED BY <3>1, <3>3 DEF PredicateState, AvailableOptions
  <2>3. QED BY <2>2, AllTrueAllows
<1>2. QED BY <1>1, Invariance, PTL

\* The entries a report cites: one for each of its TRUE and FALSE predicates,
\* and no other.
LEMMA CitedEntries ==
  ASSUME Inv
  PROVE  LET R  == RequiredPredicates(canonical, KindOf(canonical))
             ev == StateOf(evidence)
         IN /\ \A q \in R : PredicateState(q, ev) # "UNKNOWN" =>
                 [type |-> EvidenceBehind(q, ev), state |-> ev[EvidenceBehind(q, ev)]]
                   \in audit.evidenceUsed
            /\ \A u \in audit.evidenceUsed :
                 \E q \in R : /\ PredicateState(q, ev) # "UNKNOWN"
                              /\ u.type = EvidenceBehind(q, ev) /\ u.state = ev[u.type]
<1> DEFINE R == RequiredPredicates(canonical, KindOf(canonical))
           ev == StateOf(evidence)
           decided == {q \in R : PredicateState(q, ev) = "TRUE"}
                        \cup {q \in R : PredicateState(q, ev) = "FALSE"}
           usedTypes == {EvidenceBehind(q, ev) : q \in decided}
<1>1. audit.evidenceUsed = {[type |-> t, state |-> ev[t]] : t \in usedTypes}
  BY DEF Inv, BuildAudit, Evaluate, Report
<1>2. \A q \in R : PredicateState(q, ev) # "UNKNOWN" <=> q \in decided
  BY PredicateStateType
<1> HIDE DEF ev, R
<1>3. QED BY <1>1, <1>2 DEF ev, R

\* The types a report cites: those its TRUE and FALSE predicates rest on.
LEMMA CitedTypes ==
  ASSUME Inv,
         NEW p \in RequiredPredicates(canonical, KindOf(canonical)),
         PredicateState(p, StateOf(evidence)) # "UNKNOWN"
  PROVE  EvidenceBehind(p, StateOf(evidence)) \in {u.type : u \in audit.evidenceUsed}
<1> DEFINE ev == StateOf(evidence)
           t == EvidenceBehind(p, ev)
           usedTypes == {EvidenceBehind(q, ev) :
             q \in {q \in RequiredPredicates(canonical, KindOf(canonical)) :
                      PredicateState(q, ev) = "TRUE"}
                   \cup {q \in RequiredPredicates(canonical, KindOf(canonical)) :
                      PredicateState(q, ev) = "FALSE"}}
<1>1. audit.evidenceUsed = {[type |-> x, state |-> ev[x]] : x \in usedTypes}
  BY DEF Inv, BuildAudit, Evaluate, Report
<1>2. t \in usedTypes
  BY PredicateStateType
<1>3. [type |-> t, state |-> ev[t]] \in audit.evidenceUsed
  BY <1>1, <1>2
<1>4. QED BY <1>3

\* The cited evidence alone gives every required predicate the state it had.
THEOREM CitedEvidenceSuffices == Spec => []CitedEvidenceReproduces
<1>1. Inv => CitedEvidenceReproduces
  <2> SUFFICES ASSUME Inv PROVE CitedEvidenceReproduces
    OBVIOUS
  <2> DEFINE cited == {u.type : u \in audit.evidenceUsed}
             ev == StateOf(evidence)
             fv == OnlyTypes(ev, cited)
  <2>1. ASSUME NEW p \in RequiredPredicates(canonical, KindOf(canonical))
        PROVE  PredicateState(p, fv) = PredicateState(p, ev)
    <3>1. CASE p \notin DOMAIN Predicates
      BY <3>1 DEF PredicateState
    <3>2. CASE p \in DOMAIN Predicates
      <4>1. Options(p) \subseteq EvidenceTypes
        BY <3>2, OptionsType
      <4>2. \A t \in Options(p) : fv[t] # "MISSING" => fv[t] = ev[t]
        BY <4>1 DEF OnlyTypes
      <4>3. \A t \in Options(p) \cap cited : fv[t] = ev[t]
        BY <4>1 DEF OnlyTypes
      <4>4. CASE PredicateState(p, ev) = "TRUE"
        <5>1. EvidenceBehind(p, ev) \in AvailableOptions(p, ev)
          BY <4>4, <3>2, MostPrivateType DEF EvidenceBehind, PredicateState, AvailableOptions
        <5>2. EvidenceBehind(p, ev) \in cited
          BY <4>4, CitedTypes
        <5>3. EvidenceBehind(p, ev) \in AvailableOptions(p, fv)
          BY <5>1, <5>2, <4>3 DEF AvailableOptions
        <5>4. QED BY <4>4, <5>3, <3>2 DEF PredicateState
      <4>5. CASE PredicateState(p, ev) = "FALSE"
        <5>1. AvailableOptions(p, fv) = {}
          BY <4>5, <4>2, <3>2 DEF PredicateState, AvailableOptions
        <5>2. EvidenceBehind(p, ev) \in RefutingOptions(p, ev)
          BY <4>5, <3>2, MostPrivateType DEF EvidenceBehind, PredicateState, RefutingOptions
        <5>3. EvidenceBehind(p, ev) \in cited
          BY <4>5, CitedTypes
        <5>4. EvidenceBehind(p, ev) \in RefutingOptions(p, fv)
          BY <5>2, <5>3, <4>3 DEF RefutingOptions
        <5>5. QED BY <4>5, <5>1, <5>4, <3>2 DEF PredicateState
      <4>6. CASE PredicateState(p, ev) = "UNKNOWN"
        <5>1. AvailableOptions(p, fv) = {} /\ RefutingOptions(p, fv) = {}
          BY <4>6, <4>2, <3>2 DEF PredicateState, AvailableOptions, RefutingOptions
        <5>2. QED BY <4>6, <5>1, <3>2 DEF PredicateState
      <4>7. QED BY <4>4, <4>5, <4>6, PredicateStateType
    <3>3. QED BY <3>1, <3>2
  <2>2. DecisionOn(canonical, fv) = DecisionOn(canonical, ev)
    BY <2>1, SameStatesSameDecision
  <2>3. audit.decision = report.decision
    BY DEF Inv, BuildAudit
  <2>4. QED BY <2>2, <2>3, InvDecision DEF CitedEvidenceReproduces
<1>2. QED BY <1>1, Invariance, PTL

-----------------------------------------------------------------------------

\* A non-empty set of positions of a list has a last one.
LEMMA LastPosition ==
  ASSUME NEW n \in Nat, NEW S, S \subseteq 1..n, S # {}
  PROVE  \E i \in S : \A j \in S : j <= i
<1> DEFINE R == {n - i : i \in S}
<1>1. R \subseteq Nat /\ R # {}
  <2>1. \A i \in S : n - i \in Nat
    OBVIOUS
  <2>2. PICK i \in S : TRUE
    OBVIOUS
  <2>3. n - i \in R
    BY <2>2
  <2>4. QED BY <2>1, <2>3
<1>2. PICK m \in R : \A k \in R : m <= k
  BY <1>1, LeastNatural
<1>3. PICK i \in S : m = n - i
  OBVIOUS
<1>4. ASSUME NEW j \in S
      PROVE  j <= i
  <2>1. n - j \in R
    OBVIOUS
  <2>2. n - i <= n - j
    BY <1>2, <1>3, <2>1
  <2>3. QED BY <2>2
<1>5. QED BY <1>4

\* An appended entry sets the state of its type and leaves the others alone:
\* the last entry for a type wins.
LEMMA AppendedState ==
  ASSUME NEW list \in Seq(Entries), NEW e \in Entries, NEW t \in EvidenceTypes
  PROVE  StateOf(Append(list, e))[t] = IF t = e.type THEN e.state ELSE StateOf(list)[t]
<1> DEFINE new == Append(list, e)
           n   == Len(list)
           at(l) == {i \in DOMAIN l : l[i].type = t}
           last(S) == CHOOSE i \in S : \A j \in S : j <= i
<1>1. /\ DOMAIN list = 1..n /\ n \in Nat
      /\ DOMAIN new = 1..(n + 1) /\ new[n + 1] = e
      /\ \A i \in 1..n : new[i] = list[i]
  OBVIOUS
<1>2. \A l : StateOf(l)[t] = IF at(l) = {} THEN "MISSING" ELSE l[last(at(l))].state
  BY DEF StateOf
<1>3. CASE t = e.type
  <2>1. n + 1 \in at(new) /\ \A j \in at(new) : j <= n + 1
    BY <1>1, <1>3
  <2>2. at(new) \subseteq Nat
    BY <1>1
  <2>3. last(at(new)) = n + 1
    <3>1. last(at(new)) \in at(new) /\ \A j \in at(new) : j <= last(at(new))
      BY <2>1
    <3>2. n + 1 <= last(at(new)) /\ last(at(new)) <= n + 1
      BY <2>1, <3>1
    <3>3. QED BY <3>1, <3>2, <2>2, <1>1
  <2>4. StateOf(new)[t] = new[n + 1].state
    BY <1>2, <2>1, <2>3
  <2>5. QED BY <2>4, <1>1, <1>3
<1>4. CASE t # e.type
  <2>1. at(new) = at(list)
    BY <1>1, <1>4
  <2>2. CASE at(list) = {}
    BY <1>2, <1>4, <2>1, <2>2
  <2>3. CASE at(list) # {}
    <3>1. last(at(list)) \in at(list)
      BY <1>1, <2>3, LastPosition
    <3>2. new[last(at(list))] = list[last(at(list))]
      BY <1>1, <3>1
    <3>3. StateOf(new)[t] = new[last(at(list))].state
      BY <1>2, <2>1, <2>3
    <3>4. StateOf(list)[t] = list[last(at(list))].state
      BY <1>2, <2>3
    <3>5. QED BY <3>2, <3>3, <3>4, <1>4
  <2>4. QED BY <2>2, <2>3
<1>5. QED BY <1>3, <1>4

\* Making a type available takes no predicate from TRUE, and none to FALSE.
LEMMA AvailableRaisesPredicates ==
  ASSUME NEW p, NEW ev, NEW fv,
         \A t \in EvidenceTypes : fv[t] = ev[t] \/ fv[t] = "AVAILABLE"
  PROVE  /\ PredicateState(p, ev) = "TRUE" => PredicateState(p, fv) = "TRUE"
         /\ PredicateState(p, fv) = "FALSE" => PredicateState(p, ev) = "FALSE"
<1>1. CASE p \notin DOMAIN Predicates
  BY <1>1 DEF PredicateState
<1>2. CASE p \in DOMAIN Predicates
  <2>1. \A t \in Options(p) : fv[t] = ev[t] \/ fv[t] = "AVAILABLE"
    BY <1>2, OptionsType
  <2>2. AvailableOptions(p, ev) \subseteq AvailableOptions(p, fv)
    BY <2>1 DEF AvailableOptions
  <2>3. RefutingOptions(p, fv) \subseteq RefutingOptions(p, ev)
    BY <2>1 DEF RefutingOptions
  <2>4. QED BY <1>2, <2>2, <2>3 DEF PredicateState
<1>3. QED BY <1>1, <1>2

\* So the decision stands at least as well.
LEMMA AvailableRaisesDecision ==
  ASSUME NEW c, NEW ev, NEW fv,
         \A t \in EvidenceTypes : fv[t] = ev[t] \/ fv[t] = "AVAILABLE"
  PROVE  Standing(DecisionOn(c, fv)) >= Standing(DecisionOn(c, ev))
<1> DEFINE R == RequiredPredicates(c, KindOf(c))
<1>1. CASE DecisionOn(c, ev) = "ALLOW"
  <2>1. \A p \in R : PredicateState(p, ev) = "TRUE"
    BY <1>1, PredicateStateType DEF DecisionOn, Decide
  <2>2. \A p \in R : PredicateState(p, fv) = "TRUE"
    BY <2>1, AvailableRaisesPredicates
  <2>3. DecisionOn(c, fv) = "ALLOW"
    BY <2>2, AllTrueAllows
  <2>4. QED BY <1>1, <2>3 DEF Standing
<1>2. CASE DecisionOn(c, ev) = "UNKNOWN"
  <2>1. \A p \in R : PredicateState(p, ev) # "FALSE"
    BY <1>2 DEF DecisionOn, Decide
  <2>2. \A p \in R : PredicateState(p, fv) # "FALSE"
    BY <2>1, AvailableRaisesPredicates
  <2>3. DecisionOn(c, fv) \in {"ALLOW", "UNKNOWN"}
    BY <2>2 DEF DecisionOn, Decide
  <2>4. QED BY <1>2, <2>3 DEF Standing
<1>3. CASE DecisionOn(c, ev) = "DENY"
  <2>1. DecisionOn(c, fv) \in {"ALLOW", "DENY", "UNKNOWN"}
    BY DecideType DEF DecisionOn
  <2>2. QED BY <1>3, <2>1 DEF Standing
<1>4. QED BY <1>1, <1>2, <1>3, DecideType DEF DecisionOn

\* Obtaining a credential never worsens an answer.
THEOREM AvailableNeverWorsens == Spec => AvailableNeverHurts
<1>1. Inv /\ Inv' /\ [Next]_vars =>
        [(\E t \in EvidenceTypes :
            evidence' = Append(evidence, [type |-> t, state |-> "AVAILABLE"]))
         => Standing(report'.decision) >= Standing(report.decision)]_vars
  <2> SUFFICES ASSUME Inv, Inv', Next,
                      NEW t \in EvidenceTypes,
                      evidence' = Append(evidence, [type |-> t, state |-> "AVAILABLE"])
               PROVE  Standing(report'.decision) >= Standing(report.decision)
    OBVIOUS
  <2> DEFINE ev == StateOf(evidence)
             fv == StateOf(Append(evidence, [type |-> t, state |-> "AVAILABLE"]))
  <2>1. canonical' = canonical
    BY DEF Next, AskAgain
  <2>2. evidence \in Seq(Entries) /\ [type |-> t, state |-> "AVAILABLE"] \in Entries
    BY DEF Inv, Entries, EvidenceStates
  <2>3. \A x \in EvidenceTypes : fv[x] = ev[x] \/ fv[x] = "AVAILABLE"
    BY <2>2, AppendedState
  <2>4. Standing(DecisionOn(canonical, fv)) >= Standing(DecisionOn(canonical, ev))
    BY <2>3, AvailableRaisesDecision
  <2>5. report.decision = DecisionOn(canonical, ev)
    BY InvDecision
  <2>6. report'.decision = DecisionOn(canonical, fv)
    BY <2>1, ReportDecision DEF Inv, Evaluate, DecisionOn
  <2>7. QED BY <2>4, <2>5, <2>6
<1>2. QED BY <1>1, Invariance, PTL DEF Spec, AvailableNeverHurts

-----------------------------------------------------------------------------

\* The evidence a predicate rests on is one of its options, and in the state
\* that establishes or refutes it.
LEMMA EvidenceBehindState ==
  ASSUME NEW p, NEW ev, PredicateState(p, ev) # "UNKNOWN"
  PROVE  /\ p \in DOMAIN Predicates /\ EvidenceBehind(p, ev) \in Options(p)
         /\ PredicateState(p, ev) = "TRUE" => ev[EvidenceBehind(p, ev)] = "AVAILABLE"
         /\ PredicateState(p, ev) = "FALSE" =>
              ev[EvidenceBehind(p, ev)] \in {"INVALID", "REVOKED"}
<1>1. p \in DOMAIN Predicates
  BY DEF PredicateState
<1>2. CASE PredicateState(p, ev) = "TRUE"
  <2>1. AvailableOptions(p, ev) # {} /\ AvailableOptions(p, ev) \subseteq Options(p)
    BY <1>1, <1>2 DEF PredicateState, AvailableOptions
  <2>2. EvidenceBehind(p, ev) \in AvailableOptions(p, ev)
    BY <1>1, <1>2, <2>1, MostPrivateType DEF EvidenceBehind
  <2>3. QED BY <1>1, <1>2, <2>2 DEF AvailableOptions
<1>3. CASE PredicateState(p, ev) = "FALSE"
  <2>1. RefutingOptions(p, ev) # {} /\ RefutingOptions(p, ev) \subseteq Options(p)
    BY <1>1, <1>3 DEF PredicateState, RefutingOptions
  <2>2. EvidenceBehind(p, ev) \in RefutingOptions(p, ev)
    BY <1>1, <1>3, <2>1, MostPrivateType DEF EvidenceBehind
  <2>3. QED BY <1>1, <1>3, <2>2 DEF RefutingOptions
<1>4. QED BY <1>2, <1>3, PredicateStateType

\* The labels of the audit record are the states of the predicates.
LEMMA AuditLabels ==
  ASSUME Inv
  PROVE  /\ DOMAIN audit.predicates = RequiredPredicates(canonical, KindOf(canonical))
         /\ \A p \in RequiredPredicates(canonical, KindOf(canonical)) :
              audit.predicates[p] = PredicateState(p, StateOf(evidence))
<1> DEFINE R == RequiredPredicates(canonical, KindOf(canonical))
           ev == StateOf(evidence)
<1>1. /\ report.satisfied = {p \in R : PredicateState(p, ev) = "TRUE"}
      /\ report.missing = {p \in R : PredicateState(p, ev) = "UNKNOWN"}
  BY DEF Inv, Evaluate, Report
<1>2. audit.predicates = [p \in R |-> IF p \in report.satisfied THEN "TRUE"
                                      ELSE IF p \in report.missing THEN "UNKNOWN" ELSE "FALSE"]
  BY DEF Inv, BuildAudit
<1>3. \A p \in R : PredicateState(p, ev) \in {"TRUE", "FALSE", "UNKNOWN"}
  BY PredicateStateType
<1> HIDE DEF R, ev
<1>4. QED BY <1>1, <1>2, <1>3 DEF R, ev

\* An audit record explains its own decision, for every registry and list.
THEOREM AuditIsExplanation == Spec => []AuditExplainsDecision
<1>1. Inv => AuditExplainsDecision
  <2> SUFFICES ASSUME Inv PROVE AuditExplainsDecision
    OBVIOUS
  <2> DEFINE R == RequiredPredicates(canonical, KindOf(canonical))
             ev == StateOf(evidence)
             cited(p) == {u.state : u \in {v \in audit.evidenceUsed : v.type \in Options(p)}}
  <2>1. Decide({audit.predicates[p] : p \in DOMAIN audit.predicates}) = audit.decision
    <3>1. {audit.predicates[p] : p \in DOMAIN audit.predicates} = {PredicateState(p, ev) : p \in R}
      BY AuditLabels
    <3>2. audit.decision = DecisionOn(canonical, ev)
      BY InvDecision DEF Inv, BuildAudit
    <3>3. QED BY <3>1, <3>2 DEF DecisionOn
  <2>2. \A u \in audit.evidenceUsed :
          \E q \in R : /\ PredicateState(q, ev) # "UNKNOWN"
                       /\ u.type = EvidenceBehind(q, ev) /\ u.state = ev[u.type]
    BY CitedEntries
  <2>3. \A q \in R : PredicateState(q, ev) # "UNKNOWN" =>
          [type |-> EvidenceBehind(q, ev), state |-> ev[EvidenceBehind(q, ev)]]
            \in audit.evidenceUsed
    BY CitedEntries
  <2>4. ASSUME NEW p \in R, p \in DOMAIN Predicates
        PROVE  /\ PredicateState(p, ev) = "TRUE" => "AVAILABLE" \in cited(p)
               /\ PredicateState(p, ev) = "FALSE" => /\ cited(p) \cap {"INVALID", "REVOKED"} # {}
                                                     /\ "AVAILABLE" \notin cited(p)
               /\ PredicateState(p, ev) = "UNKNOWN" => cited(p) = {}
    <3>1. ASSUME PredicateState(p, ev) # "UNKNOWN"
          PROVE  ev[EvidenceBehind(p, ev)] \in cited(p)
      <4>1. EvidenceBehind(p, ev) \in Options(p)
        BY <3>1, EvidenceBehindState
      <4> DEFINE u == [type |-> EvidenceBehind(p, ev), state |-> ev[EvidenceBehind(p, ev)]]
      <4>2. u \in {v \in audit.evidenceUsed : v.type \in Options(p)}
        BY <3>1, <4>1, <2>3
      <4>3. u.state \in cited(p)
        BY <4>2
      <4>4. QED BY <4>3
    <3>2. \A s \in cited(p) : \E t \in Options(p) : s = ev[t]
      BY <2>2
    <3>3. "AVAILABLE" \in cited(p) => PredicateState(p, ev) = "TRUE"
      BY <2>4, <3>2 DEF PredicateState, AvailableOptions
    <3>4. CASE PredicateState(p, ev) = "TRUE"
      BY <3>1, <3>4, EvidenceBehindState
    <3>5. CASE PredicateState(p, ev) = "FALSE"
      BY <3>1, <3>3, <3>5, EvidenceBehindState
    <3>6. CASE PredicateState(p, ev) = "UNKNOWN"
      <4>1. ASSUME NEW u \in audit.evidenceUsed, u.type \in Options(p)
            PROVE  FALSE
        <5>1. PICK q \in R : /\ PredicateState(q, ev) # "UNKNOWN"
                             /\ u.type = EvidenceBehind(q, ev)
          BY <2>2
        <5>2. ev[u.type] \in {"AVAILABLE", "INVALID", "REVOKED"}
          BY <5>1, EvidenceBehindState, PredicateStateType
        <5>3. u.type \in AvailableOptions(p, ev) \cup RefutingOptions(p, ev)
          BY <5>2, <4>1 DEF AvailableOptions, RefutingOptions
        <5>4. QED BY <5>3, <3>6, <2>4 DEF PredicateState
      <4>2. QED BY <3>6, <4>1
    <3>7. QED BY <3>4, <3>5, <3>6, PredicateStateType
  <2>5. \A p \in DOMAIN audit.predicates \cap DOMAIN Predicates :
          CASE audit.predicates[p] = "TRUE"    -> "AVAILABLE" \in cited(p)
            [] audit.predicates[p] = "FALSE"   -> cited(p) \cap {"INVALID", "REVOKED"} # {}
                                                  /\ "AVAILABLE" \notin cited(p)
            [] audit.predicates[p] = "UNKNOWN" -> cited(p) = {}
    <3> SUFFICES ASSUME NEW p \in R, p \in DOMAIN Predicates
                 PROVE  CASE audit.predicates[p] = "TRUE"    -> "AVAILABLE" \in cited(p)
                          [] audit.predicates[p] = "FALSE"   ->
                               cited(p) \cap {"INVALID", "REVOKED"} # {} /\ "AVAILABLE" \notin cited(p)
                          [] audit.predicates[p] = "UNKNOWN" -> cited(p) = {}
      BY AuditLabels
    <3>1. audit.predicates[p] = PredicateState(p, ev)
      BY AuditLabels
    <3>2. PredicateState(p, ev) \in {"TRUE", "FALSE", "UNKNOWN"}
      BY PredicateStateType
    <3>3. /\ PredicateState(p, ev) = "TRUE" => "AVAILABLE" \in cited(p)
          /\ PredicateState(p, ev) = "FALSE" => /\ cited(p) \cap {"INVALID", "REVOKED"} # {}
                                                /\ "AVAILABLE" \notin cited(p)
          /\ PredicateState(p, ev) = "UNKNOWN" => cited(p) = {}
      BY <2>4
    <3> HIDE DEF R, ev, cited
    <3>4. CASE PredicateState(p, ev) = "TRUE"
      BY <3>1, <3>3, <3>4
    <3>5. CASE PredicateState(p, ev) = "FALSE"
      BY <3>1, <3>3, <3>5
    <3>6. CASE PredicateState(p, ev) = "UNKNOWN"
      BY <3>1, <3>3, <3>6
    <3>7. QED BY <3>2, <3>4, <3>5, <3>6
  <2>6. QED BY <2>1, <2>5 DEF AuditExplainsDecision
<1>2. QED BY <1>1, Invariance, PTL

=============================================================================
