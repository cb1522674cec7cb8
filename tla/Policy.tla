------------------------------- MODULE Policy -------------------------------
(***************************************************************************)
(* Deterministic evaluation (policy/mod.rs) and the audit object derived   *)
(* from its report (lib.rs).                                               *)
(***************************************************************************)
EXTENDS Inference

Decisions == {"ALLOW", "DENY", "UNKNOWN", "REPLAY_DETECTED"}

\* The lookup built from an evidence list: the last entry for a type wins.
StateOf(evidence) ==
  [t \in EvidenceTypes |->
     LET at == {i \in DOMAIN evidence : evidence[i].type = t}
     IN IF at = {} THEN "MISSING"
        ELSE evidence[CHOOSE i \in at : \A j \in at : j <= i].state]

AvailableOptions(p, ev) == {t \in Options(p) : ev[t] = "AVAILABLE"}

RefutingOptions(p, ev) == {t \in Options(p) : ev[t] \in {"INVALID", "REVOKED"}}

(***************************************************************************)
(* evaluate_predicate walks the options in privacy order: an available one *)
(* establishes the predicate at once, whatever refuting option was passed  *)
(* on the way; a refuting one counts only when none is available.          *)
(***************************************************************************)
PredicateState(p, ev) ==
  IF p \notin DOMAIN Predicates THEN "UNKNOWN"
  ELSE IF AvailableOptions(p, ev) # {} THEN "TRUE"
  ELSE IF RefutingOptions(p, ev) # {} THEN "FALSE"
  ELSE "UNKNOWN"

\* Broken variant: the first option that says anything is cited.
EvidenceBehindFirst(p, ev) ==
  MostPrivate(p, AvailableOptions(p, ev) \cup RefutingOptions(p, ev))

\* The option an established or refuted predicate rests on.
EvidenceBehind(p, ev) ==
  IF PredicateState(p, ev) = "TRUE" THEN MostPrivate(p, AvailableOptions(p, ev))
  ELSE MostPrivate(p, RefutingOptions(p, ev))

\* Broken variant: the two tests in the other order.
DecideUnknownFirst(states) ==
  IF "UNKNOWN" \in states THEN "UNKNOWN"
  ELSE IF "FALSE" \in states THEN "DENY"
  ELSE "ALLOW"

\* A refuted predicate denies, even beside open ones.
Decide(states) ==
  IF "FALSE" \in states THEN "DENY"
  ELSE IF "UNKNOWN" \notin states THEN "ALLOW"
  ELSE "UNKNOWN"

\* The report on a lookup ev and the entries it was built from.
Report(c, kind, ev, given) ==
  LET preds     == RequiredPredicates(c, kind)
      inState(s) == {p \in preds : PredicateState(p, ev) = s}
      decision  == Decide({PredicateState(p, ev) : p \in preds})
      usedTypes == {EvidenceBehind(p, ev) : p \in inState("TRUE") \cup inState("FALSE")}
  IN [decision  |-> decision,
      satisfied |-> inState("TRUE"),
      missing   |-> inState("UNKNOWN"),
      used      |-> {[type |-> t, state |-> ev[t]] : t \in usedTypes},
      ignored   |-> {e \in given : e.type \notin usedTypes},
      plan      |-> IF decision = "UNKNOWN"
                    THEN BuildPlan(c, kind, inState("TRUE"))
                    ELSE [predicates |-> {}, requiredEvidence |-> {}]]

Evaluate(c, kind, evidence) ==
  Report(c, kind, StateOf(evidence), {evidence[i] : i \in DOMAIN evidence})

\* Broken variant: a predicate not satisfied is labelled UNKNOWN.
BuildAuditTwoLabels(c, kind, report) ==
  [decision   |-> report.decision,
   predicates |-> [p \in RequiredPredicates(c, kind) |->
                     IF p \in report.satisfied THEN "TRUE" ELSE "UNKNOWN"],
   evidenceUsed    |-> report.used,
   evidenceMissing |-> report.plan.requiredEvidence]

\* What the audit record keeps of a report: it re-labels the predicates from
\* the report's two lists, FALSE being whatever is in neither.
BuildAudit(c, kind, report) ==
  [decision   |-> report.decision,
   predicates |-> [p \in RequiredPredicates(c, kind) |->
                     IF p \in report.satisfied THEN "TRUE"
                     ELSE IF p \in report.missing THEN "UNKNOWN" ELSE "FALSE"],
   evidenceUsed    |-> report.used,
   evidenceMissing |-> report.plan.requiredEvidence]

=============================================================================
