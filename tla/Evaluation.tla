----------------------------- MODULE Evaluation -----------------------------
(***************************************************************************)
(* The decision dialogue of /engine/evaluate: a client asks one canonical  *)
(* question again and again, each time with one more entry in its evidence *)
(* list (a credential obtained, expired, revoked...).  The handler keeps   *)
(* nothing between two calls but the audit record of each.                 *)
(***************************************************************************)
EXTENDS Policy

CONSTANT MaxEntries  \* bound: the longest evidence list a client sends

VARIABLES
  canonical,  \* the question asked in this dialogue
  evidence,   \* the evidence list of the last call
  report,     \* the report that call returned
  audit       \* the audit record it left

vars == <<canonical, evidence, report, audit>>

Entries == [type : EvidenceTypes, state : EvidenceStates]

\* A canonical that nobody has defined (422) and an evaluation time that does
\* not parse (400) are refused before the list is read, and leave no record.
Answer(c, list) ==
  /\ report' = Evaluate(c, KindOf(c), list)
  /\ audit'  = BuildAudit(c, KindOf(c), report')

Init ==
  /\ canonical \in DOMAIN Predicates \cup DOMAIN Policies
  /\ evidence = << >>
  /\ report = Evaluate(canonical, KindOf(canonical), << >>)
  /\ audit = BuildAudit(canonical, KindOf(canonical), report)

AskAgain(entry) ==
  /\ Len(evidence) < MaxEntries
  /\ evidence' = Append(evidence, entry)
  /\ Answer(canonical, evidence')
  /\ UNCHANGED canonical

Next == \E entry \in Entries : AskAgain(entry)

Spec == Init /\ [][Next]_vars

-----------------------------------------------------------------------------

\* A question whose every required predicate can be established at all.
Satisfiable(c) ==
  \A p \in RequiredPredicates(c, KindOf(c)) :
    p \in DOMAIN Predicates /\ Options(p) # {}

DecisionOn(c, ev) ==
  Decide({PredicateState(p, ev) : p \in RequiredPredicates(c, KindOf(c))})

\* The lookup ev with the types of S obtained.
WithAvailable(ev, S) ==
  [t \in EvidenceTypes |-> IF t \in S THEN "AVAILABLE" ELSE ev[t]]

\* The lookup ev with every type outside S left out.
OnlyTypes(ev, S) ==
  [t \in EvidenceTypes |-> IF t \in S THEN ev[t] ELSE "MISSING"]

\* An UNKNOWN answer is actionable (the plan evaluate gets from build_plan):
\* once everything its plan requests is available, whatever else the list
\* holds, the answer is ALLOW.
FollowingThePlanAllows ==
  (report.decision = "UNKNOWN" /\ Satisfiable(canonical)) =>
    DecisionOn(canonical, WithAvailable(StateOf(evidence), report.plan.requiredEvidence))
      = "ALLOW"

\* The evidence an answer cites (policy::evaluate, used and used_types) carries
\* it: with every other type left out, evaluation decides the same.  So a
\* decision can be reproduced from the evidenceUsed its audit record keeps.
CitedEvidenceReproduces ==
  DecisionOn(canonical, OnlyTypes(StateOf(evidence), {u.type : u \in audit.evidenceUsed}))
    = audit.decision

\* The audit (lib.rs, build_audit), whose predicate labels are rebuilt from the
\* report's lists, explains its own decision: the labels decide as the decision says, a
\* predicate labelled TRUE cites available evidence, one labelled FALSE cites
\* refuting evidence and nothing available, and an UNKNOWN one cites neither.
AuditExplainsDecision ==
  /\ Decide({audit.predicates[p] : p \in DOMAIN audit.predicates}) = audit.decision
  /\ \A p \in DOMAIN audit.predicates \cap DOMAIN Predicates :
       LET cited == {u.state : u \in {v \in audit.evidenceUsed : v.type \in Options(p)}}
       IN CASE audit.predicates[p] = "TRUE"    -> "AVAILABLE" \in cited
            [] audit.predicates[p] = "FALSE"   -> cited \cap {"INVALID", "REVOKED"} # {}
                                                  /\ "AVAILABLE" \notin cited
            [] audit.predicates[p] = "UNKNOWN" -> cited = {}

\* From the worst answer to the best.
Standing(d) == CASE d = "DENY" -> 0 [] d = "UNKNOWN" -> 1 [] d = "ALLOW" -> 2

\* Obtaining a credential never hurts (evaluate_predicate stops at the first
\* available option): a call that adds available evidence is
\* answered at least as well as the call before it.
AvailableNeverHurts ==
  [][(\E t \in EvidenceTypes :
        evidence' = Append(evidence, [type |-> t, state |-> "AVAILABLE"]))
     => Standing(report'.decision) >= Standing(report.decision)]_vars

=============================================================================
