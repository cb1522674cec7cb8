------------------------------ MODULE Registry ------------------------------
(***************************************************************************)
(* The knowledge the engine loads once at start-up (config.rs): which      *)
(* predicates exist and which evidence establishes each of them, which     *)
(* predicates a policy requires, and the registered questions.  The loader *)
(* cross-checks nothing, so a policy may require a predicate that has no   *)
(* definition and a preferred type need not be among the options.          *)
(***************************************************************************)
EXTENDS Naturals, Sequences

CONSTANTS
  EvidenceTypes,  \* names of evidence types
  Predicates,     \* predicate name -> [evidence: Seq(EvidenceTypes), prefer]
  Policies,       \* policy name -> sequence of the predicate names it requires
  Questions       \* sequence of [canonical, kind, aliases], in file order

ASSUME RegistryAssumption ==
  \A p \in DOMAIN Predicates : Predicates[p].evidence \in Seq(EvidenceTypes)

EvidenceStates ==
  {"AVAILABLE", "MISSING", "EXPIRED", "INVALID", "REVOKED", "UNKNOWN"}

Kinds == {"PREDICATE", "POLICY"}

\* A name that is both a policy and a predicate is a policy.
KindOf(c) ==
  IF c \in DOMAIN Policies THEN "POLICY"
  ELSE IF c \in DOMAIN Predicates THEN "PREDICATE"
  ELSE "NONE"

\* The list a refusal carries: canonicals of the registered questions only.
SupportedQuestions == {Questions[i].canonical : i \in DOMAIN Questions}

(***************************************************************************)
(* Tier 1.  A question is what the two comparisons read of the text: its   *)
(* normalised form and its trimmed form.  The first entry that matches on  *)
(* either decides, and the answer carries the entry's own kind.            *)
(***************************************************************************)
Matches(q, question) ==
  question.normalized \in q.aliases \/ question.trimmed = q.canonical

ResolveTier1(question) ==
  {[canonical |-> Questions[i].canonical, kind |-> Questions[i].kind,
    resolvedBy |-> "REGISTRY"] :
     i \in {j \in DOMAIN Questions :
              /\ Matches(Questions[j], question)
              /\ \A k \in 1..(j - 1) : ~Matches(Questions[k], question)}}

\* Broken variant: whatever the model names is a question.
ValidateProposalUnchecked(proposed) ==
  {[canonical |-> proposed, kind |-> "PREDICATE", resolvedBy |-> "LLM_VALIDATED"]}

\* Tier 2: a proposal is accepted when it names any policy or predicate.
ValidateProposal(proposed) ==
  IF KindOf(proposed) = "NONE" THEN {}
  ELSE {[canonical |-> proposed, kind |-> KindOf(proposed),
         resolvedBy |-> "LLM_VALIDATED"]}

\* The resolve handler: the set holds the resolution, and is empty on a 422.
\* `proposal` is the set of proposed canonicals, at most one.
Resolve(question, proposal) ==
  IF ResolveTier1(question) # {} THEN ResolveTier1(question)
  ELSE UNION {ValidateProposal(p) : p \in proposal}

=============================================================================
