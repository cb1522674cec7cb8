------------------------------ MODULE Inference ------------------------------
(***************************************************************************)
(* Reverse inference (inference/mod.rs): from a canonical question to the  *)
(* predicates it requires, and from the predicates not yet established to  *)
(* the evidence to request, the most private option of each.               *)
(***************************************************************************)
EXTENDS Registry

\* Evidence types that can establish predicate p.
Options(p) == {Predicates[p].evidence[i] : i \in DOMAIN Predicates[p].evidence}

(***************************************************************************)
(* The privacy order of a predicate's options: the preferred type first,   *)
(* the others in file order, repetitions dropped.                          *)
(***************************************************************************)
FirstPosition(p, t) ==
  CHOOSE i \in DOMAIN Predicates[p].evidence :
    /\ Predicates[p].evidence[i] = t
    /\ \A j \in 1..(i - 1) : Predicates[p].evidence[j] # t

PrivacyRank(p, t) ==
  IF t = Predicates[p].prefer THEN 0 ELSE FirstPosition(p, t)

\* The first of the types S, all options of p, in privacy order.
MostPrivate(p, S) ==
  CHOOSE t \in S : \A u \in S : PrivacyRank(p, t) <= PrivacyRank(p, u)

RequiredPredicates(c, kind) ==
  IF kind = "PREDICATE" THEN {c}
  ELSE IF c \in DOMAIN Policies THEN {Policies[c][i] : i \in DOMAIN Policies[c]}
  ELSE {}

(***************************************************************************)
(* ev gives every evidence type a state; a type that was not supplied is   *)
(* "MISSING", which no branch of the code tells from an absent entry.      *)
(***************************************************************************)
Established(c, kind, ev) ==
  {p \in RequiredPredicates(c, kind) :
     p \in DOMAIN Predicates /\ \E t \in Options(p) : ev[t] = "AVAILABLE"}

\* Broken variant: the preferred type is requested, listed or not.
BuildPlanPreferred(c, kind, established) ==
  LET open == {p \in RequiredPredicates(c, kind) \ established :
                 p \in DOMAIN Predicates}
  IN [predicates |-> open, requiredEvidence |-> {Predicates[p].prefer : p \in open}]

\* The plan for the predicates not in `established`: predicates without a
\* definition are skipped, those without options request nothing.
BuildPlan(c, kind, established) ==
  LET open == {p \in RequiredPredicates(c, kind) \ established :
                 p \in DOMAIN Predicates}
  IN [predicates |-> open,
      requiredEvidence |->
        {MostPrivate(p, Options(p)) : p \in {q \in open : Options(q) # {}}}]

=============================================================================
