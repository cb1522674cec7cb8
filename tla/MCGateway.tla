----------------------------- MODULE MCGateway ------------------------------
(***************************************************************************)
(* Values for the runs of the API: a registered question, and one that     *)
(* only the model can place.  The model may name a question of the         *)
(* catalogue, a predicate outside it, and something nobody has defined.    *)
(***************************************************************************)
EXTENDS GatewaySafety, MCRegistry, TLC

Registered == [normalized |-> "is this user over 18", trimmed |-> "Is this user over 18?"]
Paraphrase == [normalized |-> "is this customer an adult", trimmed |-> "Is this customer an adult?"]

BothTexts == {Registered, Paraphrase}

\* A question whose canonical has no definition; the loader does not mind.
Undefined == [normalized |-> "may this user fly", trimmed |-> "May this user fly?"]
MoreQuestions ==
  Append(MCQuestions,
    [canonical |-> "pilot_licence", kind |-> "PREDICATE", aliases |-> {Undefined.normalized}])
MoreTexts == BothTexts \cup {Undefined}

Proposal(x, sure) == [canonical |-> x, confidence |-> sure]
TwoProposals == {Proposal("consent_valid", "HIGH"), Proposal("consent_valid", "MEDIUM")}
AnyProposal == TwoProposals \cup {Proposal("pilot_licence", "HIGH")}

\* One verdict of the policy; DENY is also the answer to a failed check.
OneVerdict == {"ALLOW"}

\* Three calls see one restart, of either process; two calls see both.
OneRestart == apiEpoch + engineEpoch <= 1

CallSymmetry == Permutations(Calls) \cup Permutations(Requests)

=============================================================================
