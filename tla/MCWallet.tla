------------------------------ MODULE MCWallet -------------------------------
(***************************************************************************)
(* Values for the wallet's runs: the demo subject of MockWallet, and the   *)
(* shipped policy and predicates.                                          *)
(***************************************************************************)
EXTENDS WalletSafety, MCRegistry, TLC

DemoSubject == {"user-123"}
DemoHeld ==
  [s \in DemoSubject |-> {"GOVERNMENT_IDENTITY", "AGE_ATTESTATION", "CONSENT_RECORD"}]

\* Residence is what the demo subject lacks for the policy.
DemoGrants == {"RESIDENCE_CREDENTIAL"}

\* A question that claims can establish, and the policy, which asks for every
\* claim and has a predicate that none establishes.
DemoQuestions == {"identity_verified", "BANK_ACCOUNT_OPENING_V1"}

CallSymmetry == Permutations(Calls)

=============================================================================
