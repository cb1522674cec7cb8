------------------------------ MODULE MCEngine ------------------------------
(***************************************************************************)
(* Values for the engine's runs.  A presentation is honest or deviates     *)
(* from an honest one in a single respect.                                 *)
(***************************************************************************)
EXTENDS EngineSafety, MCRegistry, TLC

Honest ==
  [form |-> "sdjwt", issuerKey |-> 0, iss |-> TRUE, genuine |-> TRUE,
   claims |-> [birth_date |-> [garbled |-> FALSE, adultFrom |-> 0],
               resident_country |-> [garbled |-> FALSE, eu |-> TRUE]],
   exp |-> 1, holderKey |-> "wallet", kbKey |-> "wallet",
   audience |-> "rp", sdHash |-> TRUE, nonce |-> "unset"]

\* The race: honest, issued after the restart, and with a forged disclosure.
RacePresentations ==
  {Honest, [Honest EXCEPT !.issuerKey = 1, !.exp = 2], [Honest EXCEPT !.genuine = FALSE]}

\* Every way a check can fail, and every value a claim can take.
AllPresentations ==
  {Honest, [Honest EXCEPT !.issuerKey = 1, !.exp = 2]} \cup
  {[Honest EXCEPT !.form = f] : f \in {"absent", "malformed"}} \cup {[Honest EXCEPT !.exp = 0]} \cup
  {[Honest EXCEPT !.iss = FALSE], [Honest EXCEPT !.genuine = FALSE],
   [Honest EXCEPT !.kbKey = "another"], [Honest EXCEPT !.holderKey = "none"],
   [Honest EXCEPT !.audience = "elsewhere"], [Honest EXCEPT !.sdHash = FALSE]} \cup
  {[Honest EXCEPT !.claims.birth_date = b] :
     b \in {[garbled |-> TRUE, adultFrom |-> 0], [garbled |-> FALSE, adultFrom |-> 1]}} \cup
  {[Honest EXCEPT !.claims.resident_country = r] :
     r \in {[garbled |-> TRUE, eu |-> TRUE], [garbled |-> FALSE, eu |-> FALSE]}} \cup
  {[Honest EXCEPT !.claims = c] :
     c \in {<< >>, [family_name |-> "any"], [birth_date |-> Honest.claims.birth_date]}}

\* A minor's credential, presented with the name as well.
MinorWithIdentity ==
  {[Honest EXCEPT !.claims = [family_name |-> "any",
                              birth_date |-> [garbled |-> FALSE, adultFrom |-> 2],
                              resident_country |-> [garbled |-> FALSE, eu |-> TRUE]]]}

\* Calls are interchangeable.
RaceSymmetry == Permutations(Calls)

NothingKnown == [t \in MCEvidenceTypes |-> "MISSING"]
RaceKnown == {NothingKnown}
AllKnown == {NothingKnown, [NothingKnown EXCEPT !["RESIDENCE_CREDENTIAL"] = "AVAILABLE"]}

\* The age question alone.
AgeOnly == [age_over_18 |-> MCPredicates.age_over_18]
NoPolicies == << >>

=============================================================================
