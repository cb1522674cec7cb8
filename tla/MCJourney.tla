------------------------------ MODULE MCJourney ------------------------------
(***************************************************************************)
(* Values for the end-to-end run: one flow of the console and a wallet     *)
(* call of another client, on the two days around the end of February on   *)
(* which a child of the 29th comes of age.                                 *)
(***************************************************************************)
EXTENDS JourneySafety, MCRegistry

CONSTANTS f1, other

Date(y, m, d) == [year |-> y, month |-> m, day |-> d]

MCDateOf == "2008-02-29" :> Date(2008, 2, 29)

Pid(birth, country) ==
  [given_name |-> "Erika", family_name |-> "Mustermann",
   birth_date |-> birth, resident_country |-> country]

\* A subject who comes of age on the second day, one outside the EU, and one
\* whose birth date names no day.
MCPids == {Pid("2008-02-29", "DE"), Pid("2008-02-29", "CH"), Pid("2007-02-29", "DE")}

MCDays == <<Date(2026, 2, 28), Date(2026, 3, 1)>>

EveryWay ==
  {"none", "flipDisclosure", "flipSignature", "dropDisclosure", "splice", "otherHolder",
   "otherAudience", "otherNonce", "noKeyBinding", "jwtOnly", "empty"}

\* The replay and the tampered disclosure of the console, which fails before the
\* credential's term is checked, and a wrong nonce, which fails after.
MCSendable ==
  f1 :> <<{"none", "flipDisclosure", "otherNonce"}, {"none"}>>

MCOthers == {<<other, "issue">>}
MCCalls == {<<f1, "issue">>, <<f1, "present">>} \cup MCOthers

MCSubjects == {"user-123"}
MCHeld == [s \in MCSubjects |-> {}]

MCAsked == {"ADULT_RESIDENT"}

=============================================================================
