------------------------------- MODULE Journey -------------------------------
(***************************************************************************)
(* The whole way of a presentation, as the flows of the console go it      *)
(* (app.js): wallet, issuer, engine and clock together.  A flow has the    *)
(* credential issued, asks its question, has the wallet present, submits   *)
(* what it got, perhaps altered or more than once, and may read the audit. *)
(* The API passes a submission on and its answer back.  Each step of a     *)
(* flow may find the API or the engine gone; the console's api() then      *)
(* throws, and the flow ends where it is.                                  *)
(*                                                                         *)
(* Time is in ticks, TicksPerDay to a date; the PID is data of the issuer, *)
(* one fixture in the demo.                                                *)
(***************************************************************************)
EXTENDS Wallet, SdJwt

CONSTANTS
  Flows,        \* each asks under a request identifier of its own
  Subject,      \* SUBJECT of the console
  Pids,         \* attributes the issuer may know of it
  Alterations,  \* what a presentation may have undergone, see Altered
  Sendable,     \* flow -> the alterations its n-th submission may have
  Days,         \* the dates of the run, in order
  TicksPerDay,
  Others,       \* wallet calls of other clients about the same subject
  NonceTTL,     \* NONCE_TTL_SECONDS in ticks
  NoChallenge

ASSUME JourneyAssumption ==
  /\ Subject \in Subjects
  /\ Others \cup (Flows \X {"issue", "present"}) \subseteq Calls
  /\ NonceTTL \in Nat /\ TicksPerDay \in Nat \ {0}
  /\ Sendable \in [Flows -> Seq(SUBSET Alterations)]
  /\ Days \in Seq(Dates)
  /\ \A i, j \in DOMAIN Days : i < j => DayNumber(Days[i]) < DayNumber(Days[j])
  /\ MaxTime \div TicksPerDay < Len(Days)

VARIABLES
  pid,       \* what demo_claims returns
  flows,     \* flow -> where its console function is
  issued, store, handlers, audits  \* the engine's

E == INSTANCE Engine WITH
  epoch <- engineEpoch, calls <- handlers,
  Requests <- Flows, Audiences <- {DefaultAudience},
  Known <- {[t \in EvidenceTypes |-> "MISSING"]}, Calls <- Flows \X Nat,
  Presentations <- {[form |-> "absent", exp |-> 0, nonce |-> NoChallenge]}, EvalTimes <- {},
  TTL <- NonceTTL, MaxRestarts <- MaxEngineRestarts

walletVars == vars
engineVars == <<issued, store, handlers, audits>>
journeyVars == <<walletVars, pid, flows, engineVars>>

-----------------------------------------------------------------------------
(***************************************************************************)
(* What is submitted.                                                      *)
(***************************************************************************)

\* now.date().
Today(time) == Days[1 + time \div TicksPerDay]

\* The issuer signs a credential of the wallet with what it knows of its subject.
IssuedFor(known, cred) == Issue(cred.issuerKey, known, cred.holderKey, cred.exp)

\* The key and the credential of somebody else.
Stranger == <<"stranger", "key">>

\* The presentation of cred for a challenge, altered in a single respect.  The
\* console's tamperVp flips the first disclosure; the rest is what any client of
\* the API may send in its place, some of it after the cases of sdjwt_tests.rs.
\* Spliced is a disclosure of the same claim from a credential that the stranger
\* has of the subject.
Altered(how, known, cred, ch) ==
  LET present(holderKey, audience, nonce) ==
        PresentVp(IssuedFor(known, cred), holderKey, ClaimsToDisclose(ch.required), audience, nonce)
      vp == present(cred.holderKey, DefaultAudience, ch.nonce)
  IN CASE how = "none"           -> vp
       [] how = "flipDisclosure" -> [vp EXCEPT ![2].value = NotText]
       [] how = "flipSignature"  -> [vp EXCEPT ![1].key = -1]
       [] how = "dropDisclosure" -> RemoveAt(vp, 2)
       [] how = "splice"         -> [vp EXCEPT ![2].salt = <<Stranger, vp[2].name>>]
       [] how = "otherHolder"    -> present(Stranger, DefaultAudience, ch.nonce)
       [] how = "otherAudience"  -> present(cred.holderKey, "someone-else", ch.nonce)
       [] how = "otherNonce"     -> present(cred.holderKey, DefaultAudience, "another-nonce")
       [] how = "noKeyBinding"   -> Append(Front(vp), NoPart)
       [] how = "jwtOnly"        -> <<vp[1]>>
       [] how = "empty"          -> << >>

\* What is made up is nobody's, and there is a disclosure to alter: whatever is
\* asked about has a claim to show, and what the issuer knows is text.
ASSUME AlterationAssumption ==
  /\ Alterations \subseteq
       {"none", "flipDisclosure", "flipSignature", "dropDisclosure", "splice", "otherHolder",
        "otherAudience", "otherNonce", "noKeyBinding", "jwtOnly", "empty"}
  /\ Stranger \notin Calls /\ "another-nonce" \notin Flows
  /\ \A x \in Asked : ClaimsToDisclose(BuildPlan(x, KindOf(x), {}).requiredEvidence) # {}
  /\ \A p \in Pids, i \in DOMAIN ClaimOrder : p[ClaimOrder[i]] # NotText

\* Birth date -> the time from which the day is the 18th birthday or later.
AdultFrom ==
  [birth \in {DateOf[text] : text \in DOMAIN DateOf} |->
     CHOOSE t \in 0..(MaxTime + 1) :
       /\ t <= MaxTime => DayNumber(Today(t)) >= ComesOfAge(birth)
       /\ \A u \in 0..(t - 1) : DayNumber(Today(u)) < ComesOfAge(birth)]

\* A presentation as the module Verifier sees it.
ReadClaim(name, value) ==
  CASE name = "birth_date" ->
         IF value \in DOMAIN DateOf
         THEN [garbled |-> FALSE, adultFrom |-> AdultFrom[DateOf[value]]]
         ELSE [garbled |-> TRUE, adultFrom |-> 0]
    [] name = "resident_country" -> [garbled |-> value = NotText, eu |-> value \in EuCountries]
    [] OTHER -> "any"

ReadVp(vp) ==
  IF vp = << >> THEN [form |-> "absent"]
  ELSE IF Len(vp) < 2 \/ Last(vp) = NoPart THEN [form |-> "malformed"]
  ELSE LET jwt == vp[1].payload
           kb  == Last(vp)
           disclosed == DisclosedClaims(vp)
       IN [form |-> "sdjwt", issuerKey |-> vp[1].key, iss |-> jwt.iss = Iss,
           genuine |-> \A d \in DisclosedParts(vp) : Sha256(d) \in jwt.sd,
           claims |-> [x \in DOMAIN disclosed |-> ReadClaim(x, disclosed[x])],
           exp |-> jwt.exp, holderKey |-> jwt.cnf, kbKey |-> kb.key,
           audience |-> kb.payload.aud, sdHash |-> kb.payload.sdHash = Sha256(HashedText(vp)),
           nonce |-> kb.payload.nonce]

-----------------------------------------------------------------------------
(***************************************************************************)
(* A flow of the console.                                                  *)
(***************************************************************************)

JourneyInit ==
  /\ Init /\ E!Init
  /\ pid \in Pids
  /\ flows = [f \in Flows |->
       [stage |-> "idle", canonical |-> "none", challenge |-> NoChallenge, epoch |-> 0,
        sent |-> << >>, told |-> << >>, audit |-> << >>]]

WalletCall(f, op) == <<f, op>>
Submission(f) == <<f, Len(flows[f].sent)>>

\* The wallet's answer to the call a flow waits for.
WalletAnswered(f, op) == At(WalletCall(f, op), "answered")

CredentialOf(f) == CHOOSE cred \in calls[WalletCall(f, "present")].credential : TRUE

EnsureIssued(f, x) ==
  /\ flows[f].stage = "idle"
  /\ flows' = [flows EXCEPT ![f].stage = "issuing", ![f].canonical = x]
  /\ ReceiveIssue(WalletCall(f, "issue"), Subject)
  /\ UNCHANGED <<pid, engineVars>>

\* The question is resolved to x and planned; the answer is the challenge.
Ask(f) ==
  /\ flows[f].stage = "issuing" /\ WalletAnswered(f, "issue")
  /\ E!Plan(f) /\ store'[f].canonical = flows[f].canonical
  /\ flows' = [flows EXCEPT ![f].stage = "asked", ![f].epoch = engineEpoch,
                            ![f].challenge = store'[f]]
  /\ UNCHANGED <<walletVars, pid>>

Present(f) ==
  /\ flows[f].stage = "asked"
  /\ flows' = [flows EXCEPT ![f].stage = "presenting"]
  /\ ReceivePresent(WalletCall(f, "present"), Subject, flows[f].canonical)
  /\ UNCHANGED <<pid, engineVars>>

\* What the wallet answered is submitted, and may be submitted again.
Submit(f) ==
  /\ \/ flows[f].stage = "presenting" /\ WalletAnswered(f, "present")
     \/ flows[f].stage = "answered"
  /\ Len(flows[f].sent) < Len(Sendable[f])
  /\ \E how \in Sendable[f][Len(flows[f].sent) + 1] :
       LET sent == Append(flows[f].sent, how)
       IN /\ flows' = [flows EXCEPT ![f].stage = "submitted", ![f].sent = sent]
          /\ E!Start(<<f, Len(sent)>>, f,
                     ReadVp(Altered(how, pid, CredentialOf(f), flows[f].challenge)), clock)
  /\ UNCHANGED <<walletVars, pid>>

HandlerIs(f, stage) ==
  Submission(f) \in DOMAIN handlers /\ handlers[Submission(f)].stage = stage

ReadAnswer(f) ==
  /\ flows[f].stage = "submitted" /\ HandlerIs(f, "done")
  /\ flows' = [flows EXCEPT ![f].stage = "answered",
                            ![f].told = Append(@, handlers[Submission(f)].answer)]
  /\ UNCHANGED <<walletVars, pid, engineVars>>

\* GET /engine/audits/:id passed through: the record, or none and a 404.  Only
\* decisions come with an audit id.
FetchAudit(f) ==
  /\ flows[f].stage = "answered" /\ Last(flows[f].told) \in Decisions
  /\ flows' = [flows EXCEPT ![f].stage = "done",
       ![f].audit = <<[epoch |-> engineEpoch,
                       record |-> {audits[c] : c \in {Submission(f)} \cap DOMAIN audits}]>>]
  /\ UNCHANGED <<walletVars, pid, engineVars>>

Finish(f) ==
  /\ flows[f].stage = "answered"
  /\ flows' = [flows EXCEPT ![f].stage = "done"]
  /\ UNCHANGED <<walletVars, pid, engineVars>>

\* Broken variant: a connection the API's restart broke is waited for.
BreakDeaf(f) ==
  /\ \/ flows[f].stage = "issuing"    /\ At(WalletCall(f, "issue"), "failed")
     \/ flows[f].stage = "presenting" /\ At(WalletCall(f, "present"), "failed")
     \/ flows[f].stage = "submitted"  /\ HandlerIs(f, "lost")
  /\ flows' = [flows EXCEPT ![f].stage = "aborted"]
  /\ UNCHANGED <<walletVars, pid, engineVars>>

\* The wallet's call failed or its connection broke, or the engine's did: 503,
\* or no answer at all, and api() throws.  Under every other status it returns,
\* and the flow goes on with the body it got (ReadAnswer).
Break(f) ==
  /\ \/ flows[f].stage = "issuing"    /\ \E s \in {"failed", "lost"} : At(WalletCall(f, "issue"), s)
     \/ flows[f].stage = "presenting" /\ \E s \in {"failed", "lost"} : At(WalletCall(f, "present"), s)
     \/ flows[f].stage = "submitted"  /\ HandlerIs(f, "lost")
  /\ flows' = [flows EXCEPT ![f].stage = "aborted"]
  /\ UNCHANGED <<walletVars, pid, engineVars>>

\* The API gives a call up (its time-out, or its own end) that the engine may
\* not have seen, or may go on serving.
GiveUp(f) ==
  /\ \/ flows[f].stage = "issuing"    /\ WalletAnswered(f, "issue")
     \/ flows[f].stage = "presenting" /\ WalletAnswered(f, "present")
     \/ flows[f].stage \in {"asked", "submitted"}
  /\ flows' = [flows EXCEPT ![f].stage = "aborted"]
  /\ UNCHANGED <<walletVars, pid, engineVars>>

-----------------------------------------------------------------------------
(***************************************************************************)
(* The parts together.                                                     *)
(***************************************************************************)

OtherCall(c) == ReceiveIssue(c, Subject) /\ UNCHANGED <<pid, flows, engineVars>>

WalletStep(c) == Thread(c) /\ UNCHANGED <<pid, flows, engineVars>>

EngineStep(h) == E!Handle(h) /\ UNCHANGED <<walletVars, pid, flows>>

FlowStep(f) ==
  \/ Ask(f) \/ Present(f) \/ Submit(f) \/ ReadAnswer(f)
  \/ FetchAudit(f) \/ Finish(f) \/ Break(f) \/ GiveUp(f)

TimePasses == Tick /\ E!Tick /\ UNCHANGED <<pid, flows>>

EngineRestarts == RestartEngine /\ E!Restart /\ UNCHANGED <<pid, flows>>

ApiRestarts == RestartApi /\ UNCHANGED <<pid, flows, engineVars>>

JourneyNext ==
  \/ \E f \in Flows : (\E x \in Asked : EnsureIssued(f, x)) \/ FlowStep(f)
  \/ \E c \in Others : OtherCall(c)
  \/ \E c \in Calls : WalletStep(c)
  \/ \E h \in DOMAIN handlers : EngineStep(h)
  \/ TimePasses
  \/ EngineRestarts
  \/ ApiRestarts

JourneySpec == JourneyInit /\ [][JourneyNext]_journeyVars

\* A flow's call comes to an end: it is answered, breaks, or is given up, as
\* the API's time-outs see to; a flow with all its answers ends.
Ends(f) == ReadAnswer(f) \/ Finish(f) \/ Break(f) \/ GiveUp(f)

\* Threads and handlers run; of a flow's wallet calls, and of its submissions,
\* one at most is under way.
JourneyFairSpec ==
  /\ JourneySpec
  /\ \A f \in Flows :
       /\ WF_journeyVars(Ends(f))
       /\ WF_journeyVars(\E n \in DOMAIN Sendable[f] : EngineStep(<<f, n>>))
       /\ WF_journeyVars(\E op \in {"issue", "present"} : WalletStep(WalletCall(f, op)))
  /\ \A c \in Others : WF_journeyVars(WalletStep(c))

=============================================================================
