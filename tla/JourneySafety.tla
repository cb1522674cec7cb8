---------------------------- MODULE JourneySafety ----------------------------
(***************************************************************************)
(* What the parts promise together.                                        *)
(***************************************************************************)
EXTENDS Journey, WalletSafety

\* Flows that hold a presentation and have not yet submitted it.
Holding == {f \in Flows : flows[f].stage = "presenting" /\ WalletAnswered(f, "present")}

\* The texts that can stand between the two JWTs of a presentation: disclosures
\* of the credential, withheld ones too, those a stranger has of the same
\* claims, and empty parts, in any order and number up to one more than it has.
Rearranged(vp, cred) ==
  LET own     == {IssuedFor(pid, cred).disclosures[i] : i \in DOMAIN ClaimOrder}
      strange == {[d EXCEPT !.salt = <<Stranger, d.name>>] : d \in own}
  IN {<<Head(vp)>> \o middle \o <<Last(vp)>> :
        middle \in BoundedSeq(own \cup strange \cup {NoPart}, Len(vp) - 1)}

\* Two programs put the signed text together, each in its own way
\* (MockWallet.present appends, verify splits and joins again), and they agree on
\* one text only: between the JWTs of a presentation nothing can be added, left
\* out, repeated, moved or replaced, not even an empty part, which the digests do
\* not look at; and the text as it was presented passes as long as the issuer's
\* key and the credential's term last.
OnlyTheTextPresented ==
  \A f \in Holding :
    LET ch   == flows[f].challenge
        cred == CredentialOf(f)
        vp   == Altered("none", pid, cred, ch)
    IN \A text \in Rearranged(vp, cred) :
         FailedCheck(ReadVp(text), engineEpoch, ch, clock) = "NONE" <=>
           text = vp /\ cred.issuerKey = engineEpoch /\ clock <= cred.exp

\* The age and residence derived from a disclosed text on the date of the
\* evaluation are what the instant of coming of age says (is_over_18): also on
\* the eve of the birthday, for a child of the 29th of February, and for a text
\* that names no date.
EvidenceAgrees ==
  \A f \in Holding :
    LET ch == flows[f].challenge
        vp == Altered("none", pid, CredentialOf(f), ch)
    IN \A t \in ch.required :
         LET x == RequiredClaimFor(t)
         IN x \in DOMAIN DisclosedClaims(vp) =>
              StateFrom(t, DisclosedClaims(vp)[x], Today(clock)) =
                DeriveState(t, ReadVp(vp).claims[x], clock)

-----------------------------------------------------------------------------

\* Submissions whose handler has decided on the answer.
Submitted == {s \in DOMAIN handlers : handlers[s].answer # "NONE"}

How(s) == flows[s[1]].sent[s[2]]

\* The answer of the engine, seen from outside: what has happened since the
\* flow began.
EngineForgot(s) == flows[s[1]].epoch # handlers[s].epoch
IssuerGone(s)   == CredentialOf(s[1]).issuerKey # handlers[s].epoch
Overdue(s)      == handlers[s].evalTime > CredentialOf(s[1]).exp
Late(s)         == handlers[s].at > flows[s[1]].challenge.expiresAt
AlreadyTaken(s) == \E n \in 1..(s[2] - 1) : handlers[<<s[1], n>>].result = "OK"

\* The check each alteration fails when nothing else is wrong (WHITEPAPER 9,
\* sdjwt_tests.rs).
NamedCheck(how) ==
  CASE how = "empty"                                          -> "MISSING_SD_JWT_VP"
    [] how \in {"jwtOnly", "noKeyBinding"}                    -> "MALFORMED_VP"
    [] how = "flipSignature"                                  -> "INVALID_SIGNATURE"
    [] how \in {"flipDisclosure", "splice"}                   -> "UNKNOWN_DISCLOSURE"
    [] how \in {"dropDisclosure", "otherHolder", "otherAudience"} -> "KEY_BINDING_MISMATCH"
    [] how = "otherNonce"                                     -> "NONCE_MISMATCH"

\* An altered presentation is never allowed and spends nothing, and the answer
\* names what was altered, unless the engine no longer knows the request, its
\* key or the credential's term (WHITEPAPER 9, Tampering and Key binding).  Those
\* that no flow submits would be named as well, should they arrive now.
AlteredIsNamed ==
  /\ \A f \in Holding, how \in Alterations \ {"none"} :
       LET cred == CredentialOf(f)
           named == FailedCheck(ReadVp(Altered(how, pid, cred, flows[f].challenge)),
                                engineEpoch, flows[f].challenge, clock)
       IN \/ named = NamedCheck(how)
          \/ named = "INVALID_SIGNATURE" /\ cred.issuerKey # engineEpoch
          \/ named = "EXPIRED_CREDENTIAL" /\ clock > cred.exp
  /\ \A s \in Submitted : How(s) # "none" =>
       /\ handlers[s].result = "NONE"
       /\ handlers[s].answer = IF EngineForgot(s) THEN "UNKNOWN_REQUEST" ELSE "DENY"
       /\ ~EngineForgot(s) =>
            \/ handlers[s].failed = NamedCheck(How(s))
            \/ handlers[s].failed = "INVALID_SIGNATURE" /\ IssuerGone(s)
            \/ handlers[s].failed = "EXPIRED_CREDENTIAL" /\ Overdue(s)

\* What the subject's PID says on the date of submission s.
Shown(t, s) ==
  CASE t = "AGE_ATTESTATION" ->
         IF pid.birth_date \notin DOMAIN DateOf THEN "OPEN"
         ELSE IF DayNumber(Today(handlers[s].evalTime)) >= ComesOfAge(DateOf[pid.birth_date])
              THEN "YES" ELSE "NO"
    [] t = "RESIDENCE_CREDENTIAL" ->
         IF pid.resident_country = NotText THEN "OPEN"
         ELSE IF pid.resident_country \in EuCountries THEN "YES" ELSE "NO"
    [] t = "GOVERNMENT_IDENTITY" -> "YES"
    [] OTHER -> "OPEN"

\* A predicate is shown by any option that was asked for, refuted when one says
\* no and none yes; one without a definition has no options.
Truth(p, s) ==
  LET asked == flows[s[1]].challenge.required
      says  == {Shown(t, s) : t \in asked \cap (IF p \in DOMAIN Predicates THEN Options(p) ELSE {})}
  IN IF "YES" \in says THEN "YES" ELSE IF "NO" \in says THEN "NO" ELSE "OPEN"

Verdict(s) ==
  LET ch  == flows[s[1]].challenge
      all == {Truth(p, s) : p \in RequiredPredicates(ch.canonical, ch.kind)}
  IN IF "NO" \in all THEN "DENY" ELSE IF "OPEN" \in all THEN "UNKNOWN" ELSE "ALLOW"

\* A client that does as it is told gets the answer the subject's attributes
\* call for on that date, and nothing else for any other reason than these: the
\* engine has restarted since the question or the issuance, the credential or
\* the challenge has run out, or the flow's own presentation was accepted
\* before.  The calls of another client, and its own rejected tries, change
\* nothing.
AnswerHasCause ==
  \A s \in Submitted : How(s) = "none" =>
    handlers[s].answer =
      IF EngineForgot(s)                    THEN "UNKNOWN_REQUEST"
      ELSE IF IssuerGone(s) \/ Overdue(s)   THEN "DENY"
      ELSE IF Late(s)                       THEN "EXPIRED_NONCE"
      ELSE IF AlreadyTaken(s)               THEN "REPLAY_DETECTED"
      ELSE Verdict(s)

\* The audit a client reads back is of its own question and says what it was
\* told, with the check that failed, or for an ALLOW with every predicate it rests
\* on; it is missing only when the engine has restarted since (AuditController,
\* get_audit, the three builders).
AuditToldBack ==
  \A f \in Flows : flows[f].audit # << >> =>
    LET read == flows[f].audit[1]
        h    == handlers[Submission(f)]
    IN /\ read.record = {} <=> read.epoch # h.epoch
       /\ \A a \in read.record :
            /\ a.decision = Last(flows[f].told) /\ a.canonical = flows[f].canonical
            /\ h.failed # "NONE" => a.reason = h.failed /\ a.decision = "DENY"
            /\ a.decision = "ALLOW" =>
                 DOMAIN a.predicates = RequiredPredicates(a.canonical, KindOf(a.canonical))

\* Every flow comes to an end, whatever of the stack restarts under it: the
\* console's guard gives its buttons back.
EveryFlowEnds ==
  \A f \in Flows : (flows[f].stage # "idle") ~> (flows[f].stage \in {"done", "aborted"})

\* The monitor that a flow's call holds while it waits for the engine is given
\* back, whether the engine answers, fails or restarts (ensureIssued): a call of
\* another client behind it ends.
OthersAreServed ==
  \A c \in Others :
    (c \in DOMAIN calls) ~> (c \in DOMAIN calls /\ calls[c].stage \in Ended)

=============================================================================
