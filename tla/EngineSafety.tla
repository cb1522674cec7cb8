---------------------------- MODULE EngineSafety ----------------------------
(***************************************************************************)
(* What the engine must guarantee, whatever way its handlers interleave.   *)
(***************************************************************************)
EXTENDS Engine

Entries ==
  [requestId : Requests, nonce : Requests, audience : Audiences,
   issuedAt : Nat, expiresAt : Nat,
   canonical : DOMAIN Predicates \cup DOMAIN Policies, kind : Kinds,
   required : SUBSET EvidenceTypes, consumed : BOOLEAN]

\* The local state of a handler.
Handlers ==
  [stage : Stages, request : Requests, at : Nat, evalTime : Nat, vp : Submissions,
   epoch : Nat, challenge : Entries \cup {NoChallenge}, failed : CheckCodes,
   result : NonceResults, answer : Decisions \cup ErrorCodes \cup {"NONE"}]

\* Types, with the bounds that relate them: an entry is of an issued request, a
\* call was received in the past, an audit is of a call.
TypeOK ==
  /\ clock \in 0..MaxTime
  /\ epoch \in 0..MaxRestarts
  /\ issued \subseteq Requests
  /\ DOMAIN store \subseteq issued
  /\ \A r \in DOMAIN store : store[r] \in Entries
  /\ DOMAIN calls \subseteq Calls
  /\ \A c \in DOMAIN calls :
       calls[c] \in Handlers /\ calls[c].at <= clock /\ calls[c].epoch <= epoch
  /\ DOMAIN audits \subseteq DOMAIN calls

\* Calls whose submission won the challenge.
Winners == {c \in DOMAIN calls : calls[c].result = "OK"}

\* A challenge is accepted once and for all: of any number of concurrent,
\* repeated or late submissions, before or after a restart, at most one passes
\* validate_and_consume.
AtMostOneWinner ==
  \A c, d \in Winners : calls[c].request = calls[d].request => c = d

\* REPLAY_DETECTED is never said of a first submission: some other call of the
\* same process has won the challenge, so a rejected presentation (a failed
\* check, an expired nonce) has not used it up.
ReplayHasWinner ==
  \A c \in DOMAIN calls : calls[c].result = "NONCE_ALREADY_CONSUMED" =>
    \E w \in Winners : /\ calls[w].request = calls[c].request
                       /\ calls[w].epoch = calls[c].epoch

\* Every decision is in the audit log before the client has its auditId, with
\* the same decision, and stays there until the process ends.
AnswersAudited ==
  \A c \in DOMAIN calls :
    (calls[c].answer \in Decisions /\ calls[c].epoch = epoch
       /\ calls[c].stage \in {"reply", "done"}) =>
      c \in DOMAIN audits /\ audits[c] = AuditOf(calls[c])

\* An entry e, later seen as f: it may have been spent, and nothing else.
SameChallenge(e, f) ==
  /\ e.requestId = f.requestId /\ e.nonce = f.nonce /\ e.audience = f.audience
  /\ e.issuedAt = f.issuedAt /\ e.expiresAt = f.expiresAt
  /\ e.canonical = f.canonical /\ e.kind = f.kind /\ e.required = f.required
  /\ e.consumed => f.consumed

\* Between peek and consume a handler works on its own copy of the challenge
\* and on its own reading of the clock, while others consume and the clock goes
\* on.  The copy can become stale in one way only:
\* the challenge is spent.  So the store refuses what has passed the checks for
\* time or reuse and never blames request, nonce or audience, and whether it is
\* too late was settled when the request came in.
CopyStaysValid ==
  \A c \in DOMAIN calls :
    /\ calls[c].stage = "consume" =>
         /\ calls[c].request \in DOMAIN store
         /\ SameChallenge(calls[c].challenge, store[calls[c].request])
    /\ calls[c].result \in {"NONE", "OK", "EXPIRED_NONCE", "NONCE_ALREADY_CONSUMED"}
    /\ calls[c].result = "EXPIRED_NONCE" <=>
         calls[c].result # "NONE" /\ calls[c].at > calls[c].challenge.expiresAt

\* An ALLOW given to a presentation is earned by that presentation alone: it
\* won a challenge in time, it is bound to that challenge by nonce, audience
\* and holder key, its credential is signed by the running issuer and valid at
\* the evaluation time, and each required predicate rests on a disclosed claim.
AllowIsEarned ==
  \A c \in DOMAIN calls : calls[c].answer = "ALLOW" =>
    LET h == calls[c]  vp == h.vp  ch == h.challenge
    IN /\ h.result = "OK" /\ h.at <= ch.expiresAt
       /\ vp.nonce = NonceOf(h.request) /\ vp.audience = ch.audience
       /\ vp.kbKey = vp.holderKey /\ vp.sdHash /\ vp.genuine
       /\ vp.issuerKey = h.epoch /\ vp.iss /\ h.evalTime <= vp.exp
       /\ \A p \in RequiredPredicates(ch.canonical, ch.kind) :
            \E t \in Options(p) \cap ch.required :
              /\ RequiredClaimFor(t) \in DOMAIN vp.claims
              /\ DeriveState(t, vp.claims[RequiredClaimFor(t)], h.evalTime) = "AVAILABLE"

\* The claim that evidence of type t rests on is disclosed and can be read.
Told(t, claims) ==
  /\ RequiredClaimFor(t) \in DOMAIN claims
  /\ t \in {"AGE_ATTESTATION", "RESIDENCE_CREDENTIAL"} => ~claims[RequiredClaimFor(t)].garbled

\* A client that discloses all it was asked for is left with an open predicate
\* only where nothing that claims can establish was asked for: because the plan
\* took the predicate as known, which the challenge does not keep (api.rs plan),
\* because no claim carries its evidence, or because the registry has no
\* definition of it.  It is UNKNOWN then, or DENY for another predicate, and the
\* audit names the open one.
PlanIsEnough ==
  \A c \in DOMAIN calls : calls[c].result = "OK" =>
    LET h     == calls[c]
        ch    == h.challenge
        asked == {t \in ch.required : RequiredClaimFor(t) # "none"}
        open  == {p \in RequiredPredicates(ch.canonical, ch.kind) :
                    p \in DOMAIN Predicates => Options(p) \cap asked = {}}
    IN (\A t \in asked : Told(t, h.vp.claims)) =>
         /\ \A p \in DOMAIN AuditOf(h).predicates :
              AuditOf(h).predicates[p] = "UNKNOWN" <=> p \in open
         /\ open = {} => h.answer # "UNKNOWN"
         /\ open # {} => h.answer # "ALLOW"

Open(r) == r \in DOMAIN store /\ ~store[r].consumed

\* A challenge is spent only by a call whose presentation passes every check
\* against the entry as it is in the store at that moment, and one step spends
\* at most one challenge; a restart forgets it instead.
SpentOnlyByVerified ==
  [][\A r \in DOMAIN store : (Open(r) /\ ~Open(r)' /\ epoch' = epoch) =>
       \E c \in DOMAIN calls :
         /\ calls[c].request = r /\ calls[c].result = "NONE" /\ calls'[c].result = "OK"
         /\ FailedCheck(calls[c].vp, epoch, store[r], calls[c].evalTime) = "NONE"
         /\ \A s \in Requests \ {r} : Open(s) => Open(s)']_vars

\* A spent challenge is not reopened, neither by a later plan call nor by a
\* handler that read it before it was spent.
SpentStaysSpent ==
  [][\A r \in issued : ~Open(r) => ~Open(r)']_vars

\* Every call that was received is answered, unless the process dies first.
EveryCallEnds ==
  \A c \in Calls : (c \in DOMAIN calls) ~> (c \in DOMAIN calls /\ calls[c].stage \in Ended)

\* The engine implements the single-use challenge: an entry is open while it is
\* in the store unconsumed, a call accepts when validate_and_consume says Ok.
Challenges == INSTANCE SingleUse WITH
  open <- {r \in Requests : Open(r)},
  accepted <- {<<calls[c].request, c>> : c \in Winners}

SingleUseSpec == Challenges!Spec

-----------------------------------------------------------------------------
(***************************************************************************)
(* What the documents say and the code does not do.                        *)
(***************************************************************************)

\* WHITEPAPER 7 and 8: the nonce TTL is read off the injected clock, so a
\* presentation evaluated inside the TTL is not refused as expired (and one
\* evaluated after it is).  The handler tests its own wall clock.
TtlOnInjectedClock ==
  \A c \in DOMAIN calls : calls[c].result # "NONE" =>
    (calls[c].result = "EXPIRED_NONCE" <=> calls[c].evalTime > calls[c].challenge.expiresAt)

\* WHITEPAPER 6.4: an affirmatively false derived claim yields DENY.  It does
\* not when the same presentation establishes the predicate in another way.
FalseClaimDenies ==
  \A c \in DOMAIN calls : calls[c].result = "OK" =>
    LET h == calls[c]
    IN (\E t \in h.challenge.required :
          /\ RequiredClaimFor(t) \in DOMAIN h.vp.claims
          /\ DeriveState(t, h.vp.claims[RequiredClaimFor(t)], h.evalTime) = "INVALID")
       => h.answer = "DENY"

=============================================================================
