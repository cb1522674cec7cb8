------------------------------- MODULE Engine -------------------------------
(***************************************************************************)
(* The engine process: the replay store behind its mutex, the audit log    *)
(* behind its own, and the presentation handlers that run on the worker    *)
(* threads of the tokio runtime (api.rs).  A handler has no await point,   *)
(* but it takes the locks one after the other, so two handlers interleave  *)
(* between "peek", "consume" and "record".  Everything is in memory: a     *)
(* restart loses the store, the log, the handlers under way and the issuer *)
(* key; the clock goes on.                                                 *)
(***************************************************************************)
EXTENDS Policy, Verifier

CONSTANTS
  Requests,       \* request identifiers (UUIDs), each with a nonce of its own
  Audiences,      \* audiences a relying party may plan for
  Known,          \* evidence lookups a plan call may declare as known
  Calls,          \* presentation calls; each is one HTTP request
  Presentations,  \* presentations a client may send, but for their nonce
  EvalTimes,      \* explicit evaluationTime parameters
  TTL,            \* NONCE_TTL_SECONDS in ticks
  MaxTime,        \* bound on the clock
  MaxRestarts,    \* bound on the number of restarts
  NoChallenge     \* what a handler holds before it has peeked

ASSUME EngineAssumption ==
  /\ TTL \in Nat
  /\ MaxTime \in Nat
  /\ MaxRestarts \in Nat
  /\ EvalTimes \subseteq Nat
  /\ Presentations # {}
  /\ Requests # {}

\* The exp of a credential is a number.
ASSUME PresentationAssumption ==
  \A p \in Presentations : "exp" \in DOMAIN p /\ p.exp \in Nat

VARIABLES
  clock,   \* OffsetDateTime::now_utc, in ticks
  epoch,   \* which start of the process this is; also its issuer key
  issued,  \* identifiers handed out since ever
  store,   \* request id -> entry of the replay store
  calls,   \* call -> local state of its handler, kept when it has ended
  audits   \* call -> the audit record it left in the log

vars == <<clock, epoch, issued, store, calls, audits>>

ErrorCodes == {"VALIDATION_ERROR", "UNKNOWN_REQUEST", "EXPIRED_NONCE",
               "WRONG_AUDIENCE", "WRONG_REQUEST_ID"}

NonceResults == {"NONE", "OK", "UNKNOWN_NONCE", "WRONG_REQUEST_ID",
                 "WRONG_AUDIENCE", "EXPIRED_NONCE", "NONCE_ALREADY_CONSUMED"}

\* What a client sends: a presentation signed over some request's nonce.
Submissions == {[p EXCEPT !.nonce = n] : p \in Presentations, n \in Requests}

\* "lost" is a call whose connection the restart broke.
Stages == {"peek", "consume", "record", "reply", "done", "lost"}

Put(f, k, v) == [x \in DOMAIN f \cup {k} |-> IF x = k THEN v ELSE f[x]]

Init ==
  /\ clock = 0
  /\ epoch = 0
  /\ issued = {}
  /\ store = << >>
  /\ calls = << >>
  /\ audits = << >>

-----------------------------------------------------------------------------
(***************************************************************************)
(* The replay store.                                                       *)
(***************************************************************************)

\* generate_nonce draws 256 random bits: the nonce is as fresh as the id.
NonceOf(r) == r

\* /engine/plan: what is still to be proven becomes a challenge with a TTL.
\* An unknown canonical is refused and changes nothing.
Plan(r) ==
  /\ r \notin issued
  /\ \E c \in DOMAIN Predicates \cup DOMAIN Policies, known \in Known, a \in Audiences :
       LET kind == KindOf(c)
           plan == BuildPlan(c, kind, Established(c, kind, known))
       IN store' = Put(store, r,
                     [requestId |-> r, nonce |-> NonceOf(r), audience |-> a,
                      issuedAt |-> clock, expiresAt |-> clock + TTL,
                      canonical |-> c, kind |-> kind,
                      required |-> plan.requiredEvidence, consumed |-> FALSE])
  /\ issued' = issued \cup {r}
  /\ UNCHANGED <<clock, epoch, calls, audits>>

\* Broken variant: a consumed entry is not told from an open one.
NonceResultReuses(r, nonce, audience, now) ==
  IF r \notin DOMAIN store \/ store[r].nonce # nonce THEN "UNKNOWN_NONCE"
  ELSE IF store[r].audience # audience                THEN "WRONG_AUDIENCE"
  ELSE IF now > store[r].expiresAt                    THEN "EXPIRED_NONCE"
  ELSE "OK"

\* validate_and_consume, in the order of its tests: expiry comes before reuse.
NonceResult(r, nonce, audience, now) ==
  IF r \notin DOMAIN store                    THEN "UNKNOWN_NONCE"
  ELSE IF store[r].nonce # nonce              THEN "UNKNOWN_NONCE"
  ELSE IF store[r].requestId # r              THEN "WRONG_REQUEST_ID"
  ELSE IF store[r].audience # audience        THEN "WRONG_AUDIENCE"
  ELSE IF now > store[r].expiresAt            THEN "EXPIRED_NONCE"
  ELSE IF store[r].consumed                   THEN "NONCE_ALREADY_CONSUMED"
  ELSE "OK"

-----------------------------------------------------------------------------
(***************************************************************************)
(* /engine/presentations, one action per lock it takes.                    *)
(***************************************************************************)

\* The handler starts: it reads the clock for the nonce, and at once a second
\* time for the evaluation when there is no evaluationTime parameter; the two
\* reads fall into one tick.
Start(c, r, vp, t) ==
  /\ c \notin DOMAIN calls
  /\ calls' = Put(calls, c,
       [stage |-> "peek", request |-> r, at |-> clock, evalTime |-> t,
        vp |-> vp, epoch |-> epoch, challenge |-> NoChallenge,
        failed |-> "NONE", result |-> "NONE", answer |-> "NONE"])
  /\ UNCHANGED <<clock, epoch, issued, store, audits>>

\* Clients send any presentation an issuer has signed so far.
Receive(c) ==
  \E r \in Requests, vp \in Submissions, t \in EvalTimes \cup {clock} :
    vp.issuerKey <= epoch /\ Start(c, r, vp, t)

\* An evaluationTime that does not parse is refused before anything is read.
ReceiveUnparsable(c) ==
  /\ c \notin DOMAIN calls
  /\ \E r \in Requests :
       calls' = Put(calls, c,
            [stage |-> "reply", request |-> r, at |-> clock, evalTime |-> clock,
             vp |-> CHOOSE vp \in Submissions : TRUE, epoch |-> epoch, challenge |-> NoChallenge,
             failed |-> "NONE", result |-> "NONE", answer |-> "VALIDATION_ERROR"])
  /\ UNCHANGED <<clock, epoch, issued, store, audits>>

\* Broken variant: a failed check uses the challenge up.
PeekBurns(c) ==
  LET h == calls[c]
      failed == FailedCheck(h.vp, epoch, store[h.request], h.evalTime)
  IN /\ c \in DOMAIN calls /\ h.stage = "peek" /\ h.request \in DOMAIN store
     /\ calls' = [calls EXCEPT
          ![c].challenge = store[h.request], ![c].failed = failed,
          ![c].stage  = IF failed = "NONE" THEN "consume" ELSE "record",
          ![c].answer = IF failed = "NONE" THEN "NONE" ELSE "DENY"]
     /\ store' = IF failed = "NONE" THEN store ELSE [store EXCEPT ![h.request].consumed = TRUE]
     /\ UNCHANGED <<clock, epoch, issued, audits>>

\* Broken variant: a failed check is answered at once, without an audit.
PeekSkipsAudit(c) ==
  LET h == calls[c]
      failed == FailedCheck(h.vp, epoch, store[h.request], h.evalTime)
  IN /\ c \in DOMAIN calls /\ h.stage = "peek" /\ h.request \in DOMAIN store
     /\ calls' = [calls EXCEPT
          ![c].challenge = store[h.request], ![c].failed = failed,
          ![c].stage  = IF failed = "NONE" THEN "consume" ELSE "reply",
          ![c].answer = IF failed = "NONE" THEN "NONE" ELSE "DENY"]
     /\ UNCHANGED <<clock, epoch, issued, store, audits>>

\* Broken variant: the nonce is consumed whatever the checks have said.
PeekConsumesFirst(c) ==
  LET h == calls[c]
  IN /\ c \in DOMAIN calls /\ h.stage = "peek" /\ h.request \in DOMAIN store
     /\ calls' = [calls EXCEPT ![c].challenge = store[h.request], ![c].stage = "consume"]
     /\ UNCHANGED <<clock, epoch, issued, store, audits>>

\* The challenge is read, and the lock released, without consuming it; the
\* checks then run on that copy.  A failed check is answered DENY, and leaves
\* the nonce alone.
Peek(c) ==
  LET h == calls[c]
  IN /\ c \in DOMAIN calls /\ h.stage = "peek"
     /\ IF h.request \notin DOMAIN store
        THEN calls' = [calls EXCEPT ![c].stage = "reply", ![c].answer = "UNKNOWN_REQUEST"]
        ELSE LET failed == FailedCheck(h.vp, epoch, store[h.request], h.evalTime)
             IN calls' = [calls EXCEPT
                  ![c].challenge = store[h.request],
                  ![c].failed = failed,
                  ![c].stage  = IF failed = "NONE" THEN "consume" ELSE "record",
                  ![c].answer = IF failed = "NONE" THEN "NONE" ELSE "DENY"]
     /\ UNCHANGED <<clock, epoch, issued, store, audits>>

\* The evidence the verifier derived, and the policy report on it.
VerifiedReport(h) ==
  LET ch == h.challenge
      ev == DeriveEvidence(EvidenceTypes, ch.required, h.vp.claims, h.evalTime)
  IN Report(ch.canonical, ch.kind, ev, {[type |-> t, state |-> ev[t]] : t \in ch.required})

AnswerTo(h, result) ==
  CASE result = "OK"                     -> VerifiedReport(h).decision
    [] result = "NONCE_ALREADY_CONSUMED" -> "REPLAY_DETECTED"
    [] result = "UNKNOWN_NONCE"          -> "UNKNOWN_REQUEST"
    [] OTHER                             -> result

\* Broken variant: the copy read before the checks is written back.
ConsumeWritesBack(c) ==
  LET h == calls[c]
      result == NonceResult(h.request, h.vp.nonce, h.vp.audience, h.at)
  IN /\ c \in DOMAIN calls /\ h.stage = "consume"
     /\ calls' = [calls EXCEPT
          ![c].result = result, ![c].answer = AnswerTo(h, result), ![c].stage = "record"]
     /\ store' = Put(store, h.request, [h.challenge EXCEPT !.consumed = (result = "OK")])
     /\ UNCHANGED <<clock, epoch, issued, audits>>

\* Broken variant: a refused nonce is tried again for ever.
ConsumeRetries(c) ==
  LET h == calls[c]
      result == NonceResult(h.request, h.vp.nonce, h.vp.audience, h.at)
  IN /\ c \in DOMAIN calls /\ h.stage = "consume"
     /\ calls' = [calls EXCEPT
          ![c].result = result, ![c].answer = AnswerTo(h, result),
          ![c].stage = IF result = "OK" THEN "record" ELSE "consume"]
     /\ store' = IF result = "OK" THEN [store EXCEPT ![h.request].consumed = TRUE] ELSE store
     /\ UNCHANGED <<clock, epoch, issued, audits>>

\* Broken variant: the clock is read again when the nonce is consumed.
ConsumeReadsClock(c) ==
  LET h == calls[c]
      result == NonceResult(h.request, h.vp.nonce, h.vp.audience, clock)
  IN /\ c \in DOMAIN calls /\ h.stage = "consume"
     /\ calls' = [calls EXCEPT
          ![c].result = result, ![c].answer = AnswerTo(h, result), ![c].stage = "record"]
     /\ store' = IF result = "OK" THEN [store EXCEPT ![h.request].consumed = TRUE] ELSE store
     /\ UNCHANGED <<clock, epoch, issued, audits>>

\* Test and consumption are one critical section.  The two decisions go on to
\* be audited, the other codes are answered at once.
Consume(c) ==
  LET h == calls[c]
      result == NonceResult(h.request, h.vp.nonce, h.vp.audience, h.at)
  IN /\ c \in DOMAIN calls /\ h.stage = "consume"
     /\ calls' = [calls EXCEPT
          ![c].result = result,
          ![c].answer = AnswerTo(h, result),
          ![c].stage  = IF result \in {"OK", "NONCE_ALREADY_CONSUMED"}
                        THEN "record" ELSE "reply"]
     /\ store' = IF result = "OK" THEN [store EXCEPT ![h.request].consumed = TRUE] ELSE store
     /\ UNCHANGED <<clock, epoch, issued, audits>>

\* The three audit builders: a failed verification and a replay keep no
\* predicates, an evaluated presentation those of its report.
AuditOf(h) ==
  [decision   |-> h.answer,
   canonical  |-> h.challenge.canonical,
   reason     |-> IF h.failed # "NONE" THEN h.failed ELSE h.result,
   predicates |-> IF h.result = "OK"
                  THEN BuildAudit(h.challenge.canonical, h.challenge.kind,
                                  VerifiedReport(h)).predicates
                  ELSE << >>]

Record(c) ==
  /\ c \in DOMAIN calls /\ calls[c].stage = "record"
  /\ audits' = Put(audits, c, AuditOf(calls[c]))
  /\ calls' = [calls EXCEPT ![c].stage = "reply"]
  /\ UNCHANGED <<clock, epoch, issued, store>>

\* The client has the answer.
Reply(c) ==
  /\ c \in DOMAIN calls /\ calls[c].stage = "reply"
  /\ calls' = [calls EXCEPT ![c].stage = "done"]
  /\ UNCHANGED <<clock, epoch, issued, store, audits>>

-----------------------------------------------------------------------------

Tick ==
  /\ clock < MaxTime
  /\ clock' = clock + 1
  /\ UNCHANGED <<epoch, issued, store, calls, audits>>

Ended == {"done", "lost"}

Restart ==
  /\ epoch < MaxRestarts
  /\ epoch' = epoch + 1
  /\ store' = << >>
  /\ audits' = << >>
  /\ calls' = [c \in DOMAIN calls |->
                 IF calls[c].stage \in Ended THEN calls[c]
                 ELSE [calls[c] EXCEPT !.stage = "lost"]]
  /\ UNCHANGED <<clock, issued>>

Handle(c) == Peek(c) \/ Consume(c) \/ Record(c) \/ Reply(c)

Next ==
  \/ \E r \in Requests : Plan(r)
  \/ \E c \in Calls : Receive(c) \/ ReceiveUnparsable(c) \/ Handle(c)
  \/ Tick
  \/ Restart

Spec == Init /\ [][Next]_vars

\* The runtime schedules every handler that has work to do; clients, the clock
\* and crashes owe nothing.
FairSpec == Spec /\ \A c \in Calls : WF_vars(Handle(c))

=============================================================================
