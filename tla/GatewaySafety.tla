--------------------------- MODULE GatewaySafety ----------------------------
(***************************************************************************)
(* What the API and the engine guarantee together.                         *)
(***************************************************************************)
EXTENDS Gateway

Canonicals == DOMAIN Predicates \cup DOMAIN Policies

\* Call c had the right to canonical x: its question is registered as x, or it
\* is not registered at all and the model named x with HIGH confidence.
Earned(c, x) ==
  IF ResolveTier1(calls[c].text) # {}
  THEN x \in {res.canonical : res \in ResolveTier1(calls[c].text)}
  ELSE calls[c].proposal = [canonical |-> x, confidence |-> "HIGH"] /\ x \in Canonicals

\* Refusals fail closed (VerificationService.resolve): whatever the model
\* proposes and however late the engine serves, a challenge, an evaluation, or
\* one still under way exists only for a canonical its question has earned, and
\* none for a question that was answered UNRESOLVED_QUESTION.
GuardrailHolds ==
  /\ \A r \in DOMAIN store : Earned(store[r].call, store[r].canonical)
  /\ \A c \in DOMAIN log : calls[c].kind = "decision" => Earned(c, log[c].canonical)
  /\ \A c \in DOMAIN rpc : rpc[c].op \in {"plan", "evaluate"} => Earned(c, rpc[c].canonical)
  /\ \A c \in DOMAIN calls : calls[c].answer = "UNRESOLVED_QUESTION" =>
       c \notin DOMAIN rpc /\ c \notin DOMAIN log /\ \A r \in DOMAIN store : store[r].call # c

\* The call that was answered with request r.
Asker(r) == CHOOSE c \in DOMAIN calls : calls[c].answer = "planned" /\ r \in calls[c].request

\* The audit record of c tells where its question came from.
TellsProvenance(c) ==
  \E r \in calls[c].request :
    LET asker == calls[Asker(r)]
    IN /\ log[c].text = asker.text
       /\ \E res \in asker.resolution :
            res.canonical = log[c].canonical /\ res.resolvedBy = log[c].resolvedBy

\* The audit of an evaluated presentation (the maps of VerificationService) has
\* the text and tier of the call that asked, however the threads of the two
\* interleave; they are missing only when the API has restarted in between.
ProvenanceTold ==
  \A c \in DOMAIN log : (calls[c].kind = "presentation" /\ log[c].by = "POLICY") =>
    \/ TellsProvenance(c)
    \/ /\ \E r \in calls[c].request : calls[Asker(r)].epoch # calls[c].epoch
       /\ [text |-> log[c].text, resolvedBy |-> log[c].resolvedBy] = Unknown

\* Every decision a client was given is in the engine's log, with the same
\* decision, unless the engine has restarted since; no two calls were given the
\* decision of one challenge, and a replay has an earlier acceptance behind it.
DecisionsBacked ==
  \A c \in DOMAIN calls : calls[c].answer \in Decisions =>
    /\ calls[c].engineEpoch = engineEpoch => c \in DOMAIN log /\ log[c].decision = calls[c].answer
    /\ calls[c].answer = "REPLAY_DETECTED" =>
         \E r \in calls[c].request, d \in Calls \ {c} : <<r, d>> \in accepted
    /\ calls[c].kind = "presentation" /\ calls[c].answer \in {"ALLOW", "UNKNOWN"} =>
         \A d \in Calls : (\E r \in calls[c].request : <<r, d>> \in accepted) <=> d = c

\* Every call is answered, even if the engine never does.
EveryCallAnswered ==
  \A c \in Calls : (c \in DOMAIN calls) ~> (c \in DOMAIN calls /\ calls[c].stage \in Ended)

-----------------------------------------------------------------------------

\* audit/mod.rs: every decision, UNRESOLVED_QUESTION included, emits an audit
\* object.  A refusal leaves nothing in the log.
RefusalsAudited ==
  \A c \in DOMAIN calls :
    (calls[c].answer = "UNRESOLVED_QUESTION" /\ calls[c].engineEpoch = engineEpoch) =>
      c \in DOMAIN log

\* VerificationService: presentation audits show resolvedBy and record the
\* original question.  Those of a failed check and of a replay do not.
PresentationAuditsTell ==
  \A c \in DOMAIN log :
    (calls[c].kind = "presentation" /\ calls[c].epoch = apiEpoch) => TellsProvenance(c)

=============================================================================
