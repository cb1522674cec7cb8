------------------------------ MODULE Gateway -------------------------------
(***************************************************************************)
(* The Java API in front of the engine (VerificationService, EngineClient, *)
(* the two tiers of resolution).  Each HTTP request is a servlet thread    *)
(* that blocks on one engine call after another; an engine call may time   *)
(* out, and may then still be served, late and to nobody.  The engine is   *)
(* what module Engine is shown to implement, single-use challenges, with   *)
(* the audit log beside them; either process may restart on its own.       *)
(***************************************************************************)
EXTENDS Policy

CONSTANTS
  Requests,         \* request identifiers
  MadeUp,           \* identifiers of clients that were never issued
  Calls,            \* requests of clients to the API
  Texts,            \* questions: their [normalized, trimmed] forms
  Proposals,        \* what the model may propose: [canonical, confidence]
  Verdicts,         \* decisions of the policy that a run tells apart
  MaxApiRestarts,   \* bounds on the restarts of the two processes
  MaxEngineRestarts

ASSUME GatewayAssumption ==
  /\ MaxApiRestarts \in Nat /\ MaxEngineRestarts \in Nat
  /\ MadeUp \cap Requests = {}
  /\ Verdicts \subseteq {"ALLOW", "DENY", "UNKNOWN"}

\* LlmProposal; its reason and raw text decide nothing.
ASSUME ProposalAssumption ==
  \A p \in Proposals : p = [canonical |-> p.canonical, confidence |-> p.confidence]

VARIABLES
  issued, open, accepted,  \* the engine's challenges (module SingleUse)
  store,       \* request id -> the call it was planned for and its canonical
  log,         \* call -> the audit record the engine has of it
  rpc,         \* call -> engine request not served yet
  answerOf,    \* call -> answer of the engine not read yet
  calls,       \* call -> local state of its thread, kept when it has ended
  provenance,  \* request id -> question and tier, kept in the API's memory
  apiEpoch, engineEpoch

engineVars == <<issued, open, accepted, store, log>>
vars == <<issued, open, accepted, store, log, rpc, answerOf, calls, provenance,
          apiEpoch, engineEpoch>>

Challenges == INSTANCE SingleUse

\* An abstention, and what a resolver answers to its own time-outs and errors.
Abstention == [canonical |-> "none", confidence |-> "LOW"]

\* What the two maps hold of a request they do not know: null.
Unknown == [text |-> [normalized |-> "none", trimmed |-> "none"], resolvedBy |-> "none"]

Put(f, k, v) == [x \in DOMAIN f \cup {k} |-> IF x = k THEN v ELSE f[x]]
Without(f, k) == [x \in DOMAIN f \ {k} |-> f[x]]

Init ==
  /\ Challenges!Init
  /\ store = << >> /\ log = << >>
  /\ rpc = << >> /\ answerOf = << >>
  /\ calls = << >> /\ provenance = << >>
  /\ apiEpoch = 0 /\ engineEpoch = 0

-----------------------------------------------------------------------------
(***************************************************************************)
(* Threads of the API.  A thread that waits for the engine is in the stage *)
(* named for what it asked: "tier1", "tier2", "plan" or "decide".          *)
(***************************************************************************)
Waiting == {"tier1", "tier2", "plan", "decide"}
Ended == {"answered", "lost"}

Ask(c, message) == rpc' = Put(rpc, c, message)

\* c goes on with its record updated, having read the engine's answer.
GoesOn(c, h) ==
  /\ calls' = [calls EXCEPT ![c] = h]
  /\ answerOf' = Without(answerOf, c)

\* questions and decisions: tier 1 first.
ReceiveQuestion(c, kind, text) ==
  /\ c \notin DOMAIN calls
  /\ calls' = Put(calls, c,
       [kind |-> kind, stage |-> "tier1", text |-> text, proposal |-> Abstention,
        resolution |-> {}, request |-> {}, answer |-> "none",
        epoch |-> apiEpoch, engineEpoch |-> engineEpoch])
  /\ Ask(c, [op |-> "resolve", text |-> text, proposed |-> {}])
  /\ UNCHANGED <<engineVars, answerOf, provenance, apiEpoch, engineEpoch>>

\* Identifiers that clients were given; they cannot guess one.
Learnt == UNION {calls[d].request : d \in {e \in DOMAIN calls : calls[e].answer = "planned"}}

\* presentations: provenance and question come from the maps, if they are
\* there, and go to the engine with the presentation.
ReceivePresentation(c, r) ==
  LET known == IF r \in DOMAIN provenance THEN provenance[r] ELSE Unknown
  IN /\ c \notin DOMAIN calls
     /\ calls' = Put(calls, c,
          [kind |-> "presentation", stage |-> "decide", text |-> known.text,
           proposal |-> Abstention, resolution |-> {}, request |-> {r}, answer |-> "none",
           epoch |-> apiEpoch, engineEpoch |-> engineEpoch])
     /\ Ask(c, [op |-> "present", request |-> r,
                text |-> known.text, resolvedBy |-> known.resolvedBy])
     /\ UNCHANGED <<engineVars, answerOf, provenance, apiEpoch, engineEpoch>>

\* With a resolution a question goes on to be planned, a decision evaluated.
Act(c, res) ==
  IF calls[c].kind = "question"
  THEN Ask(c, [op |-> "plan", canonical |-> res.canonical])
  ELSE Ask(c, [op |-> "evaluate", canonical |-> res.canonical,
               text |-> calls[c].text, resolvedBy |-> res.resolvedBy])

Resolved(c, res) ==
  /\ GoesOn(c, [calls[c] EXCEPT !.resolution = {res},
                  !.stage = IF calls[c].kind = "question" THEN "plan" ELSE "decide"])
  /\ Act(c, res)

AfterTier1(c) ==
  /\ c \in DOMAIN answerOf /\ calls[c].stage = "tier1"
  /\ \/ \E res \in answerOf[c].resolution : Resolved(c, res)
     \/ /\ answerOf[c].resolution = {}
        /\ GoesOn(c, [calls[c] EXCEPT !.stage = "propose"])
        /\ UNCHANGED rpc
  /\ UNCHANGED <<engineVars, provenance, apiEpoch, engineEpoch>>

\* Broken variant: whatever names a canonical is a candidate.
IsCandidateUnsure(proposal) == proposal.canonical # "none"

\* Only a proposal that names a canonical with HIGH confidence goes on.
IsCandidate(proposal) ==
  proposal.canonical # "none" /\ proposal.confidence = "HIGH"

\* What a resolver returns: of the stub only its table, of the model anything
\* of that shape; an error, a time-out or an unreadable answer is an abstention.
Proposed == {Abstention} \cup Proposals

Propose(c) ==
  /\ c \in DOMAIN calls /\ calls[c].stage = "propose"
  /\ \E p \in Proposed :
       IF IsCandidate(p)
       THEN /\ calls' = [calls EXCEPT ![c].stage = "tier2", ![c].proposal = p]
            /\ Ask(c, [op |-> "resolve", text |-> calls[c].text, proposed |-> {p.canonical}])
       ELSE /\ calls' = [calls EXCEPT ![c].stage = "answered", ![c].answer = "UNRESOLVED_QUESTION"]
            /\ UNCHANGED rpc
  /\ UNCHANGED <<engineVars, answerOf, provenance, apiEpoch, engineEpoch>>

AfterTier2(c) ==
  /\ c \in DOMAIN answerOf /\ calls[c].stage = "tier2"
  /\ \/ \E res \in answerOf[c].resolution : Resolved(c, res)
     \/ /\ answerOf[c].resolution = {}
        /\ GoesOn(c, [calls[c] EXCEPT !.stage = "answered", !.answer = "UNRESOLVED_QUESTION"])
        /\ UNCHANGED rpc
  /\ UNCHANGED <<engineVars, provenance, apiEpoch, engineEpoch>>

\* Broken variant: the maps are not written.
AfterPlanForgets(c) ==
  /\ c \in DOMAIN answerOf /\ calls[c].stage = "plan"
  /\ GoesOn(c, [calls[c] EXCEPT !.stage = "answered", !.answer = "planned",
                                !.request = answerOf[c].request])
  /\ UNCHANGED <<engineVars, rpc, provenance, apiEpoch, engineEpoch>>

\* Broken variant: one entry for all requests, the last one's.
AfterPlanShares(c) ==
  /\ c \in DOMAIN answerOf /\ calls[c].stage = "plan"
  /\ \E r \in answerOf[c].request, res \in calls[c].resolution :
       /\ GoesOn(c, [calls[c] EXCEPT !.stage = "answered", !.answer = "planned",
                                     !.request = {r}])
       /\ provenance' = [x \in DOMAIN provenance \cup {r} |->
            [text |-> calls[c].text, resolvedBy |-> res.resolvedBy]]
  /\ UNCHANGED <<engineVars, rpc, apiEpoch, engineEpoch>>

\* The maps are written before the client learns the request's identifier.
AfterPlan(c) ==
  /\ c \in DOMAIN answerOf /\ calls[c].stage = "plan"
  /\ \E r \in answerOf[c].request, res \in calls[c].resolution :
       /\ GoesOn(c, [calls[c] EXCEPT !.stage = "answered", !.answer = "planned",
                                     !.request = {r}])
       /\ provenance' = Put(provenance, r,
            [text |-> calls[c].text, resolvedBy |-> res.resolvedBy])
  /\ UNCHANGED <<engineVars, rpc, apiEpoch, engineEpoch>>

\* A refused plan is passed on as the engine's error.
AfterRefusal(c) ==
  /\ c \in DOMAIN answerOf /\ calls[c].stage = "plan"
  /\ answerOf[c].code = "UNRESOLVED_QUESTION"
  /\ GoesOn(c, [calls[c] EXCEPT !.stage = "answered", !.answer = "UNRESOLVED_QUESTION"])
  /\ UNCHANGED <<engineVars, rpc, provenance, apiEpoch, engineEpoch>>

\* A decision, or the engine's error code under its HTTP status.
AfterDecision(c) ==
  /\ c \in DOMAIN answerOf /\ calls[c].stage = "decide"
  /\ GoesOn(c, [calls[c] EXCEPT !.stage = "answered", !.answer = answerOf[c].code])
  /\ UNCHANGED <<engineVars, rpc, provenance, apiEpoch, engineEpoch>>

\* The body of a resolution, served or refused, cannot be read (safeBody):
\* the question counts as missed, and the thread goes on as after a miss.
ResolutionUnread(c) ==
  /\ c \in DOMAIN answerOf
  /\ \/ /\ calls[c].stage = "tier1"
        /\ GoesOn(c, [calls[c] EXCEPT !.stage = "propose"])
     \/ /\ calls[c].stage = "tier2"
        /\ GoesOn(c, [calls[c] EXCEPT !.stage = "answered", !.answer = "UNRESOLVED_QUESTION"])
  /\ UNCHANGED <<engineVars, rpc, provenance, apiEpoch, engineEpoch>>

\* Broken variant: the resolve calls wait without a time limit.
TimeOutLater(c) ==
  /\ c \in DOMAIN calls /\ calls[c].stage \in {"plan", "decide"}
  /\ calls' = [calls EXCEPT ![c].stage = "answered", ![c].answer = "ENGINE_UNAVAILABLE"]
  /\ answerOf' = Without(answerOf, c)
  /\ UNCHANGED <<engineVars, rpc, provenance, apiEpoch, engineEpoch>>

\* The engine refuses the connection, or does not answer in time; in the last
\* case the request is on its way all the same.  ENGINE_UNAVAILABLE also stands
\* for the errors of a plan or a decision whose body cannot be read, which tell
\* the client as little: INTERNAL_ERROR, or ENGINE_ERROR for a refused one.
TimeOut(c) ==
  /\ c \in DOMAIN calls /\ calls[c].stage \in Waiting
  /\ calls' = [calls EXCEPT ![c].stage = "answered", ![c].answer = "ENGINE_UNAVAILABLE"]
  /\ answerOf' = Without(answerOf, c)
  /\ UNCHANGED <<engineVars, rpc, provenance, apiEpoch, engineEpoch>>

-----------------------------------------------------------------------------
(***************************************************************************)
(* The engine serves a request it was sent.                                *)
(***************************************************************************)

Resolution(set)  == [resolution |-> set, request |-> {}, code |-> "none"]
Planned(r)       == [resolution |-> {}, request |-> {r}, code |-> "none"]
DecisionOr(code) == [resolution |-> {}, request |-> {}, code |-> code]

\* The answer reaches the thread if it is still waiting for it.
Answers(c, a) ==
  /\ rpc' = Without(rpc, c)
  /\ answerOf' = IF calls[c].stage \in Waiting THEN Put(answerOf, c, a) ELSE answerOf
  /\ UNCHANGED <<calls, provenance, apiEpoch, engineEpoch>>

ServeResolve(c) ==
  /\ c \in DOMAIN rpc /\ rpc[c].op = "resolve"
  /\ Answers(c, Resolution(Resolve(rpc[c].text, rpc[c].proposed)))
  /\ UNCHANGED engineVars

\* A canonical that is no policy and no predicate, which a registered question
\* may name: the request is refused, and changes nothing.
ServeUnknown(c) ==
  /\ c \in DOMAIN rpc /\ rpc[c].op \in {"plan", "evaluate"}
  /\ KindOf(rpc[c].canonical) = "NONE"
  /\ Answers(c, DecisionOr("UNRESOLVED_QUESTION"))
  /\ UNCHANGED engineVars

ServePlan(c) ==
  /\ c \in DOMAIN rpc /\ rpc[c].op = "plan" /\ KindOf(rpc[c].canonical) # "NONE"
  /\ \E r \in Requests :
       /\ Challenges!Issue(r)
       /\ store' = Put(store, r, [call |-> c, canonical |-> rpc[c].canonical])
       /\ Answers(c, Planned(r))
  /\ UNCHANGED log

ServeEvaluate(c) ==
  /\ c \in DOMAIN rpc /\ rpc[c].op = "evaluate" /\ KindOf(rpc[c].canonical) # "NONE"
  /\ \E decision \in Verdicts :
       /\ log' = Put(log, c, [decision |-> decision, canonical |-> rpc[c].canonical, by |-> "POLICY",
                              text |-> rpc[c].text, resolvedBy |-> rpc[c].resolvedBy])
       /\ Answers(c, DecisionOr(decision))
  /\ UNCHANGED <<issued, open, accepted, store>>

\* The audit record of a presentation.  The question and tier the API sent
\* along go into the record of an evaluated one only.
AuditOf(c, decision, by) ==
  [decision |-> decision, canonical |-> store[rpc[c].request].canonical, by |-> by,
   text       |-> IF by = "POLICY" THEN rpc[c].text ELSE Unknown.text,
   resolvedBy |-> IF by = "POLICY" THEN rpc[c].resolvedBy ELSE Unknown.resolvedBy]

Audited(c, decision, by) ==
  log' = Put(log, c, AuditOf(c, decision, by)) /\ Answers(c, DecisionOr(decision))

\* Broken variant: a replay is answered without a record.
ServeReplayUnaudited(c) ==
  /\ c \in DOMAIN rpc /\ rpc[c].op = "present"
  /\ rpc[c].request \in DOMAIN store \ open
  /\ Answers(c, DecisionOr("REPLAY_DETECTED"))
  /\ UNCHANGED engineVars

ServeReplay(c) ==
  /\ c \in DOMAIN rpc /\ rpc[c].op = "present"
  /\ rpc[c].request \in DOMAIN store \ open
  /\ Audited(c, "REPLAY_DETECTED", "REPLAY")
  /\ UNCHANGED <<issued, open, accepted, store>>

\* The presentation is accepted and evaluated, fails a check, or is too late.
ServePresentation(c) ==
  /\ c \in DOMAIN rpc /\ rpc[c].op = "present"
  /\ LET r == rpc[c].request
     IN \/ /\ Challenges!Accept(r, c)
           /\ \E decision \in Verdicts : Audited(c, decision, "POLICY")
        \/ /\ r \in DOMAIN store
           /\ Audited(c, "DENY", "CHECK")
           /\ UNCHANGED <<issued, open, accepted>>
        \/ /\ Answers(c, DecisionOr(IF r \in DOMAIN store THEN "EXPIRED_NONCE" ELSE "UNKNOWN_REQUEST"))
           /\ UNCHANGED <<issued, open, accepted, log>>
  /\ UNCHANGED store

-----------------------------------------------------------------------------

\* The API restarts: its threads and maps are gone, what it sent is not.
RestartApi ==
  /\ apiEpoch < MaxApiRestarts
  /\ apiEpoch' = apiEpoch + 1
  /\ calls' = [c \in DOMAIN calls |->
                 IF calls[c].stage \in Ended THEN calls[c] ELSE [calls[c] EXCEPT !.stage = "lost"]]
  /\ answerOf' = << >>
  /\ provenance' = << >>
  /\ UNCHANGED <<engineVars, rpc, engineEpoch>>

\* The engine restarts: store, log and the requests it had not served are gone.
RestartEngine ==
  /\ engineEpoch < MaxEngineRestarts
  /\ engineEpoch' = engineEpoch + 1
  /\ Challenges!Forget
  /\ store' = << >> /\ log' = << >> /\ rpc' = << >>
  /\ UNCHANGED <<answerOf, calls, provenance, apiEpoch>>

Thread(c) ==
  \/ AfterTier1(c) \/ Propose(c) \/ AfterTier2(c)
  \/ AfterPlan(c) \/ AfterRefusal(c) \/ AfterDecision(c)
  \/ ResolutionUnread(c) \/ TimeOut(c)

Serve(c) ==
  \/ ServeResolve(c) \/ ServeUnknown(c) \/ ServePlan(c) \/ ServeEvaluate(c)
  \/ ServeReplay(c) \/ ServePresentation(c)

Next ==
  \/ \E c \in Calls :
       \/ \E kind \in {"question", "decision"}, text \in Texts : ReceiveQuestion(c, kind, text)
       \/ \E r \in Learnt \cup MadeUp : ReceivePresentation(c, r)
       \/ Thread(c)
       \/ Serve(c)
  \/ RestartApi
  \/ RestartEngine

Spec == Init /\ [][Next]_vars

\* Servlet threads run, and every call they make has a time limit (2 s to
\* connect, 5 s to read; the model's client its own); the engine owes nothing.
FairSpec == Spec /\ \A c \in Calls : WF_vars(Thread(c))

=============================================================================
