---------------------------- MODULE GatewayProofs ---------------------------
(***************************************************************************)
(* The guardrail of the API, for any number of calls, any registry, any    *)
(* model and any delay of the engine.                                      *)
(***************************************************************************)
EXTENDS GatewaySafety, TLAPS

Fields ==
  {"kind", "stage", "text", "proposal", "resolution", "request", "answer", "epoch", "engineEpoch"}

\* What an answer of the engine may say.
Codes == {"none", "ALLOW", "DENY", "UNKNOWN", "REPLAY_DETECTED", "EXPIRED_NONCE",
          "UNKNOWN_REQUEST", "UNRESOLVED_QUESTION"}

\* Threads that have no resolution yet, and so no right to act.
Early == {"tier1", "propose", "tier2"}

\* Nothing has been done, or is being done, in the name of c.
Untouched(c) == c \notin DOMAIN log /\ \A r \in DOMAIN store : store[r].call # c

\* Messages, records and challenges are of calls there are.
Known == /\ DOMAIN rpc \subseteq DOMAIN calls /\ DOMAIN answerOf \subseteq DOMAIN calls
         /\ DOMAIN log \subseteq DOMAIN calls
         /\ \A r \in DOMAIN store : store[r].call \in DOMAIN calls

\* A thread reads one answer, to the request it has sent last.
Dialogue(c) ==
  /\ DOMAIN calls[c] = Fields
  /\ calls[c].proposal = [canonical |-> calls[c].proposal.canonical,
                          confidence |-> calls[c].proposal.confidence]
  /\ c \in DOMAIN answerOf =>
       calls[c].stage \in Waiting /\ c \notin DOMAIN rpc /\ answerOf[c].code \in Codes
  /\ calls[c].stage = "propose" => c \notin DOMAIN rpc
  /\ c \in DOMAIN rpc /\ rpc[c].op = "present" => calls[c].kind = "presentation"

\* What the engine is asked, and says, in the two tiers.
Tiers(c) ==
  /\ calls[c].stage = "tier1" =>
       /\ c \in DOMAIN rpc => rpc[c] = [op |-> "resolve", text |-> calls[c].text, proposed |-> {}]
       /\ c \in DOMAIN answerOf => answerOf[c].resolution = ResolveTier1(calls[c].text)
  /\ calls[c].stage = "tier2" =>
       /\ IsCandidate(calls[c].proposal)
       /\ c \in DOMAIN rpc =>
            rpc[c] = [op |-> "resolve", text |-> calls[c].text,
                      proposed |-> {calls[c].proposal.canonical}]
       /\ c \in DOMAIN answerOf =>
            answerOf[c].resolution = Resolve(calls[c].text, {calls[c].proposal.canonical})

\* What is done in the name of c it has earned; a refused call does nothing,
\* whether it is refused before or by the request that was to act.
ActsOnMerit(c) ==
  /\ calls[c].stage \in Early => Untouched(c)
  /\ c \in DOMAIN rpc /\ rpc[c].op \in {"plan", "evaluate"} =>
       Earned(c, rpc[c].canonical) /\ Untouched(c)
  /\ c \in DOMAIN answerOf /\ answerOf[c].code = "UNRESOLVED_QUESTION" => Untouched(c)
  /\ c \in DOMAIN log /\ calls[c].kind = "decision" => Earned(c, log[c].canonical)
  /\ \A r \in DOMAIN store : store[r].call = c => Earned(c, store[r].canonical)
  /\ calls[c].answer = "UNRESOLVED_QUESTION" =>
       Untouched(c) /\ c \notin DOMAIN rpc /\ calls[c].stage = "answered"

CallInv(c) == Dialogue(c) /\ Tiers(c) /\ ActsOnMerit(c)

GuardInv == Known /\ \A c \in DOMAIN calls : CallInv(c)

-----------------------------------------------------------------------------

\* Nothing that belongs to d changes.
Left(d) ==
  /\ calls'[d] = calls[d]
  /\ d \in DOMAIN rpc' <=> d \in DOMAIN rpc
  /\ d \in DOMAIN rpc => rpc'[d] = rpc[d]
  /\ d \in DOMAIN answerOf' <=> d \in DOMAIN answerOf
  /\ d \in DOMAIN answerOf => answerOf'[d] = answerOf[d]
  /\ d \in DOMAIN log' <=> d \in DOMAIN log
  /\ d \in DOMAIN log => log'[d] = log[d]
  /\ \A r \in DOMAIN store' : store'[r].call = d => r \in DOMAIN store /\ store'[r] = store[r]

\* A step in the name of one call.
LEMMA OneCall ==
  ASSUME GuardInv, NEW c, DOMAIN calls' = DOMAIN calls \cup {c},
         \A d \in DOMAIN calls : d # c => Left(d),
         Known', CallInv(c)'
  PROVE  GuardInv'
<1> SUFFICES ASSUME NEW d \in DOMAIN calls, d # c PROVE CallInv(d)'
  BY DEF GuardInv
<1>1. CallInv(d) /\ Left(d)
  BY DEF GuardInv
<1>2. Dialogue(d)'
  BY <1>1 DEF CallInv, Dialogue, Left
<1>3. Tiers(d)'
  BY <1>1 DEF CallInv, Tiers, Left
<1>4. Untouched(d) => Untouched(d)'
  BY <1>1 DEF Untouched, Left
<1>5. \A x : Earned(d, x) => Earned(d, x)'
  BY <1>1 DEF Earned, Left
<1>6. ActsOnMerit(d)'
  BY <1>1, <1>4, <1>5 DEF CallInv, ActsOnMerit, Left
<1>7. QED BY <1>2, <1>3, <1>6 DEF CallInv

\* A thread's step leaves what the engine has, and the other threads.
ThreadFrame(c) ==
  /\ c \in DOMAIN calls /\ UNCHANGED engineVars
  /\ DOMAIN calls' = DOMAIN calls /\ \A d \in DOMAIN calls : d # c => calls'[d] = calls[d]
  /\ DOMAIN answerOf' = DOMAIN answerOf \ {c}
  /\ \A d \in DOMAIN answerOf' : answerOf'[d] = answerOf[d]

LEMMA FrameLeaves ==
  ASSUME GuardInv, NEW c, ThreadFrame(c),
         (UNCHANGED rpc) \/ (\E m : Ask(c, m))
  PROVE  (\A d \in DOMAIN calls : d # c => Left(d)) /\ Known'
<1>1. /\ DOMAIN rpc \subseteq DOMAIN rpc' /\ DOMAIN rpc' \subseteq DOMAIN rpc \cup {c}
      /\ \A d \in DOMAIN rpc : d # c => rpc'[d] = rpc[d]
  BY DEF Ask, Put
<1>2. \A d \in DOMAIN calls : d # c => Left(d)
  BY <1>1 DEF ThreadFrame, Left, engineVars
<1>3. Known'
  BY <1>1 DEF ThreadFrame, GuardInv, Known, engineVars
<1>4. QED BY <1>2, <1>3

LEMMA GuardReceiveQuestion ==
  ASSUME GuardInv, NEW c \in Calls, NEW kind \in {"question", "decision"}, NEW text \in Texts,
         ReceiveQuestion(c, kind, text)
  PROVE  GuardInv'
<1> DEFINE h == [kind |-> kind, stage |-> "tier1", text |-> text, proposal |-> Abstention,
                 resolution |-> {}, request |-> {}, answer |-> "none",
                 epoch |-> apiEpoch, engineEpoch |-> engineEpoch]
           m == [op |-> "resolve", text |-> text, proposed |-> {}]
<1>1. /\ c \notin DOMAIN calls /\ calls' = Put(calls, c, h) /\ rpc' = Put(rpc, c, m)
      /\ UNCHANGED <<log, store, answerOf>>
  BY DEF ReceiveQuestion, Ask, engineVars
<1>2. /\ h.kind = kind /\ h.stage = "tier1" /\ h.text = text /\ h.proposal = Abstention
      /\ h.answer = "none" /\ DOMAIN h = Fields
  BY DEF Fields
<1>3. m.op = "resolve" /\ m = [op |-> "resolve", text |-> text, proposed |-> {}]
  OBVIOUS
<1> HIDE DEF h, m
<1>4. /\ DOMAIN calls' = DOMAIN calls \cup {c} /\ calls'[c] = h
      /\ \A d \in DOMAIN calls : calls'[d] = calls[d]
      /\ DOMAIN rpc' = DOMAIN rpc \cup {c} /\ rpc'[c] = m
      /\ \A d \in DOMAIN rpc : d # c => rpc'[d] = rpc[d]
  BY <1>1 DEF Put
<1>5. c \notin DOMAIN answerOf /\ c \notin DOMAIN log /\ \A r \in DOMAIN store : store[r].call # c
  BY <1>1 DEF GuardInv, Known
<1>6. Known' /\ \A d \in DOMAIN calls : d # c => Left(d)
  BY <1>1, <1>4 DEF GuardInv, Known, Left
<1>7. Dialogue(c)'
  BY <1>1, <1>2, <1>3, <1>4, <1>5 DEF Dialogue, Abstention
<1>8. Tiers(c)'
  BY <1>1, <1>2, <1>3, <1>4, <1>5 DEF Tiers
<1>9. ActsOnMerit(c)'
  BY <1>1, <1>2, <1>3, <1>4, <1>5 DEF ActsOnMerit, Untouched
<1>10. QED BY <1>4, <1>6, <1>7, <1>8, <1>9, OneCall DEF CallInv

LEMMA GuardReceivePresentation ==
  ASSUME GuardInv, NEW c \in Calls, NEW r, ReceivePresentation(c, r)
  PROVE  GuardInv'
<1>1. PICK known : 
        /\ c \notin DOMAIN calls
        /\ calls' = Put(calls, c,
             [kind |-> "presentation", stage |-> "decide", text |-> known.text,
              proposal |-> Abstention, resolution |-> {}, request |-> {r}, answer |-> "none",
              epoch |-> apiEpoch, engineEpoch |-> engineEpoch])
        /\ rpc' = Put(rpc, c, [op |-> "present", request |-> r,
                               text |-> known.text, resolvedBy |-> known.resolvedBy])
        /\ UNCHANGED <<log, store, answerOf>>
  BY DEF ReceivePresentation, Ask, engineVars
<1> DEFINE h == [kind |-> "presentation", stage |-> "decide", text |-> known.text,
                 proposal |-> Abstention, resolution |-> {}, request |-> {r}, answer |-> "none",
                 epoch |-> apiEpoch, engineEpoch |-> engineEpoch]
           m == [op |-> "present", request |-> r,
                 text |-> known.text, resolvedBy |-> known.resolvedBy]
<1>2. /\ h.kind = "presentation" /\ h.stage = "decide" /\ h.proposal = Abstention
      /\ h.answer = "none" /\ DOMAIN h = Fields /\ m.op = "present"
  BY DEF Fields
<1>3. calls' = Put(calls, c, h) /\ rpc' = Put(rpc, c, m)
  BY <1>1
<1> HIDE DEF h, m
<1>4. /\ DOMAIN calls' = DOMAIN calls \cup {c} /\ calls'[c] = h
      /\ \A d \in DOMAIN calls : d # c => calls'[d] = calls[d]
      /\ DOMAIN rpc' = DOMAIN rpc \cup {c} /\ rpc'[c] = m
      /\ \A d \in DOMAIN rpc : d # c => rpc'[d] = rpc[d]
  BY <1>3 DEF Put
<1>5. c \notin DOMAIN answerOf /\ c \notin DOMAIN log /\ \A s \in DOMAIN store : store[s].call # c
  BY <1>1 DEF GuardInv, Known
<1>6. Known' /\ \A d \in DOMAIN calls : d # c => Left(d)
  BY <1>1, <1>4 DEF GuardInv, Known, Left
<1>7. Dialogue(c)'
  BY <1>1, <1>2, <1>4, <1>5 DEF Dialogue, Abstention
<1>8. Tiers(c)'
  BY <1>2, <1>4 DEF Tiers
<1>9. ActsOnMerit(c)'
  BY <1>1, <1>2, <1>4, <1>5 DEF ActsOnMerit, Untouched, Early
<1>10. QED BY <1>4, <1>6, <1>7, <1>8, <1>9, OneCall DEF CallInv

\* What tier 1 or the membership gate has resolved, the question has earned.
LEMMA ResolutionIsEarned ==
  ASSUME GuardInv, NEW c \in DOMAIN answerOf, calls[c].stage \in {"tier1", "tier2"},
         NEW res \in answerOf[c].resolution
  PROVE  Earned(c, res.canonical)
<1>1. CallInv(c) /\ c \in DOMAIN calls
  BY DEF GuardInv, Known
<1>2. CASE calls[c].stage = "tier1"
  <2>1. res \in ResolveTier1(calls[c].text)
    BY <1>1, <1>2 DEF CallInv, Tiers
  <2>2. QED BY <2>1 DEF Earned
<1>3. CASE calls[c].stage = "tier2"
  <2> DEFINE x == calls[c].proposal.canonical
  <2>1. /\ res \in Resolve(calls[c].text, {x}) /\ calls[c].proposal.confidence = "HIGH"
        /\ calls[c].proposal = [canonical |-> x, confidence |-> calls[c].proposal.confidence]
    BY <1>1, <1>3 DEF CallInv, Tiers, Dialogue, IsCandidate
  <2>2. CASE ResolveTier1(calls[c].text) # {}
    <3>1. res \in ResolveTier1(calls[c].text)
      BY <2>1, <2>2 DEF Resolve
    <3>2. QED BY <2>2, <3>1 DEF Earned
  <2>3. CASE ResolveTier1(calls[c].text) = {}
    <3>1. res \in ValidateProposal(x)
      BY <2>1, <2>3 DEF Resolve
    <3>2. res.canonical = x /\ KindOf(x) # "NONE"
      BY <3>1 DEF ValidateProposal
    <3>3. x \in Canonicals
      BY <3>2 DEF KindOf, Canonicals
    <3>4. QED BY <2>1, <2>3, <3>2, <3>3 DEF Earned
  <2>4. QED BY <2>2, <2>3
<1>4. QED BY <1>2, <1>3

LEMMA GuardResolved ==
  ASSUME GuardInv, NEW c \in DOMAIN answerOf, calls[c].stage \in {"tier1", "tier2"},
         NEW res \in answerOf[c].resolution, Resolved(c, res), UNCHANGED engineVars
  PROVE  GuardInv'
<1>1. CallInv(c) /\ c \in DOMAIN calls /\ DOMAIN calls[c] = Fields
  BY DEF GuardInv, Known, CallInv, Dialogue
<1>2. /\ calls' = [calls EXCEPT ![c] = [calls[c] EXCEPT !.resolution = {res},
                      !.stage = IF calls[c].kind = "question" THEN "plan" ELSE "decide"]]
      /\ answerOf' = Without(answerOf, c)
  BY DEF Resolved, GoesOn
<1>3. ThreadFrame(c)
  BY <1>1, <1>2 DEF ThreadFrame, Without
<1>4. PICK m : Ask(c, m) /\ m.op \in {"plan", "evaluate"} /\ m.canonical = res.canonical
  BY DEF Resolved, Act
<1>5. rpc'[c] = m /\ c \in DOMAIN rpc'
  BY <1>4 DEF Ask, Put
<1>6. /\ DOMAIN calls'[c] = Fields /\ calls'[c].text = calls[c].text
      /\ calls'[c].proposal = calls[c].proposal /\ calls'[c].kind = calls[c].kind
      /\ calls'[c].answer = calls[c].answer /\ calls'[c].stage \in {"plan", "decide"}
  BY <1>1, <1>2 DEF Fields
<1>7. calls[c].answer # "UNRESOLVED_QUESTION"
  BY <1>1 DEF CallInv, ActsOnMerit
<1>8. Earned(c, res.canonical)
  BY ResolutionIsEarned
<1>9. Untouched(c)
  BY <1>1 DEF CallInv, ActsOnMerit, Early
<1>10. Untouched(c)' /\ c \notin DOMAIN answerOf'
  BY <1>3, <1>9 DEF ThreadFrame, Untouched, engineVars
<1>11. Earned(c, res.canonical)'
  BY <1>6, <1>8 DEF Earned
<1>12. Dialogue(c)'
  BY <1>1, <1>4, <1>5, <1>6, <1>10 DEF CallInv, Dialogue
<1>13. Tiers(c)'
  BY <1>6 DEF Tiers
<1>14. ActsOnMerit(c)'
  BY <1>4, <1>5, <1>6, <1>7, <1>10, <1>11 DEF ActsOnMerit, Untouched
<1>15. CallInv(c)'
  BY <1>12, <1>13, <1>14 DEF CallInv
<1>16. (\A d \in DOMAIN calls : d # c => Left(d)) /\ Known'
  BY <1>3, <1>4, FrameLeaves
<1>17. QED BY <1>3, <1>15, <1>16, OneCall DEF ThreadFrame

\* A thread goes on without acting: it asks nobody, and is refused only if
\* nothing has been done in its name, or will be.
LEMMA GuardIdle ==
  ASSUME GuardInv, NEW c, ThreadFrame(c), UNCHANGED rpc,
         DOMAIN calls'[c] = Fields, calls'[c].text = calls[c].text,
         calls'[c].proposal = calls[c].proposal, calls'[c].kind = calls[c].kind,
         calls'[c].answer = "UNRESOLVED_QUESTION" =>
           Untouched(c) /\ c \notin DOMAIN rpc /\ calls'[c].stage = "answered",
         \/ calls'[c].stage = "answered"
         \/ calls'[c].stage = "propose" /\ c \notin DOMAIN rpc /\ calls[c].stage = "tier1"
  PROVE  GuardInv'
<1>1. CallInv(c) /\ c \in DOMAIN calls
  BY DEF GuardInv, ThreadFrame
<1>2. c \notin DOMAIN answerOf' /\ UNCHANGED <<log, store>>
  BY DEF ThreadFrame, engineVars
<1>3. Dialogue(c)'
  BY <1>1, <1>2 DEF CallInv, Dialogue
<1>4. Tiers(c)'
  BY <1>2 DEF Tiers
<1>5. /\ \A x : Earned(c, x)' <=> Earned(c, x)
      /\ Untouched(c)' <=> Untouched(c)
  BY <1>2 DEF Earned, Untouched
<1>6. ActsOnMerit(c)'
  BY <1>1, <1>2, <1>5 DEF CallInv, ActsOnMerit, Early
<1>7. CallInv(c)'
  BY <1>3, <1>4, <1>6 DEF CallInv
<1>8. (\A d \in DOMAIN calls : d # c => Left(d)) /\ Known'
  BY FrameLeaves
<1>9. QED BY <1>7, <1>8, OneCall DEF ThreadFrame

\* A thread goes on to the model, or is refused, without a resolution.
LEMMA GuardMissed ==
  ASSUME GuardInv, NEW c \in DOMAIN answerOf, UNCHANGED <<engineVars, rpc>>,
         \/ /\ calls[c].stage = "tier1"
            /\ GoesOn(c, [calls[c] EXCEPT !.stage = "propose"])
         \/ /\ calls[c].stage = "tier2"
            /\ GoesOn(c, [calls[c] EXCEPT !.stage = "answered", !.answer = "UNRESOLVED_QUESTION"])
  PROVE  GuardInv'
<1>1. c \in DOMAIN calls /\ CallInv(c)
  BY DEF GuardInv, Known
<1>2. /\ DOMAIN calls[c] = Fields /\ c \notin DOMAIN rpc
      /\ Untouched(c) /\ calls[c].answer # "UNRESOLVED_QUESTION"
  BY <1>1 DEF CallInv, Dialogue, ActsOnMerit, Early
<1>3. ThreadFrame(c)
  BY <1>1 DEF ThreadFrame, GoesOn, Without
<1>4. /\ DOMAIN calls'[c] = Fields /\ calls'[c].text = calls[c].text
      /\ calls'[c].proposal = calls[c].proposal /\ calls'[c].kind = calls[c].kind
      /\ \/ calls'[c].stage = "answered"
         \/ /\ calls'[c].stage = "propose" /\ calls'[c].answer = calls[c].answer
            /\ calls[c].stage = "tier1"
  BY <1>1, <1>2 DEF GoesOn, Fields
<1>5. QED BY <1>2, <1>3, <1>4, GuardIdle

LEMMA GuardAfterResolve ==
  ASSUME GuardInv, NEW c, AfterTier1(c) \/ AfterTier2(c) \/ ResolutionUnread(c)
  PROVE  GuardInv'
<1>1. ASSUME calls[c].stage \in {"tier1", "tier2"}, c \in DOMAIN answerOf, UNCHANGED engineVars,
             NEW res \in answerOf[c].resolution, Resolved(c, res)
      PROVE GuardInv'
  BY <1>1, GuardResolved
<1>2. CASE AfterTier1(c)
  BY <1>1, <1>2, GuardMissed DEF AfterTier1
<1>3. CASE AfterTier2(c)
  BY <1>1, <1>3, GuardMissed DEF AfterTier2
<1>4. CASE ResolutionUnread(c)
  BY <1>4, GuardMissed DEF ResolutionUnread
<1>5. QED BY <1>2, <1>3, <1>4

LEMMA GuardAfterAnswer ==
  ASSUME GuardInv, NEW c, AfterPlan(c) \/ AfterRefusal(c) \/ AfterDecision(c) \/ TimeOut(c)
  PROVE  GuardInv'
<1>1. c \in DOMAIN calls /\ CallInv(c) /\ DOMAIN calls[c] = Fields
  BY DEF AfterPlan, AfterRefusal, AfterDecision, TimeOut, GuardInv, Known, CallInv, Dialogue
<1>2. c \in DOMAIN answerOf /\ answerOf[c].code = "UNRESOLVED_QUESTION" =>
        Untouched(c) /\ c \notin DOMAIN rpc
  BY <1>1 DEF CallInv, Dialogue, ActsOnMerit
<1>3. /\ ThreadFrame(c) /\ UNCHANGED rpc
      /\ DOMAIN calls'[c] = Fields /\ calls'[c].text = calls[c].text
      /\ calls'[c].proposal = calls[c].proposal /\ calls'[c].kind = calls[c].kind
      /\ calls'[c].stage = "answered"
      /\ \/ calls'[c].answer # "UNRESOLVED_QUESTION"
         \/ c \in DOMAIN answerOf /\ answerOf[c].code = "UNRESOLVED_QUESTION"
  <2>1. ASSUME NEW r, c \in DOMAIN answerOf, UNCHANGED <<engineVars, rpc>>,
               GoesOn(c, [calls[c] EXCEPT !.stage = "answered", !.answer = "planned",
                                          !.request = {r}])
        PROVE <1>3
    BY <1>1, <2>1 DEF GoesOn, ThreadFrame, Without, Fields
  <2>2. ASSUME c \in DOMAIN answerOf, UNCHANGED <<engineVars, rpc>>,
               GoesOn(c, [calls[c] EXCEPT !.stage = "answered", !.answer = answerOf[c].code])
        PROVE <1>3
    BY <1>1, <2>2 DEF GoesOn, ThreadFrame, Without, Fields
  <2>3. CASE AfterPlan(c)
    BY <2>1, <2>3 DEF AfterPlan
  <2>4. CASE AfterRefusal(c) \/ AfterDecision(c)
    BY <2>2, <2>4 DEF AfterRefusal, AfterDecision
  <2>5. CASE TimeOut(c)
    BY <1>1, <2>5 DEF TimeOut, ThreadFrame, Without, Fields
  <2>6. QED BY <2>3, <2>4, <2>5
<1>4. QED BY <1>2, <1>3, GuardIdle

\* The model proposes: a candidate is sent to the gate, anything else refused.
LEMMA GuardPropose ==
  ASSUME GuardInv, NEW c, Propose(c)
  PROVE  GuardInv'
<1>1. /\ c \in DOMAIN calls /\ calls[c].stage = "propose" /\ CallInv(c)
      /\ DOMAIN calls[c] = Fields
  BY DEF Propose, GuardInv, CallInv, Dialogue
<1>2. /\ c \notin DOMAIN rpc /\ c \notin DOMAIN answerOf /\ Untouched(c)
      /\ calls[c].answer # "UNRESOLVED_QUESTION"
  BY <1>1 DEF CallInv, Dialogue, ActsOnMerit, Early, Waiting
<1>3. UNCHANGED <<engineVars, answerOf>>
  BY DEF Propose
<1>4. PICK p \in Proposed :
        IF IsCandidate(p)
        THEN /\ calls' = [calls EXCEPT ![c].stage = "tier2", ![c].proposal = p]
             /\ Ask(c, [op |-> "resolve", text |-> calls[c].text, proposed |-> {p.canonical}])
        ELSE /\ calls' = [calls EXCEPT ![c].stage = "answered",
                                       ![c].answer = "UNRESOLVED_QUESTION"]
             /\ UNCHANGED rpc
  BY DEF Propose
<1>5. p = [canonical |-> p.canonical, confidence |-> p.confidence]
  BY ProposalAssumption DEF Proposed, Abstention
<1>6. ThreadFrame(c)
  BY <1>1, <1>2, <1>3, <1>4 DEF ThreadFrame
<1>7. CASE IsCandidate(p)
  <2> DEFINE m == [op |-> "resolve", text |-> calls[c].text, proposed |-> {p.canonical}]
  <2>1. /\ calls' = [calls EXCEPT ![c].stage = "tier2", ![c].proposal = p] /\ Ask(c, m)
    BY <1>4, <1>7
  <2>2. /\ DOMAIN calls'[c] = Fields /\ calls'[c].text = calls[c].text
        /\ calls'[c].proposal = p /\ calls'[c].kind = calls[c].kind
        /\ calls'[c].answer = calls[c].answer /\ calls'[c].stage = "tier2"
    BY <1>1, <2>1 DEF Fields
  <2>3. m.op = "resolve"
    OBVIOUS
  <2> HIDE DEF m
  <2>4. rpc'[c] = m /\ c \in DOMAIN rpc' /\ c \notin DOMAIN answerOf'
    BY <1>2, <1>3, <2>1 DEF Ask, Put
  <2>5. Untouched(c)'
    BY <1>2, <1>3 DEF Untouched, engineVars
  <2>6. Dialogue(c)'
    BY <1>5, <2>2, <2>3, <2>4 DEF Dialogue
  <2>7. Tiers(c)'
    BY <1>2, <1>7, <2>2, <2>4 DEF Tiers, m
  <2>8. ActsOnMerit(c)'
    BY <1>2, <2>2, <2>3, <2>4, <2>5 DEF ActsOnMerit, Untouched
  <2>9. CallInv(c)'
    BY <2>6, <2>7, <2>8 DEF CallInv
  <2>10. (\A d \in DOMAIN calls : d # c => Left(d)) /\ Known'
    BY <1>6, <2>1, FrameLeaves
  <2>11. QED BY <1>6, <2>9, <2>10, OneCall DEF ThreadFrame
<1>8. CASE ~IsCandidate(p)
  <2>1. /\ DOMAIN calls'[c] = Fields /\ calls'[c].text = calls[c].text
        /\ calls'[c].proposal = calls[c].proposal /\ calls'[c].kind = calls[c].kind
        /\ calls'[c].stage = "answered" /\ UNCHANGED rpc
    BY <1>1, <1>4, <1>8 DEF Fields
  <2>2. QED BY <1>2, <1>6, <2>1, GuardIdle
<1>9. QED BY <1>7, <1>8

\* The engine serves the request of c, and answers whoever still waits.
LEMMA GuardServed ==
  ASSUME GuardInv, NEW c \in DOMAIN rpc, NEW a, Answers(c, a), a.code \in Codes,
         calls[c].stage = "tier1" => a.resolution = ResolveTier1(calls[c].text),
         calls[c].stage = "tier2" =>
           a.resolution = Resolve(calls[c].text, {calls[c].proposal.canonical}),
         a.code = "UNRESOLVED_QUESTION" => UNCHANGED <<store, log>> /\ Untouched(c),
         UNCHANGED <<store, log>> \/ calls[c].stage \notin Early,
         \/ UNCHANGED store
         \/ \E r, x : store' = Put(store, r, [call |-> c, canonical |-> x]) /\ Earned(c, x),
         \/ UNCHANGED log
         \/ \E e : /\ log' = Put(log, c, e)
                   /\ calls[c].kind = "decision" => Earned(c, e.canonical)
  PROVE  GuardInv'
<1>1. c \in DOMAIN calls /\ CallInv(c) /\ UNCHANGED calls
  BY DEF GuardInv, Known, Answers
<1>2. /\ DOMAIN rpc' = DOMAIN rpc \ {c} /\ \A d \in DOMAIN rpc' : rpc'[d] = rpc[d]
      /\ DOMAIN answerOf \subseteq DOMAIN answerOf' /\ DOMAIN answerOf' \subseteq DOMAIN answerOf \cup {c}
      /\ \A d \in DOMAIN answerOf : d # c => answerOf'[d] = answerOf[d]
      /\ c \in DOMAIN answerOf' => calls[c].stage \in Waiting /\ answerOf'[c] = a
  BY <1>1 DEF Answers, Without, Put, CallInv, Dialogue
<1>3. /\ DOMAIN log \subseteq DOMAIN log' /\ DOMAIN log' \subseteq DOMAIN log \cup {c}
      /\ \A d \in DOMAIN log : d # c => log'[d] = log[d]
  BY DEF Put
<1>4. \A r \in DOMAIN store' :
        \/ r \in DOMAIN store /\ store'[r] = store[r]
        \/ store'[r].call = c /\ Earned(c, store'[r].canonical)
  <2> SUFFICES ASSUME NEW k, NEW x, store' = Put(store, k, [call |-> c, canonical |-> x]),
                      Earned(c, x), NEW r \in DOMAIN store'
               PROVE  \/ r \in DOMAIN store /\ store'[r] = store[r]
                      \/ store'[r].call = c /\ Earned(c, store'[r].canonical)
    OBVIOUS
  <2>1. CASE r = k
    BY <2>1 DEF Put
  <2>2. CASE r # k
    BY <2>2 DEF Put
  <2>3. QED BY <2>1, <2>2
<1>5. \A d \in DOMAIN calls : d # c => Left(d)
  BY <1>1, <1>2, <1>3, <1>4 DEF Left
<1>6. Known'
  BY <1>1, <1>2, <1>3, <1>4 DEF GuardInv, Known
<1>7. \A x : Earned(c, x)' <=> Earned(c, x)
  BY <1>1 DEF Earned
<1>8. Dialogue(c)'
  BY <1>1, <1>2 DEF CallInv, Dialogue
<1>9. Tiers(c)'
  BY <1>1, <1>2 DEF CallInv, Tiers
<1>10. /\ calls[c].stage \in Early => Untouched(c)
       /\ calls[c].answer # "UNRESOLVED_QUESTION"
       /\ c \in DOMAIN log /\ calls[c].kind = "decision" => Earned(c, log[c].canonical)
       /\ \A r \in DOMAIN store : store[r].call = c => Earned(c, store[r].canonical)
  BY <1>1 DEF CallInv, ActsOnMerit
<1>11. calls[c].stage \in Early => Untouched(c)'
  BY <1>10 DEF Untouched
<1>12. c \in DOMAIN log' /\ calls[c].kind = "decision" => Earned(c, log'[c].canonical)
  BY <1>10 DEF Put
<1>13. \A r \in DOMAIN store' : store'[r].call = c => Earned(c, store'[r].canonical)
  BY <1>4, <1>10
<1>14. c \in DOMAIN answerOf' /\ answerOf'[c].code = "UNRESOLVED_QUESTION" => Untouched(c)'
  BY <1>2 DEF Untouched
<1>15. ActsOnMerit(c)'
  BY <1>1, <1>2, <1>7, <1>10, <1>11, <1>12, <1>13, <1>14 DEF ActsOnMerit
<1>16. CallInv(c)'
  BY <1>8, <1>9, <1>15 DEF CallInv
<1>17. QED BY <1>1, <1>5, <1>6, <1>16, OneCall

\* What a request tells of the thread that sent it.
LEMMA RequestTells ==
  ASSUME GuardInv, NEW c \in DOMAIN rpc
  PROVE  /\ rpc[c].op # "resolve" => calls[c].stage \notin Early
         /\ rpc[c].op \in {"plan", "evaluate"} => Earned(c, rpc[c].canonical) /\ Untouched(c)
         /\ rpc[c].op = "present" => calls[c].kind = "presentation"
<1>1. CallInv(c)
  BY DEF GuardInv, Known
<1>2. rpc[c].op # "resolve" => calls[c].stage \notin Early
  BY <1>1 DEF CallInv, Dialogue, Tiers, Early
<1>3. QED BY <1>1, <1>2 DEF CallInv, Dialogue, ActsOnMerit

LEMMA GuardServeResolve ==
  ASSUME GuardInv, NEW c, ServeResolve(c)
  PROVE  GuardInv'
<1> DEFINE a == Resolution(Resolve(rpc[c].text, rpc[c].proposed))
<1>1. /\ c \in DOMAIN rpc /\ Answers(c, a) /\ UNCHANGED <<store, log>> /\ CallInv(c)
  BY DEF ServeResolve, engineVars, GuardInv, Known
<1>2. /\ a.code \in Codes /\ a.code # "UNRESOLVED_QUESTION"
      /\ a.resolution = Resolve(rpc[c].text, rpc[c].proposed)
  BY DEF Resolution, Codes
<1>3. ASSUME calls[c].stage = "tier1" PROVE a.resolution = ResolveTier1(calls[c].text)
  <2>1. rpc[c].text = calls[c].text /\ rpc[c].proposed = {}
    BY <1>1, <1>3 DEF CallInv, Tiers
  <2>2. UNION {ValidateProposal(p) : p \in {}} = {}
    OBVIOUS
  <2>3. Resolve(rpc[c].text, rpc[c].proposed) = ResolveTier1(calls[c].text)
    BY <2>1, <2>2 DEF Resolve
  <2>4. QED BY <1>2, <2>3
<1>4. ASSUME calls[c].stage = "tier2"
      PROVE a.resolution = Resolve(calls[c].text, {calls[c].proposal.canonical})
  BY <1>1, <1>2, <1>4 DEF CallInv, Tiers
<1> HIDE DEF a
<1>5. QED BY <1>1, <1>2, <1>3, <1>4, GuardServed

LEMMA GuardServeAct ==
  ASSUME GuardInv, NEW c, ServeUnknown(c) \/ ServePlan(c) \/ ServeEvaluate(c)
  PROVE  GuardInv'
<1>1. CASE ServePlan(c)
  <2>1. PICK r : /\ store' = Put(store, r, [call |-> c, canonical |-> rpc[c].canonical])
                 /\ Answers(c, Planned(r))
    BY <1>1 DEF ServePlan
  <2>2. c \in DOMAIN rpc /\ rpc[c].op = "plan" /\ UNCHANGED log
    BY <1>1 DEF ServePlan
  <2>3. /\ Earned(c, rpc[c].canonical)
        /\ calls[c].stage \notin Early /\ Planned(r).code \in Codes
        /\ Planned(r).code # "UNRESOLVED_QUESTION"
    BY <2>2, RequestTells DEF Planned, Codes
  <2>4. QED BY <2>1, <2>2, <2>3, GuardServed DEF Early
<1>2. CASE ServeEvaluate(c)
  <2>1. PICK decision \in Verdicts :
          /\ log' = Put(log, c, [decision |-> decision, canonical |-> rpc[c].canonical,
                                 by |-> "POLICY", text |-> rpc[c].text,
                                 resolvedBy |-> rpc[c].resolvedBy])
          /\ Answers(c, DecisionOr(decision))
    BY <1>2 DEF ServeEvaluate
  <2>2. c \in DOMAIN rpc /\ rpc[c].op = "evaluate" /\ UNCHANGED store
    BY <1>2 DEF ServeEvaluate
  <2>3. /\ Earned(c, rpc[c].canonical)
        /\ calls[c].stage \notin Early /\ DecisionOr(decision).code \in Codes
        /\ DecisionOr(decision).code # "UNRESOLVED_QUESTION"
    BY <2>2, RequestTells, GatewayAssumption DEF DecisionOr, Codes
  <2>4. \E e : log' = Put(log, c, e) /\ e.canonical = rpc[c].canonical
    BY <2>1
  <2>5. PICK a : /\ Answers(c, a) /\ a.code \in Codes /\ a.code # "UNRESOLVED_QUESTION"
    BY <2>1, <2>3
  <2>6. QED BY <2>2, <2>3, <2>4, <2>5, GuardServed DEF Early
<1>3. CASE ServeUnknown(c)
  <2>1. /\ c \in DOMAIN rpc /\ rpc[c].op \in {"plan", "evaluate"}
        /\ Answers(c, DecisionOr("UNRESOLVED_QUESTION")) /\ UNCHANGED <<store, log>>
    BY <1>3 DEF ServeUnknown, engineVars
  <2>2. /\ Untouched(c) /\ calls[c].stage \notin Early
        /\ DecisionOr("UNRESOLVED_QUESTION").code \in Codes
    BY <2>1, RequestTells DEF DecisionOr, Codes
  <2>3. QED BY <2>1, <2>2, GuardServed DEF Early
<1>4. QED BY <1>1, <1>2, <1>3

LEMMA GuardServePresent ==
  ASSUME GuardInv, NEW c, ServeReplay(c) \/ ServePresentation(c)
  PROVE  GuardInv'
<1>1. c \in DOMAIN rpc /\ rpc[c].op = "present" /\ UNCHANGED store
  BY DEF ServeReplay, ServePresentation
<1>2. calls[c].stage \notin Early /\ calls[c].kind # "decision"
  BY <1>1, RequestTells
<1>3. \A code \in Codes : DecisionOr(code).code = code
  BY DEF DecisionOr
<1>4. PICK code \in Codes \ {"UNRESOLVED_QUESTION"} :
                            /\ Answers(c, DecisionOr(code))
                            /\ UNCHANGED log \/ \E e : log' = Put(log, c, e)
  <2>1. CASE ServeReplay(c)
    BY <2>1 DEF ServeReplay, Audited, Codes
  <2>2. CASE ServePresentation(c)
    BY <2>2, GatewayAssumption DEF ServePresentation, Audited, Codes
  <2>3. QED BY <2>1, <2>2
<1>5. /\ UNCHANGED store /\ DecisionOr(code).code \in Codes \ {"UNRESOLVED_QUESTION"}
      /\ calls[c].stage # "tier1" /\ calls[c].stage # "tier2"
      /\ \/ UNCHANGED log
         \/ \E e : /\ log' = Put(log, c, e)
                   /\ calls[c].kind = "decision" => Earned(c, e.canonical)
  BY <1>1, <1>2, <1>3, <1>4 DEF Early
<1>6. QED BY <1>1, <1>2, <1>4, <1>5, GuardServed

\* A restart of the API loses its threads, one of the engine what it has.
LEMMA GuardRestart ==
  ASSUME GuardInv, RestartApi \/ RestartEngine
  PROVE  GuardInv'
<1>1. CASE RestartApi
  <2>1. /\ UNCHANGED <<rpc, log, store>> /\ DOMAIN answerOf' = {} /\ DOMAIN calls' = DOMAIN calls
    BY <1>1 DEF RestartApi, engineVars
  <2>2. ASSUME NEW c \in DOMAIN calls PROVE CallInv(c)'
    <3>1. CallInv(c) /\ DOMAIN calls[c] = Fields
      BY DEF GuardInv, CallInv, Dialogue
    <3>2. /\ DOMAIN calls'[c] = Fields /\ calls'[c].text = calls[c].text
          /\ calls'[c].proposal = calls[c].proposal /\ calls'[c].kind = calls[c].kind
          /\ calls'[c].answer = calls[c].answer
          /\ calls'[c].stage = calls[c].stage \/ calls'[c].stage = "lost"
          /\ calls'[c].stage \in {"answered", "lost"}
          /\ calls[c].stage = "answered" => calls'[c].stage = "answered"
      BY <1>1, <3>1 DEF RestartApi, Ended, Fields
    <3>3. \A x : Earned(c, x)' <=> Earned(c, x)
      BY <3>2 DEF Earned
    <3>4. Dialogue(c)'
      BY <2>1, <3>1, <3>2 DEF CallInv, Dialogue
    <3>5. Tiers(c)'
      BY <2>1, <3>2 DEF Tiers
    <3>6. ActsOnMerit(c)'
      BY <2>1, <3>1, <3>2, <3>3 DEF CallInv, ActsOnMerit, Untouched, Early
    <3>7. QED BY <3>4, <3>5, <3>6 DEF CallInv
  <2>3. Known'
    BY <2>1 DEF GuardInv, Known
  <2>4. QED BY <2>1, <2>2, <2>3 DEF GuardInv
<1>2. CASE RestartEngine
  <2>1. /\ UNCHANGED <<calls, answerOf>>
        /\ DOMAIN rpc' = {} /\ DOMAIN log' = {} /\ DOMAIN store' = {}
    BY <1>2 DEF RestartEngine
  <2>2. ASSUME NEW c \in DOMAIN calls PROVE CallInv(c)'
    <3>1. CallInv(c)
      BY DEF GuardInv
    <3>2. Dialogue(c)' /\ Tiers(c)'
      BY <2>1, <3>1 DEF CallInv, Dialogue, Tiers
    <3>3. ActsOnMerit(c)'
      BY <2>1, <3>1 DEF CallInv, ActsOnMerit, Untouched
    <3>4. QED BY <3>2, <3>3 DEF CallInv
  <2>3. Known'
    BY <2>1 DEF GuardInv, Known
  <2>4. QED BY <2>1, <2>2, <2>3 DEF GuardInv
<1>3. QED BY <1>1, <1>2

LEMMA GuardStep ==
  ASSUME GuardInv, [Next]_vars
  PROVE  GuardInv'
<1>1. ASSUME NEW c \in Calls, NEW kind \in {"question", "decision"}, NEW text \in Texts,
             ReceiveQuestion(c, kind, text)
      PROVE GuardInv'
  BY <1>1, GuardReceiveQuestion
<1>2. ASSUME NEW c \in Calls, NEW r, ReceivePresentation(c, r) PROVE GuardInv'
  BY <1>2, GuardReceivePresentation
<1>3. ASSUME NEW c \in Calls, Thread(c) PROVE GuardInv'
  BY <1>3, GuardAfterResolve, GuardPropose, GuardAfterAnswer DEF Thread
<1>4. ASSUME NEW c \in Calls, Serve(c) PROVE GuardInv'
  BY <1>4, GuardServeResolve, GuardServeAct, GuardServePresent DEF Serve
<1>5. CASE RestartApi \/ RestartEngine
  BY <1>5, GuardRestart
<1>6. CASE UNCHANGED vars
  <2>1. UNCHANGED <<store, log, rpc, answerOf, calls>>
    BY <1>6 DEF vars
  <2>2. Known' <=> Known
    BY <2>1 DEF Known
  <2>3. ASSUME NEW c \in DOMAIN calls PROVE CallInv(c)'
    <3>1. CallInv(c) /\ Left(c)
      BY <2>1 DEF GuardInv, Left
    <3>2. \A x : Earned(c, x)' <=> Earned(c, x)
      BY <2>1 DEF Earned
    <3>3. Untouched(c)' <=> Untouched(c)
      BY <2>1 DEF Untouched
    <3>4. Dialogue(c)' /\ Tiers(c)' /\ ActsOnMerit(c)'
      BY <2>1, <3>1, <3>2, <3>3 DEF CallInv, Dialogue, Tiers, ActsOnMerit
    <3>5. QED BY <3>4 DEF CallInv
  <2>4. QED BY <2>1, <2>2, <2>3 DEF GuardInv
<1>7. CASE Next
  <2>1. CASE \E c \in Calls :
               \/ \E kind \in {"question", "decision"}, text \in Texts :
                    ReceiveQuestion(c, kind, text)
               \/ \E r \in Learnt \cup MadeUp : ReceivePresentation(c, r)
               \/ Thread(c)
               \/ Serve(c)
    BY <2>1, <1>1, <1>2, <1>3, <1>4
  <2>2. QED BY <1>5, <1>7, <2>1 DEF Next
<1>8. QED BY <1>6, <1>7

\* In every reachable state a thread reads the answer to what it asked last,
\* and nothing is done in the name of a call that it has not earned.
THEOREM GuardInvariance == Spec => []GuardInv
<1>1. Init => GuardInv
  BY DEF Init, GuardInv, Known
<1>2. GuardInv /\ [Next]_vars => GuardInv'
  BY GuardStep
<1>3. QED BY <1>1, <1>2, PTL DEF Spec

\* Refusals fail closed for any number of calls, any registry, any model and
\* any delay or restart of the engine (VerificationService.resolve).
THEOREM GuardrailStands == Spec => []GuardrailHolds
<1>1. ASSUME GuardInv PROVE GuardrailHolds
  <2>1. \A c \in DOMAIN calls : ActsOnMerit(c)
    BY <1>1 DEF GuardInv, CallInv
  <2>2. Known
    BY <1>1 DEF GuardInv
  <2>3. \A r \in DOMAIN store : Earned(store[r].call, store[r].canonical)
    BY <2>1, <2>2 DEF Known, ActsOnMerit
  <2>4. \A c \in DOMAIN log : calls[c].kind = "decision" => Earned(c, log[c].canonical)
    BY <2>1, <2>2 DEF Known, ActsOnMerit
  <2>5. \A c \in DOMAIN rpc : rpc[c].op \in {"plan", "evaluate"} => Earned(c, rpc[c].canonical)
    BY <2>1, <2>2 DEF Known, ActsOnMerit
  <2>6. \A c \in DOMAIN calls : calls[c].answer = "UNRESOLVED_QUESTION" =>
          c \notin DOMAIN rpc /\ c \notin DOMAIN log /\ \A r \in DOMAIN store : store[r].call # c
    BY <2>1 DEF ActsOnMerit, Untouched
  <2>7. QED BY <2>3, <2>4, <2>5, <2>6 DEF GuardrailHolds
<1>2. QED BY <1>1, GuardInvariance, PTL

=============================================================================
