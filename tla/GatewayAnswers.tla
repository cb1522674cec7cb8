--------------------------- MODULE GatewayAnswers ---------------------------
(***************************************************************************)
(* What stands behind a decision that a client was given.                  *)
(***************************************************************************)
EXTENDS GatewayProofs

\* The log, and the challenge, bear out that c is answered with code.
Backed(c, code) ==
  /\ calls[c].engineEpoch = engineEpoch => c \in DOMAIN log /\ log[c].decision = code
  /\ code = "REPLAY_DETECTED" =>
       \E r \in calls[c].request, d \in Calls \ {c} : <<r, d>> \in accepted
  /\ calls[c].kind = "presentation" /\ code \in {"ALLOW", "UNKNOWN"} =>
       \E r \in calls[c].request : <<r, c>> \in accepted

\* A challenge that is not open has been accepted, for one call and for good.
Spending ==
  /\ engineEpoch \in Nat
  /\ \A r, c, d : <<r, c>> \in accepted /\ <<r, d>> \in accepted => c = d
  /\ \A r, c : <<r, c>> \in accepted => r \in issued \ open /\ c \in DOMAIN calls
  /\ \A r \in DOMAIN store : r \in open \/ \E d \in Calls : <<r, d>> \in accepted
  /\ open \subseteq issued

\* What c asks for is new to the engine, what it was told is borne out.
CallBacked(c) ==
  /\ c \in Calls /\ calls[c].engineEpoch \in Nat /\ calls[c].engineEpoch <= engineEpoch
  /\ calls[c].kind = "presentation" =>
       calls[c].stage \notin Early /\ \E r : calls[c].request = {r}
  /\ c \in DOMAIN rpc =>
       /\ c \notin DOMAIN log /\ \A r : <<r, c>> \notin accepted
       /\ rpc[c].op = "present" => calls[c].request = {rpc[c].request}
       /\ rpc[c].op # "present" => calls[c].kind # "presentation"
  /\ \A r : <<r, c>> \in accepted => calls[c].stage \notin Early
  /\ c \in DOMAIN answerOf /\ calls[c].stage = "decide" /\ answerOf[c].code \in Decisions =>
       Backed(c, answerOf[c].code)
  /\ calls[c].answer \in Decisions => calls[c].stage \in Ended /\ Backed(c, calls[c].answer)

BackInv == GuardInv /\ Spending /\ \A c \in DOMAIN calls : CallBacked(c)

-----------------------------------------------------------------------------

\* A step in the name of one call: the others stay borne out.
LEMMA OthersBacked ==
  ASSUME BackInv, NEW c, NEW d \in DOMAIN calls, d # c, Left(d), UNCHANGED engineEpoch,
         \A r, e : <<r, e>> \in accepted => <<r, e>> \in accepted',
         \A r : <<r, d>> \in accepted' => <<r, d>> \in accepted
  PROVE  CallBacked(d)'
<1>1. CallBacked(d)
  BY DEF BackInv
<1>2. \A code : Backed(d, code) => Backed(d, code)'
  BY DEF Backed, Left
<1>3. QED BY <1>1, <1>2 DEF CallBacked, Left

\* A thread goes on, and perhaps asks the engine for the next thing.
LEMMA BackedThread ==
  ASSUME BackInv, GuardInv', NEW c, ThreadFrame(c), UNCHANGED engineEpoch,
         calls'[c].engineEpoch = calls[c].engineEpoch, calls'[c].kind = calls[c].kind,
         calls'[c].stage \in Early => calls[c].stage \in Early,
         calls'[c].request = calls[c].request \/ \E r : calls'[c].request = {r},
         calls'[c].answer \in Decisions =>
           calls'[c].stage \in Ended /\ calls'[c].request = calls[c].request
             /\ Backed(c, calls'[c].answer),
         \/ UNCHANGED rpc /\ (c \in DOMAIN rpc => calls'[c].request = calls[c].request)
         \/ calls[c].stage \in Early /\ \E m : m.op # "present" /\ Ask(c, m)
  PROVE  BackInv'
<1>1. CallBacked(c) /\ c \in DOMAIN calls
  BY DEF BackInv, ThreadFrame
<1>2. UNCHANGED <<issued, open, accepted, store, log>> /\ DOMAIN calls' = DOMAIN calls
  BY DEF ThreadFrame, engineVars
<1>3. Spending'
  BY <1>2 DEF BackInv, Spending
<1>4. c \notin DOMAIN answerOf'
  BY DEF ThreadFrame
<1>5. (calls[c].answer \in Decisions => Backed(c, calls[c].answer))'
  <2>1. SUFFICES ASSUME calls'[c].answer \in Decisions PROVE Backed(c, calls[c].answer)'
    OBVIOUS
  <2>2. Backed(c, calls'[c].answer) /\ calls'[c].request = calls[c].request
    BY <2>1
  <2>3. QED BY <1>2, <2>2 DEF Backed
<1>6. calls[c].stage \in Early => c \notin DOMAIN log /\ \A r : <<r, c>> \notin accepted
  BY <1>1 DEF CallBacked, BackInv, GuardInv, CallInv, ActsOnMerit, Untouched
<1>7. c \in DOMAIN rpc' =>
        /\ c \notin DOMAIN log /\ \A r : <<r, c>> \notin accepted
        /\ rpc'[c].op = "present" => calls'[c].request = {rpc'[c].request}
        /\ rpc'[c].op # "present" => calls'[c].kind # "presentation"
  <2>1. CASE UNCHANGED rpc /\ (c \in DOMAIN rpc => calls'[c].request = calls[c].request)
    BY <1>1, <2>1 DEF CallBacked
  <2>2. ASSUME calls[c].stage \in Early, NEW m, m.op # "present", Ask(c, m) PROVE <1>7
    BY <1>1, <1>6, <2>2 DEF Ask, Put, CallBacked
  <2>3. QED BY <2>1, <2>2
<1>8. CallBacked(c)'
  BY <1>1, <1>2, <1>4, <1>5, <1>7 DEF CallBacked
<1>9. \A d \in DOMAIN calls : d # c => Left(d)
  BY FrameLeaves DEF BackInv
<1>10. \A d \in DOMAIN calls : d # c => CallBacked(d)'
  BY <1>2, <1>9, OthersBacked
<1>11. QED BY <1>2, <1>3, <1>8, <1>10 DEF BackInv

\* The engine serves the request of c.
LEMMA BackedServed ==
  ASSUME BackInv, GuardInv', Spending', NEW c \in DOMAIN rpc, NEW a, Answers(c, a),
         UNCHANGED log \/ \E e : e.decision = a.code /\ log' = Put(log, c, e),
         \A r, d : <<r, d>> \in accepted => <<r, d>> \in accepted',
         \A r, d : <<r, d>> \in accepted' /\ <<r, d>> \notin accepted =>
           d = c /\ calls[c].stage \notin Early,
         \A r \in DOMAIN store' : r \in DOMAIN store \/ store'[r].call = c,
         \A r \in DOMAIN store : store'[r] = store[r] \/ store'[r].call = c,
         a.code \in Decisions =>
           /\ \E e : e.decision = a.code /\ log' = Put(log, c, e)
           /\ a.code = "REPLAY_DETECTED" =>
                \E r \in calls[c].request, d \in Calls \ {c} : <<r, d>> \in accepted'
           /\ calls[c].kind = "presentation" /\ a.code \in {"ALLOW", "UNKNOWN"} =>
                \E r \in calls[c].request : <<r, c>> \in accepted'
  PROVE  BackInv'
<1>1. c \in DOMAIN calls /\ CallBacked(c) /\ UNCHANGED <<calls, engineEpoch>> /\ CallInv(c)
  BY DEF BackInv, GuardInv, Known, Answers
<1>2. /\ DOMAIN rpc' = DOMAIN rpc \ {c} /\ \A d \in DOMAIN rpc' : rpc'[d] = rpc[d]
      /\ DOMAIN answerOf \subseteq DOMAIN answerOf'
      /\ DOMAIN answerOf' \subseteq DOMAIN answerOf \cup {c}
      /\ \A d \in DOMAIN answerOf : d # c => answerOf'[d] = answerOf[d]
      /\ c \in DOMAIN answerOf' => answerOf'[c] = a
  BY <1>1 DEF Answers, Without, Put, CallInv, Dialogue
<1>3. /\ DOMAIN log \subseteq DOMAIN log' /\ DOMAIN log' \subseteq DOMAIN log \cup {c}
      /\ \A d \in DOMAIN log : d # c => log'[d] = log[d]
  BY DEF Put
<1>4. \A d \in DOMAIN calls : d # c => Left(d)
  BY <1>1, <1>2, <1>3 DEF Left
<1>5. \A d \in DOMAIN calls : d # c => CallBacked(d)'
  BY <1>1, <1>4, OthersBacked
<1>6. a.code \in Decisions => Backed(c, a.code)'
  BY <1>1 DEF Backed, Put
<1>7. calls[c].answer \in Decisions => Backed(c, calls[c].answer)'
  <2>1. SUFFICES ASSUME calls[c].answer \in Decisions PROVE Backed(c, calls[c].answer)'
    OBVIOUS
  <2>2. Backed(c, calls[c].answer) /\ c \notin DOMAIN log
    BY <1>1, <2>1 DEF CallBacked
  <2>3. QED BY <1>1, <2>2 DEF Backed
<1>8. CallBacked(c)'
  BY <1>1, <1>2, <1>6, <1>7 DEF CallBacked
<1>9. QED BY <1>1, <1>5, <1>8 DEF BackInv

\* A new call: nothing is in its name yet.
LEMMA BackedReceive ==
  ASSUME BackInv, GuardInv', NEW c \in Calls, c \notin DOMAIN calls, NEW h, NEW m,
         calls' = Put(calls, c, h), Ask(c, m),
         UNCHANGED <<engineVars, answerOf, engineEpoch>>,
         h.engineEpoch = engineEpoch, h.answer = "none",
         h.kind = "presentation" => h.stage = "decide" /\ \E r : h.request = {r},
         m.op = "present" => h.request = {m.request},
         m.op # "present" => h.kind # "presentation"
  PROVE  BackInv'
<1>1. /\ DOMAIN calls' = DOMAIN calls \cup {c} /\ calls'[c] = h
      /\ \A d \in DOMAIN calls : calls'[d] = calls[d]
      /\ DOMAIN rpc' = DOMAIN rpc \cup {c} /\ rpc'[c] = m
      /\ \A d \in DOMAIN rpc : d # c => rpc'[d] = rpc[d]
  BY DEF Ask, Put
<1>2. /\ c \notin DOMAIN answerOf /\ c \notin DOMAIN log /\ \A r : <<r, c>> \notin accepted
      /\ \A r \in DOMAIN store : store[r].call # c
  BY DEF BackInv, GuardInv, Known, Spending
<1>3. Spending'
  BY <1>1 DEF BackInv, Spending, engineVars
<1>4. \A d \in DOMAIN calls : Left(d)
  BY <1>1 DEF Left, engineVars
<1>5. \A d \in DOMAIN calls : CallBacked(d)'
  BY <1>4, OthersBacked DEF engineVars
<1>6. CallBacked(c)'
  <2>1. /\ UNCHANGED <<log, accepted, engineEpoch, answerOf>>
        /\ calls'[c].engineEpoch = engineEpoch /\ engineEpoch \in Nat
    BY <1>1 DEF engineVars, BackInv, Spending
  <2>2. h.answer \notin Decisions
    BY DEF Decisions
  <2>3. (c \in DOMAIN rpc =>
           /\ c \notin DOMAIN log /\ \A r : <<r, c>> \notin accepted
           /\ rpc[c].op = "present" => calls[c].request = {rpc[c].request}
           /\ rpc[c].op # "present" => calls[c].kind # "presentation")'
    BY <1>1, <1>2, <2>1
  <2>4. QED BY <1>1, <1>2, <2>1, <2>2, <2>3 DEF CallBacked, Early
<1>7. QED BY <1>1, <1>3, <1>5, <1>6 DEF BackInv

LEMMA BackedNew ==
  ASSUME BackInv, GuardInv', NEW c \in Calls,
         \/ \E kind \in {"question", "decision"}, text \in Texts : ReceiveQuestion(c, kind, text)
         \/ \E r \in Learnt \cup MadeUp : ReceivePresentation(c, r)
  PROVE  BackInv'
<1>1. ASSUME NEW kind \in {"question", "decision"}, NEW text \in Texts,
             ReceiveQuestion(c, kind, text)
      PROVE BackInv'
  <2> DEFINE h == [kind |-> kind, stage |-> "tier1", text |-> text, proposal |-> Abstention,
                   resolution |-> {}, request |-> {}, answer |-> "none",
                   epoch |-> apiEpoch, engineEpoch |-> engineEpoch]
             m == [op |-> "resolve", text |-> text, proposed |-> {}]
  <2>1. /\ c \notin DOMAIN calls /\ calls' = Put(calls, c, h) /\ Ask(c, m)
        /\ UNCHANGED <<engineVars, answerOf, engineEpoch>>
    BY <1>1 DEF ReceiveQuestion
  <2>2. /\ h.engineEpoch = engineEpoch /\ h.answer = "none" /\ h.kind # "presentation"
        /\ m.op # "present"
    OBVIOUS
  <2> HIDE DEF h, m
  <2>3. QED BY <2>1, <2>2, BackedReceive
<1>2. ASSUME NEW r, ReceivePresentation(c, r) PROVE BackInv'
  <2> DEFINE known == IF r \in DOMAIN provenance THEN provenance[r] ELSE Unknown
             h == [kind |-> "presentation", stage |-> "decide", text |-> known.text,
                   proposal |-> Abstention, resolution |-> {}, request |-> {r},
                   answer |-> "none", epoch |-> apiEpoch, engineEpoch |-> engineEpoch]
             m == [op |-> "present", request |-> r,
                   text |-> known.text, resolvedBy |-> known.resolvedBy]
  <2>1. /\ c \notin DOMAIN calls /\ calls' = Put(calls, c, h) /\ Ask(c, m)
        /\ UNCHANGED <<engineVars, answerOf, engineEpoch>>
    BY <1>2 DEF ReceivePresentation
  <2>2. /\ h.engineEpoch = engineEpoch /\ h.answer = "none" /\ h.request = {r} /\ m.request = r
        /\ h.stage = "decide" /\ m.op = "present"
    OBVIOUS
  <2> HIDE DEF h, m
  <2>3. QED BY <2>1, <2>2, BackedReceive
<1>3. QED BY <1>1, <1>2

LEMMA BackedGoesOn ==
  ASSUME BackInv, GuardInv', NEW c, Thread(c)
  PROVE  BackInv'
<1>1. /\ c \in DOMAIN calls /\ CallInv(c) /\ CallBacked(c) /\ DOMAIN calls[c] = Fields
      /\ UNCHANGED <<engineVars, engineEpoch>>
      /\ c \in DOMAIN answerOf => c \notin DOMAIN rpc
  BY DEF Thread, AfterTier1, Propose, AfterTier2, AfterPlan, AfterRefusal, AfterDecision,
         ResolutionUnread, TimeOut, BackInv, GuardInv, Known, CallInv, Dialogue
<1>2. calls[c].stage \notin Ended => calls[c].answer \notin Decisions
  BY <1>1 DEF CallBacked
<1>3. CASE AfterTier1(c) \/ AfterTier2(c) \/ ResolutionUnread(c)
  <2>1. /\ c \in DOMAIN answerOf /\ c \notin DOMAIN rpc /\ calls[c].stage \in {"tier1", "tier2"}
        /\ calls[c].stage \in Early /\ calls[c].answer \notin Decisions
    BY <1>1, <1>2, <1>3 DEF AfterTier1, AfterTier2, ResolutionUnread, Early, Ended
  <2>2. ASSUME NEW res, Resolved(c, res) PROVE BackInv'
    <3>1. GoesOn(c, [calls[c] EXCEPT !.resolution = {res},
                       !.stage = IF calls[c].kind = "question" THEN "plan" ELSE "decide"])
      BY <2>2 DEF Resolved
    <3>2. /\ ThreadFrame(c)
          /\ calls'[c].engineEpoch = calls[c].engineEpoch /\ calls'[c].kind = calls[c].kind
          /\ calls'[c].request = calls[c].request /\ calls'[c].answer = calls[c].answer
      BY <1>1, <3>1 DEF GoesOn, ThreadFrame, Without, Fields
    <3>3. \E m : m.op # "present" /\ Ask(c, m)
      BY <2>2 DEF Resolved, Act
    <3>4. QED BY <1>1, <2>1, <3>2, <3>3, BackedThread
  <2>3. CASE /\ GoesOn(c, [calls[c] EXCEPT !.stage = "propose"])
             /\ UNCHANGED rpc
    <3>1. /\ ThreadFrame(c)
          /\ calls'[c].engineEpoch = calls[c].engineEpoch /\ calls'[c].kind = calls[c].kind
          /\ calls'[c].request = calls[c].request /\ calls'[c].answer = calls[c].answer
      BY <1>1, <2>3 DEF GoesOn, ThreadFrame, Without, Fields
    <3>2. QED BY <1>1, <2>1, <2>3, <3>1, BackedThread
  <2>4. CASE /\ GoesOn(c, [calls[c] EXCEPT !.stage = "answered",
                                           !.answer = "UNRESOLVED_QUESTION"])
             /\ UNCHANGED rpc
    <3>1. /\ ThreadFrame(c) /\ calls'[c].answer \notin Decisions
          /\ calls'[c].engineEpoch = calls[c].engineEpoch /\ calls'[c].kind = calls[c].kind
          /\ calls'[c].request = calls[c].request
      BY <1>1, <2>4 DEF GoesOn, ThreadFrame, Without, Fields, Decisions
    <3>2. QED BY <1>1, <2>1, <2>4, <3>1, BackedThread
  <2>5. QED BY <1>3, <2>2, <2>3, <2>4 DEF AfterTier1, AfterTier2, ResolutionUnread
<1>4. CASE Propose(c)
  <2>1. /\ calls[c].stage \in Early /\ calls[c].answer \notin Decisions
        /\ c \notin DOMAIN answerOf /\ UNCHANGED answerOf
    BY <1>1, <1>2, <1>4 DEF Propose, Early, Ended, CallInv, Dialogue, Waiting
  <2>2. /\ ThreadFrame(c) /\ calls'[c].answer \notin Decisions
        /\ calls'[c].engineEpoch = calls[c].engineEpoch /\ calls'[c].kind = calls[c].kind
        /\ calls'[c].request = calls[c].request
    BY <1>1, <1>4, <2>1 DEF Propose, ThreadFrame, Fields, Decisions
  <2>3. UNCHANGED rpc \/ \E m : m.op # "present" /\ Ask(c, m)
    BY <1>4 DEF Propose
  <2>4. QED BY <1>1, <2>1, <2>2, <2>3, BackedThread
<1>5. CASE AfterPlan(c)
  <2>1. PICK r : GoesOn(c, [calls[c] EXCEPT !.stage = "answered", !.answer = "planned",
                                            !.request = {r}])
    BY <1>5 DEF AfterPlan
  <2>2. /\ ThreadFrame(c) /\ calls'[c].answer \notin Decisions /\ calls'[c].stage = "answered"
        /\ calls'[c].engineEpoch = calls[c].engineEpoch /\ calls'[c].kind = calls[c].kind
        /\ calls'[c].request = {r}
    BY <1>1, <1>5, <2>1 DEF AfterPlan, GoesOn, ThreadFrame, Without, Fields, Decisions
  <2>3. UNCHANGED rpc /\ c \notin DOMAIN rpc
    BY <1>1, <1>5 DEF AfterPlan
  <2>4. QED BY <1>1, <2>2, <2>3, BackedThread DEF Early
<1>6. CASE AfterDecision(c)
  <2>1. /\ c \in DOMAIN answerOf /\ calls[c].stage = "decide" /\ UNCHANGED rpc
        /\ GoesOn(c, [calls[c] EXCEPT !.stage = "answered", !.answer = answerOf[c].code])
    BY <1>6 DEF AfterDecision
  <2>2. /\ ThreadFrame(c) /\ calls'[c].answer = answerOf[c].code /\ calls'[c].stage = "answered"
        /\ calls'[c].engineEpoch = calls[c].engineEpoch /\ calls'[c].kind = calls[c].kind
        /\ calls'[c].request = calls[c].request
    BY <1>1, <2>1 DEF GoesOn, ThreadFrame, Without, Fields
  <2>3. answerOf[c].code \in Decisions => Backed(c, answerOf[c].code)
    BY <1>1, <2>1 DEF CallBacked
  <2>4. calls'[c].answer \in Decisions => Backed(c, calls'[c].answer)
    BY <2>2, <2>3
  <2>5. QED BY <1>1, <2>1, <2>2, <2>4, BackedThread DEF Early, Ended
<1>7. CASE AfterRefusal(c) \/ TimeOut(c)
  <2>1. /\ ThreadFrame(c) /\ calls'[c].answer \notin Decisions /\ calls'[c].stage = "answered"
        /\ calls'[c].engineEpoch = calls[c].engineEpoch /\ calls'[c].kind = calls[c].kind
        /\ calls'[c].request = calls[c].request
    <3>1. CASE AfterRefusal(c)
      <4>1. /\ GoesOn(c, [calls[c] EXCEPT !.stage = "answered",
                                          !.answer = "UNRESOLVED_QUESTION"])
            /\ UNCHANGED engineVars
        BY <3>1 DEF AfterRefusal
      <4>2. QED  BY <1>1, <4>1 DEF GoesOn, ThreadFrame, Without, Fields, Decisions
    <3>2. CASE TimeOut(c)
      BY <1>1, <3>2 DEF TimeOut, ThreadFrame, Without, Fields, Decisions
    <3>3. QED  BY <1>7, <3>1, <3>2
  <2>2. UNCHANGED rpc
    BY <1>7 DEF AfterRefusal, TimeOut
  <2>3. QED BY <1>1, <2>1, <2>2, BackedThread DEF Early
<1>8. QED BY <1>3, <1>4, <1>5, <1>6, <1>7 DEF Thread

-----------------------------------------------------------------------------

LEMMA BackedServeOther ==
  ASSUME BackInv, GuardInv', NEW c \in Calls,
         ServeResolve(c) \/ ServeUnknown(c) \/ ServePlan(c) \/ ServeEvaluate(c)
  PROVE  BackInv'
<1>1. /\ c \in DOMAIN rpc /\ UNCHANGED <<accepted, calls, engineEpoch>>
      /\ rpc[c].op # "present" /\ CallInv(c) /\ CallBacked(c)
  BY DEF ServeResolve, ServeUnknown, ServePlan, ServeEvaluate, engineVars, Challenges!Issue,
         Answers, BackInv, GuardInv, Known
<1>2. CASE ServeResolve(c) \/ ServeUnknown(c)
  <2>1. PICK a : /\ Answers(c, a) /\ a.code \notin Decisions
                 /\ UNCHANGED <<issued, open, accepted, store, log>>
    BY <1>2 DEF ServeResolve, ServeUnknown, Resolution, DecisionOr, Decisions, engineVars
  <2>2. a.code \notin Decisions
    BY <2>1
  <2>3. Spending'
    BY <1>1, <2>1 DEF BackInv, Spending
  <2>4. QED BY <1>1, <2>1, <2>2, <2>3, BackedServed
<1>3. CASE ServePlan(c)
  <2>1. PICK r \in Requests :
          /\ Challenges!Issue(r)
          /\ store' = Put(store, r, [call |-> c, canonical |-> rpc[c].canonical])
          /\ Answers(c, Planned(r))
    BY <1>3 DEF ServePlan
  <2>2. Planned(r).code \notin Decisions /\ UNCHANGED log
    BY <1>3 DEF Planned, Decisions, ServePlan
  <2>3. /\ r \notin issued /\ issued' = issued \cup {r} /\ open' = open \cup {r}
        /\ DOMAIN store' = DOMAIN store \cup {r}
        /\ \A s \in DOMAIN store : store'[s] = store[s] \/ store'[s].call = c
        /\ store'[r].call = c
    BY <2>1 DEF Challenges!Issue, Put
  <2>4. Spending'
    BY <1>1, <2>3 DEF BackInv, Spending
  <2>5. \A s \in DOMAIN store' : s \in DOMAIN store \/ store'[s].call = c
    BY <2>3
  <2>6. QED BY <1>1, <2>1, <2>2, <2>3, <2>4, <2>5, BackedServed
<1>4. CASE ServeEvaluate(c)
  <2> DEFINE e(decision) ==
        [decision |-> decision, canonical |-> rpc[c].canonical, by |-> "POLICY",
         text |-> rpc[c].text, resolvedBy |-> rpc[c].resolvedBy]
  <2>1. PICK decision \in Verdicts :
          log' = Put(log, c, e(decision)) /\ Answers(c, DecisionOr(decision))
    BY <1>4 DEF ServeEvaluate
  <2>2. e(decision).decision = decision /\ DecisionOr(decision).code = decision
    BY DEF DecisionOr
  <2>3. UNCHANGED <<issued, open, store>>
    BY <1>4 DEF ServeEvaluate
  <2>4. Spending'
    BY <1>1, <2>3 DEF BackInv, Spending
  <2>5. decision # "REPLAY_DETECTED"
    BY GatewayAssumption
  <2>6. calls[c].kind # "presentation"
    BY <1>1 DEF CallBacked
  <2> HIDE DEF e
  <2>7. \E x : x.decision = DecisionOr(decision).code /\ log' = Put(log, c, x)
    BY <2>1, <2>2
  <2>8. QED BY <1>1, <2>1, <2>2, <2>3, <2>4, <2>5, <2>6, <2>7, BackedServed
<1>5. QED BY <1>2, <1>3, <1>4

\* What a presentation names, and has not been accepted for.
LEMMA Presented ==
  ASSUME BackInv, NEW c \in DOMAIN rpc, rpc[c].op = "present"
  PROVE  /\ c \in Calls /\ CallBacked(c) /\ calls[c].stage \notin Early
         /\ calls[c].request = {rpc[c].request} /\ \A r : <<r, c>> \notin accepted
BY RequestTells DEF BackInv, GuardInv, Known, CallBacked

\* A record is made, and the client answered with its decision.
LEMMA BackedAudited ==
  ASSUME BackInv, GuardInv', Spending', NEW c \in DOMAIN rpc, rpc[c].op = "present",
         NEW code, NEW by, Audited(c, code, by), UNCHANGED store,
         \A r, d : <<r, d>> \in accepted => <<r, d>> \in accepted',
         \A r, d : <<r, d>> \in accepted' /\ <<r, d>> \notin accepted => d = c,
         code = "REPLAY_DETECTED" => \E d \in Calls : <<rpc[c].request, d>> \in accepted,
         code \in {"ALLOW", "UNKNOWN"} => <<rpc[c].request, c>> \in accepted'
  PROVE  BackInv'
<1>1. Answers(c, DecisionOr(code)) /\ log' = Put(log, c, AuditOf(c, code, by))
  BY DEF Audited
<1>2. DecisionOr(code).code = code /\ AuditOf(c, code, by).decision = code
  BY DEF DecisionOr, AuditOf
<1>3. \E e : e.decision = DecisionOr(code).code /\ log' = Put(log, c, e)
  BY <1>1, <1>2
<1>4. calls[c].stage \notin Early /\ calls[c].request = {rpc[c].request}
      /\ \A r : <<r, c>> \notin accepted
  BY Presented
<1>5. code = "REPLAY_DETECTED" =>
        \E r \in calls[c].request, d \in Calls \ {c} : <<r, d>> \in accepted'
  BY <1>4
<1>6. QED BY <1>1, <1>2, <1>3, <1>4, <1>5, BackedServed

LEMMA BackedServePresent ==
  ASSUME BackInv, GuardInv', NEW c \in Calls, ServeReplay(c) \/ ServePresentation(c)
  PROVE  BackInv'
<1>1. /\ c \in DOMAIN rpc /\ rpc[c].op = "present" /\ UNCHANGED <<store, calls, engineEpoch>>
      /\ c \in DOMAIN calls
  BY DEF ServeReplay, ServePresentation, Audited, Answers, BackInv, GuardInv, Known
<1> DEFINE r == rpc[c].request
<1>2. CASE ServeReplay(c)
  <2>1. /\ r \in DOMAIN store \ open /\ Audited(c, "REPLAY_DETECTED", "REPLAY")
        /\ UNCHANGED <<issued, open, accepted>>
    BY <1>2 DEF ServeReplay
  <2>2. Spending' /\ \E d \in Calls : <<r, d>> \in accepted
    BY <1>1, <2>1 DEF BackInv, Spending
  <2>3. QED BY <1>1, <2>1, <2>2, BackedAudited
<1>3. ASSUME NEW decision \in Verdicts, Challenges!Accept(r, c), Audited(c, decision, "POLICY")
      PROVE  BackInv'
  <2>1. /\ r \in open /\ open' = open \ {r} /\ accepted' = accepted \cup {<<r, c>>}
        /\ UNCHANGED issued
    BY <1>3 DEF Challenges!Accept
  <2>2. Spending'
    <3>1. \A d : <<r, d>> \notin accepted
      BY <2>1 DEF BackInv, Spending
    <3>2. \A s, d : <<s, d>> \in accepted' <=> <<s, d>> \in accepted \/ (s = r /\ d = c)
      BY <2>1
    <3>3. QED BY <1>1, <2>1, <3>1, <3>2, ZenonT(40) DEF BackInv, Spending
  <2>3. decision # "REPLAY_DETECTED"
    BY GatewayAssumption
  <2>4. QED BY <1>1, <1>3, <2>1, <2>2, <2>3, BackedAudited
<1>4. CASE Audited(c, "DENY", "CHECK") /\ UNCHANGED <<issued, open, accepted>>
  <2>1. Spending'
    BY <1>1, <1>4 DEF BackInv, Spending
  <2>2. QED BY <1>1, <1>4, <2>1, BackedAudited
<1>5. ASSUME NEW code \in {"EXPIRED_NONCE", "UNKNOWN_REQUEST"}, Answers(c, DecisionOr(code)),
             UNCHANGED <<issued, open, accepted, log>>
      PROVE  BackInv'
  <2>1. Spending'
    BY <1>1, <1>5 DEF BackInv, Spending
  <2>2. DecisionOr(code).code \notin Decisions
    BY DEF DecisionOr, Decisions
  <2>3. QED BY <1>1, <1>5, <2>1, <2>2, BackedServed
<1>6. QED BY <1>2, <1>3, <1>4, <1>5 DEF ServePresentation

LEMMA BackedRestart ==
  ASSUME BackInv, GuardInv', RestartApi \/ RestartEngine
  PROVE  BackInv'
<1>1. CASE RestartApi
  <2>1. /\ UNCHANGED <<issued, open, accepted, store, log, rpc, engineEpoch>>
        /\ DOMAIN answerOf' = {} /\ DOMAIN calls' = DOMAIN calls
    BY <1>1 DEF RestartApi, engineVars
  <2>2. ASSUME NEW c \in DOMAIN calls PROVE CallBacked(c)'
    <3>1. CallBacked(c) /\ DOMAIN calls[c] = Fields
      BY DEF BackInv, GuardInv, CallInv, Dialogue
    <3>2. /\ calls'[c].kind = calls[c].kind /\ calls'[c].request = calls[c].request
          /\ calls'[c].answer = calls[c].answer
          /\ calls'[c].engineEpoch = calls[c].engineEpoch
          /\ calls'[c].stage \in Ended /\ calls'[c].stage \notin Early
      BY <1>1, <3>1 DEF RestartApi, Ended, Early, Fields
    <3>3. \A code : Backed(c, code) => Backed(c, code)'
      BY <2>1, <3>2 DEF Backed
    <3>4. QED BY <2>1, <3>1, <3>2, <3>3 DEF CallBacked
  <2>3. Spending'
    BY <2>1 DEF BackInv, Spending
  <2>4. QED BY <2>1, <2>2, <2>3 DEF BackInv
<1>2. CASE RestartEngine
  <2>1. /\ UNCHANGED <<calls, answerOf, issued, accepted>> /\ open' = {}
        /\ DOMAIN rpc' = {} /\ DOMAIN store' = {} /\ engineEpoch' = engineEpoch + 1
    BY <1>2 DEF RestartEngine, Challenges!Forget
  <2>2. engineEpoch \in Nat /\ Spending'
    BY <2>1 DEF BackInv, Spending
  <2>3. ASSUME NEW c \in DOMAIN calls PROVE CallBacked(c)'
    <3>1. CallBacked(c)
      BY DEF BackInv
    <3>2. calls[c].engineEpoch \in Nat /\ calls[c].engineEpoch <= engineEpoch
      BY <3>1 DEF CallBacked
    <3>3. calls[c].engineEpoch # engineEpoch' /\ calls[c].engineEpoch <= engineEpoch'
      BY <2>1, <2>2, <3>2
    <3>4. \A code : Backed(c, code) => Backed(c, code)'
      BY <2>1, <3>3 DEF Backed
    <3>5. QED BY <2>1, <3>1, <3>3, <3>4 DEF CallBacked
  <2>4. QED BY <2>1, <2>2, <2>3 DEF BackInv
<1>3. QED BY <1>1, <1>2

LEMMA BackedStep ==
  ASSUME BackInv, [Next]_vars
  PROVE  BackInv'
<1>1. GuardInv'
  BY GuardStep DEF BackInv
<1>2. CASE UNCHANGED vars
  <2>1. /\ UNCHANGED <<issued, open, accepted, store, log, rpc>>
        /\ UNCHANGED <<answerOf, calls, engineEpoch>>
    BY <1>2 DEF vars
  <2>2. Spending'
    BY <2>1 DEF BackInv, Spending
  <2>3. ASSUME NEW c \in DOMAIN calls PROVE CallBacked(c)'
    <3>1. \A code : Backed(c, code) => Backed(c, code)'
      BY <2>1 DEF Backed
    <3>2. QED BY <2>1, <3>1 DEF BackInv, CallBacked
  <2>4. QED BY <1>1, <2>1, <2>2, <2>3 DEF BackInv
<1>3. CASE RestartApi \/ RestartEngine
  BY <1>1, <1>3, BackedRestart
<1>4. ASSUME NEW c \in Calls,
             \/ \E kind \in {"question", "decision"}, text \in Texts :
                  ReceiveQuestion(c, kind, text)
             \/ \E r \in Learnt \cup MadeUp : ReceivePresentation(c, r)
      PROVE BackInv'
  BY <1>1, <1>4, BackedNew
<1>5. ASSUME NEW c \in Calls, Thread(c) PROVE BackInv'
  BY <1>1, <1>5, BackedGoesOn
<1>6. ASSUME NEW c \in Calls, Serve(c) PROVE BackInv'
  BY <1>1, <1>6, BackedServeOther, BackedServePresent DEF Serve
<1>7. CASE Next
  <2>1. CASE \E c \in Calls :
               \/ \E kind \in {"question", "decision"}, text \in Texts :
                    ReceiveQuestion(c, kind, text)
               \/ \E r \in Learnt \cup MadeUp : ReceivePresentation(c, r)
               \/ Thread(c)
               \/ Serve(c)
    BY <2>1, <1>4, <1>5, <1>6
  <2>2. QED BY <1>3, <1>7, <2>1 DEF Next
<1>8. QED BY <1>2, <1>7

\* In every reachable state a challenge that is not open has been accepted for
\* one call, what a call asks for is new to the engine, and an answer on its way
\* is borne out by the log and the challenge.
THEOREM BackInvariance == Spec => []BackInv
<1>1. Init => BackInv
  BY DEF Init, BackInv, GuardInv, Known, Spending, Challenges!Init
<1>2. BackInv /\ [Next]_vars => BackInv'
  BY BackedStep
<1>3. QED BY <1>1, <1>2, PTL DEF Spec

\* A decision a client was given is on record and its challenge was spent for
\* it alone, for any number of calls, restarts and late answers.
THEOREM DecisionsStand == Spec => []DecisionsBacked
<1>1. ASSUME BackInv PROVE DecisionsBacked
  <2> SUFFICES ASSUME NEW c \in DOMAIN calls, calls[c].answer \in Decisions
               PROVE  /\ calls[c].engineEpoch = engineEpoch =>
                           c \in DOMAIN log /\ log[c].decision = calls[c].answer
                      /\ calls[c].answer = "REPLAY_DETECTED" =>
                           \E r \in calls[c].request, d \in Calls \ {c} : <<r, d>> \in accepted
                      /\ calls[c].kind = "presentation" /\ calls[c].answer \in {"ALLOW", "UNKNOWN"} =>
                           \A d \in Calls :
                             (\E r \in calls[c].request : <<r, d>> \in accepted) <=> d = c
    BY DEF DecisionsBacked
  <2>1. Backed(c, calls[c].answer) /\ CallBacked(c)
    BY <1>1 DEF BackInv, CallBacked
  <2>2. ASSUME calls[c].kind = "presentation", calls[c].answer \in {"ALLOW", "UNKNOWN"},
               NEW d \in Calls
        PROVE  (\E r \in calls[c].request : <<r, d>> \in accepted) <=> d = c
    <3>1. PICK r : calls[c].request = {r}
      BY <2>1, <2>2 DEF CallBacked
    <3>2. <<r, c>> \in accepted
      BY <2>1, <2>2, <3>1 DEF Backed
    <3>3. QED BY <1>1, <3>1, <3>2 DEF BackInv, Spending
  <2>3. QED BY <2>1, <2>2 DEF Backed
<1>2. QED BY <1>1, BackInvariance, PTL

-----------------------------------------------------------------------------
(***************************************************************************)
(* Where the question of an audited presentation came from.                *)
(***************************************************************************)

\* The call whose client was given request r.
IsAsker(a, r) ==
  a \in DOMAIN calls /\ calls[a].answer = "planned" /\ r \in calls[a].request

\* The call whose plan made r, whether or not its thread has read the answer.
Holds(a, r) == IsAsker(a, r) \/ (a \in DOMAIN answerOf /\ r \in answerOf[a].request)

\* The tier and the text are those of call a.
IsOf(a, text, resolvedBy) ==
  text = calls[a].text /\ \E res \in calls[a].resolution : res.resolvedBy = resolvedBy

\* What went along with a presentation of c: the asker's text and tier, or
\* nothing if the API has restarted since it asked.
ToldOf(a, c, text, resolvedBy) ==
  \/ IsOf(a, text, resolvedBy)
  \/ calls[a].epoch # calls[c].epoch /\ text = Unknown.text /\ resolvedBy = Unknown.resolvedBy

\* Every identifier comes from one plan, and the maps know the askers of this
\* start of the API, with their own text and tier.
OneOrigin ==
  /\ apiEpoch \in Nat /\ issued \subseteq Requests /\ open \subseteq DOMAIN store
  /\ \A r, a, b : Holds(a, r) /\ Holds(b, r) => a = b
  /\ \A r, a : Holds(a, r) => r \in issued

MapsTell ==
  /\ \A r \in DOMAIN provenance :
       \E a : IsAsker(a, r) /\ IsOf(a, provenance[r].text, provenance[r].resolvedBy)
  /\ \A r, a : IsAsker(a, r) /\ calls[a].epoch = apiEpoch => r \in DOMAIN provenance

\* A thread has at most one resolution; its plan, its challenge and what it
\* holds are of that resolution.
Plans(c) ==
  /\ calls[c].epoch \in Nat /\ calls[c].epoch <= apiEpoch
  /\ calls[c].stage \notin Ended => calls[c].epoch = apiEpoch /\ calls[c].answer # "planned"
  /\ calls[c].stage = "plan" => calls[c].kind # "presentation"
  /\ c \in DOMAIN rpc /\ rpc[c].op = "plan" =>
       \E res : calls[c].resolution = {res} /\ res.canonical = rpc[c].canonical
  /\ \A r \in DOMAIN store : store[r].call = c =>
       \E res : calls[c].resolution = {res} /\ res.canonical = store[r].canonical
  /\ \A r \in DOMAIN store : Holds(c, r) => store[r].call = c

\* What c presents tells of the asker, and so does what is on record of it.
SendsKnown(c) ==
  c \in DOMAIN rpc /\ rpc[c].op = "present" =>
    \/ rpc[c].request \in MadeUp
    \/ \E a : /\ IsAsker(a, rpc[c].request)
              /\ ToldOf(a, c, rpc[c].text, rpc[c].resolvedBy)

RecordTells(c) ==
  c \in DOMAIN log /\ calls[c].kind = "presentation" /\ log[c].by = "POLICY" =>
    \E a, r, res :
      /\ calls[c].request = {r} /\ IsAsker(a, r)
      /\ calls[a].resolution = {res} /\ res.canonical = log[c].canonical
      /\ ToldOf(a, c, log[c].text, log[c].resolvedBy)

ToldInv ==
  /\ BackInv /\ OneOrigin /\ MapsTell
  /\ \A c \in DOMAIN calls : Plans(c) /\ SendsKnown(c) /\ RecordTells(c)

-----------------------------------------------------------------------------

\* Whoever was given an identifier remains as it was.
AskersStay ==
  \A a, r : IsAsker(a, r) =>
    /\ IsAsker(a, r)' /\ calls'[a].text = calls[a].text
    /\ calls'[a].resolution = calls[a].resolution /\ calls'[a].epoch = calls[a].epoch

\* What was told of an asker is still true of it.
LEMMA ToldStays ==
  ASSUME AskersStay, NEW a, NEW r, IsAsker(a, r), NEW c, calls'[c].epoch = calls[c].epoch,
         NEW text, NEW resolvedBy, ToldOf(a, c, text, resolvedBy)
  PROVE  ToldOf(a, c, text, resolvedBy)'
BY DEF AskersStay, ToldOf, IsOf

\* A request that was sent before, and a record that was made before, tell what
\* they told.
LEMMA SendsStay ==
  ASSUME AskersStay, NEW c \in DOMAIN calls, SendsKnown(c),
         calls'[c].epoch = calls[c].epoch,
         (c \in DOMAIN rpc' /\ rpc'[c].op = "present") => (c \in DOMAIN rpc /\ rpc'[c] = rpc[c])
  PROVE  SendsKnown(c)'
<1> SUFFICES ASSUME c \in DOMAIN rpc', rpc'[c].op = "present", rpc'[c].request \notin MadeUp
             PROVE  \E a : (/\ IsAsker(a, rpc[c].request)
                            /\ ToldOf(a, c, rpc[c].text, rpc[c].resolvedBy))'
  BY DEF SendsKnown
<1>1. c \in DOMAIN rpc /\ rpc'[c] = rpc[c]
  OBVIOUS
<1>2. PICK a : /\ IsAsker(a, rpc[c].request)
               /\ ToldOf(a, c, rpc[c].text, rpc[c].resolvedBy)
  BY <1>1 DEF SendsKnown
<1>3. PICK r, text, by : r = rpc[c].request /\ text = rpc[c].text /\ by = rpc[c].resolvedBy
  OBVIOUS
<1>4. IsAsker(a, r)' /\ ToldOf(a, c, text, by)'
  BY <1>2, <1>3, ToldStays DEF AskersStay
<1>5. QED BY <1>1, <1>3, <1>4 DEF IsAsker, ToldOf, IsOf

LEMMA RecordStays ==
  ASSUME AskersStay, NEW c \in DOMAIN calls, RecordTells(c),
         calls'[c].epoch = calls[c].epoch, calls'[c].kind = calls[c].kind,
         calls[c].kind = "presentation" => calls'[c].request = calls[c].request,
         c \in DOMAIN log' => c \in DOMAIN log /\ log'[c] = log[c]
  PROVE  RecordTells(c)'
<1> SUFFICES ASSUME c \in DOMAIN log', calls'[c].kind = "presentation", log'[c].by = "POLICY"
             PROVE  \E a, r, res :
                      (/\ calls[c].request = {r} /\ IsAsker(a, r)
                       /\ calls[a].resolution = {res} /\ res.canonical = log[c].canonical
                       /\ ToldOf(a, c, log[c].text, log[c].resolvedBy))'
  BY DEF RecordTells
<1>1. c \in DOMAIN log /\ log'[c] = log[c] /\ calls'[c].request = calls[c].request
  OBVIOUS
<1>2. PICK a, r, res :
        /\ calls[c].request = {r} /\ IsAsker(a, r)
        /\ calls[a].resolution = {res} /\ res.canonical = log[c].canonical
        /\ ToldOf(a, c, log[c].text, log[c].resolvedBy)
  BY <1>1 DEF RecordTells
<1>3. PICK text, by : text = log[c].text /\ by = log[c].resolvedBy
  OBVIOUS
<1>4. IsAsker(a, r)' /\ ToldOf(a, c, text, by)' /\ calls'[a].resolution = {res}
  BY <1>2, <1>3, ToldStays DEF AskersStay
<1>5. QED BY <1>1, <1>2, <1>3, <1>4 DEF ToldOf, IsOf

\* A step in the name of one call tells nothing new of the others.
LEMMA OneTold ==
  ASSUME ToldInv, BackInv', NEW c, DOMAIN calls' = DOMAIN calls \cup {c},
         \A d \in DOMAIN calls : d # c => Left(d),
         \A r \in DOMAIN store' : \/ r \in DOMAIN store /\ store'[r] = store[r]
                                  \/ r \notin issued /\ store'[r].call = c,
         UNCHANGED apiEpoch, AskersStay, OneOrigin', MapsTell', Plans(c)', SendsKnown(c)', RecordTells(c)'
  PROVE  ToldInv'
<1> SUFFICES ASSUME NEW d \in DOMAIN calls, d # c PROVE Plans(d)' /\ SendsKnown(d)' /\ RecordTells(d)'
  BY DEF ToldInv
<1>1. Plans(d) /\ SendsKnown(d) /\ RecordTells(d) /\ Left(d)
  BY DEF ToldInv
<1>2. \A r : Holds(d, r)' => Holds(d, r) /\ r \in issued
  BY <1>1 DEF Holds, IsAsker, Left, ToldInv, OneOrigin
<1>3. Plans(d)'
  BY <1>1, <1>2 DEF Plans, Left
<1>4. SendsKnown(d)' /\ RecordTells(d)'
  BY <1>1, SendsStay, RecordStays DEF Left
<1>5. QED BY <1>3, <1>4

\* As long as no identifier is handed over, nothing is forgotten of the origins.
LEMMA OriginStays ==
  ASSUME OneOrigin, MapsTell, AskersStay,
         \A a, r : Holds(a, r)' => Holds(a, r),
         \A a, r : IsAsker(a, r)' => IsAsker(a, r),
         UNCHANGED <<provenance, apiEpoch, issued>>,
         open' \subseteq DOMAIN store'
  PROVE  OneOrigin' /\ MapsTell'
<1>1. OneOrigin'
  BY DEF OneOrigin
<1>2. ASSUME NEW r \in DOMAIN provenance
      PROVE  \E a : IsAsker(a, r)' /\ IsOf(a, provenance[r].text, provenance[r].resolvedBy)'
  <2>1. PICK a : IsAsker(a, r) /\ IsOf(a, provenance[r].text, provenance[r].resolvedBy)
    BY DEF MapsTell
  <2>2. IsAsker(a, r)' /\ IsOf(a, provenance[r].text, provenance[r].resolvedBy)'
    BY <2>1 DEF AskersStay, IsOf
  <2>3. QED BY <2>2
<1>3. \A r, a : IsAsker(a, r)' /\ calls'[a].epoch = apiEpoch => r \in DOMAIN provenance
  BY DEF AskersStay, MapsTell
<1>4. MapsTell'
  BY <1>2, <1>3 DEF MapsTell
<1>5. QED BY <1>1, <1>4

\* A thread goes on, and perhaps asks the engine for the plan of its resolution.
LEMMA ToldThread ==
  ASSUME ToldInv, BackInv', NEW c, ThreadFrame(c), UNCHANGED <<apiEpoch, provenance>>,
         calls[c].stage \notin Ended,
         calls'[c].epoch = calls[c].epoch, calls'[c].kind = calls[c].kind,
         calls'[c].text = calls[c].text, calls'[c].request = calls[c].request,
         calls'[c].answer # "planned",
         calls'[c].stage = "plan" => calls[c].stage \in Early,
         \/ calls'[c].resolution = calls[c].resolution
         \/ calls[c].stage \in Early /\ \E res : calls'[c].resolution = {res},
         \/ UNCHANGED rpc
         \/ \E m : /\ Ask(c, m) /\ m.op # "present"
                   /\ m.op = "plan" =>
                        \E res : calls'[c].resolution = {res} /\ res.canonical = m.canonical
  PROVE  ToldInv'
<1>1. /\ c \in DOMAIN calls /\ DOMAIN calls' = DOMAIN calls /\ CallInv(c) /\ CallBacked(c)
      /\ Plans(c) /\ SendsKnown(c) /\ RecordTells(c)
      /\ UNCHANGED <<issued, open, accepted, store, log>>
      /\ c \notin DOMAIN answerOf'
      /\ \A d \in DOMAIN answerOf' : d \in DOMAIN answerOf /\ answerOf'[d] = answerOf[d]
      /\ \A d \in DOMAIN calls : d # c => calls'[d] = calls[d]
  BY DEF ThreadFrame, engineVars, ToldInv, BackInv, GuardInv
<1>2. \A d \in DOMAIN calls : d # c => Left(d)
  BY FrameLeaves DEF ToldInv, BackInv
<1>3. calls[c].answer # "planned"
  BY <1>1 DEF Plans
<1>4. AskersStay
  BY <1>1, <1>3 DEF AskersStay, IsAsker
<1>5. \A a, r : /\ IsAsker(a, r)' => IsAsker(a, r)
                /\ Holds(a, r)' => Holds(a, r)
  BY <1>1 DEF IsAsker, Holds
<1>6. OneOrigin' /\ MapsTell'
  BY <1>1, <1>4, <1>5, OriginStays DEF ToldInv, OneOrigin
<1>7. \A r \in DOMAIN store : store[r].call = c => calls[c].stage \notin Early
  BY <1>1 DEF CallInv, ActsOnMerit, Untouched
<1>8. c \in DOMAIN rpc /\ rpc[c].op = "plan" => calls[c].stage \notin Early
  BY RequestTells DEF ToldInv, BackInv
<1>9. c \in DOMAIN rpc' /\ rpc'[c].op = "plan" =>
        \E res : calls'[c].resolution = {res} /\ res.canonical = rpc'[c].canonical
  <2>1. CASE UNCHANGED rpc
    BY <1>1, <1>8, <2>1 DEF Plans
  <2>2. CASE \E m : /\ Ask(c, m) /\ m.op # "present"
                    /\ m.op = "plan" =>
                         \E res : calls'[c].resolution = {res} /\ res.canonical = m.canonical
    BY <2>2 DEF Ask, Put
  <2>3. QED BY <2>1, <2>2
<1>10. Plans(c)'
  <2>1. \A r : ~Holds(c, r)'
    BY <1>1 DEF Holds, IsAsker
  <2>2. \A r \in DOMAIN store' : store'[r].call = c =>
          \E res : calls'[c].resolution = {res} /\ res.canonical = store'[r].canonical
    BY <1>1, <1>7 DEF Plans
  <2>3. calls'[c].stage = "plan" => calls'[c].kind # "presentation"
    BY <1>1 DEF CallBacked
  <2>4. QED BY <1>1, <1>9, <2>1, <2>2, <2>3 DEF Plans
<1>11. SendsKnown(c)' /\ RecordTells(c)'
  <2>1. c \in DOMAIN rpc' /\ rpc'[c].op = "present" => c \in DOMAIN rpc /\ rpc'[c] = rpc[c]
    BY DEF Ask, Put
  <2>2. QED BY <1>1, <1>4, <2>1, SendsStay, RecordStays
<1>12. QED BY <1>1, <1>2, <1>4, <1>6, <1>10, <1>11, OneTold

\* The maps are written in the step that hands the identifier over.
LEMMA ToldAfterPlan ==
  ASSUME ToldInv, BackInv', NEW c, AfterPlan(c)
  PROVE  ToldInv'
<1>1. PICK r \in answerOf[c].request, res \in calls[c].resolution :
        /\ GoesOn(c, [calls[c] EXCEPT !.stage = "answered", !.answer = "planned", !.request = {r}])
        /\ provenance' = Put(provenance, r, [text |-> calls[c].text, resolvedBy |-> res.resolvedBy])
  BY DEF AfterPlan
<1>2. /\ c \in DOMAIN answerOf /\ calls[c].stage = "plan"
      /\ UNCHANGED <<issued, open, accepted, store, log, rpc, apiEpoch>>
  BY DEF AfterPlan, engineVars
<1>3. /\ c \in DOMAIN calls /\ CallInv(c) /\ Plans(c) /\ RecordTells(c) /\ DOMAIN calls[c] = Fields
      /\ c \notin DOMAIN rpc
  BY <1>2 DEF ToldInv, BackInv, GuardInv, Known, CallInv, Dialogue
<1>4. /\ DOMAIN calls' = DOMAIN calls /\ \A d \in DOMAIN calls : d # c => calls'[d] = calls[d]
      /\ calls'[c].stage = "answered" /\ calls'[c].answer = "planned" /\ calls'[c].request = {r}
      /\ calls'[c].text = calls[c].text /\ calls'[c].resolution = calls[c].resolution
      /\ calls'[c].epoch = calls[c].epoch /\ calls'[c].kind = calls[c].kind
      /\ DOMAIN answerOf' = DOMAIN answerOf \ {c}
      /\ \A d \in DOMAIN answerOf' : answerOf'[d] = answerOf[d]
  BY <1>1, <1>3 DEF GoesOn, Without, Fields
<1>5. ThreadFrame(c)
  BY <1>2, <1>3, <1>4 DEF ThreadFrame, engineVars
<1>6. \A d \in DOMAIN calls : d # c => Left(d)
  BY <1>2, <1>5, FrameLeaves DEF ToldInv, BackInv
<1>7. calls[c].answer # "planned" /\ calls[c].epoch = apiEpoch /\ calls[c].kind # "presentation"
  BY <1>2, <1>3 DEF Plans, Ended
<1>8. Holds(c, r)
  BY <1>1, <1>2 DEF Holds
<1>9. AskersStay
  BY <1>4, <1>7 DEF AskersStay, IsAsker
<1>10. \A a, s : /\ IsAsker(a, s)' => IsAsker(a, s) \/ (a = c /\ s = r)
                 /\ Holds(a, s)' => Holds(a, s)
  BY <1>4, <1>8 DEF IsAsker, Holds
<1>11. OneOrigin'
  BY <1>2, <1>10 DEF ToldInv, OneOrigin
<1>12. MapsTell'
  <2>1. /\ DOMAIN provenance' = DOMAIN provenance \cup {r}
        /\ provenance'[r].text = calls[c].text /\ provenance'[r].resolvedBy = res.resolvedBy
        /\ \A s \in DOMAIN provenance : s # r => provenance'[s] = provenance[s]
    BY <1>1 DEF Put
  <2>2. ASSUME NEW s \in DOMAIN provenance'
        PROVE  \E a : (IsAsker(a, s) /\ IsOf(a, provenance[s].text, provenance[s].resolvedBy))'
    <3>1. CASE s = r
      <4>1. IsAsker(c, r)'
        BY <1>3, <1>4 DEF IsAsker
      <4>2. IsOf(c, provenance[r].text, provenance[r].resolvedBy)'
        BY <1>1, <1>4, <2>1 DEF IsOf
      <4>3. QED BY <3>1, <4>1, <4>2
    <3>2. CASE s # r
      <4>1. s \in DOMAIN provenance /\ provenance'[s] = provenance[s]
        BY <2>1, <3>2
      <4>2. PICK a : IsAsker(a, s) /\ IsOf(a, provenance[s].text, provenance[s].resolvedBy)
        BY <4>1 DEF ToldInv, MapsTell
      <4>3. (IsAsker(a, s) /\ IsOf(a, provenance[s].text, provenance[s].resolvedBy))'
        BY <1>9, <4>1, <4>2 DEF AskersStay, IsOf
      <4>4. QED BY <4>3
    <3>3. QED BY <3>1, <3>2
  <2>3. ASSUME NEW s, NEW a, IsAsker(a, s)', calls'[a].epoch = apiEpoch
        PROVE  s \in DOMAIN provenance'
    <3>1. CASE a = c /\ s = r
      BY <2>1, <3>1
    <3>2. CASE IsAsker(a, s)
      BY <1>9, <2>1, <2>3, <3>2 DEF AskersStay, ToldInv, MapsTell
    <3>3. QED BY <1>10, <2>3, <3>1, <3>2
  <2>4. QED BY <1>2, <2>2, <2>3 DEF MapsTell
<1>13. Plans(c)'
  <2>1. \A s \in DOMAIN store' : Holds(c, s)' => store'[s].call = c
    BY <1>2, <1>3, <1>10 DEF Plans
  <2>2. QED BY <1>2, <1>3, <1>4, <2>1 DEF Plans, Ended
<1>14. SendsKnown(c)' /\ RecordTells(c)'
  <2>1. SendsKnown(c)'
    BY <1>2, <1>3 DEF SendsKnown
  <2>2. RecordTells(c)'
    BY <1>4, <1>7 DEF RecordTells
  <2>3. QED BY <2>1, <2>2
<1>15. QED BY <1>2, <1>3, <1>4, <1>6, <1>9, <1>11, <1>12, <1>13, <1>14, OneTold

LEMMA ToldGoesOn ==
  ASSUME ToldInv, BackInv', NEW c, Thread(c)
  PROVE  ToldInv'
<1>1. CASE AfterPlan(c)
  BY <1>1, ToldAfterPlan
<1>2. CASE ~AfterPlan(c)
  <2>1. /\ c \in DOMAIN calls /\ CallInv(c) /\ DOMAIN calls[c] = Fields
        /\ UNCHANGED <<engineVars, apiEpoch, provenance>>
        /\ calls[c].stage \notin Ended
        /\ calls[c].stage = "propose" => c \notin DOMAIN answerOf
    <3>1. c \in DOMAIN calls /\ UNCHANGED <<engineVars, apiEpoch, provenance>>
      BY <1>2 DEF Thread, AfterTier1, Propose, AfterTier2, AfterRefusal, AfterDecision,
                  ResolutionUnread, TimeOut, ToldInv, BackInv, GuardInv, Known
    <3>2. calls[c].stage \notin Ended
      BY <1>2 DEF Thread, AfterTier1, Propose, AfterTier2, AfterRefusal, AfterDecision,
                  ResolutionUnread, TimeOut, Ended, Waiting
    <3>3. CallInv(c) /\ DOMAIN calls[c] = Fields
      BY <3>1 DEF ToldInv, BackInv, GuardInv, CallInv, Dialogue
    <3>4. calls[c].stage = "propose" => c \notin DOMAIN answerOf
      BY <3>3 DEF CallInv, Dialogue, Waiting
    <3>5. QED BY <3>1, <3>2, <3>3, <3>4
  <2>2. ASSUME calls[c].stage \in {"tier1", "tier2"}, NEW res, Resolved(c, res) PROVE ToldInv'
    <3>1. GoesOn(c, [calls[c] EXCEPT !.resolution = {res},
                       !.stage = IF calls[c].kind = "question" THEN "plan" ELSE "decide"])
      BY <2>2 DEF Resolved
    <3>2. /\ ThreadFrame(c) /\ calls'[c].resolution = {res}
          /\ calls'[c].epoch = calls[c].epoch /\ calls'[c].kind = calls[c].kind
          /\ calls'[c].text = calls[c].text /\ calls'[c].request = calls[c].request
          /\ calls'[c].answer = calls[c].answer
      BY <2>1, <3>1 DEF GoesOn, ThreadFrame, Without, Fields
    <3>3. \E m : Ask(c, m) /\ m.op # "present" /\ m.canonical = res.canonical
      BY <2>2 DEF Resolved, Act
    <3>4. calls[c].answer # "planned"
      BY <2>1 DEF ToldInv, Plans
    <3>5. \E m : /\ Ask(c, m) /\ m.op # "present"
                 /\ m.op = "plan" =>
                      \E x : calls'[c].resolution = {x} /\ x.canonical = m.canonical
      BY <3>2, <3>3
    <3>6. calls[c].stage \in Early
      BY <2>2 DEF Early
    <3> HIDE DEF Early
    <3>7. QED BY <2>1, <3>2, <3>4, <3>5, <3>6, ToldThread
  <2>3. ASSUME NEW h, GoesOn(c, h), UNCHANGED rpc, calls[c].stage # "propose", DOMAIN h = Fields,
               h.epoch = calls[c].epoch, h.kind = calls[c].kind, h.text = calls[c].text,
               h.request = calls[c].request, h.answer # "planned", h.stage # "plan",
               h.resolution = calls[c].resolution
        PROVE  ToldInv'
    <3>1. ThreadFrame(c) /\ calls'[c] = h
      BY <2>1, <2>3 DEF GoesOn, ThreadFrame, Without
    <3>2. QED BY <2>1, <2>3, <3>1, ToldThread
  <2>4. calls[c].answer # "planned"
    BY <2>1 DEF ToldInv, Plans
  <2>5. CASE AfterTier1(c) \/ AfterTier2(c) \/ ResolutionUnread(c) \/ AfterRefusal(c)
    <3> DEFINE g == [calls[c] EXCEPT !.stage = "propose"]
               h == [calls[c] EXCEPT !.stage = "answered", !.answer = "UNRESOLVED_QUESTION"]
    <3>1. calls[c].stage # "propose"
      BY <2>5 DEF AfterTier1, AfterTier2, ResolutionUnread, AfterRefusal
    <3>2. \/ calls[c].stage \in {"tier1", "tier2"} /\ \E res : Resolved(c, res)
          \/ (GoesOn(c, g) \/ GoesOn(c, h)) /\ UNCHANGED rpc
      BY <2>5 DEF AfterTier1, AfterTier2, ResolutionUnread, AfterRefusal
    <3>3. /\ DOMAIN g = Fields
          /\ g.epoch = calls[c].epoch /\ g.kind = calls[c].kind /\ g.text = calls[c].text
          /\ g.request = calls[c].request /\ g.answer # "planned" /\ g.stage # "plan"
          /\ g.resolution = calls[c].resolution
      BY <2>1, <2>4 DEF Fields
    <3>4. /\ DOMAIN h = Fields
          /\ h.epoch = calls[c].epoch /\ h.kind = calls[c].kind /\ h.text = calls[c].text
          /\ h.request = calls[c].request /\ h.answer # "planned" /\ h.stage # "plan"
          /\ h.resolution = calls[c].resolution
      BY <2>1, <2>4 DEF Fields
    <3> HIDE DEF g, h
    <3>5. QED BY <2>2, <2>3, <3>1, <3>2, <3>3, <3>4
  <2>6. CASE AfterDecision(c)
    <3> DEFINE h == [calls[c] EXCEPT !.stage = "answered", !.answer = answerOf[c].code]
    <3>1. GoesOn(c, h) /\ UNCHANGED rpc /\ c \in DOMAIN answerOf /\ calls[c].stage = "decide"
      BY <2>6 DEF AfterDecision
    <3>2. answerOf[c].code # "planned"
      BY <2>1, <3>1 DEF CallInv, Dialogue, Codes
    <3>3. /\ DOMAIN h = Fields
          /\ h.epoch = calls[c].epoch /\ h.kind = calls[c].kind /\ h.text = calls[c].text
          /\ h.request = calls[c].request /\ h.answer # "planned" /\ h.stage # "plan"
          /\ h.resolution = calls[c].resolution
      BY <2>1, <3>2 DEF Fields
    <3> HIDE DEF h
    <3>4. QED BY <2>3, <3>1, <3>3
  <2>7. CASE TimeOut(c)
    <3> DEFINE h == [calls[c] EXCEPT !.stage = "answered", !.answer = "ENGINE_UNAVAILABLE"]
    <3>1. GoesOn(c, h) /\ UNCHANGED rpc /\ calls[c].stage # "propose"
      BY <2>7 DEF TimeOut, GoesOn, Waiting
    <3>2. /\ DOMAIN h = Fields
          /\ h.epoch = calls[c].epoch /\ h.kind = calls[c].kind /\ h.text = calls[c].text
          /\ h.request = calls[c].request /\ h.answer # "planned" /\ h.stage # "plan"
          /\ h.resolution = calls[c].resolution
      BY <2>1 DEF Fields
    <3> HIDE DEF h
    <3>3. QED BY <2>3, <3>1, <3>2
  <2>8. CASE Propose(c)
    <3>1. /\ calls[c].stage = "propose" /\ UNCHANGED answerOf /\ c \notin DOMAIN answerOf
      BY <2>1, <2>8 DEF Propose
    <3>2. /\ ThreadFrame(c) /\ calls'[c].resolution = calls[c].resolution
          /\ calls'[c].epoch = calls[c].epoch /\ calls'[c].kind = calls[c].kind
          /\ calls'[c].text = calls[c].text /\ calls'[c].request = calls[c].request
          /\ calls'[c].answer # "planned" /\ calls'[c].stage # "plan"
      BY <2>1, <2>4, <2>8, <3>1 DEF Propose, ThreadFrame, Fields
    <3>3. UNCHANGED rpc \/ \E m : Ask(c, m) /\ m.op = "resolve"
      BY <2>8 DEF Propose
    <3>4. QED BY <2>1, <3>2, <3>3, ToldThread
  <2>9. QED BY <1>2, <2>5, <2>6, <2>7, <2>8 DEF Thread
<1>3. QED BY <1>1, <1>2

-----------------------------------------------------------------------------

\* A new call: nobody has been given anything in its name.
LEMMA ToldNew ==
  ASSUME ToldInv, BackInv', NEW c, c \notin DOMAIN calls, NEW h, NEW m,
         calls' = Put(calls, c, h), Ask(c, m),
         UNCHANGED <<engineVars, answerOf, provenance, apiEpoch>>,
         h.epoch = apiEpoch, h.answer = "none", h.stage # "plan", m.op # "plan",
         m.op = "present" =>
           \/ m.request \in MadeUp
           \/ \E a : /\ IsAsker(a, m.request)
                     /\ \/ IsOf(a, m.text, m.resolvedBy)
                        \/ /\ calls[a].epoch # apiEpoch
                           /\ m.text = Unknown.text /\ m.resolvedBy = Unknown.resolvedBy
  PROVE  ToldInv'
<1>1. /\ DOMAIN calls' = DOMAIN calls \cup {c} /\ calls'[c] = h
      /\ \A d \in DOMAIN calls : calls'[d] = calls[d]
      /\ DOMAIN rpc' = DOMAIN rpc \cup {c} /\ rpc'[c] = m
      /\ \A d \in DOMAIN rpc : d # c => rpc'[d] = rpc[d]
  BY DEF Ask, Put
<1>2. UNCHANGED <<issued, open, accepted, store, log>>
  BY DEF engineVars
<1>3. /\ c \notin DOMAIN answerOf /\ c \notin DOMAIN log
      /\ \A r \in DOMAIN store : store[r].call # c
  BY DEF ToldInv, BackInv, GuardInv, Known
<1>4. \A d \in DOMAIN calls : d # c => Left(d)
  BY <1>1, <1>2 DEF Left
<1>5. AskersStay
  BY <1>1 DEF AskersStay, IsAsker
<1>6. \A a, r : /\ IsAsker(a, r)' => IsAsker(a, r)
                /\ Holds(a, r)' => Holds(a, r)
  BY <1>1 DEF IsAsker, Holds
<1>7. OneOrigin' /\ MapsTell'
  BY <1>2, <1>5, <1>6, OriginStays DEF ToldInv, OneOrigin
<1>8. Plans(c)'
  <2>1. \A r : ~Holds(c, r)'
    BY <1>1, <1>3 DEF Holds, IsAsker
  <2>2. apiEpoch \in Nat
    BY DEF ToldInv, OneOrigin
  <2>3. QED BY <1>1, <1>2, <1>3, <2>1, <2>2 DEF Plans
<1>9. SendsKnown(c)'
  <2> SUFFICES ASSUME m.op = "present", m.request \notin MadeUp
               PROVE  \E a : (/\ IsAsker(a, rpc[c].request)
                              /\ ToldOf(a, c, rpc[c].text, rpc[c].resolvedBy))'
    BY <1>1 DEF SendsKnown
  <2>1. PICK a : /\ IsAsker(a, m.request)
                 /\ \/ IsOf(a, m.text, m.resolvedBy)
                    \/ /\ calls[a].epoch # apiEpoch
                       /\ m.text = Unknown.text /\ m.resolvedBy = Unknown.resolvedBy
    OBVIOUS
  <2>2. a \in DOMAIN calls /\ calls'[a] = calls[a]
    BY <1>1, <2>1 DEF IsAsker
  <2>3. QED BY <1>1, <2>1, <2>2 DEF IsAsker, ToldOf, IsOf
<1>10. RecordTells(c)'
  BY <1>2, <1>3 DEF RecordTells
<1>11. QED BY <1>1, <1>2, <1>4, <1>5, <1>7, <1>8, <1>9, <1>10, OneTold

LEMMA ToldReceive ==
  ASSUME ToldInv, BackInv', NEW c,
         \/ \E kind \in {"question", "decision"}, text \in Texts : ReceiveQuestion(c, kind, text)
         \/ \E r \in Learnt \cup MadeUp : ReceivePresentation(c, r)
  PROVE  ToldInv'
<1>1. ASSUME NEW kind \in {"question", "decision"}, NEW text \in Texts,
             ReceiveQuestion(c, kind, text)
      PROVE ToldInv'
  <2> DEFINE h == [kind |-> kind, stage |-> "tier1", text |-> text, proposal |-> Abstention,
                   resolution |-> {}, request |-> {}, answer |-> "none",
                   epoch |-> apiEpoch, engineEpoch |-> engineEpoch]
             m == [op |-> "resolve", text |-> text, proposed |-> {}]
  <2>1. /\ c \notin DOMAIN calls /\ calls' = Put(calls, c, h) /\ Ask(c, m)
        /\ UNCHANGED <<engineVars, answerOf, provenance, apiEpoch>>
    BY <1>1 DEF ReceiveQuestion
  <2>2. /\ h.epoch = apiEpoch /\ h.answer = "none" /\ h.stage = "tier1" /\ m.op = "resolve"
    OBVIOUS
  <2> HIDE DEF h, m
  <2>3. QED BY <2>1, <2>2, ToldNew
<1>2. ASSUME NEW r \in Learnt \cup MadeUp, ReceivePresentation(c, r) PROVE ToldInv'
  <2> DEFINE known == IF r \in DOMAIN provenance THEN provenance[r] ELSE Unknown
             h == [kind |-> "presentation", stage |-> "decide", text |-> known.text,
                   proposal |-> Abstention, resolution |-> {}, request |-> {r},
                   answer |-> "none", epoch |-> apiEpoch, engineEpoch |-> engineEpoch]
             m == [op |-> "present", request |-> r,
                   text |-> known.text, resolvedBy |-> known.resolvedBy]
  <2>1. /\ c \notin DOMAIN calls /\ calls' = Put(calls, c, h) /\ Ask(c, m)
        /\ UNCHANGED <<engineVars, answerOf, provenance, apiEpoch>>
    BY <1>2 DEF ReceivePresentation
  <2>2. /\ h.epoch = apiEpoch /\ h.answer = "none" /\ h.stage = "decide" /\ m.op = "present"
        /\ m.request = r /\ m.text = known.text /\ m.resolvedBy = known.resolvedBy
    OBVIOUS
  <2>3. ASSUME r \notin MadeUp
        PROVE  \E a : /\ IsAsker(a, r)
                      /\ \/ IsOf(a, known.text, known.resolvedBy)
                         \/ /\ calls[a].epoch # apiEpoch
                            /\ known.text = Unknown.text /\ known.resolvedBy = Unknown.resolvedBy
    <3>1. CASE r \in DOMAIN provenance
      <4>1. PICK a : IsAsker(a, r) /\ IsOf(a, provenance[r].text, provenance[r].resolvedBy)
        BY <3>1 DEF ToldInv, MapsTell
      <4>2. QED BY <3>1, <4>1
    <3>2. CASE r \notin DOMAIN provenance
      <4>1. PICK a : IsAsker(a, r)
        BY <1>2, <2>3 DEF Learnt, IsAsker
      <4>2. calls[a].epoch # apiEpoch
        BY <3>2, <4>1 DEF ToldInv, MapsTell
      <4>3. QED BY <3>2, <4>1, <4>2
    <3>3. QED BY <3>1, <3>2
  <2> HIDE DEF h, m, known
  <2>4. QED BY <2>1, <2>2, <2>3, ToldNew
<1>3. QED BY <1>1, <1>2

\* The engine serves a request of c that hands over no identifier.
LEMMA ToldServed ==
  ASSUME ToldInv, BackInv', NEW c \in DOMAIN rpc, NEW a, Answers(c, a), a.request = {},
         UNCHANGED <<store, issued>>, open' \subseteq open,
         UNCHANGED log \/ \E e : log' = Put(log, c, e),
         RecordTells(c)'
  PROVE  ToldInv'
<1>1. /\ c \in DOMAIN calls /\ CallInv(c) /\ Plans(c) /\ UNCHANGED <<calls, provenance, apiEpoch>>
  BY DEF ToldInv, BackInv, GuardInv, Known, Answers
<1>2. /\ DOMAIN rpc' = DOMAIN rpc \ {c} /\ \A d \in DOMAIN rpc' : rpc'[d] = rpc[d]
      /\ DOMAIN answerOf \subseteq DOMAIN answerOf'
      /\ DOMAIN answerOf' \subseteq DOMAIN answerOf \cup {c}
      /\ \A d \in DOMAIN answerOf : d # c => answerOf'[d] = answerOf[d]
      /\ c \in DOMAIN answerOf' => answerOf'[c] = a
  BY <1>1 DEF Answers, Without, Put, CallInv, Dialogue
<1>3. /\ DOMAIN log \subseteq DOMAIN log' /\ DOMAIN log' \subseteq DOMAIN log \cup {c}
      /\ \A d \in DOMAIN log : d # c => log'[d] = log[d]
  BY DEF Put
<1>4. \A d \in DOMAIN calls : d # c => Left(d)
  BY <1>1, <1>2, <1>3 DEF Left
<1>5. AskersStay
  BY <1>1 DEF AskersStay, IsAsker
<1>6. \A b, r : /\ IsAsker(b, r)' => IsAsker(b, r)
                /\ Holds(b, r)' => Holds(b, r)
  BY <1>1, <1>2 DEF IsAsker, Holds
<1>7. OneOrigin' /\ MapsTell'
  BY <1>1, <1>5, <1>6, OriginStays DEF ToldInv, OneOrigin
<1>8. Plans(c)'
  <2>1. \A r : Holds(c, r)' => Holds(c, r)
    BY <1>6
  <2>2. QED BY <1>1, <1>2, <2>1 DEF Plans
<1>9. SendsKnown(c)'
  BY <1>2 DEF SendsKnown
<1>10. QED BY <1>1, <1>4, <1>5, <1>7, <1>8, <1>9, OneTold

\* A plan makes an identifier nobody has held before.
LEMMA ToldServePlan ==
  ASSUME ToldInv, BackInv', NEW c, ServePlan(c)
  PROVE  ToldInv'
<1>1. PICK r \in Requests :
        /\ Challenges!Issue(r)
        /\ store' = Put(store, r, [call |-> c, canonical |-> rpc[c].canonical])
        /\ Answers(c, Planned(r))
  BY DEF ServePlan
<1>2. c \in DOMAIN rpc /\ rpc[c].op = "plan" /\ UNCHANGED log
  BY DEF ServePlan
<1>3. /\ c \in DOMAIN calls /\ CallInv(c) /\ Plans(c) /\ RecordTells(c)
      /\ UNCHANGED <<calls, provenance, apiEpoch>>
  BY <1>1, <1>2 DEF ToldInv, BackInv, GuardInv, Known, Answers
<1>4. /\ r \notin issued /\ issued' = issued \cup {r} /\ open' = open \cup {r}
      /\ DOMAIN store' = DOMAIN store \cup {r}
      /\ store'[r].call = c /\ store'[r].canonical = rpc[c].canonical
      /\ \A s \in DOMAIN store : s # r => store'[s] = store[s]
  BY <1>1 DEF Challenges!Issue, Put
<1>5. /\ DOMAIN rpc' = DOMAIN rpc \ {c} /\ \A d \in DOMAIN rpc' : rpc'[d] = rpc[d]
      /\ DOMAIN answerOf \subseteq DOMAIN answerOf'
      /\ DOMAIN answerOf' \subseteq DOMAIN answerOf \cup {c}
      /\ \A d \in DOMAIN answerOf : d # c => answerOf'[d] = answerOf[d]
      /\ c \in DOMAIN answerOf' => answerOf'[c].request = {r}
  BY <1>1, <1>2, <1>3 DEF Answers, Planned, Without, Put, CallInv, Dialogue
<1>6. \A s \in DOMAIN store' : \/ s \in DOMAIN store /\ store'[s] = store[s]
                               \/ s \notin issued /\ store'[s].call = c
  BY <1>4
<1>7. \A d \in DOMAIN calls : d # c => Left(d)
  BY <1>2, <1>3, <1>5, <1>6 DEF Left
<1>8. AskersStay
  BY <1>3 DEF AskersStay, IsAsker
<1>9. \A a, s : /\ IsAsker(a, s)' => IsAsker(a, s)
                /\ Holds(a, s)' => Holds(a, s) \/ (a = c /\ s = r)
  BY <1>3, <1>5 DEF IsAsker, Holds
<1>10. \A a : ~Holds(a, r)
  BY <1>4 DEF ToldInv, OneOrigin
<1>11. OneOrigin'
  <2>1. \A s, a, b : Holds(a, s)' /\ Holds(b, s)' => a = b
    BY <1>9, <1>10 DEF ToldInv, OneOrigin
  <2>2. \A s, a : Holds(a, s)' => s \in issued'
    BY <1>4, <1>9 DEF ToldInv, OneOrigin
  <2>3. QED BY <1>3, <1>4, <2>1, <2>2 DEF ToldInv, OneOrigin
<1>12. MapsTell'
  <2>1. ASSUME NEW s \in DOMAIN provenance
        PROVE  \E a : (IsAsker(a, s) /\ IsOf(a, provenance[s].text, provenance[s].resolvedBy))'
    BY <1>3 DEF ToldInv, MapsTell, IsAsker, IsOf
  <2>2. \A s, a : IsAsker(a, s)' /\ calls'[a].epoch = apiEpoch => s \in DOMAIN provenance
    BY <1>3, <1>9 DEF ToldInv, MapsTell
  <2>3. QED BY <1>3, <2>1, <2>2 DEF MapsTell
<1>13. Plans(c)'
  <2>1. PICK res : calls[c].resolution = {res} /\ res.canonical = rpc[c].canonical
    BY <1>2, <1>3 DEF Plans
  <2>2. \A s \in DOMAIN store' : store'[s].call = c =>
          \E x : calls'[c].resolution = {x} /\ x.canonical = store'[s].canonical
    BY <1>3, <1>4, <2>1 DEF Plans
  <2>3. \A s \in DOMAIN store' : Holds(c, s)' => store'[s].call = c
    BY <1>3, <1>4, <1>9 DEF Plans
  <2>4. QED BY <1>3, <1>5, <2>2, <2>3 DEF Plans
<1>14. SendsKnown(c)'
  BY <1>5 DEF SendsKnown
<1>15. RecordTells(c)'
  BY <1>2, <1>3, <1>8, RecordStays
<1>16. QED BY <1>3, <1>6, <1>7, <1>8, <1>11, <1>12, <1>13, <1>14, <1>15, OneTold

LEMMA ToldServeOther ==
  ASSUME ToldInv, BackInv', NEW c, ServeResolve(c) \/ ServeUnknown(c) \/ ServeEvaluate(c)
  PROVE  ToldInv'
<1>1. /\ c \in DOMAIN rpc /\ rpc[c].op # "present" /\ UNCHANGED <<issued, open, store, calls>>
  BY DEF ServeResolve, ServeUnknown, ServeEvaluate, engineVars, Answers
<1>2. c \in DOMAIN calls /\ CallBacked(c) /\ RecordTells(c)
  BY <1>1 DEF ToldInv, BackInv, GuardInv, Known
<1>3. calls[c].kind # "presentation"
  BY <1>1, <1>2 DEF CallBacked
<1>4. RecordTells(c)'
  BY <1>1, <1>3 DEF RecordTells
<1>5. \E a : /\ Answers(c, a) /\ a.request = {}
             /\ UNCHANGED log \/ \E e : log' = Put(log, c, e)
  <2>1. CASE ServeResolve(c) \/ ServeUnknown(c)
    BY <2>1 DEF ServeResolve, ServeUnknown, Resolution, DecisionOr, engineVars
  <2>2. CASE ServeEvaluate(c)
    BY <2>2 DEF ServeEvaluate, DecisionOr
  <2>3. QED BY <2>1, <2>2
<1>6. QED BY <1>1, <1>4, <1>5, ToldServed

\* The record of an evaluated presentation is of an identifier that was issued,
\* and so of its asker.
LEMMA ToldServePresent ==
  ASSUME ToldInv, BackInv', NEW c, ServeReplay(c) \/ ServePresentation(c)
  PROVE  ToldInv'
<1> DEFINE r == rpc[c].request
<1>1. /\ c \in DOMAIN rpc /\ rpc[c].op = "present"
      /\ UNCHANGED <<store, calls, issued>> /\ open' \subseteq open
  BY DEF ServeReplay, ServePresentation, Audited, Answers, Challenges!Accept
<1>2. /\ c \in DOMAIN calls /\ CallBacked(c) /\ SendsKnown(c) /\ RecordTells(c)
      /\ c \notin DOMAIN log /\ calls[c].request = {r}
  BY <1>1 DEF ToldInv, BackInv, GuardInv, Known, CallBacked
<1>3. \A code : DecisionOr(code).request = {}
  BY DEF DecisionOr
<1>4. ASSUME NEW code, NEW by, Audited(c, code, by), by # "POLICY"
      PROVE  ToldInv'
  <2>1. Answers(c, DecisionOr(code)) /\ log' = Put(log, c, AuditOf(c, code, by))
    BY <1>4 DEF Audited
  <2>2. log'[c].by = by
    BY <2>1 DEF Put, AuditOf
  <2>3. RecordTells(c)'
    BY <1>4, <2>2 DEF RecordTells
  <2>4. QED BY <1>1, <1>3, <2>1, <2>3, ToldServed
<1>5. ASSUME NEW code, NEW by, Audited(c, code, by), by = "POLICY", r \in open
      PROVE  ToldInv'
  <2>1. Answers(c, DecisionOr(code)) /\ log' = Put(log, c, AuditOf(c, code, by))
    BY <1>5 DEF Audited
  <2>2. /\ log'[c].canonical = store[r].canonical
        /\ log'[c].text = rpc[c].text /\ log'[c].resolvedBy = rpc[c].resolvedBy
    BY <1>5, <2>1 DEF Put, AuditOf
  <2>3. r \in DOMAIN store /\ r \in Requests
    BY <1>5 DEF ToldInv, OneOrigin, BackInv, Spending
  <2>4. r \notin MadeUp
    BY <2>3, GatewayAssumption
  <2>5. PICK a : IsAsker(a, r) /\ ToldOf(a, c, rpc[c].text, rpc[c].resolvedBy)
    BY <1>1, <1>2, <2>4 DEF SendsKnown
  <2>6. PICK res : calls[a].resolution = {res} /\ res.canonical = store[r].canonical
    <3>1. Plans(a) /\ Holds(a, r)
      BY <2>5 DEF ToldInv, IsAsker, Holds
    <3>2. QED BY <2>3, <3>1 DEF Plans
  <2>7. PICK s, text, tier : s = r /\ text = rpc[c].text /\ tier = rpc[c].resolvedBy
    OBVIOUS
  <2>8. IsAsker(a, s)' /\ ToldOf(a, c, text, tier)'
    BY <1>1, <2>5, <2>7 DEF IsAsker, ToldOf, IsOf
  <2>9. RecordTells(c)'
    <3>1. calls'[c].request = {s} /\ calls'[a].resolution = {res} /\ res.canonical = log'[c].canonical
      BY <1>1, <1>2, <2>2, <2>6, <2>7
    <3>2. text = log'[c].text /\ tier = log'[c].resolvedBy
      BY <2>2, <2>7
    <3>3. QED BY <2>8, <3>1, <3>2 DEF RecordTells, ToldOf, IsOf
  <2>10. QED BY <1>1, <1>3, <2>1, <2>9, ToldServed
<1>6. ASSUME NEW code, Answers(c, DecisionOr(code)), UNCHANGED log
      PROVE  ToldInv'
  <2>1. RecordTells(c)'
    BY <1>2, <1>6 DEF RecordTells
  <2>2. QED BY <1>1, <1>3, <1>6, <2>1, ToldServed
<1>7. CASE ServeReplay(c)
  BY <1>4, <1>7 DEF ServeReplay
<1>8. CASE ServePresentation(c)
  <2>1. \/ \E decision : Audited(c, decision, "POLICY") /\ r \in open
        \/ Audited(c, "DENY", "CHECK")
        \/ (\E code : Answers(c, DecisionOr(code))) /\ UNCHANGED log
    BY <1>8 DEF ServePresentation, Challenges!Accept
  <2> HIDE DEF r
  <2>2. QED BY <1>4, <1>5, <1>6, <2>1
<1>9. QED BY <1>7, <1>8

LEMMA ToldRestart ==
  ASSUME ToldInv, BackInv', RestartApi \/ RestartEngine
  PROVE  ToldInv'
<1>1. CASE RestartApi
  <2>1. /\ UNCHANGED <<issued, open, accepted, store, log, rpc>>
        /\ DOMAIN answerOf' = {} /\ DOMAIN provenance' = {} /\ DOMAIN calls' = DOMAIN calls
        /\ apiEpoch' = apiEpoch + 1 /\ apiEpoch \in Nat
    BY <1>1 DEF RestartApi, engineVars, ToldInv, OneOrigin
  <2>2. ASSUME NEW c \in DOMAIN calls
        PROVE  /\ calls'[c].kind = calls[c].kind /\ calls'[c].request = calls[c].request
               /\ calls'[c].answer = calls[c].answer /\ calls'[c].text = calls[c].text
               /\ calls'[c].resolution = calls[c].resolution
               /\ calls'[c].epoch = calls[c].epoch /\ calls'[c].stage \in Ended
    <3>1. DOMAIN calls[c] = Fields
      BY DEF ToldInv, BackInv, GuardInv, CallInv, Dialogue
    <3>2. QED BY <1>1, <3>1 DEF RestartApi, Ended, Fields
  <2>3. AskersStay
    BY <2>1, <2>2 DEF AskersStay, IsAsker
  <2>4. \A a, r : /\ IsAsker(a, r)' => IsAsker(a, r)
                  /\ Holds(a, r)' => IsAsker(a, r)
    BY <2>1, <2>2 DEF IsAsker, Holds
  <2>5. OneOrigin'
    BY <2>1, <2>4 DEF ToldInv, OneOrigin, Holds
  <2>6. ASSUME NEW c \in DOMAIN calls
        PROVE  /\ calls'[c].epoch \in Nat /\ calls'[c].epoch <= apiEpoch'
               /\ calls'[c].epoch # apiEpoch'
    BY <2>1, <2>2 DEF ToldInv, Plans
  <2>7. MapsTell'
    BY <2>1, <2>6 DEF MapsTell, IsAsker
  <2>8. ASSUME NEW c \in DOMAIN calls PROVE Plans(c)' /\ SendsKnown(c)' /\ RecordTells(c)'
    <3>1. Plans(c) /\ SendsKnown(c) /\ RecordTells(c)
      BY DEF ToldInv
    <3>2. \A r : Holds(c, r)' => Holds(c, r)
      BY <2>4 DEF Holds
    <3>3. Plans(c)'
      BY <2>1, <2>2, <2>6, <3>1, <3>2 DEF Plans, Ended
    <3>4. SendsKnown(c)' /\ RecordTells(c)'
      BY <2>1, <2>2, <2>3, <3>1, SendsStay, RecordStays
    <3>5. QED BY <3>3, <3>4
  <2>9. QED BY <2>1, <2>5, <2>7, <2>8 DEF ToldInv
<1>2. CASE RestartEngine
  <2>1. /\ UNCHANGED <<calls, answerOf, provenance, apiEpoch, issued>> /\ open' = {}
        /\ DOMAIN rpc' = {} /\ DOMAIN store' = {} /\ DOMAIN log' = {}
    BY <1>2 DEF RestartEngine, Challenges!Forget
  <2>2. AskersStay /\ \A a, r : /\ IsAsker(a, r)' => IsAsker(a, r)
                                /\ Holds(a, r)' => Holds(a, r)
    BY <2>1 DEF AskersStay, IsAsker, Holds
  <2>3. OneOrigin' /\ MapsTell'
    BY <2>1, <2>2, OriginStays DEF ToldInv
  <2>4. ASSUME NEW c \in DOMAIN calls PROVE Plans(c)' /\ SendsKnown(c)' /\ RecordTells(c)'
    BY <2>1 DEF ToldInv, Plans, SendsKnown, RecordTells
  <2>5. QED BY <2>1, <2>3, <2>4 DEF ToldInv
<1>3. QED BY <1>1, <1>2

LEMMA ToldStep ==
  ASSUME ToldInv, [Next]_vars
  PROVE  ToldInv'
<1>1. BackInv'
  BY BackedStep DEF ToldInv
<1>2. CASE UNCHANGED vars
  <2>1. /\ UNCHANGED <<issued, open, store, log, rpc>>
        /\ UNCHANGED <<answerOf, calls, provenance, apiEpoch>>
    BY <1>2 DEF vars
  <2>2. AskersStay /\ \A a, r : /\ IsAsker(a, r)' => IsAsker(a, r)
                                /\ Holds(a, r)' => Holds(a, r)
    BY <2>1 DEF AskersStay, IsAsker, Holds
  <2>3. OneOrigin' /\ MapsTell'
    BY <2>1, <2>2, OriginStays DEF ToldInv, OneOrigin
  <2>4. ASSUME NEW c \in DOMAIN calls PROVE Plans(c)' /\ SendsKnown(c)' /\ RecordTells(c)'
    <3>1. Plans(c)'
      BY <2>1, <2>2 DEF ToldInv, Plans
    <3>2. SendsKnown(c)' /\ RecordTells(c)'
      BY <2>1, <2>2, SendsStay, RecordStays DEF ToldInv
    <3>3. QED BY <3>1, <3>2
  <2>5. QED BY <1>1, <2>1, <2>3, <2>4 DEF ToldInv
<1>3. CASE RestartApi \/ RestartEngine
  BY <1>1, <1>3, ToldRestart
<1>4. ASSUME NEW c \in Calls,
             \/ \E kind \in {"question", "decision"}, text \in Texts :
                  ReceiveQuestion(c, kind, text)
             \/ \E r \in Learnt \cup MadeUp : ReceivePresentation(c, r)
      PROVE ToldInv'
  BY <1>1, <1>4, ToldReceive
<1>5. ASSUME NEW c \in Calls, Thread(c) PROVE ToldInv'
  BY <1>1, <1>5, ToldGoesOn
<1>6. ASSUME NEW c \in Calls, Serve(c) PROVE ToldInv'
  BY <1>1, <1>6, ToldServePlan, ToldServeOther, ToldServePresent DEF Serve
<1>7. CASE Next
  <2>1. CASE \E c \in Calls :
               \/ \E kind \in {"question", "decision"}, text \in Texts :
                    ReceiveQuestion(c, kind, text)
               \/ \E r \in Learnt \cup MadeUp : ReceivePresentation(c, r)
               \/ Thread(c)
               \/ Serve(c)
    BY <2>1, <1>4, <1>5, <1>6
  <2>2. QED BY <1>3, <1>7, <2>1 DEF Next
<1>8. QED BY <1>2, <1>7

\* In every reachable state an identifier comes from one plan, and the maps, the
\* requests on their way and the log tell of the call that asked for it.
THEOREM ToldInvariance == Spec => []ToldInv
<1>1. Init => ToldInv
  BY DEF Init, ToldInv, BackInv, GuardInv, Known, Spending, Challenges!Init,
         OneOrigin, MapsTell, Holds, IsAsker
<1>2. ToldInv /\ [Next]_vars => ToldInv'
  BY ToldStep
<1>3. QED BY <1>1, <1>2, PTL DEF Spec

\* The audit of an evaluated presentation tells the text and the tier of the
\* call that asked, unless the API has restarted in between, for any number of
\* calls and any interleaving of their threads with the engine's answers.
THEOREM ProvenanceStands == Spec => []ProvenanceTold
<1>1. ASSUME ToldInv PROVE ProvenanceTold
  <2> SUFFICES ASSUME NEW c \in DOMAIN log, calls[c].kind = "presentation", log[c].by = "POLICY"
               PROVE  \/ TellsProvenance(c)
                      \/ /\ \E r \in calls[c].request : calls[Asker(r)].epoch # calls[c].epoch
                         /\ [text |-> log[c].text, resolvedBy |-> log[c].resolvedBy] = Unknown
    BY DEF ProvenanceTold
  <2>1. c \in DOMAIN calls
    BY <1>1 DEF ToldInv, BackInv, GuardInv, Known
  <2>2. PICK a, r, res :
          /\ calls[c].request = {r} /\ IsAsker(a, r)
          /\ calls[a].resolution = {res} /\ res.canonical = log[c].canonical
          /\ ToldOf(a, c, log[c].text, log[c].resolvedBy)
    BY <1>1, <2>1 DEF ToldInv, RecordTells
  <2>3. Asker(r) = a
    <3>1. \A b : IsAsker(b, r) => b = a
      BY <1>1, <2>2 DEF ToldInv, OneOrigin, Holds
    <3>2. QED BY <2>2, <3>1 DEF Asker, IsAsker
  <2>4. CASE IsOf(a, log[c].text, log[c].resolvedBy)
    BY <2>2, <2>3, <2>4 DEF IsOf, TellsProvenance
  <2>5. CASE /\ calls[a].epoch # calls[c].epoch
             /\ log[c].text = Unknown.text /\ log[c].resolvedBy = Unknown.resolvedBy
    <3>1. [text |-> log[c].text, resolvedBy |-> log[c].resolvedBy] = Unknown
      BY <2>5 DEF Unknown
    <3>2. QED BY <2>2, <2>3, <2>5, <3>1
  <2>6. QED BY <2>2, <2>4, <2>5 DEF ToldOf
<1>2. QED BY <1>1, ToldInvariance, PTL

=============================================================================
