---------------------------- MODULE EngineProofs ----------------------------
(***************************************************************************)
(* The engine's theorems, for any number of requests, calls, restarts and  *)
(* presentations, any registry and any TTL: a challenge is used once, and  *)
(* what its answers rest on.                                               *)
(***************************************************************************)
EXTENDS EngineSafety, PolicyLemmas

\* What the operators of the handlers return.
LEMMA FailedCheckType ==
  \A vp, key, ch, time : FailedCheck(vp, key, ch, time) \in CheckCodes
BY DEF FailedCheck, CheckCodes

LEMMA KindOfType ==
  \A c \in DOMAIN Predicates \cup DOMAIN Policies : KindOf(c) \in Kinds
BY DEF KindOf, Kinds

LEMMA NonceResultType ==
  \A r, nonce, audience, now : NonceResult(r, nonce, audience, now) \in NonceResults \ {"NONE"}
BY DEF NonceResult, NonceResults

LEMMA AnswerToType ==
  ASSUME NEW h, NEW result \in NonceResults \ {"NONE"}
  PROVE  AnswerTo(h, result) \in Decisions \cup ErrorCodes
<1> DEFINE ch == h.challenge
           ev == DeriveEvidence(EvidenceTypes, ch.required, h.vp.claims, h.evalTime)
           given == {[type |-> t, state |-> ev[t]] : t \in ch.required}
<1>1. VerifiedReport(h).decision \in Decisions
  <2>1. VerifiedReport(h) = Report(ch.canonical, ch.kind, ev, given)
    BY DEF VerifiedReport
  <2> HIDE DEF ch, ev, given
  <2>2. Report(ch.canonical, ch.kind, ev, given).decision \in Decisions
    BY ReportDecisionType DEF Decisions
  <2>3. QED BY <2>1, <2>2
<1>2. QED BY <1>1 DEF AnswerTo, NonceResults, Decisions, ErrorCodes

LEMMA PutValues ==
  ASSUME NEW f, NEW k, NEW v
  PROVE  /\ DOMAIN Put(f, k, v) = DOMAIN f \cup {k}
         /\ Put(f, k, v)[k] = v
         /\ \A x \in DOMAIN f : x # k => Put(f, k, v)[x] = f[x]
BY DEF Put

-----------------------------------------------------------------------------

\* A call's stage and outcome may change, not what it was received with.
LEMMA TypeInit == Init => TypeOK
BY EngineAssumption DEF Init, TypeOK

LEMMA TypePlan ==
  ASSUME TypeOK, NEW r \in Requests, Plan(r)
  PROVE  TypeOK'
<1>1. PICK c \in DOMAIN Predicates \cup DOMAIN Policies, known \in Known, a \in Audiences :
        store' = Put(store, r,
          [requestId |-> r, nonce |-> NonceOf(r), audience |-> a,
           issuedAt |-> clock, expiresAt |-> clock + TTL, canonical |-> c, kind |-> KindOf(c),
           required |-> BuildPlan(c, KindOf(c), Established(c, KindOf(c), known)).requiredEvidence,
           consumed |-> FALSE])
  BY DEF Plan
<1> DEFINE plan == BuildPlan(c, KindOf(c), Established(c, KindOf(c), known))
           e == [requestId |-> r, nonce |-> NonceOf(r), audience |-> a,
                 issuedAt |-> clock, expiresAt |-> clock + TTL, canonical |-> c,
                 kind |-> KindOf(c), required |-> plan.requiredEvidence, consumed |-> FALSE]
<1>2. e \in Entries
  <2>1. clock \in Nat /\ clock + TTL \in Nat
    BY EngineAssumption DEF TypeOK
  <2>2. KindOf(c) \in Kinds
    BY KindOfType
  <2>3. plan.requiredEvidence \in SUBSET EvidenceTypes
    BY BuildPlanType
  <2>4. QED BY <2>1, <2>2, <2>3 DEF Entries, NonceOf
<1>3. DOMAIN store' = DOMAIN store \cup {r}
  BY <1>1, PutValues
<1>4. \A s \in DOMAIN store' : store'[s] \in Entries
  BY <1>1, <1>2, <1>3 DEF TypeOK, Put
<1>5. QED BY <1>3, <1>4 DEF TypeOK, Plan

LEMMA TypeReceive ==
  ASSUME TypeOK, NEW c \in Calls, Receive(c) \/ ReceiveUnparsable(c)
  PROVE  TypeOK'
<1>1. \E h \in Handlers : /\ calls' = Put(calls, c, h)
                          /\ h.at = clock /\ h.epoch = epoch
  <2>1. clock \in Nat /\ epoch \in Nat /\ EvalTimes \subseteq Nat
    BY EngineAssumption DEF TypeOK
  <2>2. CASE Receive(c)
    <3>1. PICK r \in Requests, vp \in Submissions, t \in EvalTimes \cup {clock} :
            calls' = Put(calls, c,
              [stage |-> "peek", request |-> r, at |-> clock, evalTime |-> t,
               vp |-> vp, epoch |-> epoch, challenge |-> NoChallenge,
               failed |-> "NONE", result |-> "NONE", answer |-> "NONE"])
      BY <2>2 DEF Receive, Start
    <3>2. [stage |-> "peek", request |-> r, at |-> clock, evalTime |-> t,
           vp |-> vp, epoch |-> epoch, challenge |-> NoChallenge,
           failed |-> "NONE", result |-> "NONE", answer |-> "NONE"] \in Handlers
      BY <2>1 DEF Handlers, Stages, CheckCodes, NonceResults
    <3>3. QED BY <3>1, <3>2
  <2>3. CASE ReceiveUnparsable(c)
    <3>1. PICK r \in Requests :
            calls' = Put(calls, c,
              [stage |-> "reply", request |-> r, at |-> clock, evalTime |-> clock,
               vp |-> CHOOSE vp \in Submissions : TRUE, epoch |-> epoch,
               challenge |-> NoChallenge,
               failed |-> "NONE", result |-> "NONE", answer |-> "VALIDATION_ERROR"])
      BY <2>3 DEF ReceiveUnparsable
    <3>2. (CHOOSE vp \in Submissions : TRUE) \in Submissions
      BY EngineAssumption DEF Submissions
    <3>3. [stage |-> "reply", request |-> r, at |-> clock, evalTime |-> clock,
           vp |-> CHOOSE vp \in Submissions : TRUE, epoch |-> epoch,
           challenge |-> NoChallenge,
           failed |-> "NONE", result |-> "NONE", answer |-> "VALIDATION_ERROR"] \in Handlers
      BY <2>1, <3>2 DEF Handlers, Stages, CheckCodes, NonceResults, ErrorCodes
    <3>4. QED BY <3>1, <3>3
  <2>4. QED BY <2>2, <2>3
<1>2. PICK h \in Handlers : calls' = Put(calls, c, h) /\ h.at = clock /\ h.epoch = epoch
  BY <1>1
<1>3. UNCHANGED <<clock, epoch, issued, store, audits>>
  BY DEF Receive, Start, ReceiveUnparsable
<1>4. DOMAIN calls' = DOMAIN calls \cup {c}
  BY <1>2, PutValues
<1>5. \A d \in DOMAIN calls' :
        calls'[d] \in Handlers /\ calls'[d].at <= clock /\ calls'[d].epoch <= epoch
  BY <1>2, <1>4 DEF TypeOK, Put
<1>6. QED BY <1>3, <1>4, <1>5 DEF TypeOK

\* A step of a handler replaces its own record by one with the same request,
\* submission and instant.
LEMMA TypeHandle ==
  ASSUME TypeOK, NEW c \in Calls, Handle(c)
  PROVE  TypeOK'
<1>1. c \in DOMAIN calls /\ calls[c] \in Handlers
  BY DEF Handle, Peek, Consume, Record, Reply, TypeOK
<1>2. /\ DOMAIN calls' = DOMAIN calls
      /\ \A d \in DOMAIN calls : d # c => calls'[d] = calls[d]
      /\ calls'[c] \in Handlers
      /\ calls'[c].at = calls[c].at /\ calls'[c].epoch = calls[c].epoch
  <2>1. CASE Peek(c)
    BY <1>1, <2>1, FailedCheckType DEF Peek, Handlers, TypeOK, Stages, Decisions, ErrorCodes
  <2>2. CASE Consume(c)
    <3>1. NonceResult(calls[c].request, calls[c].vp.nonce, calls[c].vp.audience, calls[c].at)
            \in NonceResults \ {"NONE"}
      BY NonceResultType
    <3>2. AnswerTo(calls[c], NonceResult(calls[c].request, calls[c].vp.nonce,
                             calls[c].vp.audience, calls[c].at)) \in Decisions \cup ErrorCodes
      BY <3>1, AnswerToType
    <3>3. QED BY <1>1, <2>2, <3>1, <3>2 DEF Consume, Handlers, Stages
  <2>3. CASE Record(c)
    BY <1>1, <2>3 DEF Record, Handlers, Stages
  <2>4. CASE Reply(c)
    BY <1>1, <2>4 DEF Reply, Handlers, Stages
  <2>5. QED BY <2>1, <2>2, <2>3, <2>4 DEF Handle
<1>3. DOMAIN store' = DOMAIN store /\ \A r \in DOMAIN store' : store'[r] \in Entries
  <2>1. CASE UNCHANGED store
    BY <2>1 DEF TypeOK
  <2>2. CASE store' = [store EXCEPT ![calls[c].request].consumed = TRUE]
    BY <2>2, ZenonT(40) DEF TypeOK, Entries
  <2>3. QED BY <2>1, <2>2 DEF Handle, Peek, Consume, Record, Reply
<1>4. DOMAIN audits' \subseteq DOMAIN calls
  <2>1. CASE UNCHANGED audits
    BY <2>1 DEF TypeOK
  <2>2. CASE audits' = Put(audits, c, AuditOf(calls[c]))
    <3>1. DOMAIN audits' = DOMAIN audits \cup {c}
      BY <2>2 DEF Put
    <3>2. QED BY <3>1, <1>1 DEF TypeOK
  <2>3. QED BY <2>1, <2>2 DEF Handle, Peek, Consume, Record, Reply
<1>5. UNCHANGED <<clock, epoch, issued>>
  BY DEF Handle, Peek, Consume, Record, Reply
<1>6. QED BY <1>2, <1>3, <1>4, <1>5 DEF TypeOK

LEMMA TypeRestart ==
  ASSUME TypeOK, Restart
  PROVE  TypeOK'
<1>1. epoch' \in 0..MaxRestarts /\ epoch < epoch'
  BY EngineAssumption DEF TypeOK, Restart
<1>2. DOMAIN calls' = DOMAIN calls
  BY DEF Restart
<1>3. \A c \in DOMAIN calls :
        calls'[c] \in Handlers /\ calls'[c].at <= clock /\ calls'[c].epoch <= epoch
  BY DEF TypeOK, Restart, Handlers, Stages
<1>4. \A c \in DOMAIN calls : calls'[c].epoch <= epoch'
  BY <1>1, <1>3 DEF TypeOK, Handlers
<1>5. DOMAIN store' = {} /\ DOMAIN audits' = {}
  BY DEF Restart
<1>6. QED BY <1>1, <1>2, <1>3, <1>4, <1>5 DEF TypeOK, Restart

LEMMA TypeTick ==
  ASSUME TypeOK, Tick
  PROVE  TypeOK'
<1>1. clock' \in 0..MaxTime /\ clock <= clock'
  BY EngineAssumption DEF TypeOK, Tick
<1>2. \A c \in DOMAIN calls : calls[c].at <= clock'
  BY <1>1 DEF TypeOK, Handlers
<1>3. QED BY <1>1, <1>2 DEF TypeOK, Tick

\* The state keeps its types, and its bounds: every entry belongs to an issued
\* request, every audit to a call, and no call comes from the future.
THEOREM TypeCorrect == Spec => []TypeOK
<1>1. TypeOK /\ [Next]_vars => TypeOK'
  <2> SUFFICES ASSUME TypeOK, [Next]_vars PROVE TypeOK'
    OBVIOUS
  <2>1. CASE \E r \in Requests : Plan(r)
    BY <2>1, TypePlan
  <2>2. CASE \E c \in Calls : Receive(c) \/ ReceiveUnparsable(c) \/ Handle(c)
    BY <2>2, TypeReceive, TypeHandle
  <2>3. CASE Tick
    BY <2>3, TypeTick
  <2>4. CASE Restart
    BY <2>4, TypeRestart
  <2>5. CASE UNCHANGED vars
    BY <2>5 DEF vars, TypeOK
  <2>6. QED BY <2>1, <2>2, <2>3, <2>4, <2>5 DEF Next
<1>2. QED BY <1>1, TypeInit, PTL DEF Spec

-----------------------------------------------------------------------------
(***************************************************************************)
(* Single use.  AtMostOneWinner is not inductive: it needs that a winner's *)
(* challenge is no longer open, and that identifiers are not issued twice. *)
(* ReplayHasWinner needs that a consumed entry has a winner of this very   *)
(* process, and that a handler about to consume belongs to it.             *)
(***************************************************************************)

WinnersSpend == \A c \in Winners : calls[c].request \in issued /\ ~Open(calls[c].request)

SpentHasWinner ==
  \A r \in DOMAIN store : store[r].consumed =>
    \E w \in Winners : calls[w].request = r /\ calls[w].epoch = epoch

UndecidedIsCurrent ==
  \A c \in DOMAIN calls : calls[c].stage \in {"peek", "consume"} =>
    calls[c].result = "NONE" /\ calls[c].epoch = epoch

SafeInv ==
  /\ TypeOK
  /\ WinnersSpend /\ SpentHasWinner /\ UndecidedIsCurrent
  /\ AtMostOneWinner /\ ReplayHasWinner

\* A step that decides no submission: the outcomes of the calls there are stay,
\* and calls that arrive have none.
Quiet ==
  /\ DOMAIN calls \subseteq DOMAIN calls'
  /\ \A d \in DOMAIN calls : /\ calls'[d].result = calls[d].result
                             /\ calls'[d].request = calls[d].request
                             /\ calls'[d].epoch = calls[d].epoch
  /\ \A d \in DOMAIN calls' \ DOMAIN calls : calls'[d].result = "NONE"

Undeciding ==
  \/ \E r \in Requests : Plan(r)
  \/ \E c \in Calls : \/ Receive(c) \/ ReceiveUnparsable(c)
                      \/ Peek(c) \/ Record(c) \/ Reply(c)
  \/ Tick
  \/ Restart
  \/ UNCHANGED vars

LEMMA NextCases ==
  [Next]_vars => Undeciding \/ \E c \in Calls : Consume(c)
BY DEF Next, Undeciding, Handle

\* A call that arrives has no outcome yet, and belongs to this process.
LEMMA ReceiveAdds ==
  ASSUME NEW c \in Calls, Receive(c) \/ ReceiveUnparsable(c)
  PROVE  /\ c \notin DOMAIN calls /\ UNCHANGED epoch
         /\ \E h : calls' = Put(calls, c, h) /\ h.result = "NONE" /\ h.epoch = epoch
<1>1. CASE Receive(c)
  <2>1. PICK r \in Requests, vp \in Submissions, t \in EvalTimes \cup {clock} :
          calls' = Put(calls, c,
            [stage |-> "peek", request |-> r, at |-> clock, evalTime |-> t,
             vp |-> vp, epoch |-> epoch, challenge |-> NoChallenge,
             failed |-> "NONE", result |-> "NONE", answer |-> "NONE"])
    BY <1>1 DEF Receive, Start
  <2> DEFINE h == [stage |-> "peek", request |-> r, at |-> clock, evalTime |-> t,
                   vp |-> vp, epoch |-> epoch, challenge |-> NoChallenge,
                   failed |-> "NONE", result |-> "NONE", answer |-> "NONE"]
  <2>2. h.result = "NONE" /\ h.epoch = epoch
    OBVIOUS
  <2> HIDE DEF h
  <2>3. QED BY <1>1, <2>1, <2>2 DEF Receive, Start, h
<1>2. CASE ReceiveUnparsable(c)
  <2>1. PICK r \in Requests :
          calls' = Put(calls, c,
            [stage |-> "reply", request |-> r, at |-> clock, evalTime |-> clock,
             vp |-> CHOOSE vp \in Submissions : TRUE, epoch |-> epoch,
             challenge |-> NoChallenge,
             failed |-> "NONE", result |-> "NONE", answer |-> "VALIDATION_ERROR"])
    BY <1>2 DEF ReceiveUnparsable
  <2> DEFINE h == [stage |-> "reply", request |-> r, at |-> clock, evalTime |-> clock,
                   vp |-> CHOOSE vp \in Submissions : TRUE, epoch |-> epoch,
                   challenge |-> NoChallenge,
                   failed |-> "NONE", result |-> "NONE", answer |-> "VALIDATION_ERROR"]
  <2>2. h.result = "NONE" /\ h.epoch = epoch
    OBVIOUS
  <2> HIDE DEF h
  <2>3. QED BY <1>2, <2>1, <2>2 DEF ReceiveUnparsable, h
<1>3. QED BY <1>1, <1>2

LEMMA UndecidingIsQuiet ==
  ASSUME TypeOK, Undeciding
  PROVE  Quiet
<1>1. CASE UNCHANGED calls
  BY <1>1 DEF Quiet
<1>2. ASSUME NEW c \in Calls, Receive(c) \/ ReceiveUnparsable(c)
      PROVE  Quiet
  <2>1. PICK h : calls' = Put(calls, c, h) /\ h.result = "NONE"
    BY <1>2, ReceiveAdds
  <2>2. c \notin DOMAIN calls
    BY <1>2, ReceiveAdds
  <2>3. QED BY <2>1, <2>2 DEF Put, Quiet
<1>3. ASSUME NEW c \in Calls, Peek(c) \/ Record(c) \/ Reply(c)
      PROVE  Quiet
  <2>1. c \in DOMAIN calls /\ calls[c] \in Handlers
    BY <1>3 DEF Peek, Record, Reply, TypeOK
  <2>2. CASE Peek(c)
    BY <2>1, <2>2 DEF Peek, Quiet, Handlers
  <2>3. CASE Record(c)
    BY <2>1, <2>3 DEF Record, Quiet, Handlers
  <2>4. CASE Reply(c)
    BY <2>1, <2>4 DEF Reply, Quiet, Handlers
  <2>5. QED BY <1>3, <2>2, <2>3, <2>4
<1>4. CASE Restart
  BY <1>4 DEF Restart, Quiet, TypeOK, Handlers
<1>5. QED BY <1>1, <1>2, <1>3, <1>4 DEF Undeciding, Plan, Tick, vars

\* A quiet step changes no winner, nor what it has won.
LEMMA QuietWinners ==
  ASSUME Quiet
  PROVE  /\ Winners' = Winners
         /\ \A w \in Winners : /\ calls'[w].request = calls[w].request
                               /\ calls'[w].epoch = calls[w].epoch
BY DEF Quiet, Winners

\* The store after a step that decides nothing: a new entry of a new request,
\* nothing at all after a restart, or what it was.
LEMMA UndecidingStore ==
  ASSUME TypeOK, Undeciding
  PROVE  \/ UNCHANGED <<store, issued, epoch>>
         \/ Restart
         \/ \E r \in Requests :
              /\ r \notin issued /\ issued' = issued \cup {r} /\ epoch' = epoch
              /\ DOMAIN store' = DOMAIN store \cup {r} /\ ~store'[r].consumed
              /\ \A s \in DOMAIN store : s # r => store'[s] = store[s]
<1>1. ASSUME NEW r \in Requests, Plan(r)
      PROVE  /\ r \notin issued /\ issued' = issued \cup {r} /\ epoch' = epoch
             /\ DOMAIN store' = DOMAIN store \cup {r} /\ ~store'[r].consumed
             /\ \A s \in DOMAIN store : s # r => store'[s] = store[s]
  <2>1. \E e : store' = Put(store, r, e) /\ ~e.consumed
    BY <1>1 DEF Plan
  <2>2. QED BY <1>1, <2>1 DEF Plan, Put
<1>2. QED
  BY <1>1 DEF Undeciding, Receive, Start, ReceiveUnparsable, Peek, Record, Reply, Tick, vars

\* It opens no challenge that was issued before.
LEMMA UndecidingSpends ==
  ASSUME TypeOK, Undeciding, NEW s \in issued, ~Open(s)
  PROVE  s \in issued' /\ ~Open(s)'
<1>1. CASE UNCHANGED <<store, issued, epoch>>
  BY <1>1 DEF Open
<1>2. CASE Restart
  BY <1>2 DEF Restart, Open
<1>3. CASE \E r \in Requests :
             /\ r \notin issued /\ issued' = issued \cup {r} /\ epoch' = epoch
             /\ DOMAIN store' = DOMAIN store \cup {r} /\ ~store'[r].consumed
             /\ \A x \in DOMAIN store : x # r => store'[x] = store[x]
  <2>1. PICK r \in Requests :
             /\ r \notin issued /\ issued' = issued \cup {r}
             /\ DOMAIN store' = DOMAIN store \cup {r}
             /\ \A x \in DOMAIN store : x # r => store'[x] = store[x]
    BY <1>3
  <2>2. s # r
    BY <2>1
  <2>3. QED BY <2>1, <2>2 DEF Open
<1>4. QED BY <1>1, <1>2, <1>3, UndecidingStore

LEMMA SafeUndeciding ==
  ASSUME SafeInv, Undeciding, TypeOK'
  PROVE  SafeInv'
<1>1. Quiet
  BY UndecidingIsQuiet DEF SafeInv
<1>2. /\ Winners' = Winners
      /\ \A w \in Winners : /\ calls'[w].request = calls[w].request
                            /\ calls'[w].epoch = calls[w].epoch
  BY <1>1, QuietWinners
<1>3. WinnersSpend'
  <2>1. ASSUME NEW s \in issued, ~Open(s)
        PROVE  s \in issued' /\ ~Open(s)'
    BY <2>1, UndecidingSpends DEF SafeInv
  <2>2. QED BY <2>1, <1>2 DEF SafeInv, WinnersSpend
<1>4. SpentHasWinner'
  <2> SUFFICES ASSUME NEW r \in DOMAIN store', store'[r].consumed
               PROVE  \E w \in Winners : calls[w].request = r /\ calls[w].epoch = epoch'
    BY <1>2 DEF SpentHasWinner
  <2>1. ~Restart
    BY DEF Restart
  <2>2. epoch' = epoch /\ r \in DOMAIN store /\ store'[r] = store[r]
    BY <2>1, UndecidingStore DEF SafeInv
  <2>3. QED BY <2>2 DEF SafeInv, SpentHasWinner
<1>5. UndecidedIsCurrent'
  <2>1. ASSUME NEW c \in Calls, Receive(c) \/ ReceiveUnparsable(c)
        PROVE  UndecidedIsCurrent'
    <3>1. PICK h : calls' = Put(calls, c, h) /\ h.result = "NONE" /\ h.epoch = epoch
      BY <2>1, ReceiveAdds
    <3>2. epoch' = epoch
      BY <2>1, ReceiveAdds
    <3>3. QED BY <3>1, <3>2 DEF Put, SafeInv, UndecidedIsCurrent
  <2>2. ASSUME NEW c \in Calls, Peek(c) \/ Record(c) \/ Reply(c)
        PROVE  UndecidedIsCurrent'
    <3>1. /\ epoch' = epoch /\ DOMAIN calls' = DOMAIN calls
          /\ c \in DOMAIN calls /\ calls[c] \in Handlers
          /\ \A d \in DOMAIN calls : d # c => calls'[d] = calls[d]
      BY <2>2 DEF Peek, Record, Reply, SafeInv, TypeOK
    <3>2. calls'[c].stage \in {"peek", "consume"} => calls[c].stage = "peek"
      BY <2>2, <3>1 DEF Peek, Record, Reply, Handlers
    <3>3. QED BY <3>1, <3>2, <1>1 DEF SafeInv, UndecidedIsCurrent, Quiet
  <2>3. CASE Restart
    BY <2>3 DEF Restart, UndecidedIsCurrent, SafeInv, TypeOK, Handlers, Ended
  <2>4. CASE UNCHANGED <<calls, epoch>>
    BY <2>4 DEF SafeInv, UndecidedIsCurrent
  <2>5. QED BY <2>1, <2>2, <2>3, <2>4 DEF Undeciding, Plan, Tick, vars
<1>6. AtMostOneWinner'
  BY <1>2 DEF SafeInv, AtMostOneWinner
<1>7. ReplayHasWinner'
  BY <1>1, <1>2 DEF SafeInv, ReplayHasWinner, Quiet
<1>8. QED BY <1>3, <1>4, <1>5, <1>6, <1>7 DEF SafeInv

\* What a critical section does: it decides one undecided call, and with Ok it
\* closes the call's challenge, open until then, and no other.
LEMMA ConsumeDecides ==
  ASSUME TypeOK, NEW c \in Calls, Consume(c)
  PROVE  /\ c \in DOMAIN calls /\ calls[c].stage = "consume"
         /\ DOMAIN calls' = DOMAIN calls
         /\ \A d \in DOMAIN calls : d # c => calls'[d] = calls[d]
         /\ calls'[c].request = calls[c].request /\ calls'[c].epoch = calls[c].epoch
         /\ calls'[c].stage \notin {"peek", "consume"}
         /\ UNCHANGED <<issued, epoch>>
         /\ DOMAIN store' = DOMAIN store
         /\ calls'[c].result = "OK" =>
              /\ Open(calls[c].request) /\ store'[calls[c].request].consumed
              /\ \A r \in DOMAIN store : r # calls[c].request => store'[r] = store[r]
         /\ calls'[c].result # "OK" => UNCHANGED store
         /\ calls'[c].result = "NONCE_ALREADY_CONSUMED" =>
              calls[c].request \in DOMAIN store /\ store[calls[c].request].consumed
<1> DEFINE h == calls[c]
           result == NonceResult(h.request, h.vp.nonce, h.vp.audience, h.at)
<1>1. c \in DOMAIN calls /\ h.stage = "consume" /\ h \in Handlers
  BY DEF Consume, TypeOK
<1>2. /\ calls' = [calls EXCEPT
           ![c].result = result,
           ![c].answer = AnswerTo(h, result),
           ![c].stage  = IF result \in {"OK", "NONCE_ALREADY_CONSUMED"}
                         THEN "record" ELSE "reply"]
      /\ store' = IF result = "OK" THEN [store EXCEPT ![h.request].consumed = TRUE] ELSE store
      /\ UNCHANGED <<issued, epoch>>
  BY DEF Consume
<1>3. result = "OK" => Open(h.request)
  BY DEF NonceResult, Open
<1>4. result = "NONCE_ALREADY_CONSUMED" => h.request \in DOMAIN store /\ store[h.request].consumed
  BY DEF NonceResult
<1> HIDE DEF result
<1>5. /\ DOMAIN calls' = DOMAIN calls
      /\ \A d \in DOMAIN calls : d # c => calls'[d] = calls[d]
      /\ calls'[c].request = h.request /\ calls'[c].epoch = h.epoch
      /\ calls'[c].result = result /\ calls'[c].stage \in {"record", "reply"}
  BY <1>1, <1>2 DEF Handlers
<1>6. \A r \in DOMAIN store : store[r] \in Entries
  BY DEF TypeOK
<1>7. CASE result = "OK"
  BY <1>1, <1>2, <1>3, <1>5, <1>6, <1>7 DEF Open, Entries
<1>8. CASE result # "OK"
  BY <1>1, <1>2, <1>4, <1>5, <1>8
<1>9. QED BY <1>7, <1>8

LEMMA SafeConsume ==
  ASSUME SafeInv, NEW c \in Calls, Consume(c), TypeOK'
  PROVE  SafeInv'
<1> DEFINE r == calls[c].request
<1>1. /\ c \in DOMAIN calls /\ calls[c].stage = "consume"
      /\ DOMAIN calls' = DOMAIN calls
      /\ \A d \in DOMAIN calls : d # c => calls'[d] = calls[d]
      /\ calls'[c].request = r /\ calls'[c].epoch = calls[c].epoch
      /\ calls'[c].stage \notin {"peek", "consume"}
      /\ UNCHANGED <<issued, epoch>> /\ DOMAIN store' = DOMAIN store
      /\ calls'[c].result = "OK" =>
           /\ Open(r) /\ store'[r].consumed
           /\ \A s \in DOMAIN store : s # r => store'[s] = store[s]
      /\ calls'[c].result # "OK" => UNCHANGED store
      /\ calls'[c].result = "NONCE_ALREADY_CONSUMED" => r \in DOMAIN store /\ store[r].consumed
  BY ConsumeDecides DEF SafeInv
<1>2. calls[c].result = "NONE" /\ calls[c].epoch = epoch /\ c \notin Winners
  BY <1>1 DEF SafeInv, UndecidedIsCurrent, Winners
<1>3. /\ \A w \in Winners : w \in Winners' /\ calls'[w] = calls[w]
      /\ \A w \in Winners' : w \in Winners \/ (w = c /\ calls'[c].result = "OK")
  BY <1>1, <1>2 DEF Winners
<1>4. DOMAIN store \subseteq issued
  BY DEF SafeInv, TypeOK
<1>5. \A s : Open(s)' => Open(s) /\ ~(s = r /\ calls'[c].result = "OK")
  BY <1>1 DEF Open
<1>6. WinnersSpend'
  <2>1. ASSUME NEW w \in Winners', NEW s, s = calls'[w].request
        PROVE  s \in issued /\ ~Open(s)'
    <3>1. CASE w \in Winners
      BY <2>1, <3>1, <1>3, <1>5 DEF SafeInv, WinnersSpend
    <3>2. CASE w = c /\ calls'[c].result = "OK"
      BY <2>1, <3>2, <1>1, <1>4, <1>5 DEF Open
    <3>3. QED BY <3>1, <3>2, <1>3
  <2>2. QED BY <2>1, <1>1 DEF WinnersSpend
<1>7. SpentHasWinner'
  <2> SUFFICES ASSUME NEW s \in DOMAIN store, store'[s].consumed
               PROVE  \E w \in Winners' : calls'[w].request = s /\ calls'[w].epoch = epoch
    BY <1>1 DEF SpentHasWinner
  <2>1. CASE s = r /\ calls'[c].result = "OK"
    BY <2>1, <1>1, <1>2 DEF Winners
  <2>2. CASE ~(s = r /\ calls'[c].result = "OK")
    <3>1. store'[s] = store[s]
      BY <2>2, <1>1
    <3>2. PICK w \in Winners : calls[w].request = s /\ calls[w].epoch = epoch
      BY <3>1 DEF SafeInv, SpentHasWinner
    <3>3. QED BY <3>2, <1>3
  <2>3. QED BY <2>1, <2>2
<1>8. UndecidedIsCurrent'
  BY <1>1 DEF SafeInv, UndecidedIsCurrent
<1>9. AtMostOneWinner'
  <2> SUFFICES ASSUME NEW v \in Winners', NEW w \in Winners',
                      calls'[v].request = calls'[w].request
               PROVE  v = w
    BY DEF AtMostOneWinner
  <2>1. \A x \in Winners : ~Open(calls[x].request)
    BY DEF SafeInv, WinnersSpend
  <2>2. CASE v \in Winners /\ w \in Winners
    BY <2>2, <1>3 DEF SafeInv, AtMostOneWinner
  <2>3. QED BY <2>1, <2>2, <1>1, <1>3
<1>10. ReplayHasWinner'
  <2> SUFFICES ASSUME NEW d \in DOMAIN calls, calls'[d].result = "NONCE_ALREADY_CONSUMED"
               PROVE  \E w \in Winners' : /\ calls'[w].request = calls'[d].request
                                          /\ calls'[w].epoch = calls'[d].epoch
    BY <1>1 DEF ReplayHasWinner
  <2>1. \E w \in Winners : /\ calls[w].request = calls'[d].request
                           /\ calls[w].epoch = calls'[d].epoch
    <3>1. CASE d = c
      BY <3>1, <1>1, <1>2 DEF SafeInv, SpentHasWinner
    <3>2. CASE d # c
      BY <3>2, <1>1 DEF SafeInv, ReplayHasWinner
    <3>3. QED BY <3>1, <3>2
  <2>2. QED BY <2>1, <1>3
<1>11. QED BY <1>6, <1>7, <1>8, <1>9, <1>10 DEF SafeInv

THEOREM SafeInvariance == Spec => []SafeInv
<1>1. Init => SafeInv
  <2> SUFFICES ASSUME Init PROVE SafeInv
    OBVIOUS
  <2>1. DOMAIN calls = {} /\ DOMAIN store = {}
    BY DEF Init
  <2>2. QED
    BY <2>1, TypeInit DEF SafeInv, WinnersSpend, SpentHasWinner, UndecidedIsCurrent,
                          AtMostOneWinner, ReplayHasWinner, Winners
<1>2. SafeInv /\ TypeOK' /\ [Next]_vars => SafeInv'
  BY NextCases, SafeUndeciding, SafeConsume
<1>3. QED BY <1>1, <1>2, TypeCorrect, PTL DEF Spec

\* However many handlers race for a challenge, whatever the restarts and the
\* clock do, at most one submission is accepted for it.
THEOREM SingleWinner == Spec => []AtMostOneWinner
<1>1. SafeInv => AtMostOneWinner
  BY DEF SafeInv
<1>2. QED BY <1>1, SafeInvariance, PTL

\* A replay verdict always has a winner of the same process behind it.
THEOREM ReplayIsJust == Spec => []ReplayHasWinner
<1>1. SafeInv => ReplayHasWinner
  BY DEF SafeInv
<1>2. QED BY <1>1, SafeInvariance, PTL

-----------------------------------------------------------------------------

\* Every step maps to a step of the abstract challenge or to a stutter.
LEMMA StepOpen ==
  ASSUME TypeOK, Undeciding
  PROVE  \/ {r \in Requests : Open(r)}' = {r \in Requests : Open(r)} /\ UNCHANGED issued
         \/ {r \in Requests : Open(r)}' = {} /\ UNCHANGED issued
         \/ \E r \in Requests :
              /\ r \notin issued /\ issued' = issued \cup {r}
              /\ {s \in Requests : Open(s)}' = {s \in Requests : Open(s)} \cup {r}
<1>1. CASE UNCHANGED <<store, issued, epoch>>
  BY <1>1 DEF Open
<1>2. CASE Restart
  BY <1>2 DEF Restart, Open
<1>3. ASSUME NEW r \in Requests,
             r \notin issued, issued' = issued \cup {r},
             DOMAIN store' = DOMAIN store \cup {r}, ~store'[r].consumed,
             \A s \in DOMAIN store : s # r => store'[s] = store[s]
      PROVE  {s \in Requests : Open(s)}' = {s \in Requests : Open(s)} \cup {r}
  <2>1. \A s \in Requests : Open(s)' <=> Open(s) \/ s = r
    BY <1>3 DEF Open, TypeOK
  <2>2. QED BY <2>1
<1>4. QED BY <1>1, <1>2, <1>3, UndecidingStore

\* The engine implements the single-use challenge.
THEOREM ImplementsSingleUse == Spec => SingleUseSpec
<1> DEFINE open == {r \in Requests : Open(r)}
           accepted == {<<calls[c].request, c>> : c \in Winners}
<1>1. Init => Challenges!Init
  BY DEF Init, Challenges!Init, Winners, Open
<1>2. SafeInv /\ TypeOK' /\ [Next]_vars => [Challenges!Next]_(Challenges!vars)
  <2> SUFFICES ASSUME SafeInv, [Next]_vars
               PROVE  Challenges!Next \/ UNCHANGED <<issued, open, accepted>>
    BY DEF Challenges!vars
  <2>1. CASE Undeciding
    <3>1. accepted' = accepted
      BY <2>1, UndecidingIsQuiet, QuietWinners DEF SafeInv
    <3>2. QED
      BY <2>1, <3>1, StepOpen
      DEF SafeInv, Challenges!Next, Challenges!Issue, Challenges!Forget
  <2>2. ASSUME NEW c \in Calls, Consume(c)
        PROVE  Challenges!Next \/ UNCHANGED <<issued, open, accepted>>
    <3> DEFINE r == calls[c].request
    <3>1. /\ c \in DOMAIN calls /\ calls[c].stage = "consume"
          /\ DOMAIN calls' = DOMAIN calls
          /\ \A d \in DOMAIN calls : d # c => calls'[d] = calls[d]
          /\ calls'[c].request = r
          /\ UNCHANGED issued /\ DOMAIN store' = DOMAIN store
          /\ calls'[c].result = "OK" =>
               /\ Open(r) /\ store'[r].consumed
               /\ \A s \in DOMAIN store : s # r => store'[s] = store[s]
          /\ calls'[c].result # "OK" => UNCHANGED store
      BY <2>2, ConsumeDecides DEF SafeInv
    <3>2. c \notin Winners /\ r \in Requests
      BY <3>1 DEF SafeInv, UndecidedIsCurrent, Winners, TypeOK, Handlers
    <3>3. CASE calls'[c].result = "OK"
      <4>1. Winners' = Winners \cup {c}
        BY <3>1, <3>3 DEF Winners
      <4>2. accepted' = accepted \cup {<<r, c>>}
        <5>1. \A w \in Winners : calls'[w].request = calls[w].request
          BY <3>1, <3>2 DEF Winners
        <5>2. QED BY <4>1, <5>1, <3>1
      <4>3. open' = open \ {r}
        <5>1. \A s \in Requests : Open(s)' <=> Open(s) /\ s # r
          BY <3>1, <3>3 DEF Open
        <5>2. QED BY <5>1
      <4>4. r \in open
        BY <3>1, <3>2, <3>3
      <4>5. Challenges!Accept(r, c)
        BY <4>2, <4>3, <4>4, <3>1 DEF Challenges!Accept
      <4>6. QED BY <4>5, <3>2 DEF Challenges!Next
    <3>4. CASE calls'[c].result # "OK"
      <4>1. Winners' = Winners
        BY <3>1, <3>2, <3>4 DEF Winners
      <4>2. accepted' = accepted
        BY <4>1, <3>1, <3>2 DEF Winners
      <4>3. open' = open
        BY <3>1, <3>4 DEF Open
      <4>4. QED BY <4>2, <4>3, <3>1
    <3>5. QED BY <3>3, <3>4
  <2>3. QED BY <2>1, <2>2, NextCases
<1>3. QED
  BY <1>1, <1>2, SafeInvariance, TypeCorrect, PTL DEF Spec, SingleUseSpec, Challenges!Spec

\* A spent challenge stays spent: an identifier already issued never opens.
THEOREM SpentForGood == Spec => SpentStaysSpent
<1>1. TypeOK /\ [Next]_vars => [\A r \in issued : ~Open(r) => ~Open(r)']_vars
  <2> SUFFICES ASSUME TypeOK, [Next]_vars, NEW r \in issued, Open(r)'
               PROVE  Open(r)
    OBVIOUS
  <2>1. CASE Undeciding
    BY <2>1, UndecidingSpends
  <2>2. CASE \E c \in Calls : Consume(c)
    BY <2>2, ConsumeDecides DEF Open
  <2>3. QED BY <2>1, <2>2, NextCases
<1>2. QED BY <1>1, TypeCorrect, PTL DEF Spec, SpentStaysSpent

-----------------------------------------------------------------------------
(***************************************************************************)
(* What the engine's answers rest on: the checks run on a copy of the      *)
(* challenge, an ALLOW is earned, a decision is in the log.                *)
(***************************************************************************)

\* A handler past its checks: they held for its copy of the challenge, under
\* the issuer key of its own process.
Checked(h) ==
  /\ FailedCheck(h.vp, h.epoch, h.challenge, h.evalTime) = "NONE"
  /\ h.challenge \in Entries /\ h.challenge.nonce = NonceOf(h.request)

\* What holds of a handler's own record, whatever the others do.
Sound(h) ==
  /\ h.stage = "consume" \/ h.result # "NONE" => Checked(h)
  /\ h.result \in {"NONE", "OK", "EXPIRED_NONCE", "NONCE_ALREADY_CONSUMED"}
  /\ h.result = "EXPIRED_NONCE" <=> h.result # "NONE" /\ h.at > h.challenge.expiresAt
  /\ h.answer = "ALLOW" => h.result = "OK"
  /\ h.result = "OK" => h.answer = VerifiedReport(h).decision

CallsSound == \A c \in DOMAIN calls : Sound(calls[c])

\* Entries are stored under their own names.
StoreNamed == \A r \in DOMAIN store : store[r].requestId = r /\ store[r].nonce = NonceOf(r)

\* The copy a handler has checked is its challenge, but for being spent.
CopiesAgree ==
  \A c \in DOMAIN calls : calls[c].stage = "consume" =>
    /\ calls[c].request \in DOMAIN store
    /\ SameChallenge(calls[c].challenge, store[calls[c].request])

AnswerInv == CallsSound /\ StoreNamed /\ CopiesAgree /\ AnswersAudited

-----------------------------------------------------------------------------
(***************************************************************************)
(* Steps, seen from a single call.                                         *)
(***************************************************************************)

\* Nothing but the stage of a record changes.
Kept(h, g) ==
  /\ g.request = h.request /\ g.at = h.at /\ g.evalTime = h.evalTime /\ g.vp = h.vp
  /\ g.epoch = h.epoch /\ g.challenge = h.challenge
  /\ g.failed = h.failed /\ g.result = h.result /\ g.answer = h.answer

\* What was true of the record stays true, and its audit stays the same.
LEMMA KeptIsSound ==
  ASSUME NEW h, NEW g, Kept(h, g), Sound(h), g.stage # "consume"
  PROVE  Sound(g) /\ AuditOf(g) = AuditOf(h)
<1>1. VerifiedReport(g) = VerifiedReport(h)
  BY DEF Kept, VerifiedReport
<1>2. Checked(h) => Checked(g)
  BY DEF Kept, Checked
<1>3. Sound(g)
  BY <1>1, <1>2 DEF Kept, Sound
<1>4. AuditOf(g) = AuditOf(h)
  BY <1>1 DEF Kept, AuditOf
<1>5. QED BY <1>3, <1>4

\* A call that arrives has nothing to answer for.
LEMMA ArrivalIsSound ==
  ASSUME NEW c \in Calls, Receive(c) \/ ReceiveUnparsable(c)
  PROVE  /\ UNCHANGED <<epoch, store, audits>>
         /\ \E h : /\ calls' = Put(calls, c, h) /\ h.stage # "consume"
                   /\ h.answer \notin Decisions /\ Sound(h)
<1>1. UNCHANGED <<epoch, store, audits>>
  BY DEF Receive, Start, ReceiveUnparsable
<1>2. \E h : /\ calls' = Put(calls, c, h) /\ h.stage \in {"peek", "reply"}
             /\ h.result = "NONE" /\ h.answer \in {"NONE", "VALIDATION_ERROR"}
  <2>1. CASE Receive(c)
    <3>1. PICK r \in Requests, vp \in Submissions, t \in EvalTimes \cup {clock} :
            calls' = Put(calls, c,
              [stage |-> "peek", request |-> r, at |-> clock, evalTime |-> t,
               vp |-> vp, epoch |-> epoch, challenge |-> NoChallenge,
               failed |-> "NONE", result |-> "NONE", answer |-> "NONE"])
      BY <2>1 DEF Receive, Start
    <3>2. QED BY <3>1
  <2>2. CASE ReceiveUnparsable(c)
    <3>1. PICK r \in Requests :
            calls' = Put(calls, c,
              [stage |-> "reply", request |-> r, at |-> clock, evalTime |-> clock,
               vp |-> CHOOSE vp \in Submissions : TRUE, epoch |-> epoch,
               challenge |-> NoChallenge,
               failed |-> "NONE", result |-> "NONE", answer |-> "VALIDATION_ERROR"])
      BY <2>2 DEF ReceiveUnparsable
    <3> DEFINE h == [stage |-> "reply", request |-> r, at |-> clock, evalTime |-> clock,
                     vp |-> CHOOSE vp \in Submissions : TRUE, epoch |-> epoch,
                     challenge |-> NoChallenge,
                     failed |-> "NONE", result |-> "NONE", answer |-> "VALIDATION_ERROR"]
    <3>2. h.stage = "reply" /\ h.result = "NONE" /\ h.answer = "VALIDATION_ERROR"
      OBVIOUS
    <3> HIDE DEF h
    <3>3. QED BY <3>1, <3>2 DEF h
  <2>3. QED BY <2>1, <2>2
<1>3. PICK h : /\ calls' = Put(calls, c, h) /\ h.stage \in {"peek", "reply"}
               /\ h.result = "NONE" /\ h.answer \in {"NONE", "VALIDATION_ERROR"}
  BY <1>2
<1>4. h.stage # "consume" /\ h.answer \notin Decisions
  BY <1>3 DEF Decisions
<1>5. Sound(h)
  BY <1>3 DEF Sound
<1>6. QED BY <1>1, <1>3, <1>4, <1>5

-----------------------------------------------------------------------------
(***************************************************************************)
(* The inductive step, one lemma for each way a step can go.               *)
(***************************************************************************)

\* Every entry stays as it is, but for its consumed flag.
Lasting ==
  \A r \in DOMAIN store : r \in DOMAIN store' /\ SameChallenge(store[r], store'[r])

\* A step of one call keeps the invariant if that call's new record is in order.
LEMMA OneCall ==
  ASSUME AnswerInv, NEW c,
         DOMAIN calls' = DOMAIN calls \cup {c},
         \A d \in DOMAIN calls : d # c => calls'[d] = calls[d],
         Lasting, StoreNamed', epoch' = epoch,
         \A d \in DOMAIN audits : d \in DOMAIN audits' /\ (d # c => audits'[d] = audits[d]),
         Sound(calls'[c]),
         calls'[c].stage = "consume" =>
           /\ calls'[c].request \in DOMAIN store'
           /\ SameChallenge(calls'[c].challenge, store'[calls'[c].request]),
         (calls'[c].answer \in Decisions /\ calls'[c].epoch = epoch
            /\ calls'[c].stage \in {"reply", "done"}) =>
             c \in DOMAIN audits' /\ audits'[c] = AuditOf(calls'[c])
  PROVE  AnswerInv'
<1>1. CallsSound'
  BY DEF AnswerInv, CallsSound
<1>2. CopiesAgree'
  <2> SUFFICES ASSUME NEW d \in DOMAIN calls', calls'[d].stage = "consume"
               PROVE  /\ calls'[d].request \in DOMAIN store'
                      /\ SameChallenge(calls'[d].challenge, store'[calls'[d].request])
    BY DEF CopiesAgree
  <2>1. CASE d = c
    BY <2>1
  <2>2. CASE d # c
    <3>1. /\ d \in DOMAIN calls /\ calls'[d] = calls[d]
          /\ calls[d].request \in DOMAIN store
          /\ SameChallenge(calls[d].challenge, store[calls[d].request])
      BY <2>2 DEF AnswerInv, CopiesAgree
    <3>2. QED BY <3>1 DEF Lasting, SameChallenge
  <2>3. QED BY <2>1, <2>2
<1>3. AnswersAudited'
  <2> SUFFICES ASSUME NEW d \in DOMAIN calls', calls'[d].answer \in Decisions,
                      calls'[d].epoch = epoch, calls'[d].stage \in {"reply", "done"}
               PROVE  d \in DOMAIN audits' /\ audits'[d] = AuditOf(calls'[d])
    BY DEF AnswersAudited
  <2>1. CASE d = c
    BY <2>1
  <2>2. CASE d # c
    BY <2>2 DEF AnswerInv, AnswersAudited
  <2>3. QED BY <2>1, <2>2
<1>4. QED BY <1>1, <1>2, <1>3 DEF AnswerInv

\* Challenges come and the clock goes on: no call takes notice.
LEMMA AnswerPlan ==
  ASSUME AnswerInv, TypeOK, NEW r \in Requests, Plan(r)
  PROVE  AnswerInv'
<1>1. PICK e : /\ store' = Put(store, r, e)
               /\ e.requestId = r /\ e.nonce = NonceOf(r)
  BY DEF Plan
<1>2. UNCHANGED <<epoch, calls, audits>> /\ r \notin DOMAIN store
  BY DEF Plan, TypeOK
<1>3. /\ DOMAIN store' = DOMAIN store \cup {r} /\ store'[r] = e
      /\ \A s \in DOMAIN store : store'[s] = store[s]
  BY <1>1, <1>2 DEF Put
<1>4. StoreNamed'
  BY <1>1, <1>3 DEF AnswerInv, StoreNamed
<1>5. CallsSound' /\ AnswersAudited'
  BY <1>2 DEF AnswerInv, CallsSound, AnswersAudited
<1>6. CopiesAgree'
  BY <1>2, <1>3 DEF AnswerInv, CopiesAgree
<1>7. QED BY <1>4, <1>5, <1>6 DEF AnswerInv

LEMMA AnswerReceive ==
  ASSUME AnswerInv, TypeOK, NEW c \in Calls, Receive(c) \/ ReceiveUnparsable(c)
  PROVE  AnswerInv'
<1>1. UNCHANGED <<epoch, store, audits>>
  BY ArrivalIsSound
<1>2. PICK h : /\ calls' = Put(calls, c, h) /\ h.stage # "consume"
               /\ h.answer \notin Decisions /\ Sound(h)
  BY ArrivalIsSound
<1>3. /\ DOMAIN calls' = DOMAIN calls \cup {c} /\ calls'[c] = h
      /\ \A d \in DOMAIN calls : d # c => calls'[d] = calls[d]
  BY <1>2 DEF Put
<1>4. Lasting /\ StoreNamed'
  BY <1>1 DEF Lasting, SameChallenge, AnswerInv, StoreNamed
<1>5. QED BY <1>1, <1>2, <1>3, <1>4, OneCall

\* The checks run on the entry as it is in the store.
LEMMA AnswerPeek ==
  ASSUME AnswerInv, TypeOK, UndecidedIsCurrent, NEW c \in Calls, Peek(c)
  PROVE  AnswerInv'
<1> DEFINE h == calls[c]
           failed == FailedCheck(h.vp, epoch, store[h.request], h.evalTime)
<1>1. c \in DOMAIN calls /\ h \in Handlers /\ h.stage = "peek"
  BY DEF Peek, TypeOK
<1>2. h.epoch = epoch /\ h.result = "NONE"
  BY <1>1 DEF UndecidedIsCurrent
<1>3. UNCHANGED <<epoch, store, audits>>
  BY DEF Peek
<1>4. Lasting /\ StoreNamed'
  BY <1>3 DEF Lasting, SameChallenge, AnswerInv, StoreNamed
<1>5. /\ DOMAIN calls' = DOMAIN calls \cup {c}
      /\ \A d \in DOMAIN calls : d # c => calls'[d] = calls[d]
  BY <1>1 DEF Peek
<1>6. CASE h.request \notin DOMAIN store
  <2>1. calls'[c].stage = "reply" /\ calls'[c].answer = "UNKNOWN_REQUEST"
        /\ calls'[c].result = "NONE"
    BY <1>1, <1>2, <1>6, ZenonT(40) DEF Peek, Handlers
  <2>2. Sound(calls'[c]) /\ calls'[c].answer \notin Decisions
    BY <2>1 DEF Sound, Decisions
  <2>3. QED BY <1>3, <1>4, <1>5, <2>1, <2>2, OneCall
<1>7. CASE h.request \in DOMAIN store
  <2>1. calls' = [calls EXCEPT
           ![c].challenge = store[h.request], ![c].failed = failed,
           ![c].stage  = IF failed = "NONE" THEN "consume" ELSE "record",
           ![c].answer = IF failed = "NONE" THEN "NONE" ELSE "DENY"]
    BY <1>7 DEF Peek
  <2> HIDE DEF failed
  <2>2. /\ calls'[c].request = h.request /\ calls'[c].vp = h.vp
        /\ calls'[c].evalTime = h.evalTime /\ calls'[c].epoch = epoch
        /\ calls'[c].challenge = store[h.request] /\ calls'[c].result = "NONE"
        /\ calls'[c].stage = IF failed = "NONE" THEN "consume" ELSE "record"
        /\ calls'[c].answer = IF failed = "NONE" THEN "NONE" ELSE "DENY"
    BY <1>1, <1>2, <2>1 DEF Handlers
  <2>3. store[h.request] \in Entries /\ store[h.request].nonce = NonceOf(h.request)
    BY <1>7 DEF TypeOK, AnswerInv, StoreNamed
  <2>4. calls'[c].stage = "consume" => Checked(calls'[c])
    BY <2>2, <2>3 DEF Checked, failed
  <2>5. Sound(calls'[c])
    BY <2>2, <2>4 DEF Sound
  <2>6. SameChallenge(calls'[c].challenge, store'[calls'[c].request])
        /\ calls'[c].request \in DOMAIN store'
    BY <1>3, <1>7, <2>2 DEF SameChallenge
  <2>7. calls'[c].stage \notin {"reply", "done"}
    BY <2>2
  <2>8. QED BY <1>3, <1>4, <1>5, <2>5, <2>6, <2>7, OneCall
<1>8. QED BY <1>6, <1>7

\* What the store can say of a copy that has passed the checks.
LEMMA ResultOfCopy ==
  ASSUME NEW h, Checked(h), StoreNamed, h.request \in DOMAIN store,
         SameChallenge(h.challenge, store[h.request]),
         NEW result, result = NonceResult(h.request, h.vp.nonce, h.vp.audience, h.at)
  PROVE  /\ result \in {"OK", "EXPIRED_NONCE", "NONCE_ALREADY_CONSUMED"}
         /\ result = "EXPIRED_NONCE" <=> h.at > h.challenge.expiresAt
<1>1. h.vp.nonce = h.challenge.nonce /\ h.vp.audience = h.challenge.audience
  BY DEF Checked, FailedCheck
<1>2. /\ store[h.request].nonce = h.vp.nonce /\ store[h.request].audience = h.vp.audience
      /\ store[h.request].requestId = h.request
      /\ store[h.request].expiresAt = h.challenge.expiresAt
  BY <1>1 DEF SameChallenge, StoreNamed
<1>3. QED BY <1>2 DEF NonceResult

LEMMA AnswerConsume ==
  ASSUME AnswerInv, TypeOK, NEW c \in Calls, Consume(c)
  PROVE  AnswerInv'
<1> DEFINE h == calls[c]
           result == NonceResult(h.request, h.vp.nonce, h.vp.audience, h.at)
<1>1. c \in DOMAIN calls /\ h \in Handlers /\ h.stage = "consume"
  BY DEF Consume, TypeOK
<1>2. /\ Sound(h) /\ Checked(h) /\ h.request \in DOMAIN store
      /\ SameChallenge(h.challenge, store[h.request])
  BY <1>1 DEF AnswerInv, CallsSound, CopiesAgree, Sound
<1>3. /\ result \in {"OK", "EXPIRED_NONCE", "NONCE_ALREADY_CONSUMED"}
      /\ result = "EXPIRED_NONCE" <=> h.at > h.challenge.expiresAt
  BY <1>2, ResultOfCopy DEF AnswerInv
<1>4. /\ calls' = [calls EXCEPT
           ![c].result = result, ![c].answer = AnswerTo(h, result),
           ![c].stage  = IF result \in {"OK", "NONCE_ALREADY_CONSUMED"}
                         THEN "record" ELSE "reply"]
      /\ store' = IF result = "OK" THEN [store EXCEPT ![h.request].consumed = TRUE] ELSE store
      /\ UNCHANGED <<epoch, audits>>
  BY DEF Consume
<1> HIDE DEF result
<1>5. /\ DOMAIN calls' = DOMAIN calls \cup {c}
      /\ \A d \in DOMAIN calls : d # c => calls'[d] = calls[d]
  BY <1>1, <1>4
<1>6. \A r \in DOMAIN store : store[r] \in Entries
  BY DEF TypeOK
<1>7. Lasting /\ StoreNamed'
  BY <1>4, <1>6 DEF Lasting, SameChallenge, AnswerInv, StoreNamed, Entries
<1>8. /\ calls'[c].request = h.request /\ calls'[c].at = h.at /\ calls'[c].vp = h.vp
      /\ calls'[c].evalTime = h.evalTime /\ calls'[c].epoch = h.epoch
      /\ calls'[c].challenge = h.challenge /\ calls'[c].result = result
      /\ calls'[c].answer = AnswerTo(h, result)
      /\ calls'[c].stage = IF result \in {"OK", "NONCE_ALREADY_CONSUMED"}
                           THEN "record" ELSE "reply"
  BY <1>1, <1>4 DEF Handlers
<1>9. VerifiedReport(calls'[c]) = VerifiedReport(h)
  BY <1>8 DEF VerifiedReport
<1>10. Checked(calls'[c])
  BY <1>2, <1>8 DEF Checked
<1>11. CASE result = "OK"
  <2>1. AnswerTo(h, result) = VerifiedReport(h).decision
    BY <1>11 DEF AnswerTo
  <2>2. calls'[c].answer = VerifiedReport(calls'[c]).decision /\ calls'[c].stage = "record"
    BY <2>1, <1>8, <1>9, <1>11
  <2>3. Sound(calls'[c])
    BY <2>2, <1>3, <1>8, <1>10, <1>11 DEF Sound
  <2>4. QED BY <2>2, <2>3, <1>4, <1>5, <1>7, OneCall
<1>12. CASE result # "OK"
  <2>1. AnswerTo(h, result) \in {"EXPIRED_NONCE", "REPLAY_DETECTED"}
    BY <1>3, <1>12 DEF AnswerTo
  <2>2. result = "EXPIRED_NONCE" => AnswerTo(h, result) = "EXPIRED_NONCE"
    BY DEF AnswerTo
  <2>3. Sound(calls'[c])
    BY <2>1, <1>3, <1>8, <1>10, <1>12 DEF Sound
  <2>4. calls'[c].stage = "record" \/ calls'[c].answer \notin Decisions
    BY <2>2, <1>3, <1>8, <1>12 DEF Decisions
  <2>5. calls'[c].stage \in {"record", "reply"}
    BY <1>8
  <2>6. QED BY <2>3, <2>4, <2>5, <1>4, <1>5, <1>7, OneCall
<1>13. QED BY <1>11, <1>12

\* The audit that is recorded is the one the answer will be held to.
LEMMA AnswerRecord ==
  ASSUME AnswerInv, TypeOK, NEW c \in Calls, Record(c)
  PROVE  AnswerInv'
<1>1. c \in DOMAIN calls /\ calls[c] \in Handlers /\ Sound(calls[c])
  BY DEF Record, TypeOK, AnswerInv, CallsSound
<1>2. UNCHANGED <<epoch, store>>
  BY DEF Record
<1>3. Lasting /\ StoreNamed'
  BY <1>2 DEF Lasting, SameChallenge, AnswerInv, StoreNamed
<1>4. /\ DOMAIN calls' = DOMAIN calls \cup {c}
      /\ \A d \in DOMAIN calls : d # c => calls'[d] = calls[d]
      /\ Kept(calls[c], calls'[c]) /\ calls'[c].stage = "reply"
  BY <1>1 DEF Record, Kept, Handlers
<1>5. Sound(calls'[c]) /\ AuditOf(calls'[c]) = AuditOf(calls[c])
  BY <1>1, <1>4, KeptIsSound
<1>6. /\ \A d \in DOMAIN audits : d \in DOMAIN audits' /\ (d # c => audits'[d] = audits[d])
      /\ c \in DOMAIN audits' /\ audits'[c] = AuditOf(calls[c])
  BY DEF Record, Put
<1>7. QED BY <1>2, <1>3, <1>4, <1>5, <1>6, OneCall

LEMMA AnswerReply ==
  ASSUME AnswerInv, TypeOK, NEW c \in Calls, Reply(c)
  PROVE  AnswerInv'
<1>1. /\ c \in DOMAIN calls /\ calls[c] \in Handlers /\ Sound(calls[c])
      /\ calls[c].stage = "reply"
  BY DEF Reply, TypeOK, AnswerInv, CallsSound
<1>2. UNCHANGED <<epoch, store, audits>>
  BY DEF Reply
<1>3. Lasting /\ StoreNamed'
  BY <1>2 DEF Lasting, SameChallenge, AnswerInv, StoreNamed
<1>4. /\ DOMAIN calls' = DOMAIN calls \cup {c}
      /\ \A d \in DOMAIN calls : d # c => calls'[d] = calls[d]
      /\ Kept(calls[c], calls'[c]) /\ calls'[c].stage = "done"
  BY <1>1 DEF Reply, Kept, Handlers
<1>5. Sound(calls'[c]) /\ AuditOf(calls'[c]) = AuditOf(calls[c])
  BY <1>1, <1>4, KeptIsSound
<1>6. (calls'[c].answer \in Decisions /\ calls'[c].epoch = epoch) =>
        c \in DOMAIN audits' /\ audits'[c] = AuditOf(calls'[c])
  BY <1>1, <1>2, <1>4, <1>5 DEF Kept, AnswerInv, AnswersAudited
<1>7. QED BY <1>2, <1>3, <1>4, <1>5, <1>6, OneCall

\* After a restart no call of before can be held to the log.
LEMMA AnswerRestart ==
  ASSUME AnswerInv, TypeOK, Restart
  PROVE  AnswerInv'
<1>1. DOMAIN store' = {} /\ DOMAIN calls' = DOMAIN calls
  BY DEF Restart
<1>2. ASSUME NEW c \in DOMAIN calls
      PROVE  /\ Sound(calls'[c]) /\ calls'[c].stage # "consume"
             /\ calls'[c].epoch # epoch'
  <2>1. /\ calls[c] \in Handlers /\ calls[c].epoch <= epoch /\ epoch \in Nat
        /\ epoch' = epoch + 1 /\ Sound(calls[c])
    BY DEF TypeOK, AnswerInv, CallsSound, Restart
  <2>2. Kept(calls[c], calls'[c]) /\ calls'[c].stage \in Ended
    BY <2>1 DEF Restart, Kept, Handlers, Ended
  <2>3. calls'[c].stage # "consume"
    BY <2>2 DEF Ended
  <2>4. calls'[c].epoch = calls[c].epoch /\ calls[c].epoch \in Nat
    BY <2>1, <2>2 DEF Kept, Handlers
  <2>5. QED BY <2>1, <2>2, <2>3, <2>4, KeptIsSound
<1>3. QED
  BY <1>1, <1>2 DEF AnswerInv, CallsSound, StoreNamed, CopiesAgree, AnswersAudited

THEOREM AnswerInvariance == Spec => []AnswerInv
<1>1. Init => AnswerInv
  BY DEF Init, AnswerInv, CallsSound, StoreNamed, CopiesAgree, AnswersAudited
<1>2. SafeInv /\ AnswerInv /\ [Next]_vars => AnswerInv'
  <2> SUFFICES ASSUME SafeInv, AnswerInv, [Next]_vars PROVE AnswerInv'
    OBVIOUS
  <2>1. TypeOK /\ UndecidedIsCurrent
    BY DEF SafeInv
  <2>2. CASE \E r \in Requests : Plan(r)
    BY <2>1, <2>2, AnswerPlan
  <2>3. CASE \E c \in Calls : Receive(c) \/ ReceiveUnparsable(c)
    BY <2>1, <2>3, AnswerReceive
  <2>4. CASE \E c \in Calls : Handle(c)
    BY <2>1, <2>4, AnswerPeek, AnswerConsume, AnswerRecord, AnswerReply DEF Handle
  <2>5. CASE Restart
    BY <2>1, <2>5, AnswerRestart
  <2>6. CASE Tick \/ UNCHANGED vars
    BY <2>6 DEF Tick, vars, AnswerInv, CallsSound, StoreNamed, CopiesAgree, AnswersAudited
  <2>7. QED BY <2>2, <2>3, <2>4, <2>5, <2>6 DEF Next
<1>3. QED BY <1>1, <1>2, SafeInvariance, PTL DEF Spec

\* What the checks established of the copy still holds when the nonce is
\* consumed: the store refuses a submission for its time or its reuse, only.
THEOREM CopyLasts == Spec => []CopyStaysValid
<1>1. AnswerInv => CopyStaysValid
  BY DEF AnswerInv, CallsSound, Sound, CopiesAgree, CopyStaysValid
<1>2. QED BY <1>1, AnswerInvariance, PTL

\* No client is told a decision that the log does not hold word for word.
THEOREM DecisionsLogged == Spec => []AnswersAudited
<1>1. AnswerInv => AnswersAudited
  BY DEF AnswerInv
<1>2. QED BY <1>1, AnswerInvariance, PTL

\* When evaluation allows, each required predicate has an available option.
LEMMA AllowHasOptions ==
  ASSUME NEW c, NEW kind, NEW ev, NEW given,
         Report(c, kind, ev, given).decision = "ALLOW",
         NEW p \in RequiredPredicates(c, kind)
  PROVE  p \in DOMAIN Predicates /\ \E t \in Options(p) : ev[t] = "AVAILABLE"
<1> DEFINE states == {PredicateState(q, ev) : q \in RequiredPredicates(c, kind)}
<1>1. Decide(states) = "ALLOW"
  BY ReportDecision
<1>2. PredicateState(p, ev) \in states
  OBVIOUS
<1> HIDE DEF states
<1>3. "FALSE" \notin states /\ "UNKNOWN" \notin states
  BY <1>1 DEF Decide
<1>4. PredicateState(p, ev) = "TRUE"
  BY <1>2, <1>3, PredicateStateType
<1>5. p \in DOMAIN Predicates /\ AvailableOptions(p, ev) # {}
  BY <1>4 DEF PredicateState
<1>6. QED BY <1>5 DEF AvailableOptions

\* A presentation passes the checks only if each of them does.
LEMMA ChecksPass ==
  ASSUME NEW vp, NEW key, NEW ch, NEW time,
         FailedCheck(vp, key, ch, time) = "NONE"
  PROVE  /\ vp.issuerKey = key /\ vp.iss /\ vp.genuine /\ ~(time > vp.exp)
         /\ vp.kbKey = vp.holderKey /\ vp.audience = ch.audience /\ vp.sdHash
         /\ vp.nonce = ch.nonce
BY DEF FailedCheck

\* An ALLOW needs a bound, signed, unexpired presentation that won its challenge
\* in time, and a disclosed claim behind every required predicate.
THEOREM AllowEarned == Spec => []AllowIsEarned
<1>1. TypeOK /\ AnswerInv => AllowIsEarned
  <2> SUFFICES ASSUME TypeOK, AnswerInv, NEW c \in DOMAIN calls, calls[c].answer = "ALLOW"
               PROVE  LET h == calls[c]  vp == h.vp  ch == h.challenge
                      IN /\ h.result = "OK" /\ h.at <= ch.expiresAt
                         /\ vp.nonce = NonceOf(h.request) /\ vp.audience = ch.audience
                         /\ vp.kbKey = vp.holderKey /\ vp.sdHash /\ vp.genuine
                         /\ vp.issuerKey = h.epoch /\ vp.iss /\ h.evalTime <= vp.exp
                         /\ \A p \in RequiredPredicates(ch.canonical, ch.kind) :
                              \E t \in Options(p) \cap ch.required :
                                /\ RequiredClaimFor(t) \in DOMAIN vp.claims
                                /\ DeriveState(t, vp.claims[RequiredClaimFor(t)], h.evalTime)
                                     = "AVAILABLE"
    BY DEF AllowIsEarned
  <2> DEFINE h == calls[c]
             vp == h.vp
             ch == h.challenge
             ev == DeriveEvidence(EvidenceTypes, ch.required, vp.claims, h.evalTime)
             given == {[type |-> t, state |-> ev[t]] : t \in ch.required}
  <2>1. h \in Handlers /\ h.result = "OK" /\ VerifiedReport(h).decision = "ALLOW"
    BY DEF TypeOK, AnswerInv, CallsSound, Sound
  <2>2. Checked(h) /\ ~(h.at > ch.expiresAt)
    BY <2>1 DEF AnswerInv, CallsSound, Sound
  <2>3. /\ vp.issuerKey = h.epoch /\ vp.iss /\ vp.genuine /\ ~(h.evalTime > vp.exp)
        /\ vp.kbKey = vp.holderKey /\ vp.audience = ch.audience /\ vp.sdHash
        /\ vp.nonce = NonceOf(h.request)
    BY <2>2, ChecksPass DEF Checked
  <2>4. h.at <= ch.expiresAt
    BY <2>1, <2>2 DEF Checked, Entries, Handlers
  <2>5. h.evalTime <= vp.exp
    <3>1. h.evalTime \in Nat /\ vp.exp \in Nat
      BY <2>1, PresentationAssumption DEF Handlers, Submissions
    <3>2. QED BY <2>3, <3>1
  <2>6. ASSUME NEW p \in RequiredPredicates(ch.canonical, ch.kind)
        PROVE  \E t \in Options(p) \cap ch.required :
                 /\ RequiredClaimFor(t) \in DOMAIN vp.claims
                 /\ DeriveState(t, vp.claims[RequiredClaimFor(t)], h.evalTime) = "AVAILABLE"
    <3>1. Report(ch.canonical, ch.kind, ev, given).decision = "ALLOW"
      BY <2>1 DEF VerifiedReport
    <3> HIDE DEF given
    <3>2. p \in DOMAIN Predicates /\ \E t \in Options(p) : ev[t] = "AVAILABLE"
      <4> HIDE DEF ev
      <4>1. QED BY <2>6, <3>1, AllowHasOptions
    <3>3. PICK t \in Options(p) : ev[t] = "AVAILABLE"
      BY <3>2
    <3>4. t \in EvidenceTypes
      BY <3>2, OptionsType
    <3>5. /\ t \in ch.required /\ RequiredClaimFor(t) \in DOMAIN vp.claims
          /\ DeriveState(t, vp.claims[RequiredClaimFor(t)], h.evalTime) = "AVAILABLE"
      BY <3>3, <3>4 DEF DeriveEvidence
    <3>6. QED BY <3>5
  <2>7. QED BY <2>1, <2>3, <2>4, <2>5, <2>6
<1>2. QED BY <1>1, AnswerInvariance, TypeCorrect, PTL

-----------------------------------------------------------------------------

\* The checks read no more of a challenge than an entry shares with its copy.
LEMMA SameChecks ==
  ASSUME NEW e, NEW f, SameChallenge(e, f)
  PROVE  \A vp, key, time : FailedCheck(vp, key, e, time) = FailedCheck(vp, key, f, time)
BY DEF SameChallenge, FailedCheck

\* Only a presentation that passes every check against the stored entry spends
\* the challenge, and it spends no other.
THEOREM SpentByVerified == Spec => SpentOnlyByVerified
<1> DEFINE Spending ==
      \A r \in DOMAIN store : (Open(r) /\ ~Open(r)' /\ epoch' = epoch) =>
        \E c \in DOMAIN calls :
          /\ calls[c].request = r /\ calls[c].result = "NONE" /\ calls'[c].result = "OK"
          /\ FailedCheck(calls[c].vp, epoch, store[r], calls[c].evalTime) = "NONE"
          /\ \A s \in Requests \ {r} : Open(s) => Open(s)'
<1>1. SafeInv /\ AnswerInv /\ [Next]_vars => Spending
  <2> SUFFICES ASSUME SafeInv, AnswerInv, [Next]_vars,
                      NEW r \in DOMAIN store, Open(r), ~Open(r)', epoch' = epoch
               PROVE  \E c \in DOMAIN calls :
                        /\ calls[c].request = r /\ calls[c].result = "NONE"
                        /\ calls'[c].result = "OK"
                        /\ FailedCheck(calls[c].vp, epoch, store[r], calls[c].evalTime) = "NONE"
                        /\ \A s \in Requests \ {r} : Open(s) => Open(s)'
    OBVIOUS
  <2>1. TypeOK /\ UndecidedIsCurrent
    BY DEF SafeInv
  <2>2. ~Restart
    BY <2>1 DEF Restart, TypeOK
  <2>3. ~Undeciding
    <3> SUFFICES ASSUME Undeciding PROVE FALSE
      OBVIOUS
    <3>1. CASE UNCHANGED <<store, issued, epoch>>
      BY <3>1 DEF Open
    <3>2. ASSUME NEW x \in Requests, x \notin issued, DOMAIN store' = DOMAIN store \cup {x},
                 \A s \in DOMAIN store : s # x => store'[s] = store[s]
          PROVE  FALSE
      BY <2>1, <3>2 DEF Open, TypeOK
    <3>3. QED BY <2>1, <2>2, <3>1, <3>2, UndecidingStore
  <2>4. PICK c \in Calls : Consume(c)
    BY <2>3, NextCases
  <2>5. /\ c \in DOMAIN calls /\ calls[c].stage = "consume"
        /\ DOMAIN store' = DOMAIN store
        /\ calls'[c].result = "OK" =>
             \A s \in DOMAIN store : s # calls[c].request => store'[s] = store[s]
        /\ calls'[c].result # "OK" => UNCHANGED store
    BY <2>1, <2>4, ConsumeDecides
  <2>6. calls'[c].result = "OK" /\ calls[c].request = r
    BY <2>5 DEF Open
  <2>7. calls[c].result = "NONE" /\ calls[c].epoch = epoch
    BY <2>1, <2>5 DEF UndecidedIsCurrent
  <2>8. SameChallenge(calls[c].challenge, store[r]) /\ Checked(calls[c])
    BY <2>5, <2>6 DEF AnswerInv, CopiesAgree, CallsSound, Sound
  <2>9. FailedCheck(calls[c].vp, epoch, store[r], calls[c].evalTime) = "NONE"
    BY <2>7, <2>8, SameChecks DEF Checked
  <2>10. \A s \in Requests \ {r} : Open(s) => Open(s)'
    BY <2>5, <2>6 DEF Open
  <2>11. QED BY <2>5, <2>6, <2>7, <2>9, <2>10
<1>2. SafeInv /\ AnswerInv /\ [Next]_vars => [Spending]_vars
  BY <1>1
<1>3. QED BY <1>2, SafeInvariance, AnswerInvariance, PTL DEF Spec, SpentOnlyByVerified

-----------------------------------------------------------------------------

\* A requested type whose claim is told has a state that decides; one that no
\* claim was asked for is missing.
LEMMA StateOfTold ==
  ASSUME NEW required, NEW claims, NEW time, NEW t \in EvidenceTypes
  PROVE  LET ev == DeriveEvidence(EvidenceTypes, required, claims, time)
             asked == {u \in required : RequiredClaimFor(u) # "none"}
         IN /\ t \in asked /\ Told(t, claims) => ev[t] \in {"AVAILABLE", "INVALID"}
            /\ t \notin asked => ev[t] = "MISSING"
<1> DEFINE ev == DeriveEvidence(EvidenceTypes, required, claims, time)
<1>1. ev[t] = IF t \in required /\ RequiredClaimFor(t) \in DOMAIN claims \ {"none"}
              THEN DeriveState(t, claims[RequiredClaimFor(t)], time) ELSE "MISSING"
  BY DEF DeriveEvidence
<1>2. ASSUME Told(t, claims)
      PROVE  DeriveState(t, claims[RequiredClaimFor(t)], time) \in {"AVAILABLE", "INVALID"}
  BY <1>2 DEF Told, DeriveState
<1>3. Told(t, claims) => RequiredClaimFor(t) \in DOMAIN claims
  BY DEF Told
<1> HIDE DEF ev
<1>4. QED BY <1>1, <1>2, <1>3 DEF ev

\* A predicate with an option whose state decides is decided; one whose options
\* are all missing, or that has no definition, is not.
LEMMA DecidedByOption ==
  ASSUME NEW p, NEW ev
  PROVE  /\ (p \in DOMAIN Predicates /\ \E t \in Options(p) : ev[t] \in {"AVAILABLE", "INVALID"})
              => PredicateState(p, ev) # "UNKNOWN"
         /\ (p \in DOMAIN Predicates => \A t \in Options(p) : ev[t] = "MISSING")
              => PredicateState(p, ev) = "UNKNOWN"
BY DEF PredicateState, AvailableOptions, RefutingOptions

\* The audit says UNKNOWN of exactly the predicates evaluation left open.
LEMMA AuditNamesOpen ==
  ASSUME NEW c, NEW kind, NEW ev, NEW given
  PROVE  LET labels == BuildAudit(c, kind, Report(c, kind, ev, given)).predicates
         IN /\ DOMAIN labels = RequiredPredicates(c, kind)
            /\ \A p \in RequiredPredicates(c, kind) :
                 labels[p] = "UNKNOWN" <=> PredicateState(p, ev) = "UNKNOWN"
<1> DEFINE preds == RequiredPredicates(c, kind)
           report == Report(c, kind, ev, given)
<1>1. /\ report.satisfied = {p \in preds : PredicateState(p, ev) = "TRUE"}
      /\ report.missing = {p \in preds : PredicateState(p, ev) = "UNKNOWN"}
  BY DEF Report
<1> HIDE DEF report
<1>2. BuildAudit(c, kind, report).predicates =
        [p \in preds |-> IF p \in report.satisfied THEN "TRUE"
                         ELSE IF p \in report.missing THEN "UNKNOWN" ELSE "FALSE"]
  BY DEF BuildAudit
<1>3. QED BY <1>1, <1>2 DEF report

\* Whoever discloses all it was asked for is left open only where the challenge
\* asked for nothing that could decide, and the audit names that predicate.
THEOREM PlanSuffices == Spec => []PlanIsEnough
<1>1. AnswerInv => PlanIsEnough
  <2> SUFFICES ASSUME AnswerInv, NEW c \in DOMAIN calls, calls[c].result = "OK"
               PROVE  LET h     == calls[c]
                          ch    == h.challenge
                          asked == {t \in ch.required : RequiredClaimFor(t) # "none"}
                          open  == {p \in RequiredPredicates(ch.canonical, ch.kind) :
                                      p \in DOMAIN Predicates => Options(p) \cap asked = {}}
                      IN (\A t \in asked : Told(t, h.vp.claims)) =>
                           /\ \A p \in DOMAIN AuditOf(h).predicates :
                                AuditOf(h).predicates[p] = "UNKNOWN" <=> p \in open
                           /\ open = {} => h.answer # "UNKNOWN"
                           /\ open # {} => h.answer # "ALLOW"
    BY DEF PlanIsEnough
  <2> DEFINE h == calls[c]
             ch == h.challenge
             preds == RequiredPredicates(ch.canonical, ch.kind)
             ev == DeriveEvidence(EvidenceTypes, ch.required, h.vp.claims, h.evalTime)
             given == {[type |-> t, state |-> ev[t]] : t \in ch.required}
             states == {PredicateState(p, ev) : p \in preds}
             asked == {t \in ch.required : RequiredClaimFor(t) # "none"}
             open == {p \in preds : p \in DOMAIN Predicates => Options(p) \cap asked = {}}
             labels == AuditOf(h).predicates
  <2> SUFFICES ASSUME \A t \in asked : Told(t, h.vp.claims)
               PROVE  /\ \A p \in DOMAIN labels : labels[p] = "UNKNOWN" <=> p \in open
                      /\ open = {} => h.answer # "UNKNOWN"
                      /\ open # {} => h.answer # "ALLOW"
    OBVIOUS
  <2>1. \A p \in preds : PredicateState(p, ev) = "UNKNOWN" <=> p \in open
    <3> TAKE p \in preds
    <3>1. ASSUME p \in DOMAIN Predicates, NEW t \in Options(p)
          PROVE  /\ t \in asked => ev[t] \in {"AVAILABLE", "INVALID"}
                 /\ t \notin asked => ev[t] = "MISSING"
      <4>1. t \in EvidenceTypes
        BY <3>1, OptionsType
      <4>2. t \in asked => Told(t, h.vp.claims)
        OBVIOUS
      <4>3. QED BY <4>1, <4>2, StateOfTold
    <3> HIDE DEF ev, asked
    <3>2. CASE p \in open
      BY <3>1, <3>2, DecidedByOption
    <3>3. CASE p \notin open
      BY <3>1, <3>3, DecidedByOption
    <3>4. QED BY <3>2, <3>3
  <2>2. h.answer = Decide(states)
    <3>1. h.answer = VerifiedReport(h).decision
      BY DEF AnswerInv, CallsSound, Sound
    <3>2. VerifiedReport(h) = Report(ch.canonical, ch.kind, ev, given)
      BY DEF VerifiedReport
    <3> HIDE DEF ev, given
    <3>3. QED BY <3>1, <3>2, ReportDecision
  <2>3. \A p \in DOMAIN labels : labels[p] = "UNKNOWN" <=> p \in open
    <3>1. labels = BuildAudit(ch.canonical, ch.kind, Report(ch.canonical, ch.kind, ev, given)).predicates
      BY DEF AuditOf, VerifiedReport
    <3> HIDE DEF ev, given, open, labels
    <3>2. DOMAIN labels = preds /\ \A p \in preds :
            labels[p] = "UNKNOWN" <=> PredicateState(p, ev) = "UNKNOWN"
      BY <3>1, AuditNamesOpen
    <3>3. QED BY <2>1, <3>2
  <2> HIDE DEF ev, open, labels
  <2>4. open = {} => h.answer # "UNKNOWN"
    BY <2>1, <2>2 DEF Decide
  <2>5. open # {} => h.answer # "ALLOW"
    <3>1. open \subseteq preds
      BY DEF open
    <3>2. QED BY <3>1, <2>1, <2>2 DEF Decide
  <2>6. QED BY <2>3, <2>4, <2>5
<1>2. QED BY <1>1, AnswerInvariance, PTL

=============================================================================
