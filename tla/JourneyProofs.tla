---------------------------- MODULE JourneyProofs ----------------------------
(***************************************************************************)
(* What the parts promise together, for any number of flows, other         *)
(* clients, submissions and restarts, any registry, PID and calendar.      *)
(***************************************************************************)
EXTENDS JourneySafety, WalletProofs, CredentialProofs

FlowFields == {"stage", "canonical", "challenge", "epoch", "sent", "told", "audit"}

FlowStages ==
  {"idle", "issuing", "asked", "presenting", "submitted", "answered", "done", "aborted"}

\* A flow is one record, and once begun it is about a question it may ask.
FlowShape ==
  /\ DOMAIN flows = Flows
  /\ \A f \in Flows :
       /\ DOMAIN flows[f] = FlowFields /\ flows[f].stage \in FlowStages
       /\ flows[f].stage # "idle" => flows[f].canonical \in Asked

\* The flow f moves, alone, to the record of these fields.
Moves(f, stage, canonical, challenge, epoch, sent, told, audit) ==
  /\ DOMAIN flows' = Flows
  /\ \A g \in Flows \ {f} : flows'[g] = flows[g]
  /\ DOMAIN flows'[f] = FlowFields
  /\ flows'[f].stage = stage /\ flows'[f].canonical = canonical
  /\ flows'[f].challenge = challenge /\ flows'[f].epoch = epoch
  /\ flows'[f].sent = sent /\ flows'[f].told = told /\ flows'[f].audit = audit

-----------------------------------------------------------------------------
(***************************************************************************)
(* What each step does to its flow.                                        *)
(***************************************************************************)

\* A step that changes the stage only.
LEMMA StageMoves ==
  ASSUME FlowShape, NEW f \in Flows, NEW stage, flows' = [flows EXCEPT ![f].stage = stage]
  PROVE  Moves(f, stage, flows[f].canonical, flows[f].challenge, flows[f].epoch,
               flows[f].sent, flows[f].told, flows[f].audit)
BY DEF FlowShape, FlowFields, Moves

LEMMA EnsureMoves ==
  ASSUME FlowShape, NEW f \in Flows, NEW x, EnsureIssued(f, x)
  PROVE  Moves(f, "issuing", x, flows[f].challenge, flows[f].epoch,
               flows[f].sent, flows[f].told, flows[f].audit)
BY DEF FlowShape, FlowFields, Moves, EnsureIssued

LEMMA AskMoves ==
  ASSUME FlowShape, NEW f \in Flows, Ask(f)
  PROVE  Moves(f, "asked", flows[f].canonical, store'[f], engineEpoch,
               flows[f].sent, flows[f].told, flows[f].audit)
<1>1. flows' = [flows EXCEPT ![f].stage = "asked", ![f].epoch = engineEpoch,
                             ![f].challenge = store'[f]]
  BY DEF Ask
<1> DEFINE ch == store'[f]
<1> HIDE DEF ch
<1>2. flows' = [flows EXCEPT ![f].stage = "asked", ![f].epoch = engineEpoch, ![f].challenge = ch]
  BY <1>1 DEF ch
<1>3. Moves(f, "asked", flows[f].canonical, ch, engineEpoch,
            flows[f].sent, flows[f].told, flows[f].audit)
  BY <1>2 DEF FlowShape, FlowFields, Moves
<1>4. QED  BY <1>3 DEF ch

\* A submission, and the handler it starts.
LEMMA SubmitMoves ==
  ASSUME FlowShape, NEW f \in Flows, Submit(f)
  PROVE  \E how \in Sendable[f][Len(flows[f].sent) + 1] :
           LET sent == Append(flows[f].sent, how)
           IN /\ Moves(f, "submitted", flows[f].canonical, flows[f].challenge, flows[f].epoch,
                       sent, flows[f].told, flows[f].audit)
              /\ E!Start(<<f, Len(sent)>>, f,
                         ReadVp(Altered(how, pid, CredentialOf(f), flows[f].challenge)), clock)
<1>1. PICK how \in Sendable[f][Len(flows[f].sent) + 1] :
        /\ flows' = [flows EXCEPT ![f].stage = "submitted",
                                  ![f].sent = Append(flows[f].sent, how)]
        /\ E!Start(<<f, Len(Append(flows[f].sent, how))>>, f,
                   ReadVp(Altered(how, pid, CredentialOf(f), flows[f].challenge)), clock)
  BY DEF Submit
<1> DEFINE sent == Append(flows[f].sent, how)
<1>2. flows' = [flows EXCEPT ![f].stage = "submitted", ![f].sent = sent]
  BY <1>1
<1> HIDE DEF sent
<1>3. Moves(f, "submitted", flows[f].canonical, flows[f].challenge, flows[f].epoch,
            sent, flows[f].told, flows[f].audit)
  BY <1>2 DEF FlowShape, FlowFields, Moves
<1>4. QED  BY <1>1, <1>3 DEF sent

LEMMA ReadAnswerMoves ==
  ASSUME FlowShape, NEW f \in Flows, ReadAnswer(f)
  PROVE  Moves(f, "answered", flows[f].canonical, flows[f].challenge, flows[f].epoch,
               flows[f].sent, Append(flows[f].told, handlers[Submission(f)].answer),
               flows[f].audit)
<1> DEFINE told == Append(flows[f].told, handlers[Submission(f)].answer)
<1>1. flows' = [flows EXCEPT ![f].stage = "answered", ![f].told = told]
  BY DEF ReadAnswer
<1> HIDE DEF told
<1>2. Moves(f, "answered", flows[f].canonical, flows[f].challenge, flows[f].epoch,
            flows[f].sent, told, flows[f].audit)
  BY <1>1 DEF FlowShape, FlowFields, Moves
<1>3. QED  BY <1>2 DEF told

LEMMA FetchAuditMoves ==
  ASSUME FlowShape, NEW f \in Flows, FetchAudit(f)
  PROVE  Moves(f, "done", flows[f].canonical, flows[f].challenge, flows[f].epoch,
               flows[f].sent, flows[f].told,
               <<[epoch |-> engineEpoch,
                  record |-> {audits[c] : c \in {Submission(f)} \cap DOMAIN audits}]>>)
<1> DEFINE audit == <<[epoch |-> engineEpoch,
                       record |-> {audits[c] : c \in {Submission(f)} \cap DOMAIN audits}]>>
<1>1. flows' = [flows EXCEPT ![f].stage = "done", ![f].audit = audit]
  BY DEF FetchAudit
<1> HIDE DEF audit
<1>2. Moves(f, "done", flows[f].canonical, flows[f].challenge, flows[f].epoch,
            flows[f].sent, flows[f].told, audit)
  BY <1>1 DEF FlowShape, FlowFields, Moves
<1>3. QED  BY <1>2 DEF audit

-----------------------------------------------------------------------------
(***************************************************************************)
(* The wallet inside the journey is the wallet of its own module.          *)
(***************************************************************************)

LEMMA ShapeStep ==
  ASSUME FlowShape, [JourneyNext]_journeyVars
  PROVE  FlowShape'
<1>1. ASSUME NEW f \in Flows, NEW stage \in FlowStages, NEW x \in Asked,
             NEW challenge, NEW epoch, NEW sent, NEW told, NEW audit,
             Moves(f, stage, x, challenge, epoch, sent, told, audit)
      PROVE  FlowShape'
  BY <1>1 DEF FlowShape, Moves
<1>2. ASSUME NEW f \in Flows, NEW x \in Asked, EnsureIssued(f, x)
      PROVE  FlowShape'
  BY <1>1, <1>2, EnsureMoves DEF FlowStages
<1>3. ASSUME NEW f \in Flows, FlowStep(f)
      PROVE  FlowShape'
  <2>1. flows[f].stage # "idle"
    BY <1>3 DEF FlowStep, Ask, Present, Submit, ReadAnswer, FetchAudit, Finish, Break, GiveUp
  <2>2. flows[f].canonical \in Asked
    BY <2>1 DEF FlowShape
  <2>3. CASE Ask(f)
    BY <1>1, <2>2, <2>3, AskMoves DEF FlowStages
  <2>4. CASE Submit(f)
    BY <1>1, <2>2, <2>4, SubmitMoves DEF FlowStages
  <2>5. CASE ReadAnswer(f)
    BY <1>1, <2>2, <2>5, ReadAnswerMoves DEF FlowStages
  <2>6. CASE FetchAudit(f)
    BY <1>1, <2>2, <2>6, FetchAuditMoves DEF FlowStages
  <2>7. CASE Present(f) \/ Finish(f) \/ Break(f) \/ GiveUp(f)
    <3>1. PICK stage \in FlowStages : flows' = [flows EXCEPT ![f].stage = stage]
      BY <2>7 DEF Present, Finish, Break, GiveUp, FlowStages
    <3>2. QED  BY <1>1, <2>2, <3>1, StageMoves
  <2>8. QED  BY <1>3, <2>3, <2>4, <2>5, <2>6, <2>7 DEF FlowStep
<1>4. CASE UNCHANGED flows
  BY <1>4 DEF FlowShape
<1>5. QED
  BY <1>2, <1>3, <1>4
  DEF JourneyNext, journeyVars, OtherCall, WalletStep, EngineStep, TimePasses, EngineRestarts,
      ApiRestarts

LEMMA ShapeInit == JourneyInit => FlowShape
BY DEF JourneyInit, FlowShape, FlowFields, FlowStages

\* Every step of the journey is one of the wallet or leaves it alone.
LEMMA WalletStepOrNone ==
  ASSUME FlowShape, [JourneyNext]_journeyVars
  PROVE  [Next]_vars
<1>1. ASSUME NEW f \in Flows, NEW x \in Asked, EnsureIssued(f, x)
      PROVE  Next
  BY <1>1, JourneyAssumption DEF EnsureIssued, WalletCall, Next
<1>2. ASSUME NEW f \in Flows, Present(f)
      PROVE  Next
  <2>1. flows[f].canonical \in Asked
    BY <1>2 DEF Present, FlowShape
  <2>2. QED  BY <1>2, <2>1, JourneyAssumption DEF Present, WalletCall, Next
<1>3. ASSUME NEW f \in Flows, FlowStep(f), ~Present(f)
      PROVE  UNCHANGED vars
  BY <1>3
  DEF FlowStep, Ask, Submit, ReadAnswer, FetchAudit, Finish, Break, GiveUp, walletVars
<1>4. ASSUME NEW c \in Others, OtherCall(c)
      PROVE  Next
  BY <1>4, JourneyAssumption DEF OtherCall, Next
<1>5. ASSUME NEW c \in Calls, WalletStep(c)
      PROVE  Next
  BY <1>5 DEF WalletStep, Next
<1>6. ASSUME NEW h \in DOMAIN handlers, EngineStep(h)
      PROVE  UNCHANGED vars
  BY <1>6 DEF EngineStep, walletVars
<1>7. CASE TimePasses \/ EngineRestarts \/ ApiRestarts
  BY <1>7 DEF TimePasses, EngineRestarts, ApiRestarts, Next
<1>8. CASE UNCHANGED journeyVars
  BY <1>8 DEF journeyVars, walletVars
<1>9. QED
  BY <1>1, <1>2, <1>3, <1>4, <1>5, <1>6, <1>7, <1>8 DEF JourneyNext

\* The flows, the engine and the other clients ask of the wallet nothing but
\* what its own specification provides for: what is proved of the wallet alone
\* holds inside the journey.
THEOREM JourneyKeepsWallet == JourneySpec => Spec /\ []FlowShape
<1>1. JourneyInit => Init
  BY DEF JourneyInit
<1>2. FlowShape /\ [JourneyNext]_journeyVars => [Next]_vars
  BY WalletStepOrNone
<1>3. FlowShape /\ [JourneyNext]_journeyVars => FlowShape'
  BY ShapeStep
<1>4. QED  BY <1>1, <1>2, <1>3, ShapeInit, PTL DEF JourneySpec, Spec

-----------------------------------------------------------------------------
(***************************************************************************)
(* The two views of a presentation: its parts, and the record of what the  *)
(* checks read of it.                                                      *)
(***************************************************************************)

\* A signature on something is not the empty part.
LEMMA SignedIsPart ==
  ASSUME NEW key, NEW audience, NEW nonce, NEW hash
  PROVE  JwsSign(key, [aud |-> audience, nonce |-> nonce, sdHash |-> hash]) # NoPart
<1> DEFINE payload == [aud |-> audience, nonce |-> nonce, sdHash |-> hash]
<1>1. DOMAIN payload = {"aud", "nonce", "sdHash"}
  OBVIOUS
<1>2. payload # << >>
  BY <1>1
<1> HIDE DEF payload
<1>3. JwsSign(key, payload).payload = payload /\ NoPart.payload = << >>
  BY DEF JwsSign, NoPart
<1>4. QED  BY <1>2, <1>3 DEF payload

\* The record of a presentation that a wallet puts together, whoever signs the
\* key binding and whatever audience and nonce it names.
Saying(key, holder, exp, signer, said, audience, nonce) ==
  [form |-> "sdjwt", issuerKey |-> key, iss |-> TRUE, genuine |-> TRUE, claims |-> said,
   exp |-> exp, holderKey |-> holder, kbKey |-> signer,
   audience |-> audience, sdHash |-> TRUE, nonce |-> nonce]

RecordOf(known, key, holder, exp, signer, claims, audience, nonce) ==
  Saying(key, holder, exp, signer, [x \in ClaimNames \cap claims |-> ReadClaim(x, known[x])],
         audience, nonce)

\* Two of them that differ in what they say, field by field.
LEMMA OtherwiseSaid ==
  ASSUME NEW key, NEW holder, NEW exp, NEW signer, NEW said, NEW other, NEW audience, NEW nonce
  PROVE  Saying(key, holder, exp, signer, said, audience, nonce)
           = [Saying(key, holder, exp, signer, other, audience, nonce) EXCEPT !.claims = said]
<1> DEFINE u == Saying(key, holder, exp, signer, said, audience, nonce)
           w == Saying(key, holder, exp, signer, other, audience, nonce)
<1>1. /\ DOMAIN u = DOMAIN w /\ u = [q \in DOMAIN u |-> u[q]]
      /\ DOMAIN u = {"form", "issuerKey", "iss", "genuine", "claims", "exp", "holderKey", "kbKey",
                     "audience", "sdHash", "nonce"}
  BY DEF Saying
<1>2. /\ u.form = w.form /\ u.issuerKey = w.issuerKey /\ u.iss = w.iss /\ u.genuine = w.genuine
      /\ u.claims = said /\ u.exp = w.exp /\ u.holderKey = w.holderKey /\ u.kbKey = w.kbKey
      /\ u.audience = w.audience /\ u.sdHash = w.sdHash /\ u.nonce = w.nonce
  BY DEF Saying
<1> HIDE DEF u, w
<1>3. \A q \in DOMAIN u : u[q] = IF q = "claims" THEN said ELSE w[q]
  BY <1>1, <1>2
<1>4. u = [w EXCEPT !.claims = said]
  BY <1>1, <1>3
<1>5. QED  BY <1>4 DEF u, w

LEMMA ReadPresented ==
  ASSUME NEW known, NEW key, NEW holder, NEW exp, NEW signer, NEW claims, NEW audience,
         NEW nonce
  PROVE  ReadVp(PresentVp(Issue(key, known, holder, exp), signer, claims, audience, nonce))
           = RecordOf(known, key, holder, exp, signer, claims, audience, nonce)
<1> DEFINE cred == Issue(key, known, holder, exp)
           ds == cred.disclosures
           chosen == Selected(ds, claims)
           presented == <<cred.jwt>> \o chosen
           kb == JwsSign(signer, [aud |-> audience, nonce |-> nonce,
                                  sdHash |-> Sha256(Append(presented, NoPart))])
           vp == PresentVp(cred, signer, claims, audience, nonce)
           disclosed == DisclosedClaims(vp)
<1>1. PresentedAs(vp, cred.jwt, chosen, signer, audience, nonce)
  BY PresentedParts
<1>2. /\ cred.jwt.key = key /\ cred.jwt.payload.iss = Iss /\ cred.jwt.payload.exp = exp
      /\ cred.jwt.payload.cnf = holder
      /\ cred.jwt.payload.sd = {Sha256(d) : d \in Parts(ds)}
  BY IssuedParts
<1>3. /\ DisclosedParts(vp) = {d \in Parts(ds) : d.name \in claims}
      /\ disclosed = [x \in ClaimNames \cap claims |-> known[x]]
  <2>1. Discloses(vp, ds, known, claims)
    BY PresentDiscloses
  <2> HIDE DEF cred, vp
  <2>2. QED  BY <2>1 DEF Discloses
<1>4. /\ Len(vp) >= 2 /\ vp # << >> /\ vp[1] = cred.jwt
      /\ Last(vp) = kb /\ Front(vp) = presented
  BY <1>1 DEF PresentedAs
<1>5. kb # NoPart /\ kb.key = signer
  BY SignedIsPart DEF JwsSign
<1>6. /\ kb.payload.aud = audience /\ kb.payload.nonce = nonce
      /\ kb.payload.sdHash = Sha256(Append(presented, NoPart))
  BY DEF JwsSign
<1>7. [x \in DOMAIN disclosed |-> ReadClaim(x, disclosed[x])]
        = [x \in ClaimNames \cap claims |-> ReadClaim(x, known[x])]
  BY <1>3
<1>8. \A d \in DisclosedParts(vp) : Sha256(d) \in cred.jwt.payload.sd
  BY <1>2, <1>3
<1> HIDE DEF cred, ds, chosen, presented, kb, vp, disclosed
<1>9. ReadVp(vp)
        = [form |-> "sdjwt", issuerKey |-> key, iss |-> TRUE, genuine |-> TRUE,
           claims |-> [x \in ClaimNames \cap claims |-> ReadClaim(x, known[x])],
           exp |-> exp, holderKey |-> holder, kbKey |-> signer,
           audience |-> audience, sdHash |-> TRUE, nonce |-> nonce]
  <2>1. ReadVp(vp)
          = [form |-> "sdjwt", issuerKey |-> vp[1].key, iss |-> vp[1].payload.iss = Iss,
             genuine |-> \A d \in DisclosedParts(vp) : Sha256(d) \in vp[1].payload.sd,
             claims |-> [x \in DOMAIN disclosed |-> ReadClaim(x, disclosed[x])],
             exp |-> vp[1].payload.exp, holderKey |-> vp[1].payload.cnf, kbKey |-> Last(vp).key,
             audience |-> Last(vp).payload.aud,
             sdHash |-> Last(vp).payload.sdHash = Sha256(HashedText(vp)),
             nonce |-> Last(vp).payload.nonce]
    BY <1>4, <1>5 DEF ReadVp, disclosed
  <2>2. (vp[1].payload.iss = Iss) = TRUE
    BY <1>2, <1>4
  <2>3. (\A d \in DisclosedParts(vp) : Sha256(d) \in vp[1].payload.sd) = TRUE
    BY <1>4, <1>8
  <2>4. (Last(vp).payload.sdHash = Sha256(HashedText(vp))) = TRUE
    BY <1>4, <1>6 DEF HashedText
  <2>5. QED  BY <1>2, <1>4, <1>5, <1>6, <1>7, <2>1, <2>2, <2>3, <2>4
<1>10. QED  BY <1>9 DEF RecordOf, Saying, vp, cred

\* What the wallet has it be.
LEMMA ReadHonest ==
  ASSUME NEW cred, NEW ch
  PROVE  ReadVp(Altered("none", pid, cred, ch))
           = [Vp(cred, DefaultAudience, ch.nonce, ch.required) EXCEPT !.claims =
                [x \in ClaimNames \cap ClaimsToDisclose(ch.required) |-> ReadClaim(x, pid[x])]]
<1> DEFINE chosen == ClaimsToDisclose(ch.required)
           shown == [x \in ClaimNames \cap chosen |-> ReadClaim(x, pid[x])]
<1>1. Altered("none", pid, cred, ch)
        = PresentVp(Issue(cred.issuerKey, pid, cred.holderKey, cred.exp), cred.holderKey,
                    chosen, DefaultAudience, ch.nonce)
  BY DEF Altered, IssuedFor
<1>2. Vp(cred, DefaultAudience, ch.nonce, ch.required)
        = Saying(cred.issuerKey, cred.holderKey, cred.exp, cred.holderKey,
                 [x \in DOMAIN DemoClaims \cap chosen |-> DemoClaims[x]],
                 DefaultAudience, ch.nonce)
  BY DEF Vp, Saying
<1>3. ReadVp(PresentVp(Issue(cred.issuerKey, pid, cred.holderKey, cred.exp), cred.holderKey,
                       chosen, DefaultAudience, ch.nonce))
        = RecordOf(pid, cred.issuerKey, cred.holderKey, cred.exp, cred.holderKey, chosen,
                   DefaultAudience, ch.nonce)
  BY ReadPresented
<1>4. RecordOf(pid, cred.issuerKey, cred.holderKey, cred.exp, cred.holderKey, chosen,
               DefaultAudience, ch.nonce)
        = [Vp(cred, DefaultAudience, ch.nonce, ch.required) EXCEPT !.claims = shown]
  BY <1>2, OtherwiseSaid DEF RecordOf
<1>5. QED  BY <1>1, <1>3, <1>4

-----------------------------------------------------------------------------
(***************************************************************************)
(* Texts and instants.                                                     *)
(***************************************************************************)

\* Every instant of the run is on one of its dates, and a later one on no
\* earlier date.
LEMMA DatesOfRun ==
  /\ \A time \in 0..MaxTime : Today(time) \in Dates /\ DayNumber(Today(time)) \in Int
  /\ \A time, later \in 0..MaxTime :
       time <= later => DayNumber(Today(time)) <= DayNumber(Today(later))
<1> DEFINE day(time) == 1 + time \div TicksPerDay
<1>1. ASSUME NEW time \in 0..MaxTime, NEW later \in 0..MaxTime, time <= later
      PROVE  /\ time \div TicksPerDay \in Nat /\ later \div TicksPerDay \in Nat
             /\ time \div TicksPerDay <= later \div TicksPerDay
  <2> DEFINE k == TicksPerDay  p == time \div k  q == later \div k
  <2>1. /\ k \in Nat /\ k > 0 /\ time \in Nat /\ later \in Nat
    BY JourneyAssumption, WalletAssumption
  <2>2. /\ p \in Nat /\ k * p <= time /\ time < k * p + k
        /\ q \in Nat /\ k * q <= later /\ later < k * q + k
    BY <2>1
  <2> HIDE DEF p, q, k
  <2>3. CASE q < p
    <3>1. k * (q + 1) <= k * p
      BY <2>1, <2>2, <2>3
    <3>2. k * q + k <= k * p
      BY <2>1, <2>2, <3>1
    <3>3. k * q \in Nat /\ k * p \in Nat
      BY <2>1, <2>2
    <3>4. QED  BY <1>1, <2>1, <2>2, <3>2, <3>3
  <2>4. QED  BY <2>2, <2>3 DEF p, q, k
<1>2. ASSUME NEW time \in 0..MaxTime
      PROVE  day(time) \in DOMAIN Days
  <2>1. MaxTime \in Nat /\ MaxTime \in 0..MaxTime /\ time <= MaxTime
    BY WalletAssumption
  <2>2. /\ time \div TicksPerDay \in Nat /\ MaxTime \div TicksPerDay \in Nat
        /\ time \div TicksPerDay <= MaxTime \div TicksPerDay
    BY <1>1, <2>1
  <2>3. QED  BY <2>2, JourneyAssumption
<1>3. ASSUME NEW d \in Dates
      PROVE  DayNumber(d) \in Int
  BY DayNumberType
<1>4. \A time \in 0..MaxTime : Today(time) \in Dates
  BY <1>2, JourneyAssumption DEF Today
<1>5. ASSUME NEW time \in 0..MaxTime, NEW later \in 0..MaxTime, time <= later
      PROVE  DayNumber(Today(time)) <= DayNumber(Today(later))
  <2>1. day(time) <= day(later) /\ day(time) \in Nat /\ day(later) \in Nat
    BY <1>1, <1>5
  <2>2. CASE day(time) = day(later)
    BY <1>3, <1>4, <2>2 DEF Today
  <2>3. CASE day(time) < day(later)
    <3>1. DayNumber(Days[day(time)]) < DayNumber(Days[day(later)])
      BY <1>2, <2>3, JourneyAssumption
    <3>2. QED  BY <1>3, <1>4, <3>1 DEF Today
  <2>4. QED  BY <2>1, <2>2, <2>3
<1>6. QED  BY <1>3, <1>4, <1>5

\* AdultFrom is the instant it is meant to be: is_over_18 says yes from it on,
\* and no before.
LEMMA AdultSince ==
  ASSUME NEW text \in DOMAIN DateOf, NEW time \in 0..MaxTime
  PROVE  IsOver18(DateOf[text], Today(time)) <=> time >= AdultFrom[DateOf[text]]
<1> DEFINE birth == DateOf[text]
           of(t) == DayNumber(Today(t))
           come == ComesOfAge(birth)
           S == {t \in 0..(MaxTime + 1) : t <= MaxTime => of(t) >= come}
           From(t) == /\ t <= MaxTime => of(t) >= come
                      /\ \A u \in 0..(t - 1) : of(u) < come
<1>1. birth \in Dates /\ come \in Int
  BY SdJwtAssumption, DayNumberType
<1>2. MaxTime \in Nat /\ \A t \in 0..MaxTime : of(t) \in Int /\ Today(t) \in Dates
  BY WalletAssumption, DatesOfRun
<1>3. AdultFrom[birth] = CHOOSE t \in 0..(MaxTime + 1) : From(t)
  BY DEF AdultFrom
<1>4. \E t \in 0..(MaxTime + 1) : From(t)
  <2>1. MaxTime + 1 \in S /\ S \subseteq Nat
    BY <1>2
  <2> HIDE DEF S
  <2>2. PICK t \in S : \A u \in S : t <= u
    BY <2>1, LeastNatural
  <2> USE DEF S
  <2>3. \A u \in 0..(t - 1) : u \in 0..MaxTime /\ u \notin S
    BY <1>2, <2>2
  <2> HIDE DEF of, come
  <2>4. \A u \in 0..(t - 1) : of(u) < come
    BY <1>1, <1>2, <2>3
  <2>5. QED  BY <2>2, <2>4
<1> DEFINE from == AdultFrom[birth]
<1>5. from \in 0..(MaxTime + 1) /\ From(from)
  BY <1>3, <1>4
<1> HIDE DEF from
<1>6. of(time) >= come <=> time >= from
  <2>1. CASE time < from
    BY <1>1, <1>2, <1>5, <2>1
  <2>2. CASE time >= from
    <3>1. from \in 0..MaxTime /\ of(from) >= come
      BY <1>2, <1>5, <2>2
    <3>2. of(from) <= of(time)
      BY <2>2, <3>1, DatesOfRun
    <3> HIDE DEF of, come
    <3>3. QED  BY <1>1, <1>2, <2>2, <3>1, <3>2
  <2>3. QED  BY <1>2, <1>5, <2>1, <2>2
<1>7. IsOver18(birth, Today(time)) <=> of(time) >= come
  BY <1>1, <1>2, AgeIsExact
<1>8. QED  BY <1>6, <1>7 DEF from

\* What is derived of a text on a date is what is derived of its reading at any
\* instant of that date.
LEMMA StateAgrees ==
  ASSUME NEW t, NEW value, NEW time \in 0..MaxTime
  PROVE  StateFrom(t, value, Today(time))
           = DeriveState(t, ReadClaim(RequiredClaimFor(t), value), time)
<1>1. CASE t = "AGE_ATTESTATION"
  <2>1. RequiredClaimFor(t) = "birth_date"
    BY <1>1 DEF RequiredClaimFor
  <2>2. CASE value \in DOMAIN DateOf
    <3>1. ReadClaim(RequiredClaimFor(t), value)
            = [garbled |-> FALSE, adultFrom |-> AdultFrom[DateOf[value]]]
      BY <2>1, <2>2 DEF ReadClaim
    <3>2. QED  BY <1>1, <2>2, <3>1, AdultSince DEF StateFrom, DeriveState
  <2>3. CASE value \notin DOMAIN DateOf
    <3>1. ReadClaim(RequiredClaimFor(t), value) = [garbled |-> TRUE, adultFrom |-> 0]
      BY <2>1, <2>3 DEF ReadClaim
    <3>2. QED  BY <1>1, <2>3, <3>1 DEF StateFrom, DeriveState
  <2>4. QED  BY <2>2, <2>3
<1>2. CASE t = "RESIDENCE_CREDENTIAL"
  <2>1. ReadClaim(RequiredClaimFor(t), value)
          = [garbled |-> value = NotText, eu |-> value \in EuCountries]
    BY <1>2 DEF RequiredClaimFor, ReadClaim
  <2>2. /\ ReadClaim(RequiredClaimFor(t), value).garbled = (value = NotText)
        /\ ReadClaim(RequiredClaimFor(t), value).eu = (value \in EuCountries)
    BY <2>1
  <2>3. QED  BY <1>2, <2>2, Zenon DEF StateFrom, DeriveState
<1>3. CASE t \notin {"AGE_ATTESTATION", "RESIDENCE_CREDENTIAL"}
  BY <1>3 DEF StateFrom, DeriveState
<1>4. QED  BY <1>1, <1>2, <1>3

\* The evidence derived from what a presentation discloses is the evidence the
\* dates and the country call for, at every instant of every calendar.
THEOREM EvidenceMatches == JourneySpec => []EvidenceAgrees
<1>1. TypeInv => EvidenceAgrees
  <2> SUFFICES ASSUME TypeInv, NEW f \in Holding, NEW t \in flows[f].challenge.required,
                      RequiredClaimFor(t) \in
                        DOMAIN DisclosedClaims(
                          Altered("none", pid, CredentialOf(f), flows[f].challenge))
               PROVE  LET vp == Altered("none", pid, CredentialOf(f), flows[f].challenge)
                          x  == RequiredClaimFor(t)
                      IN StateFrom(t, DisclosedClaims(vp)[x], Today(clock))
                           = DeriveState(t, ReadVp(vp).claims[x], clock)
    BY DEF EvidenceAgrees
  <2> DEFINE ch == flows[f].challenge
             cred == CredentialOf(f)
             vp == Altered("none", pid, cred, ch)
             chosen == ClaimsToDisclose(ch.required)
             x == RequiredClaimFor(t)
  <2> HIDE DEF ch, cred, chosen
  <2>1. vp = PresentVp(Issue(cred.issuerKey, pid, cred.holderKey, cred.exp), cred.holderKey,
                       chosen, DefaultAudience, ch.nonce)
    BY DEF Altered, IssuedFor, chosen
  <2> HIDE DEF vp
  <2>2. DisclosedClaims(vp) = [y \in ClaimNames \cap chosen |-> pid[y]]
    <3>1. Discloses(vp, Issue(cred.issuerKey, pid, cred.holderKey, cred.exp).disclosures, pid,
                    chosen)
      BY <2>1, PresentDiscloses
    <3>2. QED  BY <3>1 DEF Discloses
  <2>3. ReadVp(vp).claims = [y \in ClaimNames \cap chosen |-> ReadClaim(y, pid[y])]
    <3>1. ReadVp(vp) = RecordOf(pid, cred.issuerKey, cred.holderKey, cred.exp, cred.holderKey,
                                chosen, DefaultAudience, ch.nonce)
      BY <2>1, ReadPresented
    <3>2. QED  BY <3>1 DEF RecordOf, Saying
  <2>4. x \in ClaimNames \cap chosen
    BY <2>2 DEF vp, ch, cred
  <2>5. DisclosedClaims(vp)[x] = pid[x] /\ ReadVp(vp).claims[x] = ReadClaim(x, pid[x])
    BY <2>2, <2>3, <2>4
  <2>6. StateFrom(t, pid[x], Today(clock)) = DeriveState(t, ReadClaim(x, pid[x]), clock)
    BY StateAgrees DEF TypeInv
  <2>7. QED  BY <2>5, <2>6 DEF vp, ch, cred
<1>2. Spec => []TypeInv
  BY WalletInvariance, PTL DEF WalletInv
<1>3. QED  BY <1>1, <1>2, JourneyKeepsWallet, PTL

-----------------------------------------------------------------------------
(***************************************************************************)
(* What holds of flows, handlers, store and log together.                  *)
(***************************************************************************)

Answers == Decisions \cup E!ErrorCodes

HandlerFields ==
  {"stage", "request", "at", "evalTime", "vp", "epoch", "challenge", "failed", "result", "answer"}

ChallengeFields ==
  {"requestId", "nonce", "audience", "issuedAt", "expiresAt", "canonical", "kind", "required",
   "consumed"}

\* Two copies of a challenge, but for its consumption.
SameChallenge(a, b) ==
  /\ a.requestId = b.requestId /\ a.nonce = b.nonce /\ a.audience = b.audience
  /\ a.expiresAt = b.expiresAt /\ a.canonical = b.canonical /\ a.kind = b.kind
  /\ a.required = b.required

\* What a submission carries, whenever it is looked at.
Carried(s) == ReadVp(Altered(How(s), pid, CredentialOf(s[1]), flows[s[1]].challenge))

\* The wallet of a journey is asked for credentials and presentations only, and
\* answers with a credential.
CallsServe ==
  \A c \in DOMAIN calls :
    /\ calls[c].stage \notin {"grant", "list", "listing"}
    /\ calls[c].stage = "answered" => calls[c].credential # {}

\* A flow has the challenge it was given, a presentation once it has submitted
\* one, and was told what its last submission was answered.
FlowOk(f) ==
  LET fl == flows[f]
  IN /\ fl.sent \in Seq(Alterations) /\ fl.told \in Seq(Answers)
     /\ fl.stage \in {"idle", "issuing"} => f \notin issued
     /\ fl.stage \in {"asked", "presenting", "submitted", "answered", "done"} => f \in issued
     /\ fl.stage \in {"idle", "issuing", "asked", "presenting"} => fl.sent = << >>
     /\ fl.stage \in {"submitted", "answered", "done"} => fl.sent # << >>
     /\ f \notin issued => fl.sent = << >>
     /\ f \in issued =>
          /\ fl.epoch \in Nat /\ fl.epoch <= engineEpoch
          /\ DOMAIN fl.challenge = ChallengeFields
          /\ fl.challenge.requestId = f /\ fl.challenge.nonce = f
          /\ fl.challenge.audience = DefaultAudience
          /\ fl.challenge.canonical = fl.canonical /\ fl.challenge.kind = KindOf(fl.canonical)
          /\ fl.challenge.required = BuildPlan(fl.canonical, KindOf(fl.canonical), {}).requiredEvidence
     /\ fl.sent # << >> => WalletAnswered(f, "present")
     /\ fl.stage \in {"answered", "done"} =>
          fl.told # << >> /\ Last(fl.told) = handlers[Submission(f)].answer

\* Each submission has its handler; only the last one may be under way, while
\* the flow waits for it or has given it up.
SentOk(f) ==
  \A n \in 1..Len(flows[f].sent) :
    /\ <<f, n>> \in DOMAIN handlers
    /\ n < Len(flows[f].sent) \/ flows[f].stage \in {"answered", "done"} =>
         handlers[<<f, n>>].stage = "done"

Refused(s) ==
  IF Late(s) THEN "EXPIRED_NONCE"
  ELSE IF AlreadyTaken(s) THEN "NONCE_ALREADY_CONSUMED" ELSE "OK"

\* The checks were made on the challenge that the flow holds.
Checked(s) ==
  LET h == handlers[s]
  IN /\ ~EngineForgot(s) /\ SameChallenge(h.challenge, flows[s[1]].challenge)
     /\ h.failed = FailedCheck(h.vp, h.epoch, flows[s[1]].challenge, h.evalTime)

\* The answer a handler has come to, if it has.
AnswerOk(s) ==
  LET h == handlers[s]
  IN /\ h.stage \in E!Stages
     /\ h.stage = "peek" => h.answer = "NONE" /\ h.failed = "NONE"
     /\ h.stage = "consume" => h.answer = "NONE" /\ Checked(s) /\ h.failed = "NONE"
     /\ h.stage \in {"record", "reply", "done"} => h.answer # "NONE"
     /\ h.stage = "record" => h.answer \in Decisions
     /\ h.answer = "NONE" => h.result = "NONE"
     /\ h.answer \in Answers \cup {"NONE"}
     /\ h.answer # "NONE" /\ EngineForgot(s) =>
          h.answer = "UNKNOWN_REQUEST" /\ h.failed = "NONE" /\ h.result = "NONE"
     /\ h.answer # "NONE" /\ ~EngineForgot(s) =>
          /\ Checked(s)
          /\ h.failed # "NONE" => h.answer = "DENY" /\ h.result = "NONE"
          /\ h.failed = "NONE" => h.result = Refused(s) /\ h.answer = E!AnswerTo(h, h.result)

\* A handler serves a submission of its flow with what that submission carries.
HandlerOk(s) ==
  /\ s \in Flows \X Nat /\ s[2] \in 1..Len(flows[s[1]].sent)
  /\ LET h == handlers[s]
     IN /\ DOMAIN h = HandlerFields
        /\ h.request = s[1] /\ h.vp = Carried(s) /\ h.at = h.evalTime /\ h.at \in 0..MaxTime
        /\ h.epoch \in Nat /\ flows[s[1]].epoch <= h.epoch /\ h.epoch <= engineEpoch
        /\ h.stage \notin {"done", "lost"} => h.epoch = engineEpoch
  /\ AnswerOk(s)

\* The store has the challenges of the flows that asked this engine; one is
\* consumed when a submission of its flow was let through.
StoreOk(f) ==
  /\ f \in DOMAIN store <=> f \in issued /\ flows[f].epoch = engineEpoch
  /\ f \in DOMAIN store =>
       /\ DOMAIN store[f] = ChallengeFields /\ SameChallenge(store[f], flows[f].challenge)
       /\ store[f].consumed <=>
            \E n \in 1..Len(flows[f].sent) : handlers[<<f, n>>].result = "OK"

\* The log has the record of every decision of this engine that is on its way,
\* and no other.
LogOk ==
  /\ \A s \in DOMAIN audits :
       /\ s \in DOMAIN handlers /\ handlers[s].epoch = engineEpoch
       /\ handlers[s].stage \in {"reply", "done"} /\ audits[s] = E!AuditOf(handlers[s])
  /\ \A s \in DOMAIN handlers :
       /\ handlers[s].stage \in {"reply", "done"} /\ handlers[s].epoch = engineEpoch
       /\ handlers[s].answer \in Decisions
       => s \in DOMAIN audits

\* What a flow has read of the log.
ReadOk(f) ==
  flows[f].audit # << >> =>
    LET h == handlers[Submission(f)]
        e == flows[f].audit[1].epoch
    IN /\ flows[f].stage = "done" /\ h.answer \in Decisions
       /\ flows[f].audit[1].record = IF e = h.epoch THEN {E!AuditOf(h)} ELSE {}

JourneyInv ==
  /\ FlowShape /\ pid \in Pids /\ CallsServe
  /\ DOMAIN store \subseteq Flows
  /\ \A f \in Flows : FlowOk(f) /\ SentOk(f) /\ StoreOk(f) /\ ReadOk(f)
  /\ \A s \in DOMAIN handlers : HandlerOk(s)
  /\ LogOk

-----------------------------------------------------------------------------
(***************************************************************************)
(* Frames.                                                                 *)
(***************************************************************************)

\* What every step leaves of a credential that was handed out.
CredentialsStay ==
  \A f \in Flows : WalletAnswered(f, "present") =>
    WalletAnswered(f, "present")' /\ CredentialOf(f)' = CredentialOf(f)

\* A handler that goes on without deciding anything, or is cut off.
GoesOn(h, g) ==
  /\ DOMAIN g = DOMAIN h
  /\ g.request = h.request /\ g.at = h.at /\ g.evalTime = h.evalTime /\ g.vp = h.vp
  /\ g.epoch = h.epoch /\ g.challenge = h.challenge /\ g.failed = h.failed
  /\ g.result = h.result /\ g.answer = h.answer
  /\ \/ g.stage = h.stage
     \/ h.stage \notin {"done", "lost"} /\ g.stage = "lost"
     \/ h.stage = "record" /\ g.stage = "reply"
     \/ h.stage = "reply" /\ g.stage = "done"

QuietHandlers ==
  /\ DOMAIN handlers' = DOMAIN handlers
  /\ \A s \in DOMAIN handlers : GoesOn(handlers[s], handlers'[s])

\* A handler that is done has been told of, and stays what it is.
DoneStay ==
  \A s \in DOMAIN handlers :
    /\ s \in DOMAIN handlers'
    /\ handlers[s].stage = "done" =>
         /\ handlers'[s].stage = "done" /\ handlers'[s].answer = handlers[s].answer
         /\ handlers'[s].epoch = handlers[s].epoch /\ handlers'[s].result = handlers[s].result
         /\ E!AuditOf(handlers'[s]) = E!AuditOf(handlers[s])

\* The flows keep what they have submitted, and what for.
QuietFlows ==
  \A f \in Flows :
    /\ flows'[f].sent = flows[f].sent
    /\ f \in issued => flows'[f].epoch = flows[f].epoch /\ flows'[f].challenge = flows[f].challenge

\* They keep it, and may submit again.
FlowsGoOn ==
  \A f \in Flows :
    /\ 1..Len(flows[f].sent) \subseteq 1..Len(flows'[f].sent)
    /\ \A n \in 1..Len(flows[f].sent) : flows'[f].sent[n] = flows[f].sent[n]
    /\ f \in issued => flows'[f].epoch = flows[f].epoch /\ flows'[f].challenge = flows[f].challenge

\* A new call, or one that was under way, has no say in an answered one.
LEMMA AnsweredStays ==
  ASSUME TypeInv, [Next]_vars, NEW c \in DOMAIN calls, calls[c].stage = "answered"
  PROVE  /\ c \in DOMAIN calls' /\ calls'[c].stage = "answered"
         /\ calls'[c].credential = calls[c].credential
<1>1. ASSUME NEW d \in Calls, Alone(d)
      PROVE  c \in DOMAIN calls' /\ calls'[c] = calls[c]
  BY <1>1 DEF Alone, Ended
<1>2. ASSUME NEW d \in Calls, ReceiveAny(d) \/ Thread(d)
      PROVE  Alone(d)
  BY <1>2, Arrival, ThreadStep
<1>3. CASE RestartApi
  BY <1>3, RestartStep DEF Ended
<1>4. CASE UNCHANGED calls
  BY <1>4
<1>5. QED
  BY <1>1, <1>2, <1>3, <1>4 DEF Next, ReceiveAny, Tick, RestartEngine, vars

LEMMA CredentialsKept ==
  ASSUME TypeInv, [Next]_vars
  PROVE  CredentialsStay
<1> SUFFICES ASSUME NEW f \in Flows, WalletAnswered(f, "present")
             PROVE  WalletAnswered(f, "present")' /\ CredentialOf(f)' = CredentialOf(f)
  BY DEF CredentialsStay
<1> DEFINE c == WalletCall(f, "present")
           one(S) == CHOOSE cred \in S : TRUE
<1>1. c \in DOMAIN calls /\ calls[c].stage = "answered"
  BY DEF WalletAnswered, At
<1>2. /\ c \in DOMAIN calls' /\ calls'[c].stage = "answered"
      /\ calls'[c].credential = calls[c].credential
  BY <1>1, AnsweredStays
<1>3. CredentialOf(f) = one(calls[c].credential) /\ CredentialOf(f)' = one(calls'[c].credential)
  BY DEF CredentialOf, WalletCall
<1> HIDE DEF one
<1>4. QED  BY <1>2, <1>3 DEF WalletAnswered, At, WalletCall

\* A call of the journey enters the wallet, and leaves it with a credential or
\* none.
LEMMA ServeStep ==
  ASSUME TypeInv, FlowShape, CallsServe, [JourneyNext]_journeyVars
  PROVE  CallsServe'
<1>1. ASSUME NEW c, NEW s, ReceiveIssue(c, s)
      PROVE  CallsServe'
  BY <1>1 DEF ReceiveIssue, Receive, CallsServe, Put
<1>2. ASSUME NEW c, NEW s, NEW x, ReceivePresent(c, s, x)
      PROVE  CallsServe'
  BY <1>2 DEF ReceivePresent, Receive, CallsServe, Put
<1>3. ASSUME NEW c \in Calls, Thread(c)
      PROVE  CallsServe'
  <2>1. /\ DOMAIN calls' = DOMAIN calls /\ c \in DOMAIN calls
        /\ \A d \in DOMAIN calls : d # c => calls'[d] = calls[d]
    BY <1>3, ThreadStep DEF Alone
  <2>2. /\ calls'[c].stage \notin {"grant", "list", "listing"}
        /\ calls'[c].stage = "answered" => calls'[c].credential # {}
    <3>1. DOMAIN calls[c] = {"op", "subject", "stage", "type", "canonical", "epoch", "after",
                             "credential", "held", "decision"}
      BY <2>1 DEF TypeInv, Threads
    <3>2. CASE Enter(c)
      <4> DEFINE cred == credentials[calls[c].subject]
      <4>1. \/ calls' = [calls EXCEPT ![c].stage = "answered", ![c].credential = {cred}]
            \/ calls' = [calls EXCEPT ![c].stage = "issuing"]
        BY <3>2 DEF Enter
      <4> HIDE DEF cred
      <4>2. CASE calls' = [calls EXCEPT ![c].stage = "answered", ![c].credential = {cred}]
        BY <2>1, <3>1, <4>2
      <4>3. CASE calls' = [calls EXCEPT ![c].stage = "issuing"]
        BY <2>1, <3>1, <4>3
      <4>4. QED  BY <4>1, <4>2, <4>3
    <3>3. CASE Issued(c)
      <4> DEFINE cred == [holderKey |-> c, issuerKey |-> engineEpoch, exp |-> clock + CredentialTTL]
      <4>1. calls' = [calls EXCEPT ![c].stage = "answered", ![c].credential = {cred}]
        BY <3>3 DEF Issued
      <4> HIDE DEF cred
      <4>2. QED  BY <2>1, <3>1, <4>1
    <3>4. CASE IssueFails(c)
      BY <2>1, <3>1, <3>4 DEF IssueFails
    <3>5. ~Grant(c) /\ ~StartListing(c) /\ ~Decided(c) /\ ~DecideFails(c)
      BY <2>1 DEF CallsServe, Grant, StartListing, Decided, DecideFails, At
    <3>6. QED  BY <1>3, <3>2, <3>3, <3>4, <3>5 DEF Thread
  <2>3. QED  BY <2>1, <2>2 DEF CallsServe
<1>4. CASE RestartApi
  BY <1>4, RestartStep DEF CallsServe, Ended
<1>5. CASE UNCHANGED calls
  BY <1>5 DEF CallsServe
<1>6. QED
  BY <1>1, <1>2, <1>3, <1>4, <1>5
  DEF JourneyNext, journeyVars, walletVars, vars, FlowStep, EnsureIssued, Ask, Present, Submit,
      ReadAnswer, FetchAudit, Finish, Break, GiveUp, OtherCall, WalletStep, EngineStep, TimePasses,
      EngineRestarts, ApiRestarts, Tick, RestartEngine

\* The report, and what comes of it, is read from these fields.
LEMMA ReportReads ==
  ASSUME NEW h, NEW g, g.challenge = h.challenge, g.vp = h.vp, g.evalTime = h.evalTime
  PROVE  /\ E!VerifiedReport(g) = E!VerifiedReport(h)
         /\ \A result : E!AnswerTo(g, result) = E!AnswerTo(h, result)
         /\ g.failed = h.failed /\ g.result = h.result /\ g.answer = h.answer
              => E!AuditOf(g) = E!AuditOf(h)
<1>1. E!VerifiedReport(g) = E!VerifiedReport(h)
  BY DEF E!VerifiedReport
<1>2. QED  BY <1>1 DEF E!AnswerTo, E!AuditOf

LEMMA QuietDone == QuietHandlers => DoneStay
BY ReportReads DEF QuietHandlers, GoesOn, DoneStay

\* What a submission carries is settled when it is made.
LEMMA CarriedStays ==
  ASSUME NEW s, pid' = pid, CredentialOf(s[1])' = CredentialOf(s[1]), How(s)' = How(s),
         flows'[s[1]].challenge = flows[s[1]].challenge
  PROVE  Carried(s)' = Carried(s)
BY DEF Carried

\* The submissions before one that has its handler have theirs.
LEMMA EarlierHandlers ==
  ASSUME JourneyInv, NEW s \in DOMAIN handlers, NEW n \in 1..(s[2] - 1)
  PROVE  /\ n \in 1..Len(flows[s[1]].sent) /\ <<s[1], n>> \in DOMAIN handlers
         /\ handlers[<<s[1], n>>].stage = "done" /\ <<s[1], n>> # s
<1>1. HandlerOk(s) /\ s[1] \in Flows /\ s[2] \in 1..Len(flows[s[1]].sent)
  BY DEF JourneyInv, HandlerOk
<1>2. FlowOk(s[1]) /\ SentOk(s[1])
  BY <1>1 DEF JourneyInv
<1>3. n \in 1..Len(flows[s[1]].sent) /\ n < Len(flows[s[1]].sent) /\ n # s[2]
  BY <1>1, <1>2 DEF FlowOk
<1>4. QED  BY <1>2, <1>3 DEF SentOk

\* A handler that decides nothing in a step stays as it should be.
LEMMA HandlerKept ==
  ASSUME JourneyInv, TypeInv, CredentialsStay, pid' = pid, FlowsGoOn,
         engineEpoch' \in Nat, engineEpoch <= engineEpoch',
         NEW s \in DOMAIN handlers, GoesOn(handlers[s], handlers'[s]),
         handlers'[s].stage \notin {"done", "lost"} => engineEpoch' = engineEpoch,
         \A n \in 1..(s[2] - 1) : handlers'[<<s[1], n>>].result = handlers[<<s[1], n>>].result
  PROVE  HandlerOk(s)'
<1> DEFINE f == s[1]
           h == handlers[s]
           g == handlers'[s]
<1>1. HandlerOk(s) /\ GoesOn(h, g) /\ f \in Flows
  BY DEF JourneyInv, HandlerOk
<1>2. FlowOk(f) /\ SentOk(f)
  BY <1>1 DEF JourneyInv
<1>3. flows[f].sent # << >> /\ f \in issued /\ s[2] \in 1..Len(flows[f].sent)
  BY <1>1, <1>2 DEF HandlerOk, FlowOk
<1>4. /\ s[2] \in 1..Len(flows'[f].sent) /\ How(s)' = How(s)
      /\ flows'[f].epoch = flows[f].epoch
      /\ flows'[f].challenge = flows[f].challenge
  BY <1>1, <1>3 DEF FlowsGoOn, How
<1>5. CredentialOf(f)' = CredentialOf(f)
  BY <1>1, <1>2, <1>3 DEF FlowOk, CredentialsStay
<1>6. Carried(s)' = Carried(s)
  BY <1>4, <1>5, CarriedStays
<1>7. /\ s \in Flows \X Nat /\ (s[2] \in 1..Len(flows[f].sent))'
      /\ DOMAIN g = HandlerFields /\ g.request = f /\ g.vp = Carried(s)'
      /\ g.at = g.evalTime /\ g.at \in 0..MaxTime
      /\ g.epoch \in Nat /\ flows'[f].epoch <= g.epoch /\ g.epoch <= engineEpoch'
      /\ g.stage \notin {"done", "lost"} => g.epoch = engineEpoch'
  BY <1>1, <1>2, <1>3, <1>4, <1>6 DEF HandlerOk, GoesOn, TypeInv, FlowOk
<1>8. /\ EngineForgot(s)' <=> EngineForgot(s)
      /\ Late(s)' <=> Late(s)
      /\ Checked(s)' <=> Checked(s)
  BY <1>1, <1>4 DEF EngineForgot, Late, Checked, GoesOn, SameChallenge
<1>9. AlreadyTaken(s)' <=> AlreadyTaken(s)
  BY DEF AlreadyTaken
<1>10. Refused(s)' = Refused(s)
  BY <1>8, <1>9 DEF Refused
<1>11. \A result : E!AnswerTo(g, result) = E!AnswerTo(h, result)
  BY <1>1, ReportReads DEF GoesOn
<1>12. AnswerOk(s)'
  <2>1. AnswerOk(s)
    BY <1>1 DEF HandlerOk
  <2>2. /\ g.answer = h.answer /\ g.failed = h.failed /\ g.result = h.result
        /\ \/ g.stage = h.stage
           \/ g.stage = "lost"
           \/ h.stage = "record" /\ g.stage = "reply"
           \/ h.stage = "reply" /\ g.stage = "done"
    BY <1>1 DEF GoesOn
  <2> HIDE DEF g, h
  <2>3. QED
    BY <1>8, <1>10, <1>11, <2>1, <2>2 DEF AnswerOk, E!Stages, g, h
<1>13. QED  BY <1>7, <1>12 DEF HandlerOk

LEMMA QuietGoOn == QuietFlows => FlowsGoOn
BY DEF QuietFlows, FlowsGoOn

LEMMA HandlersKept ==
  ASSUME JourneyInv, TypeInv, CredentialsStay, pid' = pid, QuietHandlers, QuietFlows,
         engineEpoch' \in Nat, engineEpoch <= engineEpoch',
         \A s \in DOMAIN handlers :
           handlers'[s].stage \notin {"done", "lost"} => engineEpoch' = engineEpoch
  PROVE  \A s \in DOMAIN handlers' : HandlerOk(s)'
<1> SUFFICES ASSUME NEW s \in DOMAIN handlers
             PROVE  HandlerOk(s)'
  BY DEF QuietHandlers
<1>1. GoesOn(handlers[s], handlers'[s])
  BY DEF QuietHandlers
<1>2. \A n \in 1..(s[2] - 1) : handlers'[<<s[1], n>>].result = handlers[<<s[1], n>>].result
  BY EarlierHandlers DEF QuietHandlers, GoesOn
<1>3. QED  BY <1>1, <1>2, HandlerKept, QuietGoOn

\* A flow that rests.
LEMMA FlowKept ==
  ASSUME NEW f \in Flows, FlowOk(f), SentOk(f), ReadOk(f), TypeInv,
         flows'[f] = flows[f], f \in issued' <=> f \in issued,
         engineEpoch' \in Nat, engineEpoch <= engineEpoch', CredentialsStay, DoneStay
  PROVE  FlowOk(f)' /\ SentOk(f)' /\ ReadOk(f)'
<1> DEFINE fl == flows[f]
<1>1. /\ fl.stage \in {"answered", "done"} =>
           /\ Submission(f) \in DOMAIN handlers /\ Submission(f)' = Submission(f)
           /\ handlers[Submission(f)].stage = "done"
  BY DEF FlowOk, SentOk, Submission
<1>2. /\ fl.stage \in {"answered", "done"} =>
           /\ handlers'[Submission(f)].answer = handlers[Submission(f)].answer
           /\ handlers'[Submission(f)].epoch = handlers[Submission(f)].epoch
           /\ E!AuditOf(handlers'[Submission(f)]) = E!AuditOf(handlers[Submission(f)])
  BY <1>1 DEF DoneStay
<1>3. WalletAnswered(f, "present") => WalletAnswered(f, "present")'
  BY DEF CredentialsStay
<1>4. FlowOk(f)'
  <2>1. f \in issued => fl.epoch <= engineEpoch'
    BY DEF FlowOk, TypeInv
  <2>2. QED  BY <1>1, <1>2, <1>3, <2>1 DEF FlowOk
<1>5. SentOk(f)'
  BY DEF SentOk, DoneStay
<1>6. ReadOk(f)'
  BY <1>1, <1>2 DEF ReadOk
<1>7. QED  BY <1>4, <1>5, <1>6

\* The challenge of a flow in the store.
LEMMA StoreKept ==
  ASSUME NEW f \in Flows, StoreOk(f), engineEpoch' = engineEpoch, QuietFlows,
         f \in DOMAIN store' <=> f \in DOMAIN store, f \in DOMAIN store => store'[f] = store[f],
         f \in issued' <=> f \in issued,
         \A n \in 1..Len(flows[f].sent) : handlers'[<<f, n>>].result = handlers[<<f, n>>].result
  PROVE  StoreOk(f)'
<1>1. /\ flows'[f].sent = flows[f].sent
      /\ f \in issued => flows'[f].epoch = flows[f].epoch /\ flows'[f].challenge = flows[f].challenge
  BY DEF QuietFlows
<1>2. QED  BY <1>1 DEF StoreOk

\* A step that leaves the engine alone, whatever flow it moves.
LEMMA EngineIdle ==
  ASSUME JourneyInv, TypeInv, TypeInv', CredentialsStay, FlowShape', CallsServe', pid' = pid,
         UNCHANGED <<engineVars, engineEpoch>>, QuietFlows,
         \A f \in Flows : flows'[f] = flows[f] \/ (FlowOk(f)' /\ SentOk(f)' /\ ReadOk(f)')
  PROVE  JourneyInv'
<1>1. /\ UNCHANGED <<issued, store, handlers, audits, engineEpoch>>
      /\ engineEpoch' \in Nat /\ engineEpoch <= engineEpoch'
  BY DEF engineVars, TypeInv
<1>2. QuietHandlers /\ DoneStay
  BY <1>1, QuietDone DEF QuietHandlers, GoesOn
<1>3. ASSUME NEW f \in Flows
      PROVE  (FlowOk(f) /\ SentOk(f) /\ StoreOk(f) /\ ReadOk(f))'
  <2>1. FlowOk(f) /\ SentOk(f) /\ StoreOk(f) /\ ReadOk(f)
    BY DEF JourneyInv
  <2>2. FlowOk(f)' /\ SentOk(f)' /\ ReadOk(f)'
    BY <1>1, <1>2, <2>1, FlowKept
  <2>3. StoreOk(f)'
    BY <1>1, <2>1, StoreKept
  <2>4. QED  BY <2>2, <2>3
<1>4. \A s \in DOMAIN handlers' : HandlerOk(s)'
  BY <1>1, <1>2, HandlersKept
<1>5. LogOk'
  BY <1>1 DEF JourneyInv, LogOk
<1>6. DOMAIN store' \subseteq Flows /\ pid' \in Pids
  BY <1>1 DEF JourneyInv
<1>7. QED  BY <1>3, <1>4, <1>5, <1>6 DEF JourneyInv

-----------------------------------------------------------------------------
(***************************************************************************)
(* Steps that leave the engine alone.                                      *)
(***************************************************************************)

LEMMA KeepEnsure ==
  ASSUME JourneyInv, TypeInv, TypeInv', CredentialsStay, FlowShape', CallsServe',
         NEW f \in Flows, NEW x \in Asked, EnsureIssued(f, x)
  PROVE  JourneyInv'
<1>1. /\ UNCHANGED <<pid, engineVars, engineEpoch>> /\ flows[f].stage = "idle"
  BY DEF EnsureIssued, ReceiveIssue, Receive
<1>2. FlowOk(f) /\ SentOk(f) /\ ReadOk(f) /\ FlowShape
  BY DEF JourneyInv
<1>3. /\ QuietFlows
      /\ flows'[f].stage = "issuing"
      /\ flows'[f].sent = flows[f].sent /\ flows'[f].told = flows[f].told
      /\ flows'[f].audit = flows[f].audit
      /\ \A g \in Flows : g # f => flows'[g] = flows[g]
  <2>1. Moves(f, "issuing", x, flows[f].challenge, flows[f].epoch, flows[f].sent, flows[f].told,
              flows[f].audit)
    BY <1>2, EnsureMoves
  <2>2. QED  BY <2>1 DEF Moves, QuietFlows
<1>4. flows[f].sent = << >> /\ f \notin issued /\ f \notin issued' /\ flows[f].audit = << >>
  BY <1>1, <1>2 DEF FlowOk, ReadOk, engineVars
<1>5. FlowOk(f)' /\ SentOk(f)' /\ ReadOk(f)'
  BY <1>2, <1>3, <1>4 DEF FlowOk, SentOk, ReadOk
<1>6. QED  BY <1>1, <1>3, <1>5, EngineIdle

\* A move to another stage, of a flow that is told nothing.
LEMMA KeepStage ==
  ASSUME JourneyInv, TypeInv, TypeInv', CredentialsStay, FlowShape', CallsServe',
         NEW f \in Flows, Present(f) \/ Finish(f) \/ Break(f) \/ GiveUp(f)
  PROVE  JourneyInv'
<1>1. UNCHANGED <<pid, engineVars, engineEpoch>>
  BY DEF Present, ReceivePresent, Receive, Finish, Break, GiveUp, walletVars, vars
<1>2. FlowOk(f) /\ SentOk(f) /\ ReadOk(f) /\ FlowShape
  BY DEF JourneyInv
<1>3. PICK stage :
        /\ flows' = [flows EXCEPT ![f].stage = stage]
        /\ \/ stage = "presenting" /\ flows[f].stage = "asked"
           \/ stage = "done" /\ flows[f].stage = "answered"
           \/ stage = "aborted" /\ flows[f].stage \notin {"answered", "done"}
  BY DEF Present, Finish, Break, GiveUp
<1>4. /\ QuietFlows
      /\ flows'[f].stage = stage /\ flows'[f].canonical = flows[f].canonical
      /\ flows'[f].challenge = flows[f].challenge /\ flows'[f].epoch = flows[f].epoch
      /\ flows'[f].sent = flows[f].sent /\ flows'[f].told = flows[f].told
      /\ flows'[f].audit = flows[f].audit
      /\ \A g \in Flows : g # f => flows'[g] = flows[g]
      /\ Submission(f)' = Submission(f)
  <2>1. Moves(f, stage, flows[f].canonical, flows[f].challenge, flows[f].epoch, flows[f].sent,
              flows[f].told, flows[f].audit)
    BY <1>2, <1>3, StageMoves
  <2>2. QED  BY <2>1 DEF Moves, QuietFlows, Submission
<1>5. flows[f].audit = << >>
  BY <1>2, <1>3 DEF ReadOk
<1>6. WalletAnswered(f, "present") => WalletAnswered(f, "present")'
  BY DEF CredentialsStay
<1>7. UNCHANGED <<issued, handlers, engineEpoch>>
  BY <1>1 DEF engineVars
<1>8. FlowOk(f)'
  BY <1>2, <1>3, <1>4, <1>6, <1>7 DEF FlowOk
<1>9. SentOk(f)' /\ ReadOk(f)'
  BY <1>2, <1>3, <1>4, <1>5, <1>7 DEF SentOk, ReadOk
<1>10. QED  BY <1>1, <1>4, <1>8, <1>9, EngineIdle

LEMMA KeepReadAnswer ==
  ASSUME JourneyInv, TypeInv, TypeInv', CredentialsStay, FlowShape', CallsServe',
         NEW f \in Flows, ReadAnswer(f)
  PROVE  JourneyInv'
<1> DEFINE answer == handlers[Submission(f)].answer
<1>1. /\ UNCHANGED <<pid, engineVars, engineEpoch>> /\ flows[f].stage = "submitted"
      /\ Submission(f) \in DOMAIN handlers /\ handlers[Submission(f)].stage = "done"
  BY DEF ReadAnswer, HandlerIs, walletVars, vars
<1>2. /\ FlowOk(f) /\ SentOk(f) /\ ReadOk(f) /\ FlowShape /\ HandlerOk(Submission(f))
  BY <1>1 DEF JourneyInv
<1>3. /\ QuietFlows
      /\ flows'[f].stage = "answered" /\ flows'[f].canonical = flows[f].canonical
      /\ flows'[f].challenge = flows[f].challenge /\ flows'[f].epoch = flows[f].epoch
      /\ flows'[f].sent = flows[f].sent /\ flows'[f].told = Append(flows[f].told, answer)
      /\ flows'[f].audit = flows[f].audit
      /\ \A g \in Flows : g # f => flows'[g] = flows[g]
      /\ Submission(f)' = Submission(f)
  <2>1. Moves(f, "answered", flows[f].canonical, flows[f].challenge, flows[f].epoch,
              flows[f].sent, Append(flows[f].told, answer), flows[f].audit)
    BY <1>2, ReadAnswerMoves
  <2> HIDE DEF answer
  <2>2. QED  BY <2>1 DEF Moves, QuietFlows, Submission
<1>4. answer \in Answers
  BY <1>1, <1>2 DEF HandlerOk, AnswerOk
<1> HIDE DEF answer
<1>5. /\ Append(flows[f].told, answer) \in Seq(Answers) /\ Append(flows[f].told, answer) # << >>
      /\ Last(Append(flows[f].told, answer)) = answer
  <2> DEFINE told == flows[f].told
  <2>1. told \in Seq(Answers)
    BY <1>2 DEF FlowOk
  <2> HIDE DEF told
  <2>2. /\ Append(told, answer) \in Seq(Answers) /\ Append(told, answer) # << >>
        /\ Last(Append(told, answer)) = answer
    BY <1>4, <2>1 DEF Last
  <2>3. QED  BY <2>2 DEF told
<1>6. flows[f].audit = << >>
  BY <1>1, <1>2 DEF ReadOk
<1>7. WalletAnswered(f, "present") => WalletAnswered(f, "present")'
  BY DEF CredentialsStay
<1>8. UNCHANGED <<issued, handlers, engineEpoch>>
  BY <1>1 DEF engineVars
<1>9. FlowOk(f)'
  BY <1>1, <1>2, <1>3, <1>5, <1>7, <1>8 DEF FlowOk, answer
<1>10. SentOk(f)'
  <2>1. \A n \in 1..Len(flows[f].sent) : n < Len(flows[f].sent) \/ <<f, n>> = Submission(f)
    BY <1>2 DEF Submission, FlowOk
  <2>2. QED  BY <1>1, <1>2, <1>3, <1>8, <2>1 DEF SentOk
<1>11. ReadOk(f)'
  BY <1>3, <1>6 DEF ReadOk
<1>12. QED  BY <1>1, <1>3, <1>9, <1>10, <1>11, EngineIdle

LEMMA KeepFetch ==
  ASSUME JourneyInv, TypeInv, TypeInv', CredentialsStay, FlowShape', CallsServe',
         NEW f \in Flows, FetchAudit(f)
  PROVE  JourneyInv'
<1> DEFINE s == Submission(f)
           record == {audits[c] : c \in {s} \cap DOMAIN audits}
           audit == <<[epoch |-> engineEpoch, record |-> record]>>
<1>1. /\ UNCHANGED <<pid, engineVars, engineEpoch>> /\ flows[f].stage = "answered"
      /\ Last(flows[f].told) \in Decisions
  BY DEF FetchAudit, walletVars, vars
<1>2. FlowOk(f) /\ SentOk(f) /\ ReadOk(f) /\ FlowShape /\ LogOk
  BY <1>1 DEF JourneyInv
<1>3. /\ QuietFlows
      /\ flows'[f].stage = "done" /\ flows'[f].canonical = flows[f].canonical
      /\ flows'[f].challenge = flows[f].challenge /\ flows'[f].epoch = flows[f].epoch
      /\ flows'[f].sent = flows[f].sent /\ flows'[f].told = flows[f].told
      /\ flows'[f].audit = audit
      /\ \A g \in Flows : g # f => flows'[g] = flows[g]
      /\ Submission(f)' = Submission(f)
  <2>1. Moves(f, "done", flows[f].canonical, flows[f].challenge, flows[f].epoch, flows[f].sent,
              flows[f].told, audit)
    BY <1>2, FetchAuditMoves
  <2> HIDE DEF audit
  <2>2. QED  BY <2>1 DEF Moves, QuietFlows, Submission
<1>4. /\ s \in DOMAIN handlers /\ handlers[s].stage = "done" /\ handlers[s].answer \in Decisions
  BY <1>1, <1>2 DEF FlowOk, SentOk, Submission
<1>5. s \in DOMAIN audits <=> handlers[s].epoch = engineEpoch
  BY <1>2, <1>4 DEF LogOk
<1>6. record = IF engineEpoch = handlers[s].epoch THEN {E!AuditOf(handlers[s])} ELSE {}
  BY <1>2, <1>5 DEF LogOk
<1>7. audit[1].epoch = engineEpoch /\ audit[1].record = record
  OBVIOUS
<1> HIDE DEF record, audit
<1>8. WalletAnswered(f, "present") => WalletAnswered(f, "present")'
  BY DEF CredentialsStay
<1>9. UNCHANGED <<issued, handlers, engineEpoch>>
  BY <1>1 DEF engineVars
<1>10. FlowOk(f)'
  BY <1>1, <1>2, <1>3, <1>8, <1>9 DEF FlowOk
<1>11. SentOk(f)'
  BY <1>1, <1>2, <1>3, <1>9 DEF SentOk
<1>12. ReadOk(f)'
  BY <1>3, <1>4, <1>6, <1>7, <1>9 DEF ReadOk
<1>13. QED  BY <1>1, <1>3, <1>10, <1>11, <1>12, EngineIdle

-----------------------------------------------------------------------------
(***************************************************************************)
(* The question.                                                           *)
(***************************************************************************)

\* The engine's policy is the wallet's, and its verifier the one here.
LEMMA EngineRequired ==
  \A c, kind : E!RequiredPredicates(c, kind) = RequiredPredicates(c, kind)
BY DEF E!RequiredPredicates, RequiredPredicates

LEMMA EngineKind == \A c : E!KindOf(c) = KindOf(c)
BY DEF E!KindOf, KindOf

LEMMA EnginePlan ==
  \A c, kind, established : E!BuildPlan(c, kind, established) = BuildPlan(c, kind, established)
<1>1. \A p : E!Options(p) = Options(p)
  BY DEF E!Options, Options
<1>2. \A p, t : E!PrivacyRank(p, t) = PrivacyRank(p, t)
  BY DEF E!PrivacyRank, PrivacyRank, E!FirstPosition, FirstPosition
<1>3. \A p, S : E!MostPrivate(p, S) = MostPrivate(p, S)
  BY <1>2 DEF E!MostPrivate, MostPrivate
<1>4. \A p : E!MostPrivate(p, E!Options(p)) = MostPrivate(p, Options(p))
  BY <1>1, <1>3
<1> TAKE c, kind, established
<1> DEFINE open == {p \in RequiredPredicates(c, kind) \ established : p \in DOMAIN Predicates}
<1>5. {p \in E!RequiredPredicates(c, kind) \ established : p \in DOMAIN Predicates} = open
  BY EngineRequired
<1> HIDE DEF open
<1>6. {E!MostPrivate(p, E!Options(p)) : p \in {q \in open : E!Options(q) # {}}}
        = {MostPrivate(p, Options(p)) : p \in {q \in open : Options(q) # {}}}
  BY <1>1, <1>4
<1>7. QED  BY <1>5, <1>6 DEF E!BuildPlan, BuildPlan, open

LEMMA EngineChecks ==
  \A vp, issuerKey, challenge, time :
    E!FailedCheck(vp, issuerKey, challenge, time) = FailedCheck(vp, issuerKey, challenge, time)
BY DEF E!FailedCheck, FailedCheck

\* The challenge of a question, with nothing known beforehand.
Asking(f, c) ==
  [requestId |-> f, nonce |-> f, audience |-> DefaultAudience,
   issuedAt |-> clock, expiresAt |-> clock + NonceTTL,
   canonical |-> c, kind |-> KindOf(c),
   required |-> BuildPlan(c, KindOf(c), {}).requiredEvidence, consumed |-> FALSE]

LEMMA AskingFields ==
  \A f, c :
    /\ DOMAIN Asking(f, c) = ChallengeFields
    /\ Asking(f, c).requestId = f /\ Asking(f, c).nonce = f
    /\ Asking(f, c).audience = DefaultAudience
    /\ Asking(f, c).canonical = c /\ Asking(f, c).kind = KindOf(c)
    /\ Asking(f, c).required = BuildPlan(c, KindOf(c), {}).requiredEvidence
    /\ Asking(f, c).consumed = FALSE
BY DEF Asking, ChallengeFields

\* The challenge is one of the question the flow has asked.
LEMMA AskPlans ==
  ASSUME NEW f \in Flows, Ask(f)
  PROVE  /\ f \notin issued /\ issued' = issued \cup {f}
         /\ UNCHANGED <<walletVars, pid, handlers, audits>>
         /\ DOMAIN store' = DOMAIN store \cup {f}
         /\ \A g \in DOMAIN store : g # f => store'[g] = store[g]
         /\ store'[f] = Asking(f, flows[f].canonical)
<1>1. /\ f \notin issued /\ issued' = issued \cup {f}
      /\ UNCHANGED <<walletVars, pid, handlers, audits>>
      /\ store'[f].canonical = flows[f].canonical
  BY DEF Ask, E!Plan
<1> DEFINE required(c, known) ==
             E!BuildPlan(c, E!KindOf(c), E!Established(c, E!KindOf(c), known)).requiredEvidence
           entry(c, known, a) ==
             [requestId |-> f, nonce |-> f, audience |-> a,
              issuedAt |-> clock, expiresAt |-> clock + NonceTTL,
              canonical |-> c, kind |-> E!KindOf(c), required |-> required(c, known),
              consumed |-> FALSE]
           unknown == [t \in EvidenceTypes |-> "MISSING"]
<1>2. \E c \in DOMAIN Predicates \cup DOMAIN Policies, known \in {unknown}, a \in {DefaultAudience} :
        store' = E!Put(store, f, entry(c, known, a))
  BY DEF Ask, E!Plan, E!NonceOf
<1> HIDE DEF entry
<1>3. PICK c : store' = E!Put(store, f, entry(c, unknown, DefaultAudience))
  BY <1>2
<1>4. required(c, unknown) = BuildPlan(c, KindOf(c), {}).requiredEvidence
  <2>1. \A p \in DOMAIN Predicates : E!Options(p) \subseteq EvidenceTypes
    BY RegistryAssumption DEF E!Options
  <2>2. E!Established(c, KindOf(c), unknown) = {}
    BY <2>1 DEF E!Established
  <2> HIDE DEF unknown
  <2>3. QED  BY <2>2, EngineKind, EnginePlan
<1> HIDE DEF required, unknown
<1>5. entry(c, unknown, DefaultAudience) = Asking(f, c)
  BY <1>4, EngineKind DEF entry, Asking
<1>6. /\ DOMAIN store' = DOMAIN store \cup {f} /\ store'[f] = Asking(f, c)
      /\ \A g \in DOMAIN store : g # f => store'[g] = store[g]
  <2>1. store' = E!Put(store, f, Asking(f, c))
    BY <1>3, <1>5
  <2> DEFINE ch == Asking(f, c)
  <2> HIDE DEF ch
  <2>2. store' = E!Put(store, f, ch)
    BY <2>1 DEF ch
  <2>3. /\ DOMAIN E!Put(store, f, ch) = DOMAIN store \cup {f}
        /\ E!Put(store, f, ch)[f] = ch
        /\ \A x \in DOMAIN store : x # f => E!Put(store, f, ch)[x] = store[x]
    BY DEF E!Put
  <2>4. /\ DOMAIN store' = DOMAIN store \cup {f} /\ store'[f] = ch
        /\ \A g \in DOMAIN store : g # f => store'[g] = store[g]
    BY <2>2, <2>3
  <2>5. QED  BY <2>4 DEF ch
<1>7. c = flows[f].canonical
  BY <1>1, <1>6, AskingFields
<1>8. QED  BY <1>1, <1>6, <1>7

LEMMA KeepAsk ==
  ASSUME JourneyInv, TypeInv, TypeInv', CredentialsStay, FlowShape', CallsServe',
         NEW f \in Flows, Ask(f)
  PROVE  JourneyInv'
<1>1. /\ FlowOk(f) /\ SentOk(f) /\ ReadOk(f) /\ StoreOk(f) /\ FlowShape
      /\ flows[f].stage = "issuing"
  BY DEF JourneyInv, Ask
<1>2. /\ flows'[f].stage = "asked" /\ flows'[f].canonical = flows[f].canonical
      /\ flows'[f].challenge = store'[f] /\ flows'[f].epoch = engineEpoch
      /\ flows'[f].sent = flows[f].sent /\ flows'[f].told = flows[f].told
      /\ flows'[f].audit = flows[f].audit
      /\ \A g \in Flows : g # f => flows'[g] = flows[g]
  <2>1. Moves(f, "asked", flows[f].canonical, store'[f], engineEpoch, flows[f].sent,
              flows[f].told, flows[f].audit)
    BY <1>1, AskMoves
  <2>2. QED  BY <2>1 DEF Moves
<1>3. /\ f \notin issued /\ issued' = issued \cup {f}
      /\ UNCHANGED <<walletVars, pid, handlers, audits>>
      /\ DOMAIN store' = DOMAIN store \cup {f}
      /\ \A g \in DOMAIN store : g # f => store'[g] = store[g]
      /\ store'[f] = Asking(f, flows[f].canonical)
  BY AskPlans
<1>4. /\ DOMAIN store'[f] = ChallengeFields
      /\ store'[f].requestId = f /\ store'[f].nonce = f
      /\ store'[f].audience = DefaultAudience
      /\ store'[f].canonical = flows[f].canonical
      /\ store'[f].kind = KindOf(flows[f].canonical)
      /\ store'[f].required
           = BuildPlan(flows[f].canonical, KindOf(flows[f].canonical), {}).requiredEvidence
      /\ store'[f].consumed = FALSE
  BY <1>3, AskingFields
<1>5. /\ engineEpoch' = engineEpoch /\ engineEpoch \in Nat /\ engineEpoch <= engineEpoch
      /\ pid' = pid /\ handlers' = handlers /\ audits' = audits
  BY <1>3 DEF walletVars, vars, TypeInv
<1>6. QuietFlows /\ QuietHandlers /\ DoneStay
  BY <1>2, <1>3, <1>5, QuietDone DEF QuietFlows, QuietHandlers, GoesOn
<1>7. flows[f].sent = << >> /\ flows[f].audit = << >>
  BY <1>1, <1>3 DEF FlowOk, ReadOk
<1>8. ASSUME NEW g \in Flows, g # f
      PROVE  (FlowOk(g) /\ SentOk(g) /\ StoreOk(g) /\ ReadOk(g))'
  <2>1. FlowOk(g) /\ SentOk(g) /\ StoreOk(g) /\ ReadOk(g)
    BY DEF JourneyInv
  <2>2. (g \in issued' <=> g \in issued) /\ flows'[g] = flows[g]
    BY <1>2, <1>3, <1>8
  <2>3. FlowOk(g)' /\ SentOk(g)' /\ ReadOk(g)'
    BY <1>5, <1>6, <2>1, <2>2, FlowKept
  <2>4. (g \in DOMAIN store' <=> g \in DOMAIN store) /\ (g \in DOMAIN store => store'[g] = store[g])
    BY <1>3, <1>8
  <2>5. StoreOk(g)'
    BY <1>5, <2>1, <2>2, <2>4 DEF StoreOk
  <2>6. QED  BY <2>3, <2>5
<1>9. FlowOk(f)'
  BY <1>1, <1>2, <1>3, <1>4, <1>5, <1>7 DEF FlowOk
<1>10. SentOk(f)' /\ ReadOk(f)'
  BY <1>2, <1>7 DEF SentOk, ReadOk
<1>11. StoreOk(f)'
  BY <1>2, <1>3, <1>4, <1>5, <1>7 DEF StoreOk, SameChallenge
<1>12. \A s \in DOMAIN handlers' : HandlerOk(s)'
  BY <1>5, <1>6, HandlersKept
<1>13. LogOk'
  BY <1>5 DEF JourneyInv, LogOk
<1>14. DOMAIN store' \subseteq Flows /\ pid' \in Pids
  BY <1>3, <1>5 DEF JourneyInv
<1>15. \A g \in Flows : (FlowOk(g) /\ SentOk(g) /\ StoreOk(g) /\ ReadOk(g))'
  BY <1>8, <1>9, <1>10, <1>11
<1>16. QED  BY <1>12, <1>13, <1>14, <1>15 DEF JourneyInv

-----------------------------------------------------------------------------
(***************************************************************************)
(* The submission.                                                         *)
(***************************************************************************)

\* A handler that has just started, for what the flow submits.
Started(f, vp) ==
  [stage |-> "peek", request |-> f, at |-> clock, evalTime |-> clock, vp |-> vp,
   epoch |-> engineEpoch, challenge |-> NoChallenge,
   failed |-> "NONE", result |-> "NONE", answer |-> "NONE"]

LEMMA StartedFields ==
  \A f, vp :
    /\ DOMAIN Started(f, vp) = HandlerFields
    /\ Started(f, vp).stage = "peek" /\ Started(f, vp).request = f
    /\ Started(f, vp).at = clock /\ Started(f, vp).evalTime = clock
    /\ Started(f, vp).vp = vp /\ Started(f, vp).epoch = engineEpoch
    /\ Started(f, vp).failed = "NONE" /\ Started(f, vp).result = "NONE"
    /\ Started(f, vp).answer = "NONE"
BY DEF Started, HandlerFields

\* Once more submitted: the flow, its handler, and what neither touches.
LEMMA SubmitStarts ==
  ASSUME NEW f \in Flows, Submit(f), FlowShape, FlowOk(f)
  PROVE  LET m == Len(flows[f].sent) + 1
         IN /\ m \in Nat /\ m = Len(flows'[f].sent) /\ flows'[f].sent \in Seq(Alterations)
            /\ Len(flows[f].sent) \in Nat /\ flows'[f].sent # << >>
            /\ \A n \in 1..(m - 1) : flows'[f].sent[n] = flows[f].sent[n]
            /\ <<f, m>> \notin DOMAIN handlers
            /\ DOMAIN handlers' = DOMAIN handlers \cup {<<f, m>>}
            /\ \A s \in DOMAIN handlers : handlers'[s] = handlers[s]
            /\ handlers'[<<f, m>>] =
                 Started(f, ReadVp(Altered(flows'[f].sent[m], pid, CredentialOf(f),
                                              flows[f].challenge)))
            /\ UNCHANGED <<engineEpoch, issued, store, audits>>
            /\ \A g \in Flows \ {f} : flows'[g] = flows[g]
            /\ flows'[f].stage = "submitted" /\ flows'[f].canonical = flows[f].canonical
            /\ flows'[f].challenge = flows[f].challenge /\ flows'[f].epoch = flows[f].epoch
            /\ flows'[f].told = flows[f].told /\ flows'[f].audit = flows[f].audit
<1> DEFINE sent == flows[f].sent
           m == Len(sent) + 1
           vp(how) == ReadVp(Altered(how, pid, CredentialOf(f), flows[f].challenge))
<1>1. PICK how \in Sendable[f][m] :
        /\ Moves(f, "submitted", flows[f].canonical, flows[f].challenge, flows[f].epoch,
                 Append(sent, how), flows[f].told, flows[f].audit)
        /\ E!Start(<<f, Len(Append(sent, how))>>, f, vp(how), clock)
  BY SubmitMoves
<1>2. m \in DOMAIN Sendable[f]
  <2>1. Sendable[f] \in Seq(SUBSET Alterations)
    BY JourneyAssumption
  <2>2. sent \in Seq(Alterations) /\ Len(sent) < Len(Sendable[f])
    BY DEF FlowOk, Submit
  <2>3. QED  BY <2>1, <2>2
<1>3. how \in Alterations
  BY <1>2, JourneyAssumption
<1>4. sent \in Seq(Alterations)
  BY DEF FlowOk
<1> HIDE DEF sent
<1>5. /\ Append(sent, how) \in Seq(Alterations) /\ Len(Append(sent, how)) = m
      /\ Len(sent) \in Nat /\ m \in Nat /\ Append(sent, how) # << >>
      /\ Append(sent, how)[m] = how
      /\ \A n \in 1..(m - 1) : Append(sent, how)[n] = sent[n]
  BY <1>3, <1>4
<1> HIDE DEF vp
<1>6. E!Start(<<f, m>>, f, vp(how), clock)
  BY <1>1, <1>5
<1> HIDE DEF m
<1>7. /\ <<f, m>> \notin DOMAIN handlers
      /\ handlers' = E!Put(handlers, <<f, m>>, Started(f, vp(how)))
      /\ UNCHANGED <<engineEpoch, issued, store, audits>>
  BY <1>6 DEF E!Start, Started
<1> DEFINE h == Started(f, vp(how))
           s == <<f, m>>
<1> HIDE DEF h, s
<1>8. /\ DOMAIN handlers' = DOMAIN handlers \cup {s} /\ handlers'[s] = h
      /\ \A t \in DOMAIN handlers : t # s => handlers'[t] = handlers[t]
  BY <1>7 DEF E!Put, h, s
<1>9. flows'[f].sent = Append(sent, how)
  BY <1>1 DEF Moves
<1>10. handlers'[<<f, m>>] = Started(f, vp(flows'[f].sent[m]))
  BY <1>5, <1>8, <1>9 DEF h, s
<1>11. /\ <<f, m>> \notin DOMAIN handlers
       /\ DOMAIN handlers' = DOMAIN handlers \cup {<<f, m>>}
       /\ \A t \in DOMAIN handlers : handlers'[t] = handlers[t]
  BY <1>7, <1>8 DEF s
<1>12. /\ \A g \in Flows \ {f} : flows'[g] = flows[g]
       /\ flows'[f].stage = "submitted" /\ flows'[f].canonical = flows[f].canonical
       /\ flows'[f].challenge = flows[f].challenge /\ flows'[f].epoch = flows[f].epoch
       /\ flows'[f].told = flows[f].told /\ flows'[f].audit = flows[f].audit
  BY <1>1 DEF Moves
<1>13. QED  BY <1>5, <1>7, <1>9, <1>10, <1>11, <1>12 DEF m, sent, vp

LEMMA KeepSubmit ==
  ASSUME JourneyInv, TypeInv, TypeInv', CredentialsStay, FlowShape', CallsServe',
         NEW f \in Flows, Submit(f)
  PROVE  JourneyInv'
<1> PICK m : m = Len(flows[f].sent) + 1
  OBVIOUS
<1> DEFINE s == <<f, m>>
<1>1. /\ FlowOk(f) /\ SentOk(f) /\ ReadOk(f) /\ StoreOk(f) /\ FlowShape
      /\ UNCHANGED <<pid, vars>>
  BY DEF JourneyInv, Submit, walletVars
<1>2. /\ m \in Nat /\ m = Len(flows'[f].sent) /\ flows'[f].sent \in Seq(Alterations)
      /\ Len(flows[f].sent) \in Nat /\ flows'[f].sent # << >>
      /\ \A n \in 1..(m - 1) : flows'[f].sent[n] = flows[f].sent[n]
      /\ s \notin DOMAIN handlers
      /\ DOMAIN handlers' = DOMAIN handlers \cup {s}
      /\ \A t \in DOMAIN handlers : handlers'[t] = handlers[t]
      /\ UNCHANGED <<engineEpoch, issued, store, audits>>
      /\ \A g \in Flows \ {f} : flows'[g] = flows[g]
  BY <1>1, SubmitStarts
<1>3. /\ flows'[f].stage = "submitted" /\ flows'[f].canonical = flows[f].canonical
      /\ flows'[f].challenge = flows[f].challenge /\ flows'[f].epoch = flows[f].epoch
      /\ flows'[f].told = flows[f].told /\ flows'[f].audit = flows[f].audit
  BY <1>1, SubmitStarts
<1> DEFINE h == handlers'[s]
<1>4. h = Started(f, ReadVp(Altered(flows'[f].sent[m], pid, CredentialOf(f),
                                    flows[f].challenge)))
  BY <1>1, SubmitStarts
<1>5. /\ flows[f].stage \in {"presenting", "answered"}
      /\ flows[f].stage = "presenting" => WalletAnswered(f, "present")
  BY DEF Submit
<1>6. f \in issued /\ WalletAnswered(f, "present") /\ WalletAnswered(f, "present")'
      /\ CredentialOf(f)' = CredentialOf(f)
  <2>1. f \in issued /\ WalletAnswered(f, "present")
    BY <1>1, <1>5 DEF FlowOk
  <2>2. QED  BY <2>1 DEF CredentialsStay
<1>7. h.vp = Carried(s)'
  <2>1. Carried(s)' = ReadVp(Altered(flows'[f].sent[m], pid', CredentialOf(f)',
                                     flows'[f].challenge))
    BY DEF Carried, How
  <2>2. pid' = pid
    BY <1>1
  <2> DEFINE vp == ReadVp(Altered(flows'[f].sent[m], pid, CredentialOf(f), flows[f].challenge))
  <2>3. Carried(s)' = vp
    BY <1>3, <1>6, <2>1, <2>2
  <2> HIDE DEF vp
  <2>4. h = Started(f, vp)
    BY <1>4 DEF vp
  <2>5. QED  BY <2>3, <2>4, StartedFields
<1>8. /\ DOMAIN h = HandlerFields
      /\ h.stage = "peek" /\ h.request = f /\ h.at = clock /\ h.evalTime = clock
      /\ h.epoch = engineEpoch /\ h.failed = "NONE" /\ h.result = "NONE" /\ h.answer = "NONE"
  BY <1>4, StartedFields
<1> HIDE DEF h
<1>9. engineEpoch \in Nat /\ engineEpoch <= engineEpoch /\ clock \in 0..MaxTime /\ m \in 1..m
  BY <1>2 DEF TypeInv
<1>10. HandlerOk(s)'
  <2>1. AnswerOk(s)'
    BY <1>8 DEF AnswerOk, E!Stages, h
  <2>2. flows[f].epoch <= engineEpoch
    BY <1>1, <1>6 DEF FlowOk
  <2> DEFINE g == handlers'[s]
  <2>3. /\ DOMAIN g = HandlerFields /\ g.request = f /\ g.vp = Carried(s)'
        /\ g.at = g.evalTime /\ g.at \in 0..MaxTime
        /\ g.epoch \in Nat /\ flows'[f].epoch <= g.epoch /\ g.epoch <= engineEpoch'
        /\ g.epoch = engineEpoch'
    BY <1>2, <1>3, <1>7, <1>8, <1>9, <2>2 DEF h
  <2>4. s \in Flows \X Nat /\ s[1] = f /\ s[2] \in 1..Len(flows'[f].sent)
    BY <1>2, <1>9
  <2> HIDE DEF g
  <2>5. QED  BY <2>1, <2>3, <2>4 DEF HandlerOk, g
<1>11. FlowsGoOn
  BY <1>2, <1>3 DEF FlowsGoOn
<1>12. DoneStay
  BY <1>2, ReportReads DEF DoneStay
<1>13. ASSUME NEW t \in DOMAIN handlers
       PROVE  HandlerOk(t)'
  <2>1. GoesOn(handlers[t], handlers'[t])
    BY <1>2 DEF GoesOn
  <2>2. \A n \in 1..(t[2] - 1) : handlers'[<<t[1], n>>].result = handlers[<<t[1], n>>].result
    BY <1>2, EarlierHandlers
  <2>3. QED  BY <1>1, <1>2, <1>9, <1>11, <2>1, <2>2, HandlerKept
<1>14. ASSUME NEW g \in Flows, g # f
       PROVE  (FlowOk(g) /\ SentOk(g) /\ StoreOk(g) /\ ReadOk(g))'
  <2>1. FlowOk(g) /\ SentOk(g) /\ StoreOk(g) /\ ReadOk(g)
    BY DEF JourneyInv
  <2>2. (g \in issued' <=> g \in issued) /\ flows'[g] = flows[g]
    BY <1>2, <1>14
  <2>3. FlowOk(g)' /\ SentOk(g)' /\ ReadOk(g)'
    BY <1>2, <1>9, <1>12, <2>1, <2>2, FlowKept
  <2>4. \A n \in 1..Len(flows[g].sent) : handlers'[<<g, n>>].result = handlers[<<g, n>>].result
    BY <1>2, <2>1 DEF SentOk
  <2>5. StoreOk(g)'
    BY <1>2, <2>1, <2>2, <2>4 DEF StoreOk
  <2>6. QED  BY <2>3, <2>5
<1>15. FlowOk(f)'
  BY <1>1, <1>2, <1>3, <1>6, <1>9 DEF FlowOk
<1>16. \A n \in 1..(m - 1) : <<f, n>> \in DOMAIN handlers /\ handlers[<<f, n>>].stage = "done"
  BY <1>1, <1>2, <1>5 DEF SentOk, FlowOk
<1>17. SentOk(f)'
  BY <1>2, <1>3, <1>16 DEF SentOk
<1>18. ReadOk(f)'
  BY <1>1, <1>3, <1>5 DEF ReadOk
<1>19. StoreOk(f)'
  <2>1. \A n \in 1..m : handlers'[<<f, n>>].result =
          IF n = m THEN "NONE" ELSE handlers[<<f, n>>].result
    BY <1>2, <1>8, <1>16 DEF h
  <2>2. 1..m = (1..Len(flows[f].sent)) \cup {m} /\ m \notin 1..Len(flows[f].sent)
    BY <1>2
  <2>3. (\E n \in 1..Len(flows'[f].sent) : handlers'[<<f, n>>].result = "OK")
          <=> \E n \in 1..Len(flows[f].sent) : handlers[<<f, n>>].result = "OK"
    BY <1>2, <2>1, <2>2, ZenonT(40)
  <2>4. QED  BY <1>1, <1>2, <1>3, <2>3 DEF StoreOk
<1>20. LogOk'
  <2>1. LogOk
    BY DEF JourneyInv
  <2>2. handlers'[s].stage = "peek" /\ s \notin DOMAIN audits
    BY <1>2, <1>8, <2>1 DEF h, LogOk
  <2>3. ASSUME NEW t \in DOMAIN audits
        PROVE  E!AuditOf(handlers'[t]) = E!AuditOf(handlers[t])
    <3>1. t \in DOMAIN handlers /\ handlers'[t] = handlers[t]
      BY <1>2, <2>1 DEF LogOk
    <3>2. QED  BY <3>1
  <2>4. QED  BY <1>2, <2>1, <2>2, <2>3 DEF LogOk
<1>21. DOMAIN store' \subseteq Flows /\ pid' \in Pids
  BY <1>1, <1>2 DEF JourneyInv
<1>22. \A g \in Flows : (FlowOk(g) /\ SentOk(g) /\ StoreOk(g) /\ ReadOk(g))'
  BY <1>14, <1>15, <1>17, <1>18, <1>19
<1>23. \A t \in DOMAIN handlers' : HandlerOk(t)'
  BY <1>2, <1>10, <1>13
<1>24. QED  BY <1>20, <1>21, <1>22, <1>23 DEF JourneyInv

-----------------------------------------------------------------------------
(***************************************************************************)
(* The handlers.                                                           *)
(***************************************************************************)

\* A step of one handler that is under way.
LEMMA OneHandler ==
  ASSUME JourneyInv, TypeInv, CredentialsStay, FlowShape', CallsServe',
         UNCHANGED <<walletVars, pid, flows, issued>>,
         NEW c \in DOMAIN handlers, handlers[c].stage # "done",
         DOMAIN handlers' = DOMAIN handlers,
         \A s \in DOMAIN handlers : s # c => handlers'[s] = handlers[s],
         HandlerOk(c)', \A f \in Flows : StoreOk(f)', DOMAIN store' \subseteq Flows, LogOk'
  PROVE  JourneyInv'
<1>1. /\ engineEpoch' = engineEpoch /\ engineEpoch \in Nat /\ engineEpoch <= engineEpoch
      /\ pid' = pid
  BY DEF walletVars, vars, TypeInv
<1>2. DoneStay
  <2>1. \A s \in DOMAIN handlers : handlers[s].stage = "done" => handlers'[s] = handlers[s]
    OBVIOUS
  <2>2. QED  BY <2>1 DEF DoneStay
<1>3. QuietFlows /\ FlowsGoOn
  BY QuietGoOn DEF QuietFlows
<1>4. ASSUME NEW f \in Flows
      PROVE  (FlowOk(f) /\ SentOk(f) /\ StoreOk(f) /\ ReadOk(f))'
  <2>1. FlowOk(f) /\ SentOk(f) /\ ReadOk(f)
    BY DEF JourneyInv
  <2>2. QED  BY <1>1, <1>2, <2>1, FlowKept
<1>5. ASSUME NEW s \in DOMAIN handlers, s # c
      PROVE  HandlerOk(s)'
  <2>1. GoesOn(handlers[s], handlers'[s])
    BY <1>5 DEF GoesOn
  <2>2. \A n \in 1..(s[2] - 1) : handlers'[<<s[1], n>>] = handlers[<<s[1], n>>]
    BY EarlierHandlers
  <2>3. QED  BY <1>1, <1>3, <2>1, <2>2, HandlerKept
<1>6. QED  BY <1>1, <1>4, <1>5 DEF JourneyInv

\* A handler under way, with its flow.
LEMMA UnderWay ==
  ASSUME JourneyInv, NEW c \in DOMAIN handlers, handlers[c].stage \notin {"done", "lost"}
  PROVE  LET f == c[1]
         IN /\ f \in Flows /\ c = <<f, Len(flows[f].sent)>> /\ c = <<f, c[2]>>
            /\ c[2] \in Nat /\ c[2] = Len(flows[f].sent)
            /\ FlowOk(f) /\ SentOk(f) /\ StoreOk(f) /\ HandlerOk(c)
            /\ f \in issued /\ handlers[c].request = f /\ handlers[c].epoch = engineEpoch
            /\ f \in DOMAIN store <=> ~EngineForgot(c)
<1> DEFINE f == c[1]
<1>1. HandlerOk(c) /\ f \in Flows /\ c \in Flows \X Nat /\ c[2] \in 1..Len(flows[f].sent)
  BY DEF JourneyInv, HandlerOk
<1>2. FlowOk(f) /\ SentOk(f) /\ StoreOk(f)
  BY <1>1 DEF JourneyInv
<1>3. c = <<f, c[2]>>
  BY <1>1
<1>4. c[2] = Len(flows[f].sent)
  BY <1>1, <1>2, <1>3 DEF SentOk, FlowOk
<1>5. handlers[c].request = f /\ handlers[c].epoch = engineEpoch
  BY <1>1 DEF HandlerOk
<1>6. f \in issued
  BY <1>1, <1>2 DEF FlowOk
<1>7. f \in DOMAIN store <=> ~EngineForgot(c)
  BY <1>2, <1>5, <1>6 DEF StoreOk, EngineForgot
<1>8. QED  BY <1>1, <1>2, <1>3, <1>4, <1>5, <1>6, <1>7

\* The record is written, and the answer goes out.
LEMMA KeepSent ==
  ASSUME JourneyInv, TypeInv, CredentialsStay, FlowShape', CallsServe',
         UNCHANGED <<walletVars, pid, flows>>,
         NEW c \in DOMAIN handlers, E!Record(c) \/ E!Reply(c)
  PROVE  JourneyInv'
<1> DEFINE h == handlers[c]
           g == handlers'[c]
<1>1. /\ UNCHANGED <<engineEpoch, issued, store>>
      /\ \/ h.stage = "record" /\ handlers' = [handlers EXCEPT ![c].stage = "reply"]
            /\ audits' = E!Put(audits, c, E!AuditOf(h))
         \/ h.stage = "reply" /\ handlers' = [handlers EXCEPT ![c].stage = "done"]
            /\ audits' = audits
  BY DEF E!Record, E!Reply
<1>2. /\ HandlerOk(c) /\ DOMAIN h = HandlerFields /\ h.stage \notin {"done", "lost"}
      /\ h.epoch = engineEpoch
  BY <1>1, UnderWay DEF HandlerOk
<1>3. /\ DOMAIN handlers' = DOMAIN handlers
      /\ \A s \in DOMAIN handlers : s # c => handlers'[s] = handlers[s]
  BY <1>1
<1>4. GoesOn(h, g) /\ g.stage = IF h.stage = "record" THEN "reply" ELSE "done"
  <2>1. CASE h.stage = "record" /\ handlers' = [handlers EXCEPT ![c].stage = "reply"]
    BY <1>2, <2>1 DEF GoesOn, HandlerFields
  <2>2. CASE h.stage = "reply" /\ handlers' = [handlers EXCEPT ![c].stage = "done"]
    BY <1>2, <2>2 DEF GoesOn, HandlerFields
  <2>3. QED  BY <1>1, <2>1, <2>2
<1>5. /\ engineEpoch' = engineEpoch /\ engineEpoch \in Nat /\ engineEpoch <= engineEpoch
      /\ pid' = pid
  BY <1>1 DEF TypeInv
<1>6. QuietFlows /\ FlowsGoOn
  BY QuietGoOn DEF QuietFlows
<1>7. \A s \in DOMAIN handlers : handlers'[s].result = handlers[s].result
  BY <1>3, <1>4 DEF GoesOn
<1>8. HandlerOk(c)'
  <2>1. \A n \in 1..(c[2] - 1) : handlers'[<<c[1], n>>].result = handlers[<<c[1], n>>].result
    BY <1>7, EarlierHandlers
  <2>2. QED  BY <1>4, <1>5, <1>6, <2>1, HandlerKept
<1>9. ASSUME NEW f \in Flows
      PROVE  StoreOk(f)'
  <2>1. StoreOk(f) /\ SentOk(f)
    BY DEF JourneyInv
  <2>2. \A n \in 1..Len(flows[f].sent) : handlers'[<<f, n>>].result = handlers[<<f, n>>].result
    BY <1>7, <2>1 DEF SentOk
  <2>3. QED  BY <1>1, <1>5, <1>6, <2>1, <2>2, StoreKept
<1>10. LogOk'
  <2>1. LogOk
    BY DEF JourneyInv
  <2>2. E!AuditOf(g) = E!AuditOf(h)
    BY <1>4, ReportReads DEF GoesOn
  <2>3. \A s \in DOMAIN handlers : E!AuditOf(handlers'[s]) = E!AuditOf(handlers[s])
    BY <1>3, <2>2
  <2>4. CASE h.stage = "record"
    <3>1. c \notin DOMAIN audits
      BY <2>1, <2>4 DEF LogOk
    <3>2. /\ DOMAIN audits' = DOMAIN audits \cup {c} /\ audits'[c] = E!AuditOf(h)
          /\ \A s \in DOMAIN audits : s # c => audits'[s] = audits[s]
      <4>1. audits' = E!Put(audits, c, E!AuditOf(h))
        BY <1>1, <2>4
      <4> DEFINE a == E!AuditOf(h)
      <4> HIDE DEF a
      <4>2. audits' = E!Put(audits, c, a)
        BY <4>1 DEF a
      <4>3. QED  BY <4>2 DEF E!Put, a
    <3>3. /\ g.stage = "reply" /\ g.epoch = engineEpoch /\ audits'[c] = E!AuditOf(g)
      BY <1>2, <1>4, <2>2, <2>4, <3>2 DEF GoesOn
    <3> HIDE DEF h, g
    <3>4. ASSUME NEW s \in DOMAIN audits'
          PROVE  /\ s \in DOMAIN handlers' /\ handlers'[s].epoch = engineEpoch'
                 /\ handlers'[s].stage \in {"reply", "done"}
                 /\ audits'[s] = E!AuditOf(handlers'[s])
      <4>1. CASE s = c
        BY <1>3, <1>5, <3>3, <4>1 DEF g
      <4>2. CASE s # c
        BY <1>3, <1>5, <2>1, <3>2, <4>2 DEF LogOk
      <4>3. QED  BY <4>1, <4>2
    <3>5. \A s \in DOMAIN handlers' :
            /\ handlers'[s].stage \in {"reply", "done"} /\ handlers'[s].epoch = engineEpoch'
            /\ handlers'[s].answer \in Decisions
            => s \in DOMAIN audits'
      BY <1>3, <1>5, <2>1, <3>2 DEF LogOk
    <3>6. QED  BY <3>4, <3>5 DEF LogOk
  <2>5. CASE h.stage = "reply"
    <3>1. audits' = audits
      BY <1>1, <2>5
    <3>2. /\ handlers[c].stage \in {"reply", "done"} /\ handlers'[c].stage \in {"reply", "done"}
          /\ handlers'[c].epoch = handlers[c].epoch /\ handlers'[c].answer = handlers[c].answer
      BY <1>4, <2>5 DEF GoesOn
    <3> HIDE DEF h, g
    <3>3. QED  BY <1>3, <1>5, <2>1, <2>3, <3>1, <3>2 DEF LogOk
  <2>6. QED  BY <1>1, <2>4, <2>5
<1>11. DOMAIN store' \subseteq Flows
  BY <1>1 DEF JourneyInv
<1> HIDE DEF h, g
<1>12. QED  BY <1>1, <1>2, <1>3, <1>8, <1>9, <1>10, <1>11, OneHandler DEF h

\* The rest of a handler's record, whatever it finds out.
SameCall(h, g) ==
  /\ DOMAIN g = HandlerFields
  /\ g.request = h.request /\ g.at = h.at /\ g.evalTime = h.evalTime /\ g.vp = h.vp
  /\ g.epoch = h.epoch

\* What a handler serves does not change while it works on it.
LEMMA SameCallKept ==
  ASSUME JourneyInv, TypeInv, CredentialsStay, UNCHANGED <<walletVars, pid, flows>>,
         NEW c \in DOMAIN handlers, handlers[c].stage \notin {"done", "lost"},
         SameCall(handlers[c], handlers'[c]), AnswerOk(c)'
  PROVE  HandlerOk(c)'
<1> DEFINE h == handlers[c]
           g == handlers'[c]
           f == c[1]
<1>1. /\ f \in Flows /\ FlowOk(f) /\ HandlerOk(c) /\ h.epoch = engineEpoch
      /\ flows[f].sent # << >>
  BY UnderWay DEF HandlerOk
<1>2. /\ WalletAnswered(f, "present")
      /\ CredentialOf(f)' = CredentialOf(f) /\ flows' = flows /\ pid' = pid
      /\ engineEpoch' = engineEpoch
  BY <1>1 DEF FlowOk, CredentialsStay, walletVars, vars
<1>3. Carried(c)' = Carried(c)
  BY <1>2, CarriedStays DEF How
<1>4. /\ DOMAIN g = HandlerFields /\ g.request = h.request /\ g.vp = h.vp /\ g.at = h.at
      /\ g.evalTime = h.evalTime /\ g.epoch = h.epoch
  BY DEF SameCall
<1> HIDE DEF h, g
<1>5. QED  BY <1>1, <1>2, <1>3, <1>4 DEF HandlerOk, h, g

\* The request is unknown, a check fails, or the handler goes on to consume.
LEMMA PeekMoves ==
  ASSUME NEW c \in DOMAIN handlers, DOMAIN handlers[c] = HandlerFields, E!Peek(c)
  PROVE  LET h == handlers[c]
             g == handlers'[c]
             failed == FailedCheck(h.vp, engineEpoch, store[h.request], h.evalTime)
         IN /\ DOMAIN handlers' = DOMAIN handlers
            /\ \A s \in DOMAIN handlers : s # c => handlers'[s] = handlers[s]
            /\ SameCall(h, g) /\ g.result = h.result
            /\ h.request \notin DOMAIN store =>
                 /\ g.stage = "reply" /\ g.answer = "UNKNOWN_REQUEST" /\ g.failed = h.failed
            /\ h.request \in DOMAIN store =>
                 /\ g.challenge = store[h.request] /\ g.failed = failed
                 /\ failed = "NONE" => g.stage = "consume" /\ g.answer = "NONE"
                 /\ failed # "NONE" => g.stage = "record" /\ g.answer = "DENY"
<1> DEFINE h == handlers[c]
           g == handlers'[c]
           ch == store[h.request]
           failed == FailedCheck(h.vp, engineEpoch, ch, h.evalTime)
<1>1. CASE h.request \notin DOMAIN store
  <2>1. handlers' = [handlers EXCEPT ![c].stage = "reply", ![c].answer = "UNKNOWN_REQUEST"]
    BY <1>1 DEF E!Peek
  <2>2. QED  BY <1>1, <2>1 DEF HandlerFields, SameCall
<1>2. CASE h.request \in DOMAIN store
  <2>1. failed = E!FailedCheck(h.vp, engineEpoch, ch, h.evalTime)
    BY EngineChecks
  <2> HIDE DEF failed
  <2>2. handlers' = [handlers EXCEPT
          ![c].challenge = ch, ![c].failed = failed,
          ![c].stage  = IF failed = "NONE" THEN "consume" ELSE "record",
          ![c].answer = IF failed = "NONE" THEN "NONE" ELSE "DENY"]
    BY <1>2, <2>1 DEF E!Peek
  <2> HIDE DEF ch
  <2>3. /\ DOMAIN handlers' = DOMAIN handlers
        /\ \A s \in DOMAIN handlers : s # c => handlers'[s] = handlers[s]
        /\ SameCall(h, g) /\ g.result = h.result /\ g.challenge = ch /\ g.failed = failed
        /\ failed = "NONE" => g.stage = "consume" /\ g.answer = "NONE"
        /\ failed # "NONE" => g.stage = "record" /\ g.answer = "DENY"
    BY <2>2 DEF HandlerFields, SameCall
  <2>4. QED  BY <1>2, <2>3 DEF ch, failed
<1>3. QED  BY <1>1, <1>2

LEMMA KeepPeek ==
  ASSUME JourneyInv, TypeInv, CredentialsStay, FlowShape', CallsServe',
         UNCHANGED <<walletVars, pid, flows>>,
         NEW c \in DOMAIN handlers, E!Peek(c)
  PROVE  JourneyInv'
<1> DEFINE f == c[1]
           h == handlers[c]
           g == handlers'[c]
           failed == FailedCheck(h.vp, engineEpoch, store[f], h.evalTime)
<1>1. h.stage = "peek" /\ UNCHANGED <<engineEpoch, issued, store, audits>> /\ flows' = flows
  BY DEF E!Peek
<1>2. /\ f \in Flows /\ HandlerOk(c) /\ StoreOk(f) /\ h.request = f /\ h.epoch = engineEpoch
      /\ DOMAIN h = HandlerFields /\ (f \in DOMAIN store <=> ~EngineForgot(c))
  BY <1>1, UnderWay DEF HandlerOk
<1>3. /\ DOMAIN handlers' = DOMAIN handlers
      /\ \A s \in DOMAIN handlers : s # c => handlers'[s] = handlers[s]
      /\ SameCall(h, g) /\ g.result = h.result
      /\ f \notin DOMAIN store =>
           /\ g.stage = "reply" /\ g.answer = "UNKNOWN_REQUEST" /\ g.failed = h.failed
      /\ f \in DOMAIN store =>
           /\ g.challenge = store[f] /\ g.failed = failed
           /\ failed = "NONE" => g.stage = "consume" /\ g.answer = "NONE"
           /\ failed # "NONE" => g.stage = "record" /\ g.answer = "DENY"
  BY <1>2, PeekMoves
<1>4. h.answer = "NONE" /\ h.failed = "NONE" /\ h.result = "NONE"
  BY <1>1, <1>2 DEF HandlerOk, AnswerOk
<1>5. EngineForgot(c)' <=> EngineForgot(c)
  BY <1>1, <1>3 DEF EngineForgot, SameCall
<1>6. f \in DOMAIN store =>
        /\ SameChallenge(store[f], flows[f].challenge)
        /\ failed = FailedCheck(h.vp, engineEpoch, flows[f].challenge, h.evalTime)
  BY <1>2 DEF StoreOk, SameChallenge, FailedCheck
<1> HIDE DEF failed
<1>7. f \in DOMAIN store => Checked(c)'
  <2>1. /\ g.epoch = engineEpoch /\ g.vp = h.vp /\ g.evalTime = h.evalTime
    BY <1>2, <1>3 DEF SameCall
  <2>2. f \in DOMAIN store =>
          /\ SameChallenge(g.challenge, flows[f].challenge)
          /\ g.failed = FailedCheck(g.vp, g.epoch, flows[f].challenge, g.evalTime)
    BY <1>3, <1>6, <2>1
  <2>3. QED  BY <1>1, <1>2, <1>5, <2>2 DEF Checked
<1>8. AnswerOk(c)'
  <2> HIDE DEF h, g
  <2>1. CASE f \notin DOMAIN store
    BY <1>2, <1>3, <1>4, <1>5, <2>1 DEF AnswerOk, E!Stages, Answers, E!ErrorCodes, g
  <2>2. CASE f \in DOMAIN store /\ failed = "NONE"
    BY <1>2, <1>3, <1>4, <1>5, <1>7, <2>2 DEF AnswerOk, E!Stages, Answers, g
  <2>3. CASE f \in DOMAIN store /\ failed # "NONE"
    BY <1>2, <1>3, <1>4, <1>5, <1>7, <2>3 DEF AnswerOk, E!Stages, Answers, Decisions, g
  <2>4. QED  BY <2>1, <2>2, <2>3
<1>9. HandlerOk(c)'
  BY <1>1, <1>3, <1>8, SameCallKept
<1>10. \A s \in DOMAIN handlers : handlers'[s].result = handlers[s].result
  BY <1>3
<1>11. ASSUME NEW k \in Flows
       PROVE  StoreOk(k)'
  <2>1. StoreOk(k) /\ SentOk(k)
    BY DEF JourneyInv
  <2>2. \A n \in 1..Len(flows[k].sent) : handlers'[<<k, n>>].result = handlers[<<k, n>>].result
    BY <1>10, <2>1 DEF SentOk
  <2>3. QuietFlows
    BY DEF QuietFlows
  <2>4. QED  BY <1>1, <2>1, <2>2, <2>3, StoreKept
<1>12. LogOk'
  <2>1. LogOk
    BY DEF JourneyInv
  <2>2. c \notin DOMAIN audits
    BY <1>1, <2>1 DEF LogOk
  <2>3. ~(g.stage \in {"reply", "done"} /\ g.answer \in Decisions)
    BY <1>3 DEF Decisions
  <2>4. \A s \in DOMAIN audits : s \in DOMAIN handlers /\ handlers'[s] = handlers[s]
    BY <1>3, <2>1, <2>2 DEF LogOk
  <2>5. \A s \in DOMAIN audits : E!AuditOf(handlers'[s]) = E!AuditOf(handlers[s])
    BY <2>4
  <2> HIDE DEF h, g
  <2>6. QED  BY <1>1, <1>3, <2>1, <2>2, <2>3, <2>4, <2>5 DEF LogOk, g
<1>13. DOMAIN store' \subseteq Flows
  BY <1>1 DEF JourneyInv
<1> HIDE DEF h, g
<1>14. QED  BY <1>1, <1>3, <1>9, <1>11, <1>12, <1>13, OneHandler DEF h

LEMMA EngineDecides == \A h : E!VerifiedReport(h).decision \in {"ALLOW", "DENY", "UNKNOWN"}
<1> TAKE h
<1>1. \A S : E!Decide(S) \in {"ALLOW", "DENY", "UNKNOWN"}
  BY DEF E!Decide
<1>2. \A c, kind, ev, given :
        \E S : E!Report(c, kind, ev, given).decision = E!Decide(S)
  BY DEF E!Report
<1>3. \A c, kind, ev, given : E!Report(c, kind, ev, given).decision \in {"ALLOW", "DENY", "UNKNOWN"}
  BY <1>1, <1>2
<1>4. \E c, kind, ev, given : E!VerifiedReport(h) = E!Report(c, kind, ev, given)
  BY DEF E!VerifiedReport
<1>5. QED  BY <1>3, <1>4

LEMMA ConsumeMoves ==
  ASSUME NEW c \in DOMAIN handlers, DOMAIN handlers[c] = HandlerFields, E!Consume(c)
  PROVE  LET h == handlers[c]
             g == handlers'[c]
             result == E!NonceResult(h.request, h.vp.nonce, h.vp.audience, h.at)
         IN /\ DOMAIN handlers' = DOMAIN handlers
            /\ \A s \in DOMAIN handlers : s # c => handlers'[s] = handlers[s]
            /\ SameCall(h, g) /\ g.challenge = h.challenge /\ g.failed = h.failed
            /\ g.result = result /\ g.answer = E!AnswerTo(h, result)
            /\ g.stage = IF result \in {"OK", "NONCE_ALREADY_CONSUMED"} THEN "record" ELSE "reply"
            /\ store' = IF result = "OK" THEN [store EXCEPT ![h.request].consumed = TRUE] ELSE store
<1> DEFINE h == handlers[c]
           g == handlers'[c]
           result == E!NonceResult(h.request, h.vp.nonce, h.vp.audience, h.at)
           answer == E!AnswerTo(h, result)
<1>1. /\ handlers' = [handlers EXCEPT
           ![c].result = result, ![c].answer = answer,
           ![c].stage  = IF result \in {"OK", "NONCE_ALREADY_CONSUMED"} THEN "record" ELSE "reply"]
      /\ store' = IF result = "OK" THEN [store EXCEPT ![h.request].consumed = TRUE] ELSE store
  BY DEF E!Consume
<1> HIDE DEF answer, result
<1>2. /\ DOMAIN handlers' = DOMAIN handlers
      /\ \A s \in DOMAIN handlers : s # c => handlers'[s] = handlers[s]
      /\ SameCall(h, g) /\ g.challenge = h.challenge /\ g.failed = h.failed
      /\ g.result = result /\ g.answer = answer
      /\ g.stage = IF result \in {"OK", "NONCE_ALREADY_CONSUMED"} THEN "record" ELSE "reply"
  BY <1>1 DEF HandlerFields, SameCall
<1>3. QED  BY <1>1, <1>2 DEF answer, result

\* What the store says of a presentation that has passed the checks.
LEMMA ConsumeFinds ==
  ASSUME JourneyInv, NEW c \in DOMAIN handlers, handlers[c].stage = "consume"
  PROVE  LET h == handlers[c]
         IN /\ c[1] \in DOMAIN store /\ h.request = c[1] /\ h.failed = "NONE" /\ h.result = "NONE"
            /\ h.epoch = engineEpoch /\ ~EngineForgot(c) /\ Checked(c)
            /\ E!NonceResult(h.request, h.vp.nonce, h.vp.audience, h.at) = Refused(c)
            /\ store[c[1]].consumed <=> AlreadyTaken(c)
<1> DEFINE f == c[1]
           h == handlers[c]
           ch == flows[f].challenge
<1>1. /\ f \in Flows /\ c = <<f, c[2]>> /\ c[2] \in Nat /\ c[2] = Len(flows[f].sent)
      /\ FlowOk(f) /\ StoreOk(f) /\ HandlerOk(c) /\ f \in issued
      /\ h.request = f /\ h.epoch = engineEpoch /\ (f \in DOMAIN store <=> ~EngineForgot(c))
  BY UnderWay
<1>2. /\ ~EngineForgot(c) /\ Checked(c) /\ h.failed = "NONE" /\ h.result = "NONE"
  BY <1>1 DEF HandlerOk, AnswerOk, Checked
<1>3. /\ f \in DOMAIN store /\ store[f].requestId = f /\ store[f].nonce = ch.nonce
      /\ store[f].audience = ch.audience /\ store[f].expiresAt = ch.expiresAt
  BY <1>1, <1>2 DEF StoreOk, SameChallenge, FlowOk
<1>4. h.vp.audience = ch.audience /\ h.vp.nonce = ch.nonce
  BY <1>2 DEF Checked, FailedCheck
<1>5. store[f].consumed <=> AlreadyTaken(c)
  <2>1. \A n \in 1..Len(flows[f].sent) : n \in 1..(c[2] - 1) \/ <<f, n>> = c
    BY <1>1
  <2>2. 1..(c[2] - 1) \subseteq 1..Len(flows[f].sent)
    BY <1>1
  <2>3. (\E n \in 1..Len(flows[f].sent) : handlers[<<f, n>>].result = "OK") <=> AlreadyTaken(c)
    BY <1>2, <2>1, <2>2 DEF AlreadyTaken
  <2>4. QED  BY <1>1, <1>3, <2>3 DEF StoreOk
<1>6. E!NonceResult(h.request, h.vp.nonce, h.vp.audience, h.at) = Refused(c)
  BY <1>1, <1>3, <1>4, <1>5 DEF E!NonceResult, Refused, Late
<1>7. QED  BY <1>1, <1>2, <1>3, <1>5, <1>6

LEMMA KeepConsume ==
  ASSUME JourneyInv, TypeInv, CredentialsStay, FlowShape', CallsServe',
         UNCHANGED <<walletVars, pid, flows>>,
         NEW c \in DOMAIN handlers, E!Consume(c)
  PROVE  JourneyInv'
<1> DEFINE f == c[1]
           h == handlers[c]
           g == handlers'[c]
           result == Refused(c)
<1>1. h.stage = "consume" /\ UNCHANGED <<engineEpoch, issued, audits>> /\ flows' = flows
  BY DEF E!Consume
<1>2. /\ f \in Flows /\ c = <<f, c[2]>> /\ c[2] \in Nat /\ c[2] = Len(flows[f].sent)
      /\ HandlerOk(c) /\ StoreOk(f) /\ DOMAIN h = HandlerFields
  BY <1>1, UnderWay DEF HandlerOk
<1>3. /\ f \in DOMAIN store /\ h.request = f /\ h.failed = "NONE" /\ h.epoch = engineEpoch
      /\ ~EngineForgot(c) /\ Checked(c) /\ (store[f].consumed <=> AlreadyTaken(c))
  BY <1>1, ConsumeFinds
<1>4. /\ DOMAIN handlers' = DOMAIN handlers
      /\ \A s \in DOMAIN handlers : s # c => handlers'[s] = handlers[s]
      /\ SameCall(h, g) /\ g.challenge = h.challenge /\ g.failed = h.failed
      /\ g.result = result /\ g.answer = E!AnswerTo(h, result)
      /\ g.stage = IF result \in {"OK", "NONCE_ALREADY_CONSUMED"} THEN "record" ELSE "reply"
      /\ store' = IF result = "OK" THEN [store EXCEPT ![f].consumed = TRUE] ELSE store
  BY <1>1, <1>2, <1>3, ConsumeFinds, ConsumeMoves, ZenonT(40)
<1>5. result \in {"OK", "NONCE_ALREADY_CONSUMED", "EXPIRED_NONCE"}
  BY DEF Refused
<1>6. Refused(c)' = result
  <2>1. Late(c)' <=> Late(c)
    BY <1>1, <1>4 DEF Late, SameCall
  <2>2. \A n \in 1..(c[2] - 1) : handlers'[<<f, n>>] = handlers[<<f, n>>]
    BY <1>4, EarlierHandlers
  <2>3. AlreadyTaken(c)' <=> AlreadyTaken(c)
    BY <2>2 DEF AlreadyTaken
  <2>4. QED  BY <2>1, <2>3 DEF Refused
<1> HIDE DEF result
<1>7. g.answer = E!AnswerTo(g, result)
  BY <1>4, ReportReads DEF SameCall
<1>8. ~EngineForgot(c)' /\ Checked(c)'
  BY <1>1, <1>3, <1>4 DEF EngineForgot, Checked, SameCall
<1>9. /\ result = "OK" => g.answer \in {"ALLOW", "DENY", "UNKNOWN"}
      /\ result = "NONCE_ALREADY_CONSUMED" => g.answer = "REPLAY_DETECTED"
      /\ result = "EXPIRED_NONCE" => g.answer = "EXPIRED_NONCE"
  BY <1>4, EngineDecides DEF E!AnswerTo
<1>10. AnswerOk(c)'
  <2>1. g.failed = "NONE" /\ g.result = result /\ g.answer \in Answers /\ g.answer # "NONE"
    BY <1>3, <1>4, <1>5, <1>9 DEF Answers, Decisions, E!ErrorCodes
  <2>2. g.stage \in {"record", "reply"} /\ (g.stage = "record" => g.answer \in Decisions)
    BY <1>4, <1>5, <1>9 DEF Decisions
  <2> HIDE DEF h, g
  <2>3. QED  BY <1>6, <1>7, <1>8, <2>1, <2>2 DEF AnswerOk, E!Stages, g
<1>11. HandlerOk(c)'
  BY <1>1, <1>4, <1>10, SameCallKept
<1>12. ASSUME NEW k \in Flows
       PROVE  StoreOk(k)'
  <2>1. StoreOk(k) /\ SentOk(k)
    BY DEF JourneyInv
  <2>2. CASE k # f
    <3>1. \A n \in 1..Len(flows[k].sent) : handlers'[<<k, n>>].result = handlers[<<k, n>>].result
      BY <1>2, <1>4, <2>1, <2>2 DEF SentOk
    <3>2. QuietFlows
      BY DEF QuietFlows
    <3>3. (k \in DOMAIN store' <=> k \in DOMAIN store) /\ store'[k] = store[k]
      BY <1>4, <2>2
    <3>4. QED  BY <1>1, <2>1, <3>1, <3>2, <3>3, StoreKept
  <2>3. CASE k = f
    <3>1. DOMAIN store[f] = ChallengeFields /\ SameChallenge(store[f], flows[f].challenge)
      BY <1>2, <1>3 DEF StoreOk
    <3>2. /\ f \in DOMAIN store' /\ DOMAIN store'[f] = ChallengeFields
          /\ SameChallenge(store'[f], flows[f].challenge)
          /\ store'[f].consumed = IF result = "OK" THEN TRUE ELSE store[f].consumed
      BY <1>3, <1>4, <3>1 DEF ChallengeFields, SameChallenge
    <3>3. AlreadyTaken(c) <=> \E n \in 1..(c[2] - 1) : handlers'[<<f, n>>].result = "OK"
      BY <1>4, EarlierHandlers DEF AlreadyTaken
    <3>4. 1..Len(flows[f].sent) = (1..(c[2] - 1)) \cup {c[2]}
      <4>1. Len(flows[f].sent) # 0
        BY <1>2 DEF HandlerOk
      <4>2. QED  BY <1>2, <4>1
    <3>5. (\E n \in 1..Len(flows[f].sent) : handlers'[<<f, n>>].result = "OK")
            <=> AlreadyTaken(c) \/ result = "OK"
      BY <1>2, <1>4, <3>3, <3>4
    <3>6. f \in issued /\ flows[f].epoch = engineEpoch
      BY <1>2, <1>3 DEF StoreOk
    <3>7. QED  BY <1>1, <1>3, <2>3, <3>2, <3>5, <3>6 DEF StoreOk
  <2>4. QED  BY <2>2, <2>3
<1>13. LogOk'
  <2>1. LogOk
    BY DEF JourneyInv
  <2>2. c \notin DOMAIN audits
    BY <1>1, <2>1 DEF LogOk
  <2>3. ~(g.stage \in {"reply", "done"} /\ g.answer \in Decisions)
    BY <1>4, <1>5, <1>9 DEF Decisions
  <2>4. \A s \in DOMAIN audits : s \in DOMAIN handlers /\ handlers'[s] = handlers[s]
    BY <1>4, <2>1, <2>2 DEF LogOk
  <2>5. \A s \in DOMAIN audits : E!AuditOf(handlers'[s]) = E!AuditOf(handlers[s])
    BY <2>4
  <2> HIDE DEF h, g
  <2>6. QED  BY <1>1, <1>4, <2>1, <2>2, <2>3, <2>4, <2>5 DEF LogOk, g
<1>14. DOMAIN store' \subseteq Flows
  BY <1>4 DEF JourneyInv
<1> HIDE DEF h, g
<1>15. QED  BY <1>1, <1>4, <1>11, <1>12, <1>13, <1>14, OneHandler DEF h

-----------------------------------------------------------------------------
(***************************************************************************)
(* Restarts, the clock, other clients; and every step together.            *)
(***************************************************************************)

\* The store and the log are gone, and the handlers under way with them.
LEMMA KeepRestart ==
  ASSUME JourneyInv, TypeInv, TypeInv', CredentialsStay, FlowShape', CallsServe', EngineRestarts
  PROVE  JourneyInv'
<1>1. /\ engineEpoch' = engineEpoch + 1 /\ engineEpoch \in Nat
      /\ store' = << >> /\ audits' = << >> /\ UNCHANGED <<issued, pid, flows>>
      /\ handlers' = [c \in DOMAIN handlers |->
                        IF handlers[c].stage \in {"done", "lost"} THEN handlers[c]
                        ELSE [handlers[c] EXCEPT !.stage = "lost"]]
  BY DEF EngineRestarts, E!Restart, E!Ended, TypeInv
<1>2. engineEpoch' \in Nat /\ engineEpoch <= engineEpoch'
  BY <1>1
<1>3. DOMAIN handlers' = DOMAIN handlers
  BY <1>1
<1>4. ASSUME NEW s \in DOMAIN handlers
      PROVE  GoesOn(handlers[s], handlers'[s]) /\ handlers'[s].stage \in {"done", "lost"}
  <2>1. DOMAIN handlers[s] = HandlerFields
    BY DEF JourneyInv, HandlerOk
  <2>2. CASE handlers[s].stage \in {"done", "lost"}
    <3>1. handlers'[s] = handlers[s]
      BY <1>1, <2>2
    <3>2. QED  BY <2>2, <3>1 DEF GoesOn
  <2>3. CASE handlers[s].stage \notin {"done", "lost"}
    <3>1. handlers'[s] = [handlers[s] EXCEPT !.stage = "lost"]
      BY <1>1, <2>3
    <3>2. QED  BY <2>1, <2>3, <3>1 DEF GoesOn, HandlerFields
  <2>4. QED  BY <2>2, <2>3
<1>5. QuietHandlers /\ DoneStay
  BY <1>3, <1>4, QuietDone DEF QuietHandlers
<1>6. QuietFlows
  BY <1>1 DEF QuietFlows
<1>7. ASSUME NEW f \in Flows
      PROVE  (FlowOk(f) /\ SentOk(f) /\ StoreOk(f) /\ ReadOk(f))'
  <2>1. FlowOk(f) /\ SentOk(f) /\ StoreOk(f) /\ ReadOk(f)
    BY DEF JourneyInv
  <2>2. FlowOk(f)' /\ SentOk(f)' /\ ReadOk(f)'
    BY <1>1, <1>2, <1>5, <2>1, FlowKept
  <2>3. f \notin DOMAIN store'
    BY <1>1
  <2>4. ~(f \in issued' /\ flows'[f].epoch = engineEpoch')
    BY <1>1, <2>1 DEF FlowOk
  <2>5. QED  BY <2>2, <2>3, <2>4 DEF StoreOk
<1>8. \A s \in DOMAIN handlers' : HandlerOk(s)'
  BY <1>1, <1>2, <1>4, <1>5, <1>6, HandlersKept
<1>9. LogOk'
  <2>1. \A s \in DOMAIN handlers' : handlers'[s].epoch # engineEpoch'
    BY <1>1, <1>3, <1>4 DEF JourneyInv, HandlerOk, GoesOn
  <2>2. DOMAIN audits' = {}
    BY <1>1
  <2>3. QED  BY <2>1, <2>2 DEF LogOk
<1>10. DOMAIN store' \subseteq Flows /\ pid' \in Pids
  BY <1>1 DEF JourneyInv
<1>11. QED  BY <1>7, <1>8, <1>9, <1>10 DEF JourneyInv

\* What has no say in the flows and the engine.
LEMMA KeepRest ==
  ASSUME JourneyInv, TypeInv, TypeInv', CredentialsStay, FlowShape', CallsServe',
         UNCHANGED <<pid, flows, engineVars, engineEpoch>>
  PROVE  JourneyInv'
<1>1. QuietFlows
  BY DEF QuietFlows
<1>2. QED  BY <1>1, EngineIdle

LEMMA JourneyStep ==
  ASSUME JourneyInv, TypeInv, [JourneyNext]_journeyVars
  PROVE  JourneyInv'
<1>1. [Next]_vars /\ FlowShape'
  BY WalletStepOrNone, ShapeStep DEF JourneyInv
<1>2. TypeInv' /\ CredentialsStay
  BY <1>1, TypeStep, CredentialsKept
<1>3. CallsServe'
  BY ServeStep DEF JourneyInv
<1>4. ASSUME NEW f \in Flows, NEW x \in Asked, EnsureIssued(f, x)
      PROVE  JourneyInv'
  BY <1>1, <1>2, <1>3, <1>4, KeepEnsure
<1>5. ASSUME NEW f \in Flows, FlowStep(f)
      PROVE  JourneyInv'
  BY <1>1, <1>2, <1>3, <1>5, KeepAsk, KeepStage, KeepSubmit, KeepReadAnswer, KeepFetch
  DEF FlowStep
<1>6. ASSUME NEW c \in DOMAIN handlers, EngineStep(c)
      PROVE  JourneyInv'
  BY <1>1, <1>2, <1>3, <1>6, KeepPeek, KeepConsume, KeepSent DEF EngineStep, E!Handle
<1>7. CASE EngineRestarts
  BY <1>1, <1>2, <1>3, <1>7, KeepRestart
<1>8. ASSUME UNCHANGED <<pid, flows, engineVars, engineEpoch>>
      PROVE  JourneyInv'
  BY <1>1, <1>2, <1>3, <1>8, KeepRest
<1>9. ASSUME NEW c \in Others, OtherCall(c)
      PROVE  UNCHANGED <<pid, flows, engineVars, engineEpoch>>
  BY <1>9 DEF OtherCall, ReceiveIssue, Receive
<1>10. ASSUME NEW c \in Calls, WalletStep(c)
       PROVE  UNCHANGED <<pid, flows, engineVars, engineEpoch>>
  BY <1>10
  DEF WalletStep, Thread, Grant, Enter, Issued, IssueFails, StartListing, Decided, DecideFails
<1>11. CASE TimePasses
  BY <1>8, <1>11 DEF TimePasses, Tick, E!Tick, engineVars
<1>12. CASE ApiRestarts
  BY <1>8, <1>12 DEF ApiRestarts, RestartApi
<1>13. CASE UNCHANGED journeyVars
  BY <1>8, <1>13 DEF journeyVars, walletVars, vars
<1>14. QED
  BY <1>4, <1>5, <1>6, <1>7, <1>8, <1>9, <1>10, <1>11, <1>12, <1>13 DEF JourneyNext

LEMMA JourneyStart == JourneyInit => JourneyInv
<1> SUFFICES ASSUME JourneyInit
             PROVE  JourneyInv
  OBVIOUS
<1>1. /\ FlowShape /\ pid \in Pids /\ DOMAIN store = {} /\ DOMAIN handlers = {}
      /\ DOMAIN audits = {} /\ issued = {} /\ DOMAIN calls = {}
  BY ShapeInit DEF JourneyInit, Init, E!Init
<1>2. \A f \in Flows : flows[f].stage = "idle" /\ flows[f].sent = << >>
                       /\ flows[f].told = << >> /\ flows[f].audit = << >>
  BY DEF JourneyInit
<1>3. \A f \in Flows : FlowOk(f) /\ SentOk(f) /\ StoreOk(f) /\ ReadOk(f)
  <2> TAKE f \in Flows
  <2>1. << >> \in Seq(Alterations) /\ << >> \in Seq(Answers) /\ Len(<< >>) = 0
    OBVIOUS
  <2>2. f \notin issued /\ f \notin DOMAIN store
    BY <1>1
  <2>3. FlowOk(f)
    BY <1>2, <2>1, <2>2 DEF FlowOk
  <2>4. SentOk(f) /\ StoreOk(f) /\ ReadOk(f)
    BY <1>2, <2>1, <2>2 DEF SentOk, StoreOk, ReadOk
  <2>5. QED  BY <2>3, <2>4
<1>4. CallsServe /\ LogOk
  BY <1>1 DEF CallsServe, LogOk
<1>5. QED  BY <1>1, <1>3, <1>4 DEF JourneyInv

THEOREM JourneyInvariance == JourneySpec => [](TypeInv /\ JourneyInv)
<1>1. JourneyInit => TypeInv /\ JourneyInv
  BY JourneyStart, WalletInit DEF JourneyInit, WalletInv
<1>2. TypeInv /\ JourneyInv /\ [JourneyNext]_journeyVars => (TypeInv /\ JourneyInv)'
  BY JourneyStep, WalletStepOrNone, TypeStep DEF JourneyInv
<1>3. QED  BY <1>1, <1>2, PTL DEF JourneySpec

-----------------------------------------------------------------------------
(***************************************************************************)
(* What a client reads back.                                               *)
(***************************************************************************)

\* The record of a decision, and what it was made on.
LEMMA DecisionRecord ==
  ASSUME NEW f \in Flows, FlowOk(f), NEW s, s[1] = f, HandlerOk(s),
         handlers[s].answer \in Decisions
  PROVE  LET h == handlers[s]
             a == E!AuditOf(h)
         IN /\ a.decision = h.answer /\ a.canonical = flows[f].canonical
            /\ h.failed # "NONE" => a.reason = h.failed /\ a.decision = "DENY"
            /\ a.decision = "ALLOW" =>
                 DOMAIN a.predicates = RequiredPredicates(a.canonical, KindOf(a.canonical))
<1> DEFINE h == handlers[s]
           a == E!AuditOf(h)
<1>1. AnswerOk(s) /\ s[2] \in 1..Len(flows[f].sent)
  BY DEF HandlerOk
<1>2. f \in issued
  BY <1>1 DEF FlowOk
<1>3. h.answer # "NONE" /\ h.answer # "UNKNOWN_REQUEST"
  BY DEF Decisions
<1>4. ~EngineForgot(s) /\ Checked(s)
  BY <1>1, <1>3 DEF AnswerOk
<1>5. /\ h.challenge.canonical = flows[f].canonical
      /\ h.challenge.kind = KindOf(flows[f].canonical)
  BY <1>2, <1>4 DEF Checked, SameChallenge, FlowOk
<1>6. /\ a.decision = h.answer /\ a.canonical = flows[f].canonical
      /\ h.failed # "NONE" => a.reason = h.failed
  BY <1>5 DEF E!AuditOf
<1>7. h.failed # "NONE" => h.answer = "DENY"
  BY <1>1, <1>3, <1>4 DEF AnswerOk
<1>8. h.answer = "ALLOW" => h.result = "OK"
  BY <1>1, <1>3, <1>4, <1>7 DEF AnswerOk, E!AnswerTo, Refused
<1>9. h.result = "OK" =>
        DOMAIN a.predicates = RequiredPredicates(flows[f].canonical, KindOf(flows[f].canonical))
  <2>1. h.result = "OK" =>
          a.predicates = E!BuildAudit(h.challenge.canonical, h.challenge.kind,
                                      E!VerifiedReport(h)).predicates
    BY DEF E!AuditOf
  <2>2. \A c, kind, report :
          DOMAIN E!BuildAudit(c, kind, report).predicates = E!RequiredPredicates(c, kind)
    BY DEF E!BuildAudit
  <2>3. QED  BY <1>5, <2>1, <2>2, EngineRequired
<1>10. QED  BY <1>6, <1>7, <1>8, <1>9

\* In every state, the audit a client has read is that of its own question and
\* says what it was told; it is missing only when the engine has restarted.
THEOREM AuditIsTold == JourneySpec => []AuditToldBack
<1>1. JourneyInv => AuditToldBack
  <2> SUFFICES ASSUME JourneyInv, NEW f \in Flows, flows[f].audit # << >>
               PROVE  LET read == flows[f].audit[1]
                          h    == handlers[Submission(f)]
                      IN /\ read.record = {} <=> read.epoch # h.epoch
                         /\ \A a \in read.record :
                              /\ a.decision = Last(flows[f].told)
                              /\ a.canonical = flows[f].canonical
                              /\ h.failed # "NONE" => a.reason = h.failed /\ a.decision = "DENY"
                              /\ a.decision = "ALLOW" =>
                                   DOMAIN a.predicates
                                     = RequiredPredicates(a.canonical, KindOf(a.canonical))
    BY DEF AuditToldBack
  <2> DEFINE s == Submission(f)
             h == handlers[s]
             read == flows[f].audit[1]
  <2>1. FlowOk(f) /\ SentOk(f) /\ ReadOk(f)
    BY DEF JourneyInv
  <2>2. /\ flows[f].stage = "done" /\ h.answer \in Decisions
        /\ read.record = IF read.epoch = h.epoch THEN {E!AuditOf(h)} ELSE {}
    BY <2>1 DEF ReadOk
  <2>3. s[1] = f /\ s \in DOMAIN handlers /\ Last(flows[f].told) = h.answer
    BY <2>1, <2>2 DEF FlowOk, SentOk, Submission
  <2>4. HandlerOk(s)
    BY <2>3 DEF JourneyInv
  <2>5. /\ E!AuditOf(h).decision = h.answer /\ E!AuditOf(h).canonical = flows[f].canonical
        /\ h.failed # "NONE" => E!AuditOf(h).reason = h.failed /\ E!AuditOf(h).decision = "DENY"
        /\ E!AuditOf(h).decision = "ALLOW" =>
             DOMAIN E!AuditOf(h).predicates
               = RequiredPredicates(E!AuditOf(h).canonical, KindOf(E!AuditOf(h).canonical))
    BY <2>1, <2>2, <2>3, <2>4, DecisionRecord
  <2>6. QED  BY <2>2, <2>3, <2>5
<1>2. QED  BY <1>1, JourneyInvariance, PTL

-----------------------------------------------------------------------------
(***************************************************************************)
(* Alterations.                                                            *)
(***************************************************************************)

\* The disclosures of a credential with what is known of its subject.
Disclosures(known, cred) ==
  {[salt |-> <<cred.holderKey, ClaimOrder[i]>>, name |-> ClaimOrder[i],
    value |-> known[ClaimOrder[i]]] : i \in 1..4}

\* A presentation of the credential with something to show, part by part.
Shows(vp, known, cred) ==
  /\ Len(vp) \in Nat /\ Len(vp) >= 3 /\ vp \in Seq(Parts(vp)) /\ vp # << >>
  /\ DOMAIN vp = 1..Len(vp)
  /\ DOMAIN vp[1] = {"key", "payload"} /\ vp[1].key = cred.issuerKey
  /\ vp[1].payload.iss = Iss /\ vp[1].payload.exp = cred.exp
  /\ vp[1].payload.cnf = cred.holderKey
  /\ vp[1].payload.sd = {Sha256(d) : d \in Disclosures(known, cred)}
  /\ \A i \in 2..(Len(vp) - 1) : vp[i] \in Disclosures(known, cred)
  /\ vp[Len(vp)] # NoPart
  /\ vp[Len(vp)].payload.sdHash = Sha256(HashedText(vp))

LEMMA HonestShows ==
  ASSUME NEW known, NEW cred, NEW claims, claims \cap ClaimNames # {}, NEW audience, NEW nonce
  PROVE  Shows(PresentVp(IssuedFor(known, cred), cred.holderKey, claims, audience, nonce),
               known, cred)
<1> DEFINE I == Issue(cred.issuerKey, known, cred.holderKey, cred.exp)
           ds == I.disclosures
           chosen == Selected(ds, claims)
           kb == JwsSign(cred.holderKey, [aud |-> audience, nonce |-> nonce,
                                          sdHash |-> Sha256(Append(<<I.jwt>> \o chosen, NoPart))])
           vp == PresentVp(I, cred.holderKey, claims, audience, nonce)
<1>1. PresentedAs(vp, I.jwt, chosen, cred.holderKey, audience, nonce)
  BY PresentedParts
<1>2. /\ ds \in [1..4 -> Parts(ds)] /\ NamesDiffer(ds) /\ Parts(ds) = Disclosures(known, cred)
      /\ I.jwt.key = cred.issuerKey
      /\ I.jwt.payload.iss = Iss /\ I.jwt.payload.exp = cred.exp
      /\ I.jwt.payload.cnf = cred.holderKey
      /\ I.jwt.payload.sd = {Sha256(d) : d \in Parts(ds)}
  BY IssuedParts DEF Disclosures
<1>3. DOMAIN I.jwt = {"key", "payload"}
  BY DEF Issue, JwsSign
<1>4. kb # NoPart /\ kb.payload.sdHash = Sha256(Append(<<I.jwt>> \o chosen, NoPart))
  BY SignedIsPart DEF JwsSign
<1> HIDE DEF I, ds, kb
<1>5. /\ chosen \in Seq(Parts(ds)) /\ Parts(chosen) = {d \in Parts(ds) : d.name \in claims}
  BY <1>2, SelectedParts
<1>6. Len(chosen) >= 1
  <2>1. PICK i \in 1..4 : ClaimOrder[i] \in claims
    BY DEF ClaimNames
  <2> DEFINE d == [salt |-> <<cred.holderKey, ClaimOrder[i]>>, name |-> ClaimOrder[i],
                   value |-> known[ClaimOrder[i]]]
  <2>2. d \in Parts(ds) /\ d.name = ClaimOrder[i]
    BY <1>2 DEF Disclosures
  <2> HIDE DEF d
  <2>3. d \in Parts(chosen)
    BY <1>5, <2>1, <2>2
  <2>4. QED  BY <1>5, <2>3 DEF Parts
<1> HIDE DEF chosen, vp
<1>7. /\ Len(vp) \in Nat /\ Len(vp) >= 3 /\ vp \in Seq(Parts(vp)) /\ vp # << >>
      /\ DOMAIN vp = 1..Len(vp) /\ vp[1] = I.jwt /\ Last(vp) = kb /\ Front(vp) = <<I.jwt>> \o chosen
      /\ \A i \in 2..(Len(vp) - 1) : i - 1 \in DOMAIN chosen /\ vp[i] = chosen[i - 1]
  BY <1>1, <1>6 DEF PresentedAs, kb
<1>8. \A i \in 2..(Len(vp) - 1) : vp[i] \in Parts(ds)
  BY <1>5, <1>7
<1>9. vp[Len(vp)] = kb
  BY <1>7 DEF Last
<1>10. Shows(vp, known, cred)
  BY <1>2, <1>3, <1>4, <1>7, <1>8, <1>9 DEF Shows, HashedText
<1>11. QED  BY <1>10 DEF vp, I, IssuedFor

\* What is read of a text that has its two JWTs, field by field.
LEMMA ReadParts ==
  ASSUME NEW w, w # << >>, Len(w) \in Nat, Len(w) >= 2, Last(w) # NoPart
  PROVE  /\ ReadVp(w).form = "sdjwt" /\ ReadVp(w).issuerKey = w[1].key
         /\ ReadVp(w).iss <=> w[1].payload.iss = Iss
         /\ ReadVp(w).genuine <=> \A d \in DisclosedParts(w) : Sha256(d) \in w[1].payload.sd
         /\ ReadVp(w).exp = w[1].payload.exp /\ ReadVp(w).holderKey = w[1].payload.cnf
         /\ ReadVp(w).kbKey = Last(w).key /\ ReadVp(w).audience = Last(w).payload.aud
         /\ ReadVp(w).sdHash <=> Last(w).payload.sdHash = Sha256(HashedText(w))
         /\ ReadVp(w).nonce = Last(w).payload.nonce
<1> DEFINE ours == w[1].payload.iss = Iss
           genuine == \A d \in DisclosedParts(w) : Sha256(d) \in w[1].payload.sd
           claims == [x \in DOMAIN DisclosedClaims(w) |-> ReadClaim(x, DisclosedClaims(w)[x])]
           covers == Last(w).payload.sdHash = Sha256(HashedText(w))
<1>1. ~(Len(w) < 2)
  OBVIOUS
<1>2. ReadVp(w)
        = [form |-> "sdjwt", issuerKey |-> w[1].key, iss |-> ours, genuine |-> genuine,
           claims |-> claims, exp |-> w[1].payload.exp, holderKey |-> w[1].payload.cnf,
           kbKey |-> Last(w).key, audience |-> Last(w).payload.aud, sdHash |-> covers,
           nonce |-> Last(w).payload.nonce]
  BY <1>1 DEF ReadVp
<1> HIDE DEF ours, genuine, claims, covers
<1>3. /\ ReadVp(w).form = "sdjwt" /\ ReadVp(w).issuerKey = w[1].key
      /\ ReadVp(w).exp = w[1].payload.exp /\ ReadVp(w).holderKey = w[1].payload.cnf
      /\ ReadVp(w).kbKey = Last(w).key /\ ReadVp(w).audience = Last(w).payload.aud
      /\ ReadVp(w).nonce = Last(w).payload.nonce
  BY <1>2
<1>4. ReadVp(w).iss = ours /\ ReadVp(w).genuine = genuine /\ ReadVp(w).sdHash = covers
  BY <1>2
<1>5. QED  BY <1>3, <1>4 DEF ours, genuine, covers

\* A disclosure that is none of the credential is found out.
LEMMA ForeignFound ==
  ASSUME NEW vp, NEW known, NEW cred, Shows(vp, known, cred), NEW w, NEW d,
         w \in Seq(Parts(w)), Len(w) = Len(vp), w[1] = vp[1], w[2] = d,
         d \notin Disclosures(known, cred), d # NoPart, NEW key, NEW ch, NEW time,
         w[Len(w)] = vp[Len(vp)]
  PROVE  FailedCheck(ReadVp(w), key, ch, time)
           = IF cred.issuerKey # key THEN "INVALID_SIGNATURE" ELSE "UNKNOWN_DISCLOSURE"
<1>1. /\ Len(w) \in Nat /\ Len(w) >= 3 /\ w # << >> /\ w[1].key = cred.issuerKey
      /\ w[1].payload.iss = Iss /\ Last(w) # NoPart
      /\ w[1].payload.sd = {Sha256(e) : e \in Disclosures(known, cred)}
  BY DEF Shows, Last
<1>2. d \in DisclosedParts(w)
  BY <1>1 DEF DisclosedParts
<1>3. Sha256(d) \notin w[1].payload.sd
  BY <1>1 DEF Sha256
<1>4. /\ ReadVp(w).form = "sdjwt" /\ ReadVp(w).issuerKey = cred.issuerKey
      /\ ReadVp(w).iss /\ ~ReadVp(w).genuine
  BY <1>1, <1>2, <1>3, ReadParts
<1>5. QED  BY <1>4 DEF FailedCheck

\* The check that an altered presentation fails names the alteration, unless
\* the signature or the term of the credential comes first.
Named(failed, how, cred, key, time) ==
  \/ failed = NamedCheck(how)
  \/ failed = "INVALID_SIGNATURE" /\ cred.issuerKey # key
  \/ failed = "EXPIRED_CREDENTIAL" /\ time > cred.exp

FailsAs(how, known, cred, ch, key, time) ==
  Named(FailedCheck(ReadVp(Altered(how, known, cred, ch)), key, ch, time), how, cred, key, time)

\* Whoever signs the key binding, and whatever it says.
LEMMA BindingNamed ==
  ASSUME NEW known, NEW cred, NEW signer, NEW claims, NEW audience, NEW nonce,
         NEW key, NEW ch, NEW time
  PROVE  FailedCheck(ReadVp(PresentVp(IssuedFor(known, cred), signer, claims, audience, nonce)),
                     key, ch, time)
           = IF cred.issuerKey # key THEN "INVALID_SIGNATURE"
             ELSE IF time > cred.exp THEN "EXPIRED_CREDENTIAL"
             ELSE IF signer # cred.holderKey \/ audience # ch.audience THEN "KEY_BINDING_MISMATCH"
             ELSE IF nonce # ch.nonce THEN "NONCE_MISMATCH"
             ELSE "NONE"
<1> DEFINE vp == PresentVp(IssuedFor(known, cred), signer, claims, audience, nonce)
           r == RecordOf(known, cred.issuerKey, cred.holderKey, cred.exp, signer, claims,
                         audience, nonce)
<1>1. ReadVp(vp) = r
  BY ReadPresented DEF IssuedFor
<1>2. /\ r.form = "sdjwt" /\ r.issuerKey = cred.issuerKey /\ r.iss = TRUE /\ r.genuine = TRUE
      /\ r.exp = cred.exp /\ r.holderKey = cred.holderKey /\ r.kbKey = signer
      /\ r.audience = audience /\ r.sdHash = TRUE /\ r.nonce = nonce
  BY DEF RecordOf, Saying
<1> HIDE DEF r, vp
<1>3. FailedCheck(r, key, ch, time)
        = IF cred.issuerKey # key THEN "INVALID_SIGNATURE"
          ELSE IF time > cred.exp THEN "EXPIRED_CREDENTIAL"
          ELSE IF signer # cred.holderKey \/ audience # ch.audience THEN "KEY_BINDING_MISMATCH"
          ELSE IF nonce # ch.nonce THEN "NONCE_MISMATCH"
          ELSE "NONE"
  BY <1>2 DEF FailedCheck
<1>4. QED  BY <1>1, <1>3 DEF vp

\* Another key, audience or nonce in the key binding.
LEMMA OtherBindingNamed ==
  ASSUME NEW known, NEW cred, cred.holderKey \in Calls, NEW ch, ch.audience = DefaultAudience,
         ch.nonce \in Flows, NEW key, NEW time,
         NEW how \in {"otherHolder", "otherAudience", "otherNonce"}
  PROVE  FailsAs(how, known, cred, ch, key, time)
<1> DEFINE claims == ClaimsToDisclose(ch.required)
           I == IssuedFor(known, cred)
<1>1. Stranger # cred.holderKey /\ "another-nonce" # ch.nonce /\ "someone-else" # ch.audience
  BY AlterationAssumption DEF DefaultAudience
<1>2. CASE how = "otherHolder"
  <2>1. Altered(how, known, cred, ch) = PresentVp(I, Stranger, claims, DefaultAudience, ch.nonce)
    BY <1>2 DEF Altered
  <2> HIDE DEF I, claims
  <2>2. QED
    BY <1>1, <1>2, <2>1, BindingNamed DEF FailsAs, Named, NamedCheck, I
<1>3. CASE how = "otherAudience"
  <2>1. Altered(how, known, cred, ch) = PresentVp(I, cred.holderKey, claims, "someone-else", ch.nonce)
    BY <1>3 DEF Altered
  <2> HIDE DEF I, claims
  <2>2. QED
    BY <1>1, <1>3, <2>1, BindingNamed DEF FailsAs, Named, NamedCheck, I
<1>4. CASE how = "otherNonce"
  <2>1. Altered(how, known, cred, ch)
          = PresentVp(I, cred.holderKey, claims, DefaultAudience, "another-nonce")
    BY <1>4 DEF Altered
  <2> HIDE DEF I, claims
  <2>2. QED
    BY <1>1, <1>4, <2>1, BindingNamed DEF FailsAs, Named, NamedCheck, I
<1>5. QED  BY <1>2, <1>3, <1>4

\* A disclosure that was changed, or is another credential's.
Changed(w, vp) ==
  /\ w = [vp EXCEPT ![2] = w[2]]
  /\ \/ w[2] = [vp[2] EXCEPT !.value = NotText]
     \/ w[2] = [vp[2] EXCEPT !.salt = <<Stranger, vp[2].name>>]

LEMMA DisclosureNamed ==
  ASSUME NEW known, \A i \in 1..4 : known[ClaimOrder[i]] # NotText,
         NEW cred, cred.holderKey \in Calls, NEW vp, Shows(vp, known, cred),
         NEW ch, NEW key, NEW time, NEW w, Changed(w, vp)
  PROVE  FailedCheck(ReadVp(w), key, ch, time)
           = IF cred.issuerKey # key THEN "INVALID_SIGNATURE" ELSE "UNKNOWN_DISCLOSURE"
<1> DEFINE D == Disclosures(known, cred)
           d == w[2]
<1>1. /\ Len(vp) \in Nat /\ Len(vp) >= 3 /\ DOMAIN vp = 1..Len(vp) /\ vp \in Seq(Parts(vp))
      /\ vp[2] \in D
  BY DEF Shows
<1>2. PICK i \in 1..4 :
        vp[2] = [salt |-> <<cred.holderKey, ClaimOrder[i]>>, name |-> ClaimOrder[i],
                 value |-> known[ClaimOrder[i]]]
  BY <1>1 DEF Disclosures
<1>3. DOMAIN w = 1..Len(vp) /\ \A j \in 1..Len(vp) : j # 2 => w[j] = vp[j]
  <2>1. w = [j \in DOMAIN vp |-> IF j = 2 THEN w[2] ELSE vp[j]]
    BY DEF Changed
  <2>2. QED  BY <1>1, <2>1
<1>4. w = [j \in 1..Len(vp) |-> w[j]]
  BY <1>1 DEF Changed
<1>5. /\ DOMAIN d = {"salt", "name", "value"} /\ d.name = ClaimOrder[i]
      /\ \/ d.value = NotText
         \/ d.salt = <<Stranger, ClaimOrder[i]>>
  <2>1. CASE d = [vp[2] EXCEPT !.value = NotText]
    BY <1>2, <2>1
  <2>2. CASE d = [vp[2] EXCEPT !.salt = <<Stranger, vp[2].name>>]
    BY <1>2, <2>2
  <2>3. QED  BY <2>1, <2>2 DEF Changed
<1> HIDE DEF d
<1>6. d \notin D
  <2> SUFFICES ASSUME d \in D PROVE FALSE
    OBVIOUS
  <2>1. PICK j \in 1..4 :
          d = [salt |-> <<cred.holderKey, ClaimOrder[j]>>, name |-> ClaimOrder[j],
               value |-> known[ClaimOrder[j]]]
    BY DEF Disclosures
  <2>2. d.value = known[ClaimOrder[j]] /\ d.salt = <<cred.holderKey, ClaimOrder[j]>>
    BY <2>1
  <2>3. Stranger # cred.holderKey
    BY AlterationAssumption
  <2>4. d.salt # <<Stranger, ClaimOrder[i]>>
    BY <2>2, <2>3
  <2>5. QED  BY <1>5, <2>2, <2>4
<1>7. d # NoPart
  <2>1. DOMAIN NoPart = {"key", "payload"}
    BY DEF NoPart, JwsSign
  <2>2. QED  BY <1>5, <2>1
<1>8. w \in Seq(Parts(w)) /\ Len(w) = Len(vp)
  <2>1. \A j \in 1..Len(vp) : w[j] \in Parts(w)
    BY <1>3 DEF Parts
  <2>2. w \in [1..Len(vp) -> Parts(w)]
    BY <1>4, <2>1
  <2>3. QED  BY <1>1, <2>2
<1>9. w[1] = vp[1] /\ w[2] = d /\ w[Len(w)] = vp[Len(vp)]
  BY <1>1, <1>3, <1>8 DEF d
<1>10. QED  BY <1>6, <1>7, <1>8, <1>9, ForeignFound

\* A signature of the issuer that does not verify.
LEMMA SignatureNamed ==
  ASSUME NEW known, NEW cred, NEW vp, Shows(vp, known, cred), NEW ch, NEW key \in Nat, NEW time
  PROVE  FailedCheck(ReadVp([vp EXCEPT ![1].key = -1]), key, ch, time) = "INVALID_SIGNATURE"
<1> DEFINE w == [vp EXCEPT ![1].key = -1]
           n == Len(vp)
<1>1. /\ n \in Nat /\ n >= 3 /\ DOMAIN vp = 1..n /\ DOMAIN vp[1] = {"key", "payload"}
      /\ vp[n] # NoPart
  BY DEF Shows
<1>2. /\ w = [j \in 1..n |-> w[j]] /\ w[1].key = -1 /\ w[n] = vp[n]
  <2> DEFINE head == [vp[1] EXCEPT !.key = -1]
  <2>1. w = [vp EXCEPT ![1] = head]
    OBVIOUS
  <2>2. head.key = -1
    BY <1>1
  <2> HIDE DEF head, w
  <2>3. w = [j \in DOMAIN vp |-> IF j = 1 THEN head ELSE vp[j]]
    BY <2>1
  <2>4. 1 \in DOMAIN vp /\ n \in DOMAIN vp /\ n # 1
    BY <1>1
  <2> HIDE DEF n
  <2>5. w = [j \in 1..n |-> IF j = 1 THEN head ELSE vp[j]]
    BY <1>1, <2>3
  <2>6. w[1] = head /\ w[n] = vp[n]
    BY <1>1, <2>4, <2>5
  <2>7. w = [j \in 1..n |-> w[j]]
    BY <2>5
  <2>8. QED  BY <2>2, <2>6, <2>7
<1> HIDE DEF w, n
<1>3. w \in Seq(Parts(w)) /\ Len(w) = n
  <2>1. DOMAIN w = 1..n
    BY <1>2
  <2>2. w \in [1..n -> Parts(w)]
    BY <1>2, <2>1 DEF Parts
  <2>3. QED  BY <1>1, <2>2
<1>4. w # << >> /\ Last(w) # NoPart
  BY <1>1, <1>2, <1>3 DEF Last
<1>5. -1 # key
  OBVIOUS
<1>6. QED  BY <1>1, <1>2, <1>3, <1>4, <1>5 DEF FailedCheck, ReadVp, w

\* A disclosure left out: the key binding does not cover what is left.
LEMMA LeftOutNamed ==
  ASSUME NEW known, NEW cred, NEW vp, Shows(vp, known, cred), NEW ch, NEW key, NEW time
  PROVE  Named(FailedCheck(ReadVp(RemoveAt(vp, 2)), key, ch, time), "dropDisclosure", cred, key, time)
<1> DEFINE w == RemoveAt(vp, 2)
           n == Len(vp)
           a == SubSeq(vp, 1, 1)
           b == SubSeq(vp, 3, n)
<1>1. /\ n \in Nat /\ n >= 3 /\ DOMAIN vp = 1..n /\ vp \in Seq(Parts(vp)) /\ vp[n] # NoPart
      /\ vp[1].key = cred.issuerKey /\ vp[1].payload.iss = Iss /\ vp[1].payload.exp = cred.exp
      /\ vp[1].payload.sd = {Sha256(d) : d \in Disclosures(known, cred)}
      /\ \A i \in 2..(n - 1) : vp[i] \in Disclosures(known, cred)
      /\ vp[n].payload.sdHash = Sha256(HashedText(vp))
  BY DEF Shows
<1>2. w = a \o b
  BY DEF RemoveAt
<1> HIDE DEF n
<1>3. /\ a \in Seq(Parts(vp)) /\ Len(a) = 1 /\ a[1] = vp[1]
      /\ b \in Seq(Parts(vp)) /\ Len(b) = n - 2 /\ \A j \in 1..(n - 2) : b[j] = vp[j + 2]
  BY <1>1 DEF n
<1> HIDE DEF a, b, w
<1>4. /\ w \in Seq(Parts(vp)) /\ Len(w) = n - 1 /\ w[1] = vp[1]
      /\ \A j \in 2..(n - 1) : w[j] = vp[j + 1]
  <2>1. /\ a \o b \in Seq(Parts(vp)) /\ Len(a \o b) = Len(a) + Len(b)
        /\ \A j \in 1..Len(a) : (a \o b)[j] = a[j]
        /\ \A j \in 1..Len(b) : (a \o b)[Len(a) + j] = b[j]
    <3> DEFINE S == Parts(vp)
    <3> HIDE DEF S
    <3>1. a \in Seq(S) /\ b \in Seq(S)
      BY <1>3 DEF S
    <3>2. QED  BY <3>1 DEF S
  <2>4. /\ w \in Seq(Parts(vp)) /\ Len(w) = n - 1 /\ w[1] = vp[1]
        /\ \A j \in 1..(n - 2) : w[1 + j] = b[j]
    BY <1>1, <1>2, <1>3, <2>1
  <2>2. ASSUME NEW j \in 2..(n - 1)
        PROVE  w[j] = vp[j + 1]
    <3>1. j - 1 \in 1..(n - 2) /\ 1 + (j - 1) = j /\ (j - 1) + 2 = j + 1
      BY <1>1
    <3>2. QED  BY <1>3, <2>4, <3>1
  <2>3. QED  BY <2>2, <2>4
<1>5. Last(w) = vp[n] /\ w # << >> /\ Len(w) >= 2
  BY <1>1, <1>4 DEF Last
<1>6. \A d \in DisclosedParts(w) : Sha256(d) \in w[1].payload.sd
  <2> SUFFICES ASSUME NEW d \in DisclosedParts(w)
               PROVE  d \in Disclosures(known, cred)
    BY <1>1, <1>4
  <2>1. PICK i \in 2..(Len(w) - 1) : d = w[i]
    BY DEF DisclosedParts
  <2>2. w[i] = vp[i + 1] /\ i + 1 \in 2..(n - 1)
    BY <1>1, <1>4, <2>1
  <2>3. QED  BY <1>1, <2>1, <2>2
<1>7. Sha256(HashedText(w)) # Sha256(HashedText(vp))
  <2>1. Front(w) = SubSeq(w, 1, n - 2) /\ Front(vp) = SubSeq(vp, 1, n - 1)
    BY <1>1, <1>4 DEF Front, n
  <2>2. Len(Front(w)) = n - 2 /\ Len(Front(vp)) = n - 1
    BY <1>1, <1>4, <2>1 DEF n
  <2>3. Front(w) \in Seq(Parts(vp)) /\ Front(vp) \in Seq(Parts(vp))
    BY <1>1, <1>4 DEF Front
  <2>4. Len(HashedText(w)) = n - 1 /\ Len(HashedText(vp)) = n
    <3> DEFINE S == Parts(vp) \cup {NoPart}
    <3> HIDE DEF S
    <3>1. Front(w) \in Seq(S) /\ Front(vp) \in Seq(S) /\ NoPart \in S
      BY <2>3 DEF S
    <3>2. QED  BY <1>1, <2>2, <3>1 DEF HashedText
  <2>5. HashedText(w) # HashedText(vp)
    BY <1>1, <2>4
  <2>6. QED  BY <2>5 DEF Sha256
<1>8. FailedCheck(ReadVp(w), key, ch, time)
        = IF cred.issuerKey # key THEN "INVALID_SIGNATURE"
          ELSE IF time > cred.exp THEN "EXPIRED_CREDENTIAL"
          ELSE "KEY_BINDING_MISMATCH"
  <2>1. /\ ReadVp(w).form = "sdjwt" /\ ReadVp(w).issuerKey = cred.issuerKey
        /\ ReadVp(w).iss /\ ReadVp(w).genuine /\ ReadVp(w).exp = cred.exp
        /\ ~ReadVp(w).sdHash
    BY <1>1, <1>4, <1>5, <1>6, <1>7, ReadParts
  <2>2. QED  BY <2>1 DEF FailedCheck
<1>9. QED  BY <1>8 DEF Named, NamedCheck, w

\* Parts of it only, or none.
LEMMA FragmentNamed ==
  ASSUME NEW known, NEW cred, NEW vp, Shows(vp, known, cred), NEW ch, NEW key, NEW time
  PROVE  /\ FailedCheck(ReadVp(<< >>), key, ch, time) = "MISSING_SD_JWT_VP"
         /\ FailedCheck(ReadVp(<<vp[1]>>), key, ch, time) = "MALFORMED_VP"
         /\ FailedCheck(ReadVp(Append(Front(vp), NoPart)), key, ch, time) = "MALFORMED_VP"
<1> DEFINE w == Append(Front(vp), NoPart)
           S == Parts(vp) \cup {NoPart}
<1>1. Len(vp) \in Nat /\ Len(vp) >= 3 /\ vp \in Seq(S)
  BY DEF Shows
<1> HIDE DEF S
<1>2. Front(vp) \in Seq(S)
  BY <1>1 DEF Front
<1>3. NoPart \in S
  BY DEF S
<1>4. w \in Seq(S) /\ Len(w) = Len(Front(vp)) + 1 /\ w[Len(w)] = NoPart
  <2> DEFINE u == Front(vp)
  <2> HIDE DEF u
  <2>1. QED  BY <1>2, <1>3 DEF u
<1> HIDE DEF w
<1>5. w # << >> /\ Last(w) = NoPart
  BY <1>2, <1>4 DEF Last
<1>6. FailedCheck(ReadVp(w), key, ch, time) = "MALFORMED_VP"
  BY <1>5 DEF FailedCheck, ReadVp
<1>7. FailedCheck(ReadVp(<< >>), key, ch, time) = "MISSING_SD_JWT_VP"
  BY DEF FailedCheck, ReadVp
<1>8. FailedCheck(ReadVp(<<vp[1]>>), key, ch, time) = "MALFORMED_VP"
  BY DEF FailedCheck, ReadVp
<1>9. QED  BY <1>6, <1>7, <1>8 DEF w

LEMMA AlterationNamed ==
  ASSUME NEW known \in Pids, NEW cred, cred.holderKey \in Calls,
         NEW ch, ch.audience = DefaultAudience, ch.nonce \in Flows,
         ClaimsToDisclose(ch.required) # {},
         NEW key \in Nat, NEW time, NEW how \in Alterations, how # "none"
  PROVE  FailsAs(how, known, cred, ch, key, time)
<1> DEFINE claims == ClaimsToDisclose(ch.required)
           vp == PresentVp(IssuedFor(known, cred), cred.holderKey, claims, DefaultAudience, ch.nonce)
<1>1. Shows(vp, known, cred)
  <2>1. claims \subseteq ClaimNames
    BY DEF ClaimsToDisclose, ClaimNames, ClaimOrder
  <2>2. claims \cap ClaimNames # {}
    BY <2>1
  <2> HIDE DEF claims
  <2>3. QED  BY <2>2, HonestShows
<1>2. \A i \in 1..4 : known[ClaimOrder[i]] # NotText
  BY AlterationAssumption DEF ClaimOrder
<1>3. /\ Len(vp) \in Nat /\ Len(vp) >= 3 /\ DOMAIN vp = 1..Len(vp)
  BY <1>1 DEF Shows
<1>4. CASE how \in {"otherHolder", "otherAudience", "otherNonce"}
  BY <1>4, OtherBindingNamed
<1>5. CASE how = "flipDisclosure"
  <2>1. Altered(how, known, cred, ch) = [vp EXCEPT ![2].value = NotText]
    BY <1>5 DEF Altered
  <2> DEFINE w == [vp EXCEPT ![2].value = NotText]
  <2> HIDE DEF vp
  <2>2. Changed(w, vp)
    <3> DEFINE d == [vp[2] EXCEPT !.value = NotText]
    <3>1. w = [vp EXCEPT ![2] = d]
      OBVIOUS
    <3> HIDE DEF d, w
    <3>2. w[2] = d
      BY <1>3, <3>1
    <3>3. QED  BY <3>1, <3>2 DEF Changed, d
  <2> HIDE DEF w
  <2>3. FailedCheck(ReadVp(w), key, ch, time)
          = IF cred.issuerKey # key THEN "INVALID_SIGNATURE" ELSE "UNKNOWN_DISCLOSURE"
    BY <1>1, <1>2, <2>2, DisclosureNamed
  <2>4. QED  BY <1>5, <2>1, <2>3 DEF FailsAs, Named, NamedCheck, w
<1>6. CASE how = "splice"
  <2>1. Altered(how, known, cred, ch) = [vp EXCEPT ![2].salt = <<Stranger, vp[2].name>>]
    BY <1>6 DEF Altered
  <2> DEFINE w == [vp EXCEPT ![2].salt = <<Stranger, vp[2].name>>]
  <2> HIDE DEF vp
  <2>2. Changed(w, vp)
    <3> DEFINE d == [vp[2] EXCEPT !.salt = <<Stranger, vp[2].name>>]
    <3>1. w = [vp EXCEPT ![2] = d]
      OBVIOUS
    <3> HIDE DEF d, w
    <3>2. w[2] = d
      BY <1>3, <3>1
    <3>3. QED  BY <3>1, <3>2 DEF Changed, d
  <2> HIDE DEF w
  <2>3. FailedCheck(ReadVp(w), key, ch, time)
          = IF cred.issuerKey # key THEN "INVALID_SIGNATURE" ELSE "UNKNOWN_DISCLOSURE"
    BY <1>1, <1>2, <2>2, DisclosureNamed
  <2>4. QED  BY <1>6, <2>1, <2>3 DEF FailsAs, Named, NamedCheck, w
<1>7. CASE how = "flipSignature"
  <2>1. Altered(how, known, cred, ch) = [vp EXCEPT ![1].key = -1]
    BY <1>7 DEF Altered
  <2> HIDE DEF vp
  <2>2. QED  BY <1>1, <1>7, <2>1, SignatureNamed DEF FailsAs, Named, NamedCheck
<1>8. CASE how = "dropDisclosure"
  <2>1. Altered(how, known, cred, ch) = RemoveAt(vp, 2)
    BY <1>8 DEF Altered
  <2> HIDE DEF vp
  <2>2. QED  BY <1>1, <1>8, <2>1, LeftOutNamed DEF FailsAs
<1>9. CASE how \in {"noKeyBinding", "jwtOnly", "empty"}
  <2>1. /\ how = "noKeyBinding" => Altered(how, known, cred, ch) = Append(Front(vp), NoPart)
        /\ how = "jwtOnly" => Altered(how, known, cred, ch) = <<vp[1]>>
        /\ how = "empty" => Altered(how, known, cred, ch) = << >>
    <3>1. CASE how = "noKeyBinding"
      BY <3>1 DEF Altered
    <3>2. CASE how = "jwtOnly"
      BY <3>2 DEF Altered
    <3>3. CASE how = "empty"
      BY <3>3 DEF Altered
    <3>4. QED  BY <1>9, <3>1, <3>2, <3>3
  <2> HIDE DEF vp
  <2>2. /\ FailedCheck(ReadVp(<< >>), key, ch, time) = "MISSING_SD_JWT_VP"
        /\ FailedCheck(ReadVp(<<vp[1]>>), key, ch, time) = "MALFORMED_VP"
        /\ FailedCheck(ReadVp(Append(Front(vp), NoPart)), key, ch, time) = "MALFORMED_VP"
    BY <1>1, FragmentNamed
  <2>3. FailedCheck(ReadVp(Altered(how, known, cred, ch)), key, ch, time) = NamedCheck(how)
    <3>1. CASE how = "noKeyBinding"
      BY <2>1, <2>2, <3>1 DEF NamedCheck
    <3>2. CASE how = "jwtOnly"
      BY <2>1, <2>2, <3>2 DEF NamedCheck
    <3>3. CASE how = "empty"
      BY <2>1, <2>2, <3>3 DEF NamedCheck
    <3>4. QED  BY <1>9, <3>1, <3>2, <3>3
  <2>4. QED  BY <2>3 DEF FailsAs, Named
<1>10. how \in {"flipDisclosure", "flipSignature", "dropDisclosure", "splice", "otherHolder",
                "otherAudience", "otherNonce", "noKeyBinding", "jwtOnly", "empty"}
  BY AlterationAssumption
<1>11. QED  BY <1>4, <1>5, <1>6, <1>7, <1>8, <1>9, <1>10

\* Whoever was answered a presentation has the credential of one of the calls.
LEMMA CredentialHeld ==
  ASSUME TypeInv, CallsServe, NEW f \in Flows, WalletAnswered(f, "present")
  PROVE  CredentialOf(f) \in Credentials
<1> DEFINE c == WalletCall(f, "present")
           S == calls[c].credential
           one == CHOOSE cred \in S : TRUE
<1>1. c \in DOMAIN calls /\ calls[c].stage = "answered"
  BY DEF WalletAnswered, At
<1>2. S # {}
  BY <1>1 DEF CallsServe
<1>3. S \subseteq Credentials
  BY <1>1 DEF TypeInv, Threads
<1> HIDE DEF S
<1>4. one \in Credentials
  BY <1>2, <1>3
<1>5. QED  BY <1>4 DEF CredentialOf, S

\* A flow that was given a challenge was given one with something to show.
LEMMA ChallengeHeld ==
  ASSUME JourneyInv, NEW f \in Flows, f \in issued
  PROVE  LET ch == flows[f].challenge
         IN /\ ch.audience = DefaultAudience /\ ch.nonce = f
            /\ ch.canonical = flows[f].canonical /\ ch.kind = KindOf(ch.canonical)
            /\ ch.required = BuildPlan(ch.canonical, ch.kind, {}).requiredEvidence
            /\ ch.canonical \in Asked
            /\ ClaimsToDisclose(ch.required) # {}
<1>1. FlowOk(f)
  BY DEF JourneyInv
<1>2. flows[f].stage # "idle"
  BY <1>1 DEF FlowOk
<1>3. flows[f].canonical \in Asked
  BY <1>2 DEF JourneyInv, FlowShape
<1>4. QED  BY <1>1, <1>3, AlterationAssumption DEF FlowOk

\* All but the last.
LEMMA FrontOf ==
  ASSUME NEW T, NEW v \in Seq(T), Len(v) >= 1
  PROVE  /\ Front(v) \in Seq(T) /\ Len(Front(v)) = Len(v) - 1
         /\ \A i \in 1..(Len(v) - 1) : Front(v)[i] = v[i]
<1>1. Front(v) = SubSeq(v, 1, Len(v) - 1) /\ Len(v) \in Nat
  BY DEF Front
<1>2. /\ SubSeq(v, 1, Len(v) - 1) \in Seq(T) /\ Len(SubSeq(v, 1, Len(v) - 1)) = Len(v) - 1
      /\ \A i \in 1..(Len(v) - 1) : SubSeq(v, 1, Len(v) - 1)[i] = v[i]
  <2> DEFINE m == Len(v) - 1
  <2>1. m \in Nat /\ m <= Len(v)
    BY <1>1
  <2> HIDE DEF m
  <2>2. /\ SubSeq(v, 1, m) \in Seq(T) /\ Len(SubSeq(v, 1, m)) = m
        /\ \A i \in 1..m : SubSeq(v, 1, m)[i] = v[i]
    BY <2>1
  <2>3. QED  BY <2>2 DEF m
<1>3. QED  BY <1>1, <1>2

\* Two texts with the same closing and the same key-binding JWT are the same.
LEMMA TextIsItsParts ==
  ASSUME NEW S, NEW v \in Seq(S), NEW w \in Seq(S), Len(v) >= 1, Len(w) >= 1,
         HashedText(v) = HashedText(w), Last(v) = Last(w)
  PROVE  v = w
<1> DEFINE T == S \cup {NoPart}
<1>1. v \in Seq(T) /\ w \in Seq(T) /\ NoPart \in T
  OBVIOUS
<1> HIDE DEF T
<1>2. /\ Front(v) \in Seq(T) /\ Len(Front(v)) = Len(v) - 1
      /\ \A i \in 1..(Len(v) - 1) : Front(v)[i] = v[i]
  BY <1>1, FrontOf
<1>3. /\ Front(w) \in Seq(T) /\ Len(Front(w)) = Len(w) - 1
      /\ \A i \in 1..(Len(w) - 1) : Front(w)[i] = w[i]
  BY <1>1, FrontOf
<1> DEFINE a == Front(v)
           b == Front(w)
<1>4. a \in Seq(T) /\ b \in Seq(T) /\ Append(a, NoPart) = Append(b, NoPart)
  BY <1>2, <1>3 DEF HashedText
<1> HIDE DEF a, b
<1>5. Len(a) = Len(b) /\ \A i \in 1..Len(a) : a[i] = b[i]
  <2>1. Len(Append(a, NoPart)) = Len(a) + 1 /\ Len(Append(b, NoPart)) = Len(b) + 1
    BY <1>1, <1>4
  <2>2. \A i \in 1..Len(a) : Append(a, NoPart)[i] = a[i]
    BY <1>1, <1>4
  <2>3. \A i \in 1..Len(b) : Append(b, NoPart)[i] = b[i]
    BY <1>1, <1>4
  <2>4. Len(a) \in Nat /\ Len(b) \in Nat
    BY <1>4
  <2>5. QED  BY <1>4, <2>1, <2>2, <2>3, <2>4
<1>6. Len(v) = Len(w) /\ \A i \in 1..(Len(v) - 1) : v[i] = w[i]
  BY <1>1, <1>2, <1>3, <1>5 DEF a, b
<1>7. v[Len(v)] = w[Len(v)]
  BY <1>6 DEF Last
<1>8. \A i \in 1..Len(v) : v[i] = w[i]
  BY <1>1, <1>6, <1>7
<1>9. QED  BY <1>1, <1>6, <1>8

\* Of a presentation vp, a text passes the checks only if it is vp.
PassesAlone(text, vp, cred, ch, key, time) ==
  FailedCheck(ReadVp(text), key, ch, time) = "NONE" <=>
    text = vp /\ cred.issuerKey = key /\ ~(time > cred.exp)

\* Whatever stands between the JWTs of a presentation: the issuer's signature, the
\* term and the key binding are those of the presentation.
LEMMA OnlyTheTextPasses ==
  ASSUME NEW known, NEW cred, NEW claims, claims \cap ClaimNames # {}, NEW ch, NEW key, NEW time,
         ch.audience = DefaultAudience,
         NEW vp, vp = PresentVp(IssuedFor(known, cred), cred.holderKey, claims, DefaultAudience, ch.nonce),
         NEW S, NEW middle \in Seq(S), NEW text, text = <<Head(vp)>> \o middle \o <<Last(vp)>>
  PROVE  PassesAlone(text, vp, cred, ch, key, time)
<1> DEFINE n == Len(vp)
           T == S \cup Parts(vp)
<1>1. Shows(vp, known, cred)
  BY HonestShows
<1>2. /\ n \in Nat /\ n >= 3 /\ vp \in Seq(Parts(vp)) /\ DOMAIN vp = 1..n /\ vp # << >>
      /\ vp[1].key = cred.issuerKey /\ vp[1].payload.exp = cred.exp /\ vp[n] # NoPart
      /\ vp[n].payload.sdHash = Sha256(HashedText(vp))
  BY <1>1 DEF Shows
<1>3. Head(vp) = vp[1] /\ Last(vp) = vp[n]
  BY <1>2 DEF Last
<1>4. /\ vp \in Seq(T) /\ middle \in Seq(T) /\ vp[1] \in T /\ vp[n] \in T
  <2> DEFINE P == Parts(vp)
  <2>1. vp[1] \in P /\ vp[n] \in P
    <3>1. 1 \in DOMAIN vp /\ n \in DOMAIN vp
      BY <1>2
    <3> HIDE DEF n
    <3>2. QED  BY <3>1 DEF Parts
  <2>2. vp \in Seq(P)
    BY <1>2
  <2> HIDE DEF P, n
  <2>3. vp \in Seq(S \cup P) /\ middle \in Seq(S \cup P)
    BY <2>2
  <2>4. QED  BY <2>1, <2>3 DEF P
<1>5. text = <<vp[1]>> \o middle \o <<vp[n]>>
  BY <1>3
<1> HIDE DEF T, n
<1>6. /\ text \in Seq(T) /\ Len(text) = Len(middle) + 2 /\ Len(middle) \in Nat
      /\ text[1] = vp[1] /\ text[Len(text)] = vp[n]
  BY <1>4, <1>5
<1>7. /\ text # << >> /\ Len(text) \in Nat /\ Len(text) >= 2 /\ Last(text) = vp[n]
  BY <1>6 DEF Last
<1>8. ASSUME FailedCheck(ReadVp(text), key, ch, time) = "NONE"
      PROVE  text = vp /\ cred.issuerKey = key /\ ~(time > cred.exp)
  <2>1. /\ ReadVp(text).issuerKey = key /\ ~(time > ReadVp(text).exp) /\ ReadVp(text).sdHash
    BY <1>8 DEF FailedCheck
  <2>2. Last(text) # NoPart
    BY <1>2, <1>7
  <2>3. /\ ReadVp(text).issuerKey = text[1].key /\ ReadVp(text).exp = text[1].payload.exp
        /\ ReadVp(text).sdHash <=> Last(text).payload.sdHash = Sha256(HashedText(text))
    BY ONLY <1>7, <2>2, ReadParts
  <2>4. cred.issuerKey = key /\ ~(time > cred.exp)
    BY <1>2, <1>6, <2>1, <2>3
  <2>5. Last(text).payload.sdHash = Sha256(HashedText(text))
    BY <2>1, <2>3
  <2>6. Sha256(HashedText(text)) = Sha256(HashedText(vp))
    BY <1>2, <1>7, <2>5
  <2>7. HashedText(text) = HashedText(vp)
    BY <2>6 DEF Sha256
  <2>8. Len(vp) >= 1 /\ Len(text) >= 1 /\ Last(text) = Last(vp)
    BY <1>2, <1>3, <1>7 DEF n
  <2>9. text = vp
    BY ONLY <1>4, <1>6, <2>7, <2>8, TextIsItsParts
  <2>10. QED  BY <2>4, <2>9
<1>9. ASSUME text = vp, cred.issuerKey = key, ~(time > cred.exp)
      PROVE  FailedCheck(ReadVp(text), key, ch, time) = "NONE"
  <2>1. FailedCheck(ReadVp(PresentVp(IssuedFor(known, cred), cred.holderKey, claims,
                                     DefaultAudience, ch.nonce)), key, ch, time) = "NONE"
    BY ONLY <1>9, BindingNamed, ch.audience = DefaultAudience
  <2>2. QED  BY ONLY <1>9, <2>1,
             vp = PresentVp(IssuedFor(known, cred), cred.holderKey, claims, DefaultAudience, ch.nonce)
<1>10. QED  BY <1>8, <1>9 DEF PassesAlone

\* What stands between the JWTs is a sequence.
LEMMA RearrangedText ==
  ASSUME NEW vp, NEW cred, NEW text \in Rearranged(vp, cred)
  PROVE  \E S : \E middle \in Seq(S) : text = <<Head(vp)>> \o middle \o <<Last(vp)>>
<1> DEFINE own     == {IssuedFor(pid, cred).disclosures[i] : i \in DOMAIN ClaimOrder}
           strange == {[d EXCEPT !.salt = <<Stranger, d.name>>] : d \in own}
           S == own \cup strange \cup {NoPart}
<1>1. \E middle \in BoundedSeq(S, Len(vp) - 1) : text = <<Head(vp)>> \o middle \o <<Last(vp)>>
  BY DEF Rearranged
<1> HIDE DEF S
<1>2. PICK middle \in BoundedSeq(S, Len(vp) - 1) :
        text = <<Head(vp)>> \o middle \o <<Last(vp)>>
  BY <1>1
<1>3. PICK m \in 0..(Len(vp) - 1) : middle \in [1..m -> S]
  BY DEF BoundedSeq, SeqOf
<1>4. m \in Nat
  OBVIOUS
<1>5. middle \in Seq(S)
  BY <1>3, <1>4
<1>6. QED  BY <1>2, <1>5

\* In every state, of all the texts there can be between the JWTs of a
\* presentation that a flow holds, verify passes the one presented and no other,
\* and that one for as long as key and term last.
THEOREM TextIsBound == JourneySpec => []OnlyTheTextPresented
<1>1. TypeInv /\ JourneyInv => OnlyTheTextPresented
  <2> SUFFICES ASSUME TypeInv, JourneyInv, NEW f \in Holding,
                      NEW text \in Rearranged(Altered("none", pid, CredentialOf(f),
                                                       flows[f].challenge), CredentialOf(f))
               PROVE  FailedCheck(ReadVp(text), engineEpoch, flows[f].challenge, clock) = "NONE" <=>
                        /\ text = Altered("none", pid, CredentialOf(f), flows[f].challenge)
                        /\ CredentialOf(f).issuerKey = engineEpoch /\ clock <= CredentialOf(f).exp
    BY DEF OnlyTheTextPresented
  <2> DEFINE ch   == flows[f].challenge
             cred == CredentialOf(f)
             vp   == Altered("none", pid, cred, ch)
             claims == ClaimsToDisclose(ch.required)
  <2>1. f \in Flows /\ f \in issued /\ WalletAnswered(f, "present")
    BY DEF Holding, JourneyInv, FlowOk
  <2>2. ch.audience = DefaultAudience /\ claims # {}
    BY <2>1, ChallengeHeld
  <2>3. claims \cap ClaimNames # {}
    <3>1. claims \subseteq ClaimNames
      BY DEF ClaimsToDisclose, ClaimNames, ClaimOrder
    <3>2. QED  BY <2>2, <3>1
  <2>4. vp = PresentVp(IssuedFor(pid, cred), cred.holderKey, claims, DefaultAudience, ch.nonce)
    BY DEF Altered
  <2>5. \E S : \E middle \in Seq(S) : text = <<Head(vp)>> \o middle \o <<Last(vp)>>
    <3>1. text \in Rearranged(vp, cred)
      OBVIOUS
    <3> HIDE DEF vp, cred
    <3>2. QED  BY <3>1, RearrangedText
  <2>6. ~(clock > cred.exp) <=> clock <= cred.exp
    <3>1. cred \in Credentials
      BY <2>1, CredentialHeld DEF JourneyInv
    <3>2. cred.exp \in Int /\ clock \in Int
      BY <3>1 DEF Credentials, TypeInv
    <3>3. QED  BY <3>2
  <2> HIDE DEF ch, cred, vp, claims
  <2>7. PassesAlone(text, vp, cred, ch, engineEpoch, clock)
    <3>1. PICK S : \E middle \in Seq(S) : text = <<Head(vp)>> \o middle \o <<Last(vp)>>
      BY <2>5
    <3>2. PICK middle \in Seq(S) : text = <<Head(vp)>> \o middle \o <<Last(vp)>>
      BY <3>1
    <3>3. QED  BY <2>2, <2>3, <2>4, <3>2, OnlyTheTextPasses
  <2>8. QED  BY <2>6, <2>7 DEF PassesAlone, ch, cred, vp
<1>2. QED  BY <1>1, JourneyInvariance, PTL

\* What a submission carries fails the check it is named for.
LEMMA CarriedNamed ==
  ASSUME TypeInv, JourneyInv, NEW f \in Flows, f \in issued, WalletAnswered(f, "present"),
         NEW how \in Alterations, how # "none", NEW key \in Nat, NEW time
  PROVE  Named(FailedCheck(ReadVp(Altered(how, pid, CredentialOf(f), flows[f].challenge)),
                           key, flows[f].challenge, time),
               how, CredentialOf(f), key, time)
<1> DEFINE cred == CredentialOf(f)
           ch == flows[f].challenge
<1>1. /\ ch.audience = DefaultAudience /\ ch.nonce \in Flows
      /\ ClaimsToDisclose(ch.required) # {}
  BY ChallengeHeld
<1>2. cred.holderKey \in Calls
  <2>1. cred \in Credentials
    BY CredentialHeld DEF JourneyInv
  <2>2. QED  BY <2>1 DEF Credentials
<1>3. pid \in Pids
  BY DEF JourneyInv
<1> HIDE DEF cred, ch
<1>4. FailsAs(how, pid, cred, ch, key, time)
  BY <1>1, <1>2, <1>3, AlterationNamed
<1>5. QED  BY <1>4 DEF FailsAs, cred, ch

\* In every state, whatever was altered is told by name, or what comes first:
\* an altered presentation is never allowed and spends nothing.
THEOREM AlterationIsNamed == JourneySpec => []AlteredIsNamed
<1>1. TypeInv /\ JourneyInv => AlteredIsNamed
  <2> SUFFICES ASSUME TypeInv, JourneyInv PROVE AlteredIsNamed
    OBVIOUS
  <2>1. ASSUME NEW f \in Holding, NEW how \in Alterations \ {"none"}
        PROVE  Named(FailedCheck(ReadVp(Altered(how, pid, CredentialOf(f), flows[f].challenge)),
                                 engineEpoch, flows[f].challenge, clock),
                     how, CredentialOf(f), engineEpoch, clock)
    <3>1. f \in Flows /\ f \in issued /\ WalletAnswered(f, "present")
      BY DEF Holding, JourneyInv, FlowOk
    <3>2. engineEpoch \in Nat
      BY DEF TypeInv
    <3>3. QED  BY <3>1, <3>2, CarriedNamed
  <2>2. ASSUME NEW s \in Submitted, How(s) # "none"
        PROVE  /\ handlers[s].result = "NONE"
               /\ handlers[s].answer = IF EngineForgot(s) THEN "UNKNOWN_REQUEST" ELSE "DENY"
               /\ ~EngineForgot(s) =>
                    \/ handlers[s].failed = NamedCheck(How(s))
                    \/ handlers[s].failed = "INVALID_SIGNATURE" /\ IssuerGone(s)
                    \/ handlers[s].failed = "EXPIRED_CREDENTIAL" /\ Overdue(s)
    <3> DEFINE f == s[1]
               h == handlers[s]
               ch == flows[f].challenge
    <3>1. /\ s \in DOMAIN handlers /\ h.answer # "NONE" /\ HandlerOk(s)
          /\ f \in Flows /\ s[2] \in 1..Len(flows[f].sent)
      BY DEF Submitted, JourneyInv, HandlerOk
    <3>2. FlowOk(f)
      BY <3>1 DEF JourneyInv
    <3>3. f \in issued /\ WalletAnswered(f, "present") /\ How(s) \in Alterations
      BY <3>1, <3>2 DEF FlowOk, How
    <3>4. CASE EngineForgot(s)
      BY <3>1, <3>4 DEF HandlerOk, AnswerOk
    <3>5. CASE ~EngineForgot(s)
      <4>1. Checked(s) /\ h.vp = Carried(s) /\ h.epoch \in Nat
        BY <3>1, <3>5 DEF HandlerOk, AnswerOk
      <4>2. h.failed = FailedCheck(Carried(s), h.epoch, ch, h.evalTime)
        BY <4>1 DEF Checked
      <4>3. Named(h.failed, How(s), CredentialOf(f), h.epoch, h.evalTime)
        BY <2>2, <3>1, <3>3, <4>1, <4>2, CarriedNamed DEF Carried
      <4>4. /\ \/ h.failed = NamedCheck(How(s))
               \/ h.failed = "INVALID_SIGNATURE" /\ IssuerGone(s)
               \/ h.failed = "EXPIRED_CREDENTIAL" /\ Overdue(s)
            /\ h.failed # "NONE"
        <5>1. NamedCheck(How(s)) # "NONE"
          BY <2>2, <3>3, AlterationAssumption DEF NamedCheck
        <5>2. QED  BY <4>3, <5>1 DEF Named, IssuerGone, Overdue
      <4>5. h.answer = "DENY" /\ h.result = "NONE"
        BY <3>1, <3>5, <4>4 DEF HandlerOk, AnswerOk
      <4>6. QED  BY <3>5, <4>4, <4>5
    <3>6. QED  BY <3>4, <3>5
  <2>3. QED  BY <2>1, <2>2 DEF AlteredIsNamed, Named
<1>2. QED  BY <1>1, JourneyInvariance, PTL

-----------------------------------------------------------------------------
(***************************************************************************)
(* The verdict of the attributes, and the engine's.                        *)
(***************************************************************************)

\* What the verifier derives for a type that was asked for.
DerivedFor(t, time) ==
  IF RequiredClaimFor(t) = "none" THEN "MISSING"
  ELSE DeriveState(t, ReadClaim(RequiredClaimFor(t), pid[RequiredClaimFor(t)]), time)

\* It is available when the attributes say yes, and refuting when they say no.
LEMMA DerivedIsShown ==
  ASSUME NEW t, NEW s, handlers[s].evalTime \in 0..MaxTime
  PROVE  /\ DerivedFor(t, handlers[s].evalTime) = "AVAILABLE" <=> Shown(t, s) = "YES"
         /\ DerivedFor(t, handlers[s].evalTime) \in {"INVALID", "REVOKED"} <=> Shown(t, s) = "NO"
<1> DEFINE time == handlers[s].evalTime
           x == RequiredClaimFor(t)
<1>1. x # "none" => DerivedFor(t, time) = StateFrom(t, pid[x], Today(time))
  BY StateAgrees DEF DerivedFor
<1>2. CASE t = "AGE_ATTESTATION"
  <2>1. x = "birth_date"
    BY <1>2 DEF RequiredClaimFor
  <2>2. CASE pid.birth_date \notin DOMAIN DateOf
    BY <1>1, <1>2, <2>1, <2>2 DEF StateFrom, Shown
  <2>3. CASE pid.birth_date \in DOMAIN DateOf
    <3> DEFINE birth == DateOf[pid.birth_date]
               today == Today(time)
    <3>1. IsOver18(birth, today) <=> DayNumber(today) >= ComesOfAge(birth)
      BY <2>3, SdJwtAssumption, DatesOfRun, AgeIsExact
    <3>2. DerivedFor(t, time) = IF IsOver18(birth, today) THEN "AVAILABLE" ELSE "INVALID"
      BY <1>1, <1>2, <2>1, <2>3 DEF StateFrom
    <3>3. Shown(t, s) = IF DayNumber(today) >= ComesOfAge(birth) THEN "YES" ELSE "NO"
      BY <1>2, <2>3 DEF Shown
    <3> HIDE DEF birth, today
    <3>4. QED  BY <3>1, <3>2, <3>3
  <2>4. QED  BY <2>2, <2>3
<1>3. CASE t = "RESIDENCE_CREDENTIAL"
  <2>1. x = "resident_country"
    BY <1>3 DEF RequiredClaimFor
  <2>2. QED  BY <1>1, <1>3, <2>1 DEF StateFrom, Shown
<1>4. CASE t = "GOVERNMENT_IDENTITY"
  <2>1. x = "family_name"
    BY <1>4 DEF RequiredClaimFor
  <2>2. QED  BY <1>1, <1>4, <2>1 DEF StateFrom, Shown
<1>5. CASE t \notin {"AGE_ATTESTATION", "RESIDENCE_CREDENTIAL", "GOVERNMENT_IDENTITY"}
  BY <1>5 DEF RequiredClaimFor, DerivedFor, Shown
<1>6. QED  BY <1>2, <1>3, <1>4, <1>5

\* The evidence for a type that was asked for is derived from the PID, whatever
\* the claim is called on either side; the other types are missing.
LEMMA EvidenceDerived ==
  ASSUME NEW required, NEW claims,
         claims = [x \in ClaimNames \cap ClaimsToDisclose(required) |-> ReadClaim(x, pid[x])],
         NEW t \in EvidenceTypes, NEW time
  PROVE  E!DeriveEvidence(EvidenceTypes, required, claims, time)[t]
           = IF t \in required THEN DerivedFor(t, time) ELSE "MISSING"
<1> DEFINE x == RequiredClaimFor(t)
<1>1. E!DeriveEvidence(EvidenceTypes, required, claims, time)[t]
        = IF t \in required /\ x \in DOMAIN claims \ {"none"}
          THEN DeriveState(t, claims[x], time) ELSE "MISSING"
  BY DEF E!DeriveEvidence, E!RequiredClaimFor, RequiredClaimFor, E!DeriveState, DeriveState
<1>2. CASE t \in required /\ x # "none"
  <2>1. x \in ClaimNames
    BY <1>2 DEF RequiredClaimFor, ClaimNames, ClaimOrder
  <2>2. x \in ClaimsToDisclose(required)
    <3>1. CASE t = "AGE_ATTESTATION"
      BY <1>2, <3>1 DEF RequiredClaimFor, ClaimsToDisclose
    <3>2. CASE t = "GOVERNMENT_IDENTITY"
      BY <1>2, <3>2 DEF RequiredClaimFor, ClaimsToDisclose
    <3>3. CASE t = "RESIDENCE_CREDENTIAL"
      BY <1>2, <3>3 DEF RequiredClaimFor, ClaimsToDisclose
    <3>4. QED  BY <1>2, <3>1, <3>2, <3>3 DEF RequiredClaimFor
  <2> HIDE DEF x
  <2>3. x \in DOMAIN claims /\ claims[x] = ReadClaim(x, pid[x])
    BY <2>1, <2>2
  <2>4. QED  BY <1>1, <1>2, <2>3 DEF DerivedFor, x
<1>3. CASE t \notin required \/ x = "none"
  BY <1>1, <1>3 DEF DerivedFor
<1>4. QED  BY <1>2, <1>3

\* Predicate by predicate, the engine comes to what the attributes say.
LEMMA PredicateIsTruth ==
  ASSUME NEW s, handlers[s].evalTime \in 0..MaxTime, NEW required, NEW ev,
         required = flows[s[1]].challenge.required,
         \A t \in EvidenceTypes :
           ev[t] = IF t \in required THEN DerivedFor(t, handlers[s].evalTime) ELSE "MISSING",
         NEW p
  PROVE  E!PredicateState(p, ev) = CASE Truth(p, s) = "YES" -> "TRUE"
                                     [] Truth(p, s) = "NO" -> "FALSE"
                                     [] OTHER -> "UNKNOWN"
<1>1. CASE p \notin DOMAIN Predicates
  BY <1>1 DEF E!PredicateState, Truth
<1>2. CASE p \in DOMAIN Predicates
  <2>1. Options(p) \subseteq EvidenceTypes
    BY <1>2, RegistryAssumption DEF Options
  <2>2. E!Options(p) = Options(p)
    BY DEF E!Options, Options
  <2>3. \A t \in Options(p) :
          /\ ev[t] = "AVAILABLE" <=> t \in required /\ Shown(t, s) = "YES"
          /\ ev[t] \in {"INVALID", "REVOKED"} <=> t \in required /\ Shown(t, s) = "NO"
    BY <2>1, DerivedIsShown
  <2> DEFINE says == {Shown(t, s) : t \in required \cap Options(p)}
  <2>4. E!AvailableOptions(p, ev) # {} <=> "YES" \in says
    BY <2>2, <2>3 DEF E!AvailableOptions
  <2>5. E!RefutingOptions(p, ev) # {} <=> "NO" \in says
    BY <2>2, <2>3 DEF E!RefutingOptions
  <2>6. Truth(p, s) = IF "YES" \in says THEN "YES" ELSE IF "NO" \in says THEN "NO" ELSE "OPEN"
    BY <1>2 DEF Truth
  <2> HIDE DEF says
  <2>7. QED  BY <1>2, <2>4, <2>5, <2>6 DEF E!PredicateState
<1>3. QED  BY <1>1, <1>2

\* The decision on an honest presentation is the verdict.
LEMMA DecisionIsVerdict ==
  ASSUME NEW s, handlers[s].evalTime \in 0..MaxTime,
         SameChallenge(handlers[s].challenge, flows[s[1]].challenge),
         handlers[s].vp.claims
           = [x \in ClaimNames \cap ClaimsToDisclose(flows[s[1]].challenge.required) |->
                ReadClaim(x, pid[x])]
  PROVE  E!VerifiedReport(handlers[s]).decision = Verdict(s)
<1> DEFINE h == handlers[s]
           ch == flows[s[1]].challenge
           ev == E!DeriveEvidence(EvidenceTypes, ch.required, h.vp.claims, h.evalTime)
           preds == RequiredPredicates(ch.canonical, ch.kind)
           states == {E!PredicateState(p, ev) : p \in preds}
           all == {Truth(p, s) : p \in preds}
<1>1. E!VerifiedReport(h).decision = E!Decide(states)
  BY EngineRequired, ZenonT(40) DEF E!VerifiedReport, E!Report, SameChallenge
<1>2. \A t \in EvidenceTypes :
        ev[t] = IF t \in ch.required THEN DerivedFor(t, h.evalTime) ELSE "MISSING"
  BY EvidenceDerived
<1> HIDE DEF ev
<1>3. \A p : E!PredicateState(p, ev) = CASE Truth(p, s) = "YES" -> "TRUE"
                                         [] Truth(p, s) = "NO" -> "FALSE"
                                         [] OTHER -> "UNKNOWN"
  BY <1>2, PredicateIsTruth
<1>4. \A p : Truth(p, s) \in {"YES", "NO", "OPEN"}
  BY DEF Truth
<1>5. ("FALSE" \in states <=> "NO" \in all) /\ ("UNKNOWN" \in states <=> "OPEN" \in all)
  <2> HIDE DEF preds
  <2>1. QED  BY <1>3, <1>4
<1>6. Verdict(s) = IF "NO" \in all THEN "DENY" ELSE IF "OPEN" \in all THEN "UNKNOWN" ELSE "ALLOW"
  BY DEF Verdict
<1> HIDE DEF states, all
<1>7. QED  BY <1>1, <1>5, <1>6 DEF E!Decide

\* In every state, a client that does as it is told has been answered what the
\* subject's attributes call for, or one of the five causes why not.
THEOREM AnswersHaveCauses == JourneySpec => []AnswerHasCause
<1>1. TypeInv /\ JourneyInv => AnswerHasCause
  <2> SUFFICES ASSUME TypeInv, JourneyInv, NEW s \in Submitted, How(s) = "none"
               PROVE  handlers[s].answer =
                        IF EngineForgot(s) THEN "UNKNOWN_REQUEST"
                        ELSE IF IssuerGone(s) \/ Overdue(s) THEN "DENY"
                        ELSE IF Late(s) THEN "EXPIRED_NONCE"
                        ELSE IF AlreadyTaken(s) THEN "REPLAY_DETECTED"
                        ELSE Verdict(s)
    BY DEF AnswerHasCause
  <2> DEFINE f == s[1]
             h == handlers[s]
             ch == flows[f].challenge
             cred == CredentialOf(f)
             claims == ClaimsToDisclose(ch.required)
  <2>1. /\ s \in DOMAIN handlers /\ h.answer # "NONE" /\ HandlerOk(s) /\ AnswerOk(s)
        /\ f \in Flows /\ s[2] \in 1..Len(flows[f].sent) /\ h.vp = Carried(s)
        /\ h.evalTime \in 0..MaxTime
    BY DEF Submitted, JourneyInv, HandlerOk
  <2>2. f \in issued
    BY <2>1 DEF JourneyInv, FlowOk
  <2>3. ch.audience = DefaultAudience
    BY <2>1, <2>2, ChallengeHeld
  <2>4. CASE EngineForgot(s)
    BY <2>1, <2>4 DEF AnswerOk
  <2>5. CASE ~EngineForgot(s)
    <3>1. /\ Checked(s)
          /\ h.failed # "NONE" => h.answer = "DENY"
          /\ h.failed = "NONE" => h.answer = E!AnswerTo(h, Refused(s))
      BY <2>1, <2>5 DEF AnswerOk
    <3>2. h.vp = ReadVp(PresentVp(IssuedFor(pid, cred), cred.holderKey, claims, DefaultAudience,
                                  ch.nonce))
      BY <2>1 DEF Carried, Altered
    <3>3. /\ SameChallenge(h.challenge, ch)
          /\ h.failed = FailedCheck(h.vp, h.epoch, ch, h.evalTime)
      BY <3>1 DEF Checked
    <3>4. h.vp.claims = [x \in ClaimNames \cap claims |-> ReadClaim(x, pid[x])]
      <4>1. h.vp = RecordOf(pid, cred.issuerKey, cred.holderKey, cred.exp, cred.holderKey, claims,
                            DefaultAudience, ch.nonce)
        BY <3>2, ReadPresented DEF IssuedFor
      <4> HIDE DEF h, claims, cred, ch
      <4>2. QED  BY <4>1 DEF RecordOf, Saying
    <3>5. h.failed = IF IssuerGone(s) THEN "INVALID_SIGNATURE"
                     ELSE IF Overdue(s) THEN "EXPIRED_CREDENTIAL" ELSE "NONE"
      BY <2>3, <3>2, <3>3, BindingNamed DEF IssuerGone, Overdue
    <3>6. E!VerifiedReport(h).decision = Verdict(s)
      BY <2>1, <3>3, <3>4, DecisionIsVerdict
    <3> HIDE DEF h
    <3>7. E!AnswerTo(h, Refused(s)) = IF Late(s) THEN "EXPIRED_NONCE"
                                      ELSE IF AlreadyTaken(s) THEN "REPLAY_DETECTED"
                                      ELSE Verdict(s)
      BY <3>6 DEF E!AnswerTo, Refused
    <3>8. QED  BY <2>5, <3>1, <3>5, <3>7 DEF h
  <2>6. QED  BY <2>4, <2>5
<1>2. QED  BY <1>1, JourneyInvariance, PTL

=============================================================================
