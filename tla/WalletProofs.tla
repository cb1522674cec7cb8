---------------------------- MODULE WalletProofs ----------------------------
(***************************************************************************)
(* What the wallet promises its subjects, for any number of calls,         *)
(* subjects and restarts.                                                  *)
(***************************************************************************)
EXTENDS WalletSafety, PolicyLemmas

Credentials == [holderKey : Calls, issuerKey : Nat, exp : Nat]

Stages == {"entry", "grant", "issuing", "list", "listing"} \cup Ended

Threads ==
  [op : {"issue", "grant", "present", "decide"}, subject : Subjects, stage : Stages,
   type : EvidenceTypes \cup {"none"}, canonical : Asked \cup {"none"}, epoch : Nat,
   after : SUBSET Calls, credential : SUBSET Credentials, held : SUBSET EvidenceTypes,
   decision : {"none", "ALLOW", "DENY", "UNKNOWN"}]

\* Types, and what relates them: no call comes from a later start of the API,
\* and one that has not ended from this one.
TypeInv ==
  /\ clock \in 0..MaxTime /\ engineEpoch \in Nat /\ apiEpoch \in Nat
  /\ holdings \in [Subjects -> SUBSET EvidenceTypes]
  /\ DOMAIN credentials \subseteq Subjects
  /\ \A s \in DOMAIN credentials : credentials[s] \in Credentials
  /\ DOMAIN calls \subseteq Calls
  /\ \A c \in DOMAIN calls :
       /\ calls[c] \in Threads /\ calls[c].epoch <= apiEpoch
       /\ calls[c].stage \notin Ended => calls[c].epoch = apiEpoch
       /\ calls[c].op = "grant" => calls[c].type \in EvidenceTypes
       /\ calls[c].stage = "grant" => calls[c].op = "grant"

\* The monitor is held by the call that waits for the issuer, on behalf of a
\* subject without a credential.
MonitorHeld ==
  \A c \in DOMAIN calls : calls[c].stage = "issuing" =>
    monitor = {c} /\ calls[c].subject \notin DOMAIN credentials

ServedFromWallet ==
  \A c \in Served : /\ calls[c].subject \in DOMAIN credentials
                    /\ calls[c].credential = {credentials[calls[c].subject]}

WalletInv == TypeInv /\ MonitorHeld /\ ServedFromWallet

\* A step of the thread c, seen from the calls: no other call changes, and an
\* ended one is not c.
Alone(c) ==
  /\ c \in DOMAIN calls => calls[c].stage \notin Ended
  /\ DOMAIN calls' = DOMAIN calls \cup {c}
  /\ \A d \in DOMAIN calls : d # c => calls'[d] = calls[d]
  /\ UNCHANGED apiEpoch

\* What a step of a thread leaves of its record.
Same(h, g) ==
  /\ g.op = h.op /\ g.subject = h.subject /\ g.type = h.type /\ g.canonical = h.canonical
  /\ g.epoch = h.epoch /\ g.after = h.after

-----------------------------------------------------------------------------
(***************************************************************************)
(* Types.                                                                  *)
(***************************************************************************)

LEMMA DecisionWithType ==
  ASSUME NEW x, NEW held
  PROVE  DecisionWith(x, held) \in {"ALLOW", "DENY", "UNKNOWN"}
<1> DEFINE ev == [t \in EvidenceTypes |-> IF t \in held THEN "AVAILABLE" ELSE "MISSING"]
           given == {[type |-> t, state |-> ev[t]] : t \in held}
<1>1. DecisionWith(x, held) = Report(x, KindOf(x), ev, given).decision
  BY DEF DecisionWith
<1> HIDE DEF ev, given
<1>2. Report(x, KindOf(x), ev, given).decision \in {"ALLOW", "DENY", "UNKNOWN"}
  BY ReportDecisionType
<1>3. QED BY <1>1, <1>2

\* A call that arrives.
ReceiveAny(c) ==
  \E s \in Subjects :
    \/ ReceiveIssue(c, s)
    \/ \E type \in Grantable : ReceiveGrant(c, s, type)
    \/ \E x \in Asked : ReceivePresent(c, s, x) \/ ReceiveDecide(c, s, x)

LEMMA Arrival ==
  ASSUME TypeInv, NEW c \in Calls, ReceiveAny(c)
  PROVE  /\ Alone(c) /\ c \notin DOMAIN calls
         /\ UNCHANGED <<clock, engineEpoch, apiEpoch, holdings, credentials, monitor>>
         /\ calls'[c] \in Threads /\ calls'[c].epoch = apiEpoch
         /\ calls'[c].stage \in {"entry", "grant", "list"}
         /\ calls'[c].op = "grant" <=> calls'[c].stage = "grant"
         /\ calls'[c].op = "grant" => calls'[c].type \in EvidenceTypes
         /\ calls'[c].credential = {} /\ calls'[c].held = {} /\ calls'[c].decision = "none"
         /\ \A d \in calls'[c].after : d \in DOMAIN calls /\ calls[d].stage \in Ended
<1>1. PICK op \in {"issue", "grant", "present", "decide"}, s \in Subjects,
           stage \in {"entry", "grant", "list"}, type \in EvidenceTypes \cup {"none"},
           x \in Asked \cup {"none"} :
             /\ Receive(c, op, s, stage, type, x) /\ (op = "grant" <=> stage = "grant")
             /\ op = "grant" => type \in EvidenceTypes
  BY WalletAssumption
  DEF ReceiveAny, ReceiveIssue, ReceiveGrant, ReceivePresent, ReceiveDecide
<1> DEFINE h == [op |-> op, subject |-> s, stage |-> stage, type |-> type, canonical |-> x,
                 epoch |-> apiEpoch,
                 after |-> {d \in DOMAIN calls : op = "decide" /\ calls[d].stage \in Ended},
                 credential |-> {}, held |-> {}, decision |-> "none"]
<1>2. /\ c \notin DOMAIN calls /\ calls' = Put(calls, c, h)
      /\ UNCHANGED <<clock, engineEpoch, apiEpoch, holdings, credentials, monitor>>
  BY <1>1 DEF Receive
<1>3. h \in Threads
  BY <1>1 DEF TypeInv, Threads, Stages
<1>4. /\ h.epoch = apiEpoch /\ h.stage = stage /\ h.op = op /\ h.type = type
      /\ h.credential = {} /\ h.held = {} /\ h.decision = "none"
      /\ \A d \in h.after : d \in DOMAIN calls /\ calls[d].stage \in Ended
  OBVIOUS
<1> HIDE DEF h
<1>5. /\ DOMAIN calls' = DOMAIN calls \cup {c} /\ calls'[c] = h
      /\ \A d \in DOMAIN calls : d # c => calls'[d] = calls[d]
  BY <1>2 DEF Put
<1>6. QED BY <1>1, <1>2, <1>3, <1>4, <1>5 DEF Alone

\* What every step of a thread does to its own record.
LEMMA ThreadStep ==
  ASSUME TypeInv, NEW c \in Calls, Thread(c)
  PROVE  /\ Alone(c) /\ c \in DOMAIN calls /\ calls[c] \in Threads
         /\ calls'[c] \in Threads /\ Same(calls[c], calls'[c])
         /\ calls'[c].stage # "grant"
<1>1. c \in DOMAIN calls /\ calls[c] \in Threads
  BY DEF Thread, Grant, Enter, Issued, IssueFails, StartListing, Decided, DecideFails, At, TypeInv
<1>2. CASE Grant(c)
  BY <1>1, <1>2 DEF Grant, At, Alone, Same, Threads, Stages, Ended
<1>3. CASE Enter(c)
  <2>1. calls[c].stage = "entry" /\ apiEpoch' = apiEpoch
    BY <1>3 DEF Enter, At
  <2>2. CASE calls[c].subject \in DOMAIN credentials
    <3> DEFINE cred == credentials[calls[c].subject]
    <3>1. cred \in Credentials
      BY <2>2 DEF TypeInv
    <3>2. calls' = [calls EXCEPT ![c].stage = "answered", ![c].credential = {cred}]
      BY <1>3, <2>2 DEF Enter
    <3> HIDE DEF cred
    <3>3. QED BY <1>1, <2>1, <3>1, <3>2 DEF Alone, Same, Threads, Stages, Ended
  <2>3. CASE calls[c].subject \notin DOMAIN credentials
    <3>1. calls' = [calls EXCEPT ![c].stage = "issuing"]
      BY <1>3, <2>3 DEF Enter
    <3>2. QED BY <1>1, <2>1, <3>1 DEF Alone, Same, Threads, Stages, Ended
  <2>4. QED BY <2>2, <2>3
<1>4. CASE Issued(c)
  <2> DEFINE cred == [holderKey |-> c, issuerKey |-> engineEpoch, exp |-> clock + CredentialTTL]
  <2>1. cred \in Credentials
    BY WalletAssumption DEF Credentials, TypeInv
  <2>2. /\ calls[c].stage = "issuing" /\ apiEpoch' = apiEpoch
        /\ calls' = [calls EXCEPT ![c].stage = "answered", ![c].credential = {cred}]
    BY <1>4 DEF Issued, At
  <2> HIDE DEF cred
  <2>3. QED BY <1>1, <2>1, <2>2, SMTT(20) DEF Alone, Same, Threads, Stages, Ended
<1>5. CASE IssueFails(c)
  BY <1>1, <1>5 DEF IssueFails, At, Alone, Same, Threads, Stages, Ended
<1>6. CASE StartListing(c)
  BY <1>1, <1>6 DEF StartListing, At, Alone, Same, Threads, Stages, Ended, TypeInv
<1>7. CASE Decided(c)
  <2>1. PICK added \in SUBSET (holdings[calls[c].subject] \ calls[c].held) :
          calls' = [calls EXCEPT
            ![c].stage = "answered", ![c].held = calls[c].held \cup added,
            ![c].decision = DecisionWith(calls[c].canonical, calls[c].held \cup added)]
    BY <1>7 DEF Decided
  <2> DEFINE decision == DecisionWith(calls[c].canonical, calls[c].held \cup added)
  <2>2. decision \in {"ALLOW", "DENY", "UNKNOWN"}
    BY DecisionWithType
  <2>3. calls[c].held \cup added \in SUBSET EvidenceTypes
    BY <1>1 DEF TypeInv, Threads
  <2> HIDE DEF decision
  <2>4. calls[c].stage = "listing" /\ apiEpoch' = apiEpoch
    BY <1>7 DEF Decided, At
  <2>5. calls' = [calls EXCEPT ![c].stage = "answered", ![c].held = calls[c].held \cup added,
                               ![c].decision = decision]
    BY <2>1 DEF decision
  <2>6. QED BY <1>1, <2>2, <2>3, <2>4, <2>5 DEF Alone, Same, Threads, Stages, Ended
<1>8. CASE DecideFails(c)
  BY <1>1, <1>8 DEF DecideFails, At, Alone, Same, Threads, Stages, Ended
<1>9. QED BY <1>2, <1>3, <1>4, <1>5, <1>6, <1>7, <1>8 DEF Thread

\* What a restart of the API does to the calls.
LEMMA RestartStep ==
  ASSUME TypeInv, RestartApi
  PROVE  /\ DOMAIN calls' = DOMAIN calls
         /\ apiEpoch' = apiEpoch + 1
         /\ \A c \in DOMAIN calls :
              /\ calls'[c] \in Threads /\ Same(calls[c], calls'[c])
              /\ calls'[c].credential = calls[c].credential /\ calls'[c].held = calls[c].held
              /\ calls'[c].decision = calls[c].decision
              /\ calls'[c].stage = IF calls[c].stage \in Ended THEN calls[c].stage ELSE "lost"
              /\ calls'[c].epoch # apiEpoch'
<1>1. DOMAIN calls' = DOMAIN calls /\ apiEpoch' = apiEpoch + 1
  BY DEF RestartApi
<1>2. ASSUME NEW c \in DOMAIN calls
      PROVE  /\ calls'[c] \in Threads /\ Same(calls[c], calls'[c])
             /\ calls'[c].credential = calls[c].credential /\ calls'[c].held = calls[c].held
             /\ calls'[c].decision = calls[c].decision
             /\ calls'[c].stage = IF calls[c].stage \in Ended THEN calls[c].stage ELSE "lost"
             /\ calls'[c].epoch # apiEpoch'
  <2>1. /\ calls[c] \in Threads /\ calls[c].epoch <= apiEpoch /\ apiEpoch \in Nat
        /\ calls'[c] = IF calls[c].stage \in Ended THEN calls[c]
                       ELSE [calls[c] EXCEPT !.stage = "lost"]
    BY DEF TypeInv, RestartApi
  <2>2. calls'[c] \in Threads
    BY <2>1 DEF Threads, Stages, Ended
  <2>3. Same(calls[c], calls'[c])
    BY <2>1 DEF Same, Threads
  <2>4. calls'[c].epoch # apiEpoch'
    BY <1>1, <2>1, <2>3 DEF Same, Threads
  <2>5. QED BY <2>1, <2>2, <2>3, <2>4 DEF Threads
<1>3. QED BY <1>1, <1>2

LEMMA TypeStep ==
  ASSUME TypeInv, [Next]_vars
  PROVE  TypeInv'
<1>1. ASSUME NEW c \in Calls, Alone(c), calls'[c] \in Threads, calls'[c].epoch = apiEpoch,
             calls'[c].op = "grant" => calls'[c].type \in EvidenceTypes,
             calls'[c].stage = "grant" => calls'[c].op = "grant"
      PROVE  /\ DOMAIN calls' \subseteq Calls
             /\ \A d \in DOMAIN calls' :
                  /\ calls'[d] \in Threads /\ calls'[d].epoch <= apiEpoch'
                  /\ calls'[d].stage \notin Ended => calls'[d].epoch = apiEpoch'
                  /\ calls'[d].op = "grant" => calls'[d].type \in EvidenceTypes
                  /\ calls'[d].stage = "grant" => calls'[d].op = "grant"
  BY <1>1 DEF TypeInv, Alone, Threads
<1>2. ASSUME NEW c \in Calls, ReceiveAny(c)
      PROVE  TypeInv'
  <2>1. /\ Alone(c) /\ calls'[c] \in Threads /\ calls'[c].epoch = apiEpoch
        /\ UNCHANGED <<clock, engineEpoch, apiEpoch, holdings, credentials>>
        /\ calls'[c].op = "grant" <=> calls'[c].stage = "grant"
        /\ calls'[c].op = "grant" => calls'[c].type \in EvidenceTypes
    BY <1>2, Arrival
  <2>2. QED BY <1>1, <2>1 DEF TypeInv
<1>3. ASSUME NEW c \in Calls, Thread(c)
      PROVE  TypeInv'
  <2>1. /\ Alone(c) /\ c \in DOMAIN calls /\ calls[c] \in Threads
        /\ calls'[c] \in Threads /\ Same(calls[c], calls'[c]) /\ calls'[c].stage # "grant"
    BY <1>3, ThreadStep
  <2>2. /\ calls'[c].epoch = apiEpoch
        /\ calls'[c].op = "grant" => calls'[c].type \in EvidenceTypes
    BY <2>1 DEF Alone, Same, TypeInv
  <2>3. UNCHANGED <<clock, engineEpoch, apiEpoch>>
    BY <1>3 DEF Thread, Grant, Enter, Issued, IssueFails, StartListing, Decided, DecideFails
  <2>4. holdings' \in [Subjects -> SUBSET EvidenceTypes]
    <3>1. CASE Grant(c)
      <4>1. calls[c].type \in EvidenceTypes
        BY <2>1, <3>1 DEF Grant, At, TypeInv, Threads
      <4>2. QED BY <2>1, <3>1, <4>1 DEF Grant, TypeInv, Threads
    <3>2. CASE UNCHANGED holdings
      BY <3>2 DEF TypeInv
    <3>3. QED
      BY <1>3, <3>1, <3>2 DEF Thread, Enter, Issued, IssueFails, StartListing, Decided, DecideFails
  <2>5. /\ DOMAIN credentials' \subseteq Subjects
        /\ \A s \in DOMAIN credentials' : credentials'[s] \in Credentials
    <3>1. CASE Issued(c)
      <4> DEFINE cred == [holderKey |-> c, issuerKey |-> engineEpoch, exp |-> clock + CredentialTTL]
      <4>1. cred \in Credentials
        BY WalletAssumption DEF Credentials, TypeInv
      <4>2. credentials' = Put(credentials, calls[c].subject, cred)
        BY <3>1 DEF Issued
      <4> HIDE DEF cred
      <4>3. QED BY <2>1, <4>1, <4>2 DEF Put, TypeInv, Threads
    <3>2. CASE UNCHANGED credentials
      BY <3>2 DEF TypeInv
    <3>3. QED
      BY <1>3, <3>1, <3>2 DEF Thread, Grant, Enter, IssueFails, StartListing, Decided, DecideFails
  <2>6. QED BY <1>1, <2>1, <2>2, <2>3, <2>4, <2>5 DEF TypeInv
<1>4. CASE Tick \/ RestartEngine \/ UNCHANGED vars
  <2>1. UNCHANGED <<apiEpoch, holdings, credentials, calls>>
    BY <1>4 DEF Tick, RestartEngine, vars
  <2>2. clock' \in 0..MaxTime
    BY <1>4, WalletAssumption DEF Tick, RestartEngine, vars, TypeInv
  <2>3. engineEpoch' \in Nat
    BY <1>4 DEF Tick, RestartEngine, vars, TypeInv
  <2>4. QED BY <2>1, <2>2, <2>3 DEF TypeInv
<1>5. CASE RestartApi
  <2>1. \A c \in DOMAIN calls' :
          /\ calls'[c] \in Threads /\ calls'[c].epoch <= apiEpoch'
          /\ calls'[c].stage \in Ended /\ calls'[c].stage # "grant"
          /\ calls'[c].op = "grant" => calls'[c].type \in EvidenceTypes
    BY <1>5, RestartStep DEF TypeInv, Same, Threads, Ended
  <2>2. DOMAIN calls' \subseteq Calls /\ apiEpoch' \in Nat
    BY <1>5, RestartStep DEF TypeInv
  <2>3. QED BY <1>5, <2>1, <2>2, WalletAssumption DEF TypeInv, RestartApi
<1>6. QED BY <1>2, <1>3, <1>4, <1>5 DEF Next, ReceiveAny

-----------------------------------------------------------------------------
(***************************************************************************)
(* One credential.                                                         *)
(***************************************************************************)

\* A step that moves one call, or none, to a stage outside the issuance, and
\* serves it what the wallet holds, if anything.
LEMMA WalletQuiet ==
  ASSUME WalletInv, NEW c, Alone(c), UNCHANGED credentials,
         calls'[c].stage # "issuing",
         \A d \in DOMAIN calls : d # c /\ calls[d].stage = "issuing" => monitor' = monitor,
         calls'[c].credential # {} =>
           /\ calls'[c].subject \in DOMAIN credentials
           /\ calls'[c].credential = {credentials[calls'[c].subject]}
  PROVE  MonitorHeld' /\ ServedFromWallet'
<1>1. MonitorHeld'
  BY DEF WalletInv, MonitorHeld, Alone
<1>2. ServedFromWallet'
  BY DEF WalletInv, ServedFromWallet, Served, Alone
<1>3. QED BY <1>1, <1>2

LEMMA MonitorEnter ==
  ASSUME WalletInv, NEW c \in Calls, Enter(c)
  PROVE  MonitorHeld' /\ ServedFromWallet'
<1>1. /\ Alone(c) /\ c \in DOMAIN calls /\ calls[c] \in Threads
      /\ Same(calls[c], calls'[c])
  BY ThreadStep DEF WalletInv, Thread
<1>2. monitor = {} /\ UNCHANGED credentials /\ calls[c].stage = "entry"
  BY DEF Enter, At
<1>3. \A d \in DOMAIN calls : calls[d].stage # "issuing"
  BY <1>2 DEF WalletInv, MonitorHeld
<1>4. CASE calls[c].subject \in DOMAIN credentials
  <2>1. /\ calls'[c].stage = "answered" /\ UNCHANGED monitor
        /\ calls'[c].credential = {credentials[calls[c].subject]}
    BY <1>1, <1>4 DEF Enter, Threads
  <2>2. QED BY <1>1, <1>2, <1>4, <2>1, WalletQuiet DEF Same
<1>5. CASE calls[c].subject \notin DOMAIN credentials
  <2>1. calls'[c].stage = "issuing" /\ monitor' = {c}
        /\ calls'[c].credential = calls[c].credential
    BY <1>1, <1>5 DEF Enter, Threads
  <2>2. MonitorHeld'
    BY <1>1, <1>2, <1>3, <1>5, <2>1 DEF MonitorHeld, Alone, Same
  <2>3. ServedFromWallet'
    BY <1>1, <1>2, <2>1 DEF WalletInv, ServedFromWallet, Served, Alone, Same
  <2>4. QED BY <2>2, <2>3
<1>6. QED BY <1>4, <1>5

\* Nobody else has been served in the name of the subject meanwhile.
LEMMA MonitorIssued ==
  ASSUME WalletInv, NEW c \in Calls, Issued(c)
  PROVE  MonitorHeld' /\ ServedFromWallet'
<1> DEFINE cred == [holderKey |-> c, issuerKey |-> engineEpoch, exp |-> clock + CredentialTTL]
           s == calls[c].subject
<1>1. /\ Alone(c) /\ c \in DOMAIN calls /\ calls[c] \in Threads
      /\ Same(calls[c], calls'[c])
  BY ThreadStep DEF WalletInv, Thread
<1>2. /\ calls[c].stage = "issuing" /\ monitor' = {}
      /\ credentials' = Put(credentials, s, cred)
      /\ calls'[c].stage = "answered" /\ calls'[c].credential = {cred}
  <2> HIDE DEF cred
  <2>1. /\ calls[c].stage = "issuing" /\ monitor' = {}
        /\ credentials' = Put(credentials, s, cred)
        /\ calls' = [calls EXCEPT ![c].stage = "answered", ![c].credential = {cred}]
    BY DEF Issued, At, cred
  <2>2. QED BY <1>1, <2>1 DEF Threads
<1> HIDE DEF cred
<1>3. monitor = {c} /\ s \notin DOMAIN credentials
  BY <1>1, <1>2 DEF WalletInv, MonitorHeld
<1>4. \A d \in DOMAIN calls : d # c => calls[d].stage # "issuing"
  <2> SUFFICES ASSUME NEW d \in DOMAIN calls, d # c, calls[d].stage = "issuing" PROVE FALSE
    OBVIOUS
  <2>1. monitor = {d}
    BY DEF WalletInv, MonitorHeld
  <2>2. QED BY <1>3, <2>1
<1>5. /\ DOMAIN credentials' = DOMAIN credentials \cup {s} /\ credentials'[s] = cred
      /\ \A x \in DOMAIN credentials : credentials'[x] = credentials[x]
  BY <1>2, <1>3 DEF Put
<1>6. MonitorHeld'
  BY <1>1, <1>2, <1>4 DEF MonitorHeld, Alone
<1>7. ServedFromWallet'
  BY <1>1, <1>2, <1>5 DEF WalletInv, ServedFromWallet, Served, Alone, Same
<1>8. QED BY <1>6, <1>7

LEMMA MonitorStep ==
  ASSUME WalletInv, [Next]_vars
  PROVE  MonitorHeld' /\ ServedFromWallet'
<1>1. ASSUME NEW c \in Calls, ReceiveAny(c)
      PROVE  MonitorHeld' /\ ServedFromWallet'
  <2>1. /\ Alone(c) /\ UNCHANGED <<credentials, monitor>>
        /\ calls'[c].stage \in {"entry", "grant", "list"} /\ calls'[c].credential = {}
    BY <1>1, Arrival DEF WalletInv
  <2>2. QED BY <2>1, WalletQuiet
<1>2. ASSUME NEW c \in Calls,
             Grant(c) \/ IssueFails(c) \/ StartListing(c) \/ Decided(c) \/ DecideFails(c)
      PROVE  MonitorHeld' /\ ServedFromWallet'
  <2>1. /\ Alone(c) /\ c \in DOMAIN calls /\ calls[c] \in Threads
        /\ Same(calls[c], calls'[c])
    BY <1>2, ThreadStep DEF WalletInv, Thread
  <2>2. UNCHANGED credentials
    BY <1>2 DEF Grant, IssueFails, StartListing, Decided, DecideFails
  <2>3. calls'[c].credential = calls[c].credential /\ calls'[c].stage # "issuing"
    <3>1. CASE Grant(c)
      BY <2>1, <3>1 DEF Grant, Threads
    <3>2. CASE IssueFails(c)
      BY <2>1, <3>2 DEF IssueFails, Threads
    <3>3. CASE StartListing(c)
      BY <2>1, <3>3 DEF StartListing, Threads
    <3>4. CASE Decided(c)
      BY <2>1, <3>4 DEF Decided, Threads
    <3>5. CASE DecideFails(c)
      BY <2>1, <3>5 DEF DecideFails, Threads
    <3>6. QED BY <1>2, <3>1, <3>2, <3>3, <3>4, <3>5
  <2>4. calls[c].epoch = apiEpoch
    BY <2>1 DEF WalletInv, TypeInv, Alone
  <2>5. calls'[c].credential # {} =>
          /\ calls'[c].subject \in DOMAIN credentials
          /\ calls'[c].credential = {credentials[calls'[c].subject]}
    BY <2>1, <2>3, <2>4 DEF WalletInv, ServedFromWallet, Served, Same
  <2>6. ASSUME NEW d \in DOMAIN calls, d # c, calls[d].stage = "issuing"
        PROVE  monitor' = monitor
    <3>1. ~IssueFails(c)
      <4>1. monitor = {d}
        BY <2>6 DEF WalletInv, MonitorHeld
      <4>2. IssueFails(c) => monitor = {c}
        BY DEF IssueFails, At, WalletInv, MonitorHeld
      <4>3. QED BY <2>6, <4>1, <4>2
    <3>2. QED BY <1>2, <3>1 DEF Grant, StartListing, Decided, DecideFails
  <2>7. QED BY <2>1, <2>2, <2>3, <2>5, <2>6, WalletQuiet
<1>3. CASE Tick \/ RestartEngine \/ UNCHANGED vars
  BY <1>3 DEF Tick, RestartEngine, vars, WalletInv, MonitorHeld, ServedFromWallet, Served
<1>4. CASE RestartApi
  BY <1>4, RestartStep DEF WalletInv, MonitorHeld, ServedFromWallet, Served, Ended
<1>5. QED
  BY <1>1, <1>2, <1>3, <1>4, MonitorEnter, MonitorIssued DEF Next, ReceiveAny, Thread

LEMMA WalletInit == Init => WalletInv
<1> SUFFICES ASSUME Init PROVE WalletInv
  OBVIOUS
<1>1. DOMAIN calls = {} /\ DOMAIN credentials = {}
  BY DEF Init
<1>2. QED
  BY <1>1, WalletAssumption
  DEF Init, WalletInv, TypeInv, MonitorHeld, ServedFromWallet, Served

THEOREM WalletInvariance == Spec => []WalletInv
<1>1. WalletInv /\ [Next]_vars => WalletInv'
  BY TypeStep, MonitorStep DEF WalletInv
<1>2. QED BY <1>1, WalletInit, PTL DEF Spec

\* A subject has one credential, however many calls ask for it at once: the
\* monitor is held across the call to the issuer.
THEOREM CredentialIsOne == Spec => []OneCredential
<1>1. WalletInv => OneCredential
  BY DEF WalletInv, ServedFromWallet, OneCredential
<1>2. QED BY <1>1, WalletInvariance, PTL

-----------------------------------------------------------------------------
(***************************************************************************)
(* Grants count.                                                           *)
(***************************************************************************)

\* More evidence keeps a predicate established.
LEMMA MoreKeepsAllow ==
  ASSUME NEW x, NEW A, NEW B, A \subseteq B, DecisionWith(x, A) = "ALLOW"
  PROVE  DecisionWith(x, B) = "ALLOW"
<1> DEFINE ev(S) == [t \in EvidenceTypes |-> IF t \in S THEN "AVAILABLE" ELSE "MISSING"]
           given(S) == {[type |-> t, state |-> ev(S)[t]] : t \in S}
           states(S) == {PredicateState(p, ev(S)) : p \in RequiredPredicates(x, KindOf(x))}
<1>1. \A S : DecisionWith(x, S) = Decide(states(S))
  <2> TAKE S
  <2>1. DecisionWith(x, S) = Report(x, KindOf(x), ev(S), given(S)).decision
    BY DEF DecisionWith
  <2>2. Report(x, KindOf(x), ev(S), given(S)).decision = Decide(states(S))
    <3> HIDE DEF ev, given
    <3>1. QED BY ReportDecision
  <2>3. QED BY <2>1, <2>2
<1>2. ASSUME NEW p \in RequiredPredicates(x, KindOf(x))
      PROVE  PredicateState(p, ev(B)) = "TRUE"
  <2>1. PredicateState(p, ev(A)) = "TRUE"
    <3>1. PredicateState(p, ev(A)) \in states(A)
      OBVIOUS
    <3> HIDE DEF states
    <3>2. "FALSE" \notin states(A) /\ "UNKNOWN" \notin states(A)
      BY <1>1 DEF Decide
    <3>3. QED BY <3>1, <3>2, PredicateStateType
  <2>2. p \in DOMAIN Predicates /\ \E t \in Options(p) : ev(A)[t] = "AVAILABLE"
    BY <2>1 DEF PredicateState, AvailableOptions
  <2>3. PICK t \in Options(p) : ev(A)[t] = "AVAILABLE"
    BY <2>2
  <2>4. t \in EvidenceTypes
    BY <2>2, OptionsType
  <2>5. ev(B)[t] = "AVAILABLE"
    BY <2>3, <2>4
  <2>6. QED BY <2>2, <2>5 DEF PredicateState, AvailableOptions
<1>3. "FALSE" \notin states(B) /\ "UNKNOWN" \notin states(B)
  BY <1>2
<1>4. QED BY <1>1, <1>3 DEF Decide

\* The decision of a call c was made, or is being made, on its listing.
Listed(c) == calls[c].stage = "listing" \/ calls[c].decision # "none"

\* d ended before c began and concerns the same holdings.
Before(d, c) ==
  /\ d \in calls[c].after
  /\ calls[d].subject = calls[c].subject /\ calls[d].epoch = calls[c].epoch

\* A grant of the running API that went past its first step is held, and so is
\* what was listed; a decision is on what was listed.
HeldAtLeast ==
  \A c \in DOMAIN calls :
    /\ (calls[c].op = "grant" /\ calls[c].stage \notin {"grant", "lost"}
          /\ calls[c].epoch = apiEpoch) => calls[c].type \in holdings[calls[c].subject]
    /\ (Listed(c) /\ calls[c].epoch = apiEpoch) => calls[c].held \subseteq holdings[calls[c].subject]
    /\ calls[c].decision # "none" =>
         /\ calls[c].stage = "answered"
         /\ calls[c].decision = DecisionWith(calls[c].canonical, calls[c].held)

EarlierEnded ==
  \A c \in DOMAIN calls : \A d \in calls[c].after : d \in DOMAIN calls /\ calls[d].stage \in Ended

\* A listing has all that was granted, or listed, before its call began.
ListsEarlier ==
  \A c \in DOMAIN calls : Listed(c) =>
    \A d \in calls[c].after : Before(d, c) =>
      /\ calls[d].op = "grant" /\ calls[d].stage # "lost" => calls[d].type \in calls[c].held
      /\ calls[d].decision # "none" => calls[d].held \subseteq calls[c].held

GrantInv == TypeInv /\ HeldAtLeast /\ EarlierEnded /\ ListsEarlier

\* A step of one thread, if its own record is in order afterwards.
LEMMA GrantAlone ==
  ASSUME GrantInv, TypeInv', NEW c, Alone(c),
         \A s \in Subjects : holdings[s] \subseteq holdings'[s],
         (calls'[c].op = "grant" /\ calls'[c].stage \notin {"grant", "lost"}) =>
           calls'[c].type \in holdings'[calls'[c].subject],
         Listed(c)' => calls'[c].held \subseteq holdings'[calls'[c].subject],
         calls'[c].decision # "none" =>
           /\ calls'[c].stage = "answered"
           /\ calls'[c].decision = DecisionWith(calls'[c].canonical, calls'[c].held),
         \A d \in calls'[c].after : d \in DOMAIN calls /\ calls[d].stage \in Ended,
         Listed(c)' => \A d \in calls'[c].after :
           (calls[d].subject = calls'[c].subject /\ calls[d].epoch = calls'[c].epoch) =>
             /\ calls[d].op = "grant" /\ calls[d].stage # "lost" => calls[d].type \in calls'[c].held
             /\ calls[d].decision # "none" => calls[d].held \subseteq calls'[c].held
  PROVE  GrantInv'
<1>1. \A d \in DOMAIN calls : calls[d].stage \in Ended => d # c /\ calls'[d] = calls[d]
  BY DEF Alone
<1>2. EarlierEnded'
  BY <1>1 DEF GrantInv, EarlierEnded, Alone
<1>3. HeldAtLeast'
  <2> SUFFICES ASSUME NEW d \in DOMAIN calls'
               PROVE  /\ (calls'[d].op = "grant" /\ calls'[d].stage \notin {"grant", "lost"}
                            /\ calls'[d].epoch = apiEpoch') =>
                           calls'[d].type \in holdings'[calls'[d].subject]
                      /\ (Listed(d)' /\ calls'[d].epoch = apiEpoch') =>
                           calls'[d].held \subseteq holdings'[calls'[d].subject]
                      /\ calls'[d].decision # "none" =>
                           /\ calls'[d].stage = "answered"
                           /\ calls'[d].decision = DecisionWith(calls'[d].canonical, calls'[d].held)
    BY DEF HeldAtLeast
  <2>1. CASE d = c
    BY <2>1
  <2>2. CASE d # c
    <3>1. d \in DOMAIN calls /\ calls'[d] = calls[d] /\ apiEpoch' = apiEpoch
      BY <2>2 DEF Alone
    <3>2. calls[d].subject \in Subjects
      BY <3>1 DEF GrantInv, TypeInv, Threads
    <3>3. holdings[calls[d].subject] \subseteq holdings'[calls[d].subject]
      BY <3>2
    <3>4. QED BY <3>1, <3>3 DEF GrantInv, HeldAtLeast, Listed
  <2>3. QED BY <2>1, <2>2
<1>4. ListsEarlier'
  <2> SUFFICES ASSUME NEW b \in DOMAIN calls', Listed(b)',
                      NEW d \in calls'[b].after, Before(d, b)'
               PROVE  /\ calls'[d].op = "grant" /\ calls'[d].stage # "lost" =>
                           calls'[d].type \in calls'[b].held
                      /\ calls'[d].decision # "none" => calls'[d].held \subseteq calls'[b].held
    BY DEF ListsEarlier
  <2>1. CASE b = c
    BY <1>1, <2>1 DEF Before
  <2>2. CASE b # c
    <3>1. b \in DOMAIN calls /\ calls'[b] = calls[b]
      BY <2>2 DEF Alone
    <3>2. d \in DOMAIN calls /\ calls'[d] = calls[d]
      BY <1>1, <3>1 DEF GrantInv, EarlierEnded
    <3>3. QED BY <3>1, <3>2 DEF GrantInv, ListsEarlier, Listed, Before
  <2>3. QED BY <2>1, <2>2
<1>5. QED BY <1>2, <1>3, <1>4 DEF GrantInv

LEMMA GrantReceive ==
  ASSUME GrantInv, TypeInv', NEW c \in Calls, ReceiveAny(c)
  PROVE  GrantInv'
<1>1. /\ Alone(c) /\ UNCHANGED holdings
      /\ calls'[c].stage \in {"entry", "grant", "list"}
      /\ calls'[c].op = "grant" <=> calls'[c].stage = "grant"
      /\ calls'[c].held = {} /\ calls'[c].decision = "none"
      /\ \A d \in calls'[c].after : d \in DOMAIN calls /\ calls[d].stage \in Ended
  BY Arrival DEF GrantInv
<1>2. ~Listed(c)'
  BY <1>1 DEF Listed
<1>3. QED BY <1>1, <1>2, GrantAlone

\* The steps that list nothing: only the one that adds a grant changes what is
\* held, and it adds that grant.
LEMMA GrantUnlisting ==
  ASSUME GrantInv, TypeInv', NEW c \in Calls,
         Grant(c) \/ Enter(c) \/ Issued(c) \/ IssueFails(c) \/ DecideFails(c)
  PROVE  GrantInv'
<1>1. /\ Alone(c) /\ c \in DOMAIN calls /\ calls[c] \in Threads
      /\ Same(calls[c], calls'[c])
  BY ThreadStep DEF GrantInv, Thread
<1>2. /\ calls[c].stage \in {"grant", "entry", "issuing", "listing"}
      /\ calls[c].epoch = apiEpoch /\ calls[c].decision = "none"
  <2>1. calls[c].stage \in {"grant", "entry", "issuing", "listing"}
    BY DEF Grant, Enter, Issued, IssueFails, DecideFails, At
  <2>2. QED BY <1>1, <2>1 DEF GrantInv, TypeInv, HeldAtLeast, Alone
<1>3. calls'[c].stage # "listing" /\ calls'[c].decision = "none"
  <2>1. CASE Grant(c)
    BY <1>1, <1>2, <2>1 DEF Grant, Threads
  <2>2. CASE Enter(c)
    BY <1>1, <1>2, <2>2 DEF Enter, Threads
  <2>3. CASE Issued(c)
    <3>1. \E x : calls' = [calls EXCEPT ![c].stage = "answered", ![c].credential = x]
      BY <2>3 DEF Issued
    <3>2. QED BY <1>1, <1>2, <3>1 DEF Threads
  <2>4. CASE IssueFails(c)
    BY <1>1, <1>2, <2>4 DEF IssueFails, Threads
  <2>5. CASE DecideFails(c)
    BY <1>1, <1>2, <2>5 DEF DecideFails, Threads
  <2>6. QED BY <2>1, <2>2, <2>3, <2>4, <2>5
<1>4. ~Listed(c)'
  BY <1>3 DEF Listed
<1>5. \A d \in calls'[c].after : d \in DOMAIN calls /\ calls[d].stage \in Ended
  BY <1>1 DEF GrantInv, EarlierEnded, Same
<1>6. CASE Grant(c)
  <2>1. holdings' = [holdings EXCEPT ![calls[c].subject] = @ \cup {calls[c].type}]
    BY <1>6 DEF Grant
  <2>2. calls[c].subject \in Subjects /\ DOMAIN holdings = Subjects
    BY <1>1 DEF Threads, GrantInv, TypeInv
  <2>3. /\ \A s \in Subjects : holdings[s] \subseteq holdings'[s]
        /\ calls'[c].type \in holdings'[calls'[c].subject]
    BY <1>1, <2>1, <2>2 DEF Same
  <2>4. QED BY <1>1, <1>3, <1>4, <1>5, <2>3, GrantAlone
<1>7. CASE ~Grant(c)
  <2>1. UNCHANGED holdings /\ calls[c].stage \notin {"grant", "lost"}
    BY <1>7 DEF Grant, Enter, Issued, IssueFails, DecideFails, At
  <2>2. calls[c].op = "grant" => calls[c].type \in holdings[calls[c].subject]
    BY <1>1, <1>2, <2>1 DEF GrantInv, HeldAtLeast
  <2>3. QED BY <1>1, <1>3, <1>4, <1>5, <2>1, <2>2, GrantAlone DEF Same
<1>8. QED BY <1>6, <1>7

LEMMA GrantStartListing ==
  ASSUME GrantInv, TypeInv', NEW c \in Calls, StartListing(c)
  PROVE  GrantInv'
<1> DEFINE s == calls[c].subject
<1>1. /\ Alone(c) /\ c \in DOMAIN calls /\ calls[c] \in Threads
      /\ Same(calls[c], calls'[c])
  BY ThreadStep DEF GrantInv, Thread
<1>2. calls[c].stage = "list" /\ UNCHANGED holdings
  BY DEF StartListing, At
<1>3. calls[c].epoch = apiEpoch /\ calls[c].decision = "none"
  BY <1>1, <1>2 DEF GrantInv, TypeInv, HeldAtLeast, Alone
<1>4. calls'[c].held = holdings[s] /\ calls'[c].decision = "none"
  BY <1>1, <1>3 DEF StartListing, Threads
<1>5. \A d \in calls[c].after : d \in DOMAIN calls /\ calls[d].stage \in Ended
  BY <1>1 DEF GrantInv, EarlierEnded
<1>6. ASSUME NEW d \in calls[c].after, calls[d].subject = s, calls[d].epoch = apiEpoch
      PROVE  /\ calls[d].op = "grant" /\ calls[d].stage # "lost" => calls[d].type \in holdings[s]
             /\ calls[d].decision # "none" => calls[d].held \subseteq holdings[s]
  <2>1. d \in DOMAIN calls /\ calls[d].stage # "grant"
    BY <1>5 DEF Ended
  <2>2. QED BY <1>6, <2>1 DEF GrantInv, HeldAtLeast, Listed
<1>7. calls[c].op = "grant" => calls[c].type \in holdings[s]
  BY <1>1, <1>2, <1>3 DEF GrantInv, HeldAtLeast
<1>8. QED BY <1>1, <1>2, <1>3, <1>4, <1>5, <1>6, <1>7, GrantAlone DEF Same

LEMMA GrantDecided ==
  ASSUME GrantInv, TypeInv', NEW c \in Calls, Decided(c)
  PROVE  GrantInv'
<1> DEFINE s == calls[c].subject
<1>1. /\ Alone(c) /\ c \in DOMAIN calls /\ calls[c] \in Threads
      /\ Same(calls[c], calls'[c])
  BY ThreadStep DEF GrantInv, Thread
<1>2. calls[c].stage = "listing" /\ UNCHANGED holdings
  BY DEF Decided, At
<1>3. /\ calls[c].epoch = apiEpoch /\ Listed(c)
      /\ calls[c].held \subseteq holdings[s]
  BY <1>1, <1>2 DEF GrantInv, TypeInv, HeldAtLeast, Listed, Alone
<1>4. PICK added \in SUBSET (holdings[s] \ calls[c].held) :
        calls' = [calls EXCEPT
          ![c].stage = "answered", ![c].held = calls[c].held \cup added,
          ![c].decision = DecisionWith(calls[c].canonical, calls[c].held \cup added)]
  BY DEF Decided
<1>5. /\ calls'[c].held = calls[c].held \cup added /\ calls'[c].stage = "answered"
      /\ calls'[c].decision = DecisionWith(calls[c].canonical, calls[c].held \cup added)
  BY <1>1, <1>4 DEF Threads
<1>6. calls'[c].held \subseteq holdings[s] /\ calls[c].held \subseteq calls'[c].held
  BY <1>3, <1>5
<1>7. \A d \in calls[c].after : d \in DOMAIN calls /\ calls[d].stage \in Ended
  BY <1>1 DEF GrantInv, EarlierEnded
<1>8. ASSUME NEW d \in calls[c].after, calls[d].subject = s, calls[d].epoch = calls[c].epoch
      PROVE  /\ calls[d].op = "grant" /\ calls[d].stage # "lost" => calls[d].type \in calls'[c].held
             /\ calls[d].decision # "none" => calls[d].held \subseteq calls'[c].held
  BY <1>1, <1>3, <1>6, <1>8 DEF GrantInv, ListsEarlier, Before
<1>9. calls[c].op = "grant" => calls[c].type \in holdings[s]
  BY <1>1, <1>2, <1>3 DEF GrantInv, HeldAtLeast
<1>10. calls'[c].decision = DecisionWith(calls'[c].canonical, calls'[c].held)
  BY <1>1, <1>5 DEF Same
<1>11. QED
  BY <1>1, <1>2, <1>5, <1>6, <1>7, <1>8, <1>9, <1>10, GrantAlone DEF Same

LEMMA GrantRestart ==
  ASSUME GrantInv, TypeInv', RestartApi
  PROVE  GrantInv'
<1>1. /\ DOMAIN calls' = DOMAIN calls
      /\ \A c \in DOMAIN calls :
           /\ Same(calls[c], calls'[c]) /\ calls'[c].held = calls[c].held
           /\ calls'[c].decision = calls[c].decision
           /\ calls'[c].stage = IF calls[c].stage \in Ended THEN calls[c].stage ELSE "lost"
           /\ calls'[c].epoch # apiEpoch'
  BY RestartStep DEF GrantInv
<1>2. EarlierEnded'
  BY <1>1 DEF GrantInv, EarlierEnded, Same
<1>3. HeldAtLeast'
  BY <1>1 DEF GrantInv, HeldAtLeast, Same, Ended
<1>4. \A c \in DOMAIN calls : Listed(c)' => Listed(c)
  BY <1>1 DEF Listed, Ended
<1>5. ListsEarlier'
  <2> SUFFICES ASSUME NEW b \in DOMAIN calls, Listed(b)',
                      NEW d \in calls'[b].after, Before(d, b)'
               PROVE  /\ calls'[d].op = "grant" /\ calls'[d].stage # "lost" =>
                           calls'[d].type \in calls'[b].held
                      /\ calls'[d].decision # "none" => calls'[d].held \subseteq calls'[b].held
    BY <1>1 DEF ListsEarlier
  <2>1. Listed(b) /\ d \in calls[b].after /\ d \in DOMAIN calls /\ calls[d].stage \in Ended
    BY <1>1, <1>4 DEF GrantInv, EarlierEnded, Same
  <2>2. Before(d, b)
    BY <1>1, <2>1 DEF Before, Same
  <2>3. QED BY <1>1, <2>1, <2>2 DEF GrantInv, ListsEarlier, Same
<1>6. QED BY <1>2, <1>3, <1>5 DEF GrantInv

THEOREM GrantInvariance == Spec => []GrantInv
<1>1. Init => GrantInv
  BY WalletInit DEF Init, WalletInv, GrantInv, HeldAtLeast, EarlierEnded, ListsEarlier
<1>2. GrantInv /\ TypeInv' /\ [Next]_vars => GrantInv'
  <2> SUFFICES ASSUME GrantInv, TypeInv', [Next]_vars PROVE GrantInv'
    OBVIOUS
  <2>1. CASE \E c \in Calls : ReceiveAny(c)
    BY <2>1, GrantReceive
  <2>2. CASE \E c \in Calls : Thread(c)
    BY <2>2, GrantUnlisting, GrantStartListing, GrantDecided DEF Thread
  <2>3. CASE Tick \/ RestartEngine \/ UNCHANGED vars
    BY <2>3
    DEF Tick, RestartEngine, vars, GrantInv, HeldAtLeast, EarlierEnded, ListsEarlier, Listed, Before
  <2>4. CASE RestartApi
    BY <2>4, GrantRestart
  <2>5. QED BY <2>1, <2>2, <2>3, <2>4 DEF Next, ReceiveAny
<1>3. QED BY <1>1, <1>2, WalletInvariance, PTL DEF Spec, WalletInv

\* A decision counts every grant that was answered, or refused by the issuer,
\* before it began, and is not worse than an earlier one on the same question.
THEOREM GrantsAreCounted == Spec => []GrantsCount
<1>1. GrantInv => GrantsCount
  <2> SUFFICES ASSUME GrantInv, NEW c \in DOMAIN calls, calls[c].decision # "none",
                      NEW d \in calls[c].after,
                      calls[d].subject = calls[c].subject /\ calls[d].epoch = calls[c].epoch
               PROVE  /\ calls[d].op = "grant" /\ calls[d].stage # "lost" =>
                           calls[d].type \in calls[c].held
                      /\ calls[d].decision = "ALLOW" /\ calls[d].canonical = calls[c].canonical =>
                           calls[c].decision = "ALLOW"
    BY DEF GrantsCount
  <2>1. Listed(c) /\ Before(d, c) /\ d \in DOMAIN calls
    BY DEF Listed, Before, GrantInv, EarlierEnded
  <2>2. /\ calls[d].op = "grant" /\ calls[d].stage # "lost" => calls[d].type \in calls[c].held
        /\ calls[d].decision # "none" => calls[d].held \subseteq calls[c].held
    BY <2>1 DEF GrantInv, ListsEarlier
  <2>3. ASSUME calls[d].decision = "ALLOW", calls[d].canonical = calls[c].canonical
        PROVE  calls[c].decision = "ALLOW"
    <3>1. /\ calls[d].decision = DecisionWith(calls[d].canonical, calls[d].held)
          /\ calls[c].decision = DecisionWith(calls[c].canonical, calls[c].held)
      BY <2>1, <2>3 DEF GrantInv, HeldAtLeast
    <3>2. QED BY <2>2, <2>3, <3>1, MoreKeepsAllow
  <2>4. QED BY <2>2, <2>3
<1>2. QED BY <1>1, GrantInvariance, PTL

-----------------------------------------------------------------------------
(***************************************************************************)
(* What the engine makes of an honest presentation.                        *)
(***************************************************************************)

\* The wallet discloses the claim that the verifier maps a requested type to.
LEMMA ClaimDisclosed ==
  ASSUME NEW required, NEW t \in required, RequiredClaimFor(t) # "none"
  PROVE  RequiredClaimFor(t) \in DOMAIN DemoClaims \cap ClaimsToDisclose(required)
<1>1. CASE t = "AGE_ATTESTATION"
  BY <1>1 DEF RequiredClaimFor, DemoClaims, ClaimsToDisclose
<1>2. CASE t = "GOVERNMENT_IDENTITY"
  BY <1>2 DEF RequiredClaimFor, DemoClaims, ClaimsToDisclose
<1>3. CASE t = "RESIDENCE_CREDENTIAL"
  BY <1>3 DEF RequiredClaimFor, DemoClaims, ClaimsToDisclose
<1>4. QED BY <1>1, <1>2, <1>3 DEF RequiredClaimFor

\* And what it discloses establishes that type.
LEMMA DemoEvidence ==
  ASSUME NEW required, NEW time \in Nat, NEW claims,
         claims = [x \in DOMAIN DemoClaims \cap ClaimsToDisclose(required) |-> DemoClaims[x]],
         NEW t \in EvidenceTypes
  PROVE  DeriveEvidence(EvidenceTypes, required, claims, time)[t]
           = IF t \in required /\ RequiredClaimFor(t) # "none" THEN "AVAILABLE" ELSE "MISSING"
<1> DEFINE disclosed == DOMAIN DemoClaims \cap ClaimsToDisclose(required)
           x == RequiredClaimFor(t)
<1> claims = [y \in disclosed |-> DemoClaims[y]]
  OBVIOUS
<1>1. DeriveEvidence(EvidenceTypes, required, claims, time)[t]
        = IF t \in required /\ x \in disclosed \ {"none"}
          THEN DeriveState(t, claims[x], time) ELSE "MISSING"
  BY DEF DeriveEvidence
<1>2. t \in required /\ x # "none" => x \in disclosed
  BY ClaimDisclosed
<1>3. ASSUME x # "none", x \in disclosed
      PROVE  DeriveState(t, claims[x], time) = "AVAILABLE"
  <2>1. claims[x] = DemoClaims[x]
    BY <1>3
  <2>2. DeriveState(t, DemoClaims[x], time) = "AVAILABLE"
    BY <1>3 DEF DeriveState, RequiredClaimFor, DemoClaims
  <2>3. QED BY <2>1, <2>2
<1> HIDE DEF disclosed, x
<1>4. DeriveEvidence(EvidenceTypes, required, claims, time)[t]
        = IF t \in required /\ x # "none" THEN "AVAILABLE" ELSE "MISSING"
  BY <1>1, <1>2, <1>3
<1>5. QED BY <1>4 DEF x

\* On evidence that is available or missing, a question is allowed if each of
\* its predicates has an available option, and undecided if not.
LEMMA AvailableOrOpen ==
  ASSUME NEW x, NEW kind, NEW given, NEW ev,
         \A t \in EvidenceTypes : ev[t] \in {"AVAILABLE", "MISSING"}
  PROVE  Report(x, kind, ev, given).decision =
           IF \A p \in RequiredPredicates(x, kind) :
                p \in DOMAIN Predicates /\ \E t \in Options(p) : ev[t] = "AVAILABLE"
           THEN "ALLOW" ELSE "UNKNOWN"
<1> DEFINE states == {PredicateState(p, ev) : p \in RequiredPredicates(x, kind)}
           Shown(p) == p \in DOMAIN Predicates /\ \E t \in Options(p) : ev[t] = "AVAILABLE"
<1>1. Report(x, kind, ev, given).decision = Decide(states)
  BY ReportDecision
<1>2. ASSUME NEW p
      PROVE  PredicateState(p, ev) = IF Shown(p) THEN "TRUE" ELSE "UNKNOWN"
  <2>1. CASE p \notin DOMAIN Predicates
    BY <2>1 DEF PredicateState
  <2>2. CASE p \in DOMAIN Predicates
    <3>1. RefutingOptions(p, ev) = {}
      BY <2>2, OptionsType DEF RefutingOptions
    <3>2. AvailableOptions(p, ev) # {} <=> \E t \in Options(p) : ev[t] = "AVAILABLE"
      BY DEF AvailableOptions
    <3>3. QED BY <2>2, <3>1, <3>2 DEF PredicateState
  <2>3. QED BY <2>1, <2>2
<1> HIDE DEF Shown
<1>3. "FALSE" \notin states
  BY <1>2
<1>4. "UNKNOWN" \in states <=> \E p \in RequiredPredicates(x, kind) : ~Shown(p)
  BY <1>2
<1> HIDE DEF states
<1>5. Decide(states) = IF \A p \in RequiredPredicates(x, kind) : Shown(p) THEN "ALLOW" ELSE "UNKNOWN"
  BY <1>3, <1>4 DEF Decide
<1>6. QED BY <1>1, <1>5 DEF Shown

\* An honest presentation fails no check but the issuer's key and the term of
\* the credential, and is never denied: the two claim tables, the wallet's and
\* the verifier's, fit together for every registry.
THEOREM HonestIsAllowed == Spec => []HonestPresentationAllowed
<1>1. ASSUME TypeInv, NEW c \in Presented
      PROVE  LET ch   == ChallengeFor(c, calls[c].canonical)
                 cred == CHOOSE x \in calls[c].credential : TRUE
             IN FailedCheck(VpOf(c), engineEpoch, ch, clock) =
                  IF cred.issuerKey # engineEpoch THEN "INVALID_SIGNATURE"
                  ELSE IF clock > cred.exp THEN "EXPIRED_CREDENTIAL" ELSE "NONE"
  BY DEF VpOf, Vp, ChallengeFor, FailedCheck
<1>2. ASSUME TypeInv, NEW c \in Presented
      PROVE  EngineDecision(c) =
               IF Claimable(ChallengeFor(c, calls[c].canonical)) THEN "ALLOW" ELSE "UNKNOWN"
  <2> DEFINE ch == ChallengeFor(c, calls[c].canonical)
             ev == DeriveEvidence(EvidenceTypes, ch.required, VpOf(c).claims, clock)
             given == {[type |-> t, state |-> ev[t]] : t \in ch.required}
  <2>1. EngineDecision(c) = Report(ch.canonical, ch.kind, ev, given).decision
    BY DEF EngineDecision
  <2>2. VpOf(c).claims
          = [x \in DOMAIN DemoClaims \cap ClaimsToDisclose(ch.required) |-> DemoClaims[x]]
    BY DEF VpOf, Vp
  <2>3. \A t \in EvidenceTypes :
          ev[t] = IF t \in ch.required /\ RequiredClaimFor(t) # "none"
                  THEN "AVAILABLE" ELSE "MISSING"
    <3> DEFINE required == ch.required
               claims == VpOf(c).claims
    <3>1. ev = DeriveEvidence(EvidenceTypes, required, claims, clock) /\ clock \in Nat
      BY <1>2 DEF TypeInv
    <3>2. claims = [x \in DOMAIN DemoClaims \cap ClaimsToDisclose(required) |-> DemoClaims[x]]
      BY <2>2
    <3> HIDE DEF ev, claims, required
    <3>3. \A t \in EvidenceTypes :
            ev[t] = IF t \in required /\ RequiredClaimFor(t) # "none"
                    THEN "AVAILABLE" ELSE "MISSING"
      BY <3>1, <3>2, DemoEvidence
    <3>4. QED BY <3>3 DEF required
  <2> HIDE DEF ch, ev, given
  <2>4. Report(ch.canonical, ch.kind, ev, given).decision =
          IF \A p \in RequiredPredicates(ch.canonical, ch.kind) :
               p \in DOMAIN Predicates /\ \E t \in Options(p) : ev[t] = "AVAILABLE"
          THEN "ALLOW" ELSE "UNKNOWN"
    BY <2>3, AvailableOrOpen
  <2>5. ASSUME NEW p \in DOMAIN Predicates
        PROVE  (\E t \in Options(p) : ev[t] = "AVAILABLE")
                 <=> \E t \in Options(p) \cap ch.required : RequiredClaimFor(t) # "none"
    BY <2>3, OptionsType
  <2>6. QED BY <2>1, <2>4, <2>5 DEF Claimable, ch
<1>3. TypeInv => HonestPresentationAllowed
  BY <1>1, <1>2 DEF HonestPresentationAllowed
<1>4. QED BY <1>3, WalletInvariance, PTL DEF WalletInv

=============================================================================
