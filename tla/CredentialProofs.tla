-------------------------- MODULE CredentialProofs ---------------------------
(***************************************************************************)
(* What credentials say and what a verifier gets of them: is_over_18 is    *)
(* right on every pair of dates, and a presentation discloses the claims   *)
(* chosen for it, with the values the issuer has signed.                   *)
(***************************************************************************)
EXTENDS SdJwt, TLAPS

YearLength(y) == IF Leap(y) THEN 366 ELSE 365

-----------------------------------------------------------------------------
(***************************************************************************)
(* Years.                                                                  *)
(***************************************************************************)

\* The leap days before a year grow by one after each leap year: quotient by
\* quotient.
LEMMA QuotientStep ==
  ASSUME NEW y \in Nat, NEW k \in {4, 100, 400}
  PROVE  y \div k = (y - 1) \div k + (IF y % k = 0 THEN 1 ELSE 0)
<1>1. CASE k = 4    BY <1>1
<1>2. CASE k = 100  BY <1>2
<1>3. CASE k = 400  BY <1>3
<1>4. QED  BY <1>1, <1>2, <1>3

\* A year of the fourth century is one of the first two kinds as well.
LEMMA MultiplesNest ==
  ASSUME NEW y \in Nat
  PROVE  /\ y % 400 = 0 => y % 100 = 0
         /\ y % 100 = 0 => y % 4 = 0
OBVIOUS

\* A year is as long as its calendar says.
LEMMA NextYear ==
  ASSUME NEW y \in Nat
  PROVE  DaysBeforeYear(y + 1) = DaysBeforeYear(y) + YearLength(y)
<1>1. /\ y \div 4 = (y - 1) \div 4 + (IF y % 4 = 0 THEN 1 ELSE 0)
      /\ y \div 100 = (y - 1) \div 100 + (IF y % 100 = 0 THEN 1 ELSE 0)
      /\ y \div 400 = (y - 1) \div 400 + (IF y % 400 = 0 THEN 1 ELSE 0)
  BY QuotientStep
<1>2. QED  BY <1>1, MultiplesNest DEF DaysBeforeYear, YearLength, Leap

\* The first days of years are integers.
LEMMA YearType ==
  ASSUME NEW y \in Nat
  PROVE  DaysBeforeYear(y) \in Int /\ YearLength(y) \in {365, 366}
BY DEF DaysBeforeYear, YearLength

\* Later years begin later.
LEMMA YearsInOrder ==
  ASSUME NEW y \in Nat, NEW z \in Nat, y <= z
  PROVE  DaysBeforeYear(y) <= DaysBeforeYear(z)
BY DEF DaysBeforeYear

-----------------------------------------------------------------------------
(***************************************************************************)
(* Months.                                                                 *)
(***************************************************************************)

\* A later month begins after the last day of an earlier one.
LEMMA MonthsInOrder ==
  ASSUME NEW y \in Nat, NEW m \in 1..12, NEW n \in 1..12, m < n
  PROVE  DaysBeforeMonth(y, m) + LastDay(y, m) <= DaysBeforeMonth(y, n)
BY DEF DaysBeforeMonth, LastDay

\* The last month ends with the year, the first begins with it.
LEMMA MonthsFillYear ==
  ASSUME NEW y \in Nat, NEW m \in 1..12
  PROVE  /\ DaysBeforeMonth(y, m) \in Nat
         /\ LastDay(y, m) \in 28..31
         /\ DaysBeforeMonth(y, m) + LastDay(y, m) <= YearLength(y)
         /\ m <= 2 => DaysBeforeMonth(y, m) + 29 < YearLength(y)
BY DEF DaysBeforeMonth, LastDay, YearLength

\* Of two years the same month differs by a day at most, and only February does.
LEMMA LastDayVaries ==
  ASSUME NEW y \in Nat, NEW z \in Nat, NEW m \in 1..12
  PROVE  /\ LastDay(y, m) <= LastDay(z, m) + 1
         /\ m # 2 => LastDay(y, m) = LastDay(z, m)
BY DEF LastDay

-----------------------------------------------------------------------------

\* What a date is made of, with the bounds on its day in the year.
LEMMA DateFields ==
  ASSUME NEW d \in Dates
  PROVE  /\ d.year \in Nat /\ d.month \in 1..12 /\ d.day \in 1..31
         /\ d.day <= LastDay(d.year, d.month)
         /\ DayNumber(d) = DaysBeforeYear(d.year) + DaysBeforeMonth(d.year, d.month) + d.day
         /\ ComesOfAge(d) = DaysBeforeYear(d.year + 18)
                              + DaysBeforeMonth(d.year + 18, d.month) + d.day
BY DEF Dates, DayNumber, ComesOfAge

\* Somebody is an adult to is_over_18 exactly from the day on which 18 years of
\* days have passed, whatever the two dates: on the birthday, across leap years,
\* and, for a child of the 29th of February, from the 1st of March.
THEOREM AgeIsExact ==
  \A birth, today \in Dates :
    IsOver18(birth, today) <=> DayNumber(today) >= ComesOfAge(birth)
<1> SUFFICES ASSUME NEW birth \in Dates, NEW today \in Dates
             PROVE  IsOver18(birth, today) <=> DayNumber(today) >= ComesOfAge(birth)
  OBVIOUS
<1> DEFINE b == birth.month  t == today.month
           come == birth.year + 18
<1>1. /\ birth.year \in Nat /\ b \in 1..12 /\ birth.day \in 1..31 /\ come \in Nat
      /\ today.year \in Nat /\ t \in 1..12 /\ today.day \in 1..31
      /\ birth.day <= LastDay(birth.year, b)
      /\ today.day <= LastDay(today.year, t)
      /\ DayNumber(today) = DaysBeforeYear(today.year) + DaysBeforeMonth(today.year, t) + today.day
      /\ ComesOfAge(birth) = DaysBeforeYear(come) + DaysBeforeMonth(come, b) + birth.day
  BY DateFields
<1>2. IsOver18(birth, today) <=>
        today.year > come \/ (today.year = come /\ ~EarlierInYear(today, birth))
  BY <1>1 DEF IsOver18, EarlierInYear
<1>3. /\ DaysBeforeYear(come) \in Int /\ DaysBeforeYear(today.year) \in Int
      /\ YearLength(come) \in {365, 366} /\ YearLength(today.year) \in {365, 366}
      /\ DaysBeforeYear(come + 1) = DaysBeforeYear(come) + YearLength(come)
      /\ DaysBeforeYear(today.year + 1) = DaysBeforeYear(today.year) + YearLength(today.year)
  BY <1>1, YearType, NextYear
<1>4. /\ DaysBeforeMonth(today.year, t) \in Nat /\ LastDay(today.year, t) \in 28..31
      /\ DaysBeforeMonth(today.year, t) + LastDay(today.year, t) <= YearLength(today.year)
  BY <1>1, MonthsFillYear
<1>5. /\ DaysBeforeMonth(come, b) \in Nat /\ LastDay(come, b) \in 28..31
      /\ birth.day <= LastDay(come, b) + 1
      /\ DaysBeforeMonth(come, b) + birth.day <= YearLength(come)
  <2>1. /\ DaysBeforeMonth(come, b) \in Nat /\ LastDay(come, b) \in 28..31
        /\ DaysBeforeMonth(come, b) + LastDay(come, b) <= YearLength(come)
        /\ b <= 2 => DaysBeforeMonth(come, b) + 29 < YearLength(come)
    BY <1>1, MonthsFillYear
  <2>2. /\ LastDay(birth.year, b) \in 28..31
        /\ LastDay(birth.year, b) <= LastDay(come, b) + 1
        /\ b # 2 => LastDay(birth.year, b) = LastDay(come, b)
    BY <1>1, LastDayVaries, MonthsFillYear
  <2>3. b = 2 => LastDay(birth.year, b) <= 29
    BY DEF LastDay
  <2>4. QED  BY <1>1, <1>3, <2>1, <2>2, <2>3
<1>6. CASE today.year > come
  <2>1. DaysBeforeYear(come + 1) <= DaysBeforeYear(today.year)
    BY <1>1, <1>6, YearsInOrder
  <2>2. QED  BY <1>1, <1>2, <1>3, <1>4, <1>5, <1>6, <2>1
<1>7. CASE today.year < come
  <2>1. DaysBeforeYear(today.year + 1) <= DaysBeforeYear(come)
    BY <1>1, <1>7, YearsInOrder
  <2>2. QED  BY <1>1, <1>2, <1>3, <1>4, <1>5, <1>7, <2>1
<1>8. CASE today.year = come
  <2>1. CASE t = b
    BY <1>1, <1>2, <1>3, <1>4, <1>8, <2>1 DEF EarlierInYear
  <2>2. CASE t < b
    <3>1. DaysBeforeMonth(come, t) + LastDay(come, t) <= DaysBeforeMonth(come, b)
      BY <1>1, <2>2, MonthsInOrder
    <3>2. QED  BY <1>1, <1>2, <1>3, <1>4, <1>5, <1>8, <2>2, <3>1 DEF EarlierInYear
  <2>3. CASE t > b
    <3>1. DaysBeforeMonth(come, b) + LastDay(come, b) <= DaysBeforeMonth(come, t)
      BY <1>1, <2>3, MonthsInOrder
    <3>2. QED  BY <1>1, <1>2, <1>3, <1>4, <1>5, <1>8, <2>3, <3>1 DEF EarlierInYear
  <2>4. QED  BY <1>1, <2>1, <2>2, <2>3
<1>9. QED  BY <1>1, <1>6, <1>7, <1>8

LEMMA DayNumberType ==
  ASSUME NEW d \in Dates
  PROVE  DayNumber(d) \in Int /\ ComesOfAge(d) \in Int
<1>1. /\ d.year \in Nat /\ d.year + 18 \in Nat /\ d.month \in 1..12 /\ d.day \in 1..31
  BY DateFields
<1>2. DaysBeforeYear(d.year) \in Int /\ DaysBeforeYear(d.year + 18) \in Int
  BY <1>1, YearType
<1>3. /\ DaysBeforeMonth(d.year, d.month) \in Nat
      /\ DaysBeforeMonth(d.year + 18, d.month) \in Nat
  BY <1>1, MonthsFillYear
<1>4. QED  BY <1>1, <1>2, <1>3, DateFields

\* Who is an adult stays one: no later date, of whatever month, takes it back.
THEOREM AdultForGood ==
  \A birth, today, later \in Dates :
    IsOver18(birth, today) /\ DayNumber(later) >= DayNumber(today) => IsOver18(birth, later)
<1> SUFFICES ASSUME NEW birth \in Dates, NEW today \in Dates, NEW later \in Dates,
                    IsOver18(birth, today), DayNumber(later) >= DayNumber(today)
             PROVE  IsOver18(birth, later)
  OBVIOUS
<1>1. DayNumber(later) >= ComesOfAge(birth)
  BY DayNumberType, AgeIsExact
<1>2. QED  BY <1>1, AgeIsExact

-----------------------------------------------------------------------------
(***************************************************************************)
(* The parts of a presentation.                                            *)
(***************************************************************************)

Parts(s) == {s[i] : i \in DOMAIN s}

NamesDiffer(s) == \A i, j \in DOMAIN s : s[i].name = s[j].name => i = j

\* One more disclosure, or none, behind those selected so far.
LEMMA OneMorePart ==
  ASSUME NEW D, NEW s \in Seq(D), NamesDiffer(s), NEW d \in D, NEW keep,
         keep = << >> \/ (keep = <<d>> /\ \A e \in Parts(s) : e.name # d.name)
  PROVE  /\ s \o keep \in Seq(D)
         /\ Parts(s \o keep) = Parts(s) \cup (IF keep = << >> THEN {} ELSE {d})
         /\ NamesDiffer(s \o keep)
<1>1. CASE keep = << >>
  BY <1>1
<1>2. CASE keep = <<d>> /\ \A e \in Parts(s) : e.name # d.name
  <2>1. /\ s \o keep \in Seq(D) /\ Len(s \o keep) = Len(s) + 1 /\ keep # << >>
        /\ \A i \in 1..Len(s) : (s \o keep)[i] = s[i]
        /\ (s \o keep)[Len(s) + 1] = d
    BY <1>2
  <2> DEFINE u == s \o keep
  <2>2. /\ u \in Seq(D) /\ DOMAIN s = 1..Len(s) /\ DOMAIN u = 1..(Len(s) + 1) /\ Len(s) \in Nat
        /\ \A i \in DOMAIN s : u[i] = s[i]
        /\ u[Len(s) + 1] = d
    BY <2>1
  <2> HIDE DEF u
  <2>3. Parts(u) = Parts(s) \cup {d}
    BY <2>2 DEF Parts
  <2>4. NamesDiffer(u)
    BY <1>2, <2>2 DEF NamesDiffer, Parts
  <2>5. QED BY <2>1, <2>2, <2>3, <2>4 DEF u
<1>3. QED BY <1>1, <1>2

\* Exactly the disclosures of the chosen claims are selected, each once.
LEMMA SelectedParts ==
  ASSUME NEW ds, ds \in [1..4 -> Parts(ds)], NamesDiffer(ds), NEW claims
  PROVE  /\ Selected(ds, claims) \in Seq(Parts(ds))
         /\ Parts(Selected(ds, claims)) = {d \in Parts(ds) : d.name \in claims}
         /\ NamesDiffer(Selected(ds, claims))
<1> DEFINE part(i) == IF ds[i].name \in claims THEN <<ds[i]>> ELSE << >>
           upto0 == << >>
           upto1 == upto0 \o part(1)
           upto2 == upto1 \o part(2)
           upto3 == upto2 \o part(3)
           upto4 == upto3 \o part(4)
           of(n) == {ds[i] : i \in {j \in 1..n : ds[j].name \in claims}}
           Good(u, n) == u \in Seq(Parts(ds)) /\ Parts(u) = of(n) /\ NamesDiffer(u)
<1>1. ASSUME NEW n \in 0..3, NEW u, Good(u, n)
      PROVE  Good(u \o part(n + 1), n + 1)
  <2> DEFINE d == ds[n + 1]
             keep == part(n + 1)
  <2>1. d \in Parts(ds) /\ n + 1 \in DOMAIN ds
    BY <1>1 DEF Parts
  <2>2. \A e \in Parts(u) : e.name # d.name
    BY <1>1, <2>1 DEF NamesDiffer
  <2>3. keep = << >> \/ (keep = <<d>> /\ \A e \in Parts(u) : e.name # d.name)
    BY <2>2
  <2>4. u \in Seq(Parts(ds)) /\ NamesDiffer(u)
    BY <1>1
  <2>5. keep = << >> <=> d.name \notin claims
    OBVIOUS
  <2> HIDE DEF keep, d
  <2>6. /\ u \o keep \in Seq(Parts(ds)) /\ NamesDiffer(u \o keep)
        /\ Parts(u \o keep) = Parts(u) \cup (IF keep = << >> THEN {} ELSE {d})
    BY <2>1, <2>3, <2>4, OneMorePart
  <2>7. of(n + 1) = of(n) \cup (IF d.name \in claims THEN {d} ELSE {})
    BY DEF d
  <2>8. QED BY <1>1, <2>5, <2>6, <2>7 DEF keep
<1>2. Good(upto0, 0)
  BY DEF Parts, NamesDiffer
<1>3. Good(upto4, 4)
  <2> HIDE DEF Good, part, upto0
  <2>1. Good(upto1, 1)  BY <1>1, <1>2
  <2>2. Good(upto2, 2)  BY <1>1, <2>1 DEF upto2
  <2>3. Good(upto3, 3)  BY <1>1, <2>2 DEF upto3
  <2>4. QED  BY <1>1, <2>3 DEF upto4
<1>4. upto4 = Selected(ds, claims)
  BY DEF Selected
<1>5. of(4) = {d \in Parts(ds) : d.name \in claims}
  BY DEF Parts
<1>6. QED  BY <1>3, <1>4, <1>5

\* What an issued credential holds: the four claims of the PID, each disclosed
\* by one part whose digest is signed.
LEMMA IssuedParts ==
  ASSUME NEW key, NEW pid, NEW holder, NEW exp
  PROVE  LET cred == Issue(key, pid, holder, exp)
         IN /\ cred.disclosures \in [1..4 -> Parts(cred.disclosures)]
            /\ NamesDiffer(cred.disclosures)
            /\ Parts(cred.disclosures)
                 = {[salt |-> <<holder, ClaimOrder[i]>>, name |-> ClaimOrder[i],
                     value |-> pid[ClaimOrder[i]]] : i \in 1..4}
            /\ cred.jwt.key = key
            /\ cred.jwt.payload.iss = Iss /\ cred.jwt.payload.exp = exp
            /\ cred.jwt.payload.cnf = holder
            /\ cred.jwt.payload.sd = {Sha256(d) : d \in Parts(cred.disclosures)}
<1> DEFINE ds == [i \in DOMAIN ClaimOrder |->
                    [salt |-> <<holder, ClaimOrder[i]>>, name |-> ClaimOrder[i],
                     value |-> pid[ClaimOrder[i]]]]
           cred == Issue(key, pid, holder, exp)
<1>1. cred.disclosures = ds
  BY DEF Issue
<1>2. DOMAIN ClaimOrder = 1..4
  BY DEF ClaimOrder
<1>3. \A i, j \in 1..4 : ClaimOrder[i] = ClaimOrder[j] => i = j
  BY DEF ClaimOrder
<1>4. ds \in [1..4 -> Parts(ds)] /\ NamesDiffer(ds)
  BY <1>2, <1>3 DEF Parts, NamesDiffer
<1>5. Parts(ds) = {[salt |-> <<holder, ClaimOrder[i]>>, name |-> ClaimOrder[i],
                    value |-> pid[ClaimOrder[i]]] : i \in 1..4}
  BY <1>2 DEF Parts
<1>6. /\ cred.jwt.key = key /\ cred.jwt.payload.iss = Iss /\ cred.jwt.payload.exp = exp
      /\ cred.jwt.payload.cnf = holder
      /\ cred.jwt.payload.sd = {Sha256(ds[i]) : i \in DOMAIN ds}
  BY DEF Issue, JwsSign
<1> HIDE DEF ds, cred
<1>7. {Sha256(ds[i]) : i \in DOMAIN ds} = {Sha256(d) : d \in Parts(ds)}
  BY DEF Parts
<1>8. QED  BY <1>1, <1>4, <1>5, <1>6, <1>7 DEF cred

\* A presentation, part by part: the issuer's JWT, what is selected, and a
\* key-binding JWT over all that is before it.
PresentedAs(vp, jwt, chosen, signer, audience, nonce) ==
  /\ Len(chosen) \in Nat /\ Len(vp) = Len(chosen) + 2
  /\ Len(vp) \in Nat /\ DOMAIN vp = 1..Len(vp) /\ vp \in Seq(Parts(vp))
  /\ vp # << >> /\ vp[1] = jwt
  /\ \A i \in 2..(Len(vp) - 1) : i - 1 \in DOMAIN chosen /\ vp[i] = chosen[i - 1]
  /\ \A j \in DOMAIN chosen : j + 1 \in 2..(Len(vp) - 1) /\ vp[j + 1] = chosen[j]
  /\ Last(vp) = JwsSign(signer, [aud |-> audience, nonce |-> nonce,
                                 sdHash |-> Sha256(Append(<<jwt>> \o chosen, NoPart))])
  /\ Front(vp) = <<jwt>> \o chosen

LEMMA BetweenJwts ==
  ASSUME NEW jwt, NEW D, NEW chosen \in Seq(D), NEW signer, NEW audience, NEW nonce
  PROVE  LET presented == <<jwt>> \o chosen
             kb == JwsSign(signer, [aud |-> audience, nonce |-> nonce,
                                    sdHash |-> Sha256(Append(presented, NoPart))])
         IN PresentedAs(Append(presented, kb), jwt, chosen, signer, audience, nonce)
<1> DEFINE presented == <<jwt>> \o chosen
           kb == JwsSign(signer, [aud |-> audience, nonce |-> nonce,
                                  sdHash |-> Sha256(Append(presented, NoPart))])
           vp == Append(presented, kb)
           Pieces == D \cup {jwt, kb}
<1>1. chosen \in Seq(Pieces) /\ jwt \in Pieces /\ kb \in Pieces
  <2> HIDE DEF kb
  <2>1. QED  OBVIOUS
<1> HIDE DEF Pieces, kb
<1>2. /\ presented \in Seq(Pieces) /\ Len(presented) = Len(chosen) + 1 /\ Len(chosen) \in Nat
      /\ DOMAIN chosen = 1..Len(chosen)
      /\ presented[1] = jwt /\ \A j \in 1..Len(chosen) : presented[j + 1] = chosen[j]
  BY <1>1
<1> HIDE DEF presented
<1>3. /\ vp \in Seq(Pieces) /\ Len(vp) = Len(presented) + 1
      /\ \A i \in 1..Len(presented) : vp[i] = presented[i]
      /\ vp[Len(presented) + 1] = kb
  BY <1>1, <1>2
<1> HIDE DEF vp
<1>4. Last(vp) = kb
  BY <1>2, <1>3 DEF Last
<1>5. Front(vp) = presented
  <2>1. Front(vp) = SubSeq(vp, 1, Len(presented))
    BY <1>2, <1>3 DEF Front
  <2>2. SubSeq(vp, 1, Len(presented)) = presented
    BY <1>2, <1>3
  <2>3. QED  BY <2>1, <2>2
<1>6. \A j \in DOMAIN chosen : j + 1 \in 2..(Len(vp) - 1) /\ vp[j + 1] = chosen[j]
  BY <1>2, <1>3
<1>7. ASSUME NEW i \in 2..(Len(vp) - 1)
      PROVE  i - 1 \in DOMAIN chosen /\ vp[i] = chosen[i - 1]
  <2>1. i - 1 \in DOMAIN chosen /\ (i - 1) + 1 = i
    BY <1>2, <1>3
  <2>2. QED  BY <1>6, <2>1
<1>8. /\ Len(vp) = Len(chosen) + 2 /\ Len(vp) \in Nat /\ DOMAIN vp = 1..Len(vp)
      /\ vp # << >> /\ vp[1] = jwt /\ vp \in Seq(Parts(vp))
  BY <1>2, <1>3 DEF Parts
<1>9. PresentedAs(vp, jwt, chosen, signer, audience, nonce)
  BY <1>2, <1>4, <1>5, <1>6, <1>7, <1>8 DEF PresentedAs, kb, presented
<1>10. QED  BY <1>9 DEF vp, kb, presented

LEMMA PresentedParts ==
  ASSUME NEW key, NEW pid, NEW holder, NEW exp, NEW cred, cred = Issue(key, pid, holder, exp),
         NEW signer, NEW claims, NEW audience, NEW nonce
  PROVE  PresentedAs(PresentVp(cred, signer, claims, audience, nonce), cred.jwt,
                     Selected(cred.disclosures, claims), signer, audience, nonce)
<1> DEFINE ds == cred.disclosures
           chosen == Selected(ds, claims)
<1>1. ds \in [1..4 -> Parts(ds)] /\ NamesDiffer(ds)
  BY IssuedParts
<1> HIDE DEF ds
<1>2. chosen \in Seq(Parts(ds))
  BY <1>1, SelectedParts
<1> HIDE DEF chosen
<1>3. PresentVp(cred, signer, claims, audience, nonce)
        = Append(<<cred.jwt>> \o chosen,
            JwsSign(signer, [aud |-> audience, nonce |-> nonce,
                             sdHash |-> Sha256(Append(<<cred.jwt>> \o chosen, NoPart))]))
  BY DEF PresentVp, chosen, ds
<1>4. PresentedAs(PresentVp(cred, signer, claims, audience, nonce), cred.jwt, chosen,
                  signer, audience, nonce)
  BY <1>2, <1>3, BetweenJwts
<1>5. QED  BY <1>4 DEF chosen, ds

\* A disclosure is not the empty part.
LEMMA DisclosureIsPart ==
  ASSUME NEW salt, NEW name, NEW value
  PROVE  [salt |-> salt, name |-> name, value |-> value] # NoPart
<1>1. DOMAIN [salt |-> salt, name |-> name, value |-> value] = {"salt", "name", "value"}
  OBVIOUS
<1>2. DOMAIN NoPart = {"key", "payload"}
  BY DEF NoPart, JwsSign
<1>3. QED  BY <1>1, <1>2

ClaimNames == {ClaimOrder[i] : i \in 1..4}

Discloses(vp, ds, pid, claims) ==
  /\ DisclosedParts(vp) = {d \in Parts(ds) : d.name \in claims}
  /\ DisclosedClaims(vp) = [x \in ClaimNames \cap claims |-> pid[x]]

\* What the verifier reads of a presentation: the chosen claims, no others,
\* with the values of the PID.
LEMMA PresentDiscloses ==
  ASSUME NEW key, NEW pid, NEW holder, NEW exp, NEW claims,
         NEW signer, NEW audience, NEW nonce
  PROVE  Discloses(PresentVp(Issue(key, pid, holder, exp), signer, claims, audience, nonce),
                   Issue(key, pid, holder, exp).disclosures, pid, claims)
<1> DEFINE cred == Issue(key, pid, holder, exp)
           vp == PresentVp(cred, signer, claims, audience, nonce)
           ds == cred.disclosures
           chosen == Selected(ds, claims)
<1>1. /\ Parts(ds) = {[salt |-> <<holder, ClaimOrder[i]>>, name |-> ClaimOrder[i],
                       value |-> pid[ClaimOrder[i]]] : i \in 1..4}
      /\ ds \in [1..4 -> Parts(ds)] /\ NamesDiffer(ds)
  BY IssuedParts
<1>2. /\ \A i \in 2..(Len(vp) - 1) : i - 1 \in DOMAIN chosen /\ vp[i] = chosen[i - 1]
      /\ \A j \in DOMAIN chosen : j + 1 \in 2..(Len(vp) - 1) /\ vp[j + 1] = chosen[j]
      /\ Len(vp) \in Nat
  <2>1. PresentedAs(vp, cred.jwt, chosen, signer, audience, nonce)
    BY PresentedParts
  <2> HIDE DEF vp, cred, chosen
  <2>2. QED  BY <2>1 DEF PresentedAs
<1> HIDE DEF ds, vp, cred
<1>3. /\ chosen \in Seq(Parts(ds)) /\ NamesDiffer(chosen)
      /\ Parts(chosen) = {d \in Parts(ds) : d.name \in claims}
  BY <1>1, SelectedParts
<1> HIDE DEF chosen
<1>4. \A d \in Parts(ds) : d # NoPart /\ d.name \in ClaimNames /\ d.value = pid[d.name]
  BY <1>1, DisclosureIsPart DEF ClaimNames
<1>5. ASSUME NEW i \in 2..(Len(vp) - 1)
      PROVE  vp[i] \in Parts(chosen) /\ vp[i] # NoPart
  <2>1. vp[i] \in Parts(chosen)
    BY <1>2 DEF Parts
  <2>2. QED  BY <1>3, <1>4, <2>1
<1>6. DisclosedParts(vp) = Parts(chosen)
  <2>1. ASSUME NEW d \in Parts(chosen)
        PROVE  d \in DisclosedParts(vp)
    <3>1. PICK j \in DOMAIN chosen : d = chosen[j]
      BY DEF Parts
    <3>2. QED  BY <1>2, <1>5, <3>1 DEF DisclosedParts
  <2>2. DisclosedParts(vp) \subseteq Parts(chosen)
    BY <1>5 DEF DisclosedParts
  <2>3. QED  BY <2>1, <2>2
<1>7. {d.name : d \in Parts(chosen)} = ClaimNames \cap claims
  <2>1. ASSUME NEW x \in ClaimNames
        PROVE  \E d \in Parts(ds) : d.name = x
    <3>1. PICK i \in 1..4 : x = ClaimOrder[i]
      BY DEF ClaimNames
    <3>2. [salt |-> <<holder, ClaimOrder[i]>>, name |-> ClaimOrder[i],
           value |-> pid[ClaimOrder[i]]] \in Parts(ds)
      BY <1>1
    <3>3. QED  BY <3>1, <3>2
  <2>2. QED  BY <1>3, <1>4, <2>1
<1>8. ASSUME NEW x \in ClaimNames \cap claims
      PROVE  DisclosedClaims(vp)[x] = pid[x]
  <2> DEFINE at == {i \in 2..(Len(vp) - 1) : vp[i] # NoPart /\ vp[i].name = x}
  <2>1. DisclosedClaims(vp)[x] = vp[CHOOSE i \in at : \A j \in at : j <= i].value
    BY <1>6, <1>7 DEF DisclosedClaims
  <2>2. \A i, j \in at : i = j
    <3> SUFFICES ASSUME NEW i \in at, NEW j \in at PROVE i = j
      OBVIOUS
    <3>1. /\ i - 1 \in DOMAIN chosen /\ j - 1 \in DOMAIN chosen
          /\ chosen[i - 1].name = chosen[j - 1].name
      BY <1>2
    <3>2. i - 1 = j - 1
      BY <1>3, <3>1 DEF NamesDiffer
    <3>3. QED  BY <3>2
  <2>3. PICK d \in Parts(chosen) : d.name = x
    BY <1>7
  <2>4. PICK k \in DOMAIN chosen : d = chosen[k]
    BY DEF Parts
  <2>5. k + 1 \in at
    BY <1>2, <1>5, <2>3, <2>4
  <2>6. \E i \in at : \A j \in at : j <= i
    BY <2>2, <2>5
  <2>7. (CHOOSE i \in at : \A j \in at : j <= i) = k + 1
    BY <2>2, <2>5, <2>6
  <2>8. vp[k + 1] = d
    BY <1>2, <2>4
  <2>9. QED  BY <1>3, <1>4, <2>1, <2>3, <2>7, <2>8
<1>9. DOMAIN DisclosedClaims(vp) = ClaimNames \cap claims
  BY <1>6, <1>7 DEF DisclosedClaims
<1>10. DisclosedClaims(vp) = [x \in ClaimNames \cap claims |-> pid[x]]
  <2>1. \E f : DisclosedClaims(vp) = [x \in DOMAIN DisclosedClaims(vp) |-> DisclosedClaims(vp)[x]]
    BY DEF DisclosedClaims
  <2>2. QED  BY <1>8, <1>9, <2>1
<1>11. QED  BY <1>3, <1>6, <1>10 DEF Discloses, ds, vp, cred

=============================================================================
