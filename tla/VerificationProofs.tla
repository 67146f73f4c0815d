------------------------- MODULE VerificationProofs -------------------------
(***************************************************************************)
(* Proofs about the verification of a credential, on top of the proof that  *)
(* the walk recovers it: any number of certificates, any clock.             *)
(***************************************************************************)
EXTENDS Verification, AstWalkerProofs

-----------------------------------------------------------------------------
(* The credential that is verified                                         *)

\* Whatever the walk read, it is a sequence of certificates.
LEMMA CertsType ==
  ASSUME WalkTypeOK
  PROVE  /\ Certs \in Seq(Drafts) /\ Len(Certs) \in Nat
         /\ DOMAIN Certs = 1 .. Len(Certs)
<1>1. credential \in [pubKey : Seq(Labels), certificates : Seq(Drafts)]
  BY Zenon DEF WalkTypeOK
<1>2. PICK K, D : K = Seq(Labels) /\ D = Drafts OBVIOUS
<1>3. credential \in [pubKey : K, certificates : Seq(D)] BY <1>1, <1>2, Zenon
<1>4. Certs \in Seq(D) BY <1>3 DEF Certs
<1>5. Len(Certs) \in Nat /\ DOMAIN Certs = 1 .. Len(Certs) BY <1>4
<1> QED BY <1>2, <1>4, <1>5, Zenon

\* What finalize() makes of the certificates.
LEMMA FinalizeIs ==
  ASSUME source \in Credentials, credential = finalize(source)
  PROVE  credential.certificates =
           [n \in DOMAIN source.certificates |->
              [source.certificates[n] EXCEPT !.certStr =
                 FlattenSeq(source.certificates[n].clauses)
                   \o source.certificates[n].startTime
                   \o source.certificates[n].stopTime]]
<1>1. source = [pubKey |-> source.pubKey, certificates |-> source.certificates]
  BY SourceParts, Zenon
<1> QED BY <1>1 DEF finalize

\* finalize() gives the certificates their signed text and changes nothing else.
Sent == source.certificates

LEMMA FinalizeKeeps ==
  ASSUME source \in Credentials, credential = finalize(source)
  PROVE  /\ credential.pubKey = source.pubKey
         /\ DOMAIN Certs = DOMAIN Sent
         /\ \A n \in DOMAIN Sent :
              /\ Certs[n].clauses = Sent[n].clauses
              /\ Certs[n].pubKey = Sent[n].pubKey
<1>1. Sent \in Seq(Certificates) BY SourceParts, Zenon DEF Sent
<1>2. \A n \in DOMAIN Sent : Sent[n] \in Certificates BY <1>1, ElementOfSeq
<1>3. PICK str : /\ credential.pubKey = source.pubKey
                 /\ Certs = [n \in DOMAIN Sent |->
                               [Sent[n] EXCEPT !.certStr = str[n]]]
  <2> DEFINE f == [n \in DOMAIN Sent |-> FlattenSeq(Sent[n].clauses)
                     \o Sent[n].startTime \o Sent[n].stopTime]
  <2>1. source = [pubKey |-> source.pubKey, certificates |-> source.certificates]
    BY SourceParts, Zenon
  <2>2. \A n \in DOMAIN Sent : f[n] = FlattenSeq(Sent[n].clauses)
                     \o Sent[n].startTime \o Sent[n].stopTime
    BY Zenon
  <2>3. credential.pubKey = source.pubKey
    BY <2>1 DEF finalize
  <2>4. Certs = [n \in DOMAIN Sent |-> [Sent[n] EXCEPT !.certStr =
             FlattenSeq(Sent[n].clauses) \o Sent[n].startTime
               \o Sent[n].stopTime]]
    BY FinalizeIs, Zenon DEF Certs, Sent
  <2> HIDE DEF f
  <2>5. Certs = [n \in DOMAIN Sent |-> [Sent[n] EXCEPT !.certStr = f[n]]]
    BY <2>2, <2>4, Zenon
  <2> QED BY <2>3, <2>5, Zenon
<1>4. DOMAIN Certs = DOMAIN Sent BY <1>3, Zenon
<1>5. ASSUME NEW n \in DOMAIN Sent
      PROVE  /\ Certs[n].clauses = Sent[n].clauses
             /\ Certs[n].pubKey = Sent[n].pubKey
  <2>1. Certs[n] = [Sent[n] EXCEPT !.certStr = str[n]] BY <1>3, Zenon
  <2>2. Sent[n] \in Certificates BY <1>2, Zenon
  <2> QED BY <2>1, <2>2 DEF Certificates
<1> QED BY <1>3, <1>4, <1>5, Zenon

-----------------------------------------------------------------------------
(* The invariant of the verification                                       *)

LEMMA CheckInitially == ASSUME CheckInit PROVE CheckInv
<1>1. Init /\ pc = "makeCredential" BY Zenon DEF CheckInit, Init
<1>2. Len(Certs) \in Nat BY <1>1, WalkInit, CertsType, Zenon DEF WalkInv
<1>0. /\ idx = 1 /\ now = 0 /\ since = 0 /\ transformed = <<>>
      /\ accepted = <<>> /\ ~validate /\ verdict = TRUE
  BY Zenon DEF CheckInit
<1>3. StageInv BY <1>1 DEF CheckInit, StageInv, Walking, Verifying, LetThrough
<1>4. VerdictInv
  <2>1. <<>> \in Seq(BOOLEAN) /\ Len(<<>>) = 1 - 1 /\ 1 .. 1 - 1 = {} OBVIOUS
  <2>2. 1 \in 1 .. Len(Certs) + 1 BY <1>2
  <2> QED BY <1>0, <2>1, <2>2, Zenon DEF VerdictInv
<1>5. LinesInv
  <2>1. pc \notin Verifying /\ pc \notin {"request", "queried"}
    BY <1>1 DEF Verifying
  <2> QED BY <2>1, Zenon DEF LinesInv
<1>6. ClockInv
  <2>1. 0 \in Nat /\ 0 \in 0 .. 0 OBVIOUS
  <2> QED BY <1>0, <2>1, Zenon DEF ClockInv, AcceptedInTime
<1> QED BY <1>3, <1>4, <1>5, <1>6, Zenon DEF CheckInv

LEMMA TimesAreInts == ASSUME NEW t PROVE getUTCTimeSec(t) \in Int
<1>1. UTCTime \in [Times -> Int] /\ OtherTime \in Int
  BY ClauseAssumption, Zenon
<1>2. t \in DOMAIN UTCTime => UTCTime[t] \in Int BY <1>1, Zenon
<1>3. 0 \in Int OBVIOUS
<1> QED BY <1>1, <1>2, <1>3, Zenon DEF getUTCTimeSec

LEMMA AcceptedAreCerts ==
  ASSUME WalkTypeOK, VerdictInv, NEW n \in DOMAIN accepted
  PROVE  n \in DOMAIN Certs /\ n \in 1 .. idx - 1
<1>1. Len(Certs) \in Nat /\ DOMAIN Certs = 1 .. Len(Certs) BY CertsType, Zenon
<1>2. /\ idx \in 1 .. Len(Certs) + 1
      /\ accepted \in Seq(BOOLEAN) /\ Len(accepted) = idx - 1
  BY Zenon DEF VerdictInv
<1>3. n \in 1 .. idx - 1 BY <1>2
<1>4. n \in 1 .. Len(Certs) BY <1>1, <1>2, <1>3
<1> QED BY <1>1, <1>3, <1>4, Zenon

\* A certificate that is in its time.
TimelyFor(c, t) ==
  /\ getUTCTimeSec(c.startTime) <= t
  /\ since < getUTCTimeSec(c.stopTime)
  /\ getUTCTimeSec(c.startTime) < getUTCTimeSec(c.stopTime)

LEMMA InTimeIs ==
  AcceptedInTime <=>
    (validate => \A n \in DOMAIN accepted :
                   accepted[n] => TimelyFor(Certs[n], now))
BY Zenon DEF AcceptedInTime, TimelyFor

\* What a step that looks at no certificate has to leave alone.
LEMMA CheckFrame ==
  ASSUME CheckInv, Certs' = Certs,
         pc' \in {"request", "queried"} =>
           binder' = <<PolicyText>> \o FlattenSeq(transformed'),
         StageInv', idx' = idx, accepted' = accepted, verdict' = verdict,
         transformed' = transformed, validate' = validate, since' = since,
         now' \in Nat, now <= now',
         pc' \in Verifying => pc \in Verifying
  PROVE  CheckInv'
<1>2. VerdictInv' BY Zenon DEF CheckInv, VerdictInv
<1>4. LinesInv' BY Zenon DEF CheckInv, LinesInv
<1>5. ClockInv'
  <2>0. now \in Nat /\ since \in 0 .. now BY Zenon DEF CheckInv, ClockInv
  <2>1. since' \in 0 .. now' BY <2>0
  <2>2. ASSUME NEW n \in DOMAIN accepted, accepted[n], validate
        PROVE  /\ getUTCTimeSec(Certs[n].startTime) <= now'
               /\ since < getUTCTimeSec(Certs[n].stopTime)
               /\ getUTCTimeSec(Certs[n].startTime)
                    < getUTCTimeSec(Certs[n].stopTime)
    <3>1. TimelyFor(Certs[n], now)
      BY <2>2, InTimeIs, Zenon DEF CheckInv, ClockInv
    <3>2. PICK a, b : /\ a = getUTCTimeSec(Certs[n].startTime)
                      /\ b = getUTCTimeSec(Certs[n].stopTime)
      OBVIOUS
    <3>3. a \in Int BY <3>2, TimesAreInts, Zenon
    <3>4. a <= now /\ since < b /\ a < b BY <3>1, <3>2, Zenon DEF TimelyFor
    <3>5. a <= now' BY <2>0, <3>3, <3>4
    <3> QED BY <3>2, <3>4, <3>5, Zenon
  <2>3. AcceptedInTime' BY <2>2, Zenon DEF AcceptedInTime
  <2> QED BY <2>1, <2>3, Zenon DEF ClockInv
<1> QED BY <1>2, <1>4, <1>5, Zenon DEF CheckInv

\* No answer yet.
LEMMA NoAnswer ==
  ASSUME CheckInv, idx = 1 PROVE DOMAIN accepted = {} /\ verdict /\ Len(accepted) = 0
<1>1. accepted \in Seq(BOOLEAN) /\ Len(accepted) = idx - 1
  BY Zenon DEF CheckInv, VerdictInv
<1>2. Len(accepted) = 0 /\ DOMAIN accepted = 1 .. 0 /\ 1 .. idx - 1 = {}
  BY <1>1
<1>3. DOMAIN accepted = {} BY <1>2
<1>4. verdict <=> \A n \in 1 .. idx - 1 : accepted[n]
  BY Zenon DEF CheckInv, VerdictInv
<1> QED BY <1>2, <1>3, <1>4, Zenon

\* A step of the walk.
LEMMA WalkChecks ==
  ASSUME WalkInv, CheckInv, Next, UNCHANGED checkVars PROVE CheckInv'
<1>1. pc \in Walking /\ pc' \in Walking \cup {"done"}
  BY DEF Next, makeCredential, credentialKey, makeCertificate, clauses,
         getClauseStr, certificateKey, signature, Part, Walking
<1>2. /\ pc \notin Verifying
      /\ pc' \notin Verifying \cup LetThrough \cup {"request", "queried"}
  BY <1>1 DEF Walking, Verifying, LetThrough
<1>3. /\ idx' = idx /\ accepted' = accepted /\ verdict' = verdict /\ now' = now
      /\ transformed' = transformed /\ validate' = validate /\ since' = since
  BY Zenon DEF checkVars
<1>4. WalkTypeOK' BY WalkTypes, Zenon DEF WalkInv
<1>5. idx = 1 BY <1>2, Zenon DEF CheckInv, StageInv
<1>6. StageInv' BY <1>1, <1>2, <1>3, <1>5, Zenon DEF StageInv
<1>7. VerdictInv'
  <2>1. (Len(Certs) \in Nat)' BY <1>4, CertsType
  <2>2. 1 \in 1 .. Len(Certs') + 1 BY <2>1
  <2>3. /\ accepted \in Seq(BOOLEAN) /\ Len(accepted) = idx - 1
        /\ verdict <=> \A n \in 1 .. idx - 1 : accepted[n]
    BY Zenon DEF CheckInv, VerdictInv
  <2> QED BY <1>3, <1>5, <2>2, <2>3, Zenon DEF VerdictInv
<1>8. LinesInv' BY <1>2, Zenon DEF LinesInv
<1>9. ClockInv'
  <2>1. DOMAIN accepted = {} BY <1>5, NoAnswer, Zenon
  <2>2. now \in Nat /\ since \in 0 .. now BY Zenon DEF CheckInv, ClockInv
  <2> QED BY <1>3, <2>1, <2>2, Zenon DEF ClockInv, AcceptedInTime
<1> QED BY <1>6, <1>7, <1>8, <1>9, Zenon DEF CheckInv

\* verifyCredential() begins with no answer and no line.
LEMMA BeginStep ==
  ASSUME WalkInv, CheckInv, verifyCredential,
         credential' = credential PROVE CheckInv'
<1>1. pc = "done" /\ pc' = "verify" BY DEF verifyCredential
<1>2. pc \notin Verifying
      /\ pc' \in Verifying /\ pc' \notin LetThrough \cup {"request", "queried"}
  BY <1>1 DEF Verifying, LetThrough
<1>3. Len(Certs) \in Nat /\ DOMAIN Certs = 1 .. Len(Certs)
  BY CertsType, Zenon DEF WalkInv
<1>4. Certs' = Certs BY Zenon DEF Certs
<1>5. /\ since' = now /\ now' = now /\ idx' = idx /\ verdict' = verdict
      /\ accepted' = accepted
      /\ transformed' = [n \in DOMAIN Certs |-> <<>>]
  BY Zenon DEF verifyCredential, Certs
<1>6. idx = 1 BY <1>2, Zenon DEF CheckInv, StageInv
<1>7. StageInv' BY <1>2, Zenon DEF StageInv
<1>8. VerdictInv' BY <1>4, <1>5, Zenon DEF CheckInv, VerdictInv
<1>9. LinesInv'
  <2>1. ASSUME NEW n \in DOMAIN Certs PROVE ~(n < idx)
    <3>1. n \in 1 .. Len(Certs) BY <1>3, Zenon
    <3> QED BY <1>3, <1>6, <3>1
  <2>2. transformed' =
          [n \in DOMAIN Certs |->
             IF n < idx /\ accepted[n] THEN Lines(Certs[n]) ELSE <<>>]
    BY <1>5, <2>1, Zenon
  <2> QED BY <1>2, <1>4, <1>5, <2>2, Zenon DEF LinesInv
<1>10. ClockInv'
  <2>1. now' \in Nat BY <1>5, Zenon DEF CheckInv, ClockInv
  <2>2. since' \in 0 .. now' BY <1>5, <2>1
  <2>3. DOMAIN accepted = {} BY <1>6, NoAnswer, Zenon
  <2> QED BY <1>5, <2>1, <2>2, <2>3, Zenon DEF ClockInv, AcceptedInTime
<1> QED BY <1>7, <1>8, <1>9, <1>10, Zenon DEF CheckInv

LEMMA TickStep ==
  ASSUME WalkInv, CheckInv, Tick, credential' = credential PROVE CheckInv'
<1>1. /\ pc \in {"done", "verify"} /\ pc' = pc /\ now' = now + 1
      /\ idx' = idx /\ accepted' = accepted /\ verdict' = verdict
      /\ transformed' = transformed /\ validate' = validate /\ since' = since
  BY Zenon DEF Tick
<1>2. pc' \notin LetThrough \cup {"request", "queried"}
  BY <1>1 DEF LetThrough
<1>3. now \in Nat BY Zenon DEF CheckInv, ClockInv
<1>4. now' \in Nat /\ now <= now' BY <1>1, <1>3
<1>5. StageInv' BY <1>1, <1>2, Zenon DEF CheckInv, StageInv
<1>6. Certs' = Certs BY Zenon DEF Certs
<1> QED BY <1>1, <1>2, <1>4, <1>5, <1>6, CheckFrame, Zenon

\* Behind the loop: the verdict decides, the client authenticates, the binder
\* file is written, a request comes.
LEMMA BehindStep ==
  ASSUME WalkInv, CheckInv, credential' = credential,
         verified \/ authenticateClient \/ writeBinderFile \/ processRequest
  PROVE  CheckInv'
<1>1. /\ idx' = idx /\ accepted' = accepted /\ verdict' = verdict
      /\ transformed' = transformed /\ validate' = validate /\ since' = since
      /\ now' = now
  BY Zenon DEF verified, authenticateClient, writeBinderFile, processRequest,
               checkVars
<1>2. Certs' = Certs BY Zenon DEF Certs
<1>3. now \in Nat BY Zenon DEF CheckInv, ClockInv
<1>4. now' \in Nat /\ now <= now' BY <1>1, <1>3
<1>5. pc \in Verifying /\ pc' \in Verifying
  BY DEF verified, authenticateClient, writeBinderFile, processRequest,
         Verifying
<1>6. pc' \in LetThrough => verdict /\ idx = Len(Certs) + 1
  <2>1. CASE verified
    <3>1. pc = "verify" /\ idx > Len(Certs)
          /\ pc' = IF verdict THEN "authenticate" ELSE "refused"
      BY <2>1, Zenon DEF verified, Certs
    <3>3. Len(Certs) \in Nat BY CertsType, Zenon DEF WalkInv
    <3>4. idx \in 1 .. Len(Certs) + 1 BY Zenon DEF CheckInv, VerdictInv
    <3>5. idx = Len(Certs) + 1 BY <3>1, <3>3, <3>4
    <3>6. "refused" \notin LetThrough BY DEF LetThrough
    <3> QED BY <3>1, <3>5, <3>6, Zenon
  <2>2. CASE authenticateClient \/ writeBinderFile \/ processRequest
    <3>1. pc \in LetThrough
      BY <2>2 DEF authenticateClient, writeBinderFile, processRequest,
                  LetThrough
    <3> QED BY <3>1, Zenon DEF CheckInv, StageInv
  <2> QED BY <2>1, <2>2, Zenon
<1>7. StageInv' BY <1>1, <1>2, <1>5, <1>6, Zenon DEF StageInv
<1>8. pc' \in {"request", "queried"} =>
        binder' = <<PolicyText>> \o FlattenSeq(transformed')
  <2>1. CASE verified \/ authenticateClient
    <3>1. pc' \notin {"request", "queried"}
      BY <2>1 DEF verified, authenticateClient
    <3> QED BY <3>1, Zenon
  <2>2. CASE writeBinderFile BY <1>1, <2>2, Zenon DEF writeBinderFile
  <2>3. CASE processRequest
    <3>1. pc \in {"request", "queried"} /\ binder' = binder
      BY <2>3, Zenon DEF processRequest
    <3> QED BY <1>1, <3>1, Zenon DEF CheckInv, LinesInv
  <2> QED BY <2>1, <2>2, <2>3, Zenon
<1> QED BY <1>1, <1>2, <1>4, <1>5, <1>7, <1>8, CheckFrame, Zenon

\* One more answer.
LEMMA AppendAnswer ==
  ASSUME NEW s, NEW i, NEW ok, s \in Seq(BOOLEAN), ok \in BOOLEAN,
         i \in Nat \ {0}, Len(s) = i - 1
  PROVE  /\ Append(s, ok) \in Seq(BOOLEAN) /\ Len(Append(s, ok)) = i
         /\ DOMAIN Append(s, ok) = 1 .. i
         /\ Append(s, ok)[i] = ok
         /\ \A n \in 1 .. i - 1 : Append(s, ok)[n] = s[n]
<1>1. Append(s, ok) \in Seq(BOOLEAN) /\ Len(Append(s, ok)) = Len(s) + 1
      /\ \A n \in 1 .. Len(s) : Append(s, ok)[n] = s[n]
      /\ Append(s, ok)[Len(s) + 1] = ok
  BY AppendProperties
<1>2. Len(s) + 1 = i /\ 1 .. Len(s) = 1 .. i - 1 OBVIOUS
<1>3. DOMAIN Append(s, ok) = 1 .. Len(Append(s, ok)) BY <1>1, LenProperties
<1>4. Append(s, ok)[i] = ok BY <1>1
<1>5. Len(Append(s, ok)) = i BY <1>1, <1>2, Zenon
<1>6. DOMAIN Append(s, ok) = 1 .. i BY <1>3, <1>5, Zenon
<1>7. \A n \in 1 .. i - 1 : Append(s, ok)[n] = s[n]
  BY <1>1, <1>2, Zenon
<1> QED BY <1>1, <1>4, <1>5, <1>6, <1>7, Zenon

\* One iteration of the loop of verifyCredential().
LEMMA IterationStep ==
  ASSUME WalkInv, CheckInv, verifyCertificate, credential' = credential
  PROVE  CheckInv'
<1>1. PICK c : c = Certs[idx] OBVIOUS
<1>2. /\ pc = "verify" /\ pc' = "verify" /\ idx <= Len(Certs)
      /\ idx' = idx + 1 /\ validate' = validate /\ now' = now /\ since' = since
  BY Zenon DEF verifyCertificate, Certs
<1>3. PICK ok \in IF validate => InTime(c) THEN verifySig(c) ELSE {FALSE} :
        /\ accepted' = Append(accepted, ok)
        /\ verdict' = Verdict(ok)
        /\ IF ok THEN acceptCertificate(c)
                 ELSE UNCHANGED <<policyDigest, transformed>>
  BY <1>1, Zenon DEF verifyCertificate, Certs
<1>4. ok \in BOOLEAN BY <1>3, Zenon DEF verifySig
<1>5. pc \in Verifying
      /\ pc' \in Verifying /\ pc' \notin LetThrough \cup {"request", "queried"}
  BY <1>2 DEF Verifying, LetThrough
<1>7. Certs' = Certs BY Zenon DEF Certs
<1>8. Len(Certs) \in Nat /\ DOMAIN Certs = 1 .. Len(Certs)
  BY CertsType, Zenon DEF WalkInv
<1>9. /\ idx \in 1 .. Len(Certs) + 1 /\ accepted \in Seq(BOOLEAN)
      /\ Len(accepted) = idx - 1
  BY Zenon DEF CheckInv, VerdictInv
<1>10. /\ idx \in 1 .. Len(Certs) /\ idx \in Nat \ {0}
       /\ idx + 1 \in 1 .. Len(Certs) + 1 /\ idx + 1 - 1 = idx
  BY <1>2, <1>8, <1>9
<1>11. idx \in DOMAIN Certs BY <1>8, <1>10, Zenon
<1>13. /\ accepted' \in Seq(BOOLEAN) /\ Len(accepted') = idx
       /\ DOMAIN accepted' = 1 .. idx
       /\ accepted'[idx] = ok
       /\ \A n \in 1 .. idx - 1 : accepted'[n] = accepted[n]
  <2>1. /\ Append(accepted, ok) \in Seq(BOOLEAN)
        /\ Len(Append(accepted, ok)) = idx
        /\ DOMAIN Append(accepted, ok) = 1 .. idx
        /\ Append(accepted, ok)[idx] = ok
        /\ \A n \in 1 .. idx - 1 : Append(accepted, ok)[n] = accepted[n]
    BY <1>4, <1>9, <1>10, AppendAnswer
  <2> QED BY <1>3, <2>1, Zenon
<1>14. StageInv' BY <1>5, Zenon DEF StageInv
<1>15. VerdictInv'
  <2>1. idx' \in 1 .. Len(Certs') + 1 BY <1>2, <1>7, <1>10, Zenon
  <2>a. idx' - 1 = idx
    <3>1. idx' = idx + 1 /\ idx \in Nat BY <1>2, <1>10, Zenon
    <3> QED BY <3>1
  <2>2. Len(accepted') = idx' - 1 BY <1>13, <2>a, Zenon
  <2>3. 1 .. idx' - 1 = 1 .. idx BY <2>a, Zenon
  <2>4. ASSUME NEW n \in 1 .. idx PROVE n = idx \/ n \in 1 .. idx - 1
    BY <1>10
  <2>5. ASSUME NEW n \in 1 .. idx - 1 PROVE n \in 1 .. idx BY <1>10
  <2>6. idx \in 1 .. idx BY <1>10
  <2>7. verdict <=> \A n \in 1 .. idx - 1 : accepted[n]
    BY Zenon DEF CheckInv, VerdictInv
  <2>8. verdict' <=> verdict /\ ok BY <1>3, Zenon DEF Verdict
  <2>9. verdict' <=> \A n \in 1 .. idx : accepted'[n]
    BY <1>13, <2>4, <2>5, <2>6, <2>7, <2>8, Zenon
  <2> QED BY <1>13, <2>1, <2>2, <2>3, <2>9, Zenon DEF VerdictInv
<1>16. LinesInv'
  <2>1. DOMAIN transformed = DOMAIN Certs
        /\ \A n \in DOMAIN Certs :
             transformed[n] = IF n < idx /\ accepted[n] THEN Lines(Certs[n])
                                                       ELSE <<>>
    BY <1>5, Zenon DEF CheckInv, LinesInv
  <2>3. transformed' = IF ok THEN [transformed EXCEPT ![idx] = Lines(Certs[idx])]
                             ELSE transformed
    BY <1>1, <1>3, Zenon DEF acceptCertificate, Lines
  <2>4. DOMAIN transformed' = DOMAIN Certs BY <2>1, <2>3, Zenon
  <2>5. ASSUME NEW n \in DOMAIN Certs
        PROVE  transformed'[n] =
                 IF n < idx' /\ accepted'[n] THEN Lines(Certs[n]) ELSE <<>>
    <3>0. n \in 1 .. Len(Certs) BY <1>8, Zenon
    <3>1. CASE n = idx
      <4>1. n < idx' /\ ~(n < idx) BY <1>2, <1>10, <3>1
      <4>2. accepted'[n] = ok BY <1>13, <3>1, Zenon
      <4>3. CASE ok
        <5>1. transformed'[n] = Lines(Certs[n]) BY <1>11, <2>1, <2>3, <3>1, <4>3, Zenon
        <5> QED BY <4>1, <4>2, <4>3, <5>1, Zenon
      <4>4. CASE ~ok BY <2>1, <2>3, <4>1, <4>2, <4>4, Zenon
      <4> QED BY <4>3, <4>4, Zenon
    <3>2. CASE n # idx
      <4>1. transformed'[n] = transformed[n] BY <2>1, <2>3, <3>2, Zenon
      <4>2. n < idx' <=> n < idx BY <1>2, <1>8, <1>10, <3>0, <3>2
      <4>3. ASSUME n < idx PROVE accepted'[n] = accepted[n]
        <5>1. n \in 1 .. idx - 1 BY <1>10, <3>0, <4>3
        <5> QED BY <1>13, <5>1, Zenon
      <4> QED BY <2>1, <4>1, <4>2, <4>3, Zenon
    <3> QED BY <3>1, <3>2, Zenon
  <2>6. transformed' = [n \in DOMAIN Certs |-> transformed'[n]]
    <3>1. transformed = [n \in DOMAIN Certs |->
                           IF n < idx /\ accepted[n] THEN Lines(Certs[n]) ELSE <<>>]
      BY <1>5, Zenon DEF CheckInv, LinesInv
    <3>2. PICK g : transformed' = [n \in DOMAIN Certs |-> g[n]]
      <4>1. CASE ok
        <5>1. transformed' = [n \in DOMAIN Certs |->
                                IF n = idx THEN Lines(Certs[idx]) ELSE transformed[n]]
          BY <2>1, <2>3, <4>1
        <5>2. PICK h : h = [n \in DOMAIN Certs |->
                              IF n = idx THEN Lines(Certs[idx]) ELSE transformed[n]]
          OBVIOUS
        <5>3. [n \in DOMAIN Certs |->
                 IF n = idx THEN Lines(Certs[idx]) ELSE transformed[n]]
                = [n \in DOMAIN Certs |-> h[n]]
          BY <5>2, Zenon
        <5> QED BY <5>1, <5>3, Zenon
      <4>2. CASE ~ok
        <5>1. transformed = [n \in DOMAIN Certs |-> transformed[n]]
          BY <2>1, <3>1, Zenon
        <5> QED BY <2>3, <4>2, <5>1, Zenon
      <4> QED BY <4>1, <4>2, Zenon
    <3> QED BY <3>2, Zenon
  <2>7. transformed' =
          [n \in DOMAIN Certs |->
             IF n < idx' /\ accepted'[n] THEN Lines(Certs[n]) ELSE <<>>]
    BY <2>5, <2>6, Zenon
  <2> QED BY <1>5, <1>7, <2>7, Zenon DEF LinesInv
<1>17. ClockInv'
  <2>1. now \in Nat /\ since \in 0 .. now BY Zenon DEF CheckInv, ClockInv
  <2>2. ASSUME NEW n \in 1 .. idx, accepted'[n], validate
        PROVE  TimelyFor(Certs[n], now)
    <3>1. CASE n = idx
      <4>1. ok BY <1>13, <2>2, <3>1, Zenon
      <4>2. InTime(c) BY <1>3, <2>2, <4>1, Zenon
      <4>3. PICK a, b : a = getUTCTimeSec(c.startTime) /\ b = getUTCTimeSec(c.stopTime)
        OBVIOUS
      <4>4. a \in Int /\ b \in Int BY <4>3, TimesAreInts, Zenon
      <4>5. a <= now /\ now < b BY <4>2, <4>3, Zenon DEF InTime
      <4>6. a <= now /\ since < b /\ a < b BY <2>1, <4>4, <4>5
      <4> QED BY <1>1, <3>1, <4>3, <4>6, Zenon DEF TimelyFor
    <3>2. CASE n # idx
      <4>1. n \in 1 .. idx - 1 BY <1>10, <3>2
      <4>2. DOMAIN accepted = 1 .. idx - 1 BY <1>9
      <4>3. accepted[n] BY <1>13, <2>2, <4>1, Zenon
      <4> QED BY <2>2, <4>1, <4>2, <4>3, InTimeIs, Zenon DEF CheckInv, ClockInv
    <3> QED BY <3>1, <3>2, Zenon
  <2>3. AcceptedInTime'
    BY <1>2, <1>7, <1>13, <2>2, Zenon DEF AcceptedInTime, TimelyFor
  <2> QED BY <1>2, <2>1, <2>3, Zenon DEF ClockInv
<1> QED BY <1>14, <1>15, <1>16, <1>17, Zenon DEF CheckInv

-----------------------------------------------------------------------------
(* The theorems                                                            *)

\* The walk keeps its invariant when the verification follows it.
LEMMA WalkInChecks ==
  ASSUME WalkInv, CheckInv, [CheckNext]_allVars PROVE WalkInv'
<1>1. CASE Next BY <1>1, WalkStep, Zenon
<1>2. CASE UNCHANGED allVars
  <2>1. UNCHANGED vars BY <1>2, Zenon DEF allVars
  <2> QED BY <2>1, WalkStutter, Zenon DEF vars
<1>3. CASE /\ Check \/ Tick
           /\ UNCHANGED <<source, tree, pIdx, label, clauseStr, certificate,
                          credential>>
  <2>1. pc \in {"done"} \cup Verifying /\ pc' \in {"done"} \cup Verifying
    BY <1>3 DEF Check, Tick, verifyCredential, verifyCertificate, verified,
                authenticateClient, writeBinderFile, processRequest, Verifying
  <2>2. pc \notin Walking /\ pc' \notin Walking
    BY <2>1 DEF Walking, Verifying
  <2>3. {pc, pc'} \cap Walking = {} BY <2>2, Zenon
  <2> QED BY <1>3, <2>3, WalkStutter, Zenon
<1> QED BY <1>1, <1>2, <1>3, Zenon DEF CheckNext

\* Every step keeps what the verification knows.
LEMMA CheckStep ==
  ASSUME WalkInv, CheckInv, [CheckNext]_allVars PROVE CheckInv'
<1>1. CASE Next /\ UNCHANGED checkVars BY <1>1, WalkChecks, Zenon
<1>2. CASE UNCHANGED allVars
  <2>1. /\ credential' = credential /\ pc' = pc /\ idx' = idx /\ accepted' = accepted
        /\ verdict' = verdict /\ transformed' = transformed
        /\ validate' = validate /\ since' = since /\ now' = now
        /\ binder' = binder
    BY <1>2, Zenon DEF allVars, vars, checkVars
  <2>2. Certs' = Certs BY <2>1, Zenon DEF Certs
  <2>3. StageInv' BY <2>1, <2>2, Zenon DEF CheckInv, StageInv
  <2>4. now \in Nat BY Zenon DEF CheckInv, ClockInv
  <2>5. now' \in Nat /\ now <= now' BY <2>1, <2>4
  <2>6. pc' \in {"request", "queried"} =>
          binder' = <<PolicyText>> \o FlattenSeq(transformed')
    BY <2>1, Zenon DEF CheckInv, LinesInv
  <2> QED BY <2>1, <2>2, <2>3, <2>5, <2>6, CheckFrame, Zenon
<1>3. CASE credential' = credential /\ verifyCredential BY <1>3, BeginStep, Zenon
<1>4. CASE credential' = credential /\ verifyCertificate BY <1>4, IterationStep, Zenon
<1>5. CASE /\ credential' = credential
           /\ verified \/ authenticateClient \/ writeBinderFile \/ processRequest
  BY <1>5, BehindStep, Zenon
<1>6. CASE credential' = credential /\ Tick BY <1>6, TickStep, Zenon
<1> QED BY <1>1, <1>2, <1>3, <1>4, <1>5, <1>6, Zenon DEF CheckNext, Check

\* The loop of verifyCredential() and the steps behind it: the answers, the
\* verdict and the lines belong to the certificates that were walked, in their
\* order, for every credential the parser accepts, whatever its words are and
\* whatever the clock and the signatures say.
THEOREM CheckInvariant == CheckSpec => [](WalkInv /\ CheckInv)
<1>1. CheckInit => WalkInv /\ CheckInv
  BY WalkInit, CheckInitially, Zenon DEF CheckInit
<1>2. WalkInv /\ CheckInv /\ [CheckNext]_allVars => WalkInv' /\ CheckInv'
  BY WalkInChecks, CheckStep, Zenon
<1> QED BY <1>1, <1>2, PTL DEF CheckSpec

\* verifyCredential() lets a credential through only if it accepted every
\* certificate, and one it did not accept has no clause to be written.
THEOREM OneBadSpoilsAllTheorem == CheckSpec => []OneBadSpoilsAll
<1>1. WalkInv /\ CheckInv => OneBadSpoilsAll
  <2> SUFFICES ASSUME WalkInv, CheckInv PROVE OneBadSpoilsAll OBVIOUS
  <2>1. WalkTypeOK BY Zenon DEF WalkInv
  <2>3. Len(Certs) \in Nat /\ DOMAIN Certs = 1 .. Len(Certs)
    BY <2>1, CertsType, Zenon
  <2>4. VerdictInv /\ StageInv /\ LinesInv BY Zenon DEF CheckInv
  <2>5. ASSUME pc \in {"authenticate", "write", "request", "queried"}
        PROVE  Len(accepted) = Len(Certs) /\ \A n \in DOMAIN Certs : accepted[n]
    <3>1. pc \in LetThrough BY <2>5, Zenon DEF LetThrough
    <3>2. verdict /\ idx = Len(Certs) + 1 BY <2>4, <3>1, Zenon DEF StageInv
    <3>3. idx - 1 = Len(Certs)
      <4>1. idx = Len(Certs) + 1 BY <3>2, Zenon
      <4> QED BY <2>3, <4>1
    <3>4. Len(accepted) = idx - 1 /\ \A n \in 1 .. idx - 1 : accepted[n]
      BY <2>4, <3>2, Zenon DEF VerdictInv
    <3> QED BY <2>3, <3>3, <3>4, Zenon
  <2>6. ASSUME NEW n \in DOMAIN accepted, ~accepted[n]
        PROVE  transformed[n] = <<>>
    <3>1. n \in DOMAIN Certs /\ n \in 1 .. idx - 1
      BY <2>1, <2>4, AcceptedAreCerts, Zenon
    <3>2. idx \in 1 .. Len(Certs) + 1 BY <2>4, Zenon DEF VerdictInv
    <3>3. idx # 1 BY <2>3, <3>1, <3>2
    <3>4. pc \in Verifying BY <2>4, <3>3, Zenon DEF StageInv
    <3> QED BY <2>4, <2>6, <3>1, <3>4, Zenon DEF LinesInv
  <2> QED BY <2>5, <2>6, Zenon DEF OneBadSpoilsAll
<1> QED BY <1>1, CheckInvariant, PTL

\* With VALIDATE_CERT_TIME, verifyCredential() accepts no certificate that was
\* out of its time during all of the call, wherever the clock moved between the
\* certificates.
THEOREM AcceptedInTimeTheorem == CheckSpec => []AcceptedInTime
<1>1. CheckInv => AcceptedInTime BY Zenon DEF CheckInv, ClockInv
<1> QED BY <1>1, CheckInvariant, PTL

\* From the end of the walk to the query, what verifyCredential() verifies,
\* writeBinderFile() writes and generateQuery() asks with is the credential that
\* was sent, unless a word of it is in the way of the walk.
THEOREM VerifiedIsSent ==
  CheckSpec => [](/\ WalkRecoversCredential
                  /\ Walkable(source) /\ pc \in Verifying =>
                       credential = finalize(source))
<1>1. WalkInv => WalkRecoversCredential
  <2>1. "done" \notin Walking BY DEF Walking
  <2> QED BY <2>1, WalkOver, Zenon DEF WalkRecoversCredential
<1>2. WalkInv /\ Walkable(source) /\ pc \in Verifying =>
        credential = finalize(source)
  <2>1. Verifying \cap Walking = {} BY DEF Verifying, Walking
  <2> QED BY <2>1, WalkOver, Zenon
<1> QED BY <1>1, <1>2, CheckInvariant, PTL

\* writeBinderFile() writes the policy and then every clause of every
\* certificate, in order, transformed with that certificate's key and with no
\* key left in the policy by another one: of the certificates that were walked,
\* and, unless a word is in the way of the walk, of those that were sent.
THEOREM BinderFileTheorem == CheckSpec => []BinderFileInOrder
<1>1. WalkInv /\ CheckInv => BinderFileInOrder
  <2> SUFFICES ASSUME WalkInv, CheckInv, pc \in {"request", "queried"}
               PROVE  /\ binder = BinderText(Certs)
                      /\ Walkable(source) =>
                           binder = BinderText(source.certificates)
    BY Zenon DEF BinderFileInOrder
  <2>1. WalkTypeOK /\ source \in Credentials BY Zenon DEF WalkInv, WalkTypeOK
  <2>3. Len(Certs) \in Nat /\ DOMAIN Certs = 1 .. Len(Certs)
    BY <2>1, CertsType, Zenon
  <2>4. VerdictInv /\ StageInv /\ LinesInv BY Zenon DEF CheckInv
  <2>5. pc \in LetThrough /\ pc \in Verifying
    BY Zenon DEF LetThrough, Verifying
  <2>6. verdict /\ idx = Len(Certs) + 1 BY <2>4, <2>5, Zenon DEF StageInv
  <2>7. idx - 1 = Len(Certs) /\ \A n \in 1 .. Len(Certs) : n < idx
    <3>1. idx = Len(Certs) + 1 BY <2>6, Zenon
    <3> QED BY <2>3, <3>1
  <2>8. \A n \in DOMAIN Certs : n < idx /\ accepted[n]
    BY <2>3, <2>4, <2>6, <2>7, Zenon DEF VerdictInv
  <2>9. transformed = [n \in DOMAIN Certs |-> Lines(Certs[n])]
    BY <2>4, <2>5, <2>8, Zenon DEF LinesInv
  <2>10. binder = BinderText(Certs)
    BY <2>4, <2>9, Zenon DEF LinesInv, BinderText
  <2>11. ASSUME Walkable(source) PROVE BinderText(Certs) = BinderText(source.certificates)
    <3>1. pc \notin Walking BY DEF Walking
    <3>2. credential = finalize(source) BY <2>11, <3>1, WalkOver, Zenon
    <3>4. /\ DOMAIN Certs = DOMAIN Sent
          /\ \A n \in DOMAIN Sent : /\ Certs[n].clauses = Sent[n].clauses
                                    /\ Certs[n].pubKey = Sent[n].pubKey
      BY <2>1, <3>2, FinalizeKeeps, Zenon
    <3>5. \A n \in DOMAIN Sent : Lines(Certs[n]) = Lines(Sent[n])
      BY <3>4, Zenon DEF Lines
    <3>6. [n \in DOMAIN Certs |-> Lines(Certs[n])]
            = [n \in DOMAIN Sent |-> Lines(Sent[n])]
      BY <3>4, <3>5, Zenon
    <3> QED BY <3>6, Zenon DEF BinderText, Sent
  <2> QED BY <2>10, <2>11, Zenon
<1> QED BY <1>1, CheckInvariant, PTL

=============================================================================
