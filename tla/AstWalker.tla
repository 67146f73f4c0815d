------------------------------ MODULE AstWalker ------------------------------
(***************************************************************************)
(* AstWalker (manager/AstWalker.h): the credential is read off the flat     *)
(* list of children the parser puts under the node CREDENTIAL.  The walk    *)
(* has one index, which nested loops advance, some of them without looking  *)
(* at the number of children; past the last child getChildStr() returns the *)
(* empty string and complains.                                              *)
(*                                                                          *)
(* A child is its label.  A string the walk puts together is the sequence   *)
(* of the labels in it.  One step is one iteration of a loop.               *)
(***************************************************************************)
EXTENDS Naturals, Sequences, SequencesExt

CONSTANTS
  Words,        \* labels of text, in keys, signatures, clauses and times
  Keys, Sigs,   \* the bodies of keys and of signatures, sequences of words
  ClauseLists,  \* the clauses of a certificate, sequences of clauses
  Times,        \* the times of a certificate; like a clause, a time ends in "."
  CertCounts    \* how many certificates a credential has

\* The labels that stand for the lines around keys and signatures hold spaces,
\* which a TEXT cannot; the other labels the walk compares with are plain words.
LineMarks == {"BEGIN KEY", "END KEY", "BEGIN SIG", "END SIG"}

Marks == LineMarks \cup {"CERT", "CLAUSE", "START_TIME", "STOP_TIME", "END_CERT",
                    "END"}

Labels == Words \cup Marks \cup {"."}

\* TEXT: words may be equal to the labels CERT, CLAUSE, START_TIME and so on.
ASSUME WordAssumption == Words \cap (LineMarks \cup {".", ""}) = {}

\* The texts of clauses and of times: words, and then a ".".
Texts == {t \in Seq(Words \cup {"."}) :
            Len(t) > 1 /\ Last(t) = "." /\ Front(t) \in Seq(Words)}

ASSUME TextAssumption ==
  /\ Keys \cup Sigs \subseteq Seq(Words) \ {<<>>}
  /\ Times \subseteq Texts
  /\ ClauseLists \subseteq Seq(Texts) \ {<<>>}
  /\ CertCounts \subseteq Nat

VARIABLES
  source, tree, \* the credential the client sent and the tree parsed from it
  pc, pIdx, label,
  clauseStr,    \* the string getClauseStr() is building
  certificate,  \* the Certificate makeCertificate() is building
  credential    \* the Credential makeCredential() is building

vars == <<source, tree, pc, pIdx, label, clauseStr, certificate, credential>>

-----------------------------------------------------------------------------
(* What the grammar makes of a credential                                  *)

Key(k) == <<"BEGIN KEY">> \o k \o <<"END KEY">>

Sig(s) == <<"BEGIN SIG">> \o s \o <<"END SIG">>

Certificates ==
  [clauses : ClauseLists, startTime : Times, stopTime : Times,
   pubKey : {Key(k) : k \in Keys}, signature : {Sig(s) : s \in Sigs},
   certStr : {<<>>}]

Credentials ==
  [pubKey : {Key(k) : k \in Keys},
   certificates : UNION {[1 .. n -> Certificates] : n \in CertCounts}]

\* certificate -> (CERT CLAUSE clause+ validity public_key signature END_CERT)
CertificateNodes(c) ==
  <<"CERT", "CLAUSE">> \o FlattenSeq(c.clauses)
    \o <<"START_TIME">> \o c.startTime \o <<"STOP_TIME">> \o c.stopTime
    \o c.pubKey \o c.signature \o <<"END_CERT">>

\* credential -> ^(CREDENTIAL public_key certificate* END)
Nodes(cr) ==
  cr.pubKey
    \o FlattenSeq([i \in DOMAIN cr.certificates |->
                     CertificateNodes(cr.certificates[i])])
    \o <<"END">>

-----------------------------------------------------------------------------
(* The walk                                                                *)

NewCertificate == [clauses |-> <<>>, startTime |-> <<>>, stopTime |-> <<>>,
                   pubKey |-> <<>>, signature |-> <<>>, certStr |-> <<>>]

Init ==
  /\ source \in Credentials
  /\ tree = Nodes(source)
  /\ pc = "makeCredential"
  /\ pIdx = 1
  /\ label = ""
  /\ clauseStr = <<>>
  /\ certificate = NewCertificate
  /\ credential = [pubKey |-> <<>>, certificates |-> <<>>]

getChildStr(i) == IF i <= Len(tree) THEN tree[i] ELSE ""

\* One past the last child stands for every index behind it.
After(i) == IF i <= Len(tree) THEN i + 1 ELSE i

\* Empty lines from behind the last child are not recorded.
AppendTo(s, l) == IF l = "" THEN s ELSE Append(s, l)

\* Credential::finalize(): the text of each certificate that is signed.
finalize(cr) ==
  [cr EXCEPT !.certificates =
     [i \in DOMAIN @ |->
        [@[i] EXCEPT !.certStr = FlattenSeq(cr.certificates[i].clauses)
                                   \o cr.certificates[i].startTime
                                   \o cr.certificates[i].stopTime]]]

\* The loop of makeCredential, and finalize(), which follows it.
makeCredential ==
  /\ pc = "makeCredential"
  /\ IF pIdx <= Len(tree) /\ label # "END"
       THEN /\ label' = getChildStr(pIdx)
            /\ pIdx' = After(pIdx)
            /\ pc' = CASE label' = "BEGIN KEY" -> "credentialKey"
                       [] label' = "CERT" -> "makeCertificate"
                       [] OTHER -> pc
            /\ credential' = IF label' = "BEGIN KEY"
                               THEN [credential EXCEPT !.pubKey =
                                                         Append(@, label')]
                               ELSE credential
       ELSE /\ pc' = "done"
            /\ credential' = finalize(credential)
            /\ UNCHANGED <<label, pIdx>>
  /\ certificate' = NewCertificate
  /\ UNCHANGED <<source, tree, clauseStr>>

\* while(getChildStr(pIdx) != CERT_S)
credentialKey ==
  /\ pc = "credentialKey"
  /\ IF getChildStr(pIdx) # "CERT"
       THEN /\ credential' = [credential EXCEPT !.pubKey =
                                AppendTo(@, getChildStr(pIdx))]
            /\ pIdx' = After(pIdx)
            /\ UNCHANGED pc
       ELSE pc' = "makeCredential" /\ UNCHANGED <<credential, pIdx>>
  /\ UNCHANGED <<source, tree, label, clauseStr, certificate>>

\* The inner loop that a label of makeCertificate() starts.
Part(l) ==
  CASE l = "CLAUSE" -> "clauses" [] l = "START_TIME" -> "startTime"
    [] l = "STOP_TIME" -> "stopTime" [] l = "BEGIN KEY" -> "certificateKey"
    [] l = "BEGIN SIG" -> "signature" [] OTHER -> "makeCertificate"

\* The loop of makeCertificate, and what its caller does with the result: the
\* certificate is added and the index steps back to END_CERT.
makeCertificate ==
  /\ pc = "makeCertificate"
  /\ IF pIdx <= Len(tree) /\ getChildStr(pIdx) # "END_CERT"
       THEN /\ label' = getChildStr(pIdx)
            /\ pc' = Part(label')
            /\ pIdx' = IF pc' = pc THEN After(After(pIdx)) ELSE After(pIdx)
            /\ certificate' =
                 CASE label' = "BEGIN KEY" ->
                        [certificate EXCEPT !.pubKey = Append(@, label')]
                   [] label' = "BEGIN SIG" ->
                        [certificate EXCEPT !.signature = Append(@, label')]
                   [] OTHER -> certificate
            /\ UNCHANGED credential
       ELSE /\ credential' = [credential EXCEPT !.certificates =
                                                  Append(@, certificate)]
            /\ pIdx' = IF pIdx <= Len(tree) THEN pIdx ELSE pIdx - 1
            /\ label' = getChildStr(pIdx')
            /\ pc' = "makeCredential"
            /\ UNCHANGED certificate
  /\ UNCHANGED <<source, tree, clauseStr>>

\* Mutants: the clauses, the key and the signature are taken to end elsewhere.
ClausesToEndCert(l) == l = "END_CERT"
KeyToEndKey(l) == l = "END KEY"
SignatureToHeader(l) == l = "BEGIN SIG"

\* The labels the loops of makeCertificate() over a part look for.
EndsClauses(l) == l = "START_TIME"

EndsKey(l) == l = "BEGIN SIG"

EndsSignature(l) == l = "END SIG"

\* while(getChildStr(pIdx) != START_TIME_S)
clauses ==
  /\ pc = "clauses"
  /\ pc' = IF EndsClauses(getChildStr(pIdx)) THEN "makeCertificate" ELSE "clause"
  /\ UNCHANGED <<source, tree, pIdx, label, clauseStr, certificate, credential>>

\* do retVal += getChildStr(pIdx); while(getChildStr(pIdx++) != "."), and where
\* makeCertificate puts the result.
getClauseStr ==
  LET str == AppendTo(clauseStr, getChildStr(pIdx)) IN
  /\ pc \in {"clause", "startTime", "stopTime"}
  /\ pIdx' = After(pIdx)
  /\ IF getChildStr(pIdx) # "."
       THEN clauseStr' = str /\ UNCHANGED <<pc, certificate>>
       ELSE /\ clauseStr' = <<>>
            /\ pc' = IF pc = "clause" THEN "clauses" ELSE "makeCertificate"
            /\ certificate' =
                 CASE pc = "clause" ->
                        [certificate EXCEPT !.clauses = Append(@, str)]
                   [] pc = "startTime" ->
                        [certificate EXCEPT !.startTime = @ \o str]
                   [] pc = "stopTime" ->
                        [certificate EXCEPT !.stopTime = @ \o str]
  /\ UNCHANGED <<source, tree, label, credential>>

\* while(getChildStr(pIdx++) != SIG_S), then pIdx--
certificateKey ==
  /\ pc = "certificateKey"
  /\ IF ~EndsKey(getChildStr(pIdx))
       THEN /\ certificate' = [certificate EXCEPT !.pubKey =
                                 AppendTo(@, getChildStr(pIdx))]
            /\ pIdx' = After(pIdx)
            /\ UNCHANGED pc
       ELSE pc' = "makeCertificate" /\ UNCHANGED <<certificate, pIdx>>
  /\ UNCHANGED <<source, tree, label, clauseStr, credential>>

\* while(getChildStr(pIdx++) != END_SIG_S); END_SIG_S is appended as well.
signature ==
  /\ pc = "signature"
  /\ pIdx' = After(pIdx)
  /\ certificate' = [certificate EXCEPT !.signature =
                       AppendTo(@, getChildStr(pIdx))]
  /\ pc' = IF EndsSignature(getChildStr(pIdx)) THEN "makeCertificate" ELSE pc
  /\ UNCHANGED <<source, tree, label, clauseStr, credential>>

Next ==
  \/ makeCredential \/ credentialKey \/ makeCertificate \/ clauses
  \/ getClauseStr \/ certificateKey \/ signature

\* The walk is one call: it goes on until it returns.
Spec == Init /\ [][Next]_vars /\ WF_vars(Next)

-----------------------------------------------------------------------------
(* Properties                                                              *)

\* The credentials whose text the labels do not interfere with: there is a CERT
\* behind the key and none in it, and no clause looks like the start time.  The
\* grammar accepts others.
Walkable(cr) ==
  /\ cr.certificates # <<>>
  /\ \A i \in DOMAIN cr.pubKey : cr.pubKey[i] # "CERT"
  /\ \A i \in DOMAIN cr.certificates :
       \A j \in DOMAIN cr.certificates[i].clauses :
         cr.certificates[i].clauses[j][1] # "START_TIME"

\* The loops that do not test the number of children never ask for a child that
\* is not there, the NULL child getChildStr() complains of.
WithinTree ==
  Walkable(source) =>
    (pc \in {"credentialKey", "clauses", "clause", "startTime", "stopTime",
             "certificateKey", "signature"} => pIdx <= Len(tree))

\* The walk returns the credential that was sent: every certificate, clause,
\* time, key and signature, whole, in order and once, and the signed text made
\* of them, although each loop leaves the index for the next one by a rule of
\* its own, and although keys, signatures and clauses may hold any other word
\* that is also a label.
WalkRecoversCredential ==
  Walkable(source) => (pc = "done" => credential = finalize(source))

\* getCredential() returns.
WalkEnds == Walkable(source) => <>(pc = "done")

\* A credential may have no certificate ("certificate*", RepositoryManager.g),
\* and getCredential() returns for every credential the parser accepted.
EveryWalkEnds == <>(pc = "done")

-----------------------------------------------------------------------------
(* Where the walk is: what it has read, and what it has still to read      *)

\* What is left of s from its k-th element on.
From(s, k) == SubSeq(s, k, Len(s))

Rest == From(tree, pIdx)

\* The children of the certificates from the k-th on.
CertsFrom(k) ==
  FlattenSeq(From([i \in DOMAIN source.certificates |->
                     CertificateNodes(source.certificates[i])], k)) \o <<"END">>

\* The credential with its first k certificates.
Walked(k) == [pubKey |-> source.pubKey,
              certificates |-> SubSeq(source.certificates, 1, k)]

\* A certificate with its first n parts; all five make it whole.
Got(c, n) ==
  [clauses   |-> IF n >= 1 THEN c.clauses ELSE <<>>,
   startTime |-> IF n >= 2 THEN c.startTime ELSE <<>>,
   stopTime  |-> IF n >= 3 THEN c.stopTime ELSE <<>>,
   pubKey    |-> IF n >= 4 THEN c.pubKey ELSE <<>>,
   signature |-> IF n >= 5 THEN c.signature ELSE <<>>,
   certStr   |-> <<>>]

\* What is left of a certificate behind one of its parts, up to the rest r.
AfterSignature(r) == Cons("END_CERT", r)
AfterKey(c, r) == c.signature \o AfterSignature(r)
AfterStop(c, r) == c.pubKey \o AfterKey(c, r)
AfterStart(c, r) == Cons("STOP_TIME", c.stopTime \o AfterStop(c, r))
AfterClauses(c, r) == Cons("START_TIME", c.startTime \o AfterStart(c, r))

\* getClauseStr() has read some of t, and not its ".".
Reading(t, r) ==
  \E i \in 0 .. Len(t) - 1 :
    clauseStr = SubSeq(t, 1, i) /\ Rest = From(t, i + 1) \o r

\* Between two parts of the certificate c.
AtMark(c, r) ==
  /\ pc = "makeCertificate" /\ clauseStr = <<>>
  /\ \/ /\ certificate = Got(c, 0)
        /\ Rest = Cons("CLAUSE", FlattenSeq(c.clauses) \o AfterClauses(c, r))
     \/ certificate = Got(c, 1) /\ Rest = AfterClauses(c, r)
     \/ certificate = Got(c, 2) /\ Rest = AfterStart(c, r)
     \/ certificate = Got(c, 3) /\ Rest = AfterStop(c, r)
     \/ certificate = Got(c, 4) /\ Rest = AfterKey(c, r)
     \/ certificate = Got(c, 5) /\ Rest = AfterSignature(r)

\* j clauses of c have been read.
InClauses(c, r) ==
  \E j \in 0 .. Len(c.clauses) :
    /\ certificate = [Got(c, 0) EXCEPT !.clauses = SubSeq(c.clauses, 1, j)]
    /\ \/ /\ pc = "clauses" /\ clauseStr = <<>>
          /\ Rest = FlattenSeq(From(c.clauses, j + 1)) \o AfterClauses(c, r)
       \/ /\ pc = "clause" /\ j < Len(c.clauses)
          /\ Reading(c.clauses[j + 1],
                     FlattenSeq(From(c.clauses, j + 2)) \o AfterClauses(c, r))

InTimes(c, r) ==
  \/ /\ pc = "startTime" /\ certificate = Got(c, 1)
     /\ Reading(c.startTime, AfterStart(c, r))
  \/ /\ pc = "stopTime" /\ certificate = Got(c, 2)
     /\ Reading(c.stopTime, AfterStop(c, r))

InKey(c, r) ==
  /\ pc = "certificateKey" /\ clauseStr = <<>>
  /\ \E i \in 1 .. Len(c.pubKey) :
       /\ certificate = [Got(c, 3) EXCEPT !.pubKey = SubSeq(c.pubKey, 1, i)]
       /\ Rest = From(c.pubKey, i + 1) \o AfterKey(c, r)

InSignature(c, r) ==
  /\ pc = "signature" /\ clauseStr = <<>>
  /\ \E i \in 1 .. Len(c.signature) - 1 :
       /\ certificate = [Got(c, 4) EXCEPT !.signature =
                                             SubSeq(c.signature, 1, i)]
       /\ Rest = From(c.signature, i + 1) \o AfterSignature(r)

InCertificate(c, r) ==
  AtMark(c, r) \/ InClauses(c, r) \/ InTimes(c, r) \/ InKey(c, r)
    \/ InSignature(c, r)

InSomeCertificate ==
  \E k \in 1 .. Len(source.certificates) :
    /\ credential = Walked(k - 1)
    /\ \E c \in {source.certificates[k]}, r \in {CertsFrom(k + 1)} :
         InCertificate(c, r)

\* The stations of makeCredential: nothing read yet, in the key of a credential
\* that has certificates, behind the key or some certificates, behind END.
BeforeKey ==
  /\ pc = "makeCredential" /\ label = "" /\ Rest = tree
  /\ credential = [pubKey |-> <<>>, certificates |-> <<>>]

InCredentialKey ==
  /\ pc = "credentialKey" /\ label = "BEGIN KEY" /\ Len(source.certificates) > 0
  /\ \E i \in 1 .. Len(source.pubKey) :
       /\ credential = [pubKey |-> SubSeq(source.pubKey, 1, i),
                        certificates |-> <<>>]
       /\ Rest = From(source.pubKey, i + 1) \o CertsFrom(1)

BetweenCertificates ==
  /\ pc = "makeCredential" /\ label \in {"BEGIN KEY", "END_CERT"}
  /\ \E k \in 0 .. Len(source.certificates) :
       /\ credential = Walked(k)
       /\ Rest \in {CertsFrom(k + 1), AfterSignature(CertsFrom(k + 1))}

AtEnd ==
  /\ pc = "makeCredential" /\ label = "END"
  /\ credential = Walked(Len(source.certificates))

InCredential ==
  /\ clauseStr = <<>>
  /\ BeforeKey \/ InCredentialKey \/ BetweenCertificates \/ AtEnd

Walking == {"makeCredential", "credentialKey", "makeCertificate", "clauses",
            "clause", "startTime", "stopTime", "certificateKey", "signature"}

\* Whatever the tree is, the walk makes certificates of its labels.
Drafts ==
  [clauses : Seq(Seq(Labels)), startTime : Seq(Labels), stopTime : Seq(Labels),
   pubKey : Seq(Labels), signature : Seq(Labels), certStr : Seq(Labels)]

WalkTypeOK ==
  /\ source \in Credentials /\ tree = Nodes(source)
  /\ pIdx \in 1 .. Len(tree) + 1
  /\ clauseStr \in Seq(Labels)
  /\ certificate \in Drafts
  /\ credential \in [pubKey : Seq(Labels), certificates : Seq(Drafts)]

\* The children read so far are in the credential, the certificate and the
\* clause being built, and the children left are the rest of the source: the
\* index is where the loop that is running expects it to be.
InPlace ==
  \/ InCredential
  \/ InSomeCertificate
  \/ pc \notin Walking /\ credential = finalize(source)

WalkInv == WalkTypeOK /\ (Walkable(source) => InPlace)

=============================================================================
