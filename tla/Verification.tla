---------------------------- MODULE Verification ----------------------------
(***************************************************************************)
(* From the walked credential to the binder file and the query:             *)
(* SecurityService::verifyCredential with transformClause and Rule,         *)
(* writeBinderFile and generateQuery (utils/SecurityService.h, Rule.h),     *)
(* after the walk of AstWalker and in the same call of processMsg.          *)
(*                                                                         *)
(* A clause comes from the walk as labels.  The code searches it as text:   *)
(* texts, lines of the binder file, requests and queries are sequences of   *)
(* pieces, the words and signs they can be cut at.  A certificate's key     *)
(* reaches transformClause through the policy, one object for all           *)
(* certificates.                                                           *)
(***************************************************************************)
EXTENDS Integers, AstWalker

CONSTANTS
  Clauses,      \* [head, body]: the clauses certificates may hold, parsed
  Spelling,     \* the pieces of the words that hold other words, or a ":-"
  KeyDigest,    \* the label getKeyDigest() makes of a key (MD5)
  OtherDigest,  \* and of what the walk takes for a key and is none
  UTCTime,      \* the seconds getUTCTimeSec() makes of a time (mktime)
  OtherTime,    \* and of what the walk takes for a time and is none
  PolicyText,   \* the server policy
  MaxNow,       \* bound: the last second
  Messages,     \* what processRequest() reads, unless it is empty or an exit
  Lettered      \* the pieces that begin with r, e, q, u, s or t; no other piece
                \* of a message holds one of these letters before one of them

VARIABLES
  validate,     \* VALIDATE_CERT_TIME
  now, since,   \* the clock; its time when verifyCredential began
  idx,          \* i of verifyCredential
  verdict,      \* its retVal
  policyDigest, \* Policy::keyDigest
  transformed,  \* Certificate::transformedCls of each certificate
  accepted,     \* what verifySig() said of each certificate it was asked about
  binder,       \* the lines of rlf_tmp.P
  asked, query  \* a message and the query generateQuery() makes of it

checkVars == <<validate, now, since, idx, verdict, policyDigest, transformed,
               accepted, binder, asked, query>>
allVars == <<vars, checkVars>>

\* Strings joined with commas.
Join(ss) ==
  FlattenSeq([n \in DOMAIN ss |-> IF n = 1 THEN ss[n] ELSE <<",">> \o ss[n]])

\* clause -> literal '.' | literal ':-' literal (',' literal)* '.'
ClauseText(c) ==
  c.head \o (IF c.body = <<>> THEN <<>> ELSE <<":-">> \o Join(c.body))
         \o <<".">>

Separators == {"(", ")", ",", ":-", "."}

ASSUME ClauseAssumption ==
  /\ UNION {Range(l) : l \in ClauseLists}
       \subseteq {ClauseText(c) : c \in Clauses}
  /\ DOMAIN Spelling \cap Separators = {}
  /\ UTCTime \in [Times -> Int] /\ OtherTime \in Int /\ MaxNow \in Nat

\* Nothing but its marks is known of a message: the server does not parse it.
ASSUME MessageAssumption ==
  /\ Messages \subseteq Seq(STRING) \ {<<>>}
  /\ "request" \in Lettered
  /\ {"BEGIN REQUEST", "END REQUEST"} \cap Lettered = {}

CheckInit ==
  /\ Init
  /\ validate = FALSE /\ now = 0 /\ since = 0 /\ idx = 1 /\ verdict = TRUE
  /\ policyDigest = "" /\ transformed = <<>> /\ accepted = <<>>
  /\ binder = <<>> /\ asked = <<>> /\ query = <<>>

-----------------------------------------------------------------------------
(* Rule and transformClause                                                *)

\* The text of a clause.
Spelled(t) ==
  FlattenSeq([n \in DOMAIN t |->
                IF t[n] \in DOMAIN Spelling THEN Spelling[t[n]] ELSE <<t[n]>>])

Pieces == Labels \cup UNION {Range(Spelling[w]) : w \in DOMAIN Spelling}

\* string::find for one piece, 0 where it is not there.
find(s, x) == SelectInSeq(s, LAMBDA y : y = x)

\* find_first_of("request")
findFirstLetter(s) == SelectInSeq(s, LAMBDA x : x \in Lettered)

\* The end of the first ")" before a ",".
findEnd(s) ==
  LET ends == {n \in 1 .. Len(s) - 1 : s[n] = ")" /\ s[n + 1] = ","} IN
  IF ends = {} THEN 0 ELSE Min(ends)

\* Rule::getClauses: the literals of a body.
getClauses[s \in Seq(Pieces)] ==
  LET pos == findEnd(s) IN
  IF pos = 0 THEN <<Front(s)>>
             ELSE <<SubSeq(s, 1, pos)>>
                    \o getClauses[SubSeq(s, pos + 2, Len(s))]

\* body.find(head) != npos
Contained(head, body) ==
  \E n \in 0 .. Len(body) - Len(head) : SubSeq(body, n + 1, n + Len(head)) = head

transformClause(digest, clause) ==
  LET text   == Spelled(clause)
      imp    == find(text, ":-")
      head   == SubSeq(text, 1, imp - 1)
      body   == SubSeq(text, imp + 1, Len(text))
      prefix == <<"says", "(", digest, ",">>
      parts  == getClauses[body] IN
  CASE imp = 0 -> prefix \o Front(text) \o <<")", ".">>
    [] imp # 0 /\ Contained(head, body) ->
         prefix \o head \o <<")", ":-">> \o body
    [] OTHER ->
         prefix \o head \o <<")", ":-">>
           \o Join([n \in DOMAIN parts |-> prefix \o parts[n] \o <<")">>])
           \o <<".">>

-----------------------------------------------------------------------------
(* verifyCredential, writeBinderFile and generateQuery                     *)

getKeyDigest(k) == IF k \in DOMAIN KeyDigest THEN KeyDigest[k] ELSE OtherDigest

\* getUTCTimeSec() of a time, and 0 where the walk found none.
getUTCTimeSec(t) ==
  IF t = <<>> THEN 0 ELSE IF t \in DOMAIN UTCTime THEN UTCTime[t] ELSE OtherTime

verifyCredential ==
  /\ pc = "done"
  /\ pc' = "verify"
  /\ validate' \in BOOLEAN
  /\ since' = now
  /\ transformed' = [n \in DOMAIN credential.certificates |-> <<>>]
  /\ UNCHANGED <<now, idx, verdict, policyDigest, accepted, binder, asked,
                 query>>

\* Time goes on while certificates are verified.
Tick ==
  /\ pc \in {"done", "verify"} /\ now < MaxNow
  /\ now' = now + 1
  /\ UNCHANGED <<pc, validate, since, idx, verdict, policyDigest, transformed,
                 accepted, binder, asked, query>>

\* Mutant: the stop time belongs to the validity.
InTimeToStop(c) ==
  getUTCTimeSec(c.startTime) <= now /\ now <= getUTCTimeSec(c.stopTime)

InTime(c) ==
  getUTCTimeSec(c.startTime) <= now /\ now < getUTCTimeSec(c.stopTime)

\* What verifySig() may say: whatever the signature is if the key can be read
\* (a key that cannot be read is let through), no if a part is empty.
verifySig(c) ==
  IF <<>> \in {c.pubKey, c.signature, c.certStr} THEN {FALSE} ELSE BOOLEAN

\* Mutant: the clauses are transformed before the policy gets the key's digest.
acceptCertificateLate(c) ==
  /\ transformed' = [transformed EXCEPT ![idx] =
       [n \in DOMAIN c.clauses |-> transformClause(policyDigest, c.clauses[n])]]
  /\ policyDigest' = getKeyDigest(c.pubKey)

\* policy->setKeyDigest() and then a transformed clause for every clause.
acceptCertificate(c) ==
  /\ policyDigest' = getKeyDigest(c.pubKey)
  /\ transformed' = [transformed EXCEPT ![idx] =
       [n \in DOMAIN c.clauses |->
          transformClause(policyDigest', c.clauses[n])]]

\* Mutant: the last certificate decides.
LastVerdict(ok) == ok

\* retVal, once one more certificate has been looked at.
Verdict(ok) == verdict /\ ok

\* One iteration: a certificate out of its time or with a wrong signature spoils
\* the verdict, and the loop goes on.
verifyCertificate ==
  LET c == credential.certificates[idx] IN
  /\ pc = "verify" /\ idx <= Len(credential.certificates)
  /\ \E ok \in IF validate => InTime(c) THEN verifySig(c) ELSE {FALSE} :
       /\ accepted' = Append(accepted, ok)
       /\ verdict' = Verdict(ok)
       /\ IF ok THEN acceptCertificate(c)
                ELSE UNCHANGED <<policyDigest, transformed>>
  /\ idx' = idx + 1
  /\ UNCHANGED <<pc, validate, now, since, binder, asked, query>>

\* verifyCredential returns, and authenticateClient is called if it may be.
verified ==
  /\ pc = "verify" /\ idx > Len(credential.certificates)
  /\ pc' = IF verdict THEN "authenticate" ELSE "refused"
  /\ UNCHANGED checkVars

\* authenticateClient, see TransportService and MessageReads.
authenticateClient ==
  /\ pc = "authenticate"
  /\ pc' \in {"write", "unauthenticated"}
  /\ UNCHANGED checkVars

writeBinderFile ==
  /\ pc = "write"
  /\ binder' = <<PolicyText>> \o FlattenSeq(transformed)
  /\ pc' = "request"
  /\ UNCHANGED <<validate, now, since, idx, verdict, policyDigest, transformed,
                 accepted, asked, query>>

\* Mutant: the ")" does not end the last argument.
EndsAtComma(x, tmp) == x = "," /\ tmp # <<>>

\* An argument ends at a ",", unless it is empty, and at a ")".
EndsArgument(x, tmp) == (x = "," /\ tmp # <<>>) \/ x = ")"

\* Mutant: a "(" goes into the argument.
SkipsClosing(x) == x = ")"

Skipped(x) == x \in {"(", ")"}

\* The loop of generateQuery, for one piece: s is its args and its tmp.
ReadArgument(s, x) ==
  CASE EndsArgument(x, s.tmp) ->
         [args |-> Append(s.args, s.tmp), tmp |-> <<>>]
    [] ~EndsArgument(x, s.tmp) /\ ~Skipped(x) ->
         [s EXCEPT !.tmp = Append(@, x)]
    [] OTHER -> s

Arguments(msg) ==
  FoldLeft(ReadArgument, [args |-> <<>>, tmp |-> <<>>], msg).args

\* The message from its first letter out of "request" up to END REQUEST.  Without
\* a "(" the loop starts at the first piece; if END REQUEST comes first, the
\* length given to substr() wraps and all of the message is taken.
generateQuery(msg) ==
  LET end == find(msg, "END REQUEST")
      pos == findFirstLetter(msg)
      m   == SubSeq(msg, pos, IF pos < end THEN end - 1 ELSE Len(msg))
      par == find(m, "(") IN
  IF end = 0 \/ pos = 0 THEN <<>>
  ELSE <<"allow", "(", getKeyDigest(credential.pubKey), ",">>
         \o Join(Arguments(SubSeq(m, par + 1, Len(m)))) \o <<")", ".">>

processRequest ==
  /\ pc = "request"
  /\ \E msg \in Messages :
       /\ asked' = msg
       /\ query' = generateQuery(msg)
  /\ pc' = "queried"
  /\ UNCHANGED <<validate, now, since, idx, verdict, policyDigest, transformed,
                 accepted, binder>>

Check ==
  \/ verifyCredential \/ verifyCertificate \/ verified \/ authenticateClient
  \/ writeBinderFile \/ processRequest

\* The walk, then the verification and the first request: one process.  Only the
\* walk could fail to come to an end.
CheckNext ==
  \/ Next /\ UNCHANGED checkVars
  \/ (Check \/ Tick)
     /\ UNCHANGED <<source, tree, pIdx, label, clauseStr, certificate,
                    credential>>

CheckSpec == CheckInit /\ [][CheckNext]_allVars /\ WF_vars(Next)

-----------------------------------------------------------------------------
(* Properties                                                              *)

\* The certificates that are verified; VerifiedIsSent says which they are.
Certs == credential.certificates

\* The lines of a certificate in the binder file: its clauses, transformed with
\* the key it came with.
Lines(c) == [m \in DOMAIN c.clauses |->
               transformClause(getKeyDigest(c.pubKey), c.clauses[m])]

BinderText(certs) ==
  <<PolicyText>> \o FlattenSeq([n \in DOMAIN certs |-> Lines(certs[n])])

\* The binder file is the policy and then, in their order, all clauses of all
\* certificates, each transformed with the key of its own certificate, although
\* the key's digest is passed on in the policy; if the labels do not interfere
\* with the walk, those certificates are the ones that were sent.
BinderFileInOrder ==
  pc \in {"request", "queried"} =>
    /\ binder = BinderText(Certs)
    /\ Walkable(source) => binder = BinderText(source.certificates)

\* A literal of a body is the head, or the head quoted.
Repeats(l, head) ==
  l = head \/ (Head(l) = "says" /\ SubSeq(l, 5, Len(l) - 1) = head)

\* A clause as the key k says it: the head and, unless the body repeats it,
\* every literal of the body.
Said(k, c) ==
  LET say(l) == <<"says", "(", k, ",">> \o l \o <<")">> IN
  Spelled(ClauseText(
    [head |-> say(c.head),
     body |-> IF \E l \in Range(c.body) : Repeats(l, c.head)
                THEN c.body
                ELSE [n \in DOMAIN c.body |-> say(c.body[n])]]))

Parsed(t) == CHOOSE c \in Clauses : ClauseText(c) = t

SaidText(certs) ==
  <<PolicyText>> \o FlattenSeq(
    [n \in DOMAIN certs |->
       [m \in DOMAIN certs[n].clauses |->
          Said(getKeyDigest(certs[n].pubKey), Parsed(certs[n].clauses[m]))]])

\* A clause in which the searches for ":-" and for the head find what they are
\* meant to: the head has no ":-" in a word, and its text is in the body only if
\* a literal repeats it.  The grammar accepts others.
Clear(c) ==
  LET head == Spelled(c.head) IN
  /\ find(head, ":-") = 0
  /\ (\E l \in Range(c.body) : Contained(head, Spelled(l))) =>
       \E l \in Range(c.body) : Repeats(l, c.head)

\* In the binder file every clause that was sent is said by the key of its
\* certificate, head and literals whole, exactly if all clauses are clear:
\* transformClause() and Rule search the text for ":-", for "),", and for the
\* head, and are misled by no other clause, and by each that is not clear.
BinderFileIsCredential ==
  pc \in {"request", "queried"} /\ Walkable(source) =>
    (binder = SaidText(source.certificates) <=>
       \A n \in DOMAIN source.certificates :
         \A m \in DOMAIN source.certificates[n].clauses :
           Clear(Parsed(source.certificates[n].clauses[m])))

\* A credential is let through only if every one of its certificates was
\* accepted, whichever of them failed, and a certificate that was not accepted
\* has no clause that could be written.
OneBadSpoilsAll ==
  /\ pc \in {"authenticate", "write", "request", "queried"} =>
       /\ Len(accepted) = Len(Certs)
       /\ \A n \in DOMAIN Certs : accepted[n]
  /\ \A n \in DOMAIN accepted : ~accepted[n] => transformed[n] = <<>>

\* With VALIDATE_CERT_TIME set, a certificate that was accepted was in its time
\* at some moment of the verification ("validity of certificates against the
\* current UTC", README.md).
AcceptedInTime ==
  validate => \A n \in DOMAIN accepted : accepted[n] =>
    LET start == getUTCTimeSec(Certs[n].startTime)
        stop  == getUTCTimeSec(Certs[n].stopTime) IN
    start <= now /\ since < stop /\ start < stop

\* request -> REQUEST_HEADER 'request' '(' op ',' text ')' REQUEST_END
RequestText(op, text) ==
  <<"BEGIN REQUEST", "request", "(", op, ",", text, ")", "END REQUEST">>

\* Of a request that has the form the grammar gives it the query asks for its
\* operation, by the key the credential was sent with (generateQuery).
QueryIsRequest ==
  /\ pc = "queried" /\ Walkable(source)
  /\ Len(asked) = 8 /\ asked = RequestText(asked[4], asked[6])
  /\ {asked[4], asked[6]} \cap {"(", ")", ",", "END REQUEST"} = {}
  => query = <<"allow", "(", getKeyDigest(source.pubKey), ",">>
               \o <<asked[4], ",", asked[6], ")", ".">>

\* Whatever was sent for a request, the query is one call of allow for the key of
\* the credential, and no parenthesis of the message gets into its arguments
\* (generateQuery, which nothing parses a request before).
QueryIsFlat ==
  pc = "queried" /\ query # <<>> =>
    /\ Len(query) > 5
    /\ SubSeq(query, 1, 4) = <<"allow", "(", getKeyDigest(credential.pubKey), ",">>
    /\ SubSeq(query, Len(query) - 1, Len(query)) = <<")", ".">>
    /\ \A i \in 5 .. Len(query) - 2 : query[i] \notin {"(", ")"}

-----------------------------------------------------------------------------
(* Where the verification is                                               *)

Verifying == {"verify", "authenticate", "refused", "write", "unauthenticated",
              "request", "queried"}

LetThrough == {"authenticate", "write", "request", "queried"}

StageInv ==
  /\ pc \in Walking \cup {"done"} \cup Verifying
  /\ pc \notin Verifying => idx = 1
  /\ pc \in LetThrough => verdict /\ idx = Len(Certs) + 1

\* An answer for every certificate before the idx-th; the verdict is all of them.
VerdictInv ==
  /\ idx \in 1 .. Len(Certs) + 1
  /\ accepted \in Seq(BOOLEAN) /\ Len(accepted) = idx - 1
  /\ verdict <=> \A n \in 1 .. idx - 1 : accepted[n]

\* A certificate that was accepted, and no other, has lines.
LinesInv ==
  /\ pc \in Verifying =>
       transformed = [n \in DOMAIN Certs |->
                        IF n < idx /\ accepted[n] THEN Lines(Certs[n]) ELSE <<>>]
  /\ pc \in {"request", "queried"} =>
       binder = <<PolicyText>> \o FlattenSeq(transformed)

ClockInv == now \in Nat /\ since \in 0 .. now /\ AcceptedInTime

\* Where verifyCredential() is, and what it knows of the certificates before i.
CheckInv == StageInv /\ VerdictInv /\ LinesInv /\ ClockInv

=============================================================================
