--------------------------- MODULE MCVerification ---------------------------
(* Verification for TLC.  Clauses are all those of up to two literals from a *)
(* few that look alike; the lists of them hold a rule with two literals one  *)
(* of which is quoted, one whose body quotes its head, facts, and clauses    *)
(* whose words are labels, hold other words or hold a ":-".  Keys and        *)
(* signatures hold labels.  Messages are requests, and ones that miss,       *)
(* repeat or misplace a mark.                                                *)
EXTENDS Verification

\* Bound: the literals in a body.
MaxBody == 2

MCWords == {"a", "b", "k", "p", "q", "xp", "a:-b", "says", "(", ")", ",", ":-",
            "CERT", "CLAUSE", "START_TIME", "END", "END_CERT"}

MCSpelling == [w \in {"xp", "a:-b"} |->
                 IF w = "xp" THEN <<"x", "p">> ELSE <<"a", ":-", "b">>]

\* A key with the word CERT in it is not the key the walk finds.
MCKeys == {<<"END", "CLAUSE">>, <<"CERT", "CLAUSE">>}

MCSigs == {<<"END_CERT", "CERT">>}

Pred(f, x) == <<f, "(", x, ")">>
Quote(x, l) == <<"says", "(", x, ",">> \o l \o <<")">>

fact    == [head |-> Pred("q", "a"), body |-> <<>>]
rule    == [head |-> Pred("p", "a"),
            body |-> <<Quote("k", Pred("q", "a")),
                       <<"q", "(", "a", ",", "b", ")">> >>]
quoted  == [head |-> Pred("p", "a"), body |-> <<Quote("k", Pred("p", "a"))>>]
ending  == [head |-> Pred("p", "a"),
            body |-> <<Pred("q", "b"), Pred("xp", "a")>>]
implied == [head |-> Pred("a:-b", "a"), body |-> <<>>]
labels  == [head |-> Pred("CLAUSE", "START_TIME"), body |-> <<>>]
marked  == [head |-> Pred("START_TIME", "a"), body |-> <<>>]

Literals ==
  LET preds == {Pred("p", "a"), Pred("q", "a"), Pred("xp", "a"),
                Pred("q", "a:-b"), <<"q", "(", "a", ",", "b", ")">>} IN
  preds \cup {Quote("k", l) : l \in preds}

\* The clauses the certificates hold, and all of up to MaxBody literals.
MCClauses ==
  {fact, rule, quoted, ending, implied, labels, marked}
    \cup [head : Literals, body : UNION {[1 .. n -> Literals] : n \in 0 .. MaxBody}]

MCClauseLists ==
  {<<ClauseText(rule), ClauseText(labels), ClauseText(quoted)>>,
   <<ClauseText(fact), ClauseText(marked)>>,
   <<ClauseText(ending), ClauseText(implied)>>}

MCTimes == {<<"a", ".">>, <<"b", ".">>}

MCUTCTime == [t \in Times |-> IF t = <<"a", ".">> THEN 1 ELSE 2]

MCKeyDigest == [k \in {Key(w) : w \in MCKeys} |->
                  IF k[2] = "END" THEN "rsa_1" ELSE "rsa_2"]

MCMessages ==
  {<<"BEGIN REQUEST", "request", "(", "a", ",", "b", ")", "END REQUEST">>,
   <<"request", "(", "a", "(", "b", ")", ",", ",", ")", ")", "END REQUEST">>,
   <<"BEGIN REQUEST", "a", ",", "request", ",", "b", ")", "END REQUEST">>,
   <<"END REQUEST", "request", "(", "a", ",", "b", ")", ".">>,
   <<"BEGIN REQUEST", "request", "(", "a">>,
   <<"BEGIN REQUEST", "a", "END REQUEST">>}

MCLettered == {"request"}

\* transformClause() on every clause: what the key says, exactly if it is clear.
ASSUME TransformChecked ==
  \A c \in MCClauses :
    transformClause("rsa_1", ClauseText(c)) = Said("rsa_1", c) <=> Clear(c)

=============================================================================
