----------------------------- MODULE MCAstWalker -----------------------------
(* AstWalker for TLC: keys and clauses of one or two words, among them words *)
(* that are labels of the tree, certificates of one or two clauses.          *)
EXTENDS AstWalker

MCWords == {"k", "a", "CERT", "CLAUSE", "START_TIME", "END", "END_CERT"}

MCKeys == {<<"k">>, <<"END", "CLAUSE">>, <<"k", "CERT">>, <<"CERT", "CLAUSE">>}

MCSigs == {<<"k">>, <<"END_CERT", "CERT">>}

MCClauseLists == {<< <<"a", ".">> >>,
                  << <<"a", "START_TIME", ".">>, <<"CLAUSE", ".">> >>,
                  << <<"a", ".">>, <<"START_TIME", "a", ".">> >>}

MCTimes == {<<"a", ".">>}

=============================================================================
