---------------------------- MODULE MCCorpusRun ----------------------------
(* The tasks of swarm/fixtures.py, in the pieces CorpusRun tells apart.    *)
EXTENDS CorpusRun

\* the first three are an indentation
Broken == <<"line", "line", "line", "bug", "line">>
Sound == <<"line", "line", "line", "fix", "line">>
Test == <<"line", "check">>

MCFiles == [
    parity |-> [source |-> Broken, test |-> Test],
    multifile |-> [settings |-> Sound, service |-> Broken, test |-> Test],
    twofile |-> [primary |-> Broken, secondary |-> Broken, test |-> Test],
    green |-> [source |-> Sound, test |-> Test]]

MCTexts == {<<>>, <<"bug">>, <<"fix">>, <<"line">>, <<"line", "line">>,
            <<"line", "bug">>, <<"check">>, <<"fix", "blank">>}
=============================================================================
