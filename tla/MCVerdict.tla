----------------------------- MODULE MCVerdict -----------------------------
\* Pairs and triples of findings for Verdict, near each other or not, worded alike or
\* not, under three configurations.
EXTENDS Verdict

\* Two reviewers; the second finding is beside the first, worded like it, in reach of its
\* wording only, or in another file.  What has the same signature is of the same category
\* and in the same file.
First == {Finding("s", "A", 1, 1, 1, sev, cat) : sev \in {"CRITICAL", "WARN"}, cat \in {"security", "correctness", "quality"}}
Second == {Finding(who[1], who[2], at[1], at[2], at[3], sev, cat) :
             who \in {<<"t", "A">>, <<"t", "B">>}, at \in {<<1, 2, 2>>, <<1, 3, 1>>, <<2, 1, 1>>},
             sev \in {"CRITICAL", "WARN", "INFO"}, cat \in {"security", "quality"}}
Again(f) == {Finding("s", "B", 1, at[1], at[2], sev, f.cat) : at \in {<<1, 1>>, <<2, 3>>}, sev \in {"CRITICAL", "WARN", "INFO"}}
Pairs == {<<f, g>> : f \in First, g \in Second} \cup UNION {{<<f, g>> : g \in Again(f)} : f \in First}

\* Three in a row: which of them meet depends on the one that is taken first.
Rows == {<<Finding("s", "A", 1, 1, 1, sev, "quality"), Finding("t", "B", 1, 2, 2, "WARN", "quality"),
           Finding("u", "A", 1, 3, 3, "WARN", cat)>> : sev \in {"WARN", "INFO"}, cat \in {"security", "quality"}}

\* A wording with no word that counts, at one place and in both kinds; and a third beside them.
Wordless == {<<Finding("s", "A", 1, 2, 3, "WARN", "quality"), Finding("t", "B", 1, 2, 3, "WARN", "security"),
               Finding("u", "A", 1, 3, topic, "WARN", cat)>> : topic \in {2, 3}, cat \in {"security", "quality"}}
Reported == Pairs \cup Rows \cup Wordless

On == [total |-> 2, hatch |-> {}, testSecurity |-> TRUE, capDocs |-> TRUE, demoteCorrectness |-> TRUE,
       corroborate |-> TRUE, ablated |-> {}, class |-> <<"code", "tests">>]
MCSettings == {On,
               [On EXCEPT !.total = 3, !.hatch = {"security"}, !.class = <<"docs", "harness">>],
               [On EXCEPT !.total = 1, !.corroborate = FALSE, !.class = <<"docs", "tests">>],
               [On EXCEPT !.ablated = {"critic", "scope.delta", "cycle-rejected"}, !.class = <<"docs", "code">>]}

Nothing == [claimed |-> {}, rejected |-> {}, trusted |-> {}]
MCMemories == {[Nothing EXCEPT !.claimed = {"s"}], [Nothing EXCEPT !.rejected = {"t"}, !.trusted = {"A"}]}
MCRegions == {[file |-> 1, line |-> 1, sev |-> "WARN", cats |-> {"quality"}, distinct |-> 2]}
MCSimilar == {<<1, 1>>, <<2, 2>>, <<1, 2>>, <<2, 1>>}
=============================================================================
