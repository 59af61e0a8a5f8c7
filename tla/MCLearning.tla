----------------------------- MODULE MCLearning -----------------------------
\* Two signatures, two providers, and a finding of lore.
EXTENDS Learning

Finding(sig, members, lore) ==
    [sig |-> sig, members |-> members, keys |-> {m[2] : m \in members}, rule |-> "rule", lore |-> lore]
Both == Finding("s", {<<"s", "A">>, <<"s", "B">>}, FALSE)
Merged == Finding("t", {<<"t", "B">>, <<"s", "A">>}, FALSE)
Other == Finding("t", {<<"t", "A">>, <<"t", "B">>}, FALSE)
Reminder == Finding("l", {<<"l", "lore">>}, TRUE)

MCSigs == {"s", "t", "l"}
Small == [on |-> {"ledger", "rep", "lessons", "brain"}, reports |-> {<<Both>>, <<Merged, Reminder>>},
          words |-> {"wrong", "fixed"}, rounds |-> 2, lines |-> 1, clock |-> 1, sessions |-> 2, hands |-> 0]
MCConfigs == {
    Small,
    \* Entries that come and go, and their notes.
    [Small EXCEPT !.on = {"ledger", "brain"}, !.reports = {<<Both>>, <<Other>>}, !.words = {"wrong"}, !.rounds = 3,
                  !.clock = 2, !.sessions = 1, !.hands = 1],
    \* A human who pins and takes the pin back.
    [Small EXCEPT !.on = {"ledger"}, !.reports = {<<Both>>}, !.words = {"wrong"}, !.sessions = 1, !.hands = 2],
    \* Answers that flip.
    [Small EXCEPT !.on = {"rep"}, !.reports = {<<Both>>}, !.words = {"wrong", "fixed", "neutral", "invalid"}, !.lines = 2, !.clock = 2, !.sessions = 1],
    [Small EXCEPT !.on = {"ledger", "lessons"}, !.reports = {<<Merged, Reminder>>},
                  !.words = {"wrong", "fixed", "invalid"}, !.lines = 2, !.sessions = 1]}
=============================================================================
