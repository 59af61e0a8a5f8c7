------------------------------ MODULE MCScope ------------------------------
(* The files and the scenes of the runs of Scope; and, apart, two gates over four *)
(* days that write the audit log.                                             *)
EXTENDS Scope, Audit, TLC

CONSTANTS l1, l2

TwoLoggers == {l1, l2}
Symmetry == Permutations(TwoLoggers)

TwoFiles == {"f", "g"}

\* f is in HEAD, g is not.
Times(own, other, commits, stops, starts, kills) ==
    [own |-> own, other |-> other, commits |-> commits, stops |-> stops, starts |-> starts, kills |-> kills]

Plain ==
    [head |-> [f \in TwoFiles |-> IF f = "f" THEN "head" ELSE Gone], dirty |-> {},
     own |-> {"own"}, tools |-> {FALSE}, other |-> {}, during |-> 0, cut |-> {}, hidden |-> {}, odd |-> {},
     unstarted |-> FALSE, expires |-> FALSE,
     left |-> Times(3, 0, 0, 3, 1, 0)]

\* Others write while the gate reads, and readings fail; several reviews with commits and a
\* kill, and with others that write during the capture; a new file that may be older than
\* the batch, taken away and put back while the gate reads; a file that cannot be read; a
\* file without changed lines; whose work it is, with triggers and a session that is
\* resumed, one that was never started, and one that only read and is resumed after a week.
Captures == [Plain EXCEPT !.other = {"other", "own"}, !.during = 2, !.cut = {FALSE}, !.left = Times(2, 3, 1, 1, 1, 0)]
Cycle == [Plain EXCEPT !.own = {"own", "own+"}, !.left = Times(3, 0, 1, 3, 1, 1)]
Churn == [Plain EXCEPT !.other = {"other"}, !.during = 1, !.left = Times(1, 2, 0, 2, 1, 0)]
Aged == [Plain EXCEPT !.dirty = {"g"}, !.other = {"other", Gone}, !.during = 2, !.left = Times(1, 2, 0, 2, 1, 0)]
Unreadable == [Plain EXCEPT !.own = {"own", "own+", Gone}, !.odd = {"g"}, !.left = Times(3, 0, 1, 3, 1, 0)]
Hidden == [Plain EXCEPT !.own = {"own", "head", Gone}, !.hidden = {"g"}, !.left = Times(3, 0, 1, 3, 1, 0)]
Ownership == [Plain EXCEPT !.dirty = {"f"}, !.tools = BOOLEAN, !.other = {"other"}, !.left = Times(2, 1, 1, 1, 3, 0)]
Unstarted == [Plain EXCEPT !.dirty = {"f"}, !.tools = BOOLEAN, !.unstarted = TRUE, !.left = Times(2, 0, 0, 1, 0, 0)]
Resumed == [Plain EXCEPT !.dirty = {"f"}, !.own = {}, !.other = {"other"}, !.expires = TRUE, !.left = Times(0, 1, 1, 1, 3, 0)]

Off == [Plain EXCEPT !.own = {}, !.left = Times(0, 0, 0, 0, 0, 0)]

AllScenes == {Off, Captures, Cycle, Churn, Aged, Unreadable, Hidden, Ownership, Unstarted, Resumed}

AuditOff ==
    /\ today = LastDay /\ logs = << >> /\ traces = << >>
    /\ logger = [g \in Loggers |-> [pc |-> "over", since |-> 0, day |-> 0, last |-> NoEvent, sent |-> 0, trace |-> NoEvent]]

MCInit == Init /\ ((config = Off /\ AuditInit) \/ (config # Off /\ AuditOff))

MCNext ==
    \/ StartRead /\ UNCHANGED auditVars
    \/ StartList /\ UNCHANGED auditVars
    \/ StartWrite /\ UNCHANGED auditVars
    \/ Expire /\ UNCHANGED auditVars
    \/ (\E f \in Files, c \in config.own, tool \in BOOLEAN : Edit(f, c, tool)) /\ UNCHANGED auditVars
    \/ (\E t \in trigs : TriggerRead(t)) /\ UNCHANGED auditVars
    \/ (\E t \in trigs : TriggerWrite(t)) /\ UNCHANGED auditVars
    \/ (\E f \in Files, c \in config.other : OtherWrite(f, c)) /\ UNCHANGED auditVars
    \/ (\E S \in SUBSET Files : Commit(S)) /\ UNCHANGED auditVars
    \/ Stop /\ UNCHANGED auditVars
    \/ ReadDiff /\ UNCHANGED auditVars
    \/ ReadHash /\ UNCHANGED auditVars
    \/ ReadFiles /\ UNCHANGED auditVars
    \/ ListDirty /\ UNCHANGED auditVars
    \/ Serve /\ UNCHANGED auditVars
    \/ Nothing /\ UNCHANGED auditVars
    \/ (\E verdict \in {"PASS", "FAIL", "ERROR"}, blocking \in SUBSET Files : Review(verdict, blocking)) /\ UNCHANGED auditVars
    \/ (\E complete \in BOOLEAN : Record(complete)) /\ UNCHANGED auditVars
    \/ RecordServed /\ UNCHANGED auditVars
    \/ Rearm /\ UNCHANGED auditVars
    \/ Kill /\ UNCHANGED auditVars
    \/ (\E g \in Loggers : StartLogger(g)) /\ UNCHANGED vars
    \/ (\E g \in Loggers : PruneOne(g)) /\ UNCHANGED vars
    \/ (\E g \in Loggers : Pruned(g)) /\ UNCHANGED vars
    \/ (\E g \in Loggers : AppendEvent(g)) /\ UNCHANGED vars
    \/ (\E g \in Loggers : AppendFails(g)) /\ UNCHANGED vars
    \/ (\E g \in Loggers : LinkTrace(g)) /\ UNCHANGED vars
    \/ (\E g \in Loggers : TraceWritten(g)) /\ UNCHANGED vars
    \/ (\E g \in Loggers : EndLogger(g)) /\ UNCHANGED vars
    \/ Midnight /\ UNCHANGED vars

MCSpec == MCInit /\ [][MCNext]_<<vars, auditVars>>
=============================================================================
