------------------------------- MODULE Audit -------------------------------
(***************************************************************************)
(* The audit log: every gate keeps one logger, which appends to a file of   *)
(* its own in the directory of the UTC day it chose, each event linked to   *)
(* the one before by its hash.  The trace of what the policy did is a file   *)
(* of the same directory, which an event refers to.  The first append of a   *)
(* logger removes the days that are too old.                                *)
(*                                                                         *)
(* A gate lasts less than a day.  Disks fail: an append may throw with       *)
(* nothing or with a part of the line on the disk, and the gate goes on.     *)
(***************************************************************************)
EXTENDS Naturals, Sequences

CONSTANTS
    Loggers,        \* gates, one logger each
    Retention,      \* audit.retentionDays
    LastDay,        \* bound on the clock
    MostEvents,     \* bound on the events of a gate
    NoEvent

ASSUME AuditAssumption == {Retention, LastDay, MostEvents} \subseteq Nat \ {0}

VARIABLES
    today,      \* UTC
    logger,     \* per gate: [pc, since, day, last, sent, trace]
    logs,       \* the files there are: path -> [lines, cut]
    traces      \* the traces there are: path -> links of the file

auditVars == <<today, logger, logs, traces>>

Event(g) == <<g, logger[g].sent>>

\* A directory is too old when all of its day is.
TooOld(day) == day + 1 + Retention <= today

\* The day of a logger's files is chosen once.
PartitionDate(g) == IF logger[g].day = 0 THEN today ELSE logger[g].day

Basename_Stamp(g) == "log"
Basename(g) == g
FilePath(g) == <<PartitionDate(g), Basename(g)>>

\* The chain begins with "" and holds, and what is referred to is there, one file of one name.
ChainHolds(lines, i) == lines[i].prev = IF i = 1 THEN NoEvent ELSE lines[i - 1].event
ReferenceHolds(line) == line.ref # NoEvent => line.ref \in DOMAIN traces /\ traces[line.ref] = 1
Verifies(path) ==
    /\ ~logs[path].cut
    /\ \A i \in DOMAIN logs[path].lines : ChainHolds(logs[path].lines, i) /\ ReferenceHolds(logs[path].lines[i])

(***************************************************************************)
(* A gate.                                                                 *)
(***************************************************************************)

StartLogger(g) ==
    /\ logger[g].pc = "off" /\ logger' = [logger EXCEPT ![g].pc = "pruning", ![g].since = today]
    /\ UNCHANGED <<today, logs, traces>>

\* One file after the other, in the order of the directory.
PruneOne(g) ==
    /\ logger[g].pc = "pruning"
    /\ \/ \E path \in DOMAIN logs :
            /\ TooOld(path[1])
            /\ logs' = [p \in DOMAIN logs \ {path} |-> logs[p]] /\ UNCHANGED traces
       \/ \E path \in DOMAIN traces :
            /\ TooOld(path[1])
            /\ traces' = [p \in DOMAIN traces \ {path} |-> traces[p]] /\ UNCHANGED logs
    /\ UNCHANGED <<today, logger>>

\* When all are gone, or one could not be removed.
Pruned(g) ==
    /\ logger[g].pc = "pruning" /\ logger' = [logger EXCEPT ![g].pc = "ready"]
    /\ UNCHANGED <<today, logs, traces>>

Existing(path) == IF path \in DOMAIN logs THEN logs[path] ELSE [lines |-> <<>>, cut |-> FALSE]
PutLog(path, file) == [p \in DOMAIN logs \cup {path} |-> IF p = path THEN file ELSE logs[p]]

Appends(g) == logger[g].pc = "ready" /\ logger[g].sent < MostEvents

AppendEvent(g) ==
    /\ Appends(g)
    /\ LET line == [event |-> Event(g), prev |-> logger[g].last, ref |-> logger[g].trace] IN
         logs' = PutLog(FilePath(g), [Existing(FilePath(g)) EXCEPT !.lines = Append(@, line)])
    /\ logger' = [logger EXCEPT ![g].day = PartitionDate(g), ![g].last = Event(g), ![g].sent = @ + 1,
                                ![g].trace = NoEvent]
    /\ UNCHANGED <<today, traces>>

\* The next event is linked to the last one that was written.
AppendFails(g) ==
    /\ Appends(g)
    /\ \/ UNCHANGED logs
       \/ logs' = PutLog(FilePath(g), [Existing(FilePath(g)) EXCEPT !.cut = TRUE])
    /\ logger' = [logger EXCEPT ![g].day = PartitionDate(g), ![g].sent = @ + 1, ![g].trace = NoEvent]
    /\ UNCHANGED <<today, traces>>

TracePath(g) == <<PartitionDate(g), Event(g)>>

\* The trace is written aside and linked into its place: for a moment it has two names.
LinkTrace(g) ==
    /\ Appends(g) /\ logger[g].trace = NoEvent /\ TracePath(g) \notin DOMAIN traces
    /\ traces' = [p \in DOMAIN traces \cup {TracePath(g)} |-> IF p = TracePath(g) THEN 2 ELSE traces[p]]
    /\ logger' = [logger EXCEPT ![g].pc = "linked", ![g].day = PartitionDate(g)]
    /\ UNCHANGED <<today, logs>>

\* The other name goes, and what is there is read again before it is referred to.
TraceWritten(g) ==
    /\ logger[g].pc = "linked"
    /\ traces' = [p \in DOMAIN traces |-> IF p = TracePath(g) THEN 1 ELSE traces[p]]
    /\ logger' = [logger EXCEPT ![g].pc = "ready", ![g].trace = IF TracePath(g) \in DOMAIN traces THEN TracePath(g) ELSE @]
    /\ UNCHANGED <<today, logs>>

EndLogger(g) ==
    /\ logger[g].pc \notin {"off", "over"} /\ logger' = [logger EXCEPT ![g].pc = "over"]
    /\ UNCHANGED <<today, logs, traces>>

Midnight ==
    /\ today < LastDay /\ today' = today + 1
    /\ \A g \in Loggers : logger[g].pc \in {"off", "over"} \/ logger[g].since = today
    /\ UNCHANGED <<logger, logs, traces>>

AuditInit ==
    /\ today = 1 /\ logs = << >> /\ traces = << >>
    /\ logger = [g \in Loggers |-> [pc |-> "off", since |-> 0, day |-> 0, last |-> NoEvent, sent |-> 0, trace |-> NoEvent]]

AuditNext ==
    \/ \E g \in Loggers :
         \/ StartLogger(g) \/ PruneOne(g) \/ Pruned(g) \/ AppendEvent(g) \/ AppendFails(g) \/ LinkTrace(g) \/ TraceWritten(g)
         \/ EndLogger(g)
    \/ Midnight

AuditSpec == AuditInit /\ [][AuditNext]_auditVars

(***************************************************************************)
(* Property.                                                               *)
(***************************************************************************)

\* An honest log does not read as tampered with: unless a line was cut off by the disk, or
\* the day is too old, the chain of every log holds and every trace it refers to is there,
\* whichever gates write at the same time, and whatever failed or was removed in between.
HonestReadsWhole ==
    \A path \in DOMAIN logs : ~logs[path].cut /\ path[1] + 1 + Retention > today => Verifies(path)
=============================================================================
