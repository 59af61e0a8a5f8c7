------------------------------ MODULE Reviewer ------------------------------
(***************************************************************************)
(* One call of a reviewer: review() of the six adapters in src/providers,  *)
(* and spawnSafely (src/utils/spawn.ts), in which four of them run a       *)
(* program.  Its end is a race: the program ends or is killed, by a time   *)
(* limit, an idle watchdog, the gate's deadline or the output cap; what it *)
(* printed is still in the pipes; a helper it started may keep them open.  *)
(*                                                                         *)
(* What a program prints is one of a few kinds of text, in three lengths.  *)
(* `review` is anything a review can be parsed from when all of it is      *)
(* there.  Which provider is asked next, and what a result means for its   *)
(* cooldown, is in Panel.                                                  *)
(***************************************************************************)
EXTENDS Naturals, FiniteSets

CONSTANTS
    Orders,    \* the calls to look at: [p |-> provider, once |-> disableRetries, key |-> is there a key]
    Answers,   \* what a review says: [verdict |-> PASS or FAIL, found |-> its findings]
    NoResult

Statuses == {"ok", "timeout", "error", "quota-exhausted", "throws"}
Results == [status : Statuses, verdict : {"PASS", "FAIL", "ERROR"}, inferred : BOOLEAN]
Findings == [blocking : BOOLEAN, fits : BOOLEAN]

ASSUME RevAssumption ==
    /\ Answers \subseteq [verdict : {"PASS", "FAIL"}, found : SUBSET Findings]
    /\ NoResult \notin Results

VARIABLES
    order,     \* the call, fixed
    phase,     \* what the adapter does
    try,       \* its run of the program: 1, 2 or 3 (the probe of agy)
    child,     \* the program: [state, code, helper, says, printed]
    pipe,      \* what the parent has read, the kill flags and timers of this run
    cut,       \* has the gate's deadline fired
    lastFile,  \* codex: the last message files, by name: who wrote it and what
    kept,      \* what the first run of agy came to, while its probe runs
    result,    \* the ReviewResult
    heard       \* history: what the review that was parsed says, and who wrote it

revVars == <<order, phase, try, child, pipe, cut, lastFile, kept, result, heard>>
outside == <<order, cut, heard>>

Http == {"openrouter", "ollama"}
Counting == {"claude-code", "gemini", "opencode"}   \* those that count what mapping lost
Nobody == [state |-> "none", code |-> 0, helper |-> "none", says |-> "nothing", err |-> "nothing", printed |-> 0]
NoPipe == [armed |-> FALSE, grace |-> FALSE, read |-> 0, full |-> FALSE,
           timeout |-> FALSE, watchdog |-> FALSE, abort |-> FALSE]
NoFile == [by |-> 0, says |-> "nothing"]

(***************************************************************************)
(* The program and its children.                                           *)
(***************************************************************************)

\* killTree: the process group; a helper with a group of its own is not in it.
Killed(c) == [c EXCEPT !.code = IF @ = 0 /\ c.state = "running" THEN 9 ELSE @,
                       !.state = IF @ = "running" THEN "gone" ELSE @,
                       !.helper = IF @ = "inside" THEN "none" ELSE @]

\* The first file is named for the attempt.
LastMsgFile_Shared(attempt) == 1
LastMsgFile(attempt) == attempt

Prints ==
    /\ phase = "run" /\ child.state = "running" /\ child.printed < 2 /\ child.says # "nothing"
    /\ child' = [child EXCEPT !.printed = @ + 1]
    /\ UNCHANGED <<outside, phase, try, pipe, lastFile, kept, result>>

\* codex writes its answer to a file itself.
WritesLast ==
    /\ phase = "run" /\ child.state = "running" /\ order.p = "codex"
    /\ lastFile[LastMsgFile(try)].by # try
    /\ \E says \in {"review", "junk"} : lastFile' = [lastFile EXCEPT ![LastMsgFile(try)] = [by |-> try, says |-> says]]
    /\ UNCHANGED <<outside, phase, try, child, pipe, kept, result>>

Forks ==
    /\ phase = "run" /\ child.state = "running" /\ child.helper = "none"
    /\ \E where \in {"inside", "outside"} : child' = [child EXCEPT !.helper = where]
    /\ UNCHANGED <<outside, phase, try, pipe, lastFile, kept, result>>

\* It ends by itself.
Exits ==
    /\ phase = "run" /\ child.state = "running"
    /\ \E code \in {0, 1} : child' = [child EXCEPT !.state = "gone", !.code = code]
    /\ UNCHANGED <<outside, phase, try, pipe, lastFile, kept, result>>

HelperEnds ==
    /\ phase = "run" /\ child.helper # "none"
    /\ child' = [child EXCEPT !.helper = "none"]
    /\ UNCHANGED <<outside, phase, try, pipe, lastFile, kept, result>>

(***************************************************************************)
(* spawnSafely, event by event.                                            *)
(***************************************************************************)

\* What the program will say is decided here, and is on stderr from the beginning.
\* A deadline that has passed already kills it at once.
Started(says, err) ==
    LET new == [Nobody EXCEPT !.state = "running", !.says = says, !.err = err]
    IN  /\ child' = IF cut THEN Killed(new) ELSE new
        /\ pipe' = [NoPipe EXCEPT !.armed = TRUE, !.abort = cut]

Spawn ==
    /\ phase = "start" /\ order.p \notin Http
    /\ \E says \in {"nothing", "review", "banner", "sentinel", "junk"}, err \in {"nothing", "banner", "text"} :
          Started(says, err)
    /\ phase' = "run"
    /\ UNCHANGED <<outside, try, lastFile, kept, result>>

\* There is no such program, or no sandbox for it: review() throws, the probe does not.
CannotSpawn ==
    /\ phase = "start" /\ order.p \notin Http
    /\ phase' = "done"
    /\ result' = IF try = 3 THEN kept ELSE [status |-> "throws", verdict |-> "ERROR", inferred |-> FALSE]
    /\ UNCHANGED <<outside, try, child, pipe, lastFile, kept>>

\* Output arrives; at the cap the rest is dropped and the tree killed.
Data ==
    /\ phase = "run" /\ pipe.read < child.printed /\ ~pipe.full
    /\ \/ /\ pipe' = [pipe EXCEPT !.read = @ + 1]
          /\ UNCHANGED child
       \/ /\ pipe' = [pipe EXCEPT !.full = TRUE]
          /\ child' = Killed(child)
    /\ UNCHANGED <<outside, phase, try, lastFile, kept, result>>

\* The time limit and the watchdog.  Only codex may be idle for less than its limit.
Alarm(kind) ==
    /\ phase = "run" /\ pipe.armed
    /\ pipe' = [pipe EXCEPT ![kind] = TRUE]
    /\ child' = Killed(child)
    /\ UNCHANGED <<outside, phase, try, lastFile, kept, result>>
Timeout == ~pipe.timeout /\ Alarm("timeout")
Watchdog == ~pipe.watchdog /\ Alarm("watchdog")

\* The gate's deadline: every run of a program listens to it until it is settled.
Deadline ==
    /\ ~cut /\ phase \in {"start", "run", "read", "request"}
    /\ cut' = TRUE
    /\ IF phase = "run" THEN pipe' = [pipe EXCEPT !.abort = TRUE] /\ child' = Killed(child)
                        ELSE UNCHANGED <<pipe, child>>
    /\ UNCHANGED <<order, heard, phase, try, lastFile, kept, result>>

\* "exit": the alarms are off, and a grace begins in case the pipes stay open.
OnExit_Trusting ==
    /\ phase = "run" /\ child.state = "gone" /\ pipe.armed
    /\ pipe' = [pipe EXCEPT !.armed = FALSE, !.grace = pipe.timeout \/ pipe.watchdog \/ pipe.abort]
    /\ UNCHANGED <<outside, phase, try, child, lastFile, kept, result>>
OnExit ==
    /\ phase = "run" /\ child.state = "gone" /\ pipe.armed
    /\ pipe' = [pipe EXCEPT !.armed = FALSE, !.grace = TRUE]
    /\ UNCHANGED <<outside, phase, try, child, lastFile, kept, result>>

\* settle, after "close" or the grace: the files are complete, or what is in the
\* pipes is lost.
Settle ==
    /\ phase = "run" /\ child.state = "gone" /\ ~pipe.armed
    /\ \/ pipe.grace
       \/ child.helper = "none" /\ (pipe.read = child.printed \/ pipe.full)
    /\ phase' = "read"
    /\ UNCHANGED <<outside, try, child, pipe, lastFile, kept, result>>

(***************************************************************************)
(* What the adapters make of it.                                           *)
(***************************************************************************)

Stopped == pipe.timeout \/ pipe.watchdog
OutText == IF pipe.read = 0 THEN "nothing" ELSE child.says
BaseStatus == IF Stopped THEN "timeout" ELSE IF child.code = 0 THEN "ok" ELSE "error"
QuotaHit == child.err = "banner" \/ OutText = "banner"
Banner(status) == IF status = "error" /\ QuotaHit THEN "quota-exhausted" ELSE status

SilentStall == Stopped /\ OutText = "nothing" /\ child.err = "nothing"
GaveUp == OutText = "sentinel"

\* classifyAgyOutcome; the others have the same base.
Classified ==
    IF order.p = "gemini" /\ (SilentStall \/ GaveUp) THEN "quota-exhausted" ELSE Banner(BaseStatus)

\* The text the review is parsed from, and who wrote it.
ReviewThere ==
    IF order.p = "codex" THEN lastFile[LastMsgFile(try)].says = "review"
                         ELSE child.says = "review" /\ pipe.read = 2
WrittenBy == IF order.p = "codex" THEN lastFile[LastMsgFile(try)].by ELSE try

\* mappingLooksLossy: a finding that does not fit the schema is lost.
Lost(answer) == {f \in answer.found : ~f.fits}
Left(answer) == answer.found \ Lost(answer)
Blocks(findings) == \E f \in findings : f.blocking
Lossy_PassOnly(answer) ==
    \/ Blocks(Lost(answer))
    \/ answer.found # {} /\ Left(answer) = {}
Lossy(answer) ==
    \/ Blocks(Lost(answer))
    \/ answer.found # {} /\ Left(answer) = {}
    \/ answer.verdict = "FAIL" /\ ~Blocks(Left(answer))

Outcome(status, verdict, inferred) == [status |-> status, verdict |-> verdict, inferred |-> inferred]
Failure(status) == Outcome(status, "ERROR", FALSE)
Mapped(answer) ==
    IF order.p \in Counting /\ Lossy(answer) THEN Failure("error")
    ELSE Outcome("ok", IF Blocks(Left(answer)) THEN "FAIL" ELSE "PASS", FALSE)

\* What one run of a program comes to.
Came(answer) ==
    IF Classified # "ok" THEN Outcome(Classified, "ERROR", order.p = "gemini" /\ (SilentStall \/ GaveUp))
    ELSE IF ReviewThere THEN Mapped(answer)
    ELSE Failure(IF QuotaHit THEN "quota-exhausted" ELSE "error")

\* codex is asked again after an error nobody made; agy is probed after a silence.
AsksAgain(r) == order.p = "codex" /\ try = 1 /\ ~order.once /\ r.status = "error" /\ ~pipe.abort /\ ~cut
Probes == order.p = "gemini" /\ try = 1 /\ ~order.once /\ SilentStall /\ ~cut

Answer(r) == phase' = "done" /\ result' = r
Again(n) == phase' = "start" /\ try' = n

Read ==
    /\ phase = "read" /\ try # 3
    /\ \E answer \in Answers :
          LET r == Came(answer)
          IN  /\ heard' = IF r.status = "ok" THEN {[answer |-> answer, by |-> WrittenBy]} ELSE {}
              /\ \/ AsksAgain(r) /\ Again(2) /\ UNCHANGED <<kept, result>>
                 \/ Probes /\ Again(3) /\ kept' = r /\ UNCHANGED result
                 \/ ~AsksAgain(r) /\ ~Probes /\ Answer(r) /\ UNCHANGED <<try, kept>>
    /\ UNCHANGED <<order, child, pipe, cut, lastFile>>

\* probeAlive: what agy answers to a trivial question, however it ends.
ReadProbe ==
    /\ phase = "read" /\ try = 3
    /\ Answer(IF QuotaHit THEN [kept EXCEPT !.inferred = FALSE]
              ELSE IF OutText # "nothing" THEN Failure("timeout")
              ELSE kept)
    /\ UNCHANGED <<outside, try, child, pipe, lastFile, kept>>

(***************************************************************************)
(* The two adapters that make a request instead.                           *)
(***************************************************************************)

NoKey ==
    /\ phase = "start" /\ order.p \in Http /\ ~order.key
    /\ Answer(Failure("error"))
    /\ UNCHANGED <<outside, try, child, pipe, lastFile, kept>>

Request ==
    /\ phase = "start" /\ order.p \in Http /\ order.key
    /\ phase' = "request"
    /\ UNCHANGED <<outside, try, child, pipe, lastFile, kept, result>>

\* The time limit or the deadline ends it: an error like any other.
RequestEnds ==
    /\ phase = "request"
    /\ Answer(Failure("error"))
    /\ UNCHANGED <<outside, try, child, pipe, lastFile, kept>>

Response ==
    /\ phase = "request" /\ ~cut
    /\ \/ \E status \in {"error", "quota-exhausted"} : Answer(Failure(status)) /\ UNCHANGED heard
       \/ \E answer \in Answers : Answer(Mapped(answer)) /\ heard' = {[answer |-> answer, by |-> try]}
    /\ UNCHANGED <<order, cut, try, child, pipe, lastFile, kept>>

RevInit ==
    /\ order \in Orders
    /\ phase = "start" /\ try = 1 /\ child = Nobody /\ pipe = NoPipe /\ cut = FALSE
    /\ lastFile = [n \in 1 .. 2 |-> NoFile]
    /\ kept = NoResult /\ result = NoResult /\ heard = {}

\* What the event loop gets round to.
Handles == Spawn \/ OnExit \/ Settle \/ Read \/ ReadProbe \/ NoKey \/ Request

RevNext ==
    \/ Prints \/ WritesLast \/ Forks \/ Exits \/ HelperEnds
    \/ Handles \/ CannotSpawn \/ Data \/ Timeout \/ Watchdog \/ Deadline \/ RequestEnds \/ Response

\* A time limit that is armed goes off, and an event that has come is handled; no
\* program has to end, print or let go of a pipe.
RevFairness == WF_revVars(Handles) /\ WF_revVars(Timeout) /\ WF_revVars(RequestEnds)
RevSpec == RevInit /\ [][RevNext]_revVars /\ RevFairness

(***************************************************************************)
(* What a call promises.                                                   *)
(***************************************************************************)

\* What is taken for a review was written by a run that ended by itself, with no
\* error, not by an earlier attempt; and what is read from the pipe was read to its
\* end, whichever of the ends of a run came first (spawn.ts:settle, codex.ts:runOnce).
ReviewIsWhole ==
    phase = "done" /\ result.status = "ok" /\ order.p \notin Http =>
        /\ child.code = 0 /\ ~pipe.timeout /\ ~pipe.watchdog
        /\ order.p # "codex" => pipe.read = 2
        /\ \A s \in heard : s.by = try

\* A reviewer that reported something blocking, or says FAIL, is not taken for one
\* that found nothing because what it said did not fit the schema; for the adapters
\* that count what is lost (review-output.ts:mappingLooksLossy).
BlockingIsHeard ==
    result # NoResult /\ result.verdict = "PASS" /\ order.p \in Counting =>
        \A s \in heard : s.answer.verdict = "PASS" /\ ~Blocks(s.answer.found)

\* Every call is answered, whoever hangs, and whoever holds a pipe open.
ReviewEnds == phase = "start" ~> phase = "done"
=============================================================================
