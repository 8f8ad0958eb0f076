----------------------------- MODULE CritiqueRun -----------------------------
(***************************************************************************)
(* The critique branch of a chat run: the parser of the agent's output      *)
(* (critique/parsers/v1.ts), the orchestrator that scores its rounds and    *)
(* decides (orchestrator.ts, scoreboard.ts), the registry of abort handles  *)
(* and the interrupt endpoint (run-registry.ts, interrupt-handler.ts), the  *)
(* row of critique_runs (persistence.ts) and the branch of server.ts that   *)
(* turns the verdict into the end of the chat run, with daemon crashes and  *)
(* the reconciliation at boot.                                              *)
(*                                                                          *)
(* The orchestrator runs in one piece between two of its awaits: pc is the  *)
(* await it is at.  A tag of the agent's output is one step, as the output  *)
(* may be split into chunks anywhere.                                       *)
(***************************************************************************)
EXTENDS Integers, Sequences

CONSTANTS
    Rounds,     \* round numbers the agent may name
    Scores,     \* composites a panelist's score may lead to
    Threshold,  \* cfg.scoreThreshold
    Policies,   \* the fallback policies to consider
    MaxClosed   \* bound: rounds closed before the agent says nothing more

NoScore == -1
NoRound == [n |-> 0, composite |-> NoScore, mustFix |-> FALSE]

ASSUME CritiqueAssumption ==
    /\ Rounds \subseteq Nat \ {0}
    /\ Scores \subseteq Nat
    /\ Threshold \in Nat
    /\ Policies \subseteq {"ship_best", "ship_last", "fail"}
    /\ MaxClosed \in Nat

VARIABLES
    policy,   \* cfg.fallbackPolicy; "unread" until it is asked for
    pc,       \* where the orchestrator is
    cause,    \* why its loop was left: what the cleanup of the stream ends in
    parser,   \* the parser's state
    states,   \* roundStates: the score so far of every round heard of
    done,     \* completedRounds
    deadline, \* [armed, n]: roundDeadline, currentRoundN
    ship,     \* round of the buffered ship event, or 0; its artifact with it
    final,    \* finalStatus, finalComposite
    path,     \* artifactPath: whether the artifact was written
    told,     \* ship and closing events emitted, in order
    handle,   \* the registry's entry: "none", "armed", "aborted"
    row,      \* the row of critique_runs
    file,     \* artifact.<ext> is on disk
    child,    \* the agent process
    chat,     \* [status, cancelRequested] of the chat run
    daemon    \* "up", "down"

scope   == <<parser, states, deadline>>
reading == <<scope, done, ship>>
result  == <<final, path, told>>
stored  == <<row, file>>
vars == <<policy, pc, cause, reading, result, handle, stored, child, chat, daemon>>

Working == {"reading", "stopping", "shipping", "pinning", "writing"}

NoFinal    == [status |-> "failed", score |-> NoScore]
NoParser   == [inRun |-> FALSE, round |-> 0, closed |-> FALSE, artifact |-> FALSE]
NoStates   == [n \in Rounds |-> NoRound]
NoDeadline == [armed |-> FALSE, n |-> 0]

Init ==
    /\ policy = "unread"
    /\ pc = "spawned"
    /\ cause = "none"
    /\ parser = NoParser
    /\ states = NoStates
    /\ deadline = NoDeadline
    /\ done = <<>>
    /\ ship = 0
    /\ final = NoFinal
    /\ path = FALSE
    /\ told = <<>>
    /\ handle = "none"
    /\ row = [status |-> "none", score |-> NoScore, artifact |-> FALSE]
    /\ file = FALSE
    /\ child = [proc |-> "alive", how |-> "none", killed |-> FALSE]
    /\ chat = [status |-> "running", cancelRequested |-> FALSE]
    /\ daemon = "up"

\* finish() of runs.ts: a chat run ends once.
Finish(run, status) == IF run.status = "running" THEN [run EXCEPT !.status = status] ELSE run

Signalled(ch) == IF ch.proc = "alive" THEN [ch EXCEPT !.killed = TRUE] ELSE ch

-----------------------------------------------------------------------------
(* The start: the handle is registered and the row inserted in one tick     *)

Begin ==
    /\ pc = "spawned"
    /\ handle' = "armed"
    /\ row' = [row EXCEPT !.status = "running"]
    /\ pc' = "reading"
    /\ UNCHANGED <<policy, cause, reading, result, file, child, chat, daemon>>

\* The insert throws, for instance for a project that is gone: outside the
\* orchestrator's try, so that nobody signals the child.
BeginThrows ==
    /\ pc = "spawned"
    /\ chat' = Finish(chat, "failed")
    /\ pc' = "refused"
    /\ UNCHANGED <<policy, cause, reading, result, handle, stored, child, daemon>>

-----------------------------------------------------------------------------
(* The loop is left: applyTimeouts gives the source 200 ms to clean up       *)

\* The locals of the loop and of the parser are gone.
ScopeEnds ==
    /\ parser' = NoParser
    /\ states' = NoStates
    /\ deadline' = NoDeadline
    /\ UNCHANGED <<done, ship>>

Stop(why) ==
    /\ cause' = why
    /\ pc' = "stopping"
    /\ ScopeEnds

\* The agent speaks: also what is in the pipe when it has exited.
Hears == pc = "reading" /\ Len(done) < MaxClosed

\* A tag outside its envelope, a ship or a first round without its artifact
\* breaks the loop off.
Tag(enveloped, effect) ==
    /\ Hears
    /\ IF enveloped THEN effect /\ UNCHANGED <<pc, cause>> ELSE Stop("block")
    /\ UNCHANGED <<policy, result, handle, stored, child, chat, daemon>>

OpenRun ==
    Tag(TRUE, parser' = [parser EXCEPT !.inRun = TRUE]
              /\ UNCHANGED <<states, done, deadline, ship>>)

CloseRun ==
    Tag(TRUE, parser' = [parser EXCEPT !.inRun = FALSE]
              /\ UNCHANGED <<states, done, deadline, ship>>)

OpenRound(n) ==
    Tag(parser.inRun, parser' = [parser EXCEPT !.round = n]
                      /\ UNCHANGED <<states, done, deadline, ship>>)

\* A panelist's block: the round it is in gets a new composite, and a round
\* that was not the last one heard of gets a deadline.
Panelist(composite, mustFix, artifact) ==
    LET n == parser.round
    IN  Tag(parser.inRun /\ n # 0,
            /\ parser' = [parser EXCEPT !.artifact = @ \/ (artifact /\ n = 1)]
            /\ states' = [states EXCEPT ![n] = [n |-> n, composite |-> composite,
                                                mustFix |-> @.mustFix \/ mustFix]]
            /\ deadline' = IF deadline.n = n THEN deadline ELSE [armed |-> TRUE, n |-> n]
            /\ UNCHANGED <<done, ship>>)

\* The end of a round, which need not be the one that is open: the deadline
\* goes in any case, and a round that was heard of is completed.
RoundEnd(n) ==
    Tag(parser.inRun /\ (parser.round = 1 => parser.artifact),
        /\ parser' = [parser EXCEPT !.round = 0, !.closed = TRUE]
        /\ done' = IF states[n] = NoRound THEN done ELSE Append(done, states[n])
        /\ deadline' = [deadline EXCEPT !.armed = FALSE]
        /\ UNCHANGED <<states, ship>>)

\* The first ship is kept, with its artifact; another one is only warned of.
Ship(n, artifact) ==
    Tag(parser.inRun /\ parser.closed /\ (ship = 0 => artifact),
        ship' = (IF ship = 0 THEN n ELSE ship)
        /\ UNCHANGED <<parser, states, done, deadline>>)

\* Stray text, or a block over the limit.
Garbage == Tag(FALSE, FALSE)

Leave(why) ==
    /\ pc = "reading"
    /\ Stop(why)
    /\ UNCHANGED <<policy, result, handle, stored, child, chat, daemon>>

\* Mutant of TotalTimeout: the total timer is not armed without a round's.
TotalTimeoutInRound == deadline.armed /\ Leave("total")

TotalTimeout == Leave("total")

RoundTimeout == deadline.armed /\ Leave("round")

\* The close event of the child is raced against the end of its output: it
\* may be seen first.
ChildFailed == child.proc = "gone" /\ child.how = "nonzero" /\ Leave("exit")

ChildSignaled == child.proc = "gone" /\ child.how = "signal" /\ Leave("signal")

-----------------------------------------------------------------------------
(* The decision                                                             *)

\* Mutant of Ships: must-fix findings are not looked at.
ShipsByScore(r) == r.composite >= Threshold

\* decideRound: the daemon's own score decides, not the agent's claim.
Ships(r) == r.composite >= Threshold /\ ~r.mustFix

\* selectFallbackRound, ship_best: of equal composites the later round.
Better(i, j) ==
    \/ done[i].composite > done[j].composite
    \/ done[i].composite = done[j].composite /\ done[i].n >= done[j].n

Elected(p) ==
    IF done = <<>> \/ p = "fail" THEN NoRound
    ELSE IF p = "ship_last" THEN done[Len(done)]
    ELSE done[CHOOSE i \in DOMAIN done : \A j \in DOMAIN done : Better(i, j)]

Event(name, status, n) == [event |-> name, status |-> status, n |-> n]
ShipOf(r, status) == IF r = NoRound THEN <<>> ELSE <<Event("ship", status, r.n)>>

StatusOf(why) ==
    CASE why \in {"abort", "signal"} -> "interrupted"
      [] why \in {"total", "round"}  -> "timed_out"
      [] why = "block"               -> "degraded"
      [] OTHER                       -> "failed"

KillChild == Signalled(child)

\* The catch block: the child is signalled, the best round so far is shipped
\* where the run was interrupted or timed out, and the end is told.
Concluded(why) ==
    LET status == StatusOf(why)
        last   == IF status = "timed_out" THEN "failed" ELSE status
    IN  \E p \in Policies :
          LET best == IF status \in {"interrupted", "timed_out"} THEN Elected(p) ELSE NoRound
          IN  /\ policy' = p
              /\ child' = KillChild
              /\ final' = [status |-> status, score |-> best.composite]
              /\ told' = told \o ShipOf(best, status) \o <<Event(last, status, 0)>>
              /\ pc' = "writing"
              /\ UNCHANGED path

\* The cleanup is over.  An abort that came in meanwhile is too late for a
\* cause that was there first.
CleanedUp ==
    /\ pc = "stopping"
    /\ Concluded(cause)
    /\ UNCHANGED <<cause, reading, handle, stored, chat, daemon>>

\* The ship's round as the daemon closed it, the first time if it did twice.
Closed(n) == {i \in DOMAIN done : done[i].n = n}
First(n)  == done[CHOOSE i \in Closed(n) : \A j \in Closed(n) : i <= j]

\* The agent's ship of a round the daemon has closed.
Accepts(r) ==
    /\ final' = [status |-> IF Ships(r) THEN "shipped" ELSE "below_threshold",
                 score  |-> r.composite]
    /\ pc' = "shipping"
    /\ UNCHANGED <<policy, path, told, child>>

\* No ship, or a ship of no closed round: the fallback policy decides.
FallsBack ==
    \E p \in Policies :
      LET best == Elected(p)
      IN  /\ policy' = p
          /\ child' = KillChild
          /\ final' = [status |-> IF best = NoRound THEN "failed" ELSE "below_threshold",
                       score  |-> best.composite]
          /\ told' = IF best = NoRound THEN <<Event("failed", "failed", 0)>>
                     ELSE ShipOf(best, "below_threshold")
          /\ pc' = "writing"
          /\ UNCHANGED path

\* The end of the output: an envelope that is open and has shipped nothing is
\* malformed.
SourceEnds ==
    /\ pc = "reading"
    /\ child.proc = "gone"
    /\ cause' = "eof"
    /\ IF parser.inRun /\ ship = 0 THEN Concluded("block")
       ELSE IF Closed(ship) # {} THEN Accepts(First(ship))
       ELSE FallsBack
    /\ ScopeEnds
    /\ UNCHANGED <<handle, stored, chat, daemon>>

-----------------------------------------------------------------------------
(* Writing down: artifact, path, ship event, transcript, verdict             *)

\* writeShipArtifact has renamed its temporary file.
ArtifactWritten ==
    /\ pc = "shipping"
    /\ file' = TRUE
    /\ pc' = "pinning"
    /\ UNCHANGED <<policy, cause, reading, result, handle, row, child, chat, daemon>>

\* updateCritiqueRun: a row that was deleted with its project stays deleted.
Update(patched) == row' = IF row.status \in {"none", "deleted"} THEN row ELSE patched

\* Mutant of Tells: the claim of the agent is passed on.
TellsClaim == told' = Append(told, Event("ship", "shipped", ship))

Tells == told' = Append(told, Event("ship", final.status, ship))

\* Mutant of ArtifactPinned: the event goes out before the path is in the row.
ArtifactTold ==
    /\ pc = "pinning"
    /\ path' = TRUE
    /\ Tells
    /\ pc' = "writing"
    /\ UNCHANGED <<policy, cause, reading, final, handle, stored, child, chat, daemon>>

ArtifactPinned ==
    /\ pc = "pinning"
    /\ path' = TRUE
    /\ Update([row EXCEPT !.artifact = TRUE])
    /\ Tells
    /\ pc' = "writing"
    /\ UNCHANGED <<policy, cause, reading, final, handle, file, child, chat, daemon>>

\* The write fails, or the update does: the ship is told all the same.
ArtifactFails ==
    /\ pc \in {"shipping", "pinning"}
    /\ Tells
    /\ pc' = "writing"
    /\ UNCHANGED <<policy, cause, reading, final, path, handle, stored, child, chat, daemon>>

\* The status of the chat run by the verdict (server.ts).
ChatStatus ==
    IF chat.cancelRequested THEN "canceled"
    ELSE IF final.status \in {"shipped", "below_threshold"} THEN "succeeded"
    ELSE "failed"

\* The transcript is written or not; the row gets its verdict, the chat run
\* its end, and the handle is taken back, all in one tick.
Settle ==
    /\ pc = "writing"
    /\ Update([status |-> final.status, score |-> final.score, artifact |-> path])
    /\ chat' = Finish(chat, ChatStatus)
    /\ handle' = "none"
    /\ pc' = "done"
    /\ UNCHANGED <<policy, cause, reading, result, file, child, daemon>>

\* The last update throws: the row stays as it is.
SettleThrows ==
    /\ pc = "writing"
    /\ chat' = Finish(chat, "failed")
    /\ handle' = "none"
    /\ pc' = "threw"
    /\ UNCHANGED <<policy, cause, reading, result, stored, child, daemon>>

-----------------------------------------------------------------------------
(* The interrupt endpoint                                                   *)

\* Mutant of Recover: a row that has a verdict is overwritten.
RecoverAny ==
    /\ daemon = "up"
    /\ row.status \notin {"none", "deleted"} /\ handle = "none"
    /\ row' = [row EXCEPT !.status = "interrupted"]
    /\ UNCHANGED <<policy, pc, cause, reading, result, handle, file, child, chat, daemon>>

\* No handle: the row was left by a daemon that is gone, or by an update that
\* threw, and is marked here.
Recover ==
    /\ daemon = "up"
    /\ row.status = "running" /\ handle = "none"
    /\ row' = [row EXCEPT !.status = "interrupted"]
    /\ UNCHANGED <<policy, pc, cause, reading, result, handle, file, child, chat, daemon>>

\* The abort reaches the loop at once, and nothing that has left the loop.
Interrupt ==
    /\ daemon = "up"
    /\ row.status = "running" /\ handle # "none"
    /\ handle' = "aborted"
    /\ IF pc = "reading" THEN Stop("abort") ELSE UNCHANGED <<pc, cause, reading>>
    /\ UNCHANGED <<policy, result, stored, child, chat, daemon>>

-----------------------------------------------------------------------------
(* The child, the chat run, the project and the daemon                      *)

\* Nobody looks once the orchestrator is done.
ChildExits(how) ==
    /\ pc \in Working /\ child.proc = "alive"
    /\ child' = [child EXCEPT !.proc = "gone", !.how = how]
    /\ UNCHANGED <<policy, pc, cause, reading, result, handle, stored, chat, daemon>>

\* Cancel of the chat run: the child is signalled the first time, and the
\* run is ended the second time.
Cancel ==
    /\ daemon = "up" /\ pc # "spawned" /\ chat.status = "running"
    /\ chat' = IF child.killed THEN [status |-> "canceled", cancelRequested |-> TRUE]
               ELSE [chat EXCEPT !.cancelRequested = TRUE]
    /\ child' = Signalled(child)
    /\ UNCHANGED <<policy, pc, cause, reading, result, handle, stored, daemon>>

\* The inactivity watchdog of the chat run.
WatchdogFires ==
    /\ daemon = "up" /\ pc # "spawned"
    /\ chat = [status |-> "running", cancelRequested |-> FALSE]
    /\ chat' = Finish(chat, "failed")
    /\ child' = Signalled(child)
    /\ UNCHANGED <<policy, pc, cause, reading, result, handle, stored, daemon>>

\* Its row goes with the project.
DeleteProject ==
    /\ daemon = "up" /\ pc # "spawned"
    /\ row.status # "none"
    /\ row' = [status |-> "deleted", score |-> NoScore, artifact |-> FALSE]
    /\ UNCHANGED <<policy, pc, cause, reading, result, handle, file, child, chat, daemon>>

\* The daemon dies, and what it held in memory is lost: an orchestrator at
\* work (what it has told, clients have), the handle, the chat run.
Crash ==
    /\ daemon = "up" /\ pc # "spawned"
    /\ daemon' = "down"
    /\ handle' = "none"
    /\ chat' = Finish(chat, "lost")
    /\ IF pc \in Working
       THEN /\ pc' = "dead" /\ cause' = "none" /\ policy' = "unread" /\ final' = NoFinal
            /\ parser' = NoParser /\ states' = NoStates /\ deadline' = NoDeadline
            /\ done' = <<>> /\ ship' = 0
       ELSE UNCHANGED <<pc, cause, policy, final, reading>>
    /\ UNCHANGED <<path, told, stored, child>>

\* reconcileStaleRuns: only a running row older than the total timeout is
\* marked at boot.
Boot(stale) ==
    /\ daemon = "down"
    /\ daemon' = "up"
    /\ row' = IF row.status = "running" /\ stale
              THEN [row EXCEPT !.status = "interrupted"] ELSE row
    /\ UNCHANGED <<policy, pc, cause, reading, result, handle, file, child, chat>>

-----------------------------------------------------------------------------

Speaking ==
    \/ OpenRun
    \/ CloseRun
    \/ Garbage
    \/ \E n \in Rounds : OpenRound(n) \/ RoundEnd(n)
    \/ \E c \in Scores, mustFix, artifact \in BOOLEAN : Panelist(c, mustFix, artifact)
    \/ \E n \in Rounds, artifact \in BOOLEAN : Ship(n, artifact)

Leaving == TotalTimeout \/ RoundTimeout \/ ChildFailed \/ ChildSignaled \/ SourceEnds

Writing == CleanedUp \/ ArtifactWritten \/ ArtifactPinned \/ ArtifactFails \/ Settle \/ SettleThrows

Next ==
    \/ Begin
    \/ BeginThrows
    \/ Speaking
    \/ Leaving
    \/ Writing
    \/ Recover
    \/ Interrupt
    \/ \E how \in {"zero", "nonzero", "signal"} : ChildExits(how)
    \/ Cancel
    \/ WatchdogFires
    \/ DeleteProject
    \/ Crash
    \/ \E stale \in BOOLEAN : Boot(stale)

Spec == Init /\ [][Next]_vars

\* Timers fire and file operations return; nothing makes the agent speak or
\* leave, and nobody need interrupt it.
Fairness == WF_vars(TotalTimeout) /\ WF_vars(Writing)

FairSpec == Spec /\ Fairness

-----------------------------------------------------------------------------
(* Properties                                                               *)

RoundType    == [n : Rounds, composite : Scores, mustFix : BOOLEAN]
Verdicts     == {"shipped", "below_threshold", "timed_out", "interrupted", "degraded", "failed"}
Causes       == {"none", "block", "total", "round", "exit", "signal", "abort", "eof"}
EventType    == [event : Verdicts \cup {"ship"}, status : Verdicts, n : Rounds \cup {0}]
ScoreType    == Scores \cup {NoScore}
StatesType   == [Rounds -> RoundType \cup {NoRound}]
ParserType   == [inRun : BOOLEAN, round : Rounds \cup {0}, closed : BOOLEAN, artifact : BOOLEAN]
RowType      == [status : Verdicts \cup {"none", "running", "deleted"}, score : ScoreType,
                 artifact : BOOLEAN]
ChildType    == [proc : {"alive", "gone"}, how : {"none", "zero", "nonzero", "signal"},
                 killed : BOOLEAN]
ChatType     == [status : {"running", "succeeded", "failed", "canceled", "lost"},
                 cancelRequested : BOOLEAN]
DeadlineType == [armed : BOOLEAN, n : Rounds \cup {0}]

\* The type invariant: in particular, a round was heard of or it was not, and
\* a score is one of a round or the sentinel.
TypeOK ==
    /\ policy \in Policies \cup {"unread"}
    /\ pc \in Working \cup {"spawned", "refused", "done", "threw", "dead"}
    /\ cause \in Causes
    /\ parser \in ParserType /\ states \in StatesType /\ deadline \in DeadlineType
    /\ done \in Seq(RoundType)
    /\ ship \in Rounds \cup {0}
    /\ final \in [status : Verdicts, score : ScoreType]
    /\ path \in BOOLEAN
    /\ told \in Seq(EventType)
    /\ handle \in {"none", "armed", "aborted"}
    /\ row \in RowType /\ file \in BOOLEAN
    /\ child \in ChildType /\ chat \in ChatType
    /\ daemon \in {"up", "down"}

\* The verdict is given once and stands, and the chat run succeeds only with
\* it, whatever interrupts, cancels, crashes and reconciliations come in
\* between (updateCritiqueRun writes the status without looking at it).
Verdict == INSTANCE CritiqueVerdict WITH verdict <- row.status, outcome <- chat.status
ImplementsVerdict == Verdict!Spec

\* A design is shipped only if the round the agent names was closed by the
\* daemon with a composite that meets the threshold and nothing to fix, and
\* the row has that score.
ShippedMeetsBar ==
    row.status = "shipped" =>
        \E i \in DOMAIN done :
            /\ done[i].n = ship /\ done[i].composite = row.score
            /\ row.score >= Threshold /\ ~done[i].mustFix

\* The row never points at an artifact that is not on disk, and a client that
\* is told of a ship whose artifact was written finds it in the row, crashes
\* notwithstanding (write file, persist path, emit).
ShipIsFetchable ==
    /\ row.artifact => file
    /\ path /\ told # <<>> => row.artifact \/ row.status = "deleted"

\* What clients were told agrees with the row: one ship at most, of the
\* verdict's status, and the closing event of a verdict that is not a ship.
ToldIsVerdict ==
    /\ \A i, j \in DOMAIN told : told[i].event = told[j].event => i = j
    /\ pc = "done" /\ row.status # "deleted" =>
         /\ told # <<>>
         /\ \A i \in DOMAIN told : told[i].status = row.status
         /\ row.status \in {"shipped", "below_threshold"} <=> told[Len(told)].event = "ship"

\* Every critique ends, and its chat run with it, however silent the agent.
EveryCritiqueEnds == (pc = "reading") ~> (chat.status # "running")

=============================================================================
