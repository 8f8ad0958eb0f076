--------------------------- MODULE ChatRunProofs ----------------------------
(***************************************************************************)
(* Theorems about ChatRun, for any set of agents, any clients, waiters and *)
(* buffer capacity, and any bound; and, last, about the session an ACP run *)
(* owns, AcpSession, whose ends ChatRun takes as SessionFinishes and       *)
(* SessionFails.                                                           *)
(***************************************************************************)
EXTENDS ChatRun, RunObjectProofs, SequenceTheorems

-----------------------------------------------------------------------------
(* The inductive invariant                                                 *)

\* What there is by where startChatRun is: nothing before the spawn.
Staged ==
    /\ pc # "live" => child.proc = "none" /\ session = "none" /\ critique = "none"
    /\ pc \notin {"live", "returned"} => run.status \in {"queued"} \cup TerminalStatus
    /\ exit = "none" <=> child.proc \in {"none", "alive", "failing"}

\* What only some agents have.
ByFormat ==
    /\ session # "none" => HasSession
    /\ critique # "none" => agent.format = "critique"
    /\ turn.streamErr => Tracked

\* What the flags of the closure say.
Flagged ==
    /\ turn.quiet => turn.artifact
    /\ turn.output => child.proc \in {"alive", "exited", "closed"} /\ exit # "spawnError"

\* Who claims success: the close handler, or the orchestrator of a critique
\* that had output.
Credited ==
    run.status = "succeeded" =>
        IF agent.format = "critique" THEN turn.output ELSE child.proc = "closed"

IInv ==
    /\ TypeOK
    /\ Tidy(run)
    /\ Staged /\ ByFormat /\ Flagged /\ Credited
    /\ EndedMeansSignalled /\ CancelWins /\ SuccessIsClean /\ GrantEndsWithChild

-----------------------------------------------------------------------------
(* What the operators do to the run, the child and the session              *)

\* The run as its observers see it.
Outward == Lifecycle!Next \/ UNCHANGED <<run.status, run.told>>

\* A step that advances the run settles it or does not show.
LEMMA AdvanceIsOutward ==
    ASSUME TypeOK, Advances(run, run')
    PROVE  Outward
<1>1. CASE run'.status = run.status /\ run'.told = run.told
  BY <1>1 DEF Outward
<1>2. CASE /\ ~Terminal(run)
           /\ run'.status \in TerminalStatus
           /\ run'.told = [w \in Waiters |-> IF run.told[w] = "asking" THEN run'.status
                                                                     ELSE run.told[w]]
  <2>1. run.status \in ActiveStatus
    BY <1>2 DEF TypeOK, RunType, Terminal
  <2>2. Lifecycle!Settle(run'.status)
    BY <1>2, <2>1 DEF Lifecycle!Settle, Lifecycle!ActiveStatus, ActiveStatus
  <2>3. QED
    BY <1>2, <2>2 DEF Outward, Lifecycle!Next, Lifecycle!TerminalStatus, TerminalStatus
<1>3. QED
  BY <1>1, <1>2 DEF Advances

\* Ends(r, s, status): what was an active run has been given the status.
Ends(r, s, status) ==
    /\ Advances(r, s)
    /\ s.status = IF Terminal(r) THEN r.status ELSE status
    /\ s.cancelRequested = r.cancelRequested

\* finish(), fail(), and either after an emit() that changes nothing of this.
LEMMA OperatorsEnd ==
    ASSUME NEW r \in RunType, Tidy(r)
    PROVE  /\ \A event \in EventKinds :
                  /\ Advances(r, Emit(r, event))
                  /\ Emit(r, event).status = r.status
                  /\ Emit(r, event).cancelRequested = r.cancelRequested
           /\ \A status \in TerminalStatus : Ends(r, Finish(r, status), status)
           /\ Ends(r, Fail(r), "failed")
  BY EmitAdvances, EmitFrame, FinishAdvances, FailAdvances, FinishEnds, FailEnds DEF Ends

\* The run is marked running, and its start sent.
LEMMA RunningRuns ==
    ASSUME NEW r \in RunType, Tidy(r), ~Terminal(r)
    PROVE  /\ Running(r) \in RunType /\ Tidy(Running(r))
           /\ Running(r).status = "running" /\ Running(r).told = r.told
           /\ Running(r).cancelRequested = r.cancelRequested
           /\ Running(r).clients \cup Running(r).closed = r.clients \cup r.closed
<1> DEFINE set == [r EXCEPT !.status = "running"]
<1>1. /\ set \in RunType /\ set.status = "running" /\ set.told = r.told
      /\ set.waiters = r.waiters /\ set.clients = r.clients /\ set.closed = r.closed
      /\ set.cancelRequested = r.cancelRequested
  BY DEF RunType, ActiveStatus
<1> HIDE DEF set
<1>2. Tidy(set)
  BY <1>1 DEF Tidy, Terminal, TerminalStatus
<1>3. Running(r) = Emit(set, "start") /\ "start" \in EventKinds
  BY DEF Running, set, EventKinds
<1>4. QED
  BY <1>1, <1>2, <1>3, EmitType, EmitTidy, EmitFrame

\* The error of a session reaches the run by its send.
LEMMA ReportedAdvances ==
    ASSUME IInv
    PROVE  /\ Reported(run) \in RunType /\ Tidy(Reported(run))
           /\ Advances(run, Reported(run))
           /\ Reported(run).status = run.status
           /\ Reported(run).cancelRequested = run.cancelRequested
<1>1. run \in RunType /\ Tidy(run) /\ "error" \in EventKinds
  BY DEF IInv, TypeOK, EventKinds
<1>2. Advances(run, run)
  BY <1>1 DEF Advances
<1>3. QED
  BY <1>1, <1>2, OperatorsEnd DEF Reported, Advances

\* A signal leaves a child what it was, but for the signal.
LEMMA KillType ==
    ASSUME NEW ch \in ChildType, NEW sig \in Signals
    PROVE  \A k \in {Kill(ch, sig), KillOnce(ch, sig)} :
               /\ k \in ChildType /\ k.proc = ch.proc
               /\ ch.killed => k.killed
               /\ ch.proc = "alive" => k.killed
<1> DEFINE hit == [ch EXCEPT !.killed = TRUE, !.got = ch.got \cup {sig}]
<1>1. hit \in ChildType /\ hit.proc = ch.proc /\ hit.killed
  BY DEF ChildType
<1>2. /\ Kill(ch, sig) = IF ch.proc = "alive" THEN hit ELSE ch
      /\ KillOnce(ch, sig) = IF ch.killed THEN ch ELSE Kill(ch, sig)
  BY DEF Kill, KillOnce
<1> HIDE DEF hit
<1>3. QED
  BY <1>1, <1>2

-----------------------------------------------------------------------------
(* Steps that end no process                                               *)

\* A handler, a timer or a call: the process goes on or has gone as before.
\* The run may be ended, but not as a success, and not with a process that
\* nobody has signalled; the flags only rise.
LEMMA HandlerKeeps ==
    ASSUME IInv, UNCHANGED <<agent, pc, exit, critique>>,
           Advances(run, run'),
           \/ run'.status = run.status
           \/ /\ ~Terminal(run) /\ run'.status \in {"failed", "canceled"}
              /\ run'.cancelRequested => run'.status = "canceled"
              /\ child'.proc = "alive" => child'.killed,
           run'.cancelRequested = run.cancelRequested \/ ~Terminal(run),
           child' \in ChildType, child'.proc = child.proc, child.killed => child'.killed,
           \/ session' = session
           \/ /\ session = "open" /\ session' \in {"finished", "fatal", "aborted"}
              /\ run.status # "succeeded",
           turn' \in TurnType,
           turn.artifact => turn'.artifact, turn.quiet => turn'.quiet,
           turn'.quiet => turn.quiet \/ turn'.artifact,
           turn.output => turn'.output, turn'.output => turn.output \/ Talking,
           turn.streamErr => turn'.streamErr,
           turn'.streamErr => turn.streamErr \/ (Tracked /\ run.status # "succeeded"),
           timers' \subseteq TimerSet, shut' \in {"no", "grace", "reaping", "done"},
           grant' \in GrantType, grant'.token = "live" => grant.token = "live",
           grant'.sink => grant.sink
    PROVE  IInv' /\ Outward
<1>1. TypeOK' /\ Tidy(run')
  BY DEF IInv, TypeOK, Advances, SessionSet
<1>2. Outward
  BY AdvanceIsOutward DEF IInv
<1>3. Staged'
  BY DEF IInv, Staged, TerminalStatus
<1>4. ByFormat'
  BY DEF IInv, ByFormat, Tracked, HasSession
<1>5. Flagged'
  BY DEF IInv, Flagged, Talking
<1>6. Credited'
  BY DEF IInv, Credited, Terminal, TerminalStatus
<1>7. EndedMeansSignalled'
  BY DEF IInv, EndedMeansSignalled, Terminal
<1>8. CancelWins'
  BY DEF IInv, CancelWins, Terminal
<1>9. SuccessIsClean'
  BY DEF IInv, SuccessIsClean, Tracked, Terminal, TerminalStatus
<1>10. GrantEndsWithChild'
  BY DEF IInv, GrantEndsWithChild
<1>11. QED
  BY <1>1, <1>2, <1>3, <1>4, <1>5, <1>6, <1>7, <1>8, <1>9, <1>10 DEF IInv

\* startChatRun before the spawn: it goes on, or it returns, and then it may
\* have failed the run.
LEMMA EarlyKeeps ==
    ASSUME IInv, pc \notin {"live", "returned"}, pc' \in PcSet \ {"live"},
           Advances(run, run'),
           run'.cancelRequested = run.cancelRequested,
           run'.status = run.status \/ (pc' = "returned" /\ run'.status = "failed"),
           UNCHANGED <<agent, process, turn, critique>>,
           timers' \subseteq TimerSet, shut' \in {"no", "grace", "reaping", "done"},
           grant' \in GrantType
    PROVE  IInv' /\ Outward
<1> USE DEF process
<1>1. child.proc = "none"
  BY DEF IInv, Staged
<1>2. TypeOK' /\ Tidy(run')
  BY DEF IInv, TypeOK, Advances
<1>3. Outward
  BY AdvanceIsOutward DEF IInv
<1>4. Staged' /\ ByFormat' /\ Flagged'
  BY DEF IInv, Staged, ByFormat, Flagged, Tracked, HasSession
<1>5. Credited'
  BY DEF IInv, Credited
<1>6. EndedMeansSignalled' /\ GrantEndsWithChild'
  BY <1>1 DEF EndedMeansSignalled, GrantEndsWithChild
<1>7. CancelWins'
  BY DEF IInv, CancelWins, Terminal
<1>8. SuccessIsClean'
  BY DEF IInv, SuccessIsClean, Tracked
<1>9. QED
  BY <1>2, <1>3, <1>4, <1>5, <1>6, <1>7, <1>8 DEF IInv

\* The steps of startChatRun up to the spawn.
LEMMA StartingKeeps ==
    ASSUME IInv, Starting, \A proc \in {"alive", "failing"} : ~Launch(proc)
    PROVE  IInv' /\ Outward
<1> USE DEF PcSet
<1>1. /\ run \in RunType /\ Tidy(run)
      /\ timers \subseteq TimerSet /\ shut \in {"no", "grace", "reaping", "done"}
      /\ grant \in GrantType
  BY DEF IInv, TypeOK
<1>2. Advances(run, run) /\ Ends(run, Fail(run), "failed")
  BY <1>1, OperatorsEnd DEF Advances
<1>3. Revoked(grant) \in GrantType
  BY <1>1 DEF Revoked, GrantType
<1>4. CASE Reject
  BY <1>1, <1>2, <1>4, EarlyKeeps DEF Reject, Ends
<1>5. CASE Start
  BY <1>1, <1>2, <1>5, EarlyKeeps DEF Start
<1>6. ASSUME NEW token \in {"none", "live"}, Gathered(token) PROVE IInv' /\ Outward
  <2>1. grant' \in GrantType
    BY <1>1, <1>6 DEF Gathered, GrantType
  <2>2. QED
    BY <1>1, <1>2, <1>6, <2>1, EarlyKeeps DEF Gathered
<1>7. CASE Prepared
  BY <1>1, <1>2, <1>7, EarlyKeeps DEF Prepared
<1>8. CASE GiveUp
  BY <1>1, <1>2, <1>8, EarlyKeeps DEF GiveUp, Ends
<1>9. CASE NoBinary
  BY <1>1, <1>2, <1>3, <1>9, EarlyKeeps DEF NoBinary, Ends
<1>10. CASE StoppedBeforeSpawn
  BY <1>1, <1>2, <1>3, <1>10, EarlyKeeps DEF StoppedBeforeSpawn
<1>11. CASE SpawnThrows
  <2>1. ~Terminal(run) /\ pc = "configuring" /\ run' = Fail(Running(run))
    BY <1>11 DEF SpawnThrows, Stopped
  <2>2. /\ Running(run) \in RunType /\ Tidy(Running(run)) /\ Running(run).status = "running"
        /\ Running(run).told = run.told /\ Running(run).cancelRequested = run.cancelRequested
        /\ Running(run).clients \cup Running(run).closed = run.clients \cup run.closed
    BY <1>1, <2>1, RunningRuns
  <2>3. Ends(Running(run), run', "failed")
    BY <2>1, <2>2, OperatorsEnd
  <2>4. /\ run'.status = "failed" /\ run'.cancelRequested = run.cancelRequested
        /\ Advances(run, run')
    BY <2>1, <2>2, <2>3 DEF Ends, Advances, Terminal, TerminalStatus
  <2>5. timers' \subseteq TimerSet
    BY <1>1, <1>11 DEF SpawnThrows, Armed, TimerSet
  <2>6. QED
    BY <1>1, <1>3, <1>11, <2>1, <2>4, <2>5, EarlyKeeps DEF SpawnThrows
<1>12. QED
  BY <1>4, <1>5, <1>6, <1>7, <1>8, <1>9, <1>10, <1>11 DEF Starting

\* The spawn: a run that nobody has stopped runs.
LEMMA LaunchKeeps ==
    ASSUME IInv, NEW proc \in {"alive", "failing"}, Launch(proc)
    PROVE  IInv' /\ Outward
<1>1. /\ pc = "configuring" /\ pc' = "live" /\ ~Terminal(run) /\ ~run.cancelRequested
      /\ run.status = "queued" /\ run' = Running(run)
      /\ exit = "none" /\ UNCHANGED <<agent, exit, turn, shut>>
  BY DEF Launch, Stopped, Terminal, IInv, Staged
<1>2. /\ run' \in RunType /\ Tidy(run') /\ run'.status = "running" /\ run'.told = run.told
      /\ ~run'.cancelRequested
  BY <1>1, RunningRuns DEF IInv, TypeOK
<1>3. agent.stubborn \in BOOLEAN
  BY ChatAssumption DEF IInv, TypeOK
<1>4. child' \in ChildType /\ child'.proc = proc
  BY <1>3 DEF Launch, Forked, NoChild, ChildType
<1>5. /\ session' = IF HasSession THEN "open" ELSE "none"
      /\ critique' = IF agent.format = "critique" THEN "running" ELSE "none"
      /\ timers' = Armed
      /\ grant' = [grant EXCEPT !.sink = grant.token # "none"]
  BY DEF Launch
<1>6. timers' \subseteq TimerSet /\ grant' \in GrantType
  BY <1>5 DEF IInv, TypeOK, Armed, TimerSet, GrantType
<1>7. TypeOK'
  BY <1>1, <1>2, <1>4, <1>5, <1>6 DEF IInv, TypeOK, PcSet, SessionSet
<1>8. Staged' /\ ByFormat'
  BY <1>1, <1>4, <1>5 DEF IInv, Staged, ByFormat, HasSession, Tracked
<1>9. ~turn.output
  BY <1>1 DEF IInv, Staged, Flagged
<1>10. Flagged'
  BY <1>1, <1>9 DEF IInv, Flagged
<1>11. ~Terminal(run') /\ run'.status # "succeeded" /\ child'.proc # "closed"
  BY <1>2, <1>4 DEF Terminal, TerminalStatus
<1>12. /\ Credited' /\ EndedMeansSignalled' /\ CancelWins' /\ SuccessIsClean'
       /\ GrantEndsWithChild'
  BY <1>11 DEF Credited, EndedMeansSignalled, CancelWins, SuccessIsClean, GrantEndsWithChild,
     Terminal
<1>13. Outward
  BY <1>1, <1>2 DEF Outward, Lifecycle!Next, Lifecycle!Begin
<1>14. QED
  BY <1>2, <1>7, <1>8, <1>10, <1>12, <1>13 DEF IInv

\* What the agent says, by its streams, its session and its token.
LEMMA SpeakingKeeps ==
    ASSUME IInv, Speaking
    PROVE  IInv' /\ Outward
<1> USE DEF process
<1>1. /\ run \in RunType /\ Tidy(run) /\ child \in ChildType /\ turn \in TurnType
      /\ timers \subseteq TimerSet /\ shut \in {"no", "grace", "reaping", "done"}
      /\ grant \in GrantType /\ session \in SessionSet
  BY DEF IInv, TypeOK
<1>2. Advances(run, run)
  BY <1>1 DEF Advances
<1>3. /\ Advances(run, Emit(run, "data")) /\ Advances(run, Emit(run, "error"))
      /\ Emit(run, "data").status = run.status /\ Emit(run, "error").status = run.status
      /\ Emit(run, "data").cancelRequested = run.cancelRequested
      /\ Emit(run, "error").cancelRequested = run.cancelRequested
  BY <1>1, OperatorsEnd DEF EventKinds
<1>4. Armed \subseteq TimerSet /\ "sessionEnd" \in TimerSet
  BY <1>1 DEF Armed, TimerSet
\* An agent that is heard, of a format with a session or tracked, has not
\* been closed, and so its run is no success yet.
<1>5. Talking /\ (Tracked \/ HasSession) => run.status # "succeeded"
  BY DEF IInv, Credited, Talking, Tracked, HasSession
<1>6. ASSUME NEW substantive \in BOOLEAN, Output(substantive) PROVE IInv' /\ Outward
  <2>1. /\ turn' \in TurnType /\ Talking
        /\ turn'.artifact = turn.artifact /\ turn'.quiet = turn.quiet
        /\ turn'.streamErr = turn.streamErr /\ (turn.output => turn'.output)
    BY <1>1, <1>6 DEF Output, TurnType
  <2>2. QED
    BY <1>1, <1>3, <1>4, <1>6, <2>1, HandlerKeeps DEF Output
<1>7. CASE StreamError
  <2>1. /\ turn' \in TurnType
        /\ turn'.artifact = turn.artifact /\ turn'.quiet = turn.quiet
        /\ turn'.output = turn.output /\ turn'.streamErr
    BY <1>1, <1>7 DEF StreamError, TurnType
  <2>2. QED
    BY <1>1, <1>3, <1>5, <1>7, <2>1, HandlerKeeps DEF StreamError
<1>8. CASE SessionFinishes
  <2>1. session = "open" /\ session' = "finished" /\ run.status # "succeeded"
    BY <1>5, <1>8 DEF SessionFinishes, IInv, ByFormat
  <2>2. timers' \subseteq TimerSet
    BY <1>4, <1>8 DEF SessionFinishes
  <2>3. QED
    BY <1>1, <1>2, <1>8, <2>1, <2>2, HandlerKeeps DEF SessionFinishes
<1>9. CASE SessionFails
  <2>1. session = "open" /\ session' = "fatal" /\ HasSession /\ run.status # "succeeded"
    BY <1>5, <1>9 DEF SessionFails, IInv, ByFormat
  <2>2. /\ turn' \in TurnType
        /\ turn'.artifact = turn.artifact /\ turn'.quiet = turn.quiet
        /\ turn'.output = turn.output /\ (turn.streamErr => turn'.streamErr)
        /\ turn'.streamErr => turn.streamErr \/ Tracked
    BY <1>1, <1>9 DEF SessionFails, Broken, TurnType, Tracked
  <2>3. /\ child' \in ChildType /\ child'.proc = child.proc /\ (child.killed => child'.killed)
    BY <1>1, <1>9, KillType DEF SessionFails, Signals
  <2>4. timers' \subseteq TimerSet
    BY <1>1, <1>4, <1>9 DEF SessionFails
  <2>5. /\ Advances(run, run') /\ run'.status = run.status
        /\ run'.cancelRequested = run.cancelRequested
    BY <1>9, ReportedAdvances DEF SessionFails
  <2>6. QED
    BY <1>1, <1>9, <2>1, <2>2, <2>3, <2>4, <2>5, HandlerKeeps DEF SessionFails
<1>10. CASE RegisterArtifact
  <2>1. /\ turn' \in TurnType /\ turn'.artifact
        /\ turn'.quiet = turn.quiet /\ turn'.output = turn.output
        /\ turn'.streamErr = turn.streamErr
    BY <1>1, <1>10 DEF RegisterArtifact, TurnType
  <2>2. QED
    BY <1>1, <1>3, <1>4, <1>10, <2>1, HandlerKeeps DEF RegisterArtifact
<1>11. CASE TokenExpires
  <2>1. grant' \in GrantType /\ grant'.token = "revoked" /\ grant'.sink = grant.sink
    BY <1>1, <1>11 DEF TokenExpires, GrantType
  <2>2. QED
    BY <1>1, <1>2, <1>11, <2>1, HandlerKeeps DEF TokenExpires
<1>12. CASE StdinFails
  BY <1>1, <1>3, <1>12, HandlerKeeps DEF StdinFails
<1>13. QED
  BY <1>6, <1>7, <1>8, <1>9, <1>10, <1>11, <1>12 DEF Speaking

\* Timers: the watchdog ends a run only with its process signalled.
LEMMA TickingKeeps ==
    ASSUME IInv, Ticking
    PROVE  IInv' /\ Outward
<1> USE DEF process
<1>1. /\ run \in RunType /\ Tidy(run) /\ child \in ChildType /\ turn \in TurnType
      /\ timers \subseteq TimerSet /\ shut \in {"no", "grace", "reaping", "done"}
      /\ grant \in GrantType /\ session \in SessionSet
  BY DEF IInv, TypeOK
<1>2. Advances(run, run) /\ Ends(run, Fail(run), "failed")
  BY <1>1, OperatorsEnd DEF Advances
<1>3. \A sig \in Signals :
          /\ KillOnce(child, sig) \in ChildType /\ KillOnce(child, sig).proc = child.proc
          /\ child.killed => KillOnce(child, sig).killed
          /\ child.proc = "alive" => KillOnce(child, sig).killed
  BY <1>1, KillType
<1>4. CASE WatchdogIdle
  BY <1>1, <1>2, <1>4, HandlerKeeps DEF WatchdogIdle
<1>5. CASE WatchdogFires
  <2>1. ~Terminal(run) /\ ~run.cancelRequested
    BY <1>5 DEF WatchdogFires, Stopped
  <2>2. /\ turn' \in TurnType
        /\ turn'.artifact = turn.artifact /\ (turn.quiet => turn'.quiet)
        /\ turn'.quiet => turn.quiet \/ turn'.artifact
        /\ turn'.output = turn.output /\ turn'.streamErr = turn.streamErr
    BY <1>1, <1>5 DEF WatchdogFires, TurnType
  <2>3. /\ child' \in ChildType /\ child'.proc = child.proc
        /\ child.killed => child'.killed
        /\ child.proc = "alive" => child'.killed
    BY <1>3, <1>5 DEF WatchdogFires, Signals
  <2>4. /\ Advances(run, run')
        /\ run'.status \in {run.status, "failed"}
        /\ run'.cancelRequested = run.cancelRequested
    BY <1>2, <1>5, <2>1 DEF WatchdogFires, Ends
  <2>5. session' = session \/ (session = "open" /\ session' = "aborted")
    BY <1>5 DEF WatchdogFires, Abort
  <2>6. run.status # "succeeded"
    BY <2>1 DEF Terminal, TerminalStatus
  <2>7. timers' \subseteq TimerSet
    BY <1>1, <1>5 DEF WatchdogFires, Forced, TimerSet
  <2>8. QED
    BY <1>1, <1>5, <2>1, <2>2, <2>3, <2>4, <2>5, <2>6, <2>7, HandlerKeeps DEF WatchdogFires
<1>6. ASSUME NEW timer \in TimerSet, NEW sig \in Signals, SignalAfter(timer, sig)
      PROVE  IInv' /\ Outward
  BY <1>1, <1>2, <1>3, <1>6, HandlerKeeps DEF SignalAfter
<1>7. QED
  BY <1>4, <1>5, <1>6 DEF Ticking, Force1, Force2, SessionEnd, CancelGrace, TimerSet, Signals

\* Cancel and shutdown end a run as canceled, and never with a process that
\* nobody has signalled.
LEMMA StoppingKeeps ==
    ASSUME IInv, Stopping
    PROVE  IInv' /\ Outward
<1> USE DEF process
<1>1. /\ run \in RunType /\ Tidy(run) /\ child \in ChildType /\ turn \in TurnType
      /\ timers \subseteq TimerSet /\ shut \in {"no", "grace", "reaping", "done"}
      /\ grant \in GrantType /\ session \in SessionSet
  BY DEF IInv, TypeOK
<1>2. Advances(run, run)
  BY <1>1 DEF Advances
<1>3. \A sig \in Signals :
          /\ Kill(child, sig) \in ChildType /\ Kill(child, sig).proc = child.proc
          /\ child.killed => Kill(child, sig).killed
          /\ child.proc = "alive" => Kill(child, sig).killed
  BY <1>1, KillType
<1> DEFINE asked == [run EXCEPT !.cancelRequested = TRUE]
<1>4. /\ asked \in RunType /\ asked.status = run.status /\ asked.cancelRequested
      /\ Advances(run, asked) /\ Advances(run, Finish(asked, "canceled"))
  BY <1>1, AskedAdvances DEF RunType
<1>5. ASSUME ~Terminal(run)
      PROVE  /\ Finish(asked, "canceled").status = "canceled"
             /\ Finish(asked, "canceled").cancelRequested
  BY <1>4, <1>5, FinishEnds DEF Terminal, TerminalStatus
<1> HIDE DEF asked
<1>6. CASE Cancel
  <2> DEFINE after == Cancelled(run, child, session)
  <2>1. /\ run' = after.run /\ child' = after.child /\ session' = after.acp /\ ~Terminal(run)
    BY <1>6 DEF Cancel
  <2>2. /\ child' \in ChildType /\ child'.proc = child.proc /\ (child.killed => child'.killed)
        /\ session' = session \/ (session = "open" /\ session' = "aborted")
        /\ \/ run' = asked
           \/ run' = Finish(asked, "canceled") /\ (child.proc = "none" \/ child.killed)
    BY <1>1, <1>3, <2>1 DEF Cancelled, Abort, Signals, asked
  <2>3. run.status # "succeeded"
    BY <2>1 DEF Terminal, TerminalStatus
  <2>4. timers' \subseteq TimerSet
    BY <1>1, <1>6 DEF Cancel, TimerSet
  <2>5. QED
    BY <1>1, <1>4, <1>5, <1>6, <2>1, <2>2, <2>3, <2>4, HandlerKeeps DEF Cancel
<1>7. CASE ShutdownActive
  <2> DEFINE after == ShutDown(run, child, session)
  <2>1. /\ run' = after.run /\ child' = after.child /\ session' = after.acp /\ ~Terminal(run)
    BY <1>7 DEF ShutdownActive
  <2>2. /\ child' \in ChildType /\ child'.proc = child.proc /\ (child.killed => child'.killed)
        /\ child.proc = "alive" => child'.killed
        /\ session' = session \/ (session = "open" /\ session' = "aborted")
        /\ run' = Finish(asked, "canceled")
    BY <1>1, <1>3, <2>1 DEF ShutDown, Abort, Signals, asked
  <2>3. run.status # "succeeded"
    BY <2>1 DEF Terminal, TerminalStatus
  <2>4. QED
    BY <1>1, <1>4, <1>5, <1>7, <2>1, <2>2, <2>3, HandlerKeeps DEF ShutdownActive
<1>8. CASE ShutdownSkips \/ ShutdownReturns
  BY <1>1, <1>2, <1>8, HandlerKeeps DEF ShutdownSkips, ShutdownReturns
<1>9. CASE ShutdownGraceEnds
  <2>1. /\ child' \in ChildType /\ child'.proc = child.proc /\ (child.killed => child'.killed)
    BY <1>3, <1>9 DEF ShutdownGraceEnds, Signals
  <2>2. QED
    BY <1>1, <1>2, <1>9, <2>1, HandlerKeeps DEF ShutdownGraceEnds
<1>10. QED
  BY <1>6, <1>7, <1>8, <1>9 DEF Stopping

-----------------------------------------------------------------------------
(* Steps that end the process or the run                                   *)

\* The process exits: nothing else happens yet.
LEMMA ChildExitsKeeps ==
    ASSUME IInv, NEW how \in {"zero", "nonzero"} \cup Signals, ChildExits(how)
    PROVE  IInv' /\ Outward
<1>1. /\ child.proc = "alive" /\ child' = [child EXCEPT !.proc = "exited"] /\ exit' = how
      /\ UNCHANGED <<agent, pc, run, session, timers, grant, turn, critique, shut>>
  BY DEF ChildExits
<1>2. child' \in ChildType /\ child'.proc = "exited" /\ how \in ExitSet /\ how \notin {"none", "spawnError"}
  BY <1>1 DEF IInv, TypeOK, ChildType, ExitSet, Signals
<1>3. pc = "live" /\ (run.status = "succeeded" => agent.format = "critique")
  BY <1>1 DEF IInv, Staged, Credited, TypeOK, PcSet
<1>4. TypeOK' /\ Tidy(run')
  BY <1>1, <1>2 DEF IInv, TypeOK
<1>5. Staged' /\ ByFormat' /\ Flagged'
  BY <1>1, <1>2, <1>3 DEF IInv, Staged, ByFormat, Flagged, Tracked, HasSession
<1>6. Credited' /\ EndedMeansSignalled' /\ GrantEndsWithChild'
  BY <1>1, <1>2, <1>3 DEF IInv, Credited, EndedMeansSignalled, GrantEndsWithChild
<1>7. CancelWins'
  <2>1. exit # "spawnError"
    BY <1>1 DEF IInv, Staged
  <2>2. QED
    BY <1>1, <1>3, <2>1 DEF IInv, CancelWins, Terminal
<1>8. SuccessIsClean'
  BY <1>1, <1>2, <1>3 DEF IInv, SuccessIsClean, Tracked
<1>9. QED
  BY <1>1, <1>4, <1>5, <1>6, <1>7, <1>8 DEF IInv, Outward

\* The error of a failed spawn: it never said anything, and its run fails
\* but for a critique, which the orchestrator will end.
LEMMA ChildErrorsKeeps ==
    ASSUME IInv, ChildErrors
    PROVE  IInv' /\ Outward
<1> DEFINE failed == IF session = "open" THEN Reported(run) ELSE run
<1>1. /\ child.proc = "failing" /\ child' = [child EXCEPT !.proc = "exited"]
      /\ exit' = "spawnError"
      /\ session' = IF session = "open" THEN "fatal" ELSE session
      /\ turn' = IF session = "open" THEN Broken(turn) ELSE turn
      /\ UNCHANGED <<agent, pc, critique, shut>>
  BY DEF ChildErrors
<1>2. /\ run \in RunType /\ Tidy(run) /\ child \in ChildType /\ turn \in TurnType
      /\ timers \subseteq TimerSet /\ grant \in GrantType /\ session \in SessionSet
  BY DEF IInv, TypeOK
<1>3. child' \in ChildType /\ child'.proc = "exited" /\ exit' \in ExitSet
  BY <1>1, <1>2 DEF ChildType, ExitSet
<1>4. pc = "live" /\ ~turn.output /\ run.status # "succeeded"
  BY <1>1 DEF IInv, Staged, Flagged, Credited, TypeOK, PcSet
<1>5. /\ failed \in RunType /\ Tidy(failed) /\ Advances(run, failed)
      /\ failed.status = run.status /\ failed.cancelRequested = run.cancelRequested
  BY <1>2, ReportedAdvances DEF Advances
<1> HIDE DEF failed
<1>6. Advances(failed, Fail(failed)) /\ Ends(failed, Fail(failed), "failed")
  BY <1>5, OperatorsEnd DEF Ends
<1>7. /\ Advances(run, Fail(failed))
      /\ Fail(failed).status = IF Terminal(run) THEN run.status ELSE "failed"
      /\ Fail(failed).cancelRequested = run.cancelRequested
  BY <1>5, <1>6 DEF Ends, Advances, Terminal
<1>8. /\ Advances(run, run')
      /\ run'.status = run.status \/ (~Terminal(run) /\ run'.status = "failed")
      /\ run'.cancelRequested = run.cancelRequested
      /\ timers' \subseteq TimerSet
      /\ grant' \in GrantType
      /\ grant'.token = "live" => grant.token = "live"
  <2>1. CASE agent.format = "critique"
    <3>1. run' = Emit(run, "error") /\ UNCHANGED <<timers, grant>>
      BY <2>1 DEF ChildErrors
    <3>2. QED
      BY <1>2, <3>1, OperatorsEnd DEF EventKinds
  <2>2. CASE agent.format # "critique"
    <3>1. /\ run' = Fail(failed) /\ timers' = timers \ {"watchdog"}
          /\ grant' = Revoked(grant)
      BY <2>2 DEF ChildErrors, failed
    <3>2. QED
      BY <1>2, <1>7, <3>1 DEF Revoked, GrantType
  <2>3. QED
    BY <2>1, <2>2
<1>9. /\ turn' \in TurnType /\ turn'.output = turn.output /\ turn'.quiet = turn.quiet
      /\ turn'.artifact = turn.artifact
      /\ turn'.streamErr => turn.streamErr \/ Tracked
      /\ turn.streamErr => turn'.streamErr
  BY <1>1, <1>2 DEF Broken, TurnType, Tracked
<1>10. TypeOK' /\ Tidy(run')
  BY <1>1, <1>3, <1>8, <1>9 DEF IInv, TypeOK, Advances, SessionSet
<1>11. Staged'
  BY <1>1, <1>3, <1>4 DEF Staged
<1>12. ByFormat' /\ Flagged'
  BY <1>1, <1>3, <1>4, <1>9 DEF IInv, ByFormat, Flagged, Tracked, HasSession
<1>13. run'.status # "succeeded" /\ child'.proc \notin {"alive", "closed"}
  BY <1>3, <1>4, <1>8
<1>14. Credited' /\ EndedMeansSignalled' /\ SuccessIsClean' /\ GrantEndsWithChild'
  BY <1>13 DEF Credited, EndedMeansSignalled, SuccessIsClean, GrantEndsWithChild
<1>15. CancelWins'
  BY <1>1 DEF CancelWins
<1>16. Outward
  BY <1>8, AdvanceIsOutward DEF IInv
<1>17. QED
  BY <1>10, <1>11, <1>12, <1>14, <1>15, <1>16 DEF IInv

\* The close handler of every agent but that of a critique ends the run, as a
\* success only of a clean one.
LEMMA ChildClosesKeeps ==
    ASSUME IInv, NEW explained \in BOOLEAN, ChildCloses(explained)
    PROVE  IInv' /\ Outward
<1>1. /\ child.proc = "exited" /\ child' = [child EXCEPT !.proc = "closed"]
      /\ UNCHANGED <<agent, pc, exit, session, turn, critique, shut>>
  BY DEF ChildCloses
<1>2. /\ run \in RunType /\ Tidy(run) /\ child \in ChildType
      /\ timers \subseteq TimerSet /\ grant \in GrantType
  BY DEF IInv, TypeOK
<1>3. child' \in ChildType /\ child'.proc = "closed"
  BY <1>1, <1>2 DEF ChildType
<1>4. pc = "live" /\ exit # "none" /\ (agent.format # "critique" => run.status # "succeeded")
  BY <1>1 DEF IInv, Staged, Credited, TypeOK, PcSet
<1>5. CASE agent.format = "critique"
  <2>1. UNCHANGED <<run, timers, grant>>
    BY <1>5 DEF ChildCloses
  <2>2. TypeOK' /\ Tidy(run') /\ Staged' /\ ByFormat' /\ Flagged'
    BY <1>1, <1>3, <1>4, <2>1 DEF IInv, TypeOK, Staged, ByFormat, Flagged, Tracked, HasSession
  <2>3. /\ Credited' /\ EndedMeansSignalled' /\ CancelWins' /\ SuccessIsClean'
        /\ GrantEndsWithChild'
    BY <1>1, <1>3, <1>5, <2>1 DEF IInv, Credited, EndedMeansSignalled, CancelWins, SuccessIsClean,
       GrantEndsWithChild, Tracked, Terminal
  <2>4. QED
    BY <2>1, <2>2, <2>3 DEF IInv, Outward
<1>6. CASE agent.format # "critique"
  <2>1. /\ run' = Closed(run, explained) /\ timers' = timers \ {"watchdog", "sessionEnd"}
        /\ grant' = Revoked(grant)
    BY <1>6 DEF ChildCloses
  <2>2. CloseStatus \in TerminalStatus
    BY DEF CloseStatus, TerminalStatus
  <2>3. /\ Advances(run, run') /\ run'.cancelRequested = run.cancelRequested
        /\ \/ run'.status = run.status
           \/ ~Terminal(run) /\ \/ (session = "fatal" \/ turn.streamErr) /\ run'.status = "failed"
                                \/ (Empty \/ Explains) /\ run'.status = "failed"
                                \/ /\ session # "fatal" /\ ~turn.streamErr /\ ~Empty
                                   /\ run'.status = CloseStatus
    <3>1. /\ Ends(run, Finish(run, "failed"), "failed")
          /\ Ends(run, Finish(run, CloseStatus), CloseStatus)
          /\ Ends(run, Fail(run), "failed")
      BY <1>2, <2>2, OperatorsEnd DEF TerminalStatus
    <3>2. QED
      BY <2>1, <3>1 DEF Closed, Ends
  <2>4. timers' \subseteq TimerSet /\ grant' \in GrantType /\ grant'.token # "live" /\ ~grant'.sink
    BY <1>2, <2>1 DEF Revoked, GrantType
  <2>5. TypeOK' /\ Tidy(run')
    BY <1>1, <1>3, <2>3, <2>4 DEF IInv, TypeOK, Advances
  <2>6. Staged' /\ ByFormat' /\ Flagged'
    BY <1>1, <1>3, <1>4 DEF IInv, Staged, ByFormat, Flagged, Tracked, HasSession
  <2>7. Credited' /\ EndedMeansSignalled' /\ GrantEndsWithChild'
    BY <1>1, <1>3, <1>6, <2>4 DEF Credited, EndedMeansSignalled, GrantEndsWithChild
  <2>8. CancelWins'
    BY <1>1, <2>3 DEF IInv, CancelWins, CloseStatus, Empty, Explains, Terminal, TerminalStatus
  <2>9. SuccessIsClean'
    <3> SUFFICES ASSUME run'.status = "succeeded" PROVE SuccessIsClean'
      BY DEF SuccessIsClean
    <3>1. /\ session # "fatal" /\ ~turn.streamErr /\ ~Empty /\ CloseStatus = "succeeded"
      BY <1>4, <1>6, <2>3
    <3>2. ~run.cancelRequested
      BY <3>1 DEF CloseStatus
    <3>3. \/ exit = "zero"
          \/ exit = "SIGTERM" /\ agent.format = "acp" /\ session = "finished"
          \/ exit \in Signals /\ turn.quiet
      BY <3>1, <3>2 DEF CloseStatus
    <3>4. exit = "zero" /\ Tracked => turn.output
      BY <3>1, <3>2 DEF Empty
    <3>5. turn.quiet => turn.artifact
      BY DEF IInv, Flagged
    <3>6. QED
      BY <1>1, <3>1, <3>3, <3>4, <3>5 DEF SuccessIsClean, Signals, Tracked
  <2>10. Outward
    BY <2>3, AdvanceIsOutward DEF IInv
  <2>11. QED
    BY <2>5, <2>6, <2>7, <2>8, <2>9, <2>10 DEF IInv
<1>7. QED
  BY <1>5, <1>6

\* The orchestrator ends the run of a critique.
LEMMA CritiqueKeeps ==
    ASSUME IInv,
           \/ \E succeeded, signals \in BOOLEAN : CritiqueSettles(succeeded, signals)
           \/ CritiqueThrows
    PROVE  IInv' /\ Outward
<1>1. /\ run \in RunType /\ Tidy(run) /\ child \in ChildType /\ critique = "running"
      /\ UNCHANGED <<agent, pc, exit, session, timers, grant, turn, shut>>
  BY DEF IInv, TypeOK, CritiqueSettles, CritiqueThrows, process
<1>2. /\ agent.format = "critique" /\ pc = "live" /\ session = "none" /\ ~turn.streamErr
  BY <1>1 DEF IInv, Staged, ByFormat, HasSession, Tracked
<1>3. child' \in ChildType /\ child'.proc = child.proc
  BY <1>1, KillType DEF CritiqueSettles, CritiqueThrows, process, Signals
<1> DEFINE Decided ==
             /\ Advances(run, run') /\ run'.cancelRequested = run.cancelRequested
             /\ \/ run'.status = run.status
                \/ /\ ~Terminal(run)
                   /\ \/ run'.status = "failed" /\ (run.cancelRequested => critique' = "threw")
                      \/ run'.status = "canceled"
                      \/ run'.status = "succeeded" /\ turn.output /\ ~run.cancelRequested
             /\ critique' \in {"settled", "threw"}
<1>4. Decided
  <2>1. ASSUME NEW succeeded \in BOOLEAN, NEW signals \in BOOLEAN,
               CritiqueSettles(succeeded, signals)
        PROVE  Decided
    <3> DEFINE status == IF run.cancelRequested THEN "canceled"
                         ELSE IF succeeded THEN "succeeded" ELSE "failed"
    <3>1. status \in TerminalStatus
      BY DEF TerminalStatus
    <3>2. /\ run' = Finish(run, status) /\ critique' = "settled"
          /\ succeeded => turn.output
      BY <2>1 DEF CritiqueSettles
    <3>3. Ends(run, Finish(run, status), status)
      BY <1>1, <3>1, OperatorsEnd
    <3>4. QED
      BY <3>2, <3>3 DEF Ends
  <2>2. CASE CritiqueThrows
    <3>1. run' = Fail(run) /\ critique' = "threw"
      BY <2>2 DEF CritiqueThrows
    <3>2. Ends(run, Fail(run), "failed")
      BY <1>1, OperatorsEnd
    <3>3. QED
      BY <3>1, <3>2 DEF Ends
  <2>3. QED
    BY <2>1, <2>2
<1>5. TypeOK' /\ Tidy(run')
  BY <1>1, <1>3, <1>4 DEF IInv, TypeOK, Advances
<1>6. Staged' /\ ByFormat' /\ Flagged'
  BY <1>1, <1>2, <1>3 DEF IInv, Staged, ByFormat, Flagged, Tracked, HasSession
<1>7. Credited'
  BY <1>1, <1>2, <1>4 DEF IInv, Credited
<1>8. EndedMeansSignalled' /\ GrantEndsWithChild'
  BY <1>1, <1>2 DEF EndedMeansSignalled, GrantEndsWithChild
<1>9. CancelWins'
  BY <1>1, <1>2, <1>4 DEF IInv, CancelWins, Terminal
<1>10. SuccessIsClean'
  <2>1. turn.output => exit # "spawnError"
    BY DEF IInv, Flagged
  <2>2. run'.status = "succeeded" => turn.output
    BY <1>2, <1>4 DEF IInv, Credited
  <2>3. QED
    BY <1>1, <1>2, <2>1, <2>2 DEF SuccessIsClean, Tracked
<1>11. Outward
  BY <1>4, AdvanceIsOutward DEF IInv
<1>12. QED
  BY <1>5, <1>6, <1>7, <1>8, <1>9, <1>10, <1>11 DEF IInv

\* Any step whatever.
LEMMA StepKeeps ==
    ASSUME IInv, [Next]_vars
    PROVE  IInv' /\ Outward
<1>1. CASE UNCHANGED vars
  <2>1. Advances(run, run) /\ TypeOK
    BY DEF IInv, TypeOK, Advances
  <2>2. QED
    BY <1>1, <2>1, HandlerKeeps DEF vars, TypeOK
<1>2. CASE Starting
  BY <1>2, StartingKeeps, LaunchKeeps
<1>3. CASE Speaking
  BY <1>3, SpeakingKeeps
<1>4. CASE Ticking
  BY <1>4, TickingKeeps
<1>5. CASE Ending
  BY <1>5, ChildExitsKeeps, ChildErrorsKeeps, ChildClosesKeeps, CritiqueKeeps DEF Ending
<1>6. CASE Stopping
  BY <1>6, StoppingKeeps
<1>7. QED
  BY <1>1, <1>2, <1>3, <1>4, <1>5, <1>6 DEF Next

\* Only the close handler notes that a process has been closed.
LEMMA OnlyCloses ==
    ASSUME IInv, Next, child.proc = "exited", child'.proc = "closed"
    PROVE  \E explained \in BOOLEAN : ChildCloses(explained)
<1> USE DEF process
<1>1. child \in ChildType /\ pc = "live"
  BY DEF IInv, TypeOK, Staged, PcSet
<1>2. \A sig \in Signals :
          Kill(child, sig).proc = child.proc /\ KillOnce(child, sig).proc = child.proc
  BY <1>1, KillType
<1>3. CASE Starting
  BY <1>1, <1>3 DEF Starting, Reject, Start, Gathered, Prepared, GiveUp, NoBinary,
     StoppedBeforeSpawn, SpawnThrows, Launch
<1>4. CASE Speaking
  BY <1>2, <1>4 DEF Speaking, Output, StreamError, StdinFails, SessionFinishes, SessionFails,
     RegisterArtifact, TokenExpires, Signals
<1>5. CASE Ticking
  BY <1>2, <1>5 DEF Ticking, WatchdogIdle, WatchdogFires, Force1, Force2, SessionEnd, CancelGrace,
     SignalAfter, Signals
<1>6. CASE Stopping
  BY <1>2, <1>6 DEF Stopping, Cancel, Cancelled, ShutdownActive, ShutDown, ShutdownSkips,
     ShutdownGraceEnds, ShutdownReturns, Signals
<1>7. CASE Ending
  BY <1>2, <1>7 DEF Ending, ChildExits, ChildErrors, CritiqueSettles, CritiqueThrows, Signals
<1>8. QED
  BY <1>3, <1>4, <1>5, <1>6, <1>7 DEF Next

\* The state a request is created in.
LEMMA InitKeeps == Init => IInv
<1> SUFFICES ASSUME Init PROVE IInv
  OBVIOUS
<1>1. run = NewRun /\ run \in RunType /\ run.status = "queued" /\ ~run.cancelRequested
  BY DEF Init, NewRun, RunType, ActiveStatus, Outcomes
<1>2. Tidy(run)
  BY <1>1 DEF NewRun, Tidy, TerminalStatus
<1>3. child \in ChildType /\ child.proc = "none"
  BY DEF Init, NoChild, ChildType
<1>4. TypeOK
  BY <1>1, <1>3 DEF Init, TypeOK, PcSet, ExitSet, SessionSet, GrantType, TurnType
<1>5. Staged /\ ByFormat /\ Flagged /\ Credited
  BY <1>1, <1>3 DEF Init, Staged, ByFormat, Flagged, Credited
<1>6. EndedMeansSignalled /\ CancelWins /\ SuccessIsClean /\ GrantEndsWithChild
  BY <1>1, <1>3 DEF EndedMeansSignalled, CancelWins, SuccessIsClean, GrantEndsWithChild
<1>7. QED
  BY <1>2, <1>4, <1>5, <1>6 DEF IInv

-----------------------------------------------------------------------------
(* The theorems                                                            *)

\* The inductive invariant holds in every reachable state.
THEOREM Invariance == Spec => []IInv
<1>1. IInv /\ [Next]_vars => IInv'
  BY StepKeeps
<1>2. QED
  BY <1>1, InitKeeps, PTL DEF Spec

\* The state of a chat run is always well typed.
THEOREM TypeCorrect == Spec => []TypeOK
<1>1. IInv => TypeOK
  BY DEF IInv
<1>2. QED
  BY <1>1, Invariance, PTL

\* No run ends before its agent process without a signal to it: not by the
\* watchdog, a second cancel, a failed session or shutdown.
THEOREM NoProcessIsForgotten == Spec => []EndedMeansSignalled
<1>1. IInv => EndedMeansSignalled
  BY DEF IInv
<1>2. QED
  BY <1>1, Invariance, PTL

\* A cancel decides how a run is reported, however its process then dies,
\* unless an error was reported for it.
THEOREM CancelDecides == Spec => []CancelWins
<1>1. IInv => CancelWins
  BY DEF IInv
<1>2. QED
  BY <1>1, Invariance, PTL

\* No run is reported a success that an error was reported for, that left
\* nothing to see where that is tracked, or that died of a stray signal.
THEOREM NoFalseSuccess == Spec => []SuccessIsClean
<1>1. IInv => SuccessIsClean
  BY DEF IInv
<1>2. QED
  BY <1>1, Invariance, PTL

\* The tool token ends with the process it was given to.
THEOREM TokensEnd == Spec => []GrantEndsWithChild
<1>1. IInv => GrantEndsWithChild
  BY DEF IInv
<1>2. QED
  BY <1>1, Invariance, PTL

\* The close handler takes an ACP agent that had to be told to leave after a
\* finished turn for a success.
THEOREM CompletedTurnStands == Spec => CompletedTurnSucceeds
<1>1. IInv /\ [Next]_vars => [TurnCompleted("acp") => run'.status = "succeeded"]_vars
  <2> SUFFICES ASSUME IInv, Next, TurnCompleted("acp") PROVE run'.status = "succeeded"
    OBVIOUS
  <2>1. /\ agent.format = "acp" /\ child.proc = "exited" /\ child'.proc = "closed"
        /\ ~Terminal(run) /\ ~run.cancelRequested
        /\ session = "finished" /\ ~turn.streamErr /\ exit = "SIGTERM"
    BY DEF TurnCompleted, Stopped
  <2>2. PICK explained \in BOOLEAN : ChildCloses(explained)
    BY <2>1, OnlyCloses
  <2>3. run' = Finish(run, CloseStatus) /\ CloseStatus = "succeeded"
    BY <2>1, <2>2 DEF ChildCloses, Closed, Empty, Explains, CloseStatus
  <2>4. QED
    BY <2>1, <2>3, FinishEnds DEF IInv, TypeOK, TerminalStatus
<1>2. QED
  BY <1>1, Invariance, PTL DEF CompletedTurnSucceeds, Spec

\* A chat run is a future: startChatRun, which sets its status past the
\* service, and all the handlers together implement RunLifecycle.
THEOREM Implementation == Spec => ImplementsLifecycle
<1>1. Init => Lifecycle!Init
  BY DEF Init, NewRun, Lifecycle!Init
<1>2. IInv /\ [Next]_vars => [Lifecycle!Next]_(Lifecycle!vars)
  BY StepKeeps DEF Outward, Lifecycle!vars
<1>3. QED
  BY <1>1, <1>2, Invariance, PTL DEF Spec, ImplementsLifecycle, Lifecycle!Spec

-----------------------------------------------------------------------------
(* The session of an ACP agent, beside the variables of the run            *)

VARIABLES given, requests, expected, modelId, promptId, sessionId, end, stage, grace,
          acpChild, quiet

Acp == INSTANCE AcpSession WITH child <- acpChild

\* The requests of a session that goes well.
Script ==
    IF given.model
    THEN <<"initialize", "session/new", "session/set_model", "session/prompt">>
    ELSE <<"initialize", "session/new", "session/prompt">>

\* A cancel was written after the request of the moment.
Recalled == Len(requests) = expected + 1

\* The requests follow the script up to the one of the moment, the prompt is
\* its last, and the model is selected by the third.
Scripted ==
    /\ expected \in 1 .. Len(Script)
    /\ Len(requests) \in {expected, expected + 1}
    /\ \A i \in 1 .. expected : requests[i] = Script[i]
    /\ Recalled => requests[expected + 1] = "session/cancel" /\ sessionId /\ end.aborted
    /\ promptId = IF expected = Len(Script) THEN expected ELSE 0
    /\ modelId \in {0, 3}
    /\ modelId = 3 => given.model /\ expected >= 3

\* A session that failed or was given up has ended, in one of the two ways.
EndsOnce == end.fatal \/ end.aborted => end.finished /\ ~(end.fatal /\ end.aborted)

\* A process that is up has somebody to end it: the stage timer while the
\* session is open, and then the run that aborted it, the timer of the clean
\* exit, or a signal that is on its way.
Attended ==
    acpChild.proc = "up" =>
        IF end.finished THEN end.aborted \/ grace \/ acpChild.killed ELSE stage

SessionInv == Acp!TypeOK /\ EndsOnce /\ Attended /\ (~given.nulls => Scripted)

-----------------------------------------------------------------------------
(* What a step does to the session                                         *)

\* A step does one of these: the session is given up, ends as complete, sends
\* its next request, or stays as it is, and may fail; a failure does nothing
\* to a session that has ended.
Halted == end' = IF end.finished THEN end
                 ELSE [finished |-> TRUE, fatal |-> TRUE, aborted |-> end.aborted]

Stays == UNCHANGED <<requests, expected, modelId, promptId, sessionId>>

Sends(method) ==
    /\ ~end.aborted
    /\ requests' = Append(requests, method)
    /\ expected' = Len(requests) + 1
    /\ end' = end

Prompts ==
    /\ Sends("session/prompt")
    /\ promptId' = Len(requests) + 1
    /\ sessionId' = sessionId
    /\ \/ promptId = 0 /\ modelId' = 0 /\ (~given.nulls => modelId # 0)
       \/ /\ expected > 2 /\ promptId # expected /\ sessionId /\ given.model
          /\ modelId' = modelId

Opens ==
    /\ Sends("session/new")
    /\ expected = 1
    /\ UNCHANGED <<modelId, promptId, sessionId>>

Selects ==
    /\ Sends("session/set_model")
    /\ expected = 2 /\ given.model /\ modelId' = Len(requests) + 1 /\ sessionId' = TRUE
    /\ promptId' = promptId

PromptsAtOnce ==
    /\ Sends("session/prompt")
    /\ expected = 2 /\ ~given.model /\ modelId' = modelId /\ sessionId' = TRUE
    /\ promptId' = Len(requests) + 1

Refused ==
    /\ ~end.aborted
    /\ Halted
    /\ expected = 2 /\ sessionId' = FALSE
    /\ UNCHANGED <<requests, expected, modelId, promptId>>

Completes ==
    /\ ~end.aborted
    /\ expected > 2 /\ promptId = expected
    /\ end' = [end EXCEPT !.finished = TRUE]
    /\ UNCHANGED <<requests, expected, modelId, promptId, sessionId>>

GivesUp ==
    /\ ~end.finished
    /\ end' = [finished |-> TRUE, fatal |-> end.fatal, aborted |-> TRUE]
    /\ UNCHANGED <<expected, modelId, promptId, sessionId>>
    /\ \/ requests' = requests
       \/ sessionId /\ requests' = Append(requests, "session/cancel")

Effect ==
    \/ Stays /\ (end' = end \/ Halted)
    \/ Completes \/ Opens \/ Selects \/ Prompts \/ PromptsAtOnce \/ Refused \/ GivesUp

\* A record comes to one of these, whatever process it is handled with.
LEMMA HandlerEffect ==
    ASSUME Acp!TypeOK, NEW r \in Acp!Records, NEW c, Acp!Handle(r, c)
    PROVE  Effect
<1> DEFINE Failed == Acp!Fail(TRUE, c) /\ Stays
           Noted == Acp!Ignore(c)
<1>0. Acp!Fail(TRUE, c) => Halted
  BY DEF Acp!Fail, Halted, Acp!TypeOK
<1>1. Failed => Effect
  BY <1>0 DEF Effect
<1>2. Noted => Effect
  BY DEF Acp!Ignore, Effect, Stays, Acp!protocol
<1> HIDE DEF Failed, Noted
<1>3. CASE end.aborted
  BY <1>3 DEF Acp!Handle, Effect, Stays, Acp!protocol
<1>4. CASE ~end.aborted /\ r.kind \in {"other", "permission"}
  BY <1>1, <1>2, <1>4 DEF Acp!Handle, Acp!Permission, Stays, Acp!protocol, Failed, Noted
<1>5. CASE ~end.aborted /\ r.kind = "error" /\ Acp!RpcError(r, c)
  <2>1. CASE Noted
    BY <2>1, <1>2
  <2>2. CASE Failed
    BY <2>2, <1>1
  <2>3. CASE /\ Acp!Recoverable(r) /\ modelId' = 0
             /\ Acp!SendPrompt(c) /\ UNCHANGED sessionId
    <3>1. ~given.nulls => r.id # 0
      BY <1>5, SMT DEF Acp!Records, Acp!Ids, Acp!TypeOK
    <3>2. QED
      BY <1>5, <2>3, <3>1
         DEF Acp!Recoverable, Acp!SendPrompt, Acp!Send, Acp!Null, Effect, Prompts, Sends
  <2>4. QED
    BY <1>5, <2>1, <2>2, <2>3
       DEF Acp!RpcError, Acp!Null, Noted, Failed, Stays, Acp!protocol
<1>6. CASE ~end.aborted /\ r.kind = "result" /\ Acp!Result(r, c)
  <2>1. CASE Noted
    BY <2>1, <1>2
  <2>2. CASE /\ expected = 1 /\ Acp!Send("session/new", c)
             /\ UNCHANGED <<modelId, promptId, sessionId>>
    BY <1>6, <2>2 DEF Acp!Send, Effect, Opens, Sends
  <2>3. CASE expected = 2 /\ Acp!SessionAnswered(r, c)
    <3>1. CASE r.session /\ given.model /\ modelId' = Len(requests) + 1
               /\ Acp!Send("session/set_model", c) /\ UNCHANGED promptId
      BY <1>6, <2>3, <3>1 DEF Acp!SessionAnswered, Acp!Send, Effect, Selects, Sends
    <3>2. CASE r.session /\ ~given.model /\ Acp!SendPrompt(c) /\ UNCHANGED modelId
      BY <1>6, <2>3, <3>2
         DEF Acp!SessionAnswered, Acp!SendPrompt, Acp!Send, Effect, PromptsAtOnce, Sends
    <3>3. CASE /\ ~r.session /\ Acp!Fail(TRUE, c)
               /\ UNCHANGED <<requests, expected, modelId, promptId>>
      <4>1. r.session = FALSE
        BY <1>6, <3>3 DEF Acp!Records
      <4>2. QED
        BY <1>0, <1>6, <2>3, <3>3, <4>1 DEF Acp!SessionAnswered, Effect, Refused
    <3>4. QED
      BY <2>3, <3>1, <3>2, <3>3 DEF Acp!SessionAnswered
  <2>4. CASE expected > 2 /\ promptId = expected /\ Acp!PromptAnswered(c)
    BY <1>6, <2>4 DEF Acp!PromptAnswered, Effect, Completes, Acp!protocol
  <2>5. CASE /\ expected > 2 /\ promptId # expected /\ sessionId /\ given.model
             /\ Acp!SendPrompt(c) /\ UNCHANGED <<modelId, sessionId>>
    BY <1>6, <2>5 DEF Acp!SendPrompt, Acp!Send, Effect, Prompts, Sends
  <2>6. QED
    BY <1>6, <2>1, <2>2, <2>3, <2>4, <2>5 DEF Acp!Result, Noted
<1>7. QED
  BY <1>3, <1>4, <1>5, <1>6 DEF Acp!Handle, Acp!Records

\* And so does every step.
LEMMA StepEffect ==
    ASSUME Acp!TypeOK, Acp!Next
    PROVE  Effect /\ given' = given
<1>1. ASSUME NEW r \in Acp!Records, Acp!Receive(r) PROVE Effect /\ given' = given
  BY <1>1, HandlerEffect DEF Acp!Receive
<1>2. CASE Acp!Close
  BY <1>2, HandlerEffect DEF Acp!Close, Effect, Stays, Acp!protocol
<1>3. CASE Acp!StageTimeout \/ Acp!TransportFails
  BY <1>3 DEF Acp!StageTimeout, Acp!TransportFails, Acp!Fail, Effect, Stays, Halted,
              Acp!protocol, Acp!TypeOK
<1>4. CASE Acp!CleanExit \/ Acp!FallSilent
  BY <1>4 DEF Acp!CleanExit, Acp!FallSilent, Effect, Stays, Acp!protocol
<1>5. CASE Acp!Abort
  BY <1>5 DEF Acp!Abort, Effect, GivesUp, Acp!TypeOK
<1>6. QED
  BY <1>1, <1>2, <1>3, <1>4, <1>5 DEF Acp!Next

\* The session keeps its types.
LEMMA EffectTypes ==
    ASSUME Acp!TypeOK, Effect
    PROVE  /\ requests' \in Seq(Acp!Methods) /\ expected' \in Nat /\ modelId' \in Nat
           /\ promptId' \in Nat /\ sessionId' \in BOOLEAN
           /\ end' \in [finished : BOOLEAN, fatal : BOOLEAN, aborted : BOOLEAN]
<1>0. Halted => end' \in [finished : BOOLEAN, fatal : BOOLEAN, aborted : BOOLEAN]
  BY DEF Halted, Acp!TypeOK
<1>1. CASE Stays /\ (end' = end \/ Halted)
  BY <1>0, <1>1 DEF Stays, Acp!TypeOK
<1>2. CASE Completes \/ Refused
  BY <1>0, <1>2 DEF Completes, Refused, Acp!TypeOK
<1>3. CASE GivesUp
  BY <1>3 DEF GivesUp, Acp!TypeOK, Acp!Methods
<1>4. CASE Opens \/ Selects \/ Prompts \/ PromptsAtOnce
  <2>1. Len(requests) + 1 \in Nat
    BY DEF Acp!TypeOK
  <2>2. PICK method \in Acp!Methods : Sends(method)
    BY <1>4 DEF Opens, Selects, Prompts, PromptsAtOnce, Acp!Methods
  <2>3. modelId' \in Nat /\ promptId' \in Nat /\ sessionId' \in BOOLEAN
    BY <1>4, <2>1 DEF Opens, Selects, Prompts, PromptsAtOnce, Acp!TypeOK
  <2>4. QED
    BY <2>1, <2>2, <2>3 DEF Sends, Acp!TypeOK
<1>5. QED
  BY <1>1, <1>2, <1>3, <1>4 DEF Effect

\* The timers and the process.
Machine ==
    /\ acpChild \in [proc : {"up", "closed"}, killed : BOOLEAN]
    /\ stage \in BOOLEAN /\ grace \in BOOLEAN

\* What a handler does to them.
Handled(c) ==
    \/ acpChild' = c /\ UNCHANGED <<end, stage, grace>>
    \/ acpChild' = c /\ stage' = TRUE /\ UNCHANGED <<end, grace>>
    \/ Acp!Fail(TRUE, c)
    \/ Acp!PromptAnswered(c)

\* A record does nothing else to them.
LEMMA HandlerHandles ==
    ASSUME NEW r, NEW c, Acp!Handle(r, c)
    PROVE  Handled(c)
  BY DEF Handled, Acp!Handle, Acp!Permission, Acp!RpcError, Acp!Result,
         Acp!SessionAnswered, Acp!SendPrompt, Acp!Send, Acp!Ignore

\* The type of the process.
Child == [proc : {"up", "closed"}, killed : BOOLEAN]

\* kill() reaches a process that is up.
LEMMA TerminateSignals ==
    ASSUME NEW c \in Child
    PROVE  /\ Acp!Terminate(c) \in Child
           /\ Acp!Terminate(c).proc = c.proc
           /\ c.proc = "up" => Acp!Terminate(c).killed
  BY DEF Acp!Terminate, Child

\* So a handler leaves an attended process attended.
LEMMA HandledMachine ==
    ASSUME Machine, Acp!TypeOK, NEW c \in Child, Handled(c)
    PROVE  Machine' /\ (c.proc = "up" /\ c = acpChild /\ Attended => Attended')
                    /\ acpChild'.proc = c.proc
<1>1. CASE acpChild' = c /\ UNCHANGED <<end, grace>> /\ stage' \in {TRUE, stage}
  BY <1>1 DEF Machine, Attended, Child
<1>2. CASE Acp!Fail(TRUE, c)
  BY <1>2, TerminateSignals DEF Acp!Fail, Machine, Attended, Child, Acp!TypeOK
<1>3. CASE Acp!PromptAnswered(c)
  BY <1>3 DEF Acp!PromptAnswered, Machine, Attended, Child, Acp!TypeOK
<1>4. QED
  BY <1>1, <1>2, <1>3 DEF Handled

\* And every step does: the timers are cleared only with the process, or by
\* what signals it.
LEMMA StepMachine ==
    ASSUME Acp!TypeOK, Attended, Acp!Next
    PROVE  Machine' /\ quiet' \in BOOLEAN /\ Attended'
<1>1. Machine /\ quiet \in BOOLEAN /\ acpChild \in Child
  BY DEF Machine, Acp!TypeOK, Child
<1>2. /\ Acp!Terminate(acpChild) \in Child
      /\ Acp!Terminate(acpChild).proc = acpChild.proc
      /\ acpChild.proc = "up" => Acp!Terminate(acpChild).killed
  BY <1>1, TerminateSignals
<1>3. ASSUME NEW r \in Acp!Records, Acp!Receive(r)
      PROVE  Machine' /\ quiet' = quiet /\ Attended'
  BY <1>1, <1>3, HandlerHandles, HandledMachine DEF Acp!Receive
<1>4. CASE Acp!Close
  <2> DEFINE gone == [acpChild EXCEPT !.proc = "closed"]
  <2>1. gone \in Child /\ gone.proc = "closed"
    BY <1>1 DEF Child
  <2> HIDE DEF gone
  <2>0. quiet' \in BOOLEAN
    BY <1>1, <1>4 DEF Acp!Close
  <2>2. CASE acpChild' = gone /\ stage' = FALSE /\ grace' = FALSE
    BY <1>1, <2>0, <2>1, <2>2 DEF Machine, Attended, Child
  <2>3. CASE \E r \in Acp!Records : Acp!Handle(r, gone)
    <3>1. Machine' /\ acpChild'.proc = "closed"
      BY <1>1, <2>1, <2>3, HandlerHandles, HandledMachine
    <3>2. QED
      BY <2>0, <3>1 DEF Attended
  <2>4. QED
    BY <1>4, <1>1, <2>2, <2>3 DEF Acp!Close, gone
<1>5. CASE Acp!StageTimeout \/ Acp!TransportFails
  BY <1>1, <1>2, <1>5 DEF Acp!StageTimeout, Acp!TransportFails, Acp!Fail, Machine,
                          Attended, Acp!TypeOK, Child
<1>6. CASE Acp!CleanExit
  BY <1>1, <1>2, <1>6 DEF Acp!CleanExit, Machine, Attended, Child
<1>7. CASE Acp!Abort
  BY <1>1, <1>7 DEF Acp!Abort, Machine, Attended, Acp!TypeOK
<1>8. CASE Acp!FallSilent
  BY <1>1, <1>8 DEF Acp!FallSilent, Machine, Attended
<1>9. QED
  BY <1>1, <1>3, <1>4, <1>5, <1>6, <1>7, <1>8 DEF Acp!Next

\* A session ends once.
LEMMA EndKeeps ==
    ASSUME Acp!TypeOK, EndsOnce, Effect
    PROVE  EndsOnce'
<1>1. end' = end \/ Halted \/ Completes \/ GivesUp
  BY DEF Effect, Opens, Selects, Prompts, PromptsAtOnce, Sends, Refused
<1>2. QED
  BY <1>1 DEF EndsOnce, Halted, Completes, GivesUp, Acp!TypeOK


\* What the run that owns the session sees of it.
Outcome == <<IF end.aborted THEN "aborted" ELSE IF end.fatal THEN "failed"
             ELSE IF end.finished THEN "completed" ELSE "open",
             promptId # 0>>

\* Every step is one of RpcSession, or shows nothing.
LEMMA StepImplements ==
    ASSUME Acp!TypeOK, EndsOnce, Effect
    PROVE  Acp!Session!Next \/ UNCHANGED Outcome
<1>1. CASE UNCHANGED <<end, promptId>>
  BY <1>1 DEF Outcome
<1>2. CASE Halted /\ UNCHANGED promptId
  BY <1>2 DEF Outcome, Halted, EndsOnce, Acp!TypeOK, Acp!Session!Next, Acp!Session!End,
              Acp!Null
<1>3. CASE GivesUp
  BY <1>3 DEF GivesUp, EndsOnce, Acp!TypeOK, Acp!Session!Next, Acp!Session!End, Acp!Null
<1>4. CASE Completes
  <2>1. /\ end'.finished /\ end'.fatal = end.fatal /\ end'.aborted = end.aborted
        /\ promptId # 0 /\ promptId' = promptId
    BY <1>4 DEF Completes, Acp!TypeOK
  <2>2. CASE end.finished
    BY <2>1, <2>2 DEF Outcome
  <2>3. CASE ~end.finished
    <3>1. ~end.fatal /\ ~end.aborted
      BY <2>3 DEF EndsOnce
    <3>2. Acp!Session!End("completed")
      BY <2>1, <2>3, <3>1 DEF Acp!Session!End, Acp!Null
    <3>3. QED
      BY <3>2 DEF Acp!Session!Next
  <2>4. QED
    BY <2>2, <2>3
<1>5. CASE ~end.aborted /\ end' = end /\ promptId' = Len(requests) + 1
  <2>1. promptId' # 0
    BY <1>5, Len(requests) \in Nat DEF Acp!TypeOK
  <2>2. CASE promptId = 0
    <3>1. Acp!Session!Ask
      BY <1>5, <2>1, <2>2 DEF Acp!Session!Ask, Acp!Null
    <3>2. QED
      BY <3>1 DEF Acp!Session!Next
  <2>3. CASE promptId # 0
    BY <1>5, <2>1, <2>3 DEF Outcome
  <2>4. QED
    BY <2>2, <2>3
<1>6. QED
  BY <1>1, <1>2, <1>3, <1>4, <1>5
     DEF Effect, Stays, Opens, Selects, Prompts, PromptsAtOnce, Refused, Sends

\* A request is sent from the one place in the script it follows, and a cancel
\* ends them.
LEMMA ScriptedKeeps ==
    ASSUME Acp!TypeOK, EndsOnce, ~given.nulls, Scripted, Effect, given' = given
    PROVE  Scripted'
<1>1. Len(requests) \in Nat /\ requests \in Seq(Acp!Methods)
  BY DEF Acp!TypeOK
<1>2. Script' = Script /\ Len(Script) = (IF given.model THEN 4 ELSE 3)
  BY DEF Script
<1>3. ~end.aborted => Len(requests) = expected
  BY <1>1 DEF Scripted, Recalled
<1>4. ASSUME UNCHANGED <<requests, expected, modelId, promptId>>,
             ~end.aborted \/ (end'.aborted /\ sessionId' = sessionId)
      PROVE  Scripted'
  BY <1>1, <1>2, <1>3, <1>4 DEF Scripted, Recalled
<1>5. CASE (Stays /\ (end' = end \/ Halted)) \/ Refused \/ Completes
  <2>1. ~end.aborted \/ (end'.aborted /\ sessionId' = sessionId)
    BY <1>5 DEF Stays, Halted, Refused, Completes, EndsOnce
  <2>2. QED
    BY <1>4, <1>5, <2>1 DEF Stays, Refused, Completes
<1>6. CASE GivesUp
  <2>1. CASE requests' = requests
    BY <1>4, <1>6, <2>1 DEF GivesUp, EndsOnce
  <2>2. CASE requests' # requests
    BY <1>6, <2>2, <1>1, <1>2, <1>3 DEF Scripted, Recalled, GivesUp, EndsOnce
  <2>3. QED
    BY <2>1, <2>2
<1>7. CASE Opens \/ Selects \/ Prompts \/ PromptsAtOnce
  <2>1. /\ expected < Len(Script) /\ Sends(Script[expected + 1])
        /\ promptId' = IF expected + 1 = Len(Script) THEN expected + 1 ELSE 0
        /\ modelId' \in {0, 3}
        /\ modelId' = 3 => given.model /\ expected + 1 >= 3
    <3>1. CASE Opens
      BY <3>1, <1>1, <1>2, <1>3 DEF Opens, Sends, Scripted, Script
    <3>2. CASE Selects
      BY <3>2, <1>1, <1>2, <1>3 DEF Selects, Sends, Scripted, Script
    <3>3. CASE PromptsAtOnce
      BY <3>3, <1>1, <1>2, <1>3 DEF PromptsAtOnce, Sends, Scripted, Script
    <3>4. CASE Prompts
      <4>1. given.model /\ expected = 3
        BY <3>4, <1>1, <1>2, <1>3 DEF Prompts, Sends, Scripted
      <4>2. QED
        BY <3>4, <4>1, <1>1, <1>2, <1>3 DEF Prompts, Sends, Scripted, Script
    <3>5. QED
      BY <1>7, <3>1, <3>2, <3>3, <3>4
  <2>2. /\ Len(requests) = expected /\ expected' = expected + 1
        /\ requests' = Append(requests, Script[expected + 1])
    BY <1>3, <2>1 DEF Sends
  <2>3. Len(requests') = expected + 1
    BY <1>1, <2>2
  <2>4. \A i \in 1 .. expected + 1 : requests'[i] = Script[i]
    BY <1>1, <2>2 DEF Scripted
  <2>5. QED
    BY <1>1, <1>2, <2>1, <2>2, <2>3, <2>4 DEF Scripted, Recalled
<1>8. QED
  BY <1>5, <1>6, <1>7 DEF Effect

\* The script, put together as InOrder does.
LEMMA ScriptIsWhole ==
    ASSUME Acp!TypeOK
    PROVE  /\ Script = <<"initialize", "session/new">>
                           \o (IF given.model THEN <<"session/set_model">> ELSE <<>>)
                           \o <<"session/prompt">>
           /\ Script \in Seq(Acp!Methods)
           /\ Len(Script) = IF given.model THEN 4 ELSE 3
           /\ \A i \in 1 .. Len(Script) : Script[i] # "session/cancel"
<1> DEFINE start == <<"initialize", "session/new">>
           model == IF given.model THEN <<"session/set_model">> ELSE <<>>
           last  == <<"session/prompt">>
           whole == start \o model \o last
<1>1. /\ start \in Seq(Acp!Methods) /\ Len(start) = 2
      /\ start[1] = "initialize" /\ start[2] = "session/new"
      /\ last \in Seq(Acp!Methods) /\ Len(last) = 1 /\ last[1] = "session/prompt"
      /\ model \in Seq(Acp!Methods)
      /\ IF given.model THEN Len(model) = 1 /\ model[1] = "session/set_model"
                        ELSE Len(model) = 0
  <2>1. CASE given.model
    BY <2>1 DEF Acp!Methods
  <2>2. CASE ~given.model
    BY <2>2 DEF Acp!Methods
  <2>3. QED
    BY <2>1, <2>2
<1>2. /\ Script \in Seq(Acp!Methods) /\ Len(Script) = IF given.model THEN 4 ELSE 3
      /\ Script[1] = "initialize" /\ Script[2] = "session/new"
      /\ Script[3] = IF given.model THEN "session/set_model" ELSE "session/prompt"
      /\ given.model => Script[4] = "session/prompt"
  <2>1. CASE given.model
    BY <2>1 DEF Script, Acp!Methods
  <2>2. CASE ~given.model
    BY <2>2 DEF Script, Acp!Methods
  <2>3. QED
    BY <2>1, <2>2
<1> HIDE DEF start, model, last
<1>3. /\ start \o model \in Seq(Acp!Methods) /\ Len(start \o model) = 2 + Len(model)
      /\ (start \o model)[1] = "initialize" /\ (start \o model)[2] = "session/new"
      /\ given.model => (start \o model)[3] = "session/set_model"
  <2>0. start \in Seq(Acp!Methods) /\ model \in Seq(Acp!Methods)
    BY <1>1
  <2>1. /\ start \o model \in Seq(Acp!Methods)
        /\ Len(start \o model) = Len(start) + Len(model)
        /\ \A i \in 1 .. Len(start) + Len(model) :
               (start \o model)[i] = IF i <= Len(start) THEN start[i]
                                     ELSE model[i - Len(start)]
    BY <2>0, ConcatProperties
  <2>2. Len(model) \in Nat
    BY <1>1
  <2>3. QED
    BY <1>1, <2>1, <2>2
<1>4. /\ whole \in Seq(Acp!Methods) /\ Len(whole) = 3 + Len(model)
      /\ whole[1] = "initialize" /\ whole[2] = "session/new"
      /\ IF given.model
         THEN whole[3] = "session/set_model" /\ whole[4] = "session/prompt"
         ELSE whole[3] = "session/prompt"
  BY <1>1, <1>3, ConcatProperties
<1> HIDE DEF whole
<1>5. Len(whole) = Len(Script) /\ \A i \in 1 .. Len(whole) : whole[i] = Script[i]
  <2>1. CASE given.model
    <3>1. Len(model) = 1 /\ Len(Script) = 4
      BY <2>1, <1>1, <1>2
    <3>2. Len(whole) = 4
      BY <1>4, <3>1
    <3>3. /\ whole[1] = Script[1] /\ whole[2] = Script[2]
          /\ whole[3] = Script[3] /\ whole[4] = Script[4]
      BY <2>1, <1>2, <1>4, Zenon
    <3>4. QED
      BY <3>1, <3>2, <3>3
  <2>2. CASE ~given.model
    BY <2>2, <1>1, <1>2, <1>4
  <2>3. QED
    BY <2>1, <2>2
<1>6. whole = Script
  BY <1>2, <1>4, <1>5, SeqEqual
<1>7. \A i \in 1 .. Len(Script) : Script[i] # "session/cancel"
  BY <1>2
<1>8. QED
  BY <1>2, <1>6, <1>7 DEF whole, start, model, last

\* Requests that follow the script are in order.
LEMMA ScriptedInOrder ==
    ASSUME Acp!TypeOK, ~given.nulls => Scripted
    PROVE  Acp!InOrder
<1> SUFFICES ASSUME ~given.nulls PROVE Acp!InOrder
  BY DEF Acp!InOrder
<1> DEFINE whole == <<"initialize", "session/new">>
                        \o (IF given.model THEN <<"session/set_model">> ELSE <<>>)
                        \o <<"session/prompt">>
           sent  == IF requests[Len(requests)] = "session/cancel"
                    THEN SubSeq(requests, 1, Len(requests) - 1) ELSE requests
<1>1. whole = Script
  BY ScriptIsWhole
<1>2. /\ expected \in 1 .. Len(Script) /\ Script \in Seq(Acp!Methods)
      /\ \A i \in 1 .. Len(Script) : Script[i] # "session/cancel"
      /\ Len(Script) \in Nat
  BY ScriptIsWhole DEF Scripted
<1>3. Len(requests) \in Nat /\ requests \in Seq(Acp!Methods)
  BY DEF Acp!TypeOK
<1>4. /\ sent \in Seq(Acp!Methods) /\ Len(sent) = expected
      /\ \A i \in 1 .. expected : sent[i] = Script[i]
      /\ Len(sent) < Len(requests) => sessionId /\ end.aborted
  <2>1. CASE Recalled
    <3>1. sent = SubSeq(requests, 1, expected)
      BY <1>2, <1>3, <2>1 DEF Scripted, Recalled
    <3>2. \A i \in 1 .. expected : requests[i] \in Acp!Methods
      BY <1>2, <1>3, <2>1 DEF Recalled
    <3>3. QED
      BY <1>2, <2>1, <3>1, <3>2, SubSeqProperties DEF Scripted
  <2>2. CASE ~Recalled
    <3>1. Len(requests) = expected
      BY <2>2 DEF Scripted, Recalled
    <3>2. sent = requests
      BY <1>2, <3>1 DEF Scripted
    <3>3. QED
      BY <1>3, <3>1, <3>2 DEF Scripted
  <2>3. QED
    BY <2>1, <2>2
<1>5. sent = SubSeq(whole, 1, Len(sent))
  <2>1. /\ SubSeq(Script, 1, expected) \in Seq(Acp!Methods)
        /\ Len(SubSeq(Script, 1, expected)) = expected
        /\ \A i \in 1 .. expected : SubSeq(Script, 1, expected)[i] = Script[i]
    BY <1>2, SubSeqProperties
  <2>2. sent = SubSeq(Script, 1, expected)
    BY <1>4, <2>1, SeqEqual
  <2>3. QED
    BY <1>1, <1>4, <2>2
<1>6. QED
  BY <1>1, <1>2, <1>4, <1>5 DEF Acp!InOrder

-----------------------------------------------------------------------------
(* Theorems about the session                                              *)

\* The invariant holds in every state of every session.
THEOREM SessionInvariance == Acp!Spec => []SessionInv
<1>1. Acp!Init => SessionInv
  <2> SUFFICES ASSUME Acp!Init PROVE SessionInv
    OBVIOUS
  <2>1. Acp!TypeOK
    <3>1. requests \in Seq(Acp!Methods)
      BY DEF Acp!Init, Acp!Methods
    <3>2. QED
      BY <3>1 DEF Acp!Init, Acp!Null, Acp!TypeOK
  <2>2. Len(Script) \in {3, 4} /\ Script[1] = "initialize"
    BY DEF Script
  <2>3. requests = <<"initialize">> /\ expected = 1 /\ Len(requests) = 1
    BY DEF Acp!Init
  <2>4. Scripted
    BY <2>2, <2>3 DEF Acp!Init, Acp!Null, Scripted, Recalled
  <2>5. QED
    BY <2>1, <2>4 DEF SessionInv, Acp!Init, EndsOnce, Attended
<1>2. ASSUME SessionInv, [Acp!Next]_(Acp!vars) PROVE SessionInv'
  <2>1. CASE Acp!Next
    BY <1>2, <2>1, StepEffect, EffectTypes, StepMachine, EndKeeps, ScriptedKeeps
       DEF SessionInv, Machine, Acp!TypeOK
  <2>2. CASE UNCHANGED Acp!vars
    BY <1>2, <2>2 DEF Acp!vars, Acp!protocol, SessionInv, Acp!TypeOK, EndsOnce, Attended,
                             Scripted, Recalled, Script
  <2>3. QED
    BY <1>2, <2>1, <2>2
<1>3. QED
  BY <1>1, <1>2, PTL DEF Acp!Spec

\* The session has its types.
THEOREM SessionTypeCorrect == Acp!Spec => []Acp!TypeOK
<1>1. SessionInv => Acp!TypeOK
  BY DEF SessionInv
<1>2. QED
  BY <1>1, SessionInvariance, PTL

\* The prompt is put to the agent once and in its place, whatever the agent
\* answers late, twice or to another request (acp.ts, expectedId).
THEOREM RequestsInOrder == Acp!Spec => []Acp!InOrder
<1>1. SessionInv => Acp!InOrder
  BY ScriptedInOrder DEF SessionInv
<1>2. QED
  BY <1>1, SessionInvariance, PTL

\* No agent is left alone: whatever it writes or fails to write, and however
\* its session ends, somebody has still to end it or has told it to leave.
\* (What SilenceEnds needs of safety; that the timers go off is fairness.)
THEOREM NoAgentIsLeft == Acp!Spec => []Attended
<1>1. SessionInv => Attended
  BY DEF SessionInv
<1>2. QED
  BY <1>1, SessionInvariance, PTL

\* The chat run may ask an ACP session what it asks of an RPC session: it ends
\* once, in one way, and is complete only if the prompt was sent.
THEOREM SessionImplementation == Acp!Spec => Acp!ImplementsSession
<1>1. Acp!Init => Acp!Session!Init
  BY DEF Acp!Init, Acp!Session!Init, Acp!Null
<1>2. SessionInv /\ [Acp!Next]_(Acp!vars) => Acp!Session!Next \/ UNCHANGED Outcome
  <2>1. ASSUME SessionInv, Acp!Next PROVE Acp!Session!Next \/ UNCHANGED Outcome
    BY <2>1, StepEffect, StepImplements DEF SessionInv
  <2>2. ASSUME UNCHANGED Acp!vars PROVE UNCHANGED Outcome
    BY <2>2 DEF Acp!vars, Acp!protocol, Outcome
  <2>3. QED
    BY <2>1, <2>2
<1>3. QED
  BY <1>1, <1>2, SessionInvariance, PTL
     DEF Acp!Spec, Acp!ImplementsSession, Acp!Session!Spec, Outcome, Acp!Null

=============================================================================
