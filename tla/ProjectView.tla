----------------------------- MODULE ProjectView -----------------------------
(***************************************************************************)
(* One assistant message in three places: the page that shows it            *)
(* (ProjectView.tsx with providers/daemon.ts), its row of the messages      *)
(* table (db.ts, server.ts) and the daemon's run that produces it           *)
(* (runs.ts).  The page creates the run with a POST, reads its events and   *)
(* saves every change of the message with a PUT of its own, which may be    *)
(* overtaken or lost; the daemon pins the run to the row when it is created *)
(* and settles the row when the run ends.  The page is left, opened again   *)
(* and reloaded at any moment, the user presses Stop and Retry, records of  *)
(* ended runs expire and the daemon restarts.  "active" stands for queued   *)
(* and running, which the code never treats differently.                    *)
(***************************************************************************)
EXTENDS Naturals, FiniteSets, Bags

CONSTANTS
    MaxRuns,   \* bound: runs of the message
    MaxPuts,   \* bound: PUTs under way; a change waits until one has arrived
    MaxFaults  \* bound: requests and answers that are lost

ASSUME ProjectViewAssumption ==
    MaxRuns \in Nat \ {0} /\ MaxPuts \in Nat \ {0} /\ MaxFaults \in Nat

Runs == 1 .. MaxRuns
None == 0

VARIABLES
    run,      \* the daemon's runs of the message, as they really went
    kept,     \* those the daemon has a record of
    row,      \* the row of the message
    puts,     \* PUTs under way, in no order
    post,     \* POST /api/runs: [phase, run, client, stop]
    cancelled, \* runs for which POST /api/runs/:id/cancel was sent
    faults,   \* what was lost so far
    view,     \* "open": the page shows the conversation; "away"
    msg,      \* the page's copy of the message
    call,     \* what the page is doing about it: [phase, run, back, live]
    done,     \* completedReattachRunsRef
    listing,  \* turns whose files are being listed: of a run attached again or not
    pressed   \* runs for which the user pressed Stop (no variable of the code)

daemonVars == <<run, kept, row>>
wireVars   == <<puts, post, cancelled, faults>>
pageVars   == <<view, msg, call, done, listing>>
vars == <<daemonVars, wireVars, pageVars, pressed>>

Outcomes == {"succeeded", "failed", "canceled"}

\* A message; whole: it has text and produced files.
Message(status, r) == [status |-> status, run |-> r, whole |-> FALSE]
Absent == Message("absent", None)
Active(m) == m.status = "active"

NoPost == [phase |-> "none", run |-> None, client |-> "gone", stop |-> FALSE]
Sent   == [phase |-> "sent", run |-> None, client |-> "here", stop |-> FALSE]
Off     == [phase |-> "off", run |-> None, back |-> FALSE, live |-> FALSE]
Posting == [Off EXCEPT !.phase = "posting", !.live = TRUE]
Reading(r, back, live) ==
    [phase |-> "reading", run |-> r, back |-> back, live |-> live]

\* The user has just sent the message.
Init ==
    /\ run = [r \in Runs |-> "none"] /\ kept = {} /\ row = Absent
    /\ puts = EmptyBag /\ post = Sent
    /\ cancelled = {} /\ faults = 0
    /\ view = "open" /\ msg = Message("active", None) /\ call = Posting
    /\ done = {} /\ listing = {} /\ pressed = {}

----------------------------------------------------------------------------
(* The daemon.                                                              *)

NextRun == Cardinality({r \in Runs : run[r] # "none"}) + 1
\* The run of the POST that is under way, created or not.
Attempt == IF post.phase = "sent" THEN NextRun ELSE post.run

\* A Stop that waits for the answer is forgotten with it.
Heedless == {r \in pressed : ~(post.stop /\ r = Attempt /\ r \notin cancelled)}

\* pinAssistantMessageOnRunCreate
Pinned(r) ==
    IF row.status \in Outcomes THEN [row EXCEPT !.run = r]
    ELSE [row EXCEPT !.run = r, !.status = "active"]

Create ==
    /\ post.phase = "sent" /\ NextRun \in Runs
    /\ run' = [run EXCEPT ![NextRun] = "active"]
    /\ kept' = kept \cup {NextRun}
    /\ row' = Pinned(NextRun)
    /\ post' = IF post.client = "gone" THEN NoPost
               ELSE [post EXCEPT !.phase = "answered", !.run = NextRun]
    /\ UNCHANGED <<puts, cancelled, faults, pageVars, pressed>>

\* The request is refused or does not arrive.
Refuse ==
    /\ post.phase = "sent"
    /\ post' = IF post.client = "gone" THEN NoPost ELSE [post EXCEPT !.phase = "refused"]
    /\ pressed' = Heedless
    /\ UNCHANGED <<daemonVars, puts, cancelled, faults, pageVars>>

\* reconcileAssistantMessageOnRunEnd
Reconciled(s) == IF Active(row) THEN [row EXCEPT !.status = s] ELSE row

\* A cancel request may come too late, or not arrive at all.
Ends(r) ==
    /\ run[r] = "active"
    /\ \E s \in Outcomes :
        /\ s = "canceled" => r \in cancelled
        /\ run' = [run EXCEPT ![r] = s]
        /\ row' = Reconciled(s)
    /\ UNCHANGED <<kept, wireVars, pageVars, pressed>>

\* scheduleCleanup: the record of an ended run is dropped.
Expire(r) ==
    /\ r \in kept /\ run[r] \in Outcomes
    /\ kept' = kept \ {r}
    /\ UNCHANGED <<run, row, wireVars, pageVars, pressed>>

\* The daemon dies with its runs and comes back without their records.  An
\* answer it owed will not come.
Restart ==
    /\ faults < MaxFaults
    /\ faults' = faults + 1
    /\ run' = [r \in Runs |-> IF run[r] = "active" THEN "lost" ELSE run[r]]
    /\ kept' = {}
    /\ post' = IF post.phase = "answered" THEN [post EXCEPT !.phase = "refused"] ELSE post
    /\ pressed' = IF post.phase = "answered" THEN Heedless ELSE pressed
    /\ UNCHANGED <<row, puts, cancelled, pageVars>>

\* shutdownActive: the daemon ends its runs before it exits, and their records
\* go as if they had expired.
Shutdown ==
    /\ faults < MaxFaults /\ \E r \in Runs : run[r] = "active"
    /\ faults' = faults + 1
    /\ run' = [r \in Runs |-> IF run[r] = "active" THEN "canceled" ELSE run[r]]
    /\ row' = Reconciled("canceled")
    /\ UNCHANGED <<kept, puts, post, cancelled, pageVars, pressed>>

\* upsertMessage: the PUT carries the whole message.
Deliver ==
    \E m \in BagToSet(puts) :
        /\ row' = m
        /\ puts' = puts (-) SetToBag({m})
        /\ UNCHANGED <<run, kept, post, cancelled, faults, pageVars, pressed>>

\* A request, or the answer to the POST, is lost.
Lose ==
    /\ faults < MaxFaults
    /\ faults' = faults + 1
    /\ \/ /\ \E m \in BagToSet(puts) : puts' = puts (-) SetToBag({m})
          /\ UNCHANGED <<post, cancelled, pressed>>
       \/ /\ post.phase = "answered"
          /\ post' = [post EXCEPT !.phase = "refused"]
          /\ pressed' = Heedless
          /\ UNCHANGED <<puts, cancelled>>
    /\ UNCHANGED <<daemonVars, pageVars>>

----------------------------------------------------------------------------
(* The page.                                                                *)

\* Mutant of Phantom: every change of the message is saved.
PhantomNever(m) == FALSE

\* isPhantomDaemonRunMessage
Phantom(m) == Active(m) /\ m.run = None

Room == BagCardinality(puts) < MaxPuts
Put(m) == puts (+) SetToBag({m})

\* persistMessage
Saved(m) == IF Phantom(m) THEN puts ELSE Put(m)

\* updateMessageById: the message may not be on the page any more.
Update(m) ==
    IF msg = Absent THEN UNCHANGED <<msg, puts>>
    ELSE Room /\ msg' = m /\ puts' = Saved(m)

Show(status) == Update([msg EXCEPT !.status = status])

\* onRunCreated, and what streamViaDaemon does next: the row is saved even if
\* the page shows something else; a Stop that was pressed meanwhile is sent on.
Answer ==
    LET r == post.run IN
    /\ post.phase = "answered" /\ Room
    /\ post' = NoPost
    /\ puts' = Put(Message("active", r))
    /\ msg' = IF msg = Absent THEN msg ELSE [msg EXCEPT !.run = r, !.status = "active"]
    /\ \/ /\ post.stop
          /\ cancelled' = cancelled \cup {r}
          /\ UNCHANGED call
       \/ /\ ~post.stop /\ post.client = "here"
          /\ call' = Reading(r, FALSE, TRUE)
          /\ UNCHANGED cancelled
       \/ /\ ~post.stop /\ post.client = "left"
          /\ UNCHANGED <<call, cancelled>>
    /\ UNCHANGED <<daemonVars, faults, view, done, listing, pressed>>

Refused ==
    /\ post.phase = "refused"
    /\ post' = NoPost
    /\ Show("failed")
    /\ call' = IF call.phase = "posting" THEN Off ELSE [call EXCEPT !.live = FALSE]
    /\ UNCHANGED <<daemonVars, cancelled, faults, view, done, listing, pressed>>

\* completedReattachRunsRef is for runs that were attached again.
Completed == IF call.back THEN done \cup {call.run} ELSE done

\* The start event, and the saves that the events after it bring about.
SeesEvent ==
    /\ call.phase = "reading" /\ call.run \in kept
    /\ Show("active")
    /\ UNCHANGED <<daemonVars, post, cancelled, faults, view, call, done, listing,
                   pressed>>

\* The end event, or the status the page asks for when the stream breaks off.
\* The files of a turn that succeeded are listed next, which takes a while.
EndStatus(r) == run[r]

SeesEnd ==
    /\ call.phase = "reading" /\ call.run \in kept
    /\ run[call.run] \in Outcomes
    /\ Show(EndStatus(call.run))
    /\ call' = Off /\ done' = Completed
    /\ listing' = IF EndStatus(call.run) = "succeeded" THEN listing \cup {call.back}
                  ELSE listing
    /\ UNCHANGED <<daemonVars, post, cancelled, faults, view, pressed>>

\* The turn may have made no files, which only the first reader saves; the
\* message may be another by now.  (Of two listings of a kind one counts.)
Listed(back) ==
    /\ back \in listing
    /\ listing' = listing \ {back}
    /\ \/ back /\ UNCHANGED <<msg, puts>>
       \/ \E whole \in IF back THEN {TRUE} ELSE BOOLEAN :
              Update([msg EXCEPT !.whole = whole])
    /\ UNCHANGED <<daemonVars, post, cancelled, faults, view, call, done, pressed>>

\* Mutant of Disconnect: a stream that ended without an end event is taken for
\* the end of a turn that went well.
DisconnectAsDone ==
    /\ call.phase = "reading"
    /\ Show("succeeded")
    /\ call' = Off /\ done' = Completed
    /\ UNCHANGED <<daemonVars, post, cancelled, faults, view, listing, pressed>>

\* The stream is given up: reading it throws, its request is refused, an error
\* event is read, or it breaks off five times and the daemon says nothing of
\* an end.  The run may have ended, and well.
Disconnect ==
    /\ call.phase = "reading"
    /\ Show("failed")
    /\ call' = Off /\ done' = Completed
    /\ UNCHANGED <<daemonVars, post, cancelled, faults, view, listing, pressed>>

\* A message that is not finished, or has nothing to show for its success.
NeedsReplay(m) == Active(m) \/ (m.status = "succeeded" /\ ~m.whole)

\* attachRecoverableRuns: the run is looked up and read again from its start.
Recoverable ==
    /\ view = "open" /\ call.phase = "off"
    /\ NeedsReplay(msg) /\ msg.run # None /\ msg.run \notin done

\* Mutant of RecoverUnknown: the page shows the failure and does not save it.
RecoverUnknownQuietly ==
    /\ Recoverable
    /\ \/ msg.run \notin kept /\ UNCHANGED faults
       \/ faults < MaxFaults /\ faults' = faults + 1
    /\ msg' = [msg EXCEPT !.status = "failed"]
    /\ done' = done \cup {msg.run}
    /\ UNCHANGED <<daemonVars, puts, post, cancelled, view, call, listing, pressed>>

RecoverUnknown ==
    /\ Recoverable
    /\ \/ msg.run \notin kept /\ UNCHANGED faults
       \/ faults < MaxFaults /\ faults' = faults + 1
    /\ Show("failed")
    /\ done' = done \cup {msg.run}
    /\ UNCHANGED <<daemonVars, post, cancelled, view, call, listing, pressed>>

RecoverKept ==
    LET status == run[msg.run] IN
    /\ Recoverable /\ msg.run \in kept /\ Room
    /\ puts' = Put([msg EXCEPT !.status = status])
    /\ msg' = [msg EXCEPT !.status = status, !.whole = FALSE]
    /\ call' = Reading(msg.run, TRUE, status \notin Outcomes)
    /\ UNCHANGED <<daemonVars, post, cancelled, faults, view, done, listing, pressed>>

Recover == RecoverUnknown \/ RecoverKept

----------------------------------------------------------------------------
(* The user.                                                                *)

\* handleStop
Stop ==
    /\ call.live
    /\ \/ /\ call.phase = "posting"
          /\ post' = [post EXCEPT !.stop = TRUE]
          /\ pressed' = IF post.phase = "refused" THEN pressed ELSE pressed \cup {Attempt}
          /\ UNCHANGED cancelled
       \/ /\ call.phase = "reading"
          /\ cancelled' = cancelled \cup {call.run}
          /\ pressed' = pressed \cup {call.run}
          /\ UNCHANGED post
    /\ IF Active(msg) THEN Show("canceled") ELSE UNCHANGED <<msg, puts>>
    /\ call' = Off
    /\ UNCHANGED <<daemonVars, faults, view, done, listing>>

\* handleSend with retryOfAssistantId.  One POST is under way at a time, and
\* nothing is read: the page could do both twice.
Retry ==
    /\ view = "open" /\ msg.status = "failed"
    /\ call.phase = "off" /\ post = NoPost /\ NextRun \in Runs /\ Room
    /\ msg' = Message("active", None)
    /\ puts' = Saved(msg')
    /\ call' = Posting /\ post' = Sent
    /\ UNCHANGED <<daemonVars, cancelled, faults, view, done, listing, pressed>>

\* Mutant of Leave: the cleanup aborts the cancel controllers too.
LeaveCancelling ==
    /\ view = "open"
    /\ view' = "away" /\ msg' = Absent /\ call' = Off /\ listing' = {}
    /\ post' = IF post.client = "here" THEN [post EXCEPT !.client = "left"] ELSE post
    /\ cancelled' = IF call.phase = "reading" THEN cancelled \cup {call.run} ELSE cancelled
    /\ UNCHANGED <<daemonVars, puts, faults, done, pressed>>

\* Another conversation is shown: nothing is read any more, nothing cancelled.
\* Files that are listed while it is shown are not saved; a listing that
\* outlasts the absence (a bound of the model) is not told from those.
Leave ==
    /\ view = "open"
    /\ view' = "away" /\ msg' = Absent /\ call' = Off /\ listing' = {}
    /\ post' = IF post.client = "here" THEN [post EXCEPT !.client = "left"] ELSE post
    /\ UNCHANGED <<daemonVars, puts, cancelled, faults, done, pressed>>

Open ==
    /\ view = "away"
    /\ view' = "open" /\ msg' = row
    /\ UNCHANGED <<daemonVars, wireVars, call, done, listing, pressed>>

\* The page is loaded again, or opened for the first time.  Nobody waits for
\* the answer to a POST; what was sent may still arrive.
Reload ==
    /\ view' = "open" /\ msg' = row /\ call' = Off
    /\ done' = {} /\ listing' = {}
    /\ post' = IF post.phase = "sent" THEN [post EXCEPT !.client = "gone", !.stop = FALSE]
               ELSE NoPost
    /\ pressed' = Heedless
    /\ UNCHANGED <<daemonVars, puts, cancelled, faults>>

----------------------------------------------------------------------------

Next ==
    \/ Create \/ Refuse \/ Restart \/ Shutdown \/ Deliver \/ Lose
    \/ \E r \in Runs : Ends(r) \/ Expire(r)
    \/ Answer \/ Refused \/ SeesEvent \/ SeesEnd \/ \E back \in BOOLEAN : Listed(back)
    \/ Disconnect \/ RecoverUnknown \/ RecoverKept
    \/ Stop \/ Retry \/ Leave \/ Open \/ Reload

Spec == Init /\ [][Next]_vars

\* PUTs arrive, runs end, the user comes back to a page of the conversation,
\* again and again, and an open page gets to look at its unfinished messages.
FairSpec ==
    /\ Spec
    /\ WF_vars(Deliver)
    /\ \A r \in Runs : WF_vars(Ends(r))
    /\ WF_vars(Reload)
    /\ SF_vars(Recover)

----------------------------------------------------------------------------

MessageType ==
    [status : {"absent", "active"} \cup Outcomes, run : Runs \cup {None},
     whole : BOOLEAN]
PostType ==
    [phase : {"none", "sent", "answered", "refused"}, run : Runs \cup {None},
     client : {"here", "left", "gone"}, stop : BOOLEAN]
CallType ==
    [phase : {"off", "posting", "reading"}, run : Runs \cup {None},
     back : BOOLEAN, live : BOOLEAN]

\* The types of the daemon's runs, of the messages wherever they are, of the
\* requests and of what the page remembers.
TypeOK ==
    /\ run \in [Runs -> {"none", "active", "lost"} \cup Outcomes]
    /\ kept \subseteq Runs /\ row \in MessageType
    /\ BagToSet(puts) \subseteq MessageType /\ post \in PostType
    /\ cancelled \subseteq Runs /\ faults \in 0 .. MaxFaults
    /\ view \in {"open", "away"} /\ msg \in MessageType /\ call \in CallType
    /\ done \subseteq Runs /\ listing \subseteq BOOLEAN /\ pressed \subseteq Runs

\* A row that is queued or running names a run the daemon created: nothing
\* could ever attach it again otherwise.  However PUTs, the POST, its answer,
\* Stop and Retry overtake each other.  specs/current/run.md (lines 83 and 164)
\* has the page persist a running row before it posts the run; the code keeps
\* that message back (isPhantomDaemonRunMessage).
NoPhantomRow == Active(row) => row.run \in Runs /\ run[row.run] # "none"

\* Neither the row nor the page claims a success no run of the message had.
SuccessIsReal ==
    \A m \in {row, msg} \cup BagToSet(puts) :
        m.status = "succeeded" => \E r \in Runs : run[r] = "succeeded"

\* A run is cancelled only because the user pressed Stop while it was shown
\* or being created, and a Stop is not forgotten while the answer of the POST
\* is still to come.
StopIsSent ==
    \A r \in Runs :
        /\ r \in cancelled => r \in pressed
        /\ r \in pressed \ cancelled /\ run[r] # "none" =>
               post.phase = "answered" /\ post.run = r /\ post.stop

\* The row does not stay queued or running for ever.
RowSettles == []<>~Active(row)

=============================================================================
