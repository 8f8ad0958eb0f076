----------------------------- MODULE AcpSession -----------------------------
(***************************************************************************)
(* The session of an agent that speaks ACP (acp.ts, attachAcpSession):      *)
(* initialize, session/new, the selection of a model if one is asked for,   *)
(* and the prompt, each a JSON-RPC request on the agent's stdin that is     *)
(* sent when the one before was answered.  The agent is taken at its worst: *)
(* it answers any request with a result or an error at any time and any     *)
(* number of times, asks for permissions, falls silent, and exits.  Texts,  *)
(* model names and usage are left out; the state is finite as it is.        *)
(***************************************************************************)
EXTENDS Naturals, Sequences

VARIABLES
    given,      \* [model: a model is to be selected; nulls: errors may have id null]
    requests,   \* methods of the requests written; the id of one is its place
    expected,   \* expectedId
    modelId,    \* setModelRequestId
    promptId,   \* promptRequestId
    sessionId,  \* whether there is one
    end,        \* [finished, fatal, aborted]
    stage,      \* the stage timer is running
    grace,      \* a timer of the clean exit is running
    child,      \* "up" until its close event, [killed: a SIGTERM was delivered]
    quiet       \* the agent writes nothing any more (no variable of the code)

protocol == <<requests, expected, modelId, promptId, sessionId>>
vars == <<given, protocol, end, stage, grace, child, quiet>>

Null == 0  \* also the id null of a record

Init ==
    /\ given \in [model : BOOLEAN, nulls : BOOLEAN]
    /\ requests = <<"initialize">> /\ expected = 1
    /\ modelId = Null /\ promptId = Null /\ sessionId = FALSE
    /\ end = [finished |-> FALSE, fatal |-> FALSE, aborted |-> FALSE]
    /\ stage = TRUE /\ grace = FALSE
    /\ child = [proc |-> "up", killed |-> FALSE]
    /\ quiet = FALSE

\* What the agent may write.  An id that was not used stands for a missing or
\* an unknown one; "refused" for the other codes of a failed model selection.
Ids == IF given.nulls THEN 0 .. Len(requests) + 1 ELSE 1 .. Len(requests) + 1
Records ==
    [kind : {"other"}]                             \* updates, and what is no object
    \cup [kind : {"permission"}, allowed : BOOLEAN] \* it offers a way to allow it
    \cup [kind : {"error"}, id : Ids, code : {"internal", "refused", "fatal"}]
    \cup [kind : {"result"}, id : Ids, session : BOOLEAN]

-----------------------------------------------------------------------------

\* child.kill('SIGTERM') unless a signal was delivered: none is when it has
\* closed.
Terminate(c) == IF c.proc = "up" THEN [c EXCEPT !.killed = TRUE] ELSE c

\* Mutant of Fail: it does not ask whether the session has ended.
FailAgain(armed, c) ==
    /\ end' = [end EXCEPT !.finished = TRUE, !.fatal = TRUE]
    /\ stage' = FALSE
    /\ child' = Terminate(c)
    /\ UNCHANGED grace

\* fail(), the timer being set or not; c is the process as it then is.
Fail(armed, c) ==
    /\ end' = IF end.finished THEN end ELSE [end EXCEPT !.finished = TRUE, !.fatal = TRUE]
    /\ stage' = (end.finished /\ armed)
    /\ child' = IF end.finished THEN c ELSE Terminate(c)
    /\ UNCHANGED grace

\* writeRpc sets the timer.
Send(method, c) ==
    /\ requests' = Append(requests, method)
    /\ expected' = Len(requests) + 1
    /\ stage' = TRUE
    /\ child' = c
    /\ UNCHANGED <<end, grace>>

SendPrompt(c) ==
    /\ promptId' = Len(requests) + 1
    /\ Send("session/prompt", c)

\* Nothing comes of a record but the timer it set.
Ignore(c) ==
    /\ stage' = TRUE
    /\ child' = c
    /\ UNCHANGED <<protocol, end, grace>>

\* Mutant of Recoverable: a prompt that was sent is not looked at.
RecoverableAnyTime(r) == r.id = modelId /\ r.code \in {"internal", "refused"}

\* The model cannot be selected: the prompt is sent without it.
Recoverable(r) ==
    r.id = modelId /\ r.code \in {"internal", "refused"} /\ promptId = Null

RpcError(r, c) ==
    \/ end.finished /\ Ignore(c)
    \/ /\ ~end.finished /\ Recoverable(r)
       /\ modelId' = Null
       /\ SendPrompt(c)
       /\ UNCHANGED sessionId
    \/ /\ ~end.finished /\ ~Recoverable(r)
       /\ IF r.code = "internal" /\ r.id # expected THEN Ignore(c)
          ELSE Fail(TRUE, c) /\ UNCHANGED protocol

\* An answer is written, unless no option allows it.
Permission(r, c) ==
    \/ r.allowed /\ Ignore(c)
    \/ ~r.allowed /\ Fail(TRUE, c) /\ UNCHANGED protocol

\* The answer to session/new, or to whatever has the id 2.
SessionAnswered(r, c) ==
    /\ sessionId' = r.session
    /\ \/ /\ r.session /\ given.model
          /\ modelId' = Len(requests) + 1
          /\ Send("session/set_model", c)
          /\ UNCHANGED promptId
       \/ /\ r.session /\ ~given.model
          /\ SendPrompt(c)
          /\ UNCHANGED modelId
       \/ /\ ~r.session
          /\ Fail(TRUE, c)
          /\ UNCHANGED <<requests, expected, modelId, promptId>>

\* Mutant of PromptAnswered: the process is left to exit by itself.
PromptAnsweredTrusting(c) ==
    /\ end' = [end EXCEPT !.finished = TRUE]
    /\ stage' = FALSE
    /\ child' = c
    /\ UNCHANGED <<protocol, grace>>

\* stdin is closed, and the process given a moment to exit by itself.
PromptAnswered(c) ==
    /\ end' = [end EXCEPT !.finished = TRUE]
    /\ stage' = FALSE
    /\ grace' = TRUE
    /\ child' = c
    /\ UNCHANGED protocol

Result(r, c) ==
    \/ r.id # expected /\ Ignore(c)
    \/ /\ r.id = expected /\ expected = 1
       /\ Send("session/new", c)
       /\ UNCHANGED <<modelId, promptId, sessionId>>
    \/ r.id = expected /\ expected = 2 /\ SessionAnswered(r, c)
    \/ r.id = expected /\ expected > 2 /\ promptId = expected /\ PromptAnswered(c)
    \/ /\ r.id = expected /\ expected > 2 /\ promptId # expected
       /\ IF sessionId /\ given.model
          THEN SendPrompt(c) /\ UNCHANGED <<modelId, sessionId>>
          ELSE Ignore(c)

\* The handler of a line of output.
Handle(r, c) ==
    \/ end.aborted /\ child' = c /\ UNCHANGED <<protocol, end, stage, grace>>
    \/ /\ ~end.aborted
       /\ \/ r.kind = "other" /\ Ignore(c)
          \/ r.kind = "permission" /\ Permission(r, c)
          \/ r.kind = "error" /\ RpcError(r, c)
          \/ r.kind = "result" /\ Result(r, c)

-----------------------------------------------------------------------------

Receive(r) ==
    /\ child.proc = "up" /\ ~quiet
    /\ Handle(r, child)
    /\ UNCHANGED <<given, quiet>>

\* The close event: the timers are cleared, and a last line that was not
\* terminated is handled, which may set them again.  (The timer of a prompt
\* that is answered by this line finds no process to signal.)
Close ==
    /\ child.proc = "up"
    /\ LET gone == [child EXCEPT !.proc = "closed"]
       IN  \/ /\ child' = gone
              /\ stage' = FALSE /\ grace' = FALSE
              /\ UNCHANGED <<protocol, end>>
           \/ \E r \in Records : ~quiet /\ Handle(r, gone)
    /\ UNCHANGED <<given, quiet>>

\* stageTimer, set by the last request or record.
StageTimeout ==
    /\ stage
    /\ Fail(FALSE, child)
    /\ UNCHANGED <<given, protocol, quiet>>

CleanExit ==
    /\ grace
    /\ grace' = FALSE
    /\ child' = Terminate(child)
    /\ UNCHANGED <<given, protocol, end, stage, quiet>>

\* An error event of the process or of its stdin.
TransportFails ==
    /\ child.proc = "up"
    /\ Fail(stage, child)
    /\ UNCHANGED <<given, protocol, quiet>>

\* abort(), by a cancel, the watchdog or shutdown.
Abort ==
    /\ ~end.finished
    /\ end' = [end EXCEPT !.finished = TRUE, !.aborted = TRUE]
    /\ stage' = FALSE
    /\ \/ /\ sessionId /\ child.proc = "up"
          /\ requests' = Append(requests, "session/cancel")
       \/ UNCHANGED requests  \* no session, or stdin is destroyed
    /\ UNCHANGED <<given, expected, modelId, promptId, sessionId, grace, child, quiet>>

\* The agent has written its last record.
FallSilent ==
    /\ ~quiet
    /\ quiet' = TRUE
    /\ UNCHANGED <<given, protocol, end, stage, grace, child>>

Next ==
    \/ \E r \in Records : Receive(r)
    \/ Close \/ StageTimeout \/ CleanExit \/ TransportFails \/ Abort \/ FallSilent

Spec == Init /\ [][Next]_vars

\* Timers go off: the stage timer when no record comes to set it again.
FairSpec ==
    /\ Spec
    /\ WF_vars(quiet /\ StageTimeout)
    /\ WF_vars(CleanExit)

-----------------------------------------------------------------------------

Methods == {"initialize", "session/new", "session/set_model", "session/prompt",
            "session/cancel"}

\* Every variable has its type.
TypeOK ==
    /\ given \in [model : BOOLEAN, nulls : BOOLEAN]
    /\ requests \in Seq(Methods)
    /\ expected \in Nat /\ modelId \in Nat /\ promptId \in Nat
    /\ sessionId \in BOOLEAN
    /\ end \in [finished : BOOLEAN, fatal : BOOLEAN, aborted : BOOLEAN]
    /\ stage \in BOOLEAN /\ grace \in BOOLEAN /\ quiet \in BOOLEAN
    /\ child \in [proc : {"up", "closed"}, killed : BOOLEAN]

\* The prompt is put to the agent once, for a session it has opened and after
\* the model was selected if one was asked for, and a cancel is the last
\* request: whatever is answered late, twice or to an earlier request, and
\* whatever fails.  Errors with the id null are left out, which break it.
InOrder ==
    ~given.nulls =>
        LET setUp == <<"initialize", "session/new">>
                         \o IF given.model THEN <<"session/set_model">> ELSE <<>>
            whole == setUp \o <<"session/prompt">>
            sent  == IF requests[Len(requests)] = "session/cancel"
                     THEN SubSeq(requests, 1, Len(requests) - 1) ELSE requests
        IN  /\ Len(sent) <= Len(whole)
            /\ sent = SubSeq(whole, 1, Len(sent))
            /\ Len(sent) < Len(requests) => sessionId /\ end.aborted

\* The session ends once, in one way, and is complete only if the prompt was
\* sent, whatever comes after its end: records, timers, errors of the
\* transport, a second abort.
Session == INSTANCE RpcSession WITH
    state <- IF end.aborted THEN "aborted" ELSE IF end.fatal THEN "failed"
             ELSE IF end.finished THEN "completed" ELSE "open",
    asked <- promptId # Null
ImplementsSession == Session!Spec

\* An agent that says no more does not keep its run: it has left, was told to
\* leave, or the run has given it up and sees to that itself.
SilenceEnds == quiet ~> (end.aborted \/ child.killed \/ child.proc = "closed")

\* An internal error that answers no request of the moment is noise.
NoiseIsIgnored ==
    [][\A r \in Records :
           (r.kind = "error" /\ r.code = "internal" /\ r.id # expected /\ Receive(r))
               => UNCHANGED <<protocol, end>>]_vars

=============================================================================
