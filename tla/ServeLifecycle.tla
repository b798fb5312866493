--------------------------- MODULE ServeLifecycle ---------------------------
(***************************************************************************)
(* One process of `serve` or `poll` from its start to its exit: runServe   *)
(* with the HTTP server and the poll loop in one errgroup, runPoll with    *)
(* the poll loop alone.  A signal, a listener that cannot be opened or     *)
(* fails, an invalid ingest configuration and requests that do not end     *)
(* come in any order.                                                      *)
(***************************************************************************)
CONSTANT Requests     \* HTTP requests that clients may send

VARIABLES
    command,     \* "serve" or "poll"
    stage,       \* the main goroutine: starting, in group.Wait, in db.Close, exited
    signalled,   \* SIGINT or SIGTERM has cancelled the context of NotifyContext
    listener,    \* the goroutine of ListenAndServe; what it sent to errs
    http,        \* Server.Run; "abandoned" when it returned without Shutdown
    poll,        \* ingest.Poll
    groupErr,    \* first error of a worker, which cancels the shared context
    request,     \* request[r]: where a request is
    result,      \* what runServe or runPoll returns
    failures     \* what has failed so far (history, no guard reads it)

vars == <<command, stage, signalled, listener, http, poll, groupErr, request, result, failures>>

Causes == {"startup", "listener", "config", "drain"}

TypeOK ==
    /\ command \in {"serve", "poll"}
    /\ stage \in {"starting", "running", "closing", "exited"}
    /\ signalled \in BOOLEAN
    /\ listener \in {"off", "opening", "serving", "failed", "closed"}
    /\ http \in {"off", "serving", "draining", "returned", "abandoned"}
    /\ poll \in {"off", "checking", "cycle", "waiting", "returned"}
    /\ groupErr \in Causes \union {"none"}
    /\ request \in [Requests -> {"none", "open", "querying", "writing", "answered",
                                 "failed", "cut"}]
    /\ result \in Causes \union {"none", "ok"}
    /\ failures \subseteq Causes

Init ==
    /\ command \in {"serve", "poll"}
    /\ stage = "starting"
    /\ signalled = FALSE
    /\ listener = "off" /\ http = "off" /\ poll = "off"
    /\ groupErr = "none"
    /\ request = [r \in Requests |-> "none"]
    /\ result = "none"
    /\ failures = {}

\* The context that both workers share.
Cancelled == signalled \/ groupErr # "none"

InFlight(r) == request[r] \in {"open", "querying", "writing"}

\* A worker returns err: errgroup keeps the first.
Fails(err) ==
    /\ groupErr' = IF groupErr = "none" THEN err ELSE groupErr
    /\ failures' = failures \union {err}

------------------------------------------------------------------------------
(* The main goroutine                                                      *)

Signal ==
    /\ ~signalled /\ stage # "exited"
    /\ signalled' = TRUE
    /\ UNCHANGED <<command, stage, listener, http, poll, groupErr, request, result, failures>>

\* NewDB or Migrate fails, on an error or because a signal cancelled it.
StartFails ==
    /\ stage = "starting"
    /\ stage' = "exited" /\ result' = "startup"
    /\ failures' = failures \union {"startup"}
    /\ UNCHANGED <<command, signalled, listener, http, poll, groupErr, request>>

\* Migrate has returned: the workers are started.
Start ==
    /\ stage = "starting"
    /\ stage' = "running" /\ poll' = "checking"
    /\ IF command = "serve" THEN http' = "serving" /\ listener' = "opening"
                            ELSE UNCHANGED <<http, listener>>
    /\ UNCHANGED <<command, signalled, groupErr, request, result, failures>>

\* group.Wait (or Poll) returns; db.Close, deferred, closes the pool.
LeaveGroup ==
    /\ stage = "running"
    /\ http \in {"off", "returned", "abandoned"} /\ poll = "returned"
    /\ stage' = "closing"
    /\ result' = IF groupErr = "none" THEN "ok" ELSE groupErr
    /\ UNCHANGED <<command, signalled, listener, http, poll, groupErr, request, failures>>

\* db.Close has waited for the connections in use; the process ends, and with it
\* whatever is still in flight.
Exit ==
    /\ stage = "closing"
    /\ \A r \in Requests : request[r] # "querying"
    /\ stage' = "exited"
    /\ request' = [r \in Requests |-> IF InFlight(r) THEN "cut" ELSE request[r]]
    /\ UNCHANGED <<command, signalled, listener, http, poll, groupErr, result, failures>>

------------------------------------------------------------------------------
(* The HTTP server                                                         *)

ListenerOpens ==
    /\ listener = "opening" /\ http = "serving"
    /\ listener' = "serving"
    /\ UNCHANGED <<command, stage, signalled, http, poll, groupErr, request, result, failures>>

\* The address is in use, also when Shutdown has begun, or Accept fails for good: the
\* error waits in errs.
ListenerFails ==
    /\ \/ listener = "opening" /\ http \in {"serving", "draining"}
       \/ listener = "serving" /\ http = "serving"
    /\ listener' = "failed"
    /\ failures' = failures \union {"listener"}
    /\ UNCHANGED <<command, stage, signalled, http, poll, groupErr, request, result>>

\* After Shutdown ListenAndServe returns ErrServerClosed and errs gets nil.
ListenerCloses ==
    /\ listener \in {"opening", "serving"} /\ http \in {"draining", "returned"}
    /\ listener' = "closed"
    /\ UNCHANGED <<command, stage, signalled, http, poll, groupErr, request, result, failures>>

\* Run's select takes the error of the listener: it returns without Shutdown.  Variant:
\* it returns nil.
RunReturnsNil ==
    /\ http = "serving" /\ listener = "failed"
    /\ http' = "abandoned"
    /\ UNCHANGED <<command, stage, signalled, listener, poll, groupErr, request, result, failures>>
RunSeesError ==
    /\ http = "serving" /\ listener = "failed"
    /\ http' = "abandoned"
    /\ Fails("listener")
    /\ UNCHANGED <<command, stage, signalled, listener, poll, request, result>>

\* Run's select takes ctx.Done, also when an error is waiting: Shutdown begins.
RunSeesCancel ==
    /\ http = "serving" /\ Cancelled
    /\ http' = "draining"
    /\ UNCHANGED <<command, stage, signalled, listener, poll, groupErr, request, result, failures>>

\* Shutdown returns nil, and Run what is in errs.  Variants: Run returns nil;
\* ErrServerClosed is taken for a failure; Shutdown does not wait for requests.
DrainedReturnsNil ==
    /\ http = "draining" /\ \A r \in Requests : ~InFlight(r)
    /\ listener \in {"failed", "closed"}
    /\ http' = "returned"
    /\ UNCHANGED <<command, stage, signalled, listener, poll, groupErr, request, result, failures>>
DrainedServerClosed ==
    /\ http = "draining" /\ \A r \in Requests : ~InFlight(r)
    /\ listener \in {"failed", "closed"}
    /\ http' = "returned"
    /\ Fails(IF listener = "failed" THEN "listener" ELSE "server closed")
    /\ UNCHANGED <<command, stage, signalled, listener, poll, request, result>>
ClosedAtOnce ==
    /\ http = "draining"
    /\ listener \in {"failed", "closed"}
    /\ http' = "returned"
    /\ IF listener = "failed" THEN Fails("listener") ELSE UNCHANGED <<groupErr, failures>>
    /\ UNCHANGED <<command, stage, signalled, listener, poll, request, result>>
Drained ==
    /\ http = "draining" /\ \A r \in Requests : ~InFlight(r)
    /\ listener \in {"failed", "closed"}
    /\ http' = "returned"
    /\ IF listener = "failed" THEN Fails("listener") ELSE UNCHANGED <<groupErr, failures>>
    /\ UNCHANGED <<command, stage, signalled, listener, poll, request, result>>

\* The grace period is over and Run returns the error of Shutdown.  Variant: there is
\* no grace period.
NoGracePeriod == FALSE /\ UNCHANGED vars
DrainExpires ==
    /\ http = "draining" /\ \E r \in Requests : InFlight(r)
    /\ http' = "returned"
    /\ Fails("drain")
    /\ UNCHANGED <<command, stage, signalled, listener, poll, request, result>>

------------------------------------------------------------------------------
(* Requests                                                                *)

MoveRequest(r, from, to) ==
    /\ stage # "exited" /\ request[r] = from
    /\ request' = [request EXCEPT ![r] = to]
    /\ UNCHANGED <<command, stage, signalled, listener, http, poll, groupErr, result, failures>>

\* On a new connection, or on one kept alive, which outlasts a failed listener.
Accept(r) ==
    /\ listener \in {"serving", "failed"} /\ http \in {"serving", "abandoned"}
    /\ MoveRequest(r, "none", "open")

\* The handler takes a connection from the pool, if that is not closed.
Query(r) == stage = "running" /\ MoveRequest(r, "open", "querying")
QueryRefused(r) == stage = "closing" /\ MoveRequest(r, "open", "failed")
QueryEnds(r) == MoveRequest(r, "querying", "writing")
Answer(r) == MoveRequest(r, "writing", "answered")

------------------------------------------------------------------------------
(* The poll loop                                                           *)

\* ValidateForIngest.
PollRefuses ==
    /\ poll = "checking"
    /\ poll' = "returned"
    /\ Fails("config")
    /\ UNCHANGED <<command, stage, signalled, listener, http, request, result>>

MovePoll(from, to) ==
    /\ poll = from
    /\ poll' = to
    /\ UNCHANGED <<command, stage, signalled, listener, http, groupErr, request, result, failures>>

FirstCycle == MovePoll("checking", "cycle")
EndCycle == MovePoll("cycle", "waiting")    \* done, failed or cancelled: Poll goes on
NextCycle == MovePoll("waiting", "cycle")   \* the ticker, also when ctx.Done is ready
StopPolling == Cancelled /\ MovePoll("waiting", "returned")

------------------------------------------------------------------------------
Next ==
    \/ Signal \/ StartFails \/ Start \/ LeaveGroup \/ Exit
    \/ ListenerOpens \/ ListenerFails \/ ListenerCloses
    \/ RunSeesError \/ RunSeesCancel \/ Drained \/ DrainExpires
    \/ \E r \in Requests : Accept(r) \/ Query(r) \/ QueryRefused(r) \/ QueryEnds(r) \/ Answer(r)
    \/ PollRefuses \/ FirstCycle \/ EndCycle \/ NextCycle \/ StopPolling

Spec == Init /\ [][Next]_vars

\* Goroutines that can run do; a cycle and a statement end, by their timeouts or
\* by the cancelled context; a select that finds two cases ready takes either in the
\* long run.  No client has to send a request, or to read its answer.
Fairness ==
    /\ WF_vars(Start \/ StartFails)
    /\ WF_vars(LeaveGroup) /\ WF_vars(Exit)
    /\ WF_vars(ListenerOpens \/ ListenerFails) /\ WF_vars(ListenerCloses)
    /\ WF_vars(RunSeesError \/ RunSeesCancel)
    /\ WF_vars(Drained) /\ WF_vars(DrainExpires)
    /\ \A r \in Requests : WF_vars(QueryEnds(r))
    /\ WF_vars(PollRefuses \/ FirstCycle) /\ WF_vars(EndCycle) /\ SF_vars(StopPolling)

FairSpec == Spec /\ Fairness

------------------------------------------------------------------------------
(* Properties                                                              *)

\* A request that was accepted is answered, also across a shutdown; one that is cut off
\* by the exit, or finds the pool closed, goes with a listener that failed or a grace
\* period that was over.
AnsweredUnlessFailed ==
    \A r \in Requests :
        request[r] \in {"failed", "cut"} => failures \intersect {"listener", "drain"} # {}

\* The exit tells the truth: without an error nothing has failed, in whatever order
\* signal and failures came, and an error is one that happened.
CauseReported ==
    stage = "exited" =>
        /\ result = "ok" => failures = {}
        /\ result # "ok" => result \in failures

\* A worker has a step to take: one of its own, or for Run also one of the goroutine of
\* ListenAndServe or the end of the grace period.
ServerGoesOn ==
    \/ listener = "opening"
    \/ http = "serving" /\ (listener = "failed" \/ Cancelled)
    \/ http = "draining" /\ (listener # "off" \/ \E r \in Requests : InFlight(r))
PollGoesOn == poll \in {"checking", "cycle"} \/ (poll = "waiting" /\ Cancelled)

\* Once something asks for the end, group.Wait waits for nobody who is stuck: Run can go
\* on until it returns, whatever the clients do, and so can Poll, or it only waits
\* for an error that Run is about to return.
NobodyStuckAtShutdown ==
    (signalled \/ failures # {}) /\ stage = "running" =>
        /\ http \in {"serving", "draining"} => ServerGoesOn
        /\ poll # "returned" => PollGoesOn \/ (http = "serving" /\ listener = "failed")

\* A signal, or the failure of one worker, ends the whole process: no server is left
\* without its poller or the other way round, and no slow client keeps it.
StopsAltogether == (signalled \/ failures # {}) ~> stage = "exited"
==============================================================================
