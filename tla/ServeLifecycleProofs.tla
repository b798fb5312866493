------------------------ MODULE ServeLifecycleProofs ------------------------
(***************************************************************************)
(* Proofs about ServeLifecycle for any set of requests.                    *)
(*                                                                         *)
(* Recorded relates what has failed to what the errgroup holds: a failure  *)
(* of the listener may still wait in errs, but not once Run has returned.  *)
(* Quiet says where requests can be in flight: nowhere before the server   *)
(* runs, nor after a Shutdown that returned nil.  Stages relates the       *)
(* goroutines; only a cancelled context makes Run drain.                   *)
(***************************************************************************)
EXTENDS ServeLifecycle, TLAPS

Recorded ==
    /\ listener = "failed" <=> "listener" \in failures
    /\ groupErr # "none" => groupErr \in failures
    /\ "config" \in failures \/ "drain" \in failures => groupErr # "none"
    /\ http \in {"returned", "abandoned"} /\ listener = "failed" => groupErr # "none"
    /\ groupErr # "startup"

Stages ==
    /\ stage = "starting" => http = "off" /\ poll = "off" /\ failures = {}
    /\ stage = "running" => poll # "off"
    /\ http = "off" <=> listener = "off"
    /\ http = "draining" => Cancelled
    /\ http = "abandoned" => listener = "failed"
    /\ "startup" \in failures =>
          stage = "exited" /\ result = "startup" /\ http = "off" /\ poll = "off"
    /\ stage \in {"closing", "exited"} /\ "startup" \notin failures =>
          /\ http \in {"off", "returned", "abandoned"} /\ poll = "returned"
          /\ result = IF groupErr = "none" THEN "ok" ELSE groupErr

Quiet ==
    \A r \in Requests :
        InFlight(r) => \/ http \in {"serving", "draining", "abandoned"}
                       \/ "drain" \in failures

IInv == TypeOK /\ Recorded /\ Stages /\ Quiet /\ AnsweredUnlessFailed

------------------------------------------------------------------------------
LEMMA Initial == Init => IInv
  <1> SUFFICES ASSUME Init PROVE IInv
    OBVIOUS
  <1>1. TypeOK
    BY DEF Init, TypeOK, Causes
  <1>2. Recorded /\ Stages
    BY DEF Init, Recorded, Stages, Cancelled
  <1>3. Quiet /\ AnsweredUnlessFailed
    BY DEF Init, Quiet, InFlight, AnsweredUnlessFailed
  <1> QED BY <1>1, <1>2, <1>3 DEF IInv

\* The main goroutine, its end apart.
LEMMA MainKeeps ==
    ASSUME IInv, Signal \/ StartFails \/ Start \/ LeaveGroup
    PROVE  IInv'
  <1>1. TypeOK'
    <2>1. CASE Signal
      BY <2>1 DEF IInv, TypeOK, Signal
    <2>2. CASE StartFails
      BY <2>2 DEF IInv, TypeOK, Causes, StartFails
    <2>3. CASE Start
      BY <2>3 DEF IInv, TypeOK, Start
    <2>4. CASE LeaveGroup
      BY <2>4 DEF IInv, TypeOK, LeaveGroup
    <2> QED BY <2>1, <2>2, <2>3, <2>4
  <1>2. Recorded'
    BY DEF IInv, Recorded, Stages, Cancelled, Signal, StartFails, Start, LeaveGroup
  <1>3. Stages'
    BY DEF IInv, TypeOK, Recorded, Stages, Cancelled, Signal, StartFails, Start, LeaveGroup
  <1>4. Quiet'
    BY DEF IInv, Stages, Cancelled, Quiet, InFlight, Signal, StartFails, Start, LeaveGroup
  <1>5. AnsweredUnlessFailed'
    BY DEF IInv, AnsweredUnlessFailed, Signal, StartFails, Start, LeaveGroup
  <1> QED BY <1>1, <1>2, <1>3, <1>4, <1>5 DEF IInv

\* Nothing is in flight when the pool is closed, unless something has failed.
LEMMA NothingCut ==
    ASSUME IInv, stage = "closing", NEW r \in Requests, InFlight(r)
    PROVE  failures \intersect {"listener", "drain"} # {}
  <1>1. "startup" \notin failures
    BY DEF IInv, Stages, Cancelled
  <1>2. http \in {"off", "returned", "abandoned"}
    BY <1>1 DEF IInv, Stages, Cancelled
  <1>3. CASE http = "abandoned"
    BY <1>3 DEF IInv, Stages, Cancelled, Recorded
  <1>4. CASE http # "abandoned"
    BY <1>2, <1>4 DEF IInv, Quiet
  <1> QED BY <1>3, <1>4

LEMMA ExitKeeps ==
    ASSUME IInv, Exit
    PROVE  IInv'
  <1>1. TypeOK'
    BY DEF IInv, TypeOK, Exit
  <1>2. Recorded' /\ Stages'
    BY DEF IInv, Recorded, Stages, Cancelled, Exit
  <1>3. Quiet'
    BY DEF Exit, Quiet, InFlight
  <1>4. AnsweredUnlessFailed'
    <2> SUFFICES ASSUME NEW r \in Requests, request'[r] \in {"failed", "cut"}
                 PROVE  failures \intersect {"listener", "drain"} # {}
      BY DEF AnsweredUnlessFailed, Exit
    <2>1. CASE InFlight(r)
      BY <2>1, NothingCut DEF Exit
    <2>2. CASE ~InFlight(r)
      BY <2>2 DEF IInv, AnsweredUnlessFailed, Exit
    <2> QED BY <2>1, <2>2
  <1> QED BY <1>1, <1>2, <1>3, <1>4 DEF IInv

LEMMA FailsTypes ==
    ASSUME TypeOK, NEW err \in Causes, Fails(err)
    PROVE  groupErr' \in Causes \union {"none"} /\ failures' \subseteq Causes
  BY DEF TypeOK, Fails

LEMMA CauseNames == {"listener", "config", "drain"} \subseteq Causes
  BY DEF Causes

\* The listener and Run.
LEMMA ServerKeeps ==
    ASSUME IInv,
           \/ ListenerOpens \/ ListenerFails \/ ListenerCloses
           \/ RunSeesError \/ RunSeesCancel \/ Drained \/ DrainExpires
    PROVE  IInv'
  <1> USE DEF ListenerOpens, ListenerFails, ListenerCloses, RunSeesError, RunSeesCancel,
              Drained, DrainExpires, Fails
  <1>1. TypeOK'
    <2>1. TypeOK
      BY DEF IInv
    <2>2. CASE ListenerOpens
      BY <2>1, <2>2 DEF TypeOK
    <2>3. CASE ListenerFails
      BY <2>1, <2>3, CauseNames DEF TypeOK
    <2>4. CASE ListenerCloses
      BY <2>1, <2>4 DEF TypeOK
    <2>5. CASE RunSeesCancel
      BY <2>1, <2>5 DEF TypeOK
    <2>6. CASE RunSeesError \/ Drained \/ DrainExpires
      <3> HIDE DEF Fails
      <3>1. \/ Fails("listener") \/ Fails("drain")
            \/ UNCHANGED <<groupErr, failures>>
        BY <2>6
      <3>2. groupErr' \in Causes \union {"none"} /\ failures' \subseteq Causes
        BY <2>1, <3>1, FailsTypes, CauseNames DEF TypeOK
      <3>3. http' \in {"returned", "abandoned"}
            /\ UNCHANGED <<command, stage, signalled, listener, poll, request, result>>
        BY <2>6
      <3> QED BY <2>1, <3>2, <3>3 DEF TypeOK
    <2> QED BY <2>2, <2>3, <2>4, <2>5, <2>6
  <1>2. Recorded'
    BY DEF IInv, TypeOK, Causes, Recorded, Stages, Cancelled
  <1>3. Stages'
    BY DEF IInv, TypeOK, Recorded, Stages, Cancelled
  <1>4. Quiet'
    BY DEF IInv, Quiet, InFlight
  <1>5. AnsweredUnlessFailed'
    BY DEF IInv, AnsweredUnlessFailed
  <1> QED BY <1>1, <1>2, <1>3, <1>4, <1>5 DEF IInv

\* A request moves on.
LEMMA RequestKeeps ==
    ASSUME IInv, NEW r \in Requests,
           Accept(r) \/ Query(r) \/ QueryRefused(r) \/ QueryEnds(r) \/ Answer(r)
    PROVE  IInv'
  <1> USE DEF Accept, Query, QueryRefused, QueryEnds, Answer, MoveRequest
  <1>1. TypeOK'
    <2>1. PICK to \in {"open", "querying", "writing", "answered", "failed"} :
            /\ request' = [request EXCEPT ![r] = to]
            /\ UNCHANGED <<command, stage, signalled, listener, http, poll, groupErr,
                           result, failures>>
      OBVIOUS
    <2> QED BY <2>1 DEF IInv, TypeOK
  <1>2. Recorded' /\ Stages'
    BY DEF IInv, Recorded, Stages, Cancelled
  <1>3. Quiet'
    <2> SUFFICES ASSUME NEW q \in Requests, InFlight(q)'
                 PROVE  http \in {"serving", "draining", "abandoned"} \/ "drain" \in failures
      BY DEF Quiet
    <2>1. InFlight(q) \/ Accept(r)
      BY DEF IInv, TypeOK, InFlight
    <2> QED BY <2>1 DEF IInv, Quiet
  <1>4. AnsweredUnlessFailed'
    <2> SUFFICES ASSUME NEW q \in Requests, request'[q] \in {"failed", "cut"}
                 PROVE  failures \intersect {"listener", "drain"} # {}
      BY DEF AnsweredUnlessFailed
    <2>1. CASE request[q] \in {"failed", "cut"}
      BY <2>1 DEF IInv, AnsweredUnlessFailed
    <2>2. CASE request[q] \notin {"failed", "cut"}
      <3>1. stage = "closing" /\ InFlight(q)
        BY <2>2 DEF IInv, TypeOK, InFlight
      <3> QED BY <3>1, NothingCut
    <2> QED BY <2>1, <2>2
  <1> QED BY <1>1, <1>2, <1>3, <1>4 DEF IInv

LEMMA PollKeeps ==
    ASSUME IInv, PollRefuses \/ FirstCycle \/ EndCycle \/ NextCycle \/ StopPolling
    PROVE  IInv'
  <1> USE DEF PollRefuses, FirstCycle, EndCycle, NextCycle, StopPolling, MovePoll, Fails
  <1>1. TypeOK'
    <2>1. CASE PollRefuses
      <3> HIDE DEF Fails
      <3>1. groupErr' \in Causes \union {"none"} /\ failures' \subseteq Causes
        BY <2>1, FailsTypes, CauseNames DEF IInv
      <3> QED BY <2>1, <3>1 DEF IInv, TypeOK
    <2>2. CASE FirstCycle \/ EndCycle \/ NextCycle \/ StopPolling
      BY <2>2 DEF IInv, TypeOK
    <2> QED BY <2>1, <2>2
  <1>2. Recorded' /\ Stages'
    BY DEF IInv, TypeOK, Causes, Recorded, Stages, Cancelled
  <1>3. Quiet'
    BY DEF IInv, Quiet, InFlight
  <1>4. AnsweredUnlessFailed'
    BY DEF IInv, AnsweredUnlessFailed
  <1> QED BY <1>1, <1>2, <1>3, <1>4 DEF IInv

LEMMA Step == IInv /\ [Next]_vars => IInv'
  <1> SUFFICES ASSUME IInv, [Next]_vars PROVE IInv'
    OBVIOUS
  <1>1. CASE UNCHANGED vars
    BY <1>1 DEF vars, IInv, TypeOK, Recorded, Stages, Cancelled, Quiet, InFlight,
                   AnsweredUnlessFailed
  <1>2. CASE Next
    BY <1>2, MainKeeps, ExitKeeps, ServerKeeps, RequestKeeps, PollKeeps DEF Next
  <1> QED BY <1>1, <1>2

LEMMA Invariant == Spec => []IInv
  BY Initial, Step, PTL DEF Spec

------------------------------------------------------------------------------
\* runServe, its workers and the requests keep their types.
THEOREM LifecycleTypes == Spec => []TypeOK
  <1>1. IInv => TypeOK
    BY DEF IInv
  <1> QED BY <1>1, Invariant, PTL

\* An accepted request that is never answered goes with a listener that failed or a
\* grace period of Server.Run that was over.
THEOREM RequestsDrained == Spec => []AnsweredUnlessFailed
  <1>1. IInv => AnsweredUnlessFailed
    BY DEF IInv
  <1> QED BY <1>1, Invariant, PTL

\* runServe and runPoll return an error that happened, and nil only if nothing failed.
THEOREM ExitTellsTheTruth == Spec => []CauseReported
  <1>1. IInv => CauseReported
    <2> SUFFICES ASSUME IInv, stage = "exited"
                 PROVE  /\ result = "ok" => failures = {}
                        /\ result # "ok" => result \in failures
      BY DEF CauseReported
    <2>1. CASE "startup" \in failures
      BY <2>1 DEF IInv, Stages, Cancelled
    <2>2. CASE "startup" \notin failures
      <3>1. result = IF groupErr = "none" THEN "ok" ELSE groupErr
        BY <2>2 DEF IInv, Stages, Cancelled
      <3>2. groupErr = "none" => failures = {}
        BY <2>2 DEF IInv, TypeOK, Causes, Recorded, Stages, Cancelled
      <3>3. groupErr # "ok"
        BY DEF IInv, TypeOK, Causes
      <3> QED BY <3>1, <3>2, <3>3 DEF IInv, Recorded
    <2> QED BY <2>1, <2>2
  <1> QED BY <1>1, Invariant, PTL

\* Whatever failed, and in whatever order, a worker that group.Wait waits for can go on:
\* an error that Run has returned has cancelled the poller, and one it has not
\* returned yet is there for its select.
THEOREM NobodyStuck == Spec => []NobodyStuckAtShutdown
  <1>1. IInv => NobodyStuckAtShutdown
    <2> SUFFICES ASSUME IInv, signalled \/ failures # {}, stage = "running"
                 PROVE  /\ http \in {"serving", "draining"} => ServerGoesOn
                        /\ poll # "returned" =>
                              PollGoesOn \/ (http = "serving" /\ listener = "failed")
      BY DEF NobodyStuckAtShutdown
    <2>1. Cancelled \/ listener = "failed"
      BY DEF IInv, TypeOK, Causes, Recorded, Stages, Cancelled
    <2>2. http \in {"serving", "draining"} => ServerGoesOn
      BY <2>1 DEF IInv, Stages, Cancelled, ServerGoesOn
    <2>3. Cancelled \/ http = "serving"
      BY <2>1 DEF IInv, TypeOK, Recorded, Stages, Cancelled
    <2> QED BY <2>1, <2>2, <2>3 DEF IInv, TypeOK, Stages, PollGoesOn
  <1> QED BY <1>1, Invariant, PTL
==============================================================================
