----------------------------- MODULE Controller -----------------------------
(***************************************************************************)
(* The controller process (server.cpp, drainfabricd.cpp) around the engine *)
(* of DrainEngine: sessions over ordered byte streams, the threads that    *)
(* run poll_once, and the pushes of the evacuation sink.  A thread is one  *)
(* pass of poll_once after another: accept, service each session of its    *)
(* snapshot, advance, reap.  It holds a session's mutex only while it      *)
(* receives, and no lock while it handles a frame, calls the engine or     *)
(* hands its requests to the sink.  Payloads are parsed by the wire        *)
(* format, which is not modelled: a frame here is well-formed.             *)
(***************************************************************************)
EXTENDS DrainEngine, Functions

CONSTANTS Sessions,        \* one per peer process
          Agents,          \* the sessions whose role is agent
          Threads,         \* of poll_once
          Threaded,        \* --workers N, as opposed to the daemon's own loop
          MaxConnections,
          Validity         \* of the authority a session is issued

ASSUME ControllerAssumption ==
  /\ Agents \subseteq Sessions
  /\ Threaded \in BOOLEAN
  /\ IsFiniteSet(Threads) /\ Threads # {}
  /\ ~Threaded => Cardinality(Threads) = 1
  /\ MaxConnections \in Nat
  /\ Validity \in Nat

VARIABLES connections,     \* per session: the Connection, whether registered or not
          registry,        \* connections_, in the order of registration
          to_server, to_peer, \* frames under way
          threads,
          stopping, signalled, daemon,
          peers            \* the programs at the other ends: see Peers

sessionVars == <<connections, registry, to_server, to_peer>>
daemonVars == <<stopping, signalled, daemon>>
controllerVars == <<sessionVars, threads, daemonVars, peers>>

\* Every response but a failure carries one number: an id, a sequence or nothing (0);
\* the welcome also names the line.
NoFrame == [type |-> "none", sequence |-> 0]
Failure(n) == [type |-> "failure", sequence |-> n]
Response(type, n, value) == [type |-> type, sequence |-> n, value |-> value]
Welcome(n, token) ==
  [type |-> "welcome", sequence |-> n, value |-> token, epoch |-> epoch,
   incarnation |-> incarnation]

\* The header a frame gets as it is sent: its number.
WithSequence(frame, n) ==
  [x \in DOMAIN frame \cup {"sequence"} |-> IF x \in DOMAIN frame THEN frame[x] ELSE n]

\* `backlog': connected, not accepted; `open': the server has not closed the stream.
NewConnection ==
  [backlog |-> FALSE, open |-> FALSE, hung_up |-> FALSE, greeted |-> FALSE,
   closing |-> FALSE, authority |-> 0]

\* `todo': the sessions it has yet to service, `frame': what it handles or answers with,
\* `audience': the sessions its current push has yet to visit.
IdleThread ==
  [at |-> "accept", todo |-> <<>>, frame |-> NoFrame, pushes |-> <<>>, audience |-> <<>>,
   delivered |-> TRUE]

ServerInit ==
  /\ connections = [s \in Sessions |-> NewConnection]
  /\ registry = <<>>
  /\ to_server = [s \in Sessions |-> <<>>]
  /\ to_peer = [s \in Sessions |-> <<>>]
  /\ threads = [w \in Threads |-> IdleThread]
  /\ stopping = FALSE
  /\ signalled = FALSE
  /\ daemon = "serving"

Goes(w, at) == threads' = [threads EXCEPT ![w].at = at]

\* The session the thread is servicing.
Serviced(w) == Head(threads[w].todo)

\* The mutex of session s is held by a thread that waits for a frame on it.
Locked(s) == \E w \in Threads : threads[w].at = "receiving" /\ Serviced(w) = s

\* The server's end is closed, or the last shared pointer to it is gone.
Ended(s) ==
  /\ ~connections[s].backlog
  /\ \/ ~connections[s].open
     \/ /\ s \notin Range(registry)
        /\ \A w \in Threads :
             s \notin Range(threads[w].todo) \cup Range(threads[w].audience)

\* FrameStream::send_frame fails on a closed stream and on a peer that is gone.
Delivers(s) == connections[s].open /\ ~connections[s].hung_up

send_frame(S, frame) ==
  to_peer' = [s \in Sessions |->
                IF s \in S /\ Delivers(s) THEN Append(to_peer[s], frame) ELSE to_peer[s]]

------------------------------------------------------------------------------
(* poll_once.                                                              *)

\* Slip: the loop does not look at any flag.
AlwaysContinues == TRUE

\* The top of the loop: the workers look at stopping_, the daemon's own loop does not.
Continues == IF Threaded THEN ~stopping ELSE ~signalled

Stage(todo) == IF todo = <<>> THEN "advance" ELSE "service"

\* snapshot_connections.
Snapshot(w) == threads' = [threads EXCEPT ![w].todo = registry', ![w].at = Stage(registry')]

AcceptTimesOut(w) ==
  /\ threads[w].at = "accept"
  /\ Continues
  /\ \A s \in Sessions : ~connections[s].backlog
  /\ UNCHANGED <<vars, sessionVars, daemonVars, peers>>
  /\ Snapshot(w)

\* The limit is looked at before the session is registered, under a lock of its own.
accept_one(w, s) ==
  /\ threads[w].at = "accept"
  /\ Continues
  /\ connections[s].backlog
  /\ IF Len(registry) >= MaxConnections
     THEN /\ connections' = [connections EXCEPT ![s].backlog = FALSE]
          /\ to_peer' = [to_peer EXCEPT ![s] = Append(@, Failure(0))]
          /\ UNCHANGED registry
          /\ Snapshot(w)
     ELSE /\ connections' = [connections EXCEPT ![s].backlog = FALSE, ![s].open = TRUE]
          /\ threads' = [threads EXCEPT ![w].at = "accepted", ![w].todo = <<s>>]
          /\ UNCHANGED <<registry, to_peer>>
  /\ UNCHANGED <<vars, to_server, daemonVars, peers>>

register_connection(w) ==
  /\ threads[w].at = "accepted"
  /\ registry' = Append(registry, Serviced(w))
  /\ Snapshot(w)
  /\ UNCHANGED <<vars, connections, to_server, to_peer, daemonVars, peers>>

\* The thread has nothing more to do with the session it serviced.
NextSession(w) ==
  threads' = [threads EXCEPT ![w].todo = Tail(@), ![w].frame = NoFrame,
                             ![w].at = Stage(Tail(threads[w].todo))]

\* try_to_lock fails, or the session is over.
SkipSession(w) ==
  /\ threads[w].at = "service"
  /\ LET c == connections[Serviced(w)] IN Locked(Serviced(w)) \/ c.closing \/ ~c.open
  /\ NextSession(w)
  /\ UNCHANGED <<vars, sessionVars, daemonVars, peers>>

LockSession(w) ==
  /\ threads[w].at = "service"
  /\ LET c == connections[Serviced(w)] IN ~Locked(Serviced(w)) /\ ~c.closing /\ c.open
  /\ Goes(w, "receiving")
  /\ UNCHANGED <<vars, sessionVars, daemonVars, peers>>

\* receive_frame: a whole frame; bytes in flight are read before the end of the stream.
ReceiveFrame(w) ==
  LET s == Serviced(w) IN
  /\ threads[w].at = "receiving"
  /\ to_server[s] # <<>>
  /\ to_server' = [to_server EXCEPT ![s] = Tail(@)]
  /\ threads' = [threads EXCEPT ![w].at = "handling", ![w].frame = Head(to_server[s])]
  /\ UNCHANGED <<vars, connections, registry, to_peer, daemonVars, peers>>

ReceiveTimesOut(w) ==
  /\ threads[w].at = "receiving"
  /\ to_server[Serviced(w)] = <<>>
  /\ ~connections[Serviced(w)].hung_up
  /\ NextSession(w)
  /\ UNCHANGED <<vars, sessionVars, daemonVars, peers>>

ReceiveClosed(w) ==
  LET s == Serviced(w) IN
  /\ threads[w].at = "receiving"
  /\ to_server[s] = <<>>
  /\ connections[s].hung_up
  /\ connections' = [connections EXCEPT ![s].closing = TRUE, ![s].open = FALSE]
  /\ NextSession(w)
  /\ UNCHANGED <<vars, registry, to_server, to_peer, daemonVars, peers>>

------------------------------------------------------------------------------
(* handle_frame, with no lock held: the engine call, then the answer.      *)

Handling(w, types) == threads[w].at = "handling" /\ threads[w].frame.type \in types

\* A request of a greeted session, when the engine's mutex is free.
Handles(w, types) ==
  Handling(w, types) /\ connections[Serviced(w)].greeted /\ LockFree

Authority(w) == connections[Serviced(w)].authority

Answers(w, frame) ==
  /\ threads' = [threads EXCEPT ![w].at = "replying", ![w].frame = frame]
  /\ UNCHANGED <<registry, to_server, to_peer, peers>>

AnswersOnly(w, frame) == Answers(w, frame) /\ UNCHANGED <<connections, daemonVars>>

Sequence(w) == threads[w].frame.sequence

Refuse(w) == AnswersOnly(w, Failure(Sequence(w))) /\ UNCHANGED vars

Respond(w, value) == AnswersOnly(w, Response("response", Sequence(w), value))

\* The session is given up: once the failure is sent, its stream is closed.
RefuseAndClose(w) ==
  /\ Answers(w, Failure(Sequence(w)))
  /\ connections' = [connections EXCEPT ![Serviced(w)].closing = TRUE]
  /\ UNCHANGED <<vars, daemonVars>>

HandleBeforeHello(w) ==
  /\ threads[w].at = "handling"
  /\ threads[w].frame.type # "hello"
  /\ ~connections[Serviced(w)].greeted
  /\ RefuseAndClose(w)

\* Hello issues the session an authority of its own; only exhausted ids would fail it.
HandleHello(w) ==
  /\ Handling(w, {"hello"})
  /\ \E scope \in Scopes : issue_authority(scope, Validity)
  /\ connections' = [connections EXCEPT ![Serviced(w)].greeted = TRUE,
                                        ![Serviced(w)].authority = Len(tokens')]
  /\ Answers(w, Welcome(Sequence(w), Len(tokens')))
  /\ UNCHANGED daemonVars

\* A request the engine takes, or refuses: then it has no step for it.
Serve(w, Op, value) ==
  \/ Op /\ Respond(w, value)
  \/ ~ENABLED Op /\ Refuse(w)

\* A replayed nonce is answered with the set it created, or refused for other targets.
Replays(nonce) == {i \in DOMAIN sets : nonce # 0 /\ sets[i].nonce = nonce}

HandleDrainRequest(w) ==
  LET f == threads[w].frame IN
  /\ Handles(w, {"drain-request"})
  /\ \/ /\ Replays(f.nonce) = {}
        /\ Serve(w, request_drain_set(f.targets, Authority(w), f.nonce), Len(sets) + 1)
     \/ \E i \in Replays(f.nonce) :
          IF sets[i].targets = f.targets /\ require_authority(Authority(w))
          THEN Respond(w, i) /\ UNCHANGED vars ELSE Refuse(w)

\* Cancelling a cancelled drain is answered ok and changes nothing.
HandleCancel(w) ==
  LET d == threads[w].frame.drain IN
  /\ Handles(w, {"cancel-request"})
  /\ IF d \notin DrainIds THEN Refuse(w)
     ELSE IF drains[d].state = "cancelled" /\ require_authority(Authority(w))
     THEN Respond(w, 0) /\ UNCHANGED vars
     ELSE Serve(w, cancel_drain(d, Authority(w)), 0)

\* restore_drain hands the reopened admission to the sink before it returns, so the
\* thread still owes the answer.
HandleRestore(w) ==
  LET d == threads[w].frame.drain IN
  /\ Handles(w, {"restore-request"})
  /\ IF d \notin DrainIds THEN Refuse(w)
     ELSE \/ /\ restore_drain(d, Authority(w))
             /\ threads' = [threads EXCEPT ![w].at = "dispatching", ![w].delivered = TRUE,
                              ![w].pushes = <<[type |-> "reopen", sequence |-> 0]>>]
             /\ UNCHANGED <<sessionVars, daemonVars, peers>>
          \/ /\ ~ENABLED restore_drain(d, Authority(w))
             /\ IF /\ require_authority(Authority(w))
                   /\ drains[d].state = "restoring" \/ is_restored(drains[d])
                THEN Respond(w, 0) /\ UNCHANGED vars ELSE Refuse(w)

HandleAdmit(w) ==
  LET f == threads[w].frame IN
  /\ Handles(w, {"obligation-admit"})
  /\ Serve(w, admit_obligation(f.dependencies, TRUE, f.generation, Authority(w)),
           obligation_high_water + 1)

HandleReport(w) ==
  LET f == threads[w].frame IN
  /\ Handles(w, {"obligation-report"})
  /\ Serve(w, report_obligation(f.obligation, f.drain, f.generation, f.expected_revision,
                                f.next, f.evidence), 0)

HandleEvidence(w) ==
  LET f == threads[w].frame IN
  /\ Handles(w, {"evidence-report"})
  /\ Serve(w, record_evidence(f.key, f.seq, f.generation, f.epoch, f.producer, f.observed_at),
           f.seq)

\* The requests that only read: always answered, but for the status of an unknown drain.
HandleQuery(w) ==
  /\ Handles(w, {"status-request", "explain-request", "obligation-query", "audit-request"})
  /\ IF /\ threads[w].frame.type = "status-request"
        /\ threads[w].frame.drain \notin DrainIds \cup {0}
     THEN Refuse(w)
     ELSE Respond(w, 0) /\ UNCHANGED vars

\* The answer goes out before the flag is set.
HandleShutdown(w) ==
  /\ Handles(w, {"shutdown"})
  /\ Answers(w, Response("shutdown-response", Sequence(w), 0))
  /\ UNCHANGED <<vars, connections, daemonVars>>

\* Slip: a frame nobody expects is dropped.
DropsOther(w) ==
  /\ Handles(w, {"evacuation-response", "admission-reopen-response", "admission-reopen"})
  /\ NextSession(w)
  /\ UNCHANGED <<vars, sessionVars, daemonVars, peers>>

\* Every other type, the acknowledgements of an agent among them.
HandleOther(w) ==
  /\ Handles(w, {"evacuation-response", "admission-reopen-response", "admission-reopen"})
  /\ Refuse(w)

\* The answer, then what service_connection does with a session that is over.
Reply(w) ==
  LET s == Serviced(w) IN
  /\ threads[w].at = "replying"
  /\ send_frame({s}, threads[w].frame)
  /\ connections' = [connections EXCEPT ![s].open = @ /\ ~(connections[s].closing /\ ~Locked(s))]
  /\ stopping' = (stopping \/ threads[w].frame.type = "shutdown-response")
  /\ NextSession(w)
  /\ UNCHANGED <<vars, registry, to_server, signalled, daemon, peers>>

------------------------------------------------------------------------------
(* The engine's advance, and the sink it calls once its lock is released.  *)

\* The numbers of S in their order: a set of one sequence.
Ascending(S) ==
  {f \in [1..Cardinality(S) -> S] : \A i, j \in DOMAIN f : i < j => f[i] < f[j]}

\* The evacuation requests the step of drain d has collected, one per obligation of ids.
Collected(d, ids) ==
  IF drains'[d].evacuation_requests = drains[d].evacuation_requests THEN <<>>
  ELSE [i \in DOMAIN ids |->
          WithSequence(EvacuationRequest(d, drains'[d], ids[i], evidence'), 0)]

Dispatch(pushes) == IF pushes = <<>> THEN "reap" ELSE "dispatching"

NothingToAdvance(w) ==
  /\ threads[w].at = "advance"
  /\ drain_high_water = 0
  /\ Goes(w, "reap")
  /\ UNCHANGED <<vars, sessionVars, daemonVars, peers>>

\* One drain's share of the pass; the thread keeps the lock until the last one.
AdvancePass(w) ==
  /\ threads[w].at = "advancing" \/ (threads[w].at = "advance" /\ LockFree)
  /\ advance
  /\ \E ids \in Ascending(still_moving(drains[turn].target)) :
       LET pushes == threads[w].pushes \o Collected(turn, ids)
       IN threads' = [threads EXCEPT ![w].pushes = pushes,
                        ![w].at = IF turn' = 1 THEN Dispatch(pushes) ELSE "advancing"]
  /\ UNCHANGED <<sessionVars, daemonVars, peers>>

\* The sessions one request goes to, as they are registered when it is pushed.
push_to_agents(w) ==
  /\ threads[w].at = "dispatching"
  /\ threads[w].pushes # <<>>
  /\ threads' = [threads EXCEPT ![w].at = "pushing", ![w].audience = registry,
                                ![w].delivered = FALSE]
  /\ UNCHANGED <<vars, sessionVars, daemonVars, peers>>

\* A greeted agent whose mutex is free gets the request; any other session is passed over.
PushNext(w) ==
  LET s == Head(threads[w].audience)
      reached == s \in Agents /\ connections[s].greeted /\ ~Locked(s)
  IN
  /\ threads[w].at = "pushing"
  /\ threads[w].audience # <<>>
  /\ send_frame(IF reached THEN {s} ELSE {}, Head(threads[w].pushes))
  /\ threads' = [threads EXCEPT ![w].audience = Tail(@),
                                ![w].delivered = @ \/ (reached /\ Delivers(s))]
  /\ UNCHANGED <<vars, connections, registry, to_server, daemonVars, peers>>

PushEnds(w) ==
  /\ threads[w].at = "pushing"
  /\ threads[w].audience = <<>>
  /\ threads' = [threads EXCEPT ![w].at = "dispatching", ![w].pushes = Tail(@)]
  /\ UNCHANGED <<vars, sessionVars, daemonVars, peers>>

\* The sink is done: advance() drops its status, a restoration is answered with it.
Dispatched(w) ==
  /\ threads[w].at = "dispatching"
  /\ threads[w].pushes = <<>>
  /\ IF threads[w].frame = NoFrame THEN Goes(w, "reap")
     ELSE threads' = [threads EXCEPT ![w].at = "replying",
                        ![w].frame = IF threads[w].delivered
                                     THEN Response("response", Sequence(w), 0)
                                     ELSE Failure(Sequence(w))]
  /\ UNCHANGED <<vars, sessionVars, daemonVars, peers>>

\* The sessions that are not over stay, in the order they have.
reap_connections(w) ==
  LET stay == {i \in DOMAIN registry :
                 connections[registry[i]].open /\ ~connections[registry[i]].closing}
  IN
  /\ threads[w].at = "reap"
  /\ \E f \in Ascending(stay) : registry' = [i \in DOMAIN f |-> registry[f[i]]]
  /\ threads' = [threads EXCEPT ![w] = IdleThread]
  /\ UNCHANGED <<vars, connections, to_server, to_peer, daemonVars, peers>>

------------------------------------------------------------------------------
(* drainfabricd.                                                           *)

\* SIGINT or SIGTERM.
Signal ==
  /\ ~signalled
  /\ signalled' = TRUE
  /\ UNCHANGED <<vars, sessionVars, threads, stopping, daemon, peers>>

\* The daemon waits for the signal, not for stopping_, and only then joins its workers.
stop_workers ==
  /\ Threaded
  /\ signalled
  /\ ~stopping
  /\ stopping' = TRUE
  /\ UNCHANGED <<vars, sessionVars, threads, signalled, daemon, peers>>

ThreadEnds(w) ==
  /\ threads[w].at = "accept"
  /\ ~Continues
  /\ Goes(w, "done")
  /\ UNCHANGED <<vars, sessionVars, daemonVars, peers>>

\* ControllerServer::stop closes every session, Runtime::stop revokes every token and
\* saves: see Recovery.
Terminate ==
  /\ daemon = "serving"
  /\ signalled
  /\ \A w \in Threads : threads[w].at = "done"
  /\ daemon' = "stopped"
  /\ stopping' = TRUE
  /\ connections' = [s \in Sessions |-> [connections[s] EXCEPT !.backlog = FALSE, !.open = FALSE,
                                           !.closing = TRUE]]
  /\ registry' = <<>>
  /\ tokens' = revoke_all(tokens)
  /\ UNCHANGED <<callVars, drains, requestVars, obligationVars, status, sent, fence, evidence,
                 incarnation, epoch, scope_generations, to_server, to_peer, threads, signalled,
                 peers>>

ServerStep(w) ==
  \/ AcceptTimesOut(w)
  \/ \E s \in Sessions : accept_one(w, s)
  \/ register_connection(w)
  \/ SkipSession(w)
  \/ LockSession(w)
  \/ ReceiveFrame(w)
  \/ ReceiveTimesOut(w)
  \/ ReceiveClosed(w)
  \/ HandleBeforeHello(w)
  \/ HandleHello(w)
  \/ HandleDrainRequest(w)
  \/ HandleCancel(w)
  \/ HandleRestore(w)
  \/ HandleAdmit(w)
  \/ HandleReport(w)
  \/ HandleEvidence(w)
  \/ HandleQuery(w)
  \/ HandleShutdown(w)
  \/ HandleOther(w)
  \/ Reply(w)
  \/ NothingToAdvance(w)
  \/ AdvancePass(w)
  \/ push_to_agents(w)
  \/ PushNext(w)
  \/ PushEnds(w)
  \/ Dispatched(w)
  \/ reap_connections(w)
  \/ ThreadEnds(w)
==============================================================================
