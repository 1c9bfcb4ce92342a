-------------------------------- MODULE Peers --------------------------------
(***************************************************************************)
(* The programs at the other end of the controller's sessions: WireClient  *)
(* (server.cpp), the node agent (agent.cpp, drainagent.cpp) and a client   *)
(* that asks for drains, and their composition with the controller.  A     *)
(* peer is one connection attempt: another attempt is another session.     *)
(***************************************************************************)
EXTENDS Controller

CONSTANTS Modes,          \* of an agent: release, --fail or --ignore
          Held,           \* how many obligations an agent registers
          Requests,       \* the frames a client may send, by call
          Leavers,        \* the peers that may give up or be killed
          Rude,           \* the clients that may not introduce themselves
          MaySignal       \* whether the daemon may be told to stop

\* What an operator's client asks for: admission, reports and evidence come from agents.
ClientRequest ==
  [type : {"drain-request"}, targets : SUBSET Targets, nonce : Nat]
  \cup [type : {"cancel-request", "restore-request", "status-request", "explain-request"},
        drain : Nat]
  \cup [type : {"obligation-query", "audit-request", "shutdown"}]

ASSUME PeersAssumption ==
  /\ Modes \subseteq {"release", "fail", "ignore"}
  /\ Held \in Nat
  /\ Leavers \subseteq Sessions
  /\ Rude \subseteq Sessions \ Agents
  /\ 1 \in DOMAIN Requests
  /\ \A n \in DOMAIN Requests : Requests[n] \subseteq ClientRequest
  /\ MaySignal \in BOOLEAN
  /\ Policy.evacuation_retry_interval = 0

\* `epoch' and `producer': the controller's line as it was told; `registered': the ids of its
\* obligations; `push': the evacuation it answers.
NewPeer(mode) ==
  [pc |-> "start", call |-> "none", sequence |-> 0, epoch |-> 0, producer |-> 0, mode |-> mode,
   left |-> Held, registered |-> {}, push |-> NoFrame]

PeersInit ==
  \E modes \in [Agents -> Modes] :
    peers = [s \in Sessions |-> NewPeer(IF s \in Agents THEN modes[s] ELSE "none")]

Gone == {"exited", "refused"}

\* WireClient::send of frame as the peer becomes p.
send(s, frame, p) ==
  /\ to_server' = IF Ended(s) THEN to_server
                  ELSE [to_server EXCEPT ![s] = Append(@, WithSequence(frame, p.sequence + 1))]
  /\ peers' = [peers EXCEPT ![s] = [p EXCEPT !.sequence = @ + 1]]
  /\ UNCHANGED <<vars, registry, threads, daemonVars>>

call(s, what, frame, p) ==
  send(s, frame, [p EXCEPT !.pc = "calling", !.call = what]) /\ UNCHANGED connections

\* The peer's next frame, taken off its stream.
Receives(s, pc) ==
  /\ peers[s].pc = pc
  /\ to_peer[s] # <<>>
  /\ to_peer' = [to_peer EXCEPT ![s] = Tail(@)]

Turns(s, p) ==
  /\ peers' = [peers EXCEPT ![s] = p]
  /\ UNCHANGED <<vars, connections, registry, to_server, threads, daemonVars>>

\* The process ends, and with it its end of the stream.
Exit(s, pc) ==
  /\ peers' = [peers EXCEPT ![s] = [NewPeer(@.mode) EXCEPT !.pc = pc]]
  /\ connections' = [connections EXCEPT ![s].hung_up = TRUE]
  /\ to_peer' = [to_peer EXCEPT ![s] = <<>>]
  /\ UNCHANGED <<vars, registry, to_server, threads, daemonVars>>

------------------------------------------------------------------------------
(* WireClient: the handshake and one outstanding call.                     *)

connect_to(s) ==
  /\ peers[s].pc = "start"
  /\ daemon = "serving"
  /\ connections' = [connections EXCEPT ![s].backlog = TRUE]
  /\ to_server' = [to_server EXCEPT ![s] = <<[type |-> "hello", sequence |-> 1]>>]
  /\ peers' = [peers EXCEPT ![s].pc = "greeting", ![s].sequence = 1]
  /\ UNCHANGED <<vars, registry, to_peer, threads, daemonVars>>

Welcomed(s) ==
  /\ Receives(s, "greeting")
  /\ Head(to_peer[s]).type = "welcome"
  /\ Turns(s, [peers[s] EXCEPT !.pc = IF s \in Agents THEN "registering" ELSE "ready",
                               !.epoch = Head(to_peer[s]).epoch,
                               !.producer = Head(to_peer[s]).incarnation])

\* A failure, or a push that overtook the welcome.
NotWelcomed(s) ==
  /\ peers[s].pc = "greeting"
  /\ to_peer[s] # <<>>
  /\ Head(to_peer[s]).type # "welcome"
  /\ Exit(s, "exited")

\* call() drops every frame that does not answer it, the pushes among them.
DropFrame(s) ==
  /\ Receives(s, "calling")
  /\ Head(to_peer[s]).sequence # peers[s].sequence
  /\ Turns(s, peers[s])

Answered(s, what) ==
  /\ peers[s].call = what
  /\ Receives(s, "calling")
  /\ Head(to_peer[s]).sequence = peers[s].sequence

Succeeds(s, what) == Answered(s, what) /\ Head(to_peer[s]).type # "failure"

\* The server closed the stream, and every frame before its end is read.
StreamEnds(s) ==
  /\ peers[s].pc \notin Gone \cup {"start"}
  /\ to_peer[s] = <<>>
  /\ Ended(s)
  /\ Exit(s, "exited")

\* A wait that ran out in a call or in the handshake, or a process that was killed.
Leave(s) ==
  /\ peers[s].pc \notin Gone \cup {"start"}
  /\ Exit(s, "exited")

------------------------------------------------------------------------------
(* AgentSession.                                                           *)

\* register_obligations: one admission after the other, presented at generation 0.
RegisterNext(s) ==
  /\ peers[s].pc = "registering"
  /\ peers[s].left > 0
  /\ call(s, "admit", [type |-> "obligation-admit", dependencies |-> Targets,
                       generation |-> 0], peers[s])
  /\ UNCHANGED to_peer

Registered(s) ==
  /\ Succeeds(s, "admit")
  /\ Turns(s, [peers[s] EXCEPT !.pc = "registering", !.left = @ - 1,
                               !.registered = @ \cup {Head(to_peer[s]).value}])

\* Then it announces itself, and does not look at the answer.
Announce(s) ==
  /\ peers[s].pc = "registering"
  /\ peers[s].left = 0
  /\ IF peers[s].registered = {} THEN Turns(s, [peers[s] EXCEPT !.pc = "polling"])
     ELSE call(s, "reopen", [type |-> "admission-reopen"], peers[s])
  /\ UNCHANGED to_peer

Announced(s) == Answered(s, "reopen") /\ Turns(s, [peers[s] EXCEPT !.pc = "polling"])

AnnouncementTimesOut(s) ==
  /\ peers[s].pc = "calling"
  /\ peers[s].call = "reopen"
  /\ Turns(s, [peers[s] EXCEPT !.pc = "polling"])
  /\ UNCHANGED to_peer

\* A refused admission, report or piece of evidence ends the agent.
CallRefused(s) ==
  /\ peers[s].pc = "calling"
  /\ peers[s].call \in {"admit", "evidence", "report"}
  /\ to_peer[s] # <<>>
  /\ Head(to_peer[s]) = Failure(peers[s].sequence)
  /\ Exit(s, "exited")

Acknowledge(s, p) ==
  send(s, [type |-> "evacuation-response"], [p EXCEPT !.pc = "polling", !.push = NoFrame])
    /\ UNCHANGED connections

ReportFrame(p, next, ev) ==
  [type |-> "obligation-report", obligation |-> p.obligation, drain |-> p.drain,
   generation |-> p.generation, expected_revision |-> p.expected_revision,
   next |-> next, evidence |-> ev]

\* The evidence draft of a release, under the number the controller reserved.
ReleaseFrame(p, peer) ==
  [type |-> "evidence-report", key |-> ReleaseKey(p.drain, p.obligation), seq |-> p.evidence_seq,
   generation |-> p.generation, epoch |-> peer.epoch, producer |-> peer.producer,
   observed_at |-> now]

\* Slip: the agent reports the reserved number and records no evidence under it.
ReportsUnproven(s) ==
  LET p == Head(to_peer[s]) IN
  /\ Receives(s, "polling")
  /\ p.type = "evacuate"
  /\ CASE peers[s].mode = "fail" ->
            call(s, "report", ReportFrame(p, "failed", 0), [peers[s] EXCEPT !.push = p])
       [] peers[s].mode = "ignore" -> Acknowledge(s, peers[s])
       [] OTHER ->
            call(s, "report", ReportFrame(p, "released", p.evidence_seq),
                 [peers[s] EXCEPT !.push = p])

\* handle_evacuation, in the mode the agent was started in; the number is never 0.
handle_evacuation(s) ==
  LET p == Head(to_peer[s]) IN
  /\ Receives(s, "polling")
  /\ p.type = "evacuate"
  /\ CASE peers[s].mode = "fail" ->
            call(s, "report", ReportFrame(p, "failed", 0), [peers[s] EXCEPT !.push = p])
       [] peers[s].mode = "ignore" -> Acknowledge(s, peers[s])
       [] OTHER ->
            call(s, "evidence", ReleaseFrame(p, peers[s]), [peers[s] EXCEPT !.push = p])

ReleaseProven(s) ==
  /\ Succeeds(s, "evidence")
  /\ call(s, "report", ReportFrame(peers[s].push, "released", Head(to_peer[s]).value), peers[s])

Reported(s) == Succeeds(s, "report") /\ Acknowledge(s, peers[s])

handle_admission_reopen(s) ==
  /\ Receives(s, "polling")
  /\ Head(to_peer[s]).type = "reopen"
  /\ send(s, [type |-> "admission-reopen-response"], peers[s])
  /\ UNCHANGED connections

PollIgnores(s) ==
  /\ Receives(s, "polling")
  /\ Head(to_peer[s]).type = "response"
  /\ Turns(s, peers[s])

\* poll_once returns an error on any failure frame, and drainagent's loop ends.
PollRefused(s) ==
  /\ peers[s].pc = "polling"
  /\ to_peer[s] # <<>>
  /\ Head(to_peer[s]).type = "failure"
  /\ Exit(s, "refused")

AgentStep(s) ==
  \/ RegisterNext(s)
  \/ Registered(s)
  \/ Announce(s)
  \/ Announced(s)
  \/ CallRefused(s)
  \/ handle_evacuation(s)
  \/ ReleaseProven(s)
  \/ Reported(s)
  \/ handle_admission_reopen(s)
  \/ PollIgnores(s)
  \/ PollRefused(s)

------------------------------------------------------------------------------
(* A client: some requests, one at a time.                                 *)

NextRequests(s) ==
  LET n == peers[s].sequence IN IF n \in DOMAIN Requests THEN Requests[n] ELSE {}

Ask(s, request) ==
  /\ peers[s].pc = "ready"
  /\ call(s, "request", request, peers[s])
  /\ UNCHANGED to_peer

Told(s) == Answered(s, "request") /\ Turns(s, [peers[s] EXCEPT !.pc = "ready"])

\* A client that does not introduce itself.
AskFirst(s, request) ==
  /\ peers[s].pc = "start"
  /\ daemon = "serving"
  /\ connections' = [connections EXCEPT ![s].backlog = TRUE]
  /\ to_server' = [to_server EXCEPT ![s] = <<WithSequence(request, 1)>>]
  /\ peers' = [peers EXCEPT ![s].pc = "calling", ![s].call = "request", ![s].sequence = 1]
  /\ UNCHANGED <<vars, registry, to_peer, threads, daemonVars>>

------------------------------------------------------------------------------
\* Both ends stopped.
Over ==
  /\ daemon = "stopped"
  /\ \A s \in Sessions : peers[s].pc \in Gone \cup {"start"}
  /\ UNCHANGED <<vars, controllerVars>>

\* What a peer does of its own accord once it runs.
PeerStep(s) ==
  \/ Welcomed(s)
  \/ NotWelcomed(s)
  \/ DropFrame(s)
  \/ StreamEnds(s)
  \/ Told(s)
  \/ s \in Agents /\ AgentStep(s)

FabricInit == Init /\ ServerInit /\ PeersInit

ClientNext ==
  \/ \E s \in Sessions \ Agents : \E request \in NextRequests(s) : Ask(s, request)
  \/ \E s \in Rude, request \in Requests[1] : AskFirst(s, request)

\* The clock stands still here (DrainEngine's own Next moves it), so a retry is due at once.
FabricNext ==
  \/ \E w \in Threads : ServerStep(w)
  \/ \E s \in Sessions : PeerStep(s)
  \/ \E s \in Sessions : connect_to(s)
  \/ \E s \in Leavers : Leave(s)
  \/ \E s \in Agents : AnnouncementTimesOut(s)
  \/ ClientNext
  \/ MaySignal /\ Signal
  \/ stop_workers
  \/ Terminate
  \/ Over

fabricVars == <<vars, controllerVars>>

\* Every thread and every process that runs is scheduled; nobody has to connect, ask,
\* give up or signal.
Fairness ==
  /\ \A w \in Threads :
       \/ []<>(threads[w].at = "done")
       \/ []<><<threads'[w] # threads[w]>>_threads
  /\ \A s \in Sessions : WF_fabricVars(PeerStep(s))
  /\ WF_fabricVars(stop_workers)
  /\ WF_fabricVars(Terminate)

FabricSpec == FabricInit /\ [][FabricNext]_fabricVars /\ Fairness

------------------------------------------------------------------------------
\* An obligation counts as released or retired only with release evidence that the ledger
\* took before (handle_evacuation, report_obligation), however requests are retried, broadcast
\* or dropped and handlers interleave: no report overtakes the evidence it names.
ReleasesAreOnRecord ==
  \A o \in ObligationIds :
    obligations[o].state \in {"released", "retired"}
      => \E d \in DrainIds :
           obligations[o].release_evidence \in 1..evidence.latest[ReleaseKey(d, o)]

Serving == ~signalled /\ ~stopping

Evacuates(d) == d \in DrainIds /\ drains[d].state = "evacuating"

\* A drain does not stay in Evacuating, even when pushes are skipped or dropped and agents
\* vanish: it moves on, or the retry budget blocks it (engine.cpp, step_drain).
EvacuationSettles ==
  \A d \in 1..Bounds.drains : Evacuates(d) ~> (~Evacuates(d) \/ ~Serving)

\* Every call of a peer comes to an end while the controller serves: it is answered, or
\* the peer sees its stream end (service_connection, handle_frame, reap_connections).
CallsReturn ==
  \A s \in Sessions : peers[s].pc = "calling" ~> (peers[s].pc # "calling" \/ ~Serving)

\* The limit is read and the session registered in two steps (poll_once), so each worker
\* but one may let in a session too many, and no more than that.
ConnectionsAreBounded == Len(registry) <= MaxConnections + Cardinality(Threads) - 1

\* A signal stops the daemon, whatever its threads were doing (drainfabricd.cpp, main).
SignalStops == signalled ~> daemon = "stopped"

------------------------------------------------------------------------------
(* Statements of the repository's text that the code does not keep.        *)

\* server.hpp: "the server writes an evacuation frame to the agent that owns it".
\* push_to_agents writes it to every agent it can reach, and handle_evacuation answers for
\* any obligation it is asked about.
OwnersAreAsked ==
  \A r, s \in Agents : \A i \in DOMAIN to_peer[s] :
    to_peer[s][i].type = "evacuate" /\ to_peer[s][i].obligation \in peers[r].registered => r = s

\* concurrency.md: "| connections / workers / pending work | `max_connections`, [...] |
\* `ControllerServer` |".  Two workers that both see room for one session register two.
ConnectionsAreLimited == Len(registry) <= MaxConnections

\* operations.md: "The daemon stops on `SIGINT`/`SIGTERM`, on a `Shutdown` frame".  The frame
\* sets a flag that the daemon's main loop never reads.
ShutdownStops == stopping ~> daemon = "stopped"
==============================================================================
