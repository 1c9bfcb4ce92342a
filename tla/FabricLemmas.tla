---------------------------- MODULE FabricLemmas ----------------------------
(***************************************************************************)
(* What the steps of the controller's threads and of their peers do to the *)
(* frames under way, for any number of threads, of sessions and of peers.  *)
(* A frame is followed from the peer that sends it to the thread that      *)
(* answers it and back.  ControllerProofs draws the theorems from these    *)
(* facts and from the engine's.                                            *)
(***************************************************************************)
EXTENDS Peers, DrainCalls, TLAPS

\* The fields of a thread's record.
ThreadFields == {"at", "todo", "frame", "pushes", "audience", "delivered"}

------------------------------------------------------------------------------
(* What the threads and the peers hold and exchange.                       *)

\* What a sequence holds is what its positions hold.
IsQueue(q) == q \in Seq(Range(q))

\* A thread has a session in hand wherever it services one, and a frame in hand only
\* between receive_frame and the answer.
ThreadOK(t) ==
  /\ DOMAIN t = ThreadFields
  /\ t.todo \in Seq(Sessions)
  /\ t.at \in {"accepted", "service", "receiving", "handling", "replying"} => t.todo # <<>>
  /\ t.at \in {"dispatching", "pushing"} /\ t.frame # NoFrame
       => t.todo # <<>> /\ t.frame.type = "restore-request"
  /\ t.at \notin {"handling", "replying", "dispatching", "pushing"} => t.frame = NoFrame
  /\ IsQueue(t.pushes)
  /\ t.at = "pushing" => t.pushes # <<>>

\* A thread that has still to answer the frame it received.
Owes(t) ==
  t.at = "handling" \/ (t.at \in {"dispatching", "pushing"} /\ t.frame # NoFrame)

\* The frames of session s that the server has still to answer, and those it answers with
\* or pushes and that the peer has still to read.
Inbound(s) ==
  Range(to_server[s])
    \cup {threads[w].frame : w \in {v \in Threads : Owes(threads[v]) /\ Serviced(v) = s}}

Outbound(s) ==
  Range(to_peer[s])
    \cup {threads[w].frame : w \in {v \in Threads : threads[v].at = "replying" /\ Serviced(v) = s}}

\* The fields of an evacuation request, as handle_evacuation reads them.
IsEvacuation(f) ==
  /\ f.drain \in DrainIds /\ f.obligation \in ObligationIds
  /\ f.generation \in Nat /\ f.evidence_seq \in Nat \ {0}

\* The fields of a request, as handle_frame passes them to the engine.
Asked(f) ==
  /\ f.type = "drain-request" => f.targets \in SUBSET Targets /\ f.nonce \in Nat
  /\ f.type = "obligation-admit" => f.dependencies \in SUBSET Targets /\ f.generation \in Nat
  /\ f.type = "obligation-report" =>
       f.obligation \in ObligationIds /\ f.next \in ObligationState /\ f.evidence \in Nat
  /\ f.type = "evidence-report" =>
       /\ f.key \in EvidenceKeys /\ f.seq \in Nat \ {0} /\ f.generation \in Nat
       /\ f.epoch \in Nat /\ f.producer \in Nat /\ f.observed_at \in Nat

\* A frame a peer reads: a push has sequence 0, an answer carries a number, and the welcome
\* the line.
Sent(f) ==
  /\ f.type = "evacuate" => IsEvacuation(f)
  /\ f.type # "failure" /\ f.sequence # 0 => f.value \in Nat
  /\ f.type = "welcome" => f.epoch \in Nat /\ f.incarnation \in Nat

Pushed(f) ==
  f.sequence = 0 /\ f.type # "welcome" /\ (f.type = "evacuate" => IsEvacuation(f))

PeerFields ==
  {"pc", "call", "sequence", "epoch", "producer", "mode", "left", "registered", "push"}

\* A peer that waits for the answer to the evidence of a release, and the stream of it.
Proves(p) == p.pc = "calling" /\ p.call = "evidence"

ProofKey(p) == ReleaseKey(p.push.drain, p.push.obligation)

PeerOK(p) ==
  /\ DOMAIN p = PeerFields
  /\ p.sequence \in Nat /\ p.epoch \in Nat /\ p.producer \in Nat
  /\ p.pc = "start" => p.sequence = 0
  /\ p.pc = "calling" => p.sequence # 0
  /\ Proves(p) => IsEvacuation(p.push)

\* The shape of everything the controller and its peers exchange.
FabricTypes ==
  /\ DOMAIN threads = Threads /\ \A w \in Threads : ThreadOK(threads[w])
  /\ \A w \in Threads : \A f \in Range(threads[w].pushes) : Pushed(f)
  /\ DOMAIN to_server = Sessions /\ DOMAIN to_peer = Sessions /\ DOMAIN peers = Sessions
  /\ \A s \in Sessions : IsQueue(to_server[s]) /\ IsQueue(to_peer[s]) /\ PeerOK(peers[s])
  /\ \A s \in Sessions : \A f \in Inbound(s) : Asked(f)
  /\ \A s \in Sessions : \A f \in Outbound(s) : Sent(f)

\* The ledger took release number n of obligation o, for some drain.
OnRecord(o, n) == \E d \in DrainIds : n \in 1..evidence.latest[ReleaseKey(d, o)]

\* A report says that the obligation failed, or names a release that is on record.
ReportOK(f) ==
  f.type = "obligation-report" =>
    f.next = "failed" \/ (f.next = "released" /\ OnRecord(f.obligation, f.evidence))

\* No frame of a peer that runs has a number the peer has not come to.
NumbersOK(s) ==
  peers[s].pc \notin Gone =>
    \A f \in Inbound(s) \cup Outbound(s) : f.sequence \in 0..peers[s].sequence

\* Under the number of the release it proves, a peer sent evidence of that stream and is
\* answered a number the stream has come to.
ProofOK(s) ==
  Proves(peers[s]) =>
    /\ \A f \in Inbound(s) : f.sequence = peers[s].sequence
         => f.type = "evidence-report" /\ f.key = ProofKey(peers[s])
    /\ \A f \in Outbound(s) : f.sequence = peers[s].sequence /\ f.type # "failure"
         => f.value \in 1..evidence.latest[ProofKey(peers[s])]

\* What an obligation names as its release is on record.
Backed(o) ==
  /\ obligations[o].state \in {"released", "retired"} => obligations[o].release_evidence # 0
  /\ obligations[o].release_evidence # 0 => OnRecord(o, obligations[o].release_evidence)

ReleaseInv ==
  /\ \A s \in Sessions : NumbersOK(s) /\ ProofOK(s) /\ \A f \in Inbound(s) : ReportOK(f)
  /\ \A o \in ObligationIds : Backed(o)

------------------------------------------------------------------------------
(* Queues and frames.                                                      *)

\* A sequence of elements of T is a queue of some of them.
LEMMA QueueOf ==
  ASSUME NEW T, NEW q \in Seq(T)
  PROVE  IsQueue(q) /\ Range(q) \subseteq T
  <1>1. q \in [1..Len(q) -> T] /\ Len(q) \in Nat
    OBVIOUS
  <1>2. Range(q) = {q[i] : i \in 1..Len(q)}
    BY <1>1, Zenon DEF Range
  <1>3. q \in [1..Len(q) -> Range(q)]
    BY <1>1, <1>2, Zenon
  <1>4. IsQueue(q)
    BY <1>1, <1>3 DEF IsQueue
  <1> QED BY <1>1, <1>2, <1>4, Zenon

\* A queue is a sequence of elements of any set that has what it holds.
LEMMA QueueIn ==
  ASSUME NEW T, NEW q, IsQueue(q), Range(q) \subseteq T
  PROVE  q \in Seq(T)
  <1>1. q \in [1..Len(q) -> Range(q)] /\ Len(q) \in Nat
    BY DEF IsQueue
  <1> QED BY <1>1

\* A queue that grows at its end.
LEMMA QueueAppend ==
  ASSUME NEW q, IsQueue(q), NEW f
  PROVE  IsQueue(Append(q, f)) /\ Range(Append(q, f)) \subseteq Range(q) \cup {f}
  <1> DEFINE T == Range(q) \cup {f}
  <1>1. q \in Seq(T) /\ f \in T
    BY QueueIn, Zenon
  <1> HIDE DEF T
  <1>2. Append(q, f) \in Seq(T)
    BY <1>1
  <1> QED BY <1>2, QueueOf, Zenon DEF T

\* A queue that is read from its front.
LEMMA QueueTail ==
  ASSUME NEW q, IsQueue(q), q # <<>>
  PROVE  Head(q) \in Range(q) /\ IsQueue(Tail(q)) /\ Range(Tail(q)) \subseteq Range(q)
  <1>1. q \in Seq(Range(q))
    BY Zenon DEF IsQueue
  <1>2. Head(q) \in Range(q) /\ Tail(q) \in Seq(Range(q))
    BY <1>1
  <1> QED BY <1>2, QueueOf, Zenon

\* The smallest queues.
LEMMA QueueSmall ==
  ASSUME NEW f
  PROVE  IsQueue(<<>>) /\ Range(<<>>) = {} /\ IsQueue(<<f>>) /\ Range(<<f>>) = {f}
  BY DEF IsQueue, Range

\* One queue after another.
LEMMA QueueJoin ==
  ASSUME NEW p, NEW q, IsQueue(p), IsQueue(q)
  PROVE  IsQueue(p \o q) /\ Range(p \o q) \subseteq Range(p) \cup Range(q)
  <1> DEFINE T == Range(p) \cup Range(q)
  <1>1. p \in Seq(T) /\ q \in Seq(T)
    BY QueueIn, Zenon
  <1> HIDE DEF T
  <1>2. p \o q \in Seq(T)
    BY <1>1
  <1> QED BY <1>2, QueueOf, Zenon DEF T

\* A frame that is numbered keeps its other fields.
LEMMA Numbered ==
  ASSUME NEW f, NEW n, "sequence" \notin DOMAIN f
  PROVE  /\ WithSequence(f, n).sequence = n
         /\ \A x \in DOMAIN f : WithSequence(f, n)[x] = f[x]
  BY Zenon DEF WithSequence

LEMMA TypeNumbered ==
  ASSUME NEW f, NEW n, "sequence" \notin DOMAIN f, "type" \in DOMAIN f
  PROVE  WithSequence(f, n).type = f.type
  BY Numbered, Zenon

\* The fields of a report that is numbered.
IsReport(f, q, next, ev) ==
  /\ f.type = "obligation-report" /\ f.next = next /\ f.evidence = ev
  /\ f.obligation = q.obligation

LEMMA ReportNumbered ==
  ASSUME NEW q, NEW next, NEW ev, NEW n
  PROVE  /\ IsReport(WithSequence(ReportFrame(q, next, ev), n), q, next, ev)
         /\ WithSequence(ReportFrame(q, next, ev), n).sequence = n
  <1> DEFINE frame == ReportFrame(q, next, ev)
             f == WithSequence(frame, n)
  <1>1. "sequence" \notin DOMAIN frame /\ {"type", "obligation", "next", "evidence"} \subseteq DOMAIN frame
    BY Zenon DEF ReportFrame
  <1>2. /\ frame.type = "obligation-report" /\ frame.next = next /\ frame.evidence = ev
        /\ frame.obligation = q.obligation
    BY Zenon DEF ReportFrame
  <1>3. f.sequence = n /\ \A x \in DOMAIN frame : f[x] = frame[x]
    BY <1>1, Numbered, Zenon
  <1> HIDE DEF frame, f
  <1>4. IsReport(f, q, next, ev) /\ f.sequence = n
    BY <1>1, <1>2, <1>3, Zenon DEF IsReport
  <1> QED BY <1>4, Zenon DEF frame, f

\* The number of the next frame.
LEMMA NextNumber ==
  ASSUME NEW n \in Nat
  PROVE  n + 1 \in Nat /\ n + 1 # 0 /\ n < n + 1 /\ n <= n + 1 /\ n <= n
  OBVIOUS

\* A thread between two passes owes nothing.
LEMMA IdleOK ==
  /\ ThreadOK(IdleThread) /\ ~Owes(IdleThread) /\ IdleThread.at # "replying"
  /\ Range(IdleThread.pushes) = {}
  <1>1. IsQueue(<<>>) /\ Range(<<>>) = {}
    BY QueueSmall, Zenon
  <1>2. <<>> \in Seq(Sessions)
    OBVIOUS
  <1> QED BY <1>1, <1>2, Zenon DEF ThreadOK, ThreadFields, IdleThread, Owes

\* An evacuation names evidence the ledger takes.
LEMMA ReleaseKeyTypes ==
  ASSUME TypeOK, NEW d \in DrainIds, NEW o \in ObligationIds
  PROVE  ReleaseKey(d, o) \in EvidenceKeys
  <1>1. drain_high_water \in 0..Bounds.drains /\ obligation_high_water \in 0..Bounds.obligations
    BY Zenon DEF TypeOK
  <1>2. Bounds.drains \in Nat /\ Bounds.obligations \in Nat
    BY EngineAssumption, Zenon DEF BoundsType
  <1>3. d \in 1..drain_high_water /\ o \in 1..obligation_high_water
    BY Zenon DEF DrainIds, ObligationIds
  <1>4. d \in 1..Bounds.drains /\ o \in 1..Bounds.obligations
    BY <1>1, <1>2, <1>3
  <1> QED BY <1>4, StreamsAssumption, Zenon DEF ReleaseKey

------------------------------------------------------------------------------
(* How a thread of the controller moves the frames.                        *)

\* A request is served by the call it asks for, and a refused one changes nothing.
LEMMA ServeMoves ==
  ASSUME NEW ACTION Op, NEW w, NEW v, Serve(w, Op, v)
  PROVE  (Op /\ Respond(w, v)) \/ Refuse(w)
  BY Zenon DEF Serve

\* The frame a thread has still to answer came from the session it services.
LEMMA HandledFrame ==
  ASSUME FabricTypes, NEW w \in Threads, Owes(threads[w])
  PROVE  /\ Serviced(w) \in Sessions
         /\ threads[w].frame \in Inbound(Serviced(w))
         /\ Asked(threads[w].frame)
  <1>1. threads[w].todo \in Seq(Sessions) /\ threads[w].todo # <<>>
    BY Zenon DEF FabricTypes, ThreadOK, Owes
  <1>2. Serviced(w) \in Sessions
    BY <1>1 DEF Serviced
  <1>3. threads[w].frame \in Inbound(Serviced(w))
    BY Zenon DEF Inbound
  <1> QED BY <1>2, <1>3, Zenon DEF FabricTypes

\* Frame g answers f once the engine was called.
IsAnswer(f, g) ==
  /\ g.sequence = f.sequence /\ g.type # "evacuate"
  /\ g.type # "failure" => g.value \in Nat
  /\ g.type = "welcome" => g.epoch \in Nat /\ g.incarnation \in Nat
  /\ f.type = "evidence-report" /\ g.type # "failure" => g.value \in 1..evidence'.latest[f.key]

\* Thread w takes a frame of the session it services, keeps it or answers it, and has
\* pushes to hand on; the other threads do nothing.
ThreadFlow(w) ==
  /\ DOMAIN threads' = Threads /\ ThreadOK(threads'[w])
  /\ \A v \in Threads \ {w} : threads'[v] = threads[v]
  /\ Owes(threads'[w]) => threads'[w].frame \in Inbound(Head(threads'[w].todo))
  /\ threads'[w].at = "replying" =>
       /\ Owes(threads[w]) /\ threads'[w].todo = threads[w].todo
       /\ IsAnswer(threads[w].frame, threads'[w].frame)
  /\ \A f \in Range(threads'[w].pushes) : f \in Range(threads[w].pushes) \/ Pushed(f)'

\* Of the frames under way, those to the server are at most read, and what is sent to a
\* peer is an answer in hand, a push or the failure of a full house.
FrameFlow(w) ==
  /\ DOMAIN to_server' = Sessions /\ DOMAIN to_peer' = Sessions
  /\ \A s \in Sessions :
       /\ IsQueue(to_server'[s]) /\ Range(to_server'[s]) \subseteq Range(to_server[s])
       /\ IsQueue(to_peer'[s])
       /\ \A f \in Range(to_peer'[s]) :
            f \in Outbound(s) \/ f = Failure(0) \/ f \in Range(threads[w].pushes)

ServerFlow(w) == ThreadFlow(w) /\ FrameFlow(w) /\ peers' = peers

\* A frame in hand is one of its session.
LEMMA InHand ==
  ASSUME NEW w \in Threads
  PROVE  /\ Owes(threads[w]) => threads[w].frame \in Inbound(Serviced(w))
         /\ threads[w].at = "replying" => threads[w].frame \in Outbound(Serviced(w))
         /\ \A s : Range(to_server[s]) \subseteq Inbound(s) /\ Range(to_peer[s]) \subseteq Outbound(s)
  BY Zenon DEF Inbound, Outbound

\* Frames that nobody touches.
LEMMA StillFrames ==
  ASSUME FabricTypes, NEW w \in Threads, UNCHANGED <<to_server, to_peer>>
  PROVE  FrameFlow(w)
  BY InHand, Zenon DEF FabricTypes, FrameFlow

\* A thread that turns to the sessions that are registered.
LEMMA SnapshotFlow ==
  ASSUME FabricTypes, NEW w \in Threads, threads[w].at \in {"accept", "accepted"}, Snapshot(w),
         registry' \in Seq(Sessions)
  PROVE  ThreadFlow(w)
  <1> DEFINE t == threads[w]
             u == threads'[w]
  <1>1. ThreadOK(t) /\ DOMAIN threads = Threads
    BY Zenon DEF FabricTypes
  <1>2. /\ DOMAIN threads' = Threads /\ \A v \in Threads \ {w} : threads'[v] = threads[v]
        /\ DOMAIN u = ThreadFields /\ u.todo = registry' /\ u.at = Stage(registry')
        /\ u.frame = t.frame /\ u.pushes = t.pushes
    BY <1>1, Zenon DEF Snapshot, ThreadOK, ThreadFields
  <1>3. ThreadOK(u) /\ ~Owes(u) /\ u.at # "replying"
    BY <1>1, <1>2, Zenon DEF ThreadOK, Owes, Stage
  <1> QED BY <1>2, <1>3, Zenon DEF ThreadFlow

\* A thread that is done with a session.
LEMMA NextFlow ==
  ASSUME FabricTypes, NEW w \in Threads, threads[w].at \in {"service", "receiving", "replying"},
         NextSession(w)
  PROVE  ThreadFlow(w)
  <1> DEFINE t == threads[w]
             u == threads'[w]
  <1>1. ThreadOK(t) /\ DOMAIN threads = Threads
    BY Zenon DEF FabricTypes
  <1>2. t.todo \in Seq(Sessions) /\ Tail(t.todo) \in Seq(Sessions)
    BY <1>1 DEF ThreadOK
  <1>3. /\ DOMAIN threads' = Threads /\ \A v \in Threads \ {w} : threads'[v] = threads[v]
        /\ DOMAIN u = ThreadFields /\ u.todo = Tail(t.todo) /\ u.at = Stage(Tail(t.todo))
        /\ u.frame = NoFrame /\ u.pushes = t.pushes
    BY <1>1, Zenon DEF NextSession, ThreadOK, ThreadFields
  <1>4. ThreadOK(u) /\ ~Owes(u) /\ u.at # "replying"
    BY <1>1, <1>2, <1>3, Zenon DEF ThreadOK, Owes, Stage
  <1> QED BY <1>3, <1>4, Zenon DEF ThreadFlow

\* A thread that goes on with nothing in hand.
LEMMA GoesFlow ==
  ASSUME FabricTypes, NEW w \in Threads, NEW at,
         \/ at \in {"reap", "done"} /\ threads[w].frame = NoFrame
         \/ at = "receiving" /\ threads[w].at = "service",
         Goes(w, at)
  PROVE  ThreadFlow(w)
  <1> DEFINE t == threads[w]
             u == threads'[w]
  <1>1. ThreadOK(t) /\ DOMAIN threads = Threads
    BY Zenon DEF FabricTypes
  <1>2. /\ DOMAIN threads' = Threads /\ \A v \in Threads \ {w} : threads'[v] = threads[v]
        /\ DOMAIN u = ThreadFields /\ u.todo = t.todo /\ u.at = at
        /\ u.frame = t.frame /\ u.pushes = t.pushes
    BY <1>1, Zenon DEF Goes, ThreadOK, ThreadFields
  <1>3. ThreadOK(u) /\ ~Owes(u) /\ u.at # "replying"
    BY <1>1, <1>2, Zenon DEF ThreadOK, Owes
  <1> QED BY <1>2, <1>3, Zenon DEF ThreadFlow

\* A thread that answers the frame in its hands.
LEMMA AnswerFlow ==
  ASSUME FabricTypes, NEW w \in Threads, Owes(threads[w]), NEW g, IsAnswer(threads[w].frame, g),
         threads' = [threads EXCEPT ![w].at = "replying", ![w].frame = g]
  PROVE  ThreadFlow(w)
  <1> DEFINE t == threads[w]
             u == threads'[w]
  <1>1. ThreadOK(t) /\ DOMAIN threads = Threads
    BY Zenon DEF FabricTypes
  <1>2. /\ DOMAIN threads' = Threads /\ \A v \in Threads \ {w} : threads'[v] = threads[v]
        /\ DOMAIN u = ThreadFields /\ u.todo = t.todo /\ u.at = "replying"
        /\ u.frame = g /\ u.pushes = t.pushes
    BY <1>1, Zenon DEF ThreadOK, ThreadFields
  <1>3. ThreadOK(u) /\ ~Owes(u)
    BY <1>1, <1>2, Zenon DEF ThreadOK, Owes
  <1> QED BY <1>2, <1>3, Zenon DEF ThreadFlow

\* A handler's answer, and nothing else, leaves the frames alone.
LEMMA AnswersFlow ==
  ASSUME FabricTypes, NEW w \in Threads, Owes(threads[w]), NEW g, IsAnswer(threads[w].frame, g),
         Answers(w, g)
  PROVE  ServerFlow(w)
  <1>1. /\ threads' = [threads EXCEPT ![w].at = "replying", ![w].frame = g]
        /\ UNCHANGED <<to_server, to_peer>> /\ peers' = peers
    BY Zenon DEF Answers
  <1> QED BY <1>1, AnswerFlow, StillFrames, Zenon DEF ServerFlow

\* A failure answers every frame.
LEMMA FailureAnswers ==
  ASSUME NEW w
  PROVE  IsAnswer(threads[w].frame, Failure(Sequence(w)))
  BY Zenon DEF IsAnswer, Failure, Sequence

\* A number answers every frame, and evidence if its stream has come to it.
LEMMA NumberAnswers ==
  ASSUME NEW w, NEW v \in Nat, NEW type \in {"response", "shutdown-response"},
         LET f == threads[w].frame
         IN f.type = "evidence-report" => v \in 1..evidence'.latest[f.key]
  PROVE  IsAnswer(threads[w].frame, Response(type, Sequence(w), v))
  BY Zenon DEF IsAnswer, Response, Sequence

\* The welcome names the line.
LEMMA WelcomeAnswers ==
  ASSUME TypeOK, NEW w, NEW n \in Nat, threads[w].frame.type = "hello"
  PROVE  IsAnswer(threads[w].frame, Welcome(Sequence(w), n))
  <1>1. epoch \in Nat /\ incarnation \in Nat
    BY DEF TypeOK, AuthorityTypeOK
  <1> QED BY <1>1, Zenon DEF IsAnswer, Welcome, Sequence

\* A request that is served, or refused.
LEMMA RespondFlow ==
  ASSUME FabricTypes, NEW w \in Threads, Owes(threads[w]), NEW v \in Nat,
         LET f == threads[w].frame
         IN f.type = "evidence-report" => v \in 1..evidence'.latest[f.key],
         Respond(w, v) \/ Refuse(w)
  PROVE  ServerFlow(w)
  <1>1. CASE Refuse(w)
    BY <1>1, FailureAnswers, AnswersFlow, Zenon DEF Refuse, AnswersOnly
  <1>2. CASE Respond(w, v)
    BY <1>2, NumberAnswers, AnswersFlow, Zenon DEF Respond, AnswersOnly
  <1> QED BY <1>1, <1>2, Zenon

\* record_evidence: the newest number of the stream is the one recorded.
LEMMA RecordedNumber ==
  ASSUME TypeOK, NEW k \in EvidenceKeys, NEW seq, NEW g, NEW ep, NEW p, NEW at,
         record_evidence(k, seq, g, ep, p, at)
  PROVE  evidence'.latest[k] = seq
  <1> DEFINE e == [key |-> k, seq |-> seq, generation |-> g, epoch |-> ep, producer |-> p,
                   observed_at |-> at, attested |-> FALSE]
  <1>1. e.key = k /\ e.seq = seq
    BY Zenon
  <1>2. evidence' = record(evidence, e)
    BY Zenon DEF record_evidence
  <1>3. evidence'.latest = [evidence.latest EXCEPT ![k] = seq]
    BY <1>1, <1>2, Zenon DEF record
  <1>4. k \in DOMAIN evidence.latest
    BY Zenon DEF TypeOK, Ledger
  <1> QED BY <1>3, <1>4, Zenon

\* Every handler answers the frame it handles; a restoration goes to the sink first.
LEMMA HandlerFlow ==
  ASSUME FabricTypes, TypeOK, TypeOK', NEW w \in Threads,
         \/ HandleBeforeHello(w) \/ HandleHello(w) \/ HandleDrainRequest(w) \/ HandleCancel(w)
         \/ HandleRestore(w) \/ HandleAdmit(w) \/ HandleReport(w) \/ HandleEvidence(w)
         \/ HandleQuery(w) \/ HandleShutdown(w) \/ HandleOther(w)
  PROVE  ServerFlow(w)
  <1> DEFINE f == threads[w].frame
             Other == f.type # "evidence-report"
  <1>1. threads[w].at = "handling" /\ Owes(threads[w])
    BY Zenon DEF HandleBeforeHello, HandleHello, HandleDrainRequest, HandleCancel, HandleRestore,
       HandleAdmit, HandleReport, HandleEvidence, HandleQuery, HandleShutdown, HandleOther, Handles,
       Handling, Owes
  <1>2. ASSUME Other, NEW v \in Nat, Respond(w, v) \/ Refuse(w) PROVE ServerFlow(w)
    BY <1>1, <1>2, RespondFlow, Zenon
  <1>3. Refuse(w) => ServerFlow(w)
    BY <1>1, FailureAnswers, AnswersFlow, Zenon DEF Refuse, AnswersOnly
  <1>4. Asked(f)
    BY <1>1, HandledFrame, Zenon
  <1>5. CASE HandleBeforeHello(w) \/ HandleOther(w)
    BY <1>1, <1>3, <1>5, FailureAnswers, AnswersFlow, Zenon
       DEF HandleBeforeHello, RefuseAndClose, HandleOther
  <1>6. CASE HandleHello(w)
    <2>1. f.type = "hello" /\ Answers(w, Welcome(Sequence(w), Len(tokens')))
      BY <1>6, Zenon DEF HandleHello, Handling
    <2>2. Len(tokens') \in Nat
      BY DEF TypeOK, AuthorityTypeOK
    <2> QED BY <1>1, <2>1, <2>2, WelcomeAnswers, AnswersFlow, Zenon
  <1>7. CASE HandleShutdown(w)
    <2>1. Other /\ Answers(w, Response("shutdown-response", Sequence(w), 0))
      BY <1>7, Zenon DEF HandleShutdown, Handles, Handling
    <2> QED BY <1>1, <2>1, NumberAnswers, AnswersFlow, Zenon
  <1>8. CASE HandleQuery(w)
    <2>1. Other /\ (Respond(w, 0) \/ Refuse(w))
      BY <1>8, Zenon DEF HandleQuery, Handles, Handling
    <2> QED BY <1>2, <2>1, Zenon
  <1>9. CASE HandleDrainRequest(w)
    <2> DEFINE Op == request_drain_set(f.targets, Authority(w), f.nonce)
    <2>1. Other
      BY <1>9, Zenon DEF HandleDrainRequest, Handles, Handling
    <2>2. Len(sets) + 1 \in Nat /\ DOMAIN sets \subseteq Nat
      BY DEF TypeOK
    <2>3. \/ Serve(w, Op, Len(sets) + 1)
          \/ \E i \in DOMAIN sets : Respond(w, i) \/ Refuse(w)
      BY <1>9, Zenon DEF HandleDrainRequest, Replays
    <2> HIDE DEF Op
    <2>4. CASE Serve(w, Op, Len(sets) + 1)
      <3>1. Respond(w, Len(sets) + 1) \/ Refuse(w)
        BY <2>4, ServeMoves, Zenon
      <3> QED BY <1>2, <2>1, <2>2, <3>1, Zenon
    <2> QED BY <1>2, <2>1, <2>2, <2>3, <2>4, Zenon
  <1>10. CASE HandleCancel(w)
    <2> DEFINE Op == cancel_drain(f.drain, Authority(w))
    <2>1. Other
      BY <1>10, Zenon DEF HandleCancel, Handles, Handling
    <2>2. Serve(w, Op, 0) \/ Respond(w, 0) \/ Refuse(w)
      BY <1>10, Zenon DEF HandleCancel
    <2> HIDE DEF Op
    <2>3. Respond(w, 0) \/ Refuse(w)
      BY <2>2, ServeMoves, Zenon
    <2> QED BY <1>2, <2>1, <2>3, Zenon
  <1>11. CASE HandleReport(w)
    <2> DEFINE Op == report_obligation(f.obligation, f.drain, f.generation, f.expected_revision,
                                       f.next, f.evidence)
    <2>1. Other
      BY <1>11, Zenon DEF HandleReport, Handles, Handling
    <2>2. Serve(w, Op, 0)
      BY <1>11, Zenon DEF HandleReport
    <2> HIDE DEF Op
    <2>3. Respond(w, 0) \/ Refuse(w)
      BY <2>2, ServeMoves, Zenon
    <2> QED BY <1>2, <2>1, <2>3, Zenon
  <1>12. CASE HandleEvidence(w)
    <2> DEFINE Op == record_evidence(f.key, f.seq, f.generation, f.epoch, f.producer, f.observed_at)
    <2>1. f.type = "evidence-report" /\ f.key \in EvidenceKeys /\ f.seq \in Nat \ {0}
      BY <1>4, <1>12, Zenon DEF HandleEvidence, Handles, Handling, Asked
    <2>2. Serve(w, Op, f.seq)
      BY <1>12, Zenon DEF HandleEvidence
    <2>3. Op => evidence'.latest[f.key] = f.seq
      BY <2>1, RecordedNumber, Zenon
    <2> HIDE DEF Op
    <2>4. (Op /\ Respond(w, f.seq)) \/ Refuse(w)
      BY <2>2, ServeMoves, Zenon
    <2>5. Op => f.seq \in 1..evidence'.latest[f.key]
      <3>1. f.seq \in 1..f.seq
        BY <2>1
      <3> QED BY <2>3, <3>1, Zenon
    <2>6. CASE Op /\ Respond(w, f.seq)
      BY <1>1, <2>1, <2>5, <2>6, RespondFlow, Zenon
    <2> QED BY <1>3, <2>4, <2>6, Zenon
  <1>13. CASE HandleAdmit(w)
    <2> DEFINE Op == admit_obligation(f.dependencies, TRUE, f.generation, Authority(w))
               n == obligation_high_water + 1
    <2>1. Other
      BY <1>13, Zenon DEF HandleAdmit, Handles, Handling
    <2>2. Serve(w, Op, n)
      BY <1>13, Zenon DEF HandleAdmit
    <2>3. n \in Nat
      BY DEF TypeOK
    <2> HIDE DEF Op, n
    <2>4. Respond(w, n) \/ Refuse(w)
      BY <2>2, ServeMoves, Zenon
    <2> QED BY <1>2, <2>1, <2>3, <2>4, Zenon
  <1>14. CASE HandleRestore(w)
    <2>1. f.type = "restore-request" /\ f # NoFrame
      BY <1>14 DEF HandleRestore, Handles, Handling, NoFrame
    <2>2. \/ Respond(w, 0) \/ Refuse(w)
          \/ /\ threads' = [threads EXCEPT ![w].at = "dispatching", ![w].delivered = TRUE,
                              ![w].pushes = <<[type |-> "reopen", sequence |-> 0]>>]
             /\ UNCHANGED <<sessionVars, peers>>
      BY <1>14, Zenon DEF HandleRestore
    <2>3. CASE /\ threads' = [threads EXCEPT ![w].at = "dispatching", ![w].delivered = TRUE,
                                ![w].pushes = <<[type |-> "reopen", sequence |-> 0]>>]
               /\ UNCHANGED <<sessionVars, peers>>
      <3> DEFINE r == [type |-> "reopen", sequence |-> 0]
                 u == threads'[w]
      <3>1. ThreadOK(threads[w]) /\ DOMAIN threads = Threads
        BY Zenon DEF FabricTypes
      <3>2. /\ DOMAIN threads' = Threads /\ \A v \in Threads \ {w} : threads'[v] = threads[v]
            /\ DOMAIN u = ThreadFields /\ u.todo = threads[w].todo /\ u.at = "dispatching"
            /\ u.frame = f /\ u.pushes = <<r>>
        BY <2>3, <3>1, Zenon DEF ThreadOK, ThreadFields
      <3>3. IsQueue(<<r>>) /\ Range(<<r>>) = {r} /\ Pushed(r)'
        BY QueueSmall, Zenon DEF Pushed
      <3> HIDE DEF r
      <3>4. ThreadOK(u) /\ u.at # "replying"
        BY <1>1, <2>1, <3>1, <3>2, <3>3, Zenon DEF ThreadOK
      <3>5. u.frame \in Inbound(Head(u.todo))
        BY <1>1, <3>2, HandledFrame, Zenon DEF Serviced
      <3>6. ThreadFlow(w)
        BY <3>2, <3>3, <3>4, <3>5, Zenon DEF ThreadFlow
      <3> QED BY <2>3, <3>6, StillFrames, Zenon DEF ServerFlow, sessionVars
    <2> QED BY <1>2, <2>1, <2>2, <2>3, SMTT(30)
  <1> QED BY <1>5, <1>6, <1>7, <1>8, <1>9, <1>10, <1>11, <1>12, <1>13, <1>14, Zenon

\* What send_frame does to the frames under way.
LEMMA SendFlow ==
  ASSUME FabricTypes, NEW w \in Threads, NEW S, NEW g, send_frame(S, g), to_server' = to_server,
         \A s \in S \cap Sessions : g \in Outbound(s) \/ g \in Range(threads[w].pushes)
  PROVE  FrameFlow(w)
  <1>1. DOMAIN to_peer' = Sessions /\ DOMAIN to_server' = Sessions
    BY Zenon DEF send_frame, FabricTypes
  <1>2. ASSUME NEW s \in Sessions
        PROVE  /\ IsQueue(to_peer'[s])
               /\ \A f \in Range(to_peer'[s]) : f \in Outbound(s) \/ f \in Range(threads[w].pushes)
    <2>1. IsQueue(to_peer[s]) /\ Range(to_peer[s]) \subseteq Outbound(s)
      BY InHand, Zenon DEF FabricTypes
    <2>2. CASE to_peer'[s] = to_peer[s]
      BY <2>1, <2>2, Zenon
    <2>3. CASE s \in S /\ to_peer'[s] = Append(to_peer[s], g)
      BY <2>1, <2>3, QueueAppend
    <2>4. to_peer'[s] = to_peer[s] \/ (s \in S /\ to_peer'[s] = Append(to_peer[s], g))
      BY Zenon DEF send_frame
    <2> QED BY <2>2, <2>3, <2>4, Zenon
  <1> QED BY <1>1, <1>2, Zenon DEF FrameFlow, FabricTypes

\* A refused session is sent the failure of a full house, and an accepted one nothing yet.
LEMMA AcceptFlow ==
  ASSUME FabricTypes, registry \in Seq(Sessions), NEW w \in Threads, NEW s \in Sessions,
         accept_one(w, s)
  PROVE  ServerFlow(w)
  <1>1. threads[w].at = "accept" /\ UNCHANGED <<to_server, registry>> /\ peers' = peers
    BY Zenon DEF accept_one
  <1>2. CASE Snapshot(w) /\ to_peer' = [to_peer EXCEPT ![s] = Append(@, Failure(0))]
    <2>1. ThreadFlow(w)
      BY <1>1, <1>2, SnapshotFlow, Zenon
    <2>2. ASSUME NEW r \in Sessions
          PROVE  /\ IsQueue(to_peer'[r])
                 /\ \A f \in Range(to_peer'[r]) : f \in Outbound(r) \/ f = Failure(0)
      <3>1. IsQueue(to_peer[r]) /\ Range(to_peer[r]) \subseteq Outbound(r)
        BY InHand, Zenon DEF FabricTypes
      <3>2. to_peer'[r] = to_peer[r] \/ to_peer'[r] = Append(to_peer[r], Failure(0))
        BY <1>2, Zenon DEF FabricTypes
      <3>3. CASE to_peer'[r] = to_peer[r]
        BY <3>1, <3>3, Zenon
      <3>4. CASE to_peer'[r] = Append(to_peer[r], Failure(0))
        BY <3>1, <3>4, QueueAppend
      <3> QED BY <3>2, <3>3, <3>4, Zenon
    <2>3. DOMAIN to_peer' = Sessions
      BY <1>2, Zenon DEF FabricTypes
    <2>4. FrameFlow(w)
      BY <1>1, <2>2, <2>3, Zenon DEF FrameFlow, FabricTypes
    <2> QED BY <1>1, <2>1, <2>4, Zenon DEF ServerFlow
  <1>3. CASE threads' = [threads EXCEPT ![w].at = "accepted", ![w].todo = <<s>>] /\ to_peer' = to_peer
    <2> DEFINE t == threads[w]
               u == threads'[w]
    <2>1. ThreadOK(t) /\ DOMAIN threads = Threads
      BY Zenon DEF FabricTypes
    <2>2. <<s>> \in Seq(Sessions) /\ <<s>> # <<>>
      OBVIOUS
    <2>3. /\ DOMAIN threads' = Threads /\ \A v \in Threads \ {w} : threads'[v] = threads[v]
          /\ DOMAIN u = ThreadFields /\ u.todo = <<s>> /\ u.at = "accepted"
          /\ u.frame = t.frame /\ u.pushes = t.pushes
      BY <1>3, <2>1, Zenon DEF ThreadOK, ThreadFields
    <2>4. ThreadOK(u) /\ ~Owes(u) /\ u.at # "replying"
      BY <1>1, <2>1, <2>2, <2>3, Zenon DEF ThreadOK, Owes
    <2>5. ThreadFlow(w)
      BY <2>3, <2>4, Zenon DEF ThreadFlow
    <2> QED BY <1>1, <1>3, <2>5, StillFrames, Zenon DEF ServerFlow
  <1> QED BY <1>2, <1>3, Zenon DEF accept_one

\* A thread that receives a frame has it in hand.
LEMMA ReceiveFlow ==
  ASSUME FabricTypes, NEW w \in Threads, ReceiveFrame(w)
  PROVE  ServerFlow(w)
  <1> DEFINE t == threads[w]
             u == threads'[w]
             s == Serviced(w)
             q == to_server[s]
  <1>1. ThreadOK(t) /\ DOMAIN threads = Threads
    BY Zenon DEF FabricTypes
  <1>2. t.at = "receiving" /\ q # <<>> /\ UNCHANGED to_peer /\ peers' = peers
    BY Zenon DEF ReceiveFrame
  <1>3. s \in Sessions
    BY <1>1, <1>2 DEF ThreadOK, Serviced
  <1>4. Head(q) \in Range(q) /\ IsQueue(Tail(q)) /\ Range(Tail(q)) \subseteq Range(q)
    BY <1>2, <1>3, QueueTail, Zenon DEF FabricTypes
  <1>5. to_server' = [to_server EXCEPT ![s] = Tail(q)]
    BY Zenon DEF ReceiveFrame
  <1>6. /\ DOMAIN threads' = Threads /\ \A v \in Threads \ {w} : threads'[v] = threads[v]
        /\ DOMAIN u = ThreadFields /\ u.todo = t.todo /\ u.at = "handling"
        /\ u.frame = Head(q) /\ u.pushes = t.pushes
    BY <1>1, Zenon DEF ReceiveFrame, ThreadOK, ThreadFields
  <1>7. ThreadOK(u)
    BY <1>1, <1>2, <1>6, Zenon DEF ThreadOK
  <1>8. u.frame \in Inbound(Head(u.todo))
    BY <1>4, <1>6, InHand, Zenon DEF Serviced
  <1>9. ThreadFlow(w)
    BY <1>6, <1>7, <1>8, Zenon DEF ThreadFlow
  <1> HIDE DEF q, s, u, t
  <1>10. FrameFlow(w)
    <2>1. /\ DOMAIN to_server' = Sessions
          /\ \A r \in Sessions : /\ IsQueue(to_server'[r])
                                 /\ Range(to_server'[r]) \subseteq Range(to_server[r])
      BY <1>3, <1>4, <1>5, Zenon DEF FabricTypes, q
    <2> QED BY <1>2, <2>1, InHand, Zenon DEF FrameFlow, FabricTypes
  <1> QED BY <1>2, <1>9, <1>10, Zenon DEF ServerFlow

\* The evacuation requests a pass collects are well-formed pushes.
LEMMA CollectedArePushes ==
  ASSUME TypeOK, TypeOK', DrainIds \subseteq DrainIds', ObligationIds \subseteq ObligationIds',
         NEW d \in DrainIds, NEW M \in SUBSET ObligationIds, Cardinality(M) \in Nat,
         NEW ids \in Ascending(M)
  PROVE  IsQueue(Collected(d, ids)) /\ \A f \in Range(Collected(d, ids)) : Pushed(f)'
  <1> DEFINE n == Cardinality(M)
             q == Collected(d, ids)
             e(i) == EvacuationRequest(d, drains'[d], ids[i], evidence')
  <1>1. n \in Nat
    BY Zenon
  <1>2. ids \in [1..n -> M] /\ DOMAIN ids = 1..n
    BY Zenon DEF Ascending
  <1> HIDE DEF n
  <1>3. ASSUME NEW i \in 1..n, NEW f, f = WithSequence(e(i), 0)
        PROVE  Pushed(f)'
    <2>1. ids[i] \in ObligationIds /\ drains'[d] \in DrainRecord /\ evidence' \in Ledger
      BY <1>2, Zenon DEF TypeOK
    <2>2. high_water(evidence', ReleaseKey(d, ids[i])) + 1 \in Nat \ {0}
      BY <2>1, ReleaseKeyTypes DEF high_water, Ledger
    <2>3. /\ e(i).type = "evacuate" /\ e(i).drain = d /\ e(i).obligation = ids[i]
          /\ DOMAIN e(i) = {"type", "drain", "obligation", "generation", "expected_revision",
                            "evidence_seq"}
      BY Zenon DEF EvacuationRequest
    <2>4. e(i).generation \in Nat /\ e(i).evidence_seq \in Nat \ {0}
      BY <2>1, <2>2, Zenon DEF EvacuationRequest, DrainRecord
    <2> HIDE DEF e
    <2>5. "sequence" \notin DOMAIN e(i)
      BY <2>3, Zenon
    <2>6. f.sequence = 0 /\ \A x \in DOMAIN e(i) : f[x] = e(i)[x]
      BY <1>3, <2>5, Numbered
    <2>7. /\ f.drain = d /\ f.obligation = ids[i] /\ f.type = "evacuate"
          /\ f.generation \in Nat /\ f.evidence_seq \in Nat \ {0}
      BY <2>3, <2>4, <2>6, Zenon
    <2> QED BY <2>1, <2>6, <2>7, Zenon DEF Pushed, IsEvacuation
  <1>4. CASE q = <<>>
    BY <1>4, QueueSmall, Zenon
  <1>5. CASE q = [i \in 1..n |-> WithSequence(e(i), 0)]
    <2> DEFINE T == {WithSequence(e(i), 0) : i \in 1..n}
    <2>1. \A f \in T : Pushed(f)'
      BY <1>3, Zenon
    <2>2. q \in [1..n -> T]
      BY <1>5, Zenon
    <2> HIDE DEF q, T
    <2>3. q \in Seq(T)
      BY <1>1, <2>2
    <2>4. IsQueue(q) /\ Range(q) \subseteq T
      BY <2>3, QueueOf, Zenon
    <2> QED BY <2>1, <2>4, Zenon DEF q
  <1>6. q = <<>> \/ q = [i \in 1..n |-> WithSequence(e(i), 0)]
    BY <1>2, Zenon DEF Collected
  <1> QED BY <1>4, <1>5, <1>6, Zenon

\* One drain's share of a pass: the thread has nothing in hand but pushes.
LEMMA AdvanceFlow ==
  ASSUME FabricTypes, TypeOK, TypeOK', DrainIds \subseteq DrainIds',
         ObligationIds \subseteq ObligationIds',
         \A M \in SUBSET ObligationIds : Cardinality(M) \in Nat,
         NEW w \in Threads, AdvancePass(w)
  PROVE  ServerFlow(w)
  <1> DEFINE t == threads[w]
             u == threads'[w]
             M == still_moving(drains[turn].target)
  <1>1. ThreadOK(t) /\ DOMAIN threads = Threads
    BY Zenon DEF FabricTypes
  <1>2. turn \in DrainIds /\ M \in SUBSET ObligationIds
    <2>1. drain_high_water > 0
      BY Zenon DEF AdvancePass, advance
    <2>2. turn \in DrainIds
      BY <2>1, EngineAssumption DEF TypeOK, DrainIds, BoundsType
    <2> QED BY <2>2, Zenon DEF still_moving, outstanding_for
  <1>3. /\ t.at \in {"advance", "advancing"} /\ UNCHANGED <<to_server, to_peer>> /\ peers' = peers
    BY Zenon DEF AdvancePass, sessionVars
  <1> HIDE DEF M
  <1>4. PICK ids \in Ascending(M) :
          threads' = [threads EXCEPT ![w].pushes = t.pushes \o Collected(turn, ids),
                        ![w].at = IF turn' = 1 THEN Dispatch(t.pushes \o Collected(turn, ids))
                                  ELSE "advancing"]
    BY Zenon DEF AdvancePass, M
  <1> DEFINE q == t.pushes \o Collected(turn, ids)
  <1>5. /\ DOMAIN threads' = Threads /\ \A v \in Threads \ {w} : threads'[v] = threads[v]
        /\ DOMAIN u = ThreadFields /\ u.todo = t.todo
        /\ u.at = (IF turn' = 1 THEN Dispatch(q) ELSE "advancing")
        /\ u.frame = t.frame /\ u.pushes = q
    BY <1>1, <1>4, Zenon DEF ThreadOK, ThreadFields
  <1>6. IsQueue(q) /\ \A f \in Range(q) : f \in Range(t.pushes) \/ Pushed(f)'
    <2>1. IsQueue(Collected(turn, ids)) /\ \A f \in Range(Collected(turn, ids)) : Pushed(f)'
      BY <1>2, CollectedArePushes, Zenon
    <2>2. IsQueue(t.pushes)
      BY <1>1, Zenon DEF ThreadOK
    <2> QED BY <2>1, <2>2, QueueJoin, Zenon
  <1> HIDE DEF q
  <1>7. u.at \in {"reap", "dispatching", "advancing"} /\ u.frame = NoFrame
    BY <1>1, <1>3, <1>5, Zenon DEF Dispatch, ThreadOK
  <1>8. ThreadOK(u) /\ ~Owes(u) /\ u.at # "replying"
    BY <1>1, <1>5, <1>6, <1>7, Zenon DEF ThreadOK, Owes
  <1>9. ThreadFlow(w)
    BY <1>5, <1>6, <1>8, Zenon DEF ThreadFlow
  <1> QED BY <1>3, <1>9, StillFrames, Zenon DEF ServerFlow

\* A thread in the sink has the frame of a restoration still in hand.
LEMMA SinkFlow ==
  ASSUME FabricTypes, NEW w \in Threads, threads[w].at \in {"dispatching", "pushing"},
         DOMAIN threads' = Threads, \A v \in Threads \ {w} : threads'[v] = threads[v],
         DOMAIN threads'[w] = ThreadFields, threads'[w].at \in {"dispatching", "pushing"},
         threads'[w].todo = threads[w].todo, threads'[w].frame = threads[w].frame,
         IsQueue(threads'[w].pushes), Range(threads'[w].pushes) \subseteq Range(threads[w].pushes),
         threads'[w].at = "pushing" => threads'[w].pushes # <<>>
  PROVE  ThreadFlow(w)
  <1>1. ThreadOK(threads[w])
    BY Zenon DEF FabricTypes
  <1>2. ThreadOK(threads'[w]) /\ threads'[w].at # "replying"
    BY <1>1, Zenon DEF ThreadOK
  <1>3. Owes(threads'[w]) => threads'[w].frame \in Inbound(Head(threads'[w].todo))
    BY InHand, Zenon DEF Owes, Serviced
  <1> QED BY <1>2, <1>3, Zenon DEF ThreadFlow

\* The sink takes up one push after the other and hands it to one session after the other.
LEMMA PushFlow ==
  ASSUME FabricTypes, NEW w \in Threads, push_to_agents(w) \/ PushNext(w) \/ PushEnds(w)
  PROVE  ServerFlow(w)
  <1> DEFINE t == threads[w]
             u == threads'[w]
             q == t.pushes
  <1>1. /\ DOMAIN threads = Threads /\ DOMAIN t = ThreadFields /\ IsQueue(q)
        /\ t.at = "pushing" => q # <<>>
    BY Zenon DEF FabricTypes, ThreadOK
  <1>2. /\ t.at \in {"dispatching", "pushing"} /\ q # <<>> /\ to_server' = to_server
        /\ peers' = peers
    BY <1>1, Zenon DEF push_to_agents, PushNext, PushEnds, sessionVars
  <1>3. Head(q) \in Range(q) /\ IsQueue(Tail(q)) /\ Range(Tail(q)) \subseteq Range(q)
    BY <1>1, <1>2, QueueTail, Zenon
  <1>4. CASE push_to_agents(w)
    <2>1. /\ DOMAIN threads' = Threads /\ \A v \in Threads \ {w} : threads'[v] = threads[v]
          /\ DOMAIN u = ThreadFields /\ u.todo = t.todo /\ u.at = "pushing"
          /\ u.frame = t.frame /\ u.pushes = q
      BY <1>1, <1>4, Zenon DEF push_to_agents, ThreadFields
    <2>2. to_peer' = to_peer
      BY <1>4, Zenon DEF push_to_agents, sessionVars
    <2>3. ThreadFlow(w)
      BY <1>1, <1>2, <2>1, SinkFlow, Zenon
    <2> QED BY <1>2, <2>2, <2>3, StillFrames, Zenon DEF ServerFlow
  <1>5. CASE PushNext(w)
    <2>1. /\ DOMAIN threads' = Threads /\ \A v \in Threads \ {w} : threads'[v] = threads[v]
          /\ DOMAIN u = ThreadFields /\ u.todo = t.todo /\ u.at = "pushing"
          /\ u.frame = t.frame /\ u.pushes = q
      BY <1>1, <1>5, Zenon DEF PushNext, ThreadFields
    <2>2. \E S : send_frame(S, Head(q))
      BY <1>5, Zenon DEF PushNext
    <2>3. ThreadFlow(w)
      BY <1>1, <1>2, <2>1, SinkFlow, Zenon
    <2>4. FrameFlow(w)
      BY <1>2, <1>3, <2>2, SendFlow, Zenon
    <2> QED BY <1>2, <2>3, <2>4, Zenon DEF ServerFlow
  <1>6. CASE PushEnds(w)
    <2>1. /\ DOMAIN threads' = Threads /\ \A v \in Threads \ {w} : threads'[v] = threads[v]
          /\ DOMAIN u = ThreadFields /\ u.todo = t.todo /\ u.at = "dispatching"
          /\ u.frame = t.frame /\ u.pushes = Tail(q)
      BY <1>1, <1>6, Zenon DEF PushEnds, ThreadFields
    <2>2. to_peer' = to_peer
      BY <1>6, Zenon DEF PushEnds, sessionVars
    <2>3. ThreadFlow(w)
      BY <1>2, <1>3, <2>1, SinkFlow, Zenon
    <2> QED BY <1>2, <2>2, <2>3, StillFrames, Zenon DEF ServerFlow
  <1> QED BY <1>4, <1>5, <1>6, Zenon

\* The sink is done: a restoration is answered.
LEMMA DispatchedFlow ==
  ASSUME FabricTypes, NEW w \in Threads, Dispatched(w)
  PROVE  ServerFlow(w)
  <1> DEFINE t == threads[w]
  <1>1. t.at = "dispatching" /\ UNCHANGED <<to_server, to_peer>> /\ peers' = peers
    BY Zenon DEF Dispatched, sessionVars
  <1>2. CASE t.frame = NoFrame
    BY <1>1, <1>2, GoesFlow, StillFrames, Zenon DEF Dispatched, ServerFlow
  <1>3. CASE t.frame # NoFrame
    <2>1. Owes(t) /\ t.frame.type = "restore-request"
      BY <1>1, <1>3, Zenon DEF Owes, FabricTypes, ThreadOK
    <2>2. PICK g \in {Response("response", Sequence(w), 0), Failure(Sequence(w))} :
            threads' = [threads EXCEPT ![w].at = "replying", ![w].frame = g]
      BY <1>3, Zenon DEF Dispatched
    <2>3. IsAnswer(t.frame, g)
      BY <2>1, <2>2, FailureAnswers, NumberAnswers, Zenon
    <2> QED BY <1>1, <2>1, <2>2, <2>3, AnswerFlow, StillFrames, Zenon DEF ServerFlow
  <1> QED BY <1>2, <1>3, Zenon

\* The answer in hand goes out.
LEMMA ReplyFlow ==
  ASSUME FabricTypes, NEW w \in Threads, Reply(w)
  PROVE  ServerFlow(w)
  <1>1. /\ threads[w].at = "replying" /\ send_frame({Serviced(w)}, threads[w].frame)
        /\ NextSession(w) /\ to_server' = to_server /\ peers' = peers
    BY Zenon DEF Reply
  <1>2. threads[w].frame \in Outbound(Serviced(w))
    BY <1>1, InHand, Zenon
  <1>3. FrameFlow(w)
    BY <1>1, <1>2, SendFlow
  <1> QED BY <1>1, <1>3, NextFlow, Zenon DEF ServerFlow

\* The steps that touch no frame.
LEMMA PassFlow ==
  ASSUME FabricTypes, registry \in Seq(Sessions), registry' \in Seq(Sessions), NEW w \in Threads,
         \/ AcceptTimesOut(w) \/ register_connection(w) \/ SkipSession(w) \/ LockSession(w)
         \/ ReceiveTimesOut(w) \/ ReceiveClosed(w) \/ NothingToAdvance(w) \/ reap_connections(w)
         \/ ThreadEnds(w)
  PROVE  ServerFlow(w)
  <1>1. UNCHANGED <<to_server, to_peer>> /\ peers' = peers
    BY Zenon DEF AcceptTimesOut, register_connection, SkipSession, LockSession, ReceiveTimesOut,
       ReceiveClosed, NothingToAdvance, reap_connections, ThreadEnds, sessionVars
  <1>2. ThreadOK(threads[w]) /\ DOMAIN threads = Threads
    BY Zenon DEF FabricTypes
  <1>3. AcceptTimesOut(w) \/ register_connection(w) => ThreadFlow(w)
    BY SnapshotFlow, Zenon DEF AcceptTimesOut, register_connection
  <1>4. SkipSession(w) \/ ReceiveTimesOut(w) \/ ReceiveClosed(w) => ThreadFlow(w)
    BY NextFlow, Zenon DEF SkipSession, ReceiveTimesOut, ReceiveClosed
  <1>5. LockSession(w) => ThreadFlow(w)
    BY GoesFlow, Zenon DEF LockSession
  <1>6. NothingToAdvance(w) \/ ThreadEnds(w) => ThreadFlow(w)
    BY <1>2, GoesFlow, Zenon DEF NothingToAdvance, ThreadEnds, ThreadOK
  <1>7. ASSUME reap_connections(w) PROVE ThreadFlow(w)
    <2> DEFINE u == threads'[w]
    <2>1. /\ DOMAIN threads' = Threads /\ \A v \in Threads \ {w} : threads'[v] = threads[v]
          /\ u = IdleThread
      BY <1>2, <1>7, Zenon DEF reap_connections
    <2>2. ThreadOK(u) /\ ~Owes(u) /\ u.at # "replying" /\ Range(u.pushes) = {}
      BY <2>1, IdleOK, Zenon
    <2> QED BY <2>1, <2>2, Zenon DEF ThreadFlow
  <1> QED BY <1>1, <1>3, <1>4, <1>5, <1>6, <1>7, StillFrames, Zenon DEF ServerFlow

\* Every step of a thread moves the frames so.
LEMMA ServerFlows ==
  ASSUME FabricTypes, registry \in Seq(Sessions), registry' \in Seq(Sessions), TypeOK, TypeOK',
         DrainIds \subseteq DrainIds', ObligationIds \subseteq ObligationIds',
         \A M \in SUBSET ObligationIds : Cardinality(M) \in Nat,
         NEW w \in Threads, ServerStep(w)
  PROVE  ServerFlow(w)
  <1>1. ASSUME NEW s \in Sessions, accept_one(w, s) PROVE ServerFlow(w)
    BY <1>1, AcceptFlow, Zenon
  <1>2. CASE \/ ReceiveFrame(w) \/ Reply(w) \/ AdvancePass(w) \/ push_to_agents(w) \/ PushNext(w)
             \/ PushEnds(w) \/ Dispatched(w)
    BY <1>2, ReceiveFlow, ReplyFlow, AdvanceFlow, PushFlow, DispatchedFlow, Zenon
  <1>3. CASE \/ HandleBeforeHello(w) \/ HandleHello(w) \/ HandleDrainRequest(w) \/ HandleCancel(w)
             \/ HandleRestore(w) \/ HandleAdmit(w) \/ HandleReport(w) \/ HandleEvidence(w)
             \/ HandleQuery(w) \/ HandleShutdown(w) \/ HandleOther(w)
    BY <1>3, HandlerFlow, Zenon
  <1>4. CASE \/ AcceptTimesOut(w) \/ register_connection(w) \/ SkipSession(w) \/ LockSession(w)
             \/ ReceiveTimesOut(w) \/ ReceiveClosed(w) \/ NothingToAdvance(w) \/ reap_connections(w)
             \/ ThreadEnds(w)
    BY <1>4, PassFlow, Zenon
  <1> QED BY <1>1, <1>2, <1>3, <1>4, Zenon DEF ServerStep

------------------------------------------------------------------------------
(* How a peer moves the frames.                                            *)

\* What a peer may send: a request with the fields its handler reads, under its newest
\* number.  It reports that an obligation failed, or the release it was asked for under the
\* number it was answered; and a peer that proves a release sends evidence of it.
Fresh(s, f) ==
  /\ Asked(f)
  /\ f.sequence = peers'[s].sequence
  /\ f.type = "obligation-report" =>
       \/ f.next = "failed"
       \/ /\ f.next = "released" /\ Proves(peers[s]) /\ f.obligation = peers[s].push.obligation
          /\ \E g \in Outbound(s) :
               g.type # "failure" /\ g.sequence = peers[s].sequence /\ f.evidence = g.value
  /\ Proves(peers'[s]) => f.type = "evidence-report" /\ f.key = ProofKey(peers'[s])

\* How a peer goes on: its numbers do not go back, and a release is proven under a new one.
Turned(s) ==
  LET p == peers[s]
      q == peers'[s]
  IN
  /\ q.pc \notin Gone => p.pc \notin Gone /\ p.sequence <= q.sequence
  /\ Proves(q) => q = p \/ p.sequence < q.sequence

Reads(s) ==
  /\ DOMAIN to_peer' = Sessions /\ \A r \in Sessions \ {s} : to_peer'[r] = to_peer[r]
  /\ IsQueue(to_peer'[s]) /\ Range(to_peer'[s]) \subseteq Range(to_peer[s])

Writes(s) ==
  /\ DOMAIN to_server' = Sessions /\ \A r \in Sessions \ {s} : to_server'[r] = to_server[r]
  /\ IsQueue(to_server'[s])
  /\ \A f \in Range(to_server'[s]) : f \in Range(to_server[s]) \/ Fresh(s, f)

PeerFlow(s) ==
  /\ UNCHANGED <<vars, threads>> /\ Reads(s) /\ Writes(s)
  /\ DOMAIN peers' = Sessions /\ \A r \in Sessions \ {s} : peers'[r] = peers[r]
  /\ PeerOK(peers'[s]) /\ Turned(s)

\* A peer that sends nothing, or reads nothing.
LEMMA PeerIdles ==
  ASSUME FabricTypes, NEW s \in Sessions
  PROVE  /\ to_server' = to_server => Writes(s)
         /\ to_peer' = to_peer => Reads(s)
  <1>1. /\ DOMAIN to_server = Sessions /\ DOMAIN to_peer = Sessions
        /\ IsQueue(to_server[s]) /\ IsQueue(to_peer[s])
    BY Zenon DEF FabricTypes
  <1>2. ASSUME to_server' = to_server PROVE Writes(s)
    BY <1>1, <1>2, Zenon DEF Writes
  <1>3. ASSUME to_peer' = to_peer PROVE Reads(s)
    BY <1>1, <1>3, Zenon DEF Reads
  <1> QED BY <1>2, <1>3, Zenon

\* A peer that takes the next frame off its stream.
LEMMA PeerReceives ==
  ASSUME FabricTypes, NEW s \in Sessions, NEW pc, Receives(s, pc)
  PROVE  /\ Reads(s) /\ peers[s].pc = pc
         /\ Head(to_peer[s]) \in Outbound(s) /\ Sent(Head(to_peer[s]))
  <1>1. DOMAIN to_peer = Sessions /\ IsQueue(to_peer[s])
    BY Zenon DEF FabricTypes
  <1>2. to_peer[s] # <<>> /\ to_peer' = [to_peer EXCEPT ![s] = Tail(@)] /\ peers[s].pc = pc
    BY Zenon DEF Receives
  <1>3. /\ Head(to_peer[s]) \in Range(to_peer[s]) /\ IsQueue(Tail(to_peer[s]))
        /\ Range(Tail(to_peer[s])) \subseteq Range(to_peer[s])
    BY <1>1, <1>2, QueueTail, Zenon
  <1>4. Reads(s)
    <2>1. /\ DOMAIN to_peer' = Sessions /\ to_peer'[s] = Tail(to_peer[s])
          /\ \A r \in Sessions \ {s} : to_peer'[r] = to_peer[r]
      BY <1>1, <1>2, Zenon
    <2> QED BY <1>3, <2>1, Zenon DEF Reads
  <1>5. Head(to_peer[s]) \in Outbound(s)
    BY <1>3, Zenon DEF Outbound
  <1> QED BY <1>2, <1>4, <1>5, Zenon DEF FabricTypes

\* WireClient::send: one frame more, under the peer's next number.
LEMMA PeerSends ==
  ASSUME FabricTypes, NEW s \in Sessions, NEW frame, NEW p, send(s, frame, p),
         DOMAIN p = PeerFields, p.sequence \in Nat,
         Fresh(s, WithSequence(frame, p.sequence + 1))
  PROVE  Writes(s)
  <1> DEFINE f == WithSequence(frame, p.sequence + 1)
  <1>1. DOMAIN to_server = Sessions /\ IsQueue(to_server[s])
    BY Zenon DEF FabricTypes
  <1>2. to_server' = to_server \/ to_server' = [to_server EXCEPT ![s] = Append(@, f)]
    BY Zenon DEF send
  <1>3. Fresh(s, f)
    BY Zenon
  <1> HIDE DEF f
  <1>4. CASE to_server' = to_server
    BY <1>4, PeerIdles, Zenon
  <1>5. CASE to_server' = [to_server EXCEPT ![s] = Append(@, f)]
    <2>1. /\ DOMAIN to_server' = Sessions /\ to_server'[s] = Append(to_server[s], f)
          /\ \A r \in Sessions \ {s} : to_server'[r] = to_server[r]
      BY <1>1, <1>5, Zenon
    <2>2. IsQueue(to_server'[s]) /\ Range(to_server'[s]) \subseteq Range(to_server[s]) \cup {f}
      BY <1>1, <2>1, QueueAppend
    <2> QED BY <1>3, <2>1, <2>2, Zenon DEF Writes
  <1> QED BY <1>2, <1>4, <1>5, Zenon

\* The state WireClient::send leaves the peer in.
LEMMA SenderTurns ==
  ASSUME FabricTypes, NEW s \in Sessions, NEW frame, NEW p, send(s, frame, p),
         DOMAIN p = PeerFields, p.sequence \in Nat
  PROVE  /\ UNCHANGED <<vars, threads>>
         /\ DOMAIN peers' = Sessions /\ \A r \in Sessions \ {s} : peers'[r] = peers[r]
         /\ DOMAIN peers'[s] = PeerFields
         /\ \A x \in PeerFields \ {"sequence"} : peers'[s][x] = p[x]
         /\ peers'[s].sequence = p.sequence + 1
         /\ peers'[s].sequence \in Nat /\ peers'[s].sequence # 0
         /\ p.sequence < peers'[s].sequence /\ p.sequence <= peers'[s].sequence
  <1>1. DOMAIN peers = Sessions
    BY Zenon DEF FabricTypes
  <1>2. peers' = [peers EXCEPT ![s] = [p EXCEPT !.sequence = @ + 1]] /\ UNCHANGED <<vars, threads>>
    BY Zenon DEF send
  <1>3. /\ DOMAIN peers' = Sessions /\ peers'[s] = [p EXCEPT !.sequence = p.sequence + 1]
        /\ \A r \in Sessions \ {s} : peers'[r] = peers[r]
    BY <1>1, <1>2, Zenon
  <1>4. /\ DOMAIN peers'[s] = PeerFields /\ peers'[s].sequence = p.sequence + 1
        /\ \A x \in PeerFields \ {"sequence"} : peers'[s][x] = p[x]
    BY <1>3, Zenon DEF PeerFields
  <1> QED BY <1>2, <1>3, <1>4, NextNumber, Zenon

\* A peer that only goes on: it sends nothing.
LEMMA TurnsTo ==
  ASSUME FabricTypes, NEW s \in Sessions, NEW p, Turns(s, p)
  PROVE  /\ UNCHANGED <<vars, threads>> /\ Writes(s) /\ peers'[s] = p
         /\ DOMAIN peers' = Sessions /\ \A r \in Sessions \ {s} : peers'[r] = peers[r]
  <1>1. DOMAIN peers = Sessions
    BY Zenon DEF FabricTypes
  <1>2. peers' = [peers EXCEPT ![s] = p] /\ UNCHANGED <<vars, threads, to_server>>
    BY Zenon DEF Turns
  <1>3. Writes(s)
    BY <1>2, PeerIdles, Zenon
  <1> QED BY <1>1, <1>2, <1>3, Zenon

\* The end of a peer's process.
LEMMA ExitFlow ==
  ASSUME FabricTypes, NEW s \in Sessions, NEW pc \in Gone, Exit(s, pc)
  PROVE  PeerFlow(s)
  <1>1. DOMAIN peers = Sessions /\ DOMAIN to_peer = Sessions
    BY Zenon DEF FabricTypes
  <1>2. /\ peers' = [peers EXCEPT ![s] = [NewPeer(@.mode) EXCEPT !.pc = pc]]
        /\ to_peer' = [to_peer EXCEPT ![s] = <<>>] /\ UNCHANGED <<vars, threads, to_server>>
    BY Zenon DEF Exit
  <1>3. /\ DOMAIN peers' = Sessions /\ \A r \in Sessions \ {s} : peers'[r] = peers[r]
        /\ peers'[s] = [NewPeer(peers[s].mode) EXCEPT !.pc = pc]
    BY <1>1, <1>2, Zenon
  <1>4. /\ DOMAIN peers'[s] = PeerFields /\ peers'[s].pc = pc
        /\ peers'[s].sequence = 0 /\ peers'[s].epoch = 0 /\ peers'[s].producer = 0
    BY <1>3, Zenon DEF NewPeer, PeerFields
  <1>5. pc \notin {"start", "calling"} /\ 0 \in Nat
    BY Zenon DEF Gone
  <1>6. PeerOK(peers'[s])
    BY <1>4, <1>5, Zenon DEF PeerOK, Proves
  <1>7. Turned(s)
    BY <1>4, <1>5, Zenon DEF Turned, Proves
  <1>8. Reads(s)
    <2>1. /\ DOMAIN to_peer' = Sessions /\ to_peer'[s] = <<>>
          /\ \A r \in Sessions \ {s} : to_peer'[r] = to_peer[r]
      BY <1>1, <1>2, Zenon
    <2>2. IsQueue(<<>>) /\ Range(<<>>) = {}
      BY QueueSmall, Zenon
    <2> QED BY <2>1, <2>2, Zenon DEF Reads
  <1>9. Writes(s)
    BY <1>2, PeerIdles, Zenon
  <1> QED BY <1>2, <1>3, <1>6, <1>7, <1>8, <1>9, Zenon DEF PeerFlow

\* Where a peer goes without a request.
LEMMA OnFlow ==
  ASSUME FabricTypes, NEW s \in Sessions, Reads(s), peers[s].pc \notin Gone, NEW p, Turns(s, p),
         DOMAIN p = PeerFields, p.pc \in {"registering", "ready", "polling"},
         p.sequence = peers[s].sequence, p.epoch \in Nat, p.producer \in Nat
  PROVE  PeerFlow(s)
  <1>1. peers[s].sequence \in Nat
    BY Zenon DEF FabricTypes, PeerOK
  <1>2. /\ UNCHANGED <<vars, threads>> /\ Writes(s) /\ peers'[s] = p
        /\ DOMAIN peers' = Sessions /\ \A r \in Sessions \ {s} : peers'[r] = peers[r]
    BY TurnsTo, Zenon
  <1>3. PeerOK(peers'[s])
    BY <1>1, <1>2, Zenon DEF PeerOK, Proves
  <1>4. Turned(s)
    BY <1>1, <1>2, NextNumber, Zenon DEF Turned, Proves
  <1> QED BY <1>2, <1>3, <1>4, Zenon DEF PeerFlow

LEMMA PcFlow ==
  ASSUME FabricTypes, NEW s \in Sessions, NEW pc \in {"ready", "polling"}, Reads(s),
         peers[s].pc \notin Gone, Turns(s, [peers[s] EXCEPT !.pc = pc])
  PROVE  PeerFlow(s)
  <1> DEFINE p == [peers[s] EXCEPT !.pc = pc]
  <1>1. PeerOK(peers[s])
    BY Zenon DEF FabricTypes
  <1>2. /\ DOMAIN p = PeerFields /\ p.pc = pc /\ p.sequence = peers[s].sequence
        /\ p.epoch \in Nat /\ p.producer \in Nat
    BY <1>1, Zenon DEF PeerOK, PeerFields
  <1>3. Turns(s, p)
    BY Zenon
  <1> HIDE DEF p
  <1> QED BY <1>2, <1>3, OnFlow, Zenon

\* A peer that drops the frame it reads.
LEMMA DropFlow ==
  ASSUME FabricTypes, NEW s \in Sessions, Reads(s), Turns(s, peers[s])
  PROVE  PeerFlow(s)
  <1>1. PeerOK(peers[s]) /\ peers[s].sequence \in Nat
    BY Zenon DEF FabricTypes, PeerOK
  <1>2. /\ UNCHANGED <<vars, threads>> /\ Writes(s) /\ peers'[s] = peers[s]
        /\ DOMAIN peers' = Sessions /\ \A r \in Sessions \ {s} : peers'[r] = peers[r]
    BY TurnsTo, Zenon
  <1>3. Turned(s)
    BY <1>1, <1>2, NextNumber, Zenon DEF Turned
  <1> QED BY <1>1, <1>2, <1>3, Zenon DEF PeerFlow

\* A greeting, or a first request without one.
LEMMA ConnectFlow ==
  ASSUME FabricTypes, NEW s \in Sessions, NEW f, Asked(f), f.sequence = 1,
         f.type # "obligation-report", peers[s].pc = "start",
         to_server' = [to_server EXCEPT ![s] = <<f>>],
         DOMAIN peers' = Sessions, \A r \in Sessions \ {s} : peers'[r] = peers[r],
         DOMAIN peers'[s] = PeerFields, ~Proves(peers'[s]), peers'[s].pc # "start",
         peers'[s].sequence = 1, peers'[s].epoch = peers[s].epoch,
         peers'[s].producer = peers[s].producer,
         UNCHANGED <<vars, to_peer, threads>>
  PROVE  PeerFlow(s)
  <1>1. DOMAIN to_server = Sessions /\ PeerOK(peers[s])
    BY Zenon DEF FabricTypes
  <1>2. Fresh(s, f)
    BY Zenon DEF Fresh
  <1>3. Writes(s)
    <2>1. /\ DOMAIN to_server' = Sessions /\ to_server'[s] = <<f>>
          /\ \A r \in Sessions \ {s} : to_server'[r] = to_server[r]
      BY <1>1, Zenon
    <2>2. IsQueue(<<f>>) /\ Range(<<f>>) = {f}
      BY QueueSmall, Zenon
    <2> QED BY <1>2, <2>1, <2>2, Zenon DEF Writes
  <1>4. Reads(s)
    BY PeerIdles, Zenon
  <1>5. 1 \in Nat /\ 1 # 0 /\ 0 <= 1
    OBVIOUS
  <1>6. PeerOK(peers'[s])
    BY <1>1, <1>5, Zenon DEF PeerOK
  <1>7. Turned(s)
    BY <1>1, <1>5, Zenon DEF Turned, PeerOK, Gone
  <1> QED BY <1>3, <1>4, <1>6, <1>7, Zenon DEF PeerFlow

\* WireClient::connect_to and its hello.
LEMMA GreetingFlow ==
  ASSUME FabricTypes, NEW s \in Sessions, connect_to(s)
  PROVE  PeerFlow(s)
  <1> DEFINE f == [type |-> "hello", sequence |-> 1]
  <1>1. DOMAIN peers = Sessions /\ DOMAIN peers[s] = PeerFields
    BY Zenon DEF FabricTypes, PeerOK
  <1>2. /\ peers[s].pc = "start" /\ to_server' = [to_server EXCEPT ![s] = <<f>>]
        /\ peers' = [peers EXCEPT ![s].pc = "greeting", ![s].sequence = 1]
        /\ UNCHANGED <<vars, to_peer, threads>>
    BY Zenon DEF connect_to
  <1>3. DOMAIN peers' = Sessions /\ \A r \in Sessions \ {s} : peers'[r] = peers[r]
    BY <1>1, <1>2, Zenon
  <1>4. /\ DOMAIN peers'[s] = PeerFields /\ peers'[s].pc = "greeting" /\ peers'[s].sequence = 1
        /\ peers'[s].epoch = peers[s].epoch /\ peers'[s].producer = peers[s].producer
    BY <1>1, <1>2, Zenon DEF PeerFields
  <1>5. Asked(f) /\ f.sequence = 1 /\ f.type # "obligation-report"
    BY Zenon DEF Asked
  <1> HIDE DEF f
  <1>6. ~Proves(peers'[s]) /\ peers'[s].pc # "start"
    BY <1>4, Zenon DEF Proves
  <1> QED BY <1>2, <1>3, <1>4, <1>5, <1>6, ConnectFlow, Zenon

\* A client asks for nothing that only an agent may.
LEMMA ClientAsks ==
  ASSUME NEW request \in ClientRequest, NEW n
  PROVE  /\ Asked(WithSequence(request, n)) /\ WithSequence(request, n).sequence = n
         /\ WithSequence(request, n).type # "obligation-report"
  <1>1. "sequence" \notin DOMAIN request /\ "type" \in DOMAIN request
    BY Zenon DEF ClientRequest
  <1>2. request.type \notin {"obligation-report", "obligation-admit", "evidence-report"}
    BY Zenon DEF ClientRequest
  <1>3. request.type = "drain-request" =>
          /\ {"targets", "nonce"} \subseteq DOMAIN request
          /\ request.targets \in SUBSET Targets /\ request.nonce \in Nat
    BY Zenon DEF ClientRequest
  <1>4. /\ WithSequence(request, n).sequence = n
        /\ \A x \in DOMAIN request : WithSequence(request, n)[x] = request[x]
    BY <1>1, Numbered, Zenon
  <1> DEFINE f == WithSequence(request, n)
  <1>5. f.type = request.type /\ f.sequence = n
    BY <1>1, <1>4, Zenon
  <1>6. f.type = "drain-request" => f.targets \in SUBSET Targets /\ f.nonce \in Nat
    BY <1>3, <1>4, <1>5, Zenon
  <1> HIDE DEF f
  <1>7. Asked(f) /\ f.type # "obligation-report"
    BY <1>2, <1>5, <1>6, Zenon DEF Asked
  <1> QED BY <1>5, <1>7, Zenon DEF f

\* A request of a client that did not introduce itself.
LEMMA RudeFlow ==
  ASSUME FabricTypes, NEW s \in Rude, NEW request \in Requests[1], AskFirst(s, request)
  PROVE  PeerFlow(s)
  <1> DEFINE f == WithSequence(request, 1)
  <1>0. s \in Sessions /\ s \notin Agents /\ request \in ClientRequest
    BY PeersAssumption, Zenon
  <1>1. DOMAIN peers = Sessions /\ DOMAIN peers[s] = PeerFields
    BY <1>0, Zenon DEF FabricTypes, PeerOK
  <1>2. /\ peers[s].pc = "start" /\ to_server' = [to_server EXCEPT ![s] = <<f>>]
        /\ peers' = [peers EXCEPT ![s].pc = "calling", ![s].call = "request", ![s].sequence = 1]
        /\ UNCHANGED <<vars, to_peer, threads>>
    BY Zenon DEF AskFirst
  <1>3. DOMAIN peers' = Sessions /\ \A r \in Sessions \ {s} : peers'[r] = peers[r]
    BY <1>1, <1>2, Zenon
  <1>4. /\ DOMAIN peers'[s] = PeerFields /\ peers'[s].pc = "calling" /\ peers'[s].sequence = 1
        /\ peers'[s].call = "request" /\ peers'[s].epoch = peers[s].epoch
        /\ peers'[s].producer = peers[s].producer
    BY <1>0, <1>1, <1>2, Zenon DEF PeerFields
  <1>5. Asked(f) /\ f.sequence = 1 /\ f.type # "obligation-report"
    BY <1>0, ClientAsks, Zenon
  <1>6. ~Proves(peers'[s]) /\ peers'[s].pc # "start"
    BY <1>4, Zenon DEF Proves
  <1> HIDE DEF f
  <1> QED BY <1>0, <1>2, <1>3, <1>4, <1>5, <1>6, ConnectFlow, Zenon

\* What holds of a peer that makes a call, and of the request it makes.
CallOK(s, what, f, p) ==
  /\ peers[s].pc \notin Gone
  /\ DOMAIN p = PeerFields /\ p.sequence = peers[s].sequence
  /\ p.epoch \in Nat /\ p.producer \in Nat
  /\ Asked(f) /\ f.sequence = p.sequence + 1
  /\ what = "evidence" =>
       IsEvacuation(p.push) /\ f.type = "evidence-report" /\ f.key = ProofKey(p)
  /\ f.type = "obligation-report" =>
       \/ f.next = "failed"
       \/ /\ f.next = "released" /\ Proves(peers[s]) /\ f.obligation = peers[s].push.obligation
          /\ \E g \in Outbound(s) :
               g.type # "failure" /\ g.sequence = peers[s].sequence /\ f.evidence = g.value

\* A call a peer makes.
LEMMA CallFlow ==
  ASSUME FabricTypes, NEW s \in Sessions, NEW what, NEW frame, NEW p, call(s, what, frame, p),
         Reads(s), NEW f, f = WithSequence(frame, p.sequence + 1), CallOK(s, what, f, p)
  PROVE  PeerFlow(s)
  <1> DEFINE p2 == [p EXCEPT !.pc = "calling", !.call = what]
  <1>0. /\ DOMAIN p = PeerFields /\ p.sequence = peers[s].sequence /\ p.sequence \in Nat
        /\ p.epoch \in Nat /\ p.producer \in Nat /\ peers[s].pc \notin Gone
    BY Zenon DEF CallOK, FabricTypes, PeerOK
  <1>1. /\ DOMAIN p2 = PeerFields /\ p2.sequence = p.sequence /\ p2.pc = "calling"
        /\ p2.call = what /\ p2.push = p.push /\ p2.epoch = p.epoch /\ p2.producer = p.producer
    BY <1>0, Zenon DEF PeerFields
  <1>2. send(s, frame, p2)
    BY Zenon DEF call
  <1> HIDE DEF p2
  <1>3. /\ UNCHANGED <<vars, threads>>
        /\ DOMAIN peers' = Sessions /\ \A r \in Sessions \ {s} : peers'[r] = peers[r]
        /\ DOMAIN peers'[s] = PeerFields /\ peers'[s].pc = "calling" /\ peers'[s].call = what
        /\ peers'[s].push = p.push /\ peers'[s].epoch = p.epoch
        /\ peers'[s].producer = p.producer /\ peers'[s].sequence = p.sequence + 1
        /\ peers'[s].sequence \in Nat /\ peers'[s].sequence # 0
        /\ p.sequence < peers'[s].sequence /\ p.sequence <= peers'[s].sequence
    <2>1. p2.sequence \in Nat
      BY <1>0, <1>1, Zenon
    <2>2. /\ UNCHANGED <<vars, threads>>
          /\ DOMAIN peers' = Sessions /\ \A r \in Sessions \ {s} : peers'[r] = peers[r]
          /\ DOMAIN peers'[s] = PeerFields
          /\ \A x \in PeerFields \ {"sequence"} : peers'[s][x] = p2[x]
          /\ peers'[s].sequence = p2.sequence + 1
          /\ peers'[s].sequence \in Nat /\ peers'[s].sequence # 0
          /\ p2.sequence < peers'[s].sequence /\ p2.sequence <= peers'[s].sequence
      BY <1>1, <1>2, <2>1, SenderTurns, Zenon
    <2>3. {"pc", "call", "push", "epoch", "producer"} \subseteq PeerFields \ {"sequence"}
      BY Zenon DEF PeerFields
    <2> QED BY <1>1, <2>2, <2>3, Zenon
  <1>4. Proves(peers'[s]) => what = "evidence"
    BY <1>3, Zenon DEF Proves
  <1>5. Fresh(s, f)
    <2>1. Proves(peers'[s]) => f.type = "evidence-report" /\ f.key = ProofKey(peers'[s])
      BY <1>3, <1>4, Zenon DEF CallOK, ProofKey
    <2> QED BY <1>3, <2>1, Zenon DEF Fresh, CallOK
  <1>6. Writes(s)
    BY <1>0, <1>1, <1>2, <1>5, PeerSends, Zenon
  <1>7. PeerOK(peers'[s])
    BY <1>0, <1>3, <1>4, Zenon DEF PeerOK, CallOK
  <1>8. Turned(s)
    BY <1>0, <1>3, Zenon DEF Turned
  <1> QED BY <1>3, <1>6, <1>7, <1>8, Zenon DEF PeerFlow

\* The answer to a push, which no one waits for.
LEMMA AcknowledgeFlow ==
  ASSUME FabricTypes, NEW s \in Sessions, NEW frame, NEW p, send(s, frame, p), Reads(s),
         peers[s].pc \notin Gone, DOMAIN p = PeerFields, p.sequence = peers[s].sequence,
         p.epoch \in Nat, p.producer \in Nat, p.pc = "polling",
         "sequence" \notin DOMAIN frame, "type" \in DOMAIN frame,
         frame.type \in {"evacuation-response", "admission-reopen-response"}
  PROVE  PeerFlow(s)
  <1>0. p.sequence \in Nat
    BY Zenon DEF FabricTypes, PeerOK
  <1>1. /\ UNCHANGED <<vars, threads>>
        /\ DOMAIN peers' = Sessions /\ \A r \in Sessions \ {s} : peers'[r] = peers[r]
        /\ DOMAIN peers'[s] = PeerFields /\ peers'[s].pc = "polling"
        /\ peers'[s].epoch \in Nat /\ peers'[s].producer \in Nat /\ peers'[s].sequence \in Nat
        /\ peers'[s].sequence = p.sequence + 1 /\ p.sequence <= peers'[s].sequence
    <2>1. /\ UNCHANGED <<vars, threads>>
          /\ DOMAIN peers' = Sessions /\ \A r \in Sessions \ {s} : peers'[r] = peers[r]
          /\ DOMAIN peers'[s] = PeerFields
          /\ \A x \in PeerFields \ {"sequence"} : peers'[s][x] = p[x]
          /\ peers'[s].sequence = p.sequence + 1 /\ peers'[s].sequence \in Nat
          /\ p.sequence <= peers'[s].sequence
      BY <1>0, SenderTurns, SMTT(30)
    <2>2. {"pc", "epoch", "producer"} \subseteq PeerFields \ {"sequence"}
      BY Zenon DEF PeerFields
    <2> QED BY <2>1, <2>2, Zenon
  <1>2. ~Proves(peers'[s])
    BY <1>1, Zenon DEF Proves
  <1> DEFINE f == WithSequence(frame, p.sequence + 1)
  <1>3. f.type = frame.type /\ f.sequence = p.sequence + 1
    BY Numbered
  <1> HIDE DEF f
  <1>4. Asked(f) /\ f.type # "obligation-report"
    BY <1>3, Zenon DEF Asked
  <1>5. Fresh(s, f)
    BY <1>1, <1>2, <1>3, <1>4, Zenon DEF Fresh
  <1>6. Writes(s)
    BY <1>0, <1>5, PeerSends, Zenon DEF f
  <1>7. PeerOK(peers'[s])
    BY <1>1, <1>2, Zenon DEF PeerOK
  <1>8. Turned(s)
    BY <1>1, <1>2, Zenon DEF Turned
  <1> QED BY <1>1, <1>6, <1>7, <1>8, Zenon DEF PeerFlow

\* A client's next request.
LEMMA AskFlow ==
  ASSUME FabricTypes, NEW s \in Sessions \ Agents, NEW request \in NextRequests(s),
         Ask(s, request)
  PROVE  PeerFlow(s)
  <1> DEFINE f == WithSequence(request, peers[s].sequence + 1)
  <1>1. PeerOK(peers[s]) /\ peers[s].pc \notin Gone
    BY Zenon DEF FabricTypes, Ask, Gone
  <1>2. call(s, "request", request, peers[s]) /\ to_peer' = to_peer
    BY Zenon DEF Ask
  <1>3. request \in ClientRequest
    BY PeersAssumption, Zenon DEF NextRequests
  <1>4. Asked(f) /\ f.sequence = peers[s].sequence + 1 /\ f.type # "obligation-report"
    BY <1>3, ClientAsks, Zenon
  <1>5. f = WithSequence(request, peers[s].sequence + 1)
    BY Zenon
  <1> HIDE DEF f
  <1>6. CallOK(s, "request", f, peers[s])
    BY <1>1, <1>4, Zenon DEF CallOK, PeerOK
  <1>7. Reads(s)
    BY <1>2, PeerIdles, Zenon
  <1> QED BY <1>2, <1>5, <1>6, <1>7, CallFlow, Zenon

\* register_obligations.
LEMMA RegisterFlow ==
  ASSUME FabricTypes, NEW s \in Agents, RegisterNext(s)
  PROVE  PeerFlow(s)
  <1> DEFINE frame == [type |-> "obligation-admit", dependencies |-> Targets, generation |-> 0]
             f == WithSequence(frame, peers[s].sequence + 1)
  <1>0. s \in Sessions
    BY ControllerAssumption, Zenon
  <1>1. PeerOK(peers[s]) /\ peers[s].pc = "registering" /\ to_peer' = to_peer
    BY <1>0, Zenon DEF FabricTypes, RegisterNext
  <1>2. call(s, "admit", frame, peers[s])
    BY Zenon DEF RegisterNext
  <1>3. /\ f.type = "obligation-admit" /\ f.dependencies = Targets /\ f.generation = 0
        /\ f.sequence = peers[s].sequence + 1
    BY Numbered
  <1>9. f = WithSequence(frame, peers[s].sequence + 1)
    BY Zenon
  <1> HIDE DEF f, frame
  <1>4. Asked(f)
    BY <1>3 DEF Asked
  <1>5. Reads(s)
    BY <1>0, <1>1, PeerIdles, Zenon
  <1>6. CallOK(s, "admit", f, peers[s])
    BY <1>1, <1>3, <1>4, Zenon DEF CallOK, PeerOK, Gone
  <1> QED BY <1>0, <1>2, <1>5, <1>6, <1>9, CallFlow, Zenon

\* An obligation that was registered.
LEMMA RegisteredFlow ==
  ASSUME FabricTypes, NEW s \in Agents, Registered(s)
  PROVE  PeerFlow(s)
  <1> DEFINE f == Head(to_peer[s])
             p == [peers[s] EXCEPT !.pc = "registering", !.left = @ - 1,
                               !.registered = @ \cup {f.value}]
  <1>0. s \in Sessions
    BY ControllerAssumption, Zenon
  <1>1. PeerOK(peers[s])
    BY <1>0, Zenon DEF FabricTypes
  <1>2. Receives(s, "calling") /\ Turns(s, p)
    BY Zenon DEF Registered, Succeeds, Answered
  <1>3. Reads(s) /\ peers[s].pc \notin Gone
    BY <1>0, <1>2, PeerReceives DEF Gone
  <1> HIDE DEF f
  <1>4. /\ DOMAIN p = PeerFields /\ p.pc = "registering" /\ p.sequence = peers[s].sequence
        /\ p.epoch \in Nat /\ p.producer \in Nat
    BY <1>1, Zenon DEF PeerOK, PeerFields
  <1> HIDE DEF p
  <1> QED BY <1>0, <1>2, <1>3, <1>4, OnFlow, Zenon

\* announce_recovery.
LEMMA AnnounceFlow ==
  ASSUME FabricTypes, NEW s \in Agents, Announce(s)
  PROVE  PeerFlow(s)
  <1> DEFINE frame == [type |-> "admission-reopen"]
             f == WithSequence(frame, peers[s].sequence + 1)
  <1>0. s \in Sessions
    BY ControllerAssumption, Zenon
  <1>1. PeerOK(peers[s]) /\ to_peer' = to_peer /\ peers[s].pc \notin Gone
    BY <1>0, Zenon DEF FabricTypes, Announce, Gone
  <1>2. \/ Turns(s, [peers[s] EXCEPT !.pc = "polling"])
        \/ call(s, "reopen", frame, peers[s])
    BY Zenon DEF Announce
  <1>3. f.type = "admission-reopen" /\ f.sequence = peers[s].sequence + 1
    BY Numbered
  <1>9. f = WithSequence(frame, peers[s].sequence + 1)
    BY Zenon
  <1> HIDE DEF f, frame
  <1>4. Asked(f)
    BY <1>3, Zenon DEF Asked
  <1>6. Reads(s)
    BY <1>0, <1>1, PeerIdles, Zenon
  <1>7. CASE Turns(s, [peers[s] EXCEPT !.pc = "polling"])
    BY <1>0, <1>1, <1>6, <1>7, PcFlow, Zenon
  <1>8. CASE call(s, "reopen", frame, peers[s])
    <2>1. CallOK(s, "reopen", f, peers[s])
      BY <1>1, <1>3, <1>4, Zenon DEF CallOK, PeerOK
    <2> QED BY <1>0, <1>6, <1>8, <1>9, <2>1, CallFlow, Zenon
  <1> QED BY <1>2, <1>7, <1>8, Zenon

\* handle_evacuation by an agent that answers that it failed, or only acknowledges.
LEMMA UnwillingFlow ==
  ASSUME FabricTypes, NEW s \in Agents, handle_evacuation(s), peers[s].mode \in {"fail", "ignore"}
  PROVE  PeerFlow(s)
  <1> DEFINE m == Head(to_peer[s])
             frame == ReportFrame(m, "failed", 0)
             p == [peers[s] EXCEPT !.push = m]
             f == WithSequence(frame, p.sequence + 1)
  <1>0. s \in Sessions
    BY ControllerAssumption, Zenon
  <1>1. PeerOK(peers[s])
    BY <1>0, Zenon DEF FabricTypes
  <1>2. Receives(s, "polling") /\ m.type = "evacuate"
    BY Zenon DEF handle_evacuation
  <1>3. Reads(s) /\ IsEvacuation(m) /\ peers[s].pc = "polling"
    BY <1>0, <1>2, PeerReceives, Zenon DEF Sent
  <1>4. /\ peers[s].mode = "fail" => call(s, "report", frame, p)
        /\ peers[s].mode = "ignore" => Acknowledge(s, peers[s])
    BY Zenon DEF handle_evacuation
  <1> HIDE DEF m
  <1>5. CASE peers[s].mode = "fail"
    <2>2. IsReport(f, m, "failed", 0) /\ f.sequence = p.sequence + 1
      BY ReportNumbered
    <2>3. /\ DOMAIN p = PeerFields /\ p.sequence = peers[s].sequence
          /\ p.epoch \in Nat /\ p.producer \in Nat
      BY <1>1, Zenon DEF PeerOK, PeerFields
    <2>4. call(s, "report", frame, p)
      BY <1>4, <1>5, Zenon
    <2>6. f = WithSequence(frame, p.sequence + 1)
      BY Zenon
    <2> HIDE DEF p, f, frame
    <2>5. Asked(f)
      BY <1>3, <2>2 DEF Asked, IsReport, IsEvacuation, ObligationState
    <2>7. CallOK(s, "report", f, p)
      BY <1>3, <2>2, <2>3, <2>5, Zenon DEF CallOK, IsReport, Gone
    <2> QED BY <1>0, <1>3, <2>4, <2>6, <2>7, CallFlow, Zenon
  <1>6. CASE peers[s].mode = "ignore"
    <2> DEFINE ack == [type |-> "evacuation-response"]
               p2 == [peers[s] EXCEPT !.pc = "polling", !.push = NoFrame]
    <2>1. send(s, ack, p2)
      BY <1>4, <1>6, Zenon DEF Acknowledge
    <2>2. /\ DOMAIN p2 = PeerFields /\ p2.sequence = peers[s].sequence /\ p2.pc = "polling"
          /\ p2.epoch \in Nat /\ p2.producer \in Nat /\ peers[s].pc \notin Gone
      BY <1>1, <1>3, Zenon DEF PeerOK, PeerFields, Gone
    <2>3. "sequence" \notin DOMAIN ack /\ "type" \in DOMAIN ack /\ ack.type = "evacuation-response"
      BY Zenon
    <2> HIDE DEF p2, ack
    <2> QED BY <1>0, <1>3, <2>1, <2>2, <2>3, AcknowledgeFlow, Zenon
  <1> QED BY <1>5, <1>6, Zenon

\* handle_evacuation by an agent that lets go: it proves it before it reports it.
LEMMA EvacuateFlow ==
  ASSUME FabricTypes, TypeOK, NEW s \in Agents, handle_evacuation(s),
         peers[s].mode \notin {"fail", "ignore"}
  PROVE  PeerFlow(s)
  <1> DEFINE m == Head(to_peer[s])
             frame == ReleaseFrame(m, peers[s])
             p == [peers[s] EXCEPT !.push = m]
             f == WithSequence(frame, p.sequence + 1)
  <1>0. s \in Sessions
    BY ControllerAssumption, Zenon
  <1>1. PeerOK(peers[s])
    BY <1>0, Zenon DEF FabricTypes
  <1>2. Receives(s, "polling") /\ m.type = "evacuate"
    BY Zenon DEF handle_evacuation
  <1>3. Reads(s) /\ IsEvacuation(m) /\ peers[s].pc = "polling"
    BY <1>0, <1>2, PeerReceives, Zenon DEF Sent
  <1>4. call(s, "evidence", frame, p)
    BY Zenon DEF handle_evacuation
  <1>5. /\ m.drain \in DrainIds /\ m.obligation \in ObligationIds
        /\ m.generation \in Nat /\ m.evidence_seq \in Nat \ {0}
    BY <1>3, Zenon DEF IsEvacuation
  <1>6. now \in Nat
    BY Zenon DEF TypeOK
  <1>7. ReleaseKey(m.drain, m.obligation) \in EvidenceKeys
    BY <1>5, ReleaseKeyTypes, Zenon
  <1> HIDE DEF m
  <1>8. /\ "sequence" \notin DOMAIN frame
        /\ DOMAIN frame = {"type", "key", "seq", "generation", "epoch", "producer", "observed_at"}
        /\ frame.type = "evidence-report" /\ frame.key = ReleaseKey(m.drain, m.obligation)
        /\ frame.seq = m.evidence_seq /\ frame.generation = m.generation
        /\ frame.epoch = peers[s].epoch /\ frame.producer = peers[s].producer
        /\ frame.observed_at = now
    BY Zenon DEF ReleaseFrame
  <1>9. f.sequence = p.sequence + 1 /\ \A x \in DOMAIN frame : f[x] = frame[x]
    BY <1>8, Numbered, SMTT(30)
  <1>10. /\ DOMAIN p = PeerFields /\ p.sequence = peers[s].sequence /\ p.push = m
         /\ p.epoch \in Nat /\ p.producer \in Nat
         /\ peers[s].epoch \in Nat /\ peers[s].producer \in Nat
    BY <1>1, Zenon DEF PeerOK, PeerFields
  <1>11. f = WithSequence(frame, p.sequence + 1)
    BY Zenon
  <1> HIDE DEF p, f, frame
  <1>12. /\ f.type = "evidence-report" /\ f.key = ReleaseKey(m.drain, m.obligation)
         /\ f.seq = m.evidence_seq /\ f.generation = m.generation
         /\ f.epoch = peers[s].epoch /\ f.producer = peers[s].producer /\ f.observed_at = now
    BY <1>8, <1>9, Zenon
  <1>13. Asked(f)
    BY <1>5, <1>6, <1>7, <1>10, <1>12, Zenon DEF Asked
  <1>14. CallOK(s, "evidence", f, p)
    BY <1>3, <1>9, <1>10, <1>12, <1>13, Zenon DEF CallOK, ProofKey, Gone
  <1> QED BY <1>0, <1>3, <1>4, <1>11, <1>14, CallFlow, Zenon

\* The report of a release that was proven.
LEMMA ProvenFlow ==
  ASSUME FabricTypes, NEW s \in Agents, ReleaseProven(s)
  PROVE  PeerFlow(s)
  <1> DEFINE m == Head(to_peer[s])
             frame == ReportFrame(peers[s].push, "released", m.value)
             f == WithSequence(frame, peers[s].sequence + 1)
  <1>0. s \in Sessions
    BY ControllerAssumption, Zenon
  <1>1. PeerOK(peers[s])
    BY <1>0, Zenon DEF FabricTypes
  <1>2. /\ peers[s].call = "evidence" /\ Receives(s, "calling")
        /\ m.sequence = peers[s].sequence /\ m.type # "failure"
    BY Zenon DEF ReleaseProven, Succeeds, Answered
  <1>3. call(s, "report", frame, peers[s])
    BY Zenon DEF ReleaseProven
  <1>4. Reads(s) /\ peers[s].pc = "calling" /\ Sent(m) /\ m \in Outbound(s)
    BY <1>0, <1>2, PeerReceives, Zenon
  <1> HIDE DEF m
  <1>5. Proves(peers[s]) /\ peers[s].sequence # 0 /\ IsEvacuation(peers[s].push)
    BY <1>1, <1>2, <1>4, Zenon DEF PeerOK, Proves
  <1>6. m.value \in Nat
    BY <1>2, <1>4, <1>5, Zenon DEF Sent
  <1>8. /\ IsReport(f, peers[s].push, "released", m.value)
        /\ f.sequence = peers[s].sequence + 1
    BY ReportNumbered, SMTT(30)
  <1>7. f = WithSequence(frame, peers[s].sequence + 1)
    BY Zenon
  <1> HIDE DEF f, frame
  <1>9. Asked(f)
    BY <1>5, <1>6, <1>8, Zenon DEF Asked, IsReport, IsEvacuation, ObligationState
  <1>10. CallOK(s, "report", f, peers[s])
    BY <1>1, <1>2, <1>4, <1>5, <1>8, <1>9, Zenon DEF CallOK, IsReport, PeerOK, Gone
  <1> QED BY <1>0, <1>3, <1>4, <1>7, <1>10, CallFlow, Zenon

\* The acknowledgement after a report, and the answer to a reopening.
LEMMA AnswerPushFlow ==
  ASSUME FabricTypes, NEW s \in Agents, Reported(s) \/ handle_admission_reopen(s)
  PROVE  PeerFlow(s)
  <1>0. s \in Sessions
    BY ControllerAssumption, Zenon
  <1>1. PeerOK(peers[s])
    BY <1>0, Zenon DEF FabricTypes
  <1>2. CASE Reported(s)
    <2> DEFINE frame == [type |-> "evacuation-response"]
               p == [peers[s] EXCEPT !.pc = "polling", !.push = NoFrame]
    <2>1. send(s, frame, p) /\ Receives(s, "calling")
      BY <1>2, Zenon DEF Reported, Succeeds, Answered, Acknowledge
    <2>2. Reads(s) /\ peers[s].pc \notin Gone
      BY <1>0, <2>1, PeerReceives DEF Gone
    <2>3. /\ DOMAIN p = PeerFields /\ p.sequence = peers[s].sequence /\ p.pc = "polling"
          /\ p.epoch \in Nat /\ p.producer \in Nat
      BY <1>1, Zenon DEF PeerOK, PeerFields
    <2>4. "sequence" \notin DOMAIN frame /\ "type" \in DOMAIN frame /\ frame.type = "evacuation-response"
      BY Zenon
    <2> HIDE DEF p, frame
    <2> QED BY <1>0, <2>1, <2>2, <2>3, <2>4, AcknowledgeFlow, Zenon
  <1>3. CASE handle_admission_reopen(s)
    <2> DEFINE frame == [type |-> "admission-reopen-response"]
    <2>1. send(s, frame, peers[s]) /\ Receives(s, "polling")
      BY <1>3, Zenon DEF handle_admission_reopen
    <2>2. Reads(s) /\ peers[s].pc = "polling" /\ peers[s].pc \notin Gone
      BY <1>0, <2>1, PeerReceives DEF Gone
    <2>3. DOMAIN peers[s] = PeerFields /\ peers[s].epoch \in Nat /\ peers[s].producer \in Nat
      BY <1>1, Zenon DEF PeerOK
    <2>4. /\ "sequence" \notin DOMAIN frame /\ "type" \in DOMAIN frame
          /\ frame.type = "admission-reopen-response"
      BY Zenon
    <2> HIDE DEF frame
    <2> QED BY <1>0, <2>1, <2>2, <2>3, <2>4, AcknowledgeFlow, Zenon
  <1> QED BY <1>2, <1>3, Zenon

\* Every step of a peer.
LEMMA PeerFlows ==
  ASSUME FabricTypes, TypeOK, NEW s \in Sessions,
         PeerStep(s) \/ connect_to(s) \/ Leave(s) \/ (s \in Agents /\ AnnouncementTimesOut(s))
  PROVE  PeerFlow(s)
  <1>0. PeerOK(peers[s])
    BY Zenon DEF FabricTypes
  <1>1. CASE Welcomed(s)
    <2> DEFINE f == Head(to_peer[s])
               pc == IF s \in Agents THEN "registering" ELSE "ready"
               p == [peers[s] EXCEPT !.pc = pc, !.epoch = f.epoch, !.producer = f.incarnation]
    <2>1. Receives(s, "greeting") /\ f.type = "welcome" /\ Turns(s, p)
      BY <1>1, Zenon DEF Welcomed
    <2>2. Reads(s) /\ peers[s].pc \notin Gone /\ Sent(f)
      BY <2>1, PeerReceives DEF Gone
    <2>3. f.epoch \in Nat /\ f.incarnation \in Nat
      BY <2>1, <2>2, Zenon DEF Sent
    <2>4. pc \in {"registering", "ready", "polling"}
      BY Zenon
    <2> HIDE DEF f, pc
    <2>5. /\ DOMAIN p = PeerFields /\ p.pc = pc /\ p.sequence = peers[s].sequence
          /\ p.epoch \in Nat /\ p.producer \in Nat
      BY <1>0, <2>3, Zenon DEF PeerOK, PeerFields
    <2> HIDE DEF p
    <2> QED BY <2>1, <2>2, <2>4, <2>5, OnFlow, Zenon
  <1>2. CASE NotWelcomed(s) \/ StreamEnds(s) \/ Leave(s) \/ CallRefused(s) \/ PollRefused(s)
    <2>1. Exit(s, "exited") \/ Exit(s, "refused")
      BY <1>2, Zenon DEF NotWelcomed, StreamEnds, Leave, CallRefused, PollRefused
    <2>2. "exited" \in Gone /\ "refused" \in Gone
      BY Zenon DEF Gone
    <2> QED BY <2>1, <2>2, ExitFlow, Zenon
  <1>3. CASE DropFrame(s) \/ PollIgnores(s)
    <2>1. Turns(s, peers[s]) /\ (Receives(s, "calling") \/ Receives(s, "polling"))
      BY <1>3, Zenon DEF DropFrame, PollIgnores
    <2>2. Reads(s)
      BY <2>1, PeerReceives, Zenon
    <2> QED BY <2>1, <2>2, DropFlow, Zenon
  <1>4. CASE Told(s) \/ Announced(s)
    <2>1. Receives(s, "calling")
      BY <1>4, Zenon DEF Told, Announced, Answered
    <2>2. \/ Turns(s, [peers[s] EXCEPT !.pc = "ready"])
          \/ Turns(s, [peers[s] EXCEPT !.pc = "polling"])
      BY <1>4, Zenon DEF Told, Announced
    <2>3. Reads(s) /\ peers[s].pc \notin Gone
      BY <2>1, PeerReceives DEF Gone
    <2> QED BY <2>2, <2>3, PcFlow, Zenon
  <1>5. CASE AnnouncementTimesOut(s)
    <2>1. /\ Turns(s, [peers[s] EXCEPT !.pc = "polling"]) /\ to_peer' = to_peer
          /\ peers[s].pc \notin Gone
      BY <1>5, Zenon DEF AnnouncementTimesOut, Gone
    <2>2. Reads(s)
      BY <2>1, PeerIdles, Zenon
    <2> QED BY <2>1, <2>2, PcFlow, Zenon
  <1>6. ASSUME s \in Agents, AgentStep(s) PROVE PeerFlow(s)
    <2>1. CASE handle_evacuation(s)
      BY <1>6, <2>1, UnwillingFlow, EvacuateFlow, Zenon
    <2> QED BY <1>2, <1>3, <1>4, <1>6, <2>1, RegisterFlow, RegisteredFlow, AnnounceFlow, ProvenFlow,
               AnswerPushFlow, Zenon DEF AgentStep
  <1> QED BY <1>1, <1>2, <1>3, <1>4, <1>5, <1>6, GreetingFlow, Zenon DEF PeerStep
==============================================================================
