-------------------------- MODULE ControllerProofs --------------------------
(***************************************************************************)
(* The controller with its peers, for any number of threads, of sessions   *)
(* and of peers: it keeps its sessions within the bound, its engine is     *)
(* only ever called as CallSpec allows, and what counts as released was    *)
(* proven to the ledger before.                                            *)
(***************************************************************************)
EXTENDS FabricLemmas, DrainProofs, FiniteSetTheorems

------------------------------------------------------------------------------
(* The sessions.  What bounds them is the number of those that are         *)
(* registered together with those a thread has accepted and not registered *)
(* yet: the limit is read before, and outside, the registration.           *)

\* The threads between the check of the limit and the registration.
Accepting == {w \in Threads : threads[w].at = "accepted"}

\* A thread's record keeps its fields, and a thread that accepted knows the session.
ThreadsOK ==
  /\ DOMAIN threads = Threads
  /\ \A w \in Threads :
       /\ DOMAIN threads[w] = ThreadFields
       /\ threads[w].at = "accepted" => threads[w].todo \in Seq(Sessions) /\ threads[w].todo # <<>>

RegistryInv ==
  /\ ThreadsOK
  /\ registry \in Seq(Sessions)
  /\ Len(registry) + Cardinality(Accepting) <= MaxConnections + Cardinality(Threads) - 1

\* Thread w does something other than accept a session; the other threads do nothing.
Proceeds(w) ==
  /\ DOMAIN threads' = Threads
  /\ DOMAIN threads'[w] = ThreadFields
  /\ threads'[w].at # "accepted"
  /\ \A v \in Threads \ {w} : threads'[v] = threads[v]

\* Fewer threads that accept, and a registry that did not grow, are within the bound.
LEMMA FewerSessions ==
  ASSUME RegistryInv, ThreadsOK', registry' \in Seq(Sessions), Len(registry') <= Len(registry),
         Accepting' \subseteq Accepting
  PROVE  RegistryInv'
  <1>1. IsFiniteSet(Accepting)
    BY ControllerAssumption, FS_Subset, Zenon DEF Accepting
  <1>2. Cardinality(Accepting') <= Cardinality(Accepting) /\ Cardinality(Accepting') \in Nat
        /\ Cardinality(Accepting) \in Nat
    BY <1>1, FS_Subset, FS_CardinalityType, Zenon
  <1>3. Cardinality(Threads) \in Nat /\ MaxConnections \in Nat
    BY ControllerAssumption, FS_CardinalityType, Zenon
  <1>4. Len(registry) \in Nat /\ Len(registry') \in Nat
    BY DEF RegistryInv
  <1>5. Len(registry) + Cardinality(Accepting) <= MaxConnections + Cardinality(Threads) - 1
    BY Zenon DEF RegistryInv
  <1> HIDE DEF Accepting
  <1>6. Len(registry') + Cardinality(Accepting') <= MaxConnections + Cardinality(Threads) - 1
    BY <1>2, <1>3, <1>4, <1>5
  <1> QED BY <1>6, Zenon DEF RegistryInv

\* A thread that proceeds keeps the bound if the registry does not grow.
LEMMA ProceedingKeeps ==
  ASSUME RegistryInv, NEW w \in Threads, Proceeds(w),
         registry' \in Seq(Sessions), Len(registry') <= Len(registry)
  PROVE  RegistryInv'
  <1>1. ThreadsOK'
    BY Zenon DEF RegistryInv, ThreadsOK, Proceeds
  <1>2. Accepting' \subseteq Accepting
    BY Zenon DEF Accepting, Proceeds
  <1> QED BY <1>1, <1>2, FewerSessions, Zenon

\* The ways the passes of poll_once move a thread on.
LEMMA ThreadMoves ==
  ASSUME ThreadsOK, NEW w \in Threads
  PROVE  /\ \A at : at # "accepted" /\ Goes(w, at) => Proceeds(w)
         /\ Snapshot(w) => Proceeds(w)
         /\ NextSession(w) => Proceeds(w)
         /\ \A f : Answers(w, f) => Proceeds(w)
         /\ threads' = [threads EXCEPT ![w] = IdleThread] => Proceeds(w)
  <1>1. \A at : at # "accepted" /\ Goes(w, at) => Proceeds(w)
    BY Zenon DEF ThreadsOK, ThreadFields, Proceeds, Goes
  <1>2. Snapshot(w) => Proceeds(w)
    BY Zenon DEF ThreadsOK, ThreadFields, Proceeds, Snapshot, Stage
  <1>3. NextSession(w) => Proceeds(w)
    BY DEF ThreadsOK, ThreadFields, Proceeds, NextSession, Stage
  <1>4. \A f : Answers(w, f) => Proceeds(w)
    BY Zenon DEF ThreadsOK, ThreadFields, Proceeds, Answers
  <1>5. threads' = [threads EXCEPT ![w] = IdleThread] => Proceeds(w)
    BY DEF ThreadsOK, ThreadFields, Proceeds, IdleThread
  <1> QED BY <1>1, <1>2, <1>3, <1>4, <1>5, Zenon

\* A request that the engine takes or refuses is answered.
LEMMA ServeAnswers ==
  ASSUME NEW ACTION Op, NEW w, NEW v, Serve(w, Op, v)
  PROVE  \E f : Answers(w, f)
  BY Zenon DEF Serve, Respond, Refuse, AnswersOnly

\* Handling a frame ends in an answer; only a restoration goes to the sink first.
LEMMA HandlerMoves ==
  ASSUME ThreadsOK, NEW w \in Threads,
         \/ HandleBeforeHello(w) \/ HandleHello(w) \/ HandleDrainRequest(w) \/ HandleCancel(w)
         \/ HandleRestore(w) \/ HandleAdmit(w) \/ HandleReport(w) \/ HandleEvidence(w)
         \/ HandleQuery(w) \/ HandleShutdown(w) \/ HandleOther(w)
  PROVE  Proceeds(w) /\ registry' = registry
  <1>1. ASSUME NEW f, Answers(w, f) PROVE Proceeds(w) /\ registry' = registry
    BY <1>1, ThreadMoves, Zenon DEF Answers
  <1>2. \A v : Respond(w, v) \/ Refuse(w) => \E f : Answers(w, f)
    BY Zenon DEF Respond, Refuse, AnswersOnly
  <1>3. CASE HandleBeforeHello(w) \/ HandleHello(w) \/ HandleShutdown(w)
    BY <1>1, <1>3, Zenon DEF HandleBeforeHello, RefuseAndClose, HandleHello, HandleShutdown
  <1>4. CASE HandleQuery(w) \/ HandleOther(w)
    BY <1>1, <1>2, <1>4, Zenon DEF HandleQuery, HandleOther
  <1>5. CASE HandleDrainRequest(w)
    <2> DEFINE f == threads[w].frame
    <2>1. CASE Serve(w, request_drain_set(f.targets, Authority(w), f.nonce), Len(sets) + 1)
      BY <1>1, <2>1, ServeAnswers, Zenon
    <2>2. CASE \E v : Respond(w, v) \/ Refuse(w)
      BY <1>1, <1>2, <2>2, Zenon
    <2> QED BY <1>5, <2>1, <2>2, Zenon DEF HandleDrainRequest
  <1>6. CASE HandleCancel(w)
    <2> DEFINE d == threads[w].frame.drain
    <2>1. CASE Serve(w, cancel_drain(d, Authority(w)), 0)
      BY <1>1, <2>1, ServeAnswers, Zenon
    <2>2. CASE \E v : Respond(w, v) \/ Refuse(w)
      BY <1>1, <1>2, <2>2, Zenon
    <2> QED BY <1>6, <2>1, <2>2, Zenon DEF HandleCancel
  <1>7. CASE HandleRestore(w)
    <2>1. CASE threads' = [threads EXCEPT ![w].at = "dispatching", ![w].delivered = TRUE,
                              ![w].pushes = <<[type |-> "reopen", sequence |-> 0]>>]
               /\ registry' = registry
      BY <2>1, Zenon DEF ThreadsOK, ThreadFields, Proceeds
    <2>2. CASE \E v : Respond(w, v) \/ Refuse(w)
      BY <1>1, <1>2, <2>2, Zenon
    <2> QED BY <1>7, <2>1, <2>2, Zenon DEF HandleRestore, sessionVars
  <1>8. CASE HandleAdmit(w)
    BY <1>1, <1>8, ServeAnswers, Zenon DEF HandleAdmit
  <1>9. CASE HandleReport(w)
    BY <1>1, <1>9, ServeAnswers, Zenon DEF HandleReport
  <1>10. CASE HandleEvidence(w)
    BY <1>1, <1>10, ServeAnswers, Zenon DEF HandleEvidence
  <1> QED BY <1>3, <1>4, <1>5, <1>6, <1>7, <1>8, <1>9, <1>10, Zenon

\* The other steps of a pass leave the registry alone.
LEMMA PassMoves ==
  ASSUME ThreadsOK, NEW w \in Threads,
         \/ AcceptTimesOut(w) \/ SkipSession(w) \/ LockSession(w) \/ ReceiveFrame(w)
         \/ ReceiveTimesOut(w) \/ ReceiveClosed(w) \/ Reply(w) \/ NothingToAdvance(w)
         \/ AdvancePass(w) \/ push_to_agents(w) \/ PushNext(w) \/ PushEnds(w) \/ Dispatched(w)
         \/ ThreadEnds(w)
  PROVE  Proceeds(w) /\ registry' = registry
  <1>1. CASE AcceptTimesOut(w)
    BY <1>1, ThreadMoves, Zenon DEF AcceptTimesOut, sessionVars
  <1>2. CASE SkipSession(w) \/ ReceiveTimesOut(w) \/ ReceiveClosed(w) \/ Reply(w)
    BY <1>2, ThreadMoves, Zenon DEF SkipSession, ReceiveTimesOut, ReceiveClosed, Reply, sessionVars
  <1>3. CASE LockSession(w) \/ NothingToAdvance(w) \/ ThreadEnds(w)
    BY <1>3, ThreadMoves, Zenon DEF LockSession, NothingToAdvance, ThreadEnds, sessionVars
  <1>4. CASE ReceiveFrame(w)
    BY <1>4, Zenon DEF ReceiveFrame, ThreadsOK, ThreadFields, Proceeds
  <1>5. CASE AdvancePass(w)
    BY <1>5, Zenon DEF AdvancePass, Dispatch, ThreadsOK, ThreadFields, Proceeds, sessionVars
  <1>6. CASE push_to_agents(w) \/ PushNext(w) \/ PushEnds(w)
    <2>1. CASE push_to_agents(w)
      BY <2>1, Zenon DEF push_to_agents, ThreadsOK, ThreadFields, Proceeds, sessionVars
    <2>2. CASE PushNext(w)
      BY <2>2, Zenon DEF PushNext, ThreadsOK, ThreadFields, Proceeds
    <2>3. CASE PushEnds(w)
      BY <2>3, Zenon DEF PushEnds, ThreadsOK, ThreadFields, Proceeds, sessionVars
    <2> QED BY <1>6, <2>1, <2>2, <2>3, Zenon
  <1>7. CASE Dispatched(w)
    BY <1>7 DEF Dispatched, Goes, ThreadsOK, ThreadFields, Proceeds, sessionVars
  <1> QED BY <1>1, <1>2, <1>3, <1>4, <1>5, <1>6, <1>7, Zenon

\* A thread accepts a session only while there is room, one at a time.
LEMMA AcceptKeeps ==
  ASSUME RegistryInv, NEW w \in Threads, NEW s \in Sessions, accept_one(w, s)
  PROVE  RegistryInv'
  <1>1. CASE Len(registry) >= MaxConnections
    <2>1. Snapshot(w) /\ registry' = registry
      BY <1>1, Zenon DEF accept_one
    <2> QED BY <2>1, ThreadMoves, ProceedingKeeps DEF RegistryInv
  <1>2. CASE ~(Len(registry) >= MaxConnections)
    <2>1. /\ registry' = registry
          /\ threads' = [threads EXCEPT ![w].at = "accepted", ![w].todo = <<s>>]
      BY <1>2, Zenon DEF accept_one
    <2>2. <<s>> \in Seq(Sessions) /\ <<s>> # <<>>
      OBVIOUS
    <2>3. /\ DOMAIN threads' = Threads /\ DOMAIN threads'[w] = ThreadFields
          /\ threads'[w].todo = <<s>> /\ \A v \in Threads \ {w} : threads'[v] = threads[v]
      BY <2>1, Zenon DEF RegistryInv, ThreadsOK, ThreadFields
    <2>4. ThreadsOK'
      BY <2>2, <2>3, Zenon DEF RegistryInv, ThreadsOK
    <2>5. Cardinality(Accepting') <= Cardinality(Threads) /\ Cardinality(Accepting') \in Nat
          /\ Cardinality(Threads) \in Nat
      <3>1. Accepting' \subseteq Threads
        BY Zenon DEF Accepting
      <3> HIDE DEF Accepting
      <3> QED BY <3>1, ControllerAssumption, FS_Subset, FS_CardinalityType, Zenon
    <2>6. Len(registry') < MaxConnections /\ Len(registry') \in Nat /\ MaxConnections \in Nat
      BY <1>2, <2>1, ControllerAssumption DEF RegistryInv
    <2> HIDE DEF Accepting
    <2>7. Len(registry') + Cardinality(Accepting') <= MaxConnections + Cardinality(Threads) - 1
      BY <2>5, <2>6
    <2> QED BY <2>1, <2>4, <2>7, Zenon DEF RegistryInv
  <1> QED BY <1>1, <1>2, Zenon

\* Registration turns an accepted session into a registered one.
LEMMA RegisterKeeps ==
  ASSUME RegistryInv, NEW w \in Threads, register_connection(w)
  PROVE  RegistryInv'
  <1>1. /\ threads[w].at = "accepted" /\ registry' = Append(registry, Serviced(w)) /\ Snapshot(w)
    BY Zenon DEF register_connection
  <1>2. Proceeds(w)
    BY <1>1, ThreadMoves, Zenon DEF RegistryInv
  <1>3. Serviced(w) \in Sessions
    BY <1>1 DEF RegistryInv, ThreadsOK, Serviced
  <1>4. registry' \in Seq(Sessions) /\ Len(registry') = Len(registry) + 1 /\ Len(registry) \in Nat
    BY <1>1, <1>3 DEF RegistryInv
  <1>5. ThreadsOK'
    BY <1>2, Zenon DEF RegistryInv, ThreadsOK, Proceeds
  <1>6. Accepting' \subseteq Accepting \ {w} /\ w \in Accepting
    BY <1>1, <1>2, Zenon DEF Accepting, Proceeds
  <1>7. IsFiniteSet(Accepting)
    BY ControllerAssumption, FS_Subset, Zenon DEF Accepting
  <1>8. IsFiniteSet(Accepting \ {w}) /\ Cardinality(Accepting \ {w}) = Cardinality(Accepting) - 1
    BY <1>6, <1>7, FS_RemoveElement, Zenon
  <1>9. Cardinality(Accepting') <= Cardinality(Accepting) - 1 /\ Cardinality(Accepting') \in Nat
        /\ Cardinality(Accepting) \in Nat
    BY <1>6, <1>7, <1>8, FS_Subset, FS_CardinalityType
  <1>10. Cardinality(Threads) \in Nat /\ MaxConnections \in Nat
    BY ControllerAssumption, FS_CardinalityType, Zenon
  <1>11. Len(registry) + Cardinality(Accepting) <= MaxConnections + Cardinality(Threads) - 1
    BY Zenon DEF RegistryInv
  <1> HIDE DEF Accepting
  <1>12. Len(registry') + Cardinality(Accepting') <= MaxConnections + Cardinality(Threads) - 1
    BY <1>4, <1>9, <1>10, <1>11
  <1> QED BY <1>4, <1>5, <1>12, Zenon DEF RegistryInv

\* Some of m positions are at most m.
LEMMA PositionsAreFew ==
  ASSUME NEW m \in Nat, NEW S \in SUBSET (1..m)
  PROVE  Cardinality(S) \in Nat /\ Cardinality(S) <= m
  <1>1. IsFiniteSet(1..m) /\ Cardinality(1..m) = m
    BY FS_Interval
  <1> QED BY <1>1, FS_Subset, FS_CardinalityType, Zenon

\* What is reaped leaves a registry no longer than it was.
LEMMA ReapKeeps ==
  ASSUME RegistryInv, NEW w \in Threads, reap_connections(w)
  PROVE  RegistryInv'
  <1> DEFINE m == Len(registry)
             stay == {i \in DOMAIN registry :
                        connections[registry[i]].open /\ ~connections[registry[i]].closing}
             n == Cardinality(stay)
  <1>1. registry \in Seq(Sessions) /\ m \in Nat /\ DOMAIN registry = 1..m
    BY DEF RegistryInv
  <1>2. stay \in SUBSET (1..m)
    BY <1>1, Zenon
  <1>3. \E f \in [1..n -> stay] : registry' = [i \in DOMAIN f |-> registry[f[i]]]
    BY Zenon DEF reap_connections, Ascending
  <1>4. threads' = [threads EXCEPT ![w] = IdleThread]
    BY Zenon DEF reap_connections
  <1>5. n \in Nat /\ n <= m
    BY <1>1, <1>2, PositionsAreFew, Zenon
  <1> HIDE DEF m, stay, n
  <1>6. PICK f \in [1..n -> stay] : registry' = [i \in 1..n |-> registry[f[i]]]
    BY <1>3, Zenon
  <1>7. \A i \in 1..n : registry[f[i]] \in Sessions
    <2>1. registry \in [1..m -> Sessions]
      BY <1>1
    <2>2. \A i \in 1..n : f[i] \in 1..m
      BY <1>2, <1>6, Zenon
    <2> QED BY <2>1, <2>2, Zenon
  <1>8. registry' \in Seq(Sessions) /\ Len(registry') = n
    BY <1>5, <1>6, <1>7
  <1> QED BY <1>4, <1>5, <1>8, ThreadMoves, ProceedingKeeps, Zenon DEF RegistryInv, m

\* What the peers do, and the signal, touches neither the engine, the registry nor a thread.
LEMMA PeersStayAside ==
  ASSUME \/ \E s \in Sessions : PeerStep(s) \/ connect_to(s) \/ Leave(s) \/ AnnouncementTimesOut(s)
         \/ ClientNext \/ Signal \/ stop_workers \/ Over
  PROVE  UNCHANGED <<vars, registry, threads>>
  <1> DEFINE Aside == UNCHANGED <<vars, registry, threads>>
  <1>1. \A s, p : Turns(s, p) => Aside
    BY Zenon DEF Turns
  <1>2. \A s, pc : Exit(s, pc) => Aside
    BY Zenon DEF Exit
  <1>3. \A s, f, p : send(s, f, p) => Aside
    BY Zenon DEF send
  <1>4. \A s, what, f, p : call(s, what, f, p) => Aside
    BY <1>3, Zenon DEF call
  <1>5. \A s, p : Acknowledge(s, p) => Aside
    BY <1>3, Zenon DEF Acknowledge
  <1> HIDE DEF Aside
  <1>6. \A s : Welcomed(s) \/ NotWelcomed(s) \/ DropFrame(s) \/ StreamEnds(s) \/ Told(s) => Aside
    BY <1>1, <1>2, Zenon DEF Welcomed, NotWelcomed, DropFrame, StreamEnds, Told
  <1>7. \A s : RegisterNext(s) \/ Registered(s) \/ Announced(s) \/ CallRefused(s) => Aside
    BY <1>1, <1>2, <1>4, Zenon DEF RegisterNext, Registered, Announced, CallRefused
  <1>8. \A s : Announce(s) => Aside
    BY <1>1, <1>4, Zenon DEF Announce
  <1>9. \A s : handle_evacuation(s) => Aside
    <2> SUFFICES ASSUME NEW s, handle_evacuation(s) PROVE Aside
      BY Zenon
    <2>1. CASE peers[s].mode = "fail"
      BY <1>4, <2>1, Zenon DEF handle_evacuation
    <2>2. CASE peers[s].mode = "ignore"
      BY <1>5, <2>2, Zenon DEF handle_evacuation
    <2>3. CASE peers[s].mode # "fail" /\ peers[s].mode # "ignore"
      BY <1>4, <2>3, Zenon DEF handle_evacuation
    <2> QED BY <2>1, <2>2, <2>3, Zenon
  <1>10. \A s : ReleaseProven(s) \/ Reported(s) \/ handle_admission_reopen(s) => Aside
    BY <1>3, <1>4, <1>5, Zenon DEF ReleaseProven, Reported, handle_admission_reopen
  <1>11. \A s : PollIgnores(s) \/ PollRefused(s) => Aside
    BY <1>1, <1>2, Zenon DEF PollIgnores, PollRefused
  <1>12. \A s : PeerStep(s) => Aside
    BY <1>6, <1>7, <1>8, <1>9, <1>10, <1>11, Zenon DEF PeerStep, AgentStep
  <1>13. \A s : connect_to(s) => Aside
    BY Zenon DEF connect_to, Aside
  <1>14. \A s : Leave(s) \/ AnnouncementTimesOut(s) => Aside
    BY <1>1, <1>2, Zenon DEF Leave, AnnouncementTimesOut
  <1>15. ClientNext => Aside
    <2>1. \A s, request : Ask(s, request) => Aside
      BY <1>4, Zenon DEF Ask
    <2>2. \A s, request : AskFirst(s, request) => Aside
      BY Zenon DEF AskFirst, Aside
    <2> QED BY <2>1, <2>2, Zenon DEF ClientNext
  <1>16. Signal \/ stop_workers \/ Over => Aside
    BY Zenon DEF Signal, stop_workers, Over, Aside, sessionVars, controllerVars
  <1> QED BY <1>12, <1>13, <1>14, <1>15, <1>16, Zenon DEF Aside

\* Every step of the fabric keeps the sessions within the bound.
LEMMA RegistryStep ==
  ASSUME RegistryInv, [FabricNext]_fabricVars
  PROVE  RegistryInv'
  <1>1. CASE UNCHANGED <<registry, threads>>
    BY <1>1, Zenon DEF RegistryInv, ThreadsOK, Accepting
  <1>2. ASSUME NEW w \in Threads, ServerStep(w)
        PROVE  RegistryInv'
    <2>1. CASE \E s \in Sessions : accept_one(w, s)
      BY <2>1, AcceptKeeps, Zenon
    <2>2. CASE register_connection(w)
      BY <2>2, RegisterKeeps, Zenon
    <2>3. CASE reap_connections(w)
      BY <2>3, ReapKeeps, Zenon
    <2>4. ASSUME Proceeds(w), registry' = registry PROVE RegistryInv'
      BY <2>4, ProceedingKeeps DEF RegistryInv
    <2>5. ThreadsOK
      BY Zenon DEF RegistryInv
    <2> QED BY <1>2, <2>1, <2>2, <2>3, <2>4, <2>5, HandlerMoves, PassMoves, Zenon DEF ServerStep
  <1>3. CASE Terminate
    <2>1. registry' = <<>> /\ threads' = threads
      BY <1>3, Zenon DEF Terminate
    <2>2. ThreadsOK' /\ Accepting' = Accepting
      BY <2>1, Zenon DEF RegistryInv, ThreadsOK, Accepting
    <2>3. registry' \in Seq(Sessions) /\ Len(registry') <= Len(registry)
      BY <2>1 DEF RegistryInv
    <2> QED BY <2>2, <2>3, FewerSessions, Zenon
  <1>4. CASE UNCHANGED fabricVars
    BY <1>1, <1>4, Zenon DEF fabricVars, controllerVars, sessionVars
  <1>5. Agents \subseteq Sessions /\ Leavers \subseteq Sessions
    BY ControllerAssumption, PeersAssumption, Zenon
  <1> QED BY <1>1, <1>2, <1>3, <1>4, <1>5, PeersStayAside, Zenon DEF FabricNext

\* A controller that starts has no session and no thread that accepts one.
LEMMA RegistryStart == FabricInit => RegistryInv
  <1> SUFFICES ASSUME FabricInit PROVE RegistryInv
    BY Zenon
  <1>1. registry = <<>> /\ threads = [w \in Threads |-> IdleThread]
    BY Zenon DEF FabricInit, ServerInit
  <1>2. ThreadsOK /\ Accepting = {}
    BY <1>1, Zenon DEF ThreadsOK, ThreadFields, Accepting, IdleThread
  <1>3. Cardinality(Threads) \in Nat /\ Cardinality(Threads) # 0 /\ MaxConnections \in Nat
    BY ControllerAssumption, FS_CardinalityType, FS_EmptySet, Zenon
  <1>4. Cardinality({}) = 0 /\ Len(<<>>) = 0 /\ registry \in Seq(Sessions)
    BY <1>1, FS_EmptySet
  <1> QED BY <1>1, <1>2, <1>3, <1>4 DEF RegistryInv

\* poll_once reads the limit and registers the session under two locks; whatever the
\* threads interleave, each but one lets in at most one session too many.
THEOREM SessionsAreBounded == FabricSpec => []ConnectionsAreBounded
  <1>1. RegistryInv => ConnectionsAreBounded
    <2>1. IsFiniteSet(Accepting)
      BY ControllerAssumption, FS_Subset, Zenon DEF Accepting
    <2>2. Cardinality(Accepting) \in Nat /\ Cardinality(Threads) \in Nat /\ MaxConnections \in Nat
      BY <2>1, ControllerAssumption, FS_CardinalityType, Zenon
    <2>3. RegistryInv => Len(registry) \in Nat
                           /\ Len(registry) + Cardinality(Accepting) <= MaxConnections + Cardinality(Threads) - 1
      BY DEF RegistryInv
    <2> HIDE DEF Accepting
    <2> QED BY <2>2, <2>3 DEF ConnectionsAreBounded
  <1> QED BY <1>1, RegistryStart, RegistryStep, PTL DEF FabricSpec

------------------------------------------------------------------------------
(* The controller with its peers makes the calls of CallSpec.              *)

\* The engine call that handles the frame in the hands of thread w.
Calls(w) ==
  LET f == threads[w].frame IN
  /\ threads[w].at = "handling"
  /\ \/ \E scope \in Scopes : issue_authority(scope, Validity)
     \/ f.type = "drain-request" /\ request_drain_set(f.targets, Authority(w), f.nonce)
     \/ f.drain \in DrainIds /\ cancel_drain(f.drain, Authority(w))
     \/ f.drain \in DrainIds /\ restore_drain(f.drain, Authority(w))
     \/ /\ f.type = "obligation-admit"
        /\ admit_obligation(f.dependencies, TRUE, f.generation, Authority(w))
     \/ /\ f.type = "obligation-report"
        /\ report_obligation(f.obligation, f.drain, f.generation, f.expected_revision,
                             f.next, f.evidence)
     \/ /\ f.type = "evidence-report"
        /\ record_evidence(f.key, f.seq, f.generation, f.epoch, f.producer, f.observed_at)

\* Of a thread's steps only a handler and a pass of advance() call the engine.
LEMMA ServerCalls ==
  ASSUME NEW w \in Threads, ServerStep(w)
  PROVE  UNCHANGED vars \/ AdvancePass(w) \/ Calls(w)
  <1> DEFINE f == threads[w].frame
  <1>1. \A v : Refuse(w) => UNCHANGED vars
    BY Zenon DEF Refuse
  <1>2. CASE \/ AcceptTimesOut(w) \/ \E s \in Sessions : accept_one(w, s)
             \/ register_connection(w) \/ SkipSession(w) \/ LockSession(w) \/ ReceiveFrame(w)
             \/ ReceiveTimesOut(w) \/ ReceiveClosed(w) \/ HandleBeforeHello(w) \/ HandleShutdown(w)
             \/ HandleQuery(w) \/ HandleOther(w) \/ Reply(w) \/ NothingToAdvance(w)
             \/ push_to_agents(w) \/ PushNext(w) \/ PushEnds(w) \/ Dispatched(w)
             \/ reap_connections(w) \/ ThreadEnds(w)
    BY <1>1, <1>2, Zenon DEF AcceptTimesOut, accept_one, register_connection, SkipSession, LockSession,
       ReceiveFrame, ReceiveTimesOut, ReceiveClosed, HandleBeforeHello, RefuseAndClose,
       HandleShutdown, HandleQuery, HandleOther, Reply, NothingToAdvance, push_to_agents,
       PushNext, PushEnds, Dispatched, reap_connections, ThreadEnds
  <1>3. CASE HandleHello(w)
    BY <1>3, Zenon DEF HandleHello, Handling, Calls
  <1>4. CASE HandleDrainRequest(w)
    <2> DEFINE Op == request_drain_set(f.targets, Authority(w), f.nonce)
    <2>1. threads[w].at = "handling" /\ f.type = "drain-request"
      BY <1>4, Zenon DEF HandleDrainRequest, Handles, Handling
    <2>2. UNCHANGED vars \/ Serve(w, Op, Len(sets) + 1)
      BY <1>1, <1>4, Zenon DEF HandleDrainRequest
    <2>3. CASE Serve(w, Op, Len(sets) + 1)
      <3>1. Op \/ Refuse(w)
        BY <2>3, ServeMoves
      <3> QED BY <1>1, <2>1, <3>1, Zenon DEF Calls
    <2> QED BY <2>2, <2>3, Zenon
  <1>5. CASE HandleCancel(w)
    <2> DEFINE Op == cancel_drain(f.drain, Authority(w))
    <2>1. threads[w].at = "handling"
      BY <1>5, Zenon DEF HandleCancel, Handles, Handling
    <2>2. UNCHANGED vars \/ (f.drain \in DrainIds /\ Serve(w, Op, 0))
      BY <1>1, <1>5, Zenon DEF HandleCancel
    <2>3. CASE f.drain \in DrainIds /\ Serve(w, Op, 0)
      <3>1. Op \/ Refuse(w)
        BY <2>3, ServeMoves
      <3> QED BY <1>1, <2>1, <2>3, <3>1, Zenon DEF Calls
    <2> QED BY <2>2, <2>3, Zenon
  <1>6. CASE HandleRestore(w)
    <2>1. threads[w].at = "handling"
      BY <1>6, Zenon DEF HandleRestore, Handles, Handling
    <2>2. UNCHANGED vars \/ (f.drain \in DrainIds /\ restore_drain(f.drain, Authority(w)))
      BY <1>1, <1>6, Zenon DEF HandleRestore
    <2> QED BY <2>1, <2>2, Zenon DEF Calls
  <1>7. CASE HandleAdmit(w)
    <2> DEFINE Op == admit_obligation(f.dependencies, TRUE, f.generation, Authority(w))
    <2>1. threads[w].at = "handling" /\ f.type = "obligation-admit"
      BY <1>7, Zenon DEF HandleAdmit, Handles, Handling
    <2>2. Serve(w, Op, obligation_high_water + 1)
      BY <1>7, Zenon DEF HandleAdmit
    <2> HIDE DEF Op
    <2>3. Op \/ Refuse(w)
      BY <2>2, ServeMoves
    <2> QED BY <1>1, <2>1, <2>3, Zenon DEF Calls, Op
  <1>8. CASE HandleReport(w)
    <2> DEFINE Op == report_obligation(f.obligation, f.drain, f.generation, f.expected_revision,
                                       f.next, f.evidence)
    <2>1. threads[w].at = "handling" /\ f.type = "obligation-report"
      BY <1>8, Zenon DEF HandleReport, Handles, Handling
    <2>2. Serve(w, Op, 0)
      BY <1>8, Zenon DEF HandleReport
    <2>3. Op \/ Refuse(w)
      BY <2>2, ServeMoves
    <2> QED BY <1>1, <2>1, <2>3, Zenon DEF Calls
  <1>9. CASE HandleEvidence(w)
    <2> DEFINE Op == record_evidence(f.key, f.seq, f.generation, f.epoch, f.producer, f.observed_at)
    <2>1. threads[w].at = "handling" /\ f.type = "evidence-report"
      BY <1>9, Zenon DEF HandleEvidence, Handles, Handling
    <2>2. Serve(w, Op, f.seq)
      BY <1>9, Zenon DEF HandleEvidence
    <2>3. Op \/ Refuse(w)
      BY <2>2, ServeMoves
    <2> QED BY <1>1, <2>1, <2>3, Zenon DEF Calls
  <1> QED BY <1>2, <1>3, <1>4, <1>5, <1>6, <1>7, <1>8, <1>9, Zenon DEF ServerStep

\* A handler passes the engine arguments of the right types, and an authority it issued.
LEMMA CallsAreTyped ==
  ASSUME FabricTypes, NEW w \in Threads, Calls(w)
  PROVE  AnyNext
  <1> DEFINE f == threads[w].frame
             a == Authority(w)
  <1>1. Asked(f)
    BY HandledFrame, Zenon DEF Calls, Owes
  <1>2. require_authority(a) => a \in DOMAIN tokens
    BY Zenon DEF require_authority, check
  <1> HIDE DEF a
  <1>3. CASE \E scope \in Scopes : issue_authority(scope, Validity)
    BY <1>3, ControllerAssumption, Zenon DEF AnyNext, AnyGovern
  <1>4. CASE f.type = "drain-request" /\ request_drain_set(f.targets, a, f.nonce)
    <2>1. a \in DOMAIN tokens
      BY <1>2, <1>4, Zenon DEF request_drain_set
    <2> QED BY <1>1, <1>4, <2>1, Zenon DEF Asked, AnyNext, AnyOperate
  <1>5. CASE f.drain \in DrainIds /\ (cancel_drain(f.drain, a) \/ restore_drain(f.drain, a))
    <2>1. a \in DOMAIN tokens
      BY <1>2, <1>5, Zenon DEF cancel_drain, restore_drain
    <2> QED BY <1>5, <2>1, Zenon DEF AnyNext, AnyOperate
  <1>6. CASE f.type = "obligation-admit" /\ admit_obligation(f.dependencies, TRUE, f.generation, a)
    BY <1>1, <1>6, Zenon DEF Asked, AnyNext, AnyAdmit
  <1>7. CASE /\ f.type = "obligation-report"
             /\ report_obligation(f.obligation, f.drain, f.generation, f.expected_revision,
                                  f.next, f.evidence)
    BY <1>1, <1>7, Zenon DEF Asked, AnyNext, AnyReport
  <1>8. CASE /\ f.type = "evidence-report"
             /\ record_evidence(f.key, f.seq, f.generation, f.epoch, f.producer, f.observed_at)
    BY <1>1, <1>8, Zenon DEF Asked, AnyNext, AnyObserve
  <1> QED BY <1>3, <1>4, <1>5, <1>6, <1>7, <1>8, Zenon DEF Calls, a

\* Every step of the fabric is a call of the engine, or none.
LEMMA FabricCalls ==
  ASSUME FabricTypes, [FabricNext]_fabricVars
  PROVE  [AnyNext]_vars
  <1>1. ASSUME NEW w \in Threads, ServerStep(w)
        PROVE  [AnyNext]_vars
    <2>1. CASE AdvancePass(w)
      BY <2>1, Zenon DEF AdvancePass, AnyNext
    <2> QED BY <1>1, <2>1, ServerCalls, CallsAreTyped, Zenon
  <1>2. CASE Terminate
    <2>1. revoke_tokens
      BY <1>2, Zenon DEF Terminate, revoke_tokens
    <2> QED BY <2>1, Zenon DEF AnyNext, AnyGovern
  <1>3. CASE UNCHANGED fabricVars
    BY <1>3, Zenon DEF fabricVars
  <1>4. Agents \subseteq Sessions /\ Leavers \subseteq Sessions
    BY ControllerAssumption, PeersAssumption, Zenon
  <1> QED BY <1>1, <1>2, <1>3, <1>4, PeersStayAside, Zenon DEF FabricNext

\* No frame is answered that its peer did not send.
LEMMA FlowInbound ==
  ASSUME NEW w \in Threads, ServerFlow(w), NEW s \in Sessions
  PROVE  Inbound(s)' \subseteq Inbound(s)
  <1> SUFFICES ASSUME NEW f \in Inbound(s)' PROVE f \in Inbound(s)
    BY Zenon
  <1>1. CASE f \in Range(to_server'[s])
    BY <1>1, Zenon DEF ServerFlow, ThreadFlow, FrameFlow, Inbound
  <1>2. ASSUME NEW v \in Threads, Owes(threads'[v]), Head(threads'[v].todo) = s,
               f = threads'[v].frame
        PROVE  f \in Inbound(s)
    <2>1. CASE v = w
      BY <1>2, <2>1, Zenon DEF ServerFlow, ThreadFlow, FrameFlow
    <2>2. CASE v # w
      <3>1. threads'[v] = threads[v]
        BY <2>2, Zenon DEF ServerFlow, ThreadFlow, FrameFlow
      <3> QED BY <1>2, <3>1, Zenon DEF Inbound, Serviced
    <2> QED BY <2>1, <2>2, Zenon
  <1> QED BY <1>1, <1>2, Zenon DEF Inbound, Serviced

\* What goes to a peer is a push, the failure of a full house, or the answer to its frame.
LEMMA FlowOutbound ==
  ASSUME FabricTypes, NEW w \in Threads, ServerFlow(w), NEW s \in Sessions, NEW f \in Outbound(s)'
  PROVE  \/ f \in Outbound(s) \/ f = Failure(0) \/ f \in Range(threads[w].pushes)
         \/ \E g \in Inbound(s) : IsAnswer(g, f)
  <1>1. CASE f \in Range(to_peer'[s])
    BY <1>1, Zenon DEF ServerFlow, ThreadFlow, FrameFlow
  <1>2. ASSUME NEW v \in Threads, threads'[v].at = "replying", Head(threads'[v].todo) = s,
               f = threads'[v].frame, v # w
        PROVE  f \in Outbound(s)
    <2>1. threads'[v] = threads[v]
      BY <1>2, Zenon DEF ServerFlow, ThreadFlow, FrameFlow
    <2> QED BY <1>2, <2>1, Zenon DEF Outbound, Serviced
  <1>3. ASSUME threads'[w].at = "replying", Head(threads'[w].todo) = s, f = threads'[w].frame
        PROVE  \E g \in Inbound(s) : IsAnswer(g, f)
    <2>1. /\ Owes(threads[w]) /\ Head(threads[w].todo) = s
          /\ IsAnswer(threads[w].frame, f)
      BY <1>3, Zenon DEF ServerFlow, ThreadFlow, FrameFlow
    <2>2. threads[w].frame \in Inbound(s)
      BY <2>1, Zenon DEF Inbound, Serviced
    <2> QED BY <2>1, <2>2, Zenon
  <1> QED BY <1>1, <1>2, <1>3, Zenon DEF Outbound, Serviced

\* What is well-formed stays so as drains and obligations are added.
LEMMA FormsGrow ==
  ASSUME DrainIds \subseteq DrainIds', ObligationIds \subseteq ObligationIds', NEW f
  PROVE  /\ Asked(f) => Asked(f)'
         /\ Sent(f) => Sent(f)'
         /\ Pushed(f) => Pushed(f)'
  BY Zenon DEF Asked, Sent, Pushed, IsEvacuation

\* A thread that moves frames so keeps the shape of everything.
LEMMA FlowTypes ==
  ASSUME FabricTypes, NEW w \in Threads, ServerFlow(w),
         DrainIds \subseteq DrainIds', ObligationIds \subseteq ObligationIds'
  PROVE  FabricTypes'
  <1>1. \A v \in Threads : ThreadOK(threads'[v])
    BY Zenon DEF FabricTypes, ServerFlow, ThreadFlow, FrameFlow
  <1>2. ASSUME NEW v \in Threads, NEW f \in Range(threads'[v].pushes)
        PROVE  Pushed(f)'
    BY <1>2, FormsGrow, Zenon DEF FabricTypes, ServerFlow, ThreadFlow, FrameFlow
  <1>3. ASSUME NEW s \in Sessions
        PROVE  IsQueue(to_server'[s]) /\ IsQueue(to_peer'[s]) /\ PeerOK(peers[s])'
    <2>1. PeerOK(peers[s]) /\ peers'[s] = peers[s]
      BY Zenon DEF FabricTypes, ServerFlow, ThreadFlow, FrameFlow
    <2>2. PeerOK(peers[s])'
      BY <2>1, Zenon DEF PeerOK, IsEvacuation, Proves
    <2> QED BY <2>2, Zenon DEF ServerFlow, ThreadFlow, FrameFlow
  <1>4. ASSUME NEW s \in Sessions, NEW f \in Inbound(s)'
        PROVE  Asked(f)'
    BY <1>4, FlowInbound, FormsGrow, Zenon DEF FabricTypes
  <1>5. ASSUME NEW s \in Sessions, NEW f \in Outbound(s)'
        PROVE  Sent(f)'
    <2>1. CASE f \in Outbound(s)
      BY <2>1, FormsGrow, Zenon DEF FabricTypes
    <2>2. CASE f = Failure(0)
      BY <2>2, Zenon DEF Failure, Sent
    <2>3. CASE f \in Range(threads[w].pushes)
      <3>1. Pushed(f)
        BY <2>3, Zenon DEF FabricTypes
      <3> QED BY <3>1, FormsGrow, Zenon DEF Pushed, Sent
    <2>4. ASSUME NEW g, IsAnswer(g, f) PROVE Sent(f)'
      BY <2>4, Zenon DEF IsAnswer, Sent
    <2> QED BY <1>5, <2>1, <2>2, <2>3, <2>4, FlowOutbound, Zenon
  <1>6. /\ DOMAIN threads' = Threads /\ DOMAIN to_server' = Sessions /\ DOMAIN to_peer' = Sessions
        /\ DOMAIN peers' = Sessions
    BY Zenon DEF FabricTypes, ServerFlow, ThreadFlow, FrameFlow
  <1> QED BY <1>1, <1>2, <1>3, <1>4, <1>5, <1>6, Zenon DEF FabricTypes

\* What a peer's step brings the server, and leaves to be read.
LEMMA PeerFrames ==
  ASSUME NEW s \in Sessions, PeerFlow(s), NEW r \in Sessions
  PROVE  /\ \A f \in Inbound(r)' : f \in Inbound(r) \/ (r = s /\ Fresh(s, f))
         /\ Outbound(r)' \subseteq Outbound(r)
  <1>1. threads' = threads /\ Reads(s) /\ Writes(s)
    BY Zenon DEF PeerFlow
  <1>2. ASSUME NEW f \in Inbound(r)' PROVE f \in Inbound(r) \/ (r = s /\ Fresh(s, f))
    <2>1. f \in Range(to_server'[r]) => f \in Range(to_server[r]) \/ (r = s /\ Fresh(s, f))
      BY <1>1, Zenon DEF Writes
    <2> QED BY <1>1, <1>2, <2>1, Zenon DEF Inbound, Serviced
  <1>3. ASSUME NEW f \in Outbound(r)' PROVE f \in Outbound(r)
    <2>1. f \in Range(to_peer'[r]) => f \in Range(to_peer[r])
      BY <1>1, Zenon DEF Reads
    <2> QED BY <1>1, <1>3, <2>1, Zenon DEF Outbound, Serviced
  <1> QED BY <1>2, <1>3, Zenon

\* A peer's step keeps the shape of everything.
LEMMA PeerTypes ==
  ASSUME FabricTypes, NEW s \in Sessions, PeerFlow(s)
  PROVE  FabricTypes'
  <1>1. vars' = vars /\ threads' = threads /\ Reads(s) /\ Writes(s)
    BY Zenon DEF PeerFlow
  <1>2. DrainIds' = DrainIds /\ ObligationIds' = ObligationIds
    BY <1>1, Zenon DEF vars, requestVars, obligationVars, DrainIds, ObligationIds
  <1>3. ASSUME NEW f
        PROVE  (Asked(f) => Asked(f)') /\ (Sent(f) => Sent(f)') /\ (Pushed(f) => Pushed(f)')
    BY <1>2, FormsGrow, Zenon
  <1>4. ASSUME NEW r \in Sessions
        PROVE  IsQueue(to_server'[r]) /\ IsQueue(to_peer'[r]) /\ PeerOK(peers[r])'
    <2>1. IsQueue(to_server'[r]) /\ IsQueue(to_peer'[r])
      BY <1>1, Zenon DEF Reads, Writes, FabricTypes
    <2>2. PeerOK(peers'[r])
      BY Zenon DEF PeerFlow, FabricTypes
    <2>3. PeerOK(peers[r])'
      BY <1>2, <2>2, Zenon DEF PeerOK, IsEvacuation, Proves
    <2> QED BY <2>1, <2>3, Zenon
  <1>5. ASSUME NEW r \in Sessions, NEW f \in Inbound(r)' PROVE Asked(f)'
    BY <1>3, <1>5, PeerFrames, Zenon DEF FabricTypes, Fresh
  <1>6. ASSUME NEW r \in Sessions, NEW f \in Outbound(r)' PROVE Sent(f)'
    BY <1>3, <1>6, PeerFrames, Zenon DEF FabricTypes
  <1>7. ASSUME NEW w \in Threads
        PROVE  ThreadOK(threads'[w]) /\ \A f \in Range(threads'[w].pushes) : Pushed(f)'
    BY <1>1, <1>3, Zenon DEF FabricTypes
  <1>8. /\ DOMAIN threads' = Threads /\ DOMAIN to_server' = Sessions /\ DOMAIN to_peer' = Sessions
        /\ DOMAIN peers' = Sessions
    BY <1>1, Zenon DEF FabricTypes, PeerFlow, Reads, Writes
  <1> QED BY <1>4, <1>5, <1>6, <1>7, <1>8, Zenon DEF FabricTypes

FabricInv == FabricTypes /\ RegistryInv /\ DrainInv

\* A step that moves no frame: a signal and what follows from it.
Still ==
  UNCHANGED <<to_server, to_peer, threads, peers, drain_high_water, obligationVars, evidence>>

\* Every step is one of a thread, one of a peer, or moves no frame.
LEMMA FabricMoves ==
  ASSUME FabricInv, [FabricNext]_fabricVars
  PROVE  /\ RegistryInv' /\ DrainInv'
         /\ DrainIds \subseteq DrainIds' /\ ObligationIds \subseteq ObligationIds'
         /\ Grown(evidence, evidence')
         /\ \/ \E w \in Threads : ServerStep(w) /\ ServerFlow(w)
            \/ \E s \in Sessions : PeerFlow(s)
            \/ Still
  <1>1. FabricTypes /\ RegistryInv /\ DrainInv /\ TypeOK
    BY Zenon DEF FabricInv, DrainInv
  <1>2. [AnyNext]_vars
    BY <1>1, FabricCalls, Zenon
  <1>3. RegistryInv' /\ DrainInv' /\ TypeOK'
    <2>1. RegistryInv' /\ DrainInv'
      BY <1>1, <1>2, RegistryStep, CallsKeep, Zenon
    <2> QED BY <2>1, Zenon DEF DrainInv
  <1>4. DrainIds \subseteq DrainIds' /\ ObligationIds \subseteq ObligationIds'
    BY <1>1, <1>2, IdsGrow, Zenon
  <1>10. Grown(evidence, evidence')
    BY <1>1, <1>2, <1>3, LedgerGrows, Zenon
  <1>5. ASSUME NEW w \in Threads, ServerStep(w) PROVE ServerFlow(w)
    <2>1. registry \in Seq(Sessions) /\ registry' \in Seq(Sessions)
      BY <1>1, <1>3, Zenon DEF RegistryInv
    <2>2. ASSUME NEW M \in SUBSET ObligationIds PROVE Cardinality(M) \in Nat
      <3>1. obligation_high_water \in Nat /\ M \in SUBSET (1..obligation_high_water)
        BY <1>1 DEF ObligationIds, TypeOK
      <3> QED BY <3>1, PositionsAreFew, Zenon
    <2> QED BY <1>1, <1>3, <1>4, <1>5, <2>1, <2>2, ServerFlows, Zenon
  <1>6. ASSUME NEW s \in Sessions,
               PeerStep(s) \/ connect_to(s) \/ Leave(s) \/ (s \in Agents /\ AnnouncementTimesOut(s))
        PROVE  PeerFlow(s)
    BY <1>1, <1>6, PeerFlows, Zenon
  <1>7. Agents \subseteq Sessions /\ Leavers \subseteq Sessions /\ Rude \subseteq Sessions
    BY ControllerAssumption, PeersAssumption, Zenon
  <1>8. CASE ClientNext
    <2>1. CASE \E s \in Sessions \ Agents : \E request \in NextRequests(s) : Ask(s, request)
      <3>1. PICK s \in Sessions \ Agents : \E request \in NextRequests(s) : Ask(s, request)
        BY <2>1, Zenon
      <3>2. PeerFlow(s)
        BY <1>1, <3>1, AskFlow, Zenon
      <3> QED BY <1>3, <1>4, <1>10, <3>2, Zenon
    <2>2. CASE \E s \in Rude, request \in Requests[1] : AskFirst(s, request)
      <3>1. PICK s \in Rude : \E request \in Requests[1] : AskFirst(s, request)
        BY <2>2, Zenon
      <3>2. PeerFlow(s)
        BY <1>1, <3>1, RudeFlow, Zenon
      <3> QED BY <1>3, <1>4, <1>7, <1>10, <3>2, Zenon
    <2> QED BY <1>8, <2>1, <2>2, Zenon DEF ClientNext
  <1>9. Signal \/ stop_workers \/ Over \/ Terminate \/ UNCHANGED fabricVars => Still
    BY Zenon DEF Signal, stop_workers, Over, Terminate, fabricVars, Still, vars, controllerVars,
       sessionVars, requestVars
  <1> QED BY <1>3, <1>4, <1>5, <1>6, <1>7, <1>8, <1>9, <1>10, Zenon DEF FabricNext

\* Where no frame moves, none loses its shape.
LEMMA StillTypes ==
  ASSUME FabricTypes, Still
  PROVE  FabricTypes'
  <1>1. /\ to_server' = to_server /\ to_peer' = to_peer /\ threads' = threads /\ peers' = peers
        /\ DrainIds' = DrainIds /\ ObligationIds' = ObligationIds
    BY Zenon DEF Still, DrainIds, ObligationIds, obligationVars
  <1>2. ASSUME NEW s PROVE Inbound(s)' = Inbound(s) /\ Outbound(s)' = Outbound(s)
    BY <1>1, Zenon DEF Inbound, Outbound, Serviced
  <1>3. ASSUME NEW f
        PROVE  (Asked(f) => Asked(f)') /\ (Sent(f) => Sent(f)') /\ (Pushed(f) => Pushed(f)')
    BY <1>1, FormsGrow, Zenon
  <1>4. ASSUME NEW s \in Sessions, PeerOK(peers[s]) PROVE PeerOK(peers[s])'
    BY <1>1, <1>4, Zenon DEF PeerOK, IsEvacuation, Proves
  <1> QED BY <1>1, <1>2, <1>3, <1>4, Zenon DEF FabricTypes

\* At the start there are no frames, and every thread is between two sessions.
LEMMA FabricStart ==
  ASSUME FabricInit
  PROVE  FabricInv
  <1>1. RegistryInv /\ DrainInv
    BY RegistryStart, InitInv, Zenon DEF FabricInit
  <1>2. /\ to_server = [s \in Sessions |-> <<>>] /\ to_peer = [s \in Sessions |-> <<>>]
        /\ threads = [w \in Threads |-> IdleThread]
    BY Zenon DEF FabricInit, ServerInit
  <1>3. DOMAIN peers = Sessions /\ \A s \in Sessions : \E m : peers[s] = NewPeer(m)
    BY Zenon DEF FabricInit, PeersInit
  <1>4. IsQueue(<<>>) /\ Range(<<>>) = {}
    BY QueueSmall, Zenon
  <1>5. /\ ThreadOK(IdleThread) /\ Range(IdleThread.pushes) = {}
        /\ ~Owes(IdleThread) /\ IdleThread.at # "replying"
    BY IdleOK, Zenon
  <1>6. \A m : PeerOK(NewPeer(m))
    <2>1. 0 \in Nat
      OBVIOUS
    <2> QED BY <2>1, Zenon DEF PeerOK, NewPeer, PeerFields, Proves
  <1>7. \A s \in Sessions : Inbound(s) = {} /\ Outbound(s) = {}
    BY <1>2, <1>4, <1>5, Zenon DEF Inbound, Outbound
  <1> HIDE DEF IdleThread
  <1>8. FabricTypes
    BY <1>2, <1>3, <1>4, <1>5, <1>6, <1>7, Zenon DEF FabricTypes
  <1> QED BY <1>1, <1>8, Zenon DEF FabricInv

\* Every step keeps the shape of what is exchanged, and the engine's invariant with it.
LEMMA FabricStep ==
  ASSUME FabricInv, [FabricNext]_fabricVars
  PROVE  FabricInv' /\ [AnyNext]_vars
  <1>1. FabricTypes
    BY Zenon DEF FabricInv
  <1>2. FabricTypes'
    BY <1>1, FabricMoves, FlowTypes, PeerTypes, StillTypes, Zenon
  <1>3. RegistryInv' /\ DrainInv'
    BY FabricMoves, Zenon
  <1>4. [AnyNext]_vars
    BY <1>1, FabricCalls, Zenon
  <1> QED BY <1>2, <1>3, <1>4, Zenon DEF FabricInv

\* Whatever the threads interleave and the peers send, lose or retry, the controller only
\* makes calls of the engine that CallSpec allows, with arguments of their types
\* (ControllerServer::handle_frame, DrainEngine).  What is proved of CallSpec, of fences,
\* ownership, evidence and completion, therefore holds of the engine inside the controller.
THEOREM FabricMakesCalls == FabricSpec => CallSpec
  <1>1. FabricInit => Init
    BY Zenon DEF FabricInit
  <1> QED BY <1>1, FabricStart, FabricStep, PTL DEF FabricSpec, CallSpec

------------------------------------------------------------------------------
(* What counts as released is on record.  The number an obligation names   *)
(* came with a report, the report's from the answer to the evidence, and   *)
(* the answer's from the ledger: a peer gives each call a number of its    *)
(* own, so it takes no other answer for that one.                          *)

\* What is on record stays so: the newest number of a stream does not go back.
LEMMA NumbersStay ==
  ASSUME TypeOK, TypeOK', Grown(evidence, evidence'), NEW k \in EvidenceKeys,
         NEW n, n \in 1..evidence.latest[k]
  PROVE  n \in 1..evidence'.latest[k]
  <1>1. evidence \in Ledger /\ evidence' \in Ledger
    BY Zenon DEF TypeOK
  <1>2. /\ evidence.latest[k] \in Nat \cup {NoSeq} /\ evidence'.latest[k] \in Nat \cup {NoSeq}
        /\ evidence.latest[k] <= evidence'.latest[k]
    BY <1>1, Zenon DEF Ledger, Grown
  <1> QED BY <1>2 DEF NoSeq

LEMMA RecordStays ==
  ASSUME TypeOK, TypeOK', Grown(evidence, evidence'), DrainIds \subseteq DrainIds',
         NEW o \in ObligationIds, NEW n, OnRecord(o, n)
  PROVE  OnRecord(o, n)'
  <1>1. PICK d \in DrainIds : n \in 1..evidence.latest[ReleaseKey(d, o)]
    BY Zenon DEF OnRecord
  <1>2. ReleaseKey(d, o) \in EvidenceKeys
    BY ReleaseKeyTypes, Zenon
  <1>3. n \in 1..evidence'.latest[ReleaseKey(d, o)]
    BY <1>1, <1>2, NumbersStay, Zenon
  <1> QED BY <1>3, Zenon DEF OnRecord

\* A report that is on record stays so.
LEMMA ReportStays ==
  ASSUME TypeOK, TypeOK', Grown(evidence, evidence'), DrainIds \subseteq DrainIds',
         NEW f, Asked(f), ReportOK(f)
  PROVE  ReportOK(f)'
  BY RecordStays, Zenon DEF ReportOK, Asked

\* What a step does to an obligation: nothing; it retires it under the release it names, or
\* fails it; or it applies a report, on its way, of a release.  A new one names no release.
ObligationsMove ==
  /\ \A o \in ObligationIds :
       \/ obligations'[o] = obligations[o]
       \/ /\ obligations'[o].release_evidence = obligations[o].release_evidence
          /\ obligations[o].release_evidence # 0 \/ obligations'[o].state = "failed"
       \/ \E s \in Sessions : \E f \in Inbound(s) :
            /\ f.type = "obligation-report" /\ f.obligation = o /\ f.next # "failed"
            /\ obligations'[o].release_evidence = f.evidence
  /\ \A o \in ObligationIds' \ ObligationIds :
       obligations'[o].state = "admitted" /\ obligations'[o].release_evidence = 0

\* apply_state of a failure keeps what the obligation names; of a release, it names that one.
LEMMA AppliedRelease ==
  ASSUME NEW o \in ObligationRecord, NEW next \in {"failed", "released"}, NEW ev
  PROVE  \/ apply_state(o, next, ev) = o
         \/ /\ next = "failed" /\ apply_state(o, next, ev).state = "failed"
            /\ apply_state(o, next, ev).release_evidence = o.release_evidence
         \/ next = "released" /\ apply_state(o, next, ev).release_evidence = ev
  <1>1. o.state = next =>
          \/ ReobserveState(o, ev) = o
          \/ next = "released" /\ ReobserveState(o, ev).release_evidence = ev
    BY Zenon DEF ReobserveState, ObligationRecord
  <1>2. MoveState(o, next, ev).state = next
    BY Zenon DEF MoveState, ObligationRecord
  <1>3. MoveState(o, next, ev).release_evidence
          = IF next \in {"retired", "released"} THEN ev
            ELSE IF next = "admitted" THEN 0 ELSE o.release_evidence
    BY Zenon DEF MoveState, ObligationRecord
  <1>4. next = "failed" => MoveState(o, next, ev).release_evidence = o.release_evidence
    BY <1>3, Zenon
  <1>5. next = "released" => MoveState(o, next, ev).release_evidence = ev
    BY <1>3, Zenon
  <1> QED BY <1>1, <1>2, <1>4, <1>5, Zenon DEF apply_state

\* The handlers' calls.
LEMMA CallReleases ==
  ASSUME FabricTypes, TypeOK, ReleaseInv, NEW w \in Threads, Calls(w)
  PROVE  ObligationsMove
  <1> DEFINE f == threads[w].frame
  <1>1. CASE UNCHANGED <<obligations, obligation_high_water>>
    BY <1>1, Zenon DEF ObligationsMove, ObligationIds
  <1>2. ASSUME NEW deps, NEW g, NEW a, admit_obligation(deps, TRUE, g, a) PROVE ObligationsMove
    <2> DEFINE new == NewObligation(deps, TRUE, g, now)
    <2>1. /\ obligations' = [o \in 1..(obligation_high_water + 1) |->
                               IF o \in ObligationIds THEN obligations[o] ELSE new]
          /\ obligation_high_water' = obligation_high_water + 1
      BY <1>2, Zenon DEF admit_obligation
    <2>2. new.state = "admitted" /\ new.release_evidence = 0
      BY Zenon DEF NewObligation
    <2> HIDE DEF new
    <2>3. ObligationIds' = 1..(obligation_high_water + 1) /\ obligation_high_water \in Nat
      BY <2>1 DEF ObligationIds, TypeOK
    <2>4. ObligationIds \subseteq ObligationIds'
      <3>1. ObligationIds = 1..obligation_high_water
        BY Zenon DEF ObligationIds
      <3> QED BY <2>3, <3>1
    <2> QED BY <2>1, <2>2, <2>3, <2>4, Zenon DEF ObligationsMove
  <1>3. ASSUME f.type = "obligation-report",
               report_obligation(f.obligation, f.drain, f.generation, f.expected_revision,
                                 f.next, f.evidence)
        PROVE  ObligationsMove
    <2>1. Serviced(w) \in Sessions /\ f \in Inbound(Serviced(w)) /\ Asked(f)
      BY HandledFrame, Zenon DEF Calls, Owes
    <2> HIDE DEF f
    <2>2. /\ obligations' = [obligations EXCEPT ![f.obligation] = apply_state(@, f.next, f.evidence)]
          /\ obligation_high_water' = obligation_high_water
      BY <1>3, Zenon DEF report_obligation
    <2>3. f.obligation \in ObligationIds /\ obligations \in [ObligationIds -> ObligationRecord]
      BY <1>3, <2>1, Zenon DEF Asked, TypeOK
    <2>4. f.next \in {"failed", "released"}
      BY <1>3, <2>1, Zenon DEF ReleaseInv, ReportOK
    <2> DEFINE q == apply_state(obligations[f.obligation], f.next, f.evidence)
    <2>5. obligations'[f.obligation] = q
      BY <2>2, <2>3, Zenon
    <2>6. \/ q = obligations[f.obligation]
          \/ /\ f.next = "failed" /\ q.state = "failed"
             /\ q.release_evidence = obligations[f.obligation].release_evidence
          \/ f.next = "released" /\ q.release_evidence = f.evidence
      BY <2>3, <2>4, AppliedRelease, SMTT(30)
    <2> HIDE DEF q
    <2>7. \A o \in ObligationIds \ {f.obligation} : obligations'[o] = obligations[o]
      BY <2>2, <2>3, Zenon
    <2>8. ObligationIds' = ObligationIds
      BY <2>2, Zenon DEF ObligationIds
    <2> QED BY <1>3, <2>1, <2>5, <2>6, <2>7, <2>8, Zenon DEF ObligationsMove
  <1>4. \A scope, v : issue_authority(scope, v) => UNCHANGED <<obligations, obligation_high_water>>
    BY Zenon DEF issue_authority, obligationVars
  <1>5. \A S, a, n : request_drain_set(S, a, n) => UNCHANGED <<obligations, obligation_high_water>>
    BY Zenon DEF request_drain_set, obligationVars
  <1>6. \A d, a : cancel_drain(d, a) \/ restore_drain(d, a)
                    => UNCHANGED <<obligations, obligation_high_water>>
    BY Zenon DEF cancel_drain, restore_drain, obligationVars
  <1>7. \A k, seq, g, ep, p, at : record_evidence(k, seq, g, ep, p, at)
                                    => UNCHANGED <<obligations, obligation_high_water>>
    BY Zenon DEF record_evidence, obligationVars
  <1> QED BY <1>1, <1>2, <1>3, <1>4, <1>5, <1>6, <1>7, Zenon DEF Calls

\* Every step of a thread.
LEMMA ServerReleases ==
  ASSUME FabricTypes, TypeOK, ReleaseInv, NEW w \in Threads, ServerStep(w)
  PROVE  ObligationsMove
  <1>1. CASE UNCHANGED vars
    <2>1. UNCHANGED <<obligations, obligation_high_water>>
      BY <1>1, Zenon DEF vars, obligationVars
    <2> QED BY <2>1, Zenon DEF ObligationsMove, ObligationIds
  <1>2. CASE AdvancePass(w)
    <2>1. advance
      BY <1>2, Zenon DEF AdvancePass
    <2>2. ObligationIds' = ObligationIds
      BY <2>1, Zenon DEF advance, obligationVars, ObligationIds
    <2> QED BY <2>1, <2>2, AdvanceRetires, Zenon DEF ObligationsMove
  <1> QED BY <1>1, <1>2, ServerCalls, CallReleases, Zenon

\* What the obligations name stays on record.
LEMMA BackedMoves ==
  ASSUME FabricTypes, TypeOK, TypeOK', ReleaseInv, ObligationsMove, Grown(evidence, evidence'),
         DrainIds \subseteq DrainIds', NEW o \in ObligationIds'
  PROVE  Backed(o)'
  <1> DEFINE m == obligations'[o].release_evidence
  <1>1. CASE o \notin ObligationIds
    BY <1>1, Zenon DEF ObligationsMove, Backed
  <1>2. ASSUME o \in ObligationIds, NEW n, n = obligations[o].release_evidence
        PROVE  Backed(o)'
    <2>0. Backed(o)
      BY <1>2, Zenon DEF ReleaseInv
    <2>1. /\ obligations[o].state \in {"released", "retired"} => n # 0
          /\ n # 0 => OnRecord(o, n)'
      BY <1>2, <2>0, RecordStays, Zenon DEF Backed
    <2>2. CASE m = n /\ (n # 0 \/ obligations'[o].state = "failed" \/ obligations'[o] = obligations[o])
      <3>1. n # 0 => \E d \in DrainIds' : m \in 1..evidence'.latest[ReleaseKey(d, o)]
        BY <2>1, <2>2, Zenon DEF OnRecord
      <3>2. obligations'[o].state \in {"released", "retired"} => m # 0
        BY <2>1, <2>2, Zenon
      <3> QED BY <2>2, <3>1, <3>2, Zenon DEF Backed, OnRecord
    <2>3. ASSUME NEW s \in Sessions, NEW f \in Inbound(s), f.type = "obligation-report",
                 f.obligation = o, f.next # "failed", m = f.evidence
          PROVE  Backed(o)'
      <3>1. OnRecord(o, f.evidence)
        BY <2>3, Zenon DEF ReleaseInv, ReportOK
      <3>2. OnRecord(o, f.evidence)'
        BY <1>2, <3>1, RecordStays, Zenon
      <3>3. f.evidence # 0
        BY <3>1 DEF OnRecord
      <3> QED BY <2>3, <3>2, <3>3, Zenon DEF Backed
    <2> QED BY <1>2, <2>2, <2>3, Zenon DEF ObligationsMove
  <1> QED BY <1>1, <1>2, Zenon

\* A step of the server: an answer carries the number of its request.
LEMMA ReleaseServer ==
  ASSUME FabricTypes, TypeOK, TypeOK', ReleaseInv, ObligationsMove, NEW w \in Threads,
         ServerFlow(w), Grown(evidence, evidence'), DrainIds \subseteq DrainIds'
  PROVE  ReleaseInv'
  <1>1. peers' = peers
    BY Zenon DEF ServerFlow
  <1>2. \A s \in Sessions : Inbound(s)' \subseteq Inbound(s)
    BY FlowInbound, Zenon
  <1>3. Failure(0).sequence = 0 /\ \A f \in Range(threads[w].pushes) : f.sequence = 0
    BY Zenon DEF FabricTypes, Pushed, Failure
  <1>4. ASSUME NEW s \in Sessions, NEW f \in Outbound(s)'
        PROVE  \/ f \in Outbound(s) \/ f.sequence = 0 \/ \E g \in Inbound(s) : IsAnswer(g, f)
    BY <1>3, <1>4, FlowOutbound, Zenon
  <1>5. ASSUME NEW s \in Sessions PROVE NumbersOK(s)'
    <2> DEFINE N == 0..peers[s].sequence
    <2>1. 0 \in N
      <3>1. peers[s].sequence \in Nat
        BY Zenon DEF FabricTypes, PeerOK
      <3> QED BY <3>1
    <2> HIDE DEF N
    <2>2. ASSUME peers[s].pc \notin Gone, NEW f \in Inbound(s)' \cup Outbound(s)' PROVE f.sequence \in N
      <3>1. \A g \in Inbound(s) \cup Outbound(s) : g.sequence \in N
        BY <2>2, Zenon DEF ReleaseInv, NumbersOK, N
      <3> QED BY <1>2, <1>4, <2>1, <2>2, <3>1, Zenon DEF IsAnswer
    <2> QED BY <1>1, <2>2, Zenon DEF NumbersOK, N
  <1>6. ASSUME NEW s \in Sessions PROVE ProofOK(s)'
    <2> DEFINE k == ProofKey(peers[s])
    <2>1. CASE Proves(peers[s])
      <3>1. IsEvacuation(peers[s].push) /\ peers[s].sequence # 0
        BY <2>1, Zenon DEF FabricTypes, PeerOK, Proves
      <3>2. k \in EvidenceKeys
        BY <3>1, ReleaseKeyTypes, Zenon DEF IsEvacuation, ProofKey
      <3>3. /\ \A f \in Inbound(s) : f.sequence = peers[s].sequence
                 => f.type = "evidence-report" /\ f.key = k
            /\ \A f \in Outbound(s) : f.sequence = peers[s].sequence /\ f.type # "failure"
                 => f.value \in 1..evidence.latest[k]
        BY <2>1, Zenon DEF ReleaseInv, ProofOK
      <3> HIDE DEF k
      <3>4. ASSUME NEW f \in Outbound(s)', f.sequence = peers[s].sequence, f.type # "failure"
            PROVE  f.value \in 1..evidence'.latest[k]
        <4>1. CASE f \in Outbound(s)
          BY <3>2, <3>3, <3>4, <4>1, NumbersStay, Zenon
        <4>2. ASSUME NEW g \in Inbound(s), IsAnswer(g, f)
              PROVE  f.value \in 1..evidence'.latest[k]
          BY <3>3, <3>4, <4>2, Zenon DEF IsAnswer
        <4> QED BY <1>4, <3>1, <3>4, <4>1, <4>2, Zenon
      <3> QED BY <1>1, <1>2, <3>3, <3>4, Zenon DEF ProofOK, k
    <2>2. CASE ~Proves(peers[s])
      BY <1>1, <2>2, Zenon DEF ProofOK
    <2> QED BY <2>1, <2>2, Zenon
  <1>7. ASSUME NEW s \in Sessions, NEW f \in Inbound(s)' PROVE ReportOK(f)'
    BY <1>2, <1>7, ReportStays, Zenon DEF ReleaseInv, FabricTypes
  <1> QED BY <1>5, <1>6, <1>7, BackedMoves, Zenon DEF ReleaseInv

\* A step of a peer: it numbers what it sends, and reports the number it was answered.
LEMMA ReleasePeer ==
  ASSUME FabricTypes, ReleaseInv, NEW s \in Sessions, PeerFlow(s)
  PROVE  ReleaseInv'
  <1> DEFINE p == peers[s]
             q == peers'[s]
  <1>1. UNCHANGED <<obligations, obligation_high_water, evidence, drain_high_water>>
    BY Zenon DEF PeerFlow, vars, obligationVars, requestVars
  <1>2. /\ DrainIds' = DrainIds /\ ObligationIds' = ObligationIds
        /\ \A o, n : OnRecord(o, n)' <=> OnRecord(o, n)
    BY <1>1, Zenon DEF DrainIds, ObligationIds, OnRecord
  <1>3. /\ Turned(s) /\ PeerOK(q) /\ PeerOK(p)
        /\ \A r \in Sessions \ {s} : peers'[r] = peers[r]
    BY Zenon DEF PeerFlow, FabricTypes
  <1>4. /\ \A r \in Sessions : Outbound(r)' \subseteq Outbound(r)
        /\ \A r \in Sessions \ {s} : Inbound(r)' \subseteq Inbound(r)
        /\ \A f \in Inbound(s)' : f \in Inbound(s) \/ Fresh(s, f)
    BY PeerFrames, Zenon
  <1>5. ASSUME NEW r \in Sessions \ {s} PROVE NumbersOK(r)' /\ ProofOK(r)'
    <2>1. NumbersOK(r) /\ ProofOK(r)
      BY Zenon DEF ReleaseInv
    <2> QED BY <1>1, <1>3, <1>4, <2>1, Zenon DEF NumbersOK, ProofOK
  <1>6. p.sequence \in Nat /\ q.sequence \in Nat
    BY <1>3, Zenon DEF PeerOK
  <1>7. q.pc \notin Gone => \A f \in Inbound(s) \cup Outbound(s) : f.sequence \in 0..p.sequence
    BY <1>3, Zenon DEF Turned, ReleaseInv, NumbersOK
  <1>8. NumbersOK(s)'
    <2>1. CASE q.pc \in Gone
      BY <2>1, Zenon DEF NumbersOK
    <2>2. CASE q.pc \notin Gone
      <3>1. p.sequence <= q.sequence
        BY <1>3, <2>2, Zenon DEF Turned
      <3>2. \A n : n \in 0..p.sequence => n \in 0..q.sequence
        BY <1>6, <3>1
      <3>3. q.sequence \in 0..q.sequence
        BY <1>6
      <3>4. \A f \in Inbound(s)' \cup Outbound(s)' : f.sequence \in 0..q.sequence
        BY <1>4, <1>7, <2>2, <3>2, <3>3, Zenon DEF Fresh
      <3> QED BY <3>4, Zenon DEF NumbersOK
    <2> QED BY <2>1, <2>2, Zenon
  <1>9. ProofOK(s)'
    <2>1. CASE ~Proves(q)
      BY <2>1, Zenon DEF ProofOK
    <2>2. CASE Proves(q) /\ q = p
      <3>1. ProofOK(s)
        BY Zenon DEF ReleaseInv
      <3>2. \A f \in Inbound(s)' : f.sequence = q.sequence
              => f.type = "evidence-report" /\ f.key = ProofKey(q)
        BY <1>4, <2>2, <3>1, Zenon DEF ProofOK, Fresh
      <3>3. \A f \in Outbound(s)' : f.sequence = q.sequence /\ f.type # "failure"
              => f.value \in 1..evidence'.latest[ProofKey(q)]
        BY <1>1, <1>4, <2>2, <3>1, Zenon DEF ProofOK
      <3> QED BY <3>2, <3>3, Zenon DEF ProofOK
    <2>3. CASE Proves(q) /\ p.sequence < q.sequence
      <3>1. q.pc \notin Gone
        BY <2>3, Zenon DEF Proves, Gone
      <3>2. q.sequence \notin 0..p.sequence
        BY <1>6, <2>3
      <3>3. \A f \in Inbound(s) \cup Outbound(s) : f.sequence # q.sequence
        BY <1>7, <3>1, <3>2, Zenon
      <3>4. \A f \in Inbound(s)' : f.sequence = q.sequence
              => f.type = "evidence-report" /\ f.key = ProofKey(q)
        BY <1>4, <2>3, <3>3, Zenon DEF Fresh
      <3> QED BY <1>4, <3>3, <3>4, Zenon DEF ProofOK
    <2> QED BY <1>3, <2>1, <2>2, <2>3, Zenon DEF Turned
  <1>10. ASSUME NEW f, Fresh(s, f) PROVE ReportOK(f)
    <2>1. CASE f.type = "obligation-report" /\ f.next # "failed"
      <3>1. /\ f.next = "released" /\ Proves(p) /\ f.obligation = p.push.obligation
            /\ \E g \in Outbound(s) :
                 g.type # "failure" /\ g.sequence = p.sequence /\ f.evidence = g.value
        BY <1>10, <2>1, Zenon DEF Fresh
      <3>2. f.evidence \in 1..evidence.latest[ReleaseKey(p.push.drain, p.push.obligation)]
        BY <3>1, Zenon DEF ReleaseInv, ProofOK, ProofKey
      <3>3. p.push.drain \in DrainIds
        BY <1>3, <3>1, Zenon DEF PeerOK, IsEvacuation
      <3> QED BY <3>1, <3>2, <3>3, Zenon DEF ReportOK, OnRecord
    <2> QED BY <2>1, Zenon DEF ReportOK
  <1>11. ASSUME NEW r \in Sessions, NEW f \in Inbound(r)' PROVE ReportOK(f)'
    <2>1. ReportOK(f)
      BY <1>4, <1>10, <1>11, Zenon DEF ReleaseInv
    <2> QED BY <1>2, <2>1, Zenon DEF ReportOK
  <1>12. ASSUME NEW o \in ObligationIds' PROVE Backed(o)'
    <2>1. Backed(o)
      BY <1>2, <1>12, Zenon DEF ReleaseInv
    <2> QED BY <1>1, <1>2, <2>1, Zenon DEF Backed
  <1> QED BY <1>5, <1>8, <1>9, <1>11, <1>12, Zenon DEF ReleaseInv

\* Where no frame moves, nothing is reported or released.
LEMMA ReleaseStill ==
  ASSUME ReleaseInv, Still
  PROVE  ReleaseInv'
  <1>1. /\ to_server' = to_server /\ to_peer' = to_peer /\ threads' = threads /\ peers' = peers
        /\ obligations' = obligations /\ evidence' = evidence
        /\ ObligationIds' = ObligationIds /\ DrainIds' = DrainIds
    BY Zenon DEF Still, ObligationIds, DrainIds, obligationVars
  <1>2. ASSUME NEW s PROVE Inbound(s)' = Inbound(s) /\ Outbound(s)' = Outbound(s)
    BY <1>1, Zenon DEF Inbound, Outbound, Serviced
  <1>3. \A o, n : OnRecord(o, n)' <=> OnRecord(o, n)
    BY <1>1, Zenon DEF OnRecord
  <1>4. ASSUME NEW s PROVE (NumbersOK(s) => NumbersOK(s)') /\ (ProofOK(s) => ProofOK(s)')
    BY <1>1, <1>2, Zenon DEF NumbersOK, ProofOK
  <1>5. ASSUME NEW f, ReportOK(f) PROVE ReportOK(f)'
    BY <1>3, <1>5, Zenon DEF ReportOK
  <1>6. ASSUME NEW o, Backed(o) PROVE Backed(o)'
    BY <1>1, <1>3, <1>6, Zenon DEF Backed
  <1> QED BY <1>1, <1>2, <1>4, <1>5, <1>6, Zenon DEF ReleaseInv

\* At the start there is nothing to release.
LEMMA ReleaseStart ==
  ASSUME FabricInit
  PROVE  ReleaseInv
  <1>1. /\ to_server = [s \in Sessions |-> <<>>] /\ to_peer = [s \in Sessions |-> <<>>]
        /\ threads = [w \in Threads |-> IdleThread] /\ obligation_high_water = 0
    BY Zenon DEF FabricInit, ServerInit, Init
  <1>2. Range(<<>>) = {} /\ ~Owes(IdleThread) /\ IdleThread.at # "replying"
    BY IdleOK, QueueSmall, Zenon
  <1> HIDE DEF IdleThread
  <1>3. \A s \in Sessions : Inbound(s) = {} /\ Outbound(s) = {}
    BY <1>1, <1>2, Zenon DEF Inbound, Outbound
  <1>4. ObligationIds = {}
    BY <1>1 DEF ObligationIds
  <1> QED BY <1>3, <1>4, Zenon DEF ReleaseInv, NumbersOK, ProofOK

\* Every step of the fabric.
LEMMA ReleaseStep ==
  ASSUME FabricInv, ReleaseInv, [FabricNext]_fabricVars
  PROVE  ReleaseInv'
  <1>1. FabricTypes /\ TypeOK
    BY Zenon DEF FabricInv, DrainInv
  <1>2. TypeOK' /\ DrainIds \subseteq DrainIds' /\ Grown(evidence, evidence')
    BY FabricMoves, Zenon DEF DrainInv
  <1>3. ASSUME NEW w \in Threads, ServerStep(w), ServerFlow(w) PROVE ReleaseInv'
    BY <1>1, <1>2, <1>3, ServerReleases, ReleaseServer, Zenon
  <1>4. ASSUME NEW s \in Sessions, PeerFlow(s) PROVE ReleaseInv'
    BY <1>1, <1>4, ReleasePeer, Zenon
  <1> QED BY <1>3, <1>4, FabricMoves, ReleaseStill, Zenon

\* The controller counts an obligation as released or retired only under release evidence
\* its ledger took before (AgentSession::handle_evacuation, DrainEngine::report_obligation):
\* with any number of threads and of agents, and whatever is broadcast, retried, dropped or
\* cut off, no report overtakes the evidence it names, and no agent takes another answer
\* for the one to its evidence.
THEOREM ReleasesStayOnRecord == FabricSpec => []ReleasesAreOnRecord
  <1>1. ReleaseInv => ReleasesAreOnRecord
    BY Zenon DEF ReleaseInv, Backed, OnRecord, ReleasesAreOnRecord
  <1> QED BY <1>1, FabricStart, FabricStep, ReleaseStart, ReleaseStep, PTL DEF FabricSpec
==============================================================================
