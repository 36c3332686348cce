--------------------------- MODULE Process_proofs ---------------------------
(***************************************************************************)
(* Proofs about Process: an orderly end of the process leaves no Operation *)
(* undone and no accepted request unanswered, for any number of requests.  *)
(***************************************************************************)
EXTENDS Process, TLAPS

\* GracefulStop and Shutdown: a stopped server has no handler left.
StoppedIsDrained == \A s \in Server : server[s] = "stopped" => InFlight(s) = {}

\* The order of the shutdown goroutine; only the data plane may be left behind.
StoppedInOrder ==
  /\ shutdown \in {"public", "dataplane", "workers", "done"} => server["internal"] = "stopped"
  /\ shutdown \in {"dataplane", "workers", "done"} => server["public"] = "stopped"
  /\ shutdown \in {"workers", "done"} =>
       server["dataplane"] = "stopped" \/ "dataplane" \in timedOut

\* An Operation that is not done has a handler about to start its worker, or a
\* worker.
UndoneIsHeld ==
  \A r \in Rpcs : op[r] = "undone" => handler[r] = "persisted" \/ worker[r] = "running"

\* operations.Wait returned because there was no worker, and none started since.
WorkersOver == shutdown = "done" /\ "workers" \notin timedOut => NoWorkers

NobodyCut == \A r \in Request : handler[r] # "cut"

Orderly ==
  StoppedIsDrained /\ StoppedInOrder /\ UndoneIsHeld /\ WorkersOver /\ NobodyCut

IInv ==
  /\ ProcessTypeOK
  /\ Alive => Orderly
  /\ OperationsDrained
  /\ AcceptedIsAnswered

-----------------------------------------------------------------------------
\* A request belongs to one server.
LEMMA OneServer ==
  /\ Of["internal"] = Rpc["internal"] /\ Of["public"] = Rpc["public"]
  /\ Of["dataplane"] = Http
  /\ \A r \in Request : \E s \in Server : r \in Of[s]
  /\ \A s, t \in Server : s # t => Of[s] \intersect Of[t] = {}
<1>1. /\ Of["internal"] = Rpc["internal"] /\ Of["public"] = Rpc["public"]
      /\ Of["dataplane"] = Http
  BY DEF Of, Server
<1>2. \A r \in Request : \E s \in Server : r \in Of[s]
  BY <1>1 DEF Request, Rpcs, Server
<1>3. \A s, t \in Server : s # t => Of[s] \intersect Of[t] = {}
  BY <1>1, ProcessAssumption DEF Rpcs, Server
<1> QED  BY <1>1, <1>2, <1>3

LEMMA InitInv == Init => IInv
<1> SUFFICES ASSUME Init PROVE IInv
  OBVIOUS
<1>1. ProcessTypeOK
  BY DEF Init, ProcessTypeOK, Server
<1>2. Orderly
  BY DEF Init, Orderly, StoppedIsDrained, StoppedInOrder, UndoneIsHeld, WorkersOver,
         NobodyCut, Server, InFlight, Rpcs, Request
<1>3. main # "exited"
  BY DEF Init
<1> QED  BY <1>1, <1>2, <1>3 DEF IInv, OperationsDrained, AcceptedIsAnswered

\* Every step keeps the types of the variables.
LEMMA TypeStep == ASSUME ProcessTypeOK, [Next]_vars PROVE ProcessTypeOK'
<1> USE DEF ProcessTypeOK
<1>1. CASE \E s \in Server, r \in Request : Accept(s, r)
  BY <1>1 DEF Accept, Handle
<1>2. CASE \E r \in Rpcs : Handlers(r)
  BY <1>2 DEF Handlers, Reply, Persist, Run, Handle
<1>3. CASE \E r \in Rpcs : Finish(r) \/ Cancel(r)
  BY <1>3 DEF Finish, Cancel
<1>4. CASE \E r \in Http : Reply(r)
  BY <1>4 DEF Reply, Handle
<1>5. CASE Signal \/ ServeFails \/ ServeReturns
  BY <1>5 DEF Signal, ServeFails, ServeReturns
<1>6. CASE Shutdown
  <2>1. CASE StopInternal
    BY <2>1 DEF StopInternal, Step, Server
  <2>5. CASE StopPublic
    BY <2>5 DEF StopPublic, Step, Server
  <2>4. CASE StopDataplane
    BY <2>4 DEF StopDataplane, Step, Server
  <2>2. CASE WaitWorkers
    BY <2>2 DEF WaitWorkers, Step, Server
  <2>3. CASE WorkersDone \/ WorkersTimeOut
    BY <2>3 DEF WorkersDone, WorkersTimeOut, Step
  <2> QED  BY <1>6, <2>1, <2>2, <2>3, <2>4, <2>5 DEF Shutdown
<1>7. CASE Exit \/ Kill
  <2>1. End /\ killed' \in BOOLEAN
    BY <1>7 DEF Exit, Kill
  <2>2. handler' \in [Request -> {"none", "accepted", "persisted", "returned", "cut"}]
    BY <2>1 DEF End
  <2>3. worker' \in [Rpcs -> {"none", "running", "ended", "cut"}]
    BY <2>1 DEF End
  <2> QED  BY <2>1, <2>2, <2>3 DEF End
<1>8. CASE UNCHANGED vars
  BY <1>8 DEF vars
<1> QED  BY <1>1, <1>2, <1>3, <1>4, <1>5, <1>6, <1>7, <1>8 DEF Next

\* A step of a process that goes on: nobody is accepted by a stopped server, and
\* no worker starts once the gRPC servers have stopped.
LEMMA OrderlyStep ==
  ASSUME ProcessTypeOK, Alive, Orderly, Next, Alive'
  PROVE  Orderly'
<1> USE DEF Orderly
<1> USE DEF StoppedIsDrained, StoppedInOrder, UndoneIsHeld, WorkersOver, NobodyCut
<1>1. ASSUME NEW s \in Server, NEW r \in Request, Accept(s, r)  PROVE Orderly'
  <2>1. \A t \in Server : server[t] = "stopped" => r \notin Of[t]
    BY <1>1, OneServer DEF Accept
  <2>2. StoppedIsDrained'
    BY <1>1, <2>1 DEF Accept, Handle, InFlight, ProcessTypeOK
  <2>3. UndoneIsHeld'
    BY <1>1 DEF Accept, Handle, ProcessTypeOK, Request
  <2> QED  BY <1>1, <2>2, <2>3 DEF Accept, Handle, ProcessTypeOK, NoWorkers
<1>2. ASSUME NEW r \in Request, Reply(r)  PROVE Orderly'
  <2>1. StoppedIsDrained'
    BY <1>2 DEF Reply, Handle, InFlight, ProcessTypeOK
  <2>2. UndoneIsHeld'
    BY <1>2 DEF Reply, Handle, ProcessTypeOK, Request
  <2> QED  BY <1>2, <2>1, <2>2 DEF Reply, Handle, ProcessTypeOK, NoWorkers
<1>3. ASSUME NEW r \in Rpcs, Persist(r)  PROVE Orderly'
  <2> r \in Request
    BY DEF Request
  <2>1. StoppedIsDrained'
    BY <1>3 DEF Persist, Handle, InFlight, ProcessTypeOK
  <2>2. UndoneIsHeld'
    BY <1>3 DEF Persist, Handle, ProcessTypeOK, Request
  <2> QED  BY <1>3, <2>1, <2>2 DEF Persist, Handle, ProcessTypeOK, NoWorkers
<1>4. ASSUME NEW r \in Rpcs, Run(r)  PROVE Orderly'
  <2> r \in Request
    BY DEF Request
  <2>1. shutdown # "done"
    <3>1. PICK s \in {"internal", "public"} : r \in Of[s]
      BY OneServer DEF Rpcs
    <3>2. InFlight(s) # {}
      BY <1>4, <3>1 DEF Run, Handle, InFlight
    <3> QED  BY <3>2 DEF Server
  <2>2. StoppedIsDrained'
    BY <1>4 DEF Run, Handle, InFlight, ProcessTypeOK
  <2>3. UndoneIsHeld'
    BY <1>4 DEF Run, Handle, ProcessTypeOK, Request
  <2> QED  BY <1>4, <2>1, <2>2, <2>3 DEF Run, Handle, ProcessTypeOK
<1>5. ASSUME NEW r \in Rpcs, Finish(r) \/ Cancel(r)  PROVE Orderly'
  <2>1. StoppedIsDrained' /\ StoppedInOrder' /\ NobodyCut'
    BY <1>5 DEF Finish, Cancel, InFlight
  <2>2. UndoneIsHeld'
    BY <1>5 DEF Finish, Cancel, ProcessTypeOK
  <2>3. WorkersOver'
    BY <1>5 DEF Finish, Cancel, ProcessTypeOK, NoWorkers
  <2> QED  BY <2>1, <2>2, <2>3
<1>6. CASE Signal \/ ServeFails \/ ServeReturns
  BY <1>6 DEF Signal, ServeFails, ServeReturns, InFlight, NoWorkers
<1>7. CASE Shutdown
  <2>1. UndoneIsHeld' /\ NobodyCut'
    BY <1>7 DEF Shutdown, StopInternal, StopPublic, StopDataplane, WaitWorkers,
                WorkersDone, WorkersTimeOut, Step
  <2>2. StoppedIsDrained'
    BY <1>7 DEF Shutdown, StopInternal, StopPublic, StopDataplane, WaitWorkers,
                WorkersDone, WorkersTimeOut, Step, Drained, InFlight, Server, ProcessTypeOK
  <2>3. StoppedInOrder'
    BY <1>7 DEF Shutdown, StopInternal, StopPublic, StopDataplane, WaitWorkers,
                WorkersDone, WorkersTimeOut, Step, Server, ProcessTypeOK
  <2>4. WorkersOver'
    BY <1>7 DEF Shutdown, StopInternal, StopPublic, StopDataplane, WaitWorkers,
                WorkersDone, WorkersTimeOut, Step, NoWorkers
  <2> QED  BY <2>1, <2>2, <2>3, <2>4
<1>8. CASE Exit \/ Kill
  BY <1>8 DEF Exit, Kill, End, Alive
<1> QED
  BY <1>1, <1>2, <1>3, <1>4, <1>5, <1>6, <1>7, <1>8 DEF Next, Handlers, Request

\* runServe returns: every gRPC server is drained and the workers are over.
LEMMA ExitIsClean ==
  ASSUME ProcessTypeOK, Alive, Orderly, Exit
  PROVE  OperationsDrained' /\ AcceptedIsAnswered'
<1>1. InFlight("internal") = {} /\ InFlight("public") = {}
  BY DEF Exit, Orderly, StoppedInOrder, StoppedIsDrained, Server
<1>2. \A r \in Rpcs : handler[r] \notin {"accepted", "persisted"}
  BY <1>1, OneServer DEF InFlight, Rpcs
<1>3. OperationsDrained'
  BY <1>2 DEF OperationsDrained, Exit, End, Orderly, UndoneIsHeld, WorkersOver, NoWorkers
<1>4. "dataplane" \notin timedOut => \A r \in Http : handler[r] \notin {"accepted", "persisted"}
  BY OneServer DEF Exit, Orderly, StoppedInOrder, StoppedIsDrained, Server, InFlight
<1>5. AcceptedIsAnswered'
  <2> SUFFICES ASSUME NEW r \in Request, handler'[r] = "cut"
               PROVE  r \in Http /\ "dataplane" \in timedOut'
    BY DEF AcceptedIsAnswered
  <2>1. handler[r] \in {"accepted", "persisted"}
    BY DEF Exit, End, Orderly, NobodyCut
  <2> QED  BY <1>2, <1>4, <2>1 DEF Request, Exit, End
<1> QED  BY <1>3, <1>5

LEMMA StepInv == IInv /\ [Next]_vars => IInv'
<1> SUFFICES ASSUME IInv, [Next]_vars PROVE IInv'
  OBVIOUS
<1>1. ProcessTypeOK'
  BY TypeStep DEF IInv
<1>2. CASE UNCHANGED vars
  BY <1>1, <1>2 DEF IInv, vars, Alive, Orderly, StoppedIsDrained, StoppedInOrder, UndoneIsHeld,
     WorkersOver, NobodyCut, InFlight, NoWorkers, OperationsDrained, AcceptedIsAnswered
<1>3. CASE Next
  <2>1. Alive
    BY <1>3 DEF Next, Accept, Handlers, Reply, Persist, Run, Handle, Finish, Cancel, Signal,
       ServeFails, ServeReturns, Shutdown, StopInternal, StopPublic, StopDataplane,
       WaitWorkers, WorkersDone, WorkersTimeOut, Step, Exit, Kill, Alive
  <2>2. CASE Alive'
    <3>1. Orderly'
      BY <1>3, <2>1, <2>2, OrderlyStep DEF IInv
    <3> QED  BY <1>1, <2>2, <3>1 DEF IInv, Alive, OperationsDrained, AcceptedIsAnswered
  <2>3. CASE ~Alive'
    <3>1. Exit \/ Kill
      BY <1>3, <2>1, <2>3 DEF Next, Accept, Handlers, Reply, Persist, Run, Handle, Finish,
         Cancel, Signal, ServeFails, ServeReturns, Shutdown, StopInternal, StopPublic,
         StopDataplane, WaitWorkers, WorkersDone, WorkersTimeOut, Step, Alive
    <3>2. CASE Exit
      BY <1>1, <2>1, <2>3, <3>2, ExitIsClean DEF IInv
    <3>3. CASE Kill
      BY <1>1, <2>3, <3>3 DEF IInv, Kill, OperationsDrained, AcceptedIsAnswered
    <3> QED  BY <3>1, <3>2, <3>3
  <2> QED  BY <2>2, <2>3
<1> QED  BY <1>2, <1>3

\* The inductive invariant of the shutdown holds in every behaviour.
THEOREM ProcessInvariant == Spec => []IInv
  BY InitInv, StepInv, PTL DEF Spec

\* Type correctness, for any RPCs and data-plane requests.
THEOREM ProcessTypes == Spec => []ProcessTypeOK
<1>1. IInv => ProcessTypeOK
  BY DEF IInv
<1> QED  BY <1>1, ProcessInvariant, PTL

\* serve.go: whatever the number of RPCs and the order of events, a process that ends
\* by itself with its workers waited for leaves no Operation undone.
THEOREM NoOperationLeft == Spec => []OperationsDrained
<1>1. IInv => OperationsDrained
  BY DEF IInv
<1> QED  BY <1>1, ProcessInvariant, PTL

\* serve.go: nor does it cut off an accepted RPC, or a data-plane request unless the
\* wait for the data plane timed out.
THEOREM NoRequestCut == Spec => []AcceptedIsAnswered
<1>1. IInv => AcceptedIsAnswered
  BY DEF IInv
<1> QED  BY <1>1, ProcessInvariant, PTL
=============================================================================
