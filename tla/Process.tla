------------------------------ MODULE Process ------------------------------
(***************************************************************************)
(* One life of the process: two gRPC servers, the data-plane server, the   *)
(* workers of Operations, and the shutdown goroutine that stops them in a  *)
(* fixed order (cmd/kacho-registry/serve.go, handler/operation_handler.go).*)
(*                                                                         *)
(* A mutating RPC persists an Operation and then starts its worker with    *)
(* operations.Run, in the handler; a handler that dies in between leaves   *)
(* an Operation nobody finishes.  What a worker does is in ControlPlane,   *)
(* what a data-plane request does in DataPlane.  Timeouts are choices.     *)
(***************************************************************************)
EXTENDS Naturals

CONSTANTS
  Rpc,        \* mutating RPCs, by server: Rpc[s], s \in {"internal", "public"}
  Http        \* data-plane requests

Server == {"internal", "public", "dataplane"}

\* The requests of each server, and the RPCs of both gRPC servers.
Of == [s \in Server |-> IF s = "dataplane" THEN Http ELSE Rpc[s]]
Rpcs == Rpc["internal"] \union Rpc["public"]
Request == Rpcs \union Http

ASSUME ProcessAssumption ==
  /\ Rpc["internal"] \intersect Rpc["public"] = {}
  /\ Rpcs \intersect Http = {}

VARIABLES
  stopping,   \* the context of NotifyContext is done
  server,     \* server[s]
  handler,    \* handler[r]
  op,         \* op[r]: the row of the Operation of r
  worker,     \* worker[r]
  shutdown,   \* what the shutdown goroutine waits for
  main,
  \* history, read by no guard
  timedOut,   \* the waits of shutdown that ended by their timeout
  killed      \* the process died

vars == <<stopping, server, handler, op, worker, shutdown, main, timedOut, killed>>

ProcessTypeOK ==
  /\ stopping \in BOOLEAN
  /\ server \in [Server -> {"serving", "draining", "stopped"}]
  /\ handler \in [Request -> {"none", "accepted", "persisted", "returned", "cut"}]
  /\ op \in [Rpcs -> {"none", "undone", "done"}]
  /\ worker \in [Rpcs -> {"none", "running", "ended", "cut"}]
  /\ shutdown \in {"ctx", "internal", "public", "dataplane", "workers", "done"}
  /\ main \in {"serving", "returned", "exited"}
  /\ timedOut \subseteq {"dataplane", "workers"}
  /\ killed \in BOOLEAN

Init ==
  /\ stopping = FALSE
  /\ server = [s \in Server |-> "serving"]
  /\ handler = [r \in Request |-> "none"]
  /\ op = [r \in Rpcs |-> "none"]
  /\ worker = [r \in Rpcs |-> "none"]
  /\ shutdown = "ctx" /\ main = "serving"
  /\ timedOut = {} /\ killed = FALSE

InFlight(s) == {r \in Of[s] : handler[r] \in {"accepted", "persisted"}}
Alive == main # "exited"

-----------------------------------------------------------------------------
\* Requests.
Handle(r, from, to) ==
  /\ Alive /\ handler[r] = from
  /\ handler' = [handler EXCEPT ![r] = to]
  /\ UNCHANGED <<stopping, server, shutdown, main, timedOut, killed>>

Accept(s, r) ==
  /\ r \in Of[s] /\ server[s] = "serving"
  /\ Handle(r, "none", "accepted")
  /\ UNCHANGED <<op, worker>>

\* A read, a refusal, or a data-plane request that has been answered.
Reply(r) == Handle(r, "accepted", "returned") /\ UNCHANGED <<op, worker>>

\* CreateWithPrincipal.
Persist(r) ==
  /\ Handle(r, "accepted", "persisted")
  /\ op' = [op EXCEPT ![r] = "undone"]
  /\ UNCHANGED worker

\* operations.Run counts the worker and starts it; the handler returns the
\* Operation.
Run(r) ==
  /\ Handle(r, "persisted", "returned")
  /\ worker' = [worker EXCEPT ![r] = "running"]
  /\ UNCHANGED op

\* The worker writes its result, unless the Operation was cancelled.
Finish(r) ==
  /\ Alive /\ worker[r] = "running"
  /\ worker' = [worker EXCEPT ![r] = "ended"]
  /\ op' = [op EXCEPT ![r] = "done"]
  /\ UNCHANGED <<stopping, server, handler, shutdown, main, timedOut, killed>>

\* OperationHandler.Cancel, on either gRPC server; the worker is not told.
Cancel(r) ==
  /\ Alive /\ \E s \in {"internal", "public"} : server[s] = "serving"
  /\ op[r] = "undone"
  /\ op' = [op EXCEPT ![r] = "done"]
  /\ UNCHANGED <<stopping, server, handler, worker, shutdown, main, timedOut, killed>>

-----------------------------------------------------------------------------
\* SIGTERM or SIGINT.
Signal ==
  /\ Alive /\ ~stopping
  /\ stopping' = TRUE
  /\ UNCHANGED <<server, handler, op, worker, shutdown, main, timedOut, killed>>

\* The accept loop of the public server fails: main goes on to cancel(), while the
\* connections there are go on making calls.  For the other servers the failure is
\* only logged.
ServeFails ==
  /\ main = "serving" /\ server["public"] = "serving"
  /\ main' = "returned" /\ stopping' = TRUE
  /\ UNCHANGED <<server, handler, op, worker, shutdown, timedOut, killed>>

\* grpcSrv.Serve returns when GracefulStop is over; then cancel().
ServeReturns ==
  /\ main = "serving" /\ server["public"] = "stopped"
  /\ main' = "returned" /\ stopping' = TRUE
  /\ UNCHANGED <<server, handler, op, worker, shutdown, timedOut, killed>>

\* The shutdown goroutine goes from one wait to the next; srv are the servers
\* as it leaves them.
Step(from, to, srv) ==
  /\ Alive /\ shutdown = from
  /\ shutdown' = to
  /\ server' = srv
  /\ UNCHANGED <<stopping, handler, op, worker, main, killed>>

StopInternal ==
  /\ stopping
  /\ Step("ctx", "internal", [server EXCEPT !["internal"] = "draining"])
  /\ UNCHANGED timedOut

\* Mutant: Stop instead of GracefulStop, which does not wait for the handlers.
DrainedAtOnce(s) == TRUE

\* GracefulStop returns when the handlers of the server have.
Drained(s) == InFlight(s) = {}

StopPublic ==
  /\ Drained("internal")
  /\ Step("internal", "public",
          [server EXCEPT !["internal"] = "stopped", !["public"] = "draining"])
  /\ UNCHANGED timedOut

StopDataplane ==
  /\ Drained("public")
  /\ Step("public", "dataplane",
          [server EXCEPT !["public"] = "stopped", !["dataplane"] = "draining"])
  /\ UNCHANGED timedOut

\* Mutant: the step after the data plane is one nobody takes.
WaitWorkersMisnamed ==
  \/ /\ InFlight("dataplane") = {}
     /\ Step("dataplane", "worker", [server EXCEPT !["dataplane"] = "stopped"])
     /\ UNCHANGED timedOut
  \/ /\ Step("dataplane", "workers", server)
     /\ timedOut' = timedOut \union {"dataplane"}

\* dpServer.Shutdown, which gives up after its timeout and cuts nobody off.
WaitWorkers ==
  \/ /\ InFlight("dataplane") = {}
     /\ Step("dataplane", "workers", [server EXCEPT !["dataplane"] = "stopped"])
     /\ UNCHANGED timedOut
  \/ /\ Step("dataplane", "workers", server)
     /\ timedOut' = timedOut \union {"dataplane"}

NoWorkers == \A r \in Rpcs : worker[r] # "running"

\* operations.Wait.
WorkersDone ==
  /\ NoWorkers
  /\ Step("workers", "done", server)
  /\ UNCHANGED timedOut

\* Mutant: Wait is given a context without a deadline.
WaitForEver == WorkersDone

WorkersTimeOut ==
  /\ Step("workers", "done", server)
  /\ timedOut' = timedOut \union {"workers"}

\* What the end of the process does to whatever still runs.
End ==
  /\ main' = "exited"
  /\ handler' = [r \in Request |-> IF handler[r] \in {"accepted", "persisted"}
                                     THEN "cut" ELSE handler[r]]
  /\ worker' = [r \in Rpcs |-> IF worker[r] = "running" THEN "cut" ELSE worker[r]]
  /\ UNCHANGED <<stopping, server, op, shutdown, timedOut>>

\* Mutant: main does not wait for shutdownDone.
ExitAtOnce ==
  /\ main = "returned"
  /\ End
  /\ UNCHANGED killed

\* runServe returns.
Exit ==
  /\ main = "returned" /\ shutdown = "done"
  /\ End
  /\ UNCHANGED killed

\* SIGKILL, a panic, the loss of the node.
Kill ==
  /\ Alive
  /\ End
  /\ killed' = TRUE

Handlers(r) == Reply(r) \/ Persist(r) \/ Run(r)

Shutdown ==
  \/ StopInternal \/ StopPublic \/ StopDataplane \/ WaitWorkers
  \/ WorkersDone \/ WorkersTimeOut

Next ==
  \/ \E s \in Server, r \in Request : Accept(s, r)
  \/ \E r \in Rpcs : Handlers(r) \/ Finish(r) \/ Cancel(r)
  \/ \E r \in Http : Reply(r)
  \/ Signal \/ ServeFails \/ ServeReturns \/ Shutdown \/ Exit \/ Kill

\* The goroutines of main run, and every RPC handler returns.  Nothing is assumed
\* of workers and data-plane requests: they may hang.
Spec ==
  /\ Init /\ [][Next]_vars
  /\ WF_vars(Shutdown) /\ WF_vars(ServeReturns) /\ WF_vars(Exit)
  /\ \A r \in Rpcs : WF_vars(Handlers(r))

-----------------------------------------------------------------------------
\* serve.go ("SIGTERM must not leave an async mutation done=false for ever"): a
\* process that ends by itself leaves no Operation undone, also one persisted by an
\* RPC that was accepted during the shutdown, unless the wait for workers timed out.
OperationsDrained ==
  main = "exited" /\ ~killed /\ "workers" \notin timedOut =>
    \A r \in Rpcs : op[r] # "undone"

\* serve.go (graceful drain): whatever order signal, failures of listeners and
\* requests come in, an RPC that was accepted is answered before the process ends,
\* and so is a docker push or pull unless its wait timed out.
AcceptedIsAnswered ==
  main = "exited" /\ ~killed =>
    \A r \in Request : handler[r] = "cut" => r \in Http /\ "dataplane" \in timedOut

\* serve.go (bounded timeouts): once the context is done the process ends, even if
\* workers and data-plane requests hang.
ShutdownEnds == stopping ~> main = "exited"
=============================================================================
