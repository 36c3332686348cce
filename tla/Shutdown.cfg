SPECIFICATION Spec
CONSTANTS
  Rpc <- RpcOf
  Http = {"pull", "push"}
INVARIANTS ProcessTypeOK OperationsDrained AcceptedIsAnswered
PROPERTY ShutdownEnds
CHECK_DEADLOCK FALSE
