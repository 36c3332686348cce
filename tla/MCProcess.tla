----------------------------- MODULE MCProcess -----------------------------
(* An instance of Process for TLC: an admin RPC, two public ones. *)
EXTENDS Process

RpcOf == [internal |-> {"TriggerGC"}, public |-> {"Create", "Delete"}]
=============================================================================
