---------------------------- MODULE RegistryLife ----------------------------
(***************************************************************************)
(* What the control plane promises about the life of a registry, whoever   *)
(* asks for it, retries it or crashes in the middle (the contract of       *)
(* create.go, update.go and delete.go):                                    *)
(*                                                                         *)
(*     unborn --Create--> ACTIVE --Mark--> DELETING --Remove--> gone       *)
(*                                                                         *)
(* and iam is told of the birth and of the death in the very step in which *)
(* they happen.  There is no way back and no way around DELETING.          *)
(***************************************************************************)
CONSTANT RegId

VARIABLES
  phase,      \* phase[r]: where registry r is in its life
  announced   \* announced[r]: what iam has been told about r, in the end

Init ==
  /\ phase = [r \in RegId |-> "unborn"]
  /\ announced = [r \in RegId |-> "nothing"]

Move(r, from, to) == phase[r] = from /\ phase' = [phase EXCEPT ![r] = to]

Create(r) ==
  /\ Move(r, "unborn", "ACTIVE")
  /\ announced' = [announced EXCEPT ![r] = "register"]

Mark(r) == Move(r, "ACTIVE", "DELETING") /\ UNCHANGED announced

Remove(r) ==
  /\ Move(r, "DELETING", "gone")
  /\ announced' = [announced EXCEPT ![r] = "unregister"]

Next == \E r \in RegId : Create(r) \/ Mark(r) \/ Remove(r)

Spec == Init /\ [][Next]_<<phase, announced>>
=============================================================================
