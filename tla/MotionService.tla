---------------------------- MODULE MotionService ----------------------------
(***************************************************************************)
(* What the leg services of hopper_controller promise their callers: a     *)
(* blocking call is queued, the calls are served one at a time in the      *)
(* order in which they were queued, each exactly once, and a call returns  *)
(* only after it was served.  Nothing is promised about when.              *)
(***************************************************************************)
EXTENDS Sequences

CONSTANT Clients           \* threads that may call a service

VARIABLES pending,         \* calls not served yet, oldest first
          served           \* callers served but not returned yet

serviceVars == <<pending, served>>

Waiting == {pending[i] : i \in DOMAIN pending}

ServiceInit == /\ pending = <<>>
               /\ served = {}

Call(c) == /\ c \notin Waiting \cup served
           /\ pending' = Append(pending, c)
           /\ UNCHANGED served

Serve == /\ pending # <<>>
         /\ served' = served \cup {Head(pending)}
         /\ pending' = Tail(pending)

Return(c) == /\ c \in served
             /\ served' = served \ {c}
             /\ UNCHANGED pending

ServiceNext == \/ Serve
               \/ \E c \in Clients : Call(c) \/ Return(c)

ServiceSpec == ServiceInit /\ [][ServiceNext]_serviceVars
=============================================================================
