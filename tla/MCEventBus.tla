---------------------------- MODULE MCEventBus ------------------------------
(* The bus with the shape of the dialogue path: a Block subscriber whose   *)
(* handler publishes (the FSM answers "interrupt" with "cancel") and a     *)
(* second subscriber, fed by two publishing threads.                       *)
EXTENDS EventBus, TLC

CONSTANTS fsm, other, audio, llm

MCSubs == {fsm, other}
MCOrder == <<fsm, other>>
MCPublishers == {audio, llm}
MCCapacity == fsm :> 1 @@ other :> 1
MCScript == audio :> <<"speech", "interrupt">> @@ llm :> <<"sentence">>
MCReaction == fsm :> ("interrupt" :> "cancel") @@ other :> <<>>

\* The other subscriber blocks, as the dialogue manager, or drops, as the barge-in detector.
MCPolicies == {fsm :> "Block" @@ other :> p : p \in {"Block", "DropOldest"}}

\* subscribe_all: the FSM is subscribed to what it publishes ...
AllEvents == fsm :> {"speech", "interrupt", "sentence", "cancel"} @@
             other :> {"speech", "interrupt", "cancel"}
\* ... and the same system without that.
NotItsOwn == [AllEvents EXCEPT ![fsm] = {"speech", "interrupt", "sentence"}]
=============================================================================
