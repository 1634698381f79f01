----------------------------- MODULE RpcChannel -----------------------------
(***************************************************************************)
(* What a Session (engine/boost_asio.h) or a Remote                        *)
(* (engine/remote_manager.h) promises to the code that calls               *)
(* remote_rpc_call on it: a reliable, ordered channel of rpcs that may     *)
(* fail once.  While it is up, every rpc accepted is handed to the socket, *)
(* in the order of the calls and once; when the connection fails, what has *)
(* been handed over is a prefix of what was accepted and stays so.         *)
(*                                                                         *)
(* SendQueue implements this module with a queue, a flag and a chain of    *)
(* completion handlers spread over the network threads.                    *)
(***************************************************************************)
EXTENDS Naturals, Sequences

CONSTANT Rpcs           \* the rpcs that may be sent, each at most once

VARIABLES accepted,     \* the rpcs accepted from the callers, in call order
          delivered,    \* the rpcs handed to the socket, in socket order
          up            \* the connection has not failed

vars == <<accepted, delivered, up>>

Init == accepted = <<>> /\ delivered = <<>> /\ up = TRUE

Accept(r) == accepted' = Append(accepted, r) /\ UNCHANGED <<delivered, up>>

Deliver ==
    /\ up
    /\ Len(delivered) < Len(accepted)
    /\ delivered' = Append(delivered, accepted[Len(delivered) + 1])
    /\ UNCHANGED <<accepted, up>>

Fail == up /\ up' = FALSE /\ UNCHANGED <<accepted, delivered>>

Next == (\E r \in Rpcs : Accept(r)) \/ Deliver \/ Fail

Spec == Init /\ [][Next]_vars
FairSpec == Spec /\ WF_vars(Deliver)
=============================================================================
