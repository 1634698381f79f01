---------------------------- MODULE MC_RecvStream ----------------------------
\* Instances of RecvStream for TLC: two connections, frames shorter and
\* longer than a read, a short index that just holds a frame and a read.
EXTENDS RecvStream, TLC

CONSTANTS c1, c2

TwoAndOne == c1 :> 2 @@ c2 :> 1

(* One of the connections is, from the peer's socket to the execution on   *)
(* the main thread, an ordered channel that may fail once: the frames sent *)
(* are executed once and in order, all of them while it is up.             *)
ChannelOfC1 ==
    INSTANCE RpcChannel
      WITH Rpcs <- 1 .. MaxFrames[c1], accepted <- Run(0, Frames(c1)),
           delivered <- executed[c1], up <- ~gone[c1]
C1IsChannel == ChannelOfC1!FairSpec
=============================================================================
