------------------------------ MODULE SendQueue ------------------------------
(***************************************************************************)
(* The sending half of one TCP connection: class Session                   *)
(* (engine/boost_asio.h, boost_asio.cpp).  Class Remote (remote_manager.h, *)
(* remote_manager.cpp) differs in one line: its on_write reports the       *)
(* disconnect of a failed write without closing the socket.                *)
(*                                                                         *)
(* Any thread may call remote_rpc_call.  It pushes the rpc on              *)
(* m_remote_rpc_queue under m_queue_mutex and, unless a write chain is     *)
(* already running, marks the connection in_async_write and posts          *)
(* async_write_one_ele to the io_context.  Whichever network thread runs   *)
(* it pops ONE rpc, encodes it and starts an asynchronous write whose      *)
(* completion handler runs async_write_one_ele again, on any network       *)
(* thread, until the queue is found empty.                                 *)
(*                                                                         *)
(* The frame is encoded into a local Encoder that async_write_one_ele      *)
(* destroys when it returns, which may be before the socket has taken the  *)
(* bytes; garbled records the frames for which it was.                     *)
(*                                                                         *)
(* m_next_heartbeat_time is left out: only heart_beat_tick reads it and    *)
(* nothing calls heart_beat_tick.                                          *)
(***************************************************************************)
EXTENDS Naturals, Sequences, FiniteSets

CONSTANTS Callers,      \* threads that call remote_rpc_call
          Threads,      \* network threads that run the io_context
          MaxCalls      \* bound: the calls each caller makes

ASSUME MaxCallsAssumption == MaxCalls \in Nat

Rpcs == Callers \X (1 .. MaxCalls)      \* the n-th rpc of a caller

\* The entries of the io_context's queue: the closure remote_rpc_call posts,
\* and the completions of async_write without and with an error_code.
Handlers == {"post", "ok", "error"}

PCs == {"idle",     \* in io_context.run(), waiting for a handler
        "pop",      \* entering async_write_one_ele
        "send",     \* has popped an rpc, encodes it and starts async_write
        "return"}   \* async_write has been started, encoder is still alive

VARIABLES calls,                \* calls[c]: calls made by caller c
          m_remote_rpc_queue,
          in_async_write,
          ready,                \* handlers queued in the io_context
          pc,
          held,                 \* held[t]: rpc popped (or last popped) by t
          inflight,             \* writes started and not completed
          freed,                \* rpcs whose Encoder has been destroyed
          socket,               \* "open", or "down": closed or reset
          reading,              \* an async_read_some is outstanding
          notices,              \* disconnect notices put on the rpc queue
          accepted,             \* history: rpcs in the order of the pushes
          wire,                 \* history: rpcs the socket took, in order
          garbled,              \* history: rpcs whose bytes were not theirs
          lost                  \* history: rpcs whose write failed, in order

queueVars == <<calls, m_remote_rpc_queue, in_async_write, accepted>>
connVars == <<socket, reading, notices>>
writeVars == <<inflight, freed, wire, garbled, lost>>
vars == <<queueVars, ready, pc, held, writeVars, connVars>>

TypeOK ==
    /\ calls \in [Callers -> 0 .. MaxCalls]
    /\ m_remote_rpc_queue \in Seq(Rpcs)
    /\ in_async_write \in BOOLEAN
    /\ ready \in Seq(Handlers)
    /\ pc \in [Threads -> PCs]
    /\ held \in [Threads -> Rpcs \cup {<<>>}]
    /\ \A t \in Threads : pc[t] \in {"send", "return"} => held[t] \in Rpcs
    /\ inflight \in Seq(Rpcs)
    /\ freed \subseteq Rpcs /\ garbled \subseteq Rpcs
    /\ socket \in {"open", "down"}
    /\ reading \in BOOLEAN
    /\ notices \in Nat
    /\ accepted \in Seq(Rpcs) /\ wire \in Seq(Rpcs) /\ lost \in Seq(Rpcs)

Init ==
    /\ calls = [c \in Callers |-> 0]
    /\ m_remote_rpc_queue = <<>>
    /\ in_async_write = FALSE
    /\ ready = <<>>
    /\ pc = [t \in Threads |-> "idle"]
    /\ held = [t \in Threads |-> <<>>]
    /\ inflight = <<>> /\ freed = {} /\ garbled = {}
    /\ socket = "open" /\ reading = TRUE /\ notices = 0
    /\ accepted = <<>> /\ wire = <<>> /\ lost = <<>>

-----------------------------------------------------------------------------
\* Variant: every call posts.
RemoteRpcCallPosts(c) ==
    /\ calls[c] < MaxCalls
    /\ calls' = [calls EXCEPT ![c] = @ + 1]
    /\ m_remote_rpc_queue' = Append(m_remote_rpc_queue, <<c, calls[c] + 1>>)
    /\ accepted' = Append(accepted, <<c, calls[c] + 1>>)
    /\ in_async_write' = TRUE
    /\ ready' = Append(ready, "post")
    /\ UNCHANGED <<pc, held, writeVars, connVars>>

(* remote_rpc_call: one critical section of m_queue_mutex. *)
RemoteRpcCall(c) ==
    /\ calls[c] < MaxCalls
    /\ calls' = [calls EXCEPT ![c] = @ + 1]
    /\ LET rpc == <<c, calls[c] + 1>>
       IN  /\ m_remote_rpc_queue' = Append(m_remote_rpc_queue, rpc)
           /\ accepted' = Append(accepted, rpc)
    /\ in_async_write' = TRUE
    /\ ready' = IF in_async_write THEN ready ELSE Append(ready, "post")
    /\ UNCHANGED <<pc, held, writeVars, connVars>>

\* Variant: a failed write ends the chain.
TakeHandlerUnlessError(t) ==
    /\ pc[t] = "idle" /\ ready # <<>>
    /\ ready' = Tail(ready)
    /\ IF Head(ready) = "error"
         THEN notices' = notices + 1 /\ socket' = "down" /\ UNCHANGED pc
         ELSE pc' = [pc EXCEPT ![t] = "pop"] /\ UNCHANGED <<notices, socket>>
    /\ UNCHANGED <<queueVars, held, writeVars, reading>>

(* A network thread takes the next handler.  A completion with an error   *)
(* first runs on_write, which reports the disconnect and closes; every    *)
(* handler then enters async_write_one_ele.                               *)
TakeHandler(t) ==
    /\ pc[t] = "idle" /\ ready # <<>>
    /\ ready' = Tail(ready)
    /\ pc' = [pc EXCEPT ![t] = "pop"]
    /\ IF Head(ready) = "error"
         THEN notices' = notices + 1 /\ socket' = "down"
         ELSE UNCHANGED <<notices, socket>>
    /\ UNCHANGED <<queueVars, held, writeVars, reading>>

\* The critical section with an empty queue, and with one that is not.
PopNothing(t, next, inAsyncWrite) ==
    /\ pc[t] = "pop" /\ m_remote_rpc_queue = <<>>
    /\ pc' = [pc EXCEPT ![t] = next]
    /\ in_async_write' = inAsyncWrite
    /\ UNCHANGED <<calls, m_remote_rpc_queue, accepted, held>>
    /\ UNCHANGED <<ready, writeVars, connVars>>
PopFront(t, rest) ==
    /\ pc[t] = "pop" /\ m_remote_rpc_queue # <<>>
    /\ pc' = [pc EXCEPT ![t] = "send"]
    /\ held' = [held EXCEPT ![t] = Head(m_remote_rpc_queue)]
    /\ m_remote_rpc_queue' = rest
    /\ UNCHANGED <<calls, in_async_write, accepted>>
    /\ UNCHANGED <<ready, writeVars, connVars>>

\* Variants: the early return, the reset of the flag, the pop is missing.
PopOneGoesOn(t) ==
    PopNothing(t, "send", FALSE) \/ PopFront(t, Tail(m_remote_rpc_queue))
PopOneKeepsFlag(t) ==
    PopNothing(t, "idle", TRUE) \/ PopFront(t, Tail(m_remote_rpc_queue))
PopOneKeepsFront(t) ==
    PopNothing(t, "idle", FALSE) \/ PopFront(t, m_remote_rpc_queue)

(* The critical section of async_write_one_ele: pop one rpc, or end the   *)
(* chain.                                                                 *)
PopOne(t) ==
    PopNothing(t, "idle", FALSE) \/ PopFront(t, Tail(m_remote_rpc_queue))

(* encode() and async_write.  The write is queued in the reactor ...      *)
StartWrite(t) ==
    /\ pc[t] = "send"
    /\ pc' = [pc EXCEPT ![t] = "return"]
    /\ inflight' = Append(inflight, held[t])
    /\ UNCHANGED <<queueVars, ready, held, connVars, freed, wire, garbled, lost>>

(* ... and async_write_one_ele returns, which destroys encoder.           *)
FreeEncoder(t) ==
    /\ pc[t] = "return"
    /\ pc' = [pc EXCEPT ![t] = "idle"]
    /\ freed' = freed \cup {held[t]}
    /\ UNCHANGED <<queueVars, ready, held, connVars,
                   inflight, wire, garbled, lost>>

-----------------------------------------------------------------------------
(* The socket takes the whole frame of the oldest write: at once, inside  *)
(* async_write, or later.  A buffer that has been freed by then may hold  *)
(* anything, the old bytes included.                                      *)
SocketTakes ==
    /\ inflight # <<>> /\ socket = "open"
    /\ inflight' = Tail(inflight)
    /\ wire' = Append(wire, Head(inflight))
    /\ ready' = Append(ready, "ok")
    /\ garbled' \in {garbled} \cup
                    (IF Head(inflight) \in freed
                       THEN {garbled \cup {Head(inflight)}} ELSE {})
    /\ UNCHANGED <<queueVars, pc, held, freed, lost, connVars>>

(* The same write fails: the socket is closed, or the peer has gone.      *)
SocketRefuses ==
    /\ inflight # <<>> /\ socket = "down"
    /\ inflight' = Tail(inflight)
    /\ lost' = Append(lost, Head(inflight))
    /\ ready' = Append(ready, "error")
    /\ UNCHANGED <<queueVars, pc, held, freed, wire, garbled, connVars>>

(* The peer or the network breaks the connection, or the main thread      *)
(* calls close().                                                         *)
Break ==
    /\ socket = "open"
    /\ socket' = "down"
    /\ UNCHANGED <<queueVars, ready, pc, held, writeVars, reading, notices>>

\* Variant: nobody is told.
ReadFailsSilently ==
    /\ reading /\ socket = "down" /\ reading' = FALSE
    /\ UNCHANGED <<queueVars, ready, pc, held, writeVars, socket, notices>>

(* on_read with an error_code: report the disconnect, close, read no more. *)
ReadFails ==
    /\ reading /\ socket = "down"
    /\ reading' = FALSE
    /\ notices' = notices + 1
    /\ UNCHANGED <<queueVars, ready, pc, held, writeVars, socket>>

-----------------------------------------------------------------------------
Step(t) == TakeHandler(t) \/ PopOne(t) \/ StartWrite(t) \/ FreeEncoder(t)

Next ==
    \/ \E c \in Callers : RemoteRpcCall(c)
    \/ \E t \in Threads : Step(t)
    \/ SocketTakes \/ SocketRefuses \/ Break \/ ReadFails

Spec == Init /\ [][Next]_vars

(* Network threads run the handlers they have taken and one of them takes *)
(* the next one; the reactor completes every write and read, one way or   *)
(* the other.  Nothing obliges a caller to call or the connection to fail. *)
Fairness ==
    /\ \A t \in Threads : WF_vars(PopOne(t) \/ StartWrite(t) \/ FreeEncoder(t))
    /\ WF_vars(\E t \in Threads : TakeHandler(t))
    /\ WF_vars(SocketTakes \/ SocketRefuses)
    /\ WF_vars(ReadFails)

FairSpec == Spec /\ Fairness

-----------------------------------------------------------------------------
(* The places where the one permission to write can be: a handler in the  *)
(* io_context, a thread about to pop or to send, a write outstanding.     *)
Busy(t) == pc[t] \in {"pop", "send"}

(* Two network threads never drive the same connection: there is at most  *)
(* one of queued handler, thread in the chain and write outstanding, and  *)
(* there is none only when in_async_write is false and nothing is queued, *)
(* so that no rpc waits for a wakeup that will never come.                *)
OneChain ==
    /\ \A t, u \in Threads : Busy(t) /\ Busy(u) => t = u
    /\ (\E t \in Threads : Busy(t)) => ready = <<>> /\ inflight = <<>>
    /\ Len(ready) + Len(inflight) <= 1
    /\ in_async_write <=> \/ ready # <<>>
                          \/ inflight # <<>>
                          \/ \E t \in Threads : Busy(t)
    /\ ~in_async_write => m_remote_rpc_queue = <<>>

(* No rpc is dropped, duplicated or overtaken on its way to the socket:   *)
(* what was accepted is what the socket took, then what it refused, then  *)
(* what is being written, then what is queued, in the order of the calls; *)
(* and a connection that is still up has refused nothing.                 *)
Fifo ==
    /\ \A t \in Threads : pc[t] = "send" =>
          accepted = (wire \o lost) \o (<<held[t]>> \o m_remote_rpc_queue)
    /\ (\A t \in Threads : pc[t] # "send") =>
          accepted = (wire \o lost) \o (inflight \o m_remote_rpc_queue)
    /\ socket = "open" => lost = <<>>

(* README.md, step 4 of the sending of a packet: the rpc is serialised    *)
(* and sent.  The bytes on the wire are those of the rpc encoded.         *)
WireIntact == garbled = {}

(* The connection is an ordered channel that may fail once. *)
Channel == INSTANCE RpcChannel
             WITH delivered <- wire, up <- (socket = "open")
ChannelSpec == Channel!Spec
ChannelFairSpec == Channel!FairSpec

(* A chain always comes to its end once the calls stop, also through      *)
(* failed writes, and releases the connection: nothing stays queued and   *)
(* no handler keeps the Session alive.                                    *)
ChainEnds == <>[](~in_async_write /\ m_remote_rpc_queue = <<>>)

(* A broken connection is reported to the main thread. *)
DisconnectReported == (socket = "down") ~> (notices > 0)
=============================================================================
