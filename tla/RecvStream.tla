------------------------------ MODULE RecvStream ------------------------------
(***************************************************************************)
(* The receiving half of the TCP connections of one process: on_read of    *)
(* Session (engine/boost_asio.cpp) and, line for line the same, of Remote  *)
(* (engine/remote_manager.cpp), rpc_imp_generate and the queue of decoded  *)
(* rpcs (engine/rpc_manager.cpp), and the main thread that executes them.  *)
(*                                                                         *)
(* The socket is a stream of bytes: a read returns any number of them, up  *)
(* to RcvBuf.  on_read appends them to m_buffer_cache, cuts every whole    *)
(* frame off the front, pushes its rpc on the queue all connections share, *)
(* and moves the rest to the front.  A byte is represented by its position *)
(* in the stream of its connection, which tells which frame it belongs to  *)
(* and nothing of what it says.                                            *)
(*                                                                         *)
(* m_cache_idx is a short while the cache is BufCache bytes long; what     *)
(* keeps it from wrapping is the limit on a frame in another file, Encoder *)
(* (engine/encode.h): see Fits.                                            *)
(***************************************************************************)
EXTENDS Integers, Sequences

CONSTANTS Conns,        \* the connections of the process
          Sizes,        \* lengths of the frames peers send, header included
          MaxOffset,    \* MAX_OFFSET: the longest frame an Encoder builds
          RcvBuf,       \* RCV_BUF: the most bytes a read returns
          ShortMax,     \* the largest value of a short
          BufCache,     \* BUF_CACHE: the bytes of m_buffer_cache
          MaxFrames     \* bound: the frames a peer sends on a connection

HeadLen == 2            \* PKG_LEN_OFFSET: the length field of a frame

ASSUME SizesAssumption ==
    /\ MaxOffset \in Nat /\ MaxOffset > HeadLen
    /\ ShortMax \in Nat /\ BufCache \in Nat
    /\ RcvBuf \in Nat /\ MaxFrames \in [Conns -> Nat]
    /\ Sizes \subseteq (HeadLen + 1) .. MaxOffset

\* 8191 + 16384 <= 32767 <= 102400 in the source.
ASSUME CacheAssumption ==
    (MaxOffset - 1) + RcvBuf <= ShortMax /\ ShortMax <= BufCache

VARIABLES sent,             \* sent[c]: ends of the frames sent, 0 first
          broken,           \* broken[c]: the connection has failed
          taken,            \* taken[c]: bytes read from the socket so far
          m_buffer_cache,   \* the cached bytes, as positions in the stream
          m_cache_idx,
          ret,              \* ret[c]: bytes this call of rpc_imp_generate has cut
          pc,               \* where the reading of a connection stands
          decoded,          \* decoded[c]: frames decoded so far
          writeFailed,      \* writeFailed[c]: a write has reported it too
          m_rpc_imp_queue,
          executed,         \* executed[c]: the rpcs executed, in order
          gone              \* gone[c]: the notice of on_read is executed

wireVars == <<sent, broken>>
readVars == <<taken, m_buffer_cache, m_cache_idx, ret, pc, decoded>>
mainVars == <<executed, gone>>
vars == <<wireVars, readVars, writeFailed, m_rpc_imp_queue, mainVars>>

PCs == {"read",      \* an async_read_some is outstanding
        "generate",  \* in the loop of rpc_imp_generate
        "closed",    \* on_read has reported an error and reads no more
        "overrun"}   \* the index has wrapped: memory is being overwritten

\* What the queue holds: the n-th rpc of a connection, or a notice that it
\* is lost, from on_read or from on_write.
Kinds == {"rpc", "readError", "writeError"}
Imp(c, n, kind) == [conn |-> c, n |-> n, kind |-> kind]
Imps == [conn : Conns, n : Nat, kind : Kinds]

\* The n numbers that follow b: bytes of a stream, or rpcs.
Run(b, n) == [i \in 1 .. n |-> b + i]

Frames(c) == Len(sent[c]) - 1       \* frames sent on c
Total(c) == sent[c][Len(sent[c])]   \* bytes sent on c

TypeOK ==
    /\ sent \in [Conns -> Seq(Nat)]
    /\ broken \in [Conns -> BOOLEAN] /\ writeFailed \in [Conns -> BOOLEAN]
    /\ taken \in [Conns -> Nat]
    /\ m_buffer_cache \in [Conns -> Seq(Nat)]
    /\ m_cache_idx \in [Conns -> Int] /\ ret \in [Conns -> Nat]
    /\ pc \in [Conns -> PCs]
    /\ decoded \in [Conns -> Nat]
    /\ m_rpc_imp_queue \in Seq(Imps)
    /\ \A c \in Conns : Len(m_buffer_cache[c]) = m_cache_idx[c]
    /\ executed \in [Conns -> Seq(Nat)] /\ gone \in [Conns -> BOOLEAN]

Init ==
    /\ sent = [c \in Conns |-> <<0>>]
    /\ broken = [c \in Conns |-> FALSE]
    /\ writeFailed = [c \in Conns |-> FALSE]
    /\ taken = [c \in Conns |-> 0]
    /\ m_buffer_cache = [c \in Conns |-> <<>>]
    /\ m_cache_idx = [c \in Conns |-> 0]
    /\ ret = [c \in Conns |-> 0]
    /\ pc = [c \in Conns |-> "read"]
    /\ decoded = [c \in Conns |-> 0]
    /\ m_rpc_imp_queue = <<>>
    /\ executed = [c \in Conns |-> <<>>]
    /\ gone = [c \in Conns |-> FALSE]

-----------------------------------------------------------------------------
(* The peer. *)

\* Variant: OFFSET_CHECK does not limit the frame.
EncodeUnchecked(c) ==
    /\ ~broken[c] /\ Frames(c) < MaxFrames[c]
    /\ \E size \in Sizes \cup {MaxOffset + HeadLen} :
          sent' = [sent EXCEPT ![c] = Append(@, Total(c) + size)]

(* An Encoder's frame, of at most MAX_OFFSET bytes, is put on the wire. *)
Encode(c) ==
    /\ ~broken[c] /\ Frames(c) < MaxFrames[c]
    /\ \E size \in Sizes :
          sent' = [sent EXCEPT ![c] = Append(@, Total(c) + size)]

PeerSends(c) ==
    /\ Encode(c)
    /\ UNCHANGED <<broken, readVars, writeFailed, m_rpc_imp_queue, mainVars>>

(* The connection breaks, or this process closes its socket. *)
Break(c) ==
    /\ ~broken[c]
    /\ broken' = [broken EXCEPT ![c] = TRUE]
    /\ UNCHANGED <<sent, readVars, writeFailed, m_rpc_imp_queue, mainVars>>

-----------------------------------------------------------------------------
(* A network thread. *)

\* Assignment to a short, and its conversion to uint16_t for a call.
Short(n) == IF n > ShortMax THEN n - 2 * (ShortMax + 1) ELSE n
UInt16(n) == IF n < 0 THEN n + 2 * (ShortMax + 1) ELSE n

(* on_read: length bytes have arrived; append them to the cache. *)
OnRead(c) ==
    /\ pc[c] = "read"
    /\ \E length \in 1 .. RcvBuf :
          /\ taken[c] + length <= Total(c)
          /\ m_buffer_cache' = [m_buffer_cache EXCEPT ![c] =
                @ \o Run(taken[c], length)]
          /\ m_cache_idx' = [m_cache_idx EXCEPT ![c] = Short(@ + length)]
          /\ taken' = [taken EXCEPT ![c] = @ + length]
          /\ pc' = [pc EXCEPT ![c] =
                IF m_cache_idx[c] + length > BufCache THEN "overrun"
                                                      ELSE "generate"]
    /\ UNCHANGED <<wireVars, ret, decoded>>
    /\ UNCHANGED <<writeFailed, m_rpc_imp_queue, mainVars>>

(* The length field at the next position of the cache: that of a frame if *)
(* a frame starts there, any number if the decoder has lost its place.    *)
PkgLens(c) ==
    LET before == m_buffer_cache[c][ret[c] + 1] - 1
        k == {f \in 1 .. Frames(c) : sent[c][f] = before}
    IN  IF k # {} THEN {sent[c][f + 1] - sent[c][f] - HeadLen : f \in k}
                  ELSE 0 .. MaxOffset

\* Variant: the loop runs once.
WholeFrameOnce(c, n) ==
    ret[c] = 0 /\ ret[c] + HeadLen + n <= UInt16(m_cache_idx[c])

(* READ_PRE_CHECK: a length field, then as many bytes as it says. *)
HasHead(c) == ret[c] + HeadLen <= UInt16(m_cache_idx[c])
WholeFrame(c, n) == ret[c] + HeadLen + n <= UInt16(m_cache_idx[c])

(* One turn of the loop of rpc_imp_generate: decode and push one rpc. *)
Generate(c) ==
    /\ pc[c] = "generate" /\ HasHead(c)
    /\ \E n \in PkgLens(c) :
          /\ WholeFrame(c, n)
          /\ ret' = [ret EXCEPT ![c] = @ + HeadLen + n]
    /\ decoded' = [decoded EXCEPT ![c] = @ + 1]
    /\ m_rpc_imp_queue' =
          Append(m_rpc_imp_queue, Imp(c, decoded[c] + 1, "rpc"))
    /\ UNCHANGED <<wireVars, taken, m_buffer_cache, m_cache_idx, pc>>
    /\ UNCHANGED <<writeFailed, mainVars>>

\* Variants: m_cache_idx is not reduced; the rest is thrown away.
ShiftKeepsIdx(c) ==
    /\ m_buffer_cache' = [m_buffer_cache EXCEPT ![c] =
                             SubSeq(@, ret[c] + 1, Len(@))]
    /\ UNCHANGED m_cache_idx
ShiftDropsRest(c) ==
    /\ m_buffer_cache' = [m_buffer_cache EXCEPT ![c] = <<>>]
    /\ m_cache_idx' = [m_cache_idx EXCEPT ![c] = 0]

(* memmove of what is left to the front of the cache. *)
Shift(c) ==
    /\ m_buffer_cache' = [m_buffer_cache EXCEPT ![c] =
                             SubSeq(@, ret[c] + 1, Len(@))]
    /\ m_cache_idx' = [m_cache_idx EXCEPT ![c] = @ - ret[c]]

(* The loop ends, the rest is moved to the front and on_read reads again; *)
(* with a negative index the memmove gets a length that is no length.     *)
EndGenerate(c) ==
    /\ pc[c] = "generate"
    /\ HasHead(c) => \E n \in PkgLens(c) : ~WholeFrame(c, n)
    /\ Shift(c)
    /\ pc' = [pc EXCEPT ![c] = IF m_cache_idx[c] < 0 THEN "overrun" ELSE "read"]
    /\ ret' = [ret EXCEPT ![c] = 0]
    /\ UNCHANGED <<wireVars, taken, decoded>>
    /\ UNCHANGED <<writeFailed, m_rpc_imp_queue, mainVars>>

\* Variant: a connection that ends within a frame is not reported.
ReadErrorIfEmpty(c) ==
    /\ pc[c] = "read" /\ broken[c]
    /\ m_rpc_imp_queue' =
          IF m_cache_idx[c] > 0 THEN m_rpc_imp_queue
          ELSE Append(m_rpc_imp_queue, Imp(c, decoded[c] + 1, "readError"))
    /\ pc' = [pc EXCEPT ![c] = "closed"]

(* on_read with an error_code: report the disconnect and read no more.    *)
(* Bytes that were still in the socket are lost.                          *)
ReadError(c) ==
    /\ pc[c] = "read" /\ broken[c]
    /\ m_rpc_imp_queue' =
          Append(m_rpc_imp_queue, Imp(c, decoded[c] + 1, "readError"))
    /\ pc' = [pc EXCEPT ![c] = "closed"]

ReadFails(c) ==
    /\ ReadError(c)
    /\ UNCHANGED <<wireVars, taken, m_buffer_cache, m_cache_idx, ret>>
    /\ UNCHANGED <<decoded, writeFailed, mainVars>>

(* on_write with an error_code, on another network thread: reports the    *)
(* disconnect as well, whatever the reading does.                         *)
WriteFails(c) ==
    /\ broken[c] /\ ~writeFailed[c]
    /\ writeFailed' = [writeFailed EXCEPT ![c] = TRUE]
    /\ m_rpc_imp_queue' = Append(m_rpc_imp_queue, Imp(c, 0, "writeError"))
    /\ UNCHANGED <<wireVars, readVars, mainVars>>

-----------------------------------------------------------------------------
(* The main thread. *)

\* Variant: the youngest rpc first.
PopYoungest == <<m_rpc_imp_queue[Len(m_rpc_imp_queue)],
                 SubSeq(m_rpc_imp_queue, 1, Len(m_rpc_imp_queue) - 1)>>

(* imp_queue_pop: the oldest rpc, and the queue without it. *)
Pop == <<Head(m_rpc_imp_queue), Tail(m_rpc_imp_queue)>>

(* One turn of the loop of rpc_imp_input_tick (99 of them at most, then   *)
(* the entities tick).                                                    *)
Exec ==
    /\ m_rpc_imp_queue # <<>>
    /\ m_rpc_imp_queue' = Pop[2]
    /\ executed' = IF Pop[1].kind # "rpc" THEN executed
                   ELSE [executed EXCEPT ![Pop[1].conn] = Append(@, Pop[1].n)]
    /\ gone' = IF Pop[1].kind # "readError" THEN gone
               ELSE [gone EXCEPT ![Pop[1].conn] = TRUE]
    /\ UNCHANGED <<wireVars, readVars, writeFailed>>

-----------------------------------------------------------------------------
Step(c) == OnRead(c) \/ Generate(c) \/ EndGenerate(c) \/ ReadFails(c)

Next ==
    \/ \E c \in Conns : PeerSends(c) \/ Break(c) \/ Step(c) \/ WriteFails(c)
    \/ Exec

Spec == Init /\ [][Next]_vars

(* The reactor completes the outstanding read of every connection on      *)
(* which there is something to read, the network threads finish on_read,  *)
(* and the main thread keeps ticking.                                     *)
FairSpec == Spec /\ (\A c \in Conns : WF_vars(Step(c))) /\ WF_vars(Exec)

-----------------------------------------------------------------------------
(* The cache never overflows and its short index never wraps: whatever    *)
(* pieces the stream arrives in, less than one frame is left between two  *)
(* reads, and that with one read more fits.                               *)
Fits ==
    \A c \in Conns :
       /\ pc[c] # "overrun" /\ m_cache_idx[c] >= 0
       /\ pc[c] \in {"read", "closed"} => m_cache_idx[c] < MaxOffset

(* No rpc waits in the cache for a read that may never come: as soon as   *)
(* on_read is done, every frame that has arrived whole is decoded, none   *)
(* that is still incomplete.                                              *)
Prompt ==
    \A c \in Conns : pc[c] \in {"read", "closed"} =>
       /\ sent[c][decoded[c] + 1] <= taken[c]
       /\ decoded[c] < Frames(c) => taken[c] < sent[c][decoded[c] + 2]

(* Entries of the queue that on_read has pushed. *)
ReadBy(i, c) ==
    m_rpc_imp_queue[i].conn = c /\ m_rpc_imp_queue[i].kind # "writeError"

(* The network threads that push on one queue and the main thread that    *)
(* pops from it neither lose nor duplicate nor reorder the rpcs of a      *)
(* connection: what is executed are the first ones, the queue holds the   *)
(* next ones in their order, and the notice that the connection is lost   *)
(* comes after all of them.                                               *)
InOrder ==
    \A c \in Conns :
       LET last == IF pc[c] = "closed" THEN decoded[c] + 1 ELSE decoded[c]
           next == IF gone[c] THEN decoded[c] + 2 ELSE Len(executed[c]) + 1
           Q == DOMAIN m_rpc_imp_queue
       IN  /\ executed[c] = Run(0, Len(executed[c]))
           /\ Len(executed[c]) <= decoded[c]
           /\ gone[c] => pc[c] = "closed" /\ Len(executed[c]) = decoded[c]
           /\ \A i, j \in Q : ReadBy(i, c) /\ ReadBy(j, c) /\ i < j =>
                 m_rpc_imp_queue[i].n < m_rpc_imp_queue[j].n
           /\ \A n \in next .. last :
                 \E i \in Q : ReadBy(i, c) /\ m_rpc_imp_queue[i].n = n
           /\ \A i \in Q : ReadBy(i, c) =>
                 /\ m_rpc_imp_queue[i].n \in next .. last
                 /\ m_rpc_imp_queue[i].kind = "rpc" <=>
                       m_rpc_imp_queue[i].n <= decoded[c]

(* Every connection is, from the peer's socket to the execution on the    *)
(* main thread, an ordered channel that may fail once: the frames sent    *)
(* are executed once and in order, all of them while it is up.            *)
Channel(c) ==
    INSTANCE RpcChannel
      WITH Rpcs <- 1 .. MaxFrames[c], accepted <- Run(0, Frames(c)),
           delivered <- executed[c], up <- ~gone[c]

(* A broken connection stops being read and is reported. *)
BreakReported == \A c \in Conns : broken[c] ~> gone[c]
=============================================================================
