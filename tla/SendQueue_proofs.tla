--------------------------- MODULE SendQueue_proofs ---------------------------
(***************************************************************************)
(* Proofs about SendQueue for every set of callers and network threads and *)
(* every number of calls: type correctness, the single chain of writes,    *)
(* the order of the rpcs, and that SendQueue implements RpcChannel.        *)
(***************************************************************************)
EXTENDS SendQueue, SequenceTheorems, TLAPS

-----------------------------------------------------------------------------
(* Facts about sequences. *)

(* Appending to a concatenation appends to its right part. *)
LEMMA AppendToConcat ==
    ASSUME NEW S, NEW a \in Seq(S), NEW b \in Seq(S), NEW e \in S
    PROVE  Append(a \o b, e) = a \o Append(b, e)
OBVIOUS

(* The head of the right part can be moved to the end of the left part. *)
LEMMA ShiftHead ==
    ASSUME NEW S, NEW a \in Seq(S), NEW b \in Seq(S), NEW c \in Seq(S), b # <<>>
    PROVE  a \o (b \o c) = Append(a, Head(b)) \o (Tail(b) \o c)
OBVIOUS

(* A sequence followed by another has its own length and elements, and the *)
(* next element is the head of what follows.                               *)
LEMMA NextOfConcat ==
    ASSUME NEW S, NEW a \in Seq(S), NEW b \in Seq(S), NEW c \in Seq(S), b # <<>>
    PROVE  /\ Len(a) < Len(a \o (b \o c))
           /\ (a \o (b \o c))[Len(a) + 1] = Head(b)
OBVIOUS

(* A sequence is empty exactly when its length is 0. *)
LEMMA EmptyIffLen0 ==
    ASSUME NEW S, NEW s \in Seq(S)
    PROVE  (s = <<>> <=> Len(s) = 0) /\ Len(s) \in Nat
<1>1. Len(s) = 0 => s = <<>> BY EmptySeq
<1>2. s = <<>> => Len(s) = 0 BY EmptySeq
<1>3. Len(s) \in Nat BY LenProperties
<1> QED BY <1>1, <1>2, <1>3

(* A non-empty sequence of length at most one loses its only element. *)
LEMMA TailOfOne ==
    ASSUME NEW S, NEW s \in Seq(S), s # <<>>, Len(s) <= 1
    PROVE  Len(s) = 1 /\ Tail(s) = <<>> /\ Head(s) \in S
<1>1. Len(s) # 0 /\ Len(s) \in Nat BY EmptyIffLen0
<1>2. Len(s) = 1 BY <1>1
<1>3. Tail(s) \in Seq(S) /\ Len(Tail(s)) = 0 BY <1>2, HeadTailProperties
<1>4. Tail(s) = <<>> BY <1>3, EmptyIffLen0
<1> QED BY <1>2, <1>4, HeadTailProperties

-----------------------------------------------------------------------------
(* Every value stays in its type: in particular a thread that is about to  *)
(* send holds an rpc, not the nullptr an empty queue pops.                 *)
THEOREM TypeCorrect == Spec => []TypeOK
<1>1. Init => TypeOK
  <2> SUFFICES ASSUME Init PROVE TypeOK
      OBVIOUS
  <2>1. calls \in [Callers -> 0 .. MaxCalls] BY MaxCallsAssumption DEF Init
  <2>2. /\ pc \in [Threads -> PCs]
        /\ held \in [Threads -> Rpcs \cup {<<>>}]
        /\ \A t \in Threads : pc[t] \in {"send", "return"} => held[t] \in Rpcs
      BY DEF Init, PCs
  <2>3. <<>> \in Seq(Rpcs) /\ <<>> \in Seq(Handlers)
      OBVIOUS
  <2> QED BY <2>1, <2>2, <2>3 DEF Init, TypeOK
<1>2. TypeOK /\ [Next]_vars => TypeOK'
  <2> SUFFICES ASSUME TypeOK, [Next]_vars PROVE TypeOK'
      OBVIOUS
  <2> USE MaxCallsAssumption DEF TypeOK
  <2>1. ASSUME NEW c \in Callers, RemoteRpcCall(c) PROVE TypeOK'
    <3> DEFINE rpc == <<c, calls[c] + 1>>
    <3>1. calls[c] + 1 \in 1 .. MaxCalls BY <2>1 DEF RemoteRpcCall
    <3>2. rpc \in Rpcs BY <3>1 DEF Rpcs
    <3>3. calls' \in [Callers -> 0 .. MaxCalls] BY <2>1 DEF RemoteRpcCall
    <3>4. /\ m_remote_rpc_queue' = Append(m_remote_rpc_queue, rpc)
          /\ accepted' = Append(accepted, rpc)
        BY <2>1 DEF RemoteRpcCall
    <3>5. ready' \in Seq(Handlers) BY <2>1 DEF RemoteRpcCall, Handlers
    <3> HIDE DEF rpc
    <3>6. m_remote_rpc_queue' \in Seq(Rpcs) /\ accepted' \in Seq(Rpcs)
        BY <3>2, <3>4
    <3>7. in_async_write' \in BOOLEAN BY <2>1 DEF RemoteRpcCall
    <3>8. UNCHANGED <<pc, held, inflight, freed, wire, garbled, lost,
                      socket, reading, notices>>
        BY <2>1 DEF RemoteRpcCall, writeVars, connVars
    <3> QED BY <3>3, <3>5, <3>6, <3>7, <3>8
  <2>2. ASSUME NEW t \in Threads, TakeHandler(t) PROVE TypeOK'
    <3>1. ready' \in Seq(Handlers) BY <2>2 DEF TakeHandler
    <3>2. socket' \in {"open", "down"} /\ notices' \in Nat
        BY <2>2 DEF TakeHandler
    <3> QED BY <2>2, <3>1, <3>2 DEF TakeHandler, PCs, queueVars, writeVars
  <2>3. ASSUME NEW t \in Threads, PopOne(t) PROVE TypeOK'
    <3>1. CASE m_remote_rpc_queue = <<>>
        BY <2>3, <3>1 DEF PopOne, PopNothing, PopFront, PCs, writeVars, connVars
    <3>2. CASE m_remote_rpc_queue # <<>>
      <4>1. /\ Head(m_remote_rpc_queue) \in Rpcs
            /\ Tail(m_remote_rpc_queue) \in Seq(Rpcs)
          BY <3>2
      <4> QED BY <2>3, <3>2, <4>1 DEF PopOne, PopNothing, PopFront, PCs, writeVars, connVars
    <3> QED BY <3>1, <3>2
  <2>4. ASSUME NEW t \in Threads, StartWrite(t) PROVE TypeOK'
      BY <2>4 DEF StartWrite, PCs, queueVars, connVars
  <2>5. ASSUME NEW t \in Threads, FreeEncoder(t) PROVE TypeOK'
      BY <2>5 DEF FreeEncoder, PCs, queueVars, connVars
  <2>6. CASE SocketTakes
    <3>1. Head(inflight) \in Rpcs /\ Tail(inflight) \in Seq(Rpcs)
        BY <2>6 DEF SocketTakes
    <3>2. garbled' \subseteq Rpcs BY <2>6, <3>1 DEF SocketTakes
    <3>3. wire' \in Seq(Rpcs) /\ ready' \in Seq(Handlers)
        BY <2>6, <3>1 DEF SocketTakes, Handlers
    <3> QED BY <2>6, <3>1, <3>2, <3>3 DEF SocketTakes, Handlers, queueVars, connVars
  <2>7. CASE SocketRefuses
    <3>1. Head(inflight) \in Rpcs /\ Tail(inflight) \in Seq(Rpcs)
        BY <2>7 DEF SocketRefuses
    <3>2. lost' \in Seq(Rpcs) /\ ready' \in Seq(Handlers)
        BY <2>7, <3>1 DEF SocketRefuses, Handlers
    <3> QED BY <2>7, <3>1, <3>2 DEF SocketRefuses, queueVars, connVars
  <2>8. CASE Break
      BY <2>8 DEF Break, queueVars, writeVars
  <2>9. CASE ReadFails
    <3>1. reading' \in BOOLEAN BY <2>9 DEF ReadFails
    <3>2. notices' = notices + 1 BY <2>9 DEF ReadFails
    <3>3. notices \in Nat OBVIOUS
    <3>4. notices' \in Nat BY <3>2, <3>3
    <3> QED BY <2>9, <3>1, <3>4 DEF ReadFails, queueVars, writeVars
  <2>10. CASE UNCHANGED vars
      BY <2>10 DEF vars, queueVars, writeVars, connVars
  <2> QED
      BY <2>1, <2>2, <2>3, <2>4, <2>5, <2>6, <2>7, <2>8, <2>9, <2>10
      DEF Next, Step
<1> QED BY <1>1, <1>2, PTL DEF Spec

-----------------------------------------------------------------------------
(* At most one chain of writes runs on the connection, and one does as     *)
(* soon as an rpc is queued: whichever thread finds the queue empty clears *)
(* in_async_write in the critical section in which it looked.              *)
THEOREM SingleChain == Spec => []OneChain
<1>1. Init => OneChain
  <2> SUFFICES ASSUME Init PROVE OneChain
      OBVIOUS
  <2>1. Len(ready) = 0 /\ Len(inflight) = 0 BY DEF Init
  <2> QED BY <2>1 DEF Init, OneChain, Busy
<1>2. TypeOK /\ OneChain /\ [Next]_vars => OneChain'
  <2> SUFFICES ASSUME TypeOK, OneChain, [Next]_vars PROVE OneChain'
      OBVIOUS
  <2>t. /\ ready \in Seq(Handlers) /\ inflight \in Seq(Rpcs)
        /\ m_remote_rpc_queue \in Seq(Rpcs)
        /\ pc \in [Threads -> PCs]
        /\ in_async_write \in BOOLEAN
      BY DEF TypeOK
  <2>l. /\ Len(ready) \in Nat /\ (ready = <<>> <=> Len(ready) = 0)
        /\ Len(inflight) \in Nat /\ (inflight = <<>> <=> Len(inflight) = 0)
      BY <2>t, EmptyIffLen0
  <2>1. ASSUME NEW c \in Callers, RemoteRpcCall(c) PROVE OneChain'
    <3>1. \A t \in Threads : Busy(t)' <=> Busy(t)
        BY <2>1 DEF RemoteRpcCall, Busy
    <3>2. inflight' = inflight /\ in_async_write' = TRUE
        BY <2>1 DEF RemoteRpcCall, writeVars
    <3>3. CASE in_async_write
      <4>1. ready' = ready BY <2>1, <3>3 DEF RemoteRpcCall
      <4> QED BY <3>1, <3>2, <3>3, <4>1 DEF OneChain
    <3>4. CASE ~in_async_write
      <4>1. /\ ready = <<>> /\ inflight = <<>>
            /\ \A t \in Threads : ~Busy(t)
          BY <3>4 DEF OneChain
      <4>2. ready' = <<"post">> BY <2>1, <3>4, <4>1 DEF RemoteRpcCall
      <4>3. Len(ready') = 1 /\ ready' # <<>> BY <4>2
      <4> QED BY <2>l, <3>1, <3>2, <4>1, <4>3 DEF OneChain
    <3> QED BY <2>t, <3>3, <3>4
  <2>2. ASSUME NEW t \in Threads, TakeHandler(t) PROVE OneChain'
    <3>1. ready # <<>> /\ \A u \in Threads : ~Busy(u)
        BY <2>2 DEF TakeHandler, OneChain
    <3>2. Len(ready) <= 1 /\ inflight = <<>> /\ in_async_write
        BY <2>l, <3>1 DEF OneChain
    <3>3. ready' = <<>> /\ inflight' = <<>> /\ in_async_write'
        BY <2>t, <2>2, <3>1, <3>2, TailOfOne DEF TakeHandler, queueVars, writeVars
    <3>4. \A u \in Threads : Busy(u)' <=> u = t
        BY <2>t, <2>2, <3>1 DEF TakeHandler, Busy
    <3>5. Len(ready') = 0 /\ Len(inflight') = 0 BY <3>3
    <3> QED BY <3>3, <3>4, <3>5 DEF OneChain
  <2>3. ASSUME NEW t \in Threads, PopOne(t) PROVE OneChain'
    <3>1. Busy(t) BY <2>3 DEF PopOne, PopNothing, PopFront, Busy
    <3>2. /\ ready = <<>> /\ inflight = <<>> /\ in_async_write
          /\ \A u \in Threads : Busy(u) => u = t
        BY <3>1 DEF OneChain
    <3>3. ready' = <<>> /\ inflight' = <<>>
        BY <2>3, <3>2 DEF PopOne, PopNothing, PopFront, writeVars
    <3>4. Len(ready') = 0 /\ Len(inflight') = 0 BY <3>3
    <3>5. CASE m_remote_rpc_queue = <<>>
      <4>1. \A u \in Threads : ~Busy(u)'
          BY <2>t, <2>3, <3>2, <3>5 DEF PopOne, PopNothing, PopFront, Busy
      <4>2. ~in_async_write' /\ m_remote_rpc_queue' = <<>>
          BY <2>3, <3>5 DEF PopOne, PopNothing, PopFront
      <4> QED BY <3>3, <3>4, <4>1, <4>2 DEF OneChain
    <3>6. CASE m_remote_rpc_queue # <<>>
      <4>1. \A u \in Threads : Busy(u)' <=> u = t
          BY <2>t, <2>3, <3>1, <3>2, <3>6 DEF PopOne, PopNothing, PopFront, Busy
      <4>2. in_async_write' BY <2>3, <3>2, <3>6 DEF PopOne, PopNothing, PopFront
      <4> QED BY <3>3, <3>4, <4>1, <4>2 DEF OneChain
    <3> QED BY <3>5, <3>6
  <2>4. ASSUME NEW t \in Threads, StartWrite(t) PROVE OneChain'
    <3>1. Busy(t) BY <2>4 DEF StartWrite, Busy
    <3>2. /\ ready = <<>> /\ inflight = <<>> /\ in_async_write
          /\ \A u \in Threads : Busy(u) => u = t
        BY <3>1 DEF OneChain
    <3>3. \A u \in Threads : ~Busy(u)'
        BY <2>t, <2>4, <3>2 DEF StartWrite, Busy
    <3>4. ready' = <<>> /\ in_async_write' /\ inflight' = <<held[t]>>
        BY <2>4, <3>2 DEF StartWrite, queueVars
    <3>5. Len(ready') = 0 /\ Len(inflight') = 1 /\ inflight' # <<>>
        BY <3>4
    <3> QED BY <3>3, <3>4, <3>5 DEF OneChain
  <2>5. ASSUME NEW t \in Threads, FreeEncoder(t) PROVE OneChain'
    <3>1. \A u \in Threads : Busy(u)' <=> Busy(u)
        BY <2>t, <2>5 DEF FreeEncoder, Busy
    <3> QED BY <2>5, <3>1 DEF FreeEncoder, OneChain, queueVars
  <2>6. ASSUME SocketTakes \/ SocketRefuses PROVE OneChain'
    <3>1. inflight # <<>> BY <2>6 DEF SocketTakes, SocketRefuses
    <3>2. /\ Len(ready) = 0 /\ Len(inflight) <= 1 /\ in_async_write
          /\ \A u \in Threads : ~Busy(u)
        BY <2>l, <3>1 DEF OneChain
    <3>3. inflight' = <<>>
        BY <2>t, <2>6, <3>1, <3>2, TailOfOne DEF SocketTakes, SocketRefuses
    <3>4. PICK h \in Handlers : ready' = Append(ready, h)
        BY <2>6 DEF SocketTakes, SocketRefuses, Handlers
    <3>5. ready' = <<h>> BY <2>l, <3>2, <3>4
    <3>6. Len(ready') = 1 /\ ready' # <<>> /\ Len(inflight') = 0
        BY <3>3, <3>5
    <3>7. in_async_write' /\ \A u \in Threads : ~Busy(u)'
        BY <2>6, <3>2 DEF SocketTakes, SocketRefuses, queueVars, Busy
    <3> QED BY <3>3, <3>6, <3>7 DEF OneChain
  <2>7. CASE Break \/ ReadFails \/ UNCHANGED vars
      BY <2>7 DEF Break, ReadFails, vars, queueVars, writeVars, OneChain, Busy
  <2> QED
      BY <2>1, <2>2, <2>3, <2>4, <2>5, <2>6, <2>7 DEF Next, Step
<1> QED BY <1>1, <1>2, TypeCorrect, PTL DEF Spec

-----------------------------------------------------------------------------
(* The rpcs reach the socket in the order in which they were accepted, none *)
(* of them lost while the connection is up, none of them twice.             *)
LEMMA FifoInit == Init => Fifo
<1> SUFFICES ASSUME Init PROVE Fifo
    OBVIOUS
<1>1. (wire \o lost) \o (inflight \o m_remote_rpc_queue) = <<>>
    BY DEF Init
<1> QED BY <1>1 DEF Init, Fifo

(* Every step keeps the order: the induction step of Ordered, one case for *)
(* each action that moves an rpc.                                          *)
LEMMA FifoStep == TypeOK /\ OneChain /\ Fifo /\ [Next]_vars => Fifo'
<1> SUFFICES ASSUME TypeOK, OneChain, Fifo, [Next]_vars PROVE Fifo'
    OBVIOUS
<1> DEFINE out == wire \o lost
           queue == m_remote_rpc_queue
<1>t. /\ wire \in Seq(Rpcs) /\ lost \in Seq(Rpcs) /\ out \in Seq(Rpcs)
      /\ inflight \in Seq(Rpcs) /\ queue \in Seq(Rpcs)
      /\ pc \in [Threads -> PCs] /\ held \in [Threads -> Rpcs \cup {<<>>}]
      /\ \A t \in Threads : pc[t] = "send" => held[t] \in Rpcs
    BY DEF TypeOK
<1>1. ASSUME NEW c \in Callers, RemoteRpcCall(c) PROVE Fifo'
  <2> DEFINE rpc == <<c, calls[c] + 1>>
  <2>1. rpc \in Rpcs
    <3>1. calls[c] + 1 \in 1 .. MaxCalls
        BY <1>1, MaxCallsAssumption DEF RemoteRpcCall, TypeOK
    <3> QED BY <3>1 DEF Rpcs
  <2>2. /\ accepted' = Append(accepted, rpc) /\ queue' = Append(queue, rpc)
        /\ UNCHANGED <<out, inflight, pc, held, lost, socket>>
      BY <1>1 DEF RemoteRpcCall, writeVars, connVars
  <2> HIDE DEF rpc, out, queue
  <2>3. ASSUME NEW s \in Seq(Rpcs)
        PROVE  Append(out \o (s \o queue), rpc) = out \o (s \o Append(queue, rpc))
    <3>1. out \in Seq(Rpcs) /\ queue \in Seq(Rpcs) BY <1>t
    <3> DEFINE r == <<rpc>>
    <3>2. r \in Seq(Rpcs) BY <2>1
    <3>3. Append(queue, rpc) = queue \o r
        BY <2>1, <3>1, AppendIsConcat
    <3>4. Append(out \o (s \o queue), rpc) = (out \o (s \o queue)) \o r
      <4>1. out \o (s \o queue) \in Seq(Rpcs) BY <3>1
      <4> QED BY <2>1, <4>1, AppendIsConcat
    <3> HIDE DEF r
    <3>5. (out \o (s \o queue)) \o r = out \o (s \o (queue \o r))
        BY <3>1, <3>2, SMTT(30)
    <3> QED BY <3>3, <3>4, <3>5, Zenon
  <2>4. \A t \in Threads : pc[t] = "send" => <<held[t]>> \in Seq(Rpcs)
      BY <1>t
  <2> QED BY <1>t, <2>2, <2>3, <2>4 DEF Fifo, out, queue
<1>2. ASSUME NEW t \in Threads, TakeHandler(t) PROVE Fifo'
  <2>1. \A u \in Threads : pc[u] # "send" /\ pc'[u] # "send"
      BY <1>t, <1>2 DEF TakeHandler, OneChain, Busy
  <2> QED BY <1>2, <2>1 DEF TakeHandler, Fifo, queueVars, writeVars
<1>3. ASSUME NEW t \in Threads, PopOne(t) PROVE Fifo'
  <2>1. inflight = <<>> /\ \A u \in Threads : u # t => pc[u] \notin {"pop", "send"}
      BY <1>3 DEF PopOne, PopNothing, PopFront, OneChain, Busy
  <2>2. \A u \in Threads : pc[u] # "send"
      BY <1>3, <2>1 DEF PopOne, PopNothing, PopFront
  <2>3. accepted = out \o queue
      BY <1>t, <2>1, <2>2 DEF Fifo
  <2>4. CASE queue = <<>>
      BY <1>t, <1>3, <2>2, <2>4 DEF PopOne, PopNothing, PopFront, Fifo, writeVars, connVars
  <2>5. CASE queue # <<>>
    <3>1. \A u \in Threads : pc'[u] = "send" <=> u = t
        BY <1>t, <1>3, <2>2, <2>5 DEF PopOne, PopNothing, PopFront
    <3>2. held'[t] = Head(queue) /\ queue' = Tail(queue)
        BY <1>t, <1>3, <2>5 DEF PopOne, PopNothing, PopFront
    <3>3. queue = <<held'[t]>> \o queue'
        BY <1>t, <2>5, <3>2
    <3>4. UNCHANGED <<accepted, wire, lost, socket>>
        BY <1>3 DEF PopOne, PopNothing, PopFront, writeVars, connVars
    <3> QED BY <2>3, <3>1, <3>3, <3>4 DEF Fifo
  <2> QED BY <2>4, <2>5
<1>4. ASSUME NEW t \in Threads, StartWrite(t) PROVE Fifo'
  <2>1. inflight = <<>> /\ \A u \in Threads : u # t => pc[u] # "send"
      BY <1>4 DEF StartWrite, OneChain, Busy
  <2>2. \A u \in Threads : pc'[u] # "send"
      BY <1>t, <1>4, <2>1 DEF StartWrite
  <2>3. accepted = out \o (<<held[t]>> \o queue)
      BY <1>4 DEF StartWrite, Fifo
  <2>4. inflight' = <<held[t]>>
      BY <1>4, <2>1 DEF StartWrite
  <2> QED BY <1>4, <2>2, <2>3, <2>4 DEF StartWrite, Fifo, queueVars, connVars
<1>5. ASSUME NEW t \in Threads, FreeEncoder(t) PROVE Fifo'
  <2>1. \A u \in Threads : pc'[u] = "send" <=> pc[u] = "send"
      BY <1>t, <1>5 DEF FreeEncoder
  <2> QED BY <1>5, <2>1 DEF FreeEncoder, Fifo, queueVars, connVars
<1>6. ASSUME SocketTakes \/ SocketRefuses PROVE Fifo'
  <2> DEFINE x == Head(inflight)
  <2>1. inflight # <<>> BY <1>6 DEF SocketTakes, SocketRefuses
  <2>2. \A u \in Threads : pc[u] # "send"
      BY <2>1 DEF OneChain, Busy
  <2>3. accepted = out \o (inflight \o queue)
      BY <2>2 DEF Fifo
  <2> HIDE DEF out, queue
  <2>4. accepted = Append(out, x) \o (Tail(inflight) \o queue)
    <3>1. out \o (inflight \o queue) = Append(out, x) \o (Tail(inflight) \o queue)
      <4>1. /\ out \in Seq(Rpcs) /\ queue \in Seq(Rpcs)
            /\ inflight \in Seq(Rpcs)
          BY <1>t
      <4> QED BY <2>1, <4>1, ShiftHead
    <3> QED BY <2>3, <3>1
  <2> USE DEF out, queue
  <2>5. x \in Rpcs BY <1>t, <2>1
  <2>6. out' = Append(out, x)
    <3>1. CASE SocketTakes
      <4>1. lost = <<>> /\ lost' = <<>> /\ wire' = Append(wire, x)
          BY <3>1 DEF SocketTakes, Fifo
      <4> QED BY <1>t, <2>5, <4>1
    <3>2. CASE SocketRefuses
      <4>1. wire' = wire /\ lost' = Append(lost, x)
          BY <3>2 DEF SocketRefuses
      <4> QED BY <1>t, <2>5, <4>1, AppendToConcat
    <3> QED BY <1>6, <3>1, <3>2
  <2>7. /\ UNCHANGED <<accepted, queue, pc, socket>>
        /\ inflight' = Tail(inflight)
        /\ socket = "open" => lost' = lost
      BY <1>6 DEF SocketTakes, SocketRefuses, queueVars, connVars
  <2> QED BY <2>2, <2>4, <2>6, <2>7 DEF Fifo
<1>7. ASSUME Break \/ ReadFails \/ UNCHANGED vars PROVE Fifo'
    BY <1>7 DEF Break, ReadFails, vars, queueVars, writeVars, connVars, Fifo
<1> QED
    BY <1>1, <1>2, <1>3, <1>4, <1>5, <1>6, <1>7 DEF Next, Step

(* The rpcs of a connection keep their order from call to socket, for any  *)
(* number of threads: the invariant Fifo of remote_rpc_call and            *)
(* async_write_one_ele.                                                    *)
THEOREM Ordered == Spec => []Fifo
BY FifoInit, FifoStep, TypeCorrect, SingleChain, PTL DEF Spec

-----------------------------------------------------------------------------
(* The queue, the flag and the handlers implement the ordered channel of   *)
(* RpcChannel: a call accepts an rpc, the socket taking the oldest write    *)
(* delivers the next one, and everything else the network threads do is     *)
(* invisible, but for the failure of the connection.                        *)
THEOREM Implements == Spec => ChannelSpec
<1>1. Init => Channel!Init
    BY DEF Init, Channel!Init
<1>2. TypeOK /\ OneChain /\ Fifo /\ [Next]_vars => [Channel!Next]_(Channel!vars)
  <2> SUFFICES ASSUME TypeOK, OneChain, Fifo, [Next]_vars
               PROVE  [Channel!Next]_(Channel!vars)
      OBVIOUS
  <2> USE DEF Channel!Next, Channel!vars
  <2>1. ASSUME NEW c \in Callers, RemoteRpcCall(c)
        PROVE  \E r \in Rpcs : Channel!Accept(r)
    <3>1. calls[c] + 1 \in 1 .. MaxCalls
        BY <2>1, MaxCallsAssumption DEF RemoteRpcCall, TypeOK
    <3>2. <<c, calls[c] + 1>> \in Rpcs BY <3>1 DEF Rpcs
    <3>3. Channel!Accept(<<c, calls[c] + 1>>)
        BY <2>1 DEF RemoteRpcCall, Channel!Accept, writeVars, connVars
    <3> QED BY <3>2, <3>3
  <2>2. ASSUME NEW t \in Threads, TakeHandler(t)
        PROVE  Channel!Fail \/ UNCHANGED Channel!vars
    <3>1. UNCHANGED <<accepted, wire>>
        BY <2>2 DEF TakeHandler, queueVars, writeVars
    <3>2. socket' = "down" \/ socket' = socket
        BY <2>2 DEF TakeHandler
    <3> QED BY <3>1, <3>2 DEF Channel!Fail
  <2>3. ASSUME NEW t \in Threads, PopOne(t) \/ StartWrite(t) \/ FreeEncoder(t)
        PROVE  UNCHANGED Channel!vars
      BY <2>3 DEF PopOne, PopNothing, PopFront, StartWrite, FreeEncoder, queueVars, writeVars, connVars
  <2>4. CASE SocketTakes
    <3> DEFINE x == Head(inflight)
               rest == inflight \o m_remote_rpc_queue
    <3>1. /\ inflight # <<>> /\ socket = "open" /\ lost = <<>>
          /\ inflight \in Seq(Rpcs) /\ wire \in Seq(Rpcs)
          /\ m_remote_rpc_queue \in Seq(Rpcs)
        BY <2>4 DEF SocketTakes, Fifo, TypeOK
    <3>2. accepted = (wire \o lost) \o rest
        BY <3>1 DEF OneChain, Busy, Fifo
    <3>3. wire \o lost = wire BY <3>1
    <3>4. /\ Len(wire) < Len(wire \o rest)
          /\ (wire \o rest)[Len(wire) + 1] = x
        BY <3>1, NextOfConcat
    <3>5. Len(wire) < Len(accepted) /\ accepted[Len(wire) + 1] = x
        BY <3>2, <3>3, <3>4
    <3>6. wire' = Append(wire, x) /\ UNCHANGED <<accepted, socket>>
        BY <2>4 DEF SocketTakes, queueVars, connVars
    <3>7. Channel!Deliver
        BY <3>1, <3>5, <3>6 DEF Channel!Deliver
    <3> QED BY <3>7
  <2>5. CASE Break
      BY <2>5 DEF Break, Channel!Fail, queueVars, writeVars
  <2>6. CASE SocketRefuses \/ ReadFails \/ UNCHANGED vars
      BY <2>6 DEF SocketRefuses, ReadFails, vars, queueVars, writeVars, connVars
  <2> QED BY <2>1, <2>2, <2>3, <2>4, <2>5, <2>6 DEF Next, Step
<1> QED
    BY <1>1, <1>2, TypeCorrect, SingleChain, Ordered, PTL
    DEF Spec, ChannelSpec, Channel!Spec
=============================================================================
