-------------------------- MODULE RecvStream_proofs --------------------------
(***************************************************************************)
(* Proofs about RecvStream for every set of connections, every set of      *)
(* frame lengths and every size of the buffers that satisfies              *)
(* SizesAssumption and CacheAssumption: type correctness, that the cache   *)
(* never overflows, that no whole frame waits in it, that the shared queue *)
(* keeps the rpcs of a connection in order, and that every connection      *)
(* implements RpcChannel.                                                  *)
(***************************************************************************)
EXTENDS RecvStream, SequenceTheorems, TLAPS

(* Facts about runs of numbers. *)

LEMMA RunType ==
    ASSUME NEW b \in Nat, NEW n \in Nat
    PROVE  /\ Run(b, n) \in Seq(Nat) /\ Len(Run(b, n)) = n
           /\ \A i \in 1 .. n : Run(b, n)[i] = b + i
<1>1. \A i \in 1 .. n : b + i \in Nat
    OBVIOUS
<1>2. Run(b, n) \in [1 .. n -> Nat]
    BY <1>1 DEF Run
<1>3. Run(b, n) \in Seq(Nat) /\ Len(Run(b, n)) = n
    BY <1>2
<1>4. \A i \in 1 .. n : Run(b, n)[i] = b + i
    BY DEF Run
<1> QED BY <1>3, <1>4

(* A sequence that counts on from b is a run. *)
LEMMA RunUnique ==
    ASSUME NEW b \in Nat, NEW n \in Nat, NEW s \in Seq(Nat), Len(s) = n,
           \A i \in 1 .. n : s[i] = b + i
    PROVE  s = Run(b, n)
<1>1. s = [i \in 1 .. n |-> s[i]] BY LenProperties
<1> QED BY <1>1 DEF Run

(* Runs that follow each other make one run. *)
LEMMA RunConcat ==
    ASSUME NEW b \in Nat, NEW m \in Nat, NEW n \in Nat
    PROVE  Run(b, m) \o Run(b + m, n) = Run(b, m + n)
<1> DEFINE s == Run(b, m)
           t == Run(b + m, n)
<1>1. /\ s \in Seq(Nat) /\ Len(s) = m /\ \A i \in 1 .. m : s[i] = b + i
      /\ t \in Seq(Nat) /\ Len(t) = n /\ \A i \in 1 .. n : t[i] = b + m + i
  <2>1. b + m \in Nat OBVIOUS
  <2>2. t \in Seq(Nat) /\ Len(t) = n /\ \A i \in 1 .. n : t[i] = (b + m) + i
    <3> DEFINE a == b + m
    <3>1. a \in Nat BY <2>1
    <3> HIDE DEF a
    <3>2. /\ Run(a, n) \in Seq(Nat) /\ Len(Run(a, n)) = n
          /\ \A i \in 1 .. n : Run(a, n)[i] = a + i
        BY <3>1, RunType
    <3> QED BY <3>2 DEF a
  <2>3. s \in Seq(Nat) /\ Len(s) = m /\ \A i \in 1 .. m : s[i] = b + i
      BY RunType
  <2> QED BY <2>2, <2>3
<1> HIDE DEF s, t
<1>2. s \o t \in Seq(Nat) /\ Len(s \o t) = m + n
    BY <1>1, ConcatProperties
<1>3. ASSUME NEW i \in 1 .. m + n PROVE (s \o t)[i] = b + i
  <2>1. (s \o t)[i] = IF i <= m THEN s[i] ELSE t[i - m]
      BY <1>1, ConcatProperties
  <2>2. CASE i <= m BY <2>1, <2>2, <1>1
  <2>3. CASE i > m
    <3> DEFINE j == i - m
    <3>1. j \in 1 .. n /\ m + j = i BY <2>3
    <3>2. (s \o t)[i] = t[j] BY <2>1, <2>3
    <3> HIDE DEF j
    <3>3. t[j] = b + m + j BY <3>1, <1>1
    <3>4. b + m + j = b + i BY <3>1
    <3> QED BY <3>2, <3>3, <3>4, Zenon
  <2>4. i <= m \/ i > m OBVIOUS
  <2> QED BY <2>2, <2>3, <2>4, Zenon
<1> DEFINE u == s \o t
           k == m + n
<1>4. u \in Seq(Nat) /\ k \in Nat /\ Len(u) = k /\ \A i \in 1 .. k : u[i] = b + i
    BY <1>2, <1>3
<1> HIDE DEF u, k
<1>5. u = Run(b, k)
    BY <1>4, RunUnique
<1> QED BY <1>5 DEF s, t, u, k

(* What follows the first r of a run is a run. *)
LEMMA RunRest ==
    ASSUME NEW b \in Nat, NEW m \in Nat, NEW r \in 0 .. m
    PROVE  SubSeq(Run(b, m), r + 1, m) = Run(b + r, m - r)
<1> DEFINE s == Run(b, m)
           t == SubSeq(s, r + 1, m)
<1>1. s \in Seq(Nat) /\ Len(s) = m /\ \A i \in 1 .. m : s[i] = b + i
    BY RunType
<1> HIDE DEF s
<1>2. /\ t \in Seq(Nat) /\ Len(t) = m - r
      /\ \A i \in 1 .. m - r : t[i] = s[r + i]
    BY <1>1
<1>3. \A i \in 1 .. m - r : t[i] = (b + r) + i
    BY <1>1, <1>2
<1> DEFINE a == b + r
           k == m - r
<1>4. /\ t \in Seq(Nat) /\ a \in Nat /\ k \in Nat /\ Len(t) = k
      /\ \A i \in 1 .. k : t[i] = a + i
    BY <1>2, <1>3
<1> HIDE DEF t, a, k
<1>5. t = Run(a, k)
    BY <1>4, RunUnique
<1> QED BY <1>5 DEF s, t, a, k

-----------------------------------------------------------------------------
(* The peer's stream is one of frames: every one of a legal length. *)
Framed(c) ==
    /\ Len(sent[c]) >= 1 /\ sent[c][1] = 0
    /\ \A i \in 1 .. Frames(c) :
          /\ sent[c][i] + HeadLen < sent[c][i + 1]
          /\ sent[c][i + 1] <= sent[c][i] + MaxOffset
    /\ \A i, j \in 1 .. Len(sent[c]) : i < j => sent[c][i] < sent[c][j]

(* The cache holds the bytes read last; where rpc_imp_generate stands in  *)
(* it is where the frame after the last decoded one begins.               *)
Cached(c) ==
    /\ taken[c] <= Total(c) /\ decoded[c] <= Frames(c)
    /\ ret[c] <= m_cache_idx[c]
    /\ m_cache_idx[c] \in 0 .. ShortMax /\ m_cache_idx[c] <= taken[c]
    /\ m_buffer_cache[c] = Run(taken[c] - m_cache_idx[c], m_cache_idx[c])
    /\ (taken[c] - m_cache_idx[c]) + ret[c] = sent[c][decoded[c] + 1]

(* Between two reads less than a frame is left. *)
Between(c) ==
    /\ pc[c] # "overrun"
    /\ pc[c] \in {"read", "closed"} =>
          /\ ret[c] = 0 /\ m_cache_idx[c] < MaxOffset
          /\ decoded[c] < Frames(c) => taken[c] < sent[c][decoded[c] + 2]

StreamInv == \A c \in Conns : Framed(c) /\ Cached(c) /\ Between(c)

-----------------------------------------------------------------------------
(* The length field rpc_imp_generate finds is that of the next frame, and *)
(* that frame has been sent.                                              *)
LEMMA NextFrame ==
    ASSUME TypeOK, NEW c \in Conns, Framed(c), Cached(c), HasHead(c)
    PROVE  /\ decoded[c] < Frames(c)
           /\ PkgLens(c) =
                 {sent[c][decoded[c] + 2] - sent[c][decoded[c] + 1] - HeadLen}
<1> DEFINE d == decoded[c] + 1
           s == sent[c]
           idx == m_cache_idx[c]
<1>1. /\ s \in Seq(Nat) /\ Len(s) \in Nat /\ decoded[c] \in Nat
      /\ ret[c] \in Nat /\ taken[c] \in Nat /\ idx \in Nat
    BY SizesAssumption DEF TypeOK, Cached
<1>2. /\ taken[c] <= s[Len(s)] /\ decoded[c] <= Len(s) - 1
      /\ (taken[c] - idx) + ret[c] = s[d] /\ idx <= taken[c]
    BY DEF Cached, Frames, Total
<1>3. ret[c] + 2 <= idx
    BY <1>1 DEF HasHead, UInt16, HeadLen
<1>4. \A i, j \in 1 .. Len(s) : i < j => s[i] < s[j]
    BY DEF Framed
<1>5. d \in 1 .. Len(s)
    BY <1>1, <1>2
<1> HIDE DEF s, d, idx
<1>6. \A f \in 1 .. Len(s) : s[f] \in Nat
    BY <1>1
<1>7. s[d] \in Nat /\ s[d] + 2 <= taken[c]
    BY <1>1, <1>2, <1>3, <1>5, <1>6
<1>8. d # Len(s)
    BY <1>2, <1>7, <1>1
<1>9. d \in 1 .. (Len(s) - 1)
    BY <1>1, <1>5, <1>8
<1>10. \A f \in 1 .. (Len(s) - 1) : s[f] = s[d] <=> f = d
  <2> SUFFICES ASSUME NEW f \in 1 .. (Len(s) - 1), f # d PROVE s[f] # s[d]
      BY <1>9
  <2>1. f \in 1 .. Len(s) /\ s[f] \in Nat /\ (f < d \/ d < f)
      BY <1>1, <1>5, <1>6
  <2> QED BY <2>1, <1>4, <1>5, <1>7
<1>11. m_buffer_cache[c][ret[c] + 1] - 1 = s[d]
  <2>1. ret[c] + 1 \in 1 .. idx BY <1>1, <1>3
  <2>2. m_buffer_cache[c] = Run(taken[c] - idx, idx)
      BY DEF Cached, idx
  <2>3. m_buffer_cache[c][ret[c] + 1] = taken[c] - idx + (ret[c] + 1)
    <3> DEFINE b == taken[c] - idx
               i == ret[c] + 1
    <3>1. b \in Nat /\ i \in 1 .. idx BY <2>1, <1>1, <1>2
    <3> HIDE DEF b, i
    <3>2. Run(b, idx)[i] = b + i BY <3>1, <1>1, RunType
    <3> QED BY <3>2, <2>2 DEF b, i
  <2> QED BY <2>3, <1>1, <1>2
<1>12. {f \in 1 .. (Len(s) - 1) : s[f] = m_buffer_cache[c][ret[c] + 1] - 1} = {d}
    BY <1>9, <1>10, <1>11
<1>13. PkgLens(c) = {s[d + 1] - s[d] - HeadLen}
    BY <1>12 DEF PkgLens, Frames, s
<1>14. decoded[c] < Len(s) - 1 /\ d + 1 = decoded[c] + 2
    BY <1>1, <1>9 DEF d
<1> QED BY <1>13, <1>14 DEF s, d, Frames

(* The length of that frame. *)
LEMMA FrameLen ==
    ASSUME TypeOK, NEW c \in Conns, Framed(c), decoded[c] < Frames(c)
    PROVE  /\ sent[c][decoded[c] + 1] \in Nat /\ sent[c][decoded[c] + 2] \in Nat
           /\ sent[c][decoded[c] + 1] + 2 < sent[c][decoded[c] + 2]
           /\ sent[c][decoded[c] + 2] <= sent[c][decoded[c] + 1] + MaxOffset
<1> DEFINE s == sent[c]
           f == decoded[c] + 1
<1>1. /\ s \in Seq(Nat) /\ f \in 1 .. Len(s) /\ f + 1 \in 1 .. Len(s)
      /\ f \in 1 .. Frames(c) /\ f + 1 = decoded[c] + 2
    BY DEF TypeOK, Frames
<1>2. s[f] + 2 < s[f + 1] /\ s[f + 1] <= s[f] + MaxOffset
    BY <1>1 DEF Framed, HeadLen
<1> HIDE DEF s, f
<1>3. s[f] \in Nat /\ s[f + 1] \in Nat
    BY <1>1
<1>4. s[f + 1] = s[decoded[c] + 2]
    BY <1>1
<1> QED BY <1>2, <1>3, <1>4 DEF s, f

-----------------------------------------------------------------------------
(* The queue of decoded rpcs: its type is kept by a push and a pop. *)
LEMMA PushType ==
    ASSUME TypeOK, NEW c \in Conns, NEW n \in Nat, NEW kind \in Kinds
    PROVE  Append(m_rpc_imp_queue, Imp(c, n, kind)) \in Seq(Imps)
<1>1. Imp(c, n, kind) \in Imps BY DEF Imp, Imps
<1> QED BY <1>1 DEF TypeOK

(* An entry of a connection that on_read has pushed is an rpc's or the    *)
(* notice's.                                                              *)
LEMMA PopType ==
    ASSUME TypeOK, m_rpc_imp_queue # <<>>
    PROVE  /\ Pop[1] \in Imps /\ Pop[2] \in Seq(Imps)
           /\ Pop[1] = m_rpc_imp_queue[1]
           /\ Len(Pop[2]) = Len(m_rpc_imp_queue) - 1
           /\ \A i \in 1 .. Len(Pop[2]) : Pop[2][i] = m_rpc_imp_queue[i + 1]
BY DEF TypeOK, Pop

-----------------------------------------------------------------------------
(* One step keeps the types and the invariant of the stream. *)
LEMMA InitStream == Init => TypeOK /\ StreamInv
<1> SUFFICES ASSUME Init PROVE TypeOK /\ StreamInv
    OBVIOUS
<1> USE SizesAssumption DEF Init
<1>1. TypeOK BY DEF TypeOK, PCs
<1>2. ASSUME NEW c \in Conns PROVE Framed(c) /\ Cached(c) /\ Between(c)
  <2>1. Framed(c) /\ Between(c) BY DEF Framed, Between, Frames, HeadLen
  <2>2. Run(0, 0) = <<>> BY RunType, EmptySeq
  <2>3. Cached(c) BY <2>2 DEF Cached, Frames, Total
  <2> QED BY <2>1, <2>3
<1> QED BY <1>1, <1>2 DEF StreamInv

(* A connection none of whose variables changes keeps its invariant. *)
LEMMA Untouched ==
    ASSUME NEW d \in Conns, Framed(d), Cached(d), Between(d),
           sent'[d] = sent[d], taken'[d] = taken[d], ret'[d] = ret[d],
           m_buffer_cache'[d] = m_buffer_cache[d], decoded'[d] = decoded[d],
           m_cache_idx'[d] = m_cache_idx[d], pc'[d] = pc[d]
    PROVE  Framed(d)' /\ Cached(d)' /\ Between(d)'
BY DEF Framed, Cached, Between, Frames, Total

(* The peer appends a frame: what was read is not affected, and if there  *)
(* was nothing left to decode the new frame has not arrived.              *)
LEMMA SendsStream ==
    ASSUME TypeOK, StreamInv, NEW c \in Conns, PeerSends(c)
    PROVE  TypeOK' /\ StreamInv'
<1> USE DEF PeerSends, Encode, readVars, mainVars
<1>1. PICK size \in Sizes :
         sent' = [sent EXCEPT ![c] = Append(@, Total(c) + size)]
    OBVIOUS
<1>2. size \in Nat /\ 2 < size /\ size <= MaxOffset
    BY SizesAssumption DEF HeadLen
<1>3. sent[c] \in Seq(Nat) /\ Len(sent[c]) \in Nat /\ Len(sent[c]) >= 1
    BY DEF TypeOK, StreamInv, Framed
<1>4. Total(c) \in Nat /\ Total(c) + size \in Nat
    BY <1>2, <1>3 DEF Total
<1>5. /\ sent'[c] \in Seq(Nat) /\ Len(sent'[c]) = Len(sent[c]) + 1
      /\ \A i \in 1 .. Len(sent[c]) : sent'[c][i] = sent[c][i]
      /\ sent'[c][Len(sent[c]) + 1] = Total(c) + size
    BY <1>1, <1>3, <1>4 DEF TypeOK
<1>6. sent' \in [Conns -> Seq(Nat)]
    BY <1>1, <1>5 DEF TypeOK
<1>7. TypeOK'
    BY <1>6 DEF TypeOK
<1>8. Framed(c)'
  <2> DEFINE s == sent[c]
             t == sent'[c]
  <2>1. \A i, j \in 1 .. Len(s) : i < j => s[i] < s[j]
      BY DEF StreamInv, Framed
  <2>2. \A i \in 1 .. Len(s) - 1 :
           s[i] + HeadLen < s[i + 1] /\ s[i + 1] <= s[i] + MaxOffset
      BY DEF StreamInv, Framed, Frames
  <2>3. s[1] = 0 /\ \A i \in 1 .. Len(s) : s[i] \in Nat
      BY <1>3 DEF StreamInv, Framed
  <2>4. /\ Len(t) = Len(s) + 1 /\ t[Len(s) + 1] = s[Len(s)] + size
        /\ \A i \in 1 .. Len(s) : t[i] = s[i]
      BY <1>5 DEF Total
  <2> HIDE DEF s, t
  <2>5. Len(s) \in Nat /\ Len(s) >= 1 BY <1>3 DEF s
  <2>6. \A i \in 1 .. Len(s) : s[i] <= s[Len(s)]
      BY <2>1, <2>3, <2>5
  <2>7. \A i, j \in 1 .. Len(t) : i < j => t[i] < t[j]
    <3> SUFFICES ASSUME NEW i \in 1 .. Len(t), NEW j \in 1 .. Len(t), i < j
                 PROVE  t[i] < t[j]
        OBVIOUS
    <3>1. i \in 1 .. Len(s) BY <2>4, <2>5
    <3>2. CASE j \in 1 .. Len(s) BY <3>1, <3>2, <2>1, <2>4
    <3>3. CASE j = Len(s) + 1
      <4>1. s[i] <= s[Len(s)] /\ s[i] \in Nat /\ s[Len(s)] \in Nat
          BY <3>1, <2>3, <2>5, <2>6
      <4> QED BY <3>1, <3>3, <4>1, <2>4, <1>2
    <3> QED BY <3>2, <3>3, <2>4, <2>5
  <2>8. ASSUME NEW i \in 1 .. Len(t) - 1
        PROVE  t[i] + HeadLen < t[i + 1] /\ t[i + 1] <= t[i] + MaxOffset
    <3>1. CASE i < Len(s)
      <4>1. i \in 1 .. Len(s) - 1 /\ i + 1 \in 1 .. Len(s)
          BY <3>1, <2>4, <2>5
      <4> QED BY <4>1, <2>2, <2>4
    <3>2. CASE i = Len(s)
        BY <3>2, <2>3, <2>4, <2>5, <1>2, SizesAssumption DEF HeadLen
    <3> QED BY <3>1, <3>2, <2>4, <2>5
  <2>9. Len(t) >= 1 /\ t[1] = 0
      BY <2>3, <2>4, <2>5
  <2> QED BY <2>7, <2>8, <2>9 DEF t, Framed, Frames
<1>9. Cached(c)' /\ Between(c)'
  <2>1. Cached(c) /\ Between(c) BY DEF StreamInv
  <2>2. decoded[c] \in Nat /\ taken[c] \in Nat BY DEF TypeOK
  <2>3. decoded[c] + 1 \in 1 .. Len(sent[c])
      BY <2>1, <2>2, <1>3 DEF Cached, Frames
  <2>4. sent'[c][decoded[c] + 1] = sent[c][decoded[c] + 1]
      BY <2>3, <1>5
  <2>5. Total(c)' = Total(c) + size /\ Frames(c)' = Frames(c) + 1
      BY <1>3, <1>5 DEF Total, Frames
  <2>6. taken[c] <= Total(c) + size /\ decoded[c] <= Frames(c) + 1
    <3>1. taken[c] <= Total(c) /\ decoded[c] <= Frames(c) BY <2>1 DEF Cached
    <3>2. Frames(c) \in Nat BY <1>3 DEF Frames
    <3> QED BY <3>1, <3>2, <2>2, <1>2, <1>4
  <2>7. Cached(c)'
      BY <2>1, <2>4, <2>5, <2>6 DEF Cached
  <2>8. CASE decoded[c] < Frames(c)
    <3>1. decoded[c] + 2 \in 1 .. Len(sent[c])
        BY <2>2, <2>8, <1>3 DEF Frames
    <3>2. sent'[c][decoded[c] + 2] = sent[c][decoded[c] + 2]
        BY <3>1, <1>5
    <3> QED BY <2>1, <2>7, <2>8, <3>2 DEF Between
  <2>9. CASE decoded[c] = Frames(c)
    <3>1. sent'[c][decoded[c] + 2] = Total(c) + size
        BY <2>9, <1>3, <1>5 DEF Frames
    <3>2. taken[c] < Total(c) + size
        BY <2>1, <2>2, <1>2, <1>4 DEF Cached
    <3> QED BY <2>1, <2>7, <3>1, <3>2 DEF Between
  <2>10. decoded[c] < Frames(c) \/ decoded[c] = Frames(c)
      BY <2>1, <2>2, <1>3 DEF Cached, Frames
  <2> QED BY <2>8, <2>9, <2>10
<1>10. ASSUME NEW d \in Conns, d # c
       PROVE  Framed(d)' /\ Cached(d)' /\ Between(d)'
  <2>1. sent'[d] = sent[d] BY <1>1, <1>10 DEF TypeOK
  <2> QED BY <2>1, Untouched DEF StreamInv
<1> QED BY <1>7, <1>8, <1>9, <1>10 DEF StreamInv

(* A read appends at most RcvBuf bytes to less than a frame: that fits. *)
LEMMA ReadStream ==
    ASSUME TypeOK, StreamInv, NEW c \in Conns, OnRead(c)
    PROVE  TypeOK' /\ StreamInv'
<1> USE DEF OnRead, wireVars, mainVars
<1> DEFINE idx == m_cache_idx[c]
<1>1. PICK length \in 1 .. RcvBuf :
         /\ taken[c] + length <= Total(c)
         /\ m_buffer_cache' = [m_buffer_cache EXCEPT ![c] =
               @ \o Run(taken[c], length)]
         /\ m_cache_idx' = [m_cache_idx EXCEPT ![c] = Short(@ + length)]
         /\ taken' = [taken EXCEPT ![c] = @ + length]
         /\ pc' = [pc EXCEPT ![c] =
               IF m_cache_idx[c] + length > BufCache THEN "overrun"
                                                     ELSE "generate"]
    OBVIOUS
<1>2. /\ Cached(c) /\ ret[c] = 0 /\ idx < MaxOffset
      /\ idx \in Nat /\ taken[c] \in Nat /\ length \in Nat
      /\ length >= 1 /\ length <= RcvBuf
    BY SizesAssumption DEF StreamInv, Cached, Between, TypeOK
<1>3. idx + length \in 0 .. ShortMax /\ idx + length <= BufCache
  <2>1. /\ (MaxOffset - 1) + RcvBuf <= ShortMax /\ ShortMax <= BufCache
        /\ MaxOffset \in Nat /\ RcvBuf \in Nat
        /\ ShortMax \in Nat /\ BufCache \in Nat
      BY SizesAssumption, CacheAssumption
  <2> QED BY <2>1, <1>2
<1>4. m_cache_idx'[c] = idx + length /\ pc'[c] = "generate"
  <2>1. Short(idx + length) = idx + length
      BY <1>3, SizesAssumption DEF Short
  <2>2. ~(idx + length > BufCache) BY <1>3, SizesAssumption
  <2> QED BY <1>1, <2>1, <2>2 DEF TypeOK
<1>5. taken'[c] = taken[c] + length
    BY <1>1 DEF TypeOK
<1>6. m_buffer_cache'[c] = Run(taken[c] - idx, idx + length)
  <2>1. m_buffer_cache'[c] = m_buffer_cache[c] \o Run(taken[c], length)
      BY <1>1 DEF TypeOK
  <2>2. m_buffer_cache[c] = Run(taken[c] - idx, idx) /\ idx <= taken[c]
      BY <1>2 DEF Cached
  <2>3. taken[c] - idx \in Nat /\ (taken[c] - idx) + idx = taken[c]
      BY <1>2, <2>2
  <2> DEFINE b == taken[c] - idx
  <2> HIDE DEF b, idx
  <2>4. Run(b, idx) \o Run(b + idx, length) = Run(b, idx + length)
      BY <2>3, <1>2, RunConcat DEF b
  <2> QED BY <2>1, <2>2, <2>3, <2>4 DEF b
<1>7. /\ m_buffer_cache'[c] \in Seq(Nat)
      /\ Len(m_buffer_cache'[c]) = idx + length
  <2>1. taken[c] - idx \in Nat /\ idx + length \in Nat BY <1>2 DEF Cached
  <2> DEFINE b == taken[c] - idx
             k == idx + length
  <2> HIDE DEF b, k
  <2>2. Run(b, k) \in Seq(Nat) /\ Len(Run(b, k)) = k
      BY <2>1, RunType DEF b, k
  <2> QED BY <1>6, <2>2 DEF b, k
<1>8. TypeOK'
  <2>1. m_buffer_cache' \in [Conns -> Seq(Nat)]
      BY <1>1, <1>7 DEF TypeOK
  <2>2. m_cache_idx' \in [Conns -> Int] /\ taken' \in [Conns -> Nat]
    <3>1. m_cache_idx'[c] \in Int /\ taken'[c] \in Nat
        BY <1>2, <1>4, <1>5
    <3> HIDE DEF idx
    <3>2. ASSUME NEW d \in Conns PROVE m_cache_idx'[d] \in Int /\ taken'[d] \in Nat
        BY <3>1, <1>1 DEF TypeOK
    <3>3. /\ m_cache_idx' = [d \in Conns |-> m_cache_idx'[d]]
          /\ taken' = [d \in Conns |-> taken'[d]]
        BY <1>1 DEF TypeOK
    <3> QED BY <3>2, <3>3
  <2>3. pc' \in [Conns -> PCs]
      BY <1>1 DEF TypeOK, PCs
  <2>4. \A d \in Conns : Len(m_buffer_cache'[d]) = m_cache_idx'[d]
    <3> SUFFICES ASSUME NEW d \in Conns
                 PROVE  Len(m_buffer_cache'[d]) = m_cache_idx'[d]
        OBVIOUS
    <3>1. CASE d = c BY <3>1, <1>4, <1>7
    <3>2. CASE d # c BY <3>2, <1>1 DEF TypeOK
    <3> QED BY <3>1, <3>2
  <2> QED BY <2>1, <2>2, <2>3, <2>4 DEF TypeOK
<1>9. Framed(c)' /\ Cached(c)' /\ Between(c)'
  <2>1. Framed(c)' BY DEF StreamInv, Framed, Frames
  <2>2. Total(c)' = Total(c) /\ Frames(c)' = Frames(c)
      BY DEF Total, Frames
  <2>3. (taken[c] - idx) + ret[c] = sent[c][decoded[c] + 1]
        /\ idx <= taken[c] /\ decoded[c] <= Frames(c)
      BY <1>2 DEF Cached
  <2>4. /\ (taken[c] + length) - (idx + length) = taken[c] - idx
        /\ idx + length <= taken[c] + length /\ 0 <= idx + length
      BY <1>2, <2>3
  <2> HIDE DEF idx
  <2>6. Cached(c)'
    <3>1. /\ taken'[c] <= Total(c)' /\ decoded'[c] <= Frames(c)'
          /\ ret'[c] <= m_cache_idx'[c]
        BY <1>1, <1>2, <1>4, <1>5, <2>2, <2>3, <2>4
    <3>2. m_cache_idx'[c] \in 0 .. ShortMax /\ m_cache_idx'[c] <= taken'[c]
        BY <1>3, <1>4, <1>5, <2>4
    <3>3. m_buffer_cache'[c] = Run(taken'[c] - m_cache_idx'[c], m_cache_idx'[c])
        BY <1>4, <1>5, <1>6, <2>4
    <3>4. (taken'[c] - m_cache_idx'[c]) + ret'[c] = sent'[c][decoded'[c] + 1]
        BY <1>4, <1>5, <2>3, <2>4
    <3> QED BY <3>1, <3>2, <3>3, <3>4 DEF Cached
  <2>7. Between(c)' BY <1>4 DEF Between
  <2> QED BY <2>1, <2>6, <2>7
<1>10. ASSUME NEW d \in Conns, d # c
       PROVE  Framed(d)' /\ Cached(d)' /\ Between(d)'
  <2>1. /\ taken'[d] = taken[d] /\ m_buffer_cache'[d] = m_buffer_cache[d]
        /\ m_cache_idx'[d] = m_cache_idx[d] /\ pc'[d] = pc[d]
      BY <1>1, <1>10 DEF TypeOK
  <2> QED BY <2>1, Untouched DEF StreamInv
<1> QED BY <1>8, <1>9, <1>10 DEF StreamInv

(* One turn of the loop moves on by the frame that starts there. *)
LEMMA GenerateStream ==
    ASSUME TypeOK, StreamInv, NEW c \in Conns, Generate(c)
    PROVE  TypeOK' /\ StreamInv'
<1>1. Framed(c) /\ Cached(c) /\ Between(c)
    BY DEF StreamInv
<1> DEFINE d == decoded[c]
           r == ret[c]
           idx == m_cache_idx[c]
           this == sent[c][d + 1]
           next == sent[c][d + 2]
<1>2. d < Frames(c) /\ PkgLens(c) = {next - this - HeadLen}
    BY <1>1, NextFrame DEF Generate
<1>3. this \in Nat /\ next \in Nat /\ this + 2 < next
    BY <1>1, <1>2, FrameLen
<1>4. /\ d \in Nat /\ r \in Nat /\ idx \in Nat /\ taken[c] \in Nat
      /\ (taken[c] - idx) + r = this /\ idx <= taken[c]
    BY <1>1, SizesAssumption DEF TypeOK, Cached
<1>5. /\ WholeFrame(c, next - this - HeadLen)
      /\ ret' = [ret EXCEPT ![c] = @ + HeadLen + (next - this - HeadLen)]
    BY <1>2 DEF Generate
<1>6. r + (next - this) <= idx /\ r + (next - this) \in Nat
  <2>1. r + HeadLen + (next - this - HeadLen) <= idx
      BY <1>4, <1>5 DEF WholeFrame, UInt16
  <2> HIDE DEF r, next, this, idx
  <2> QED BY <2>1, <1>3, <1>4 DEF HeadLen
<1>7. ret'[c] = r + (next - this) /\ decoded'[c] = d + 1
  <2>1. ret'[c] = r + HeadLen + (next - this - HeadLen) BY <1>5 DEF TypeOK
  <2>2. decoded'[c] = d + 1 BY DEF Generate, TypeOK
  <2> HIDE DEF r, next, this
  <2> QED BY <2>1, <2>2, <1>3, <1>4 DEF HeadLen
<1>8. /\ UNCHANGED <<sent, broken, taken, m_buffer_cache, m_cache_idx, pc>>
      /\ UNCHANGED <<writeFailed, executed, gone>>
      /\ decoded' = [decoded EXCEPT ![c] = @ + 1] /\ pc[c] = "generate"
      /\ m_rpc_imp_queue' = Append(m_rpc_imp_queue, Imp(c, decoded[c] + 1, "rpc"))
    BY DEF Generate, wireVars, mainVars
<1>9. TypeOK'
  <2>1. ret' \in [Conns -> Nat]
    <3>1. r + HeadLen + (next - this - HeadLen) \in Nat
      <4> HIDE DEF r, next, this, idx
      <4> QED BY <1>3, <1>4 DEF HeadLen
    <3> QED BY <3>1, <1>5 DEF TypeOK
  <2>2. decoded' \in [Conns -> Nat] BY <1>8 DEF TypeOK
  <2>3. m_rpc_imp_queue' \in Seq(Imps) BY <1>4, <1>8, PushType DEF Kinds
  <2> QED BY <2>1, <2>2, <2>3, <1>8 DEF TypeOK
<1>10. Framed(c)' /\ Cached(c)' /\ Between(c)'
  <2>1. Framed(c)' BY <1>1, <1>8 DEF Framed, Frames
  <2>2. Total(c)' = Total(c) /\ Frames(c)' = Frames(c)
      BY <1>8 DEF Total, Frames
  <2>3. d + 1 <= Frames(c) BY <1>2, <1>4 DEF TypeOK, Frames
  <2>4. (taken[c] - idx) + (r + (next - this)) = sent[c][(d + 1) + 1]
    <3>1. (d + 1) + 1 = d + 2 BY <1>4
    <3>2. sent[c][(d + 1) + 1] = next BY <3>1
    <3> HIDE DEF d, r, idx, next, this
    <3> QED BY <3>2, <1>3, <1>4
  <2>5. Cached(c)'
      BY <1>1, <1>6, <1>7, <1>8, <2>2, <2>3, <2>4 DEF Cached
  <2>6. Between(c)' BY <1>8 DEF Between
  <2> QED BY <2>1, <2>5, <2>6
<1>11. ASSUME NEW e \in Conns, e # c
       PROVE  Framed(e)' /\ Cached(e)' /\ Between(e)'
  <2>1. ret'[e] = ret[e] /\ decoded'[e] = decoded[e]
      BY <1>5, <1>8, <1>11 DEF TypeOK
  <2> QED BY <2>1, <1>8, Untouched DEF StreamInv
<1> QED BY <1>9, <1>10, <1>11 DEF StreamInv

(* What is left when the loop ends is less than a frame, and it is moved  *)
(* to the front of the cache.                                             *)
LEMMA EndGenerateStream ==
    ASSUME TypeOK, StreamInv, NEW c \in Conns, EndGenerate(c)
    PROVE  TypeOK' /\ StreamInv'
<1>1. Framed(c) /\ Cached(c) /\ Between(c)
    BY DEF StreamInv
<1> DEFINE d == decoded[c]
           r == ret[c]
           idx == m_cache_idx[c]
           this == sent[c][d + 1]
           next == sent[c][d + 2]
<1>2. /\ d \in Nat /\ r \in Nat /\ idx \in Nat /\ taken[c] \in Nat
      /\ r <= idx /\ idx <= taken[c] /\ idx \in 0 .. ShortMax
      /\ d <= Frames(c) /\ Frames(c) \in Int /\ taken[c] <= Total(c)
      /\ (taken[c] - idx) + r = this
    BY <1>1, SizesAssumption DEF TypeOK, Cached, Frames
<1>3. MaxOffset \in Nat /\ MaxOffset > 2
    BY SizesAssumption DEF HeadLen
<1>4. idx - r < MaxOffset /\ (d < Frames(c) => taken[c] < next)
  <2>1. CASE d < Frames(c)
    <3>1. /\ this \in Nat /\ next \in Nat /\ this + 2 < next
          /\ next <= this + MaxOffset
        BY <1>1, <2>1, FrameLen
    <3>2. idx - r < next - this
      <4>1. CASE HasHead(c)
        <5>1. PkgLens(c) = {next - this - HeadLen} BY <1>1, <4>1, NextFrame
        <5>2. ~WholeFrame(c, next - this - HeadLen)
            BY <4>1, <5>1 DEF EndGenerate
        <5>3. ~(r + HeadLen + (next - this - HeadLen) <= idx)
            BY <5>2, <1>2 DEF WholeFrame, UInt16
        <5> HIDE DEF r, idx, this, next
        <5> QED BY <5>3, <1>2, <3>1 DEF HeadLen
      <4>2. CASE ~HasHead(c)
        <5>1. ~(r + 2 <= idx) BY <4>2, <1>2 DEF HasHead, UInt16, HeadLen
        <5> HIDE DEF r, idx, this, next
        <5> QED BY <5>1, <1>2, <3>1
      <4> QED BY <4>1, <4>2
    <3> HIDE DEF r, idx, this, next
    <3> QED BY <3>1, <3>2, <1>2, <1>3
  <2>2. CASE d = Frames(c)
    <3>1. this = Total(c)
        BY <2>2, <1>2 DEF Frames, Total, TypeOK
    <3> HIDE DEF d, r, idx, this, next
    <3> QED BY <2>2, <3>1, <1>2, <1>3
  <2> HIDE DEF d
  <2> QED BY <2>1, <2>2, <1>2
<1>5. /\ UNCHANGED <<sent, broken, taken, decoded>>
      /\ UNCHANGED <<writeFailed, m_rpc_imp_queue, executed, gone>>
      /\ ret' = [ret EXCEPT ![c] = 0] /\ pc' = [pc EXCEPT ![c] = "read"]
      /\ m_buffer_cache' = [m_buffer_cache EXCEPT ![c] =
                               SubSeq(@, ret[c] + 1, Len(@))]
      /\ m_cache_idx' = [m_cache_idx EXCEPT ![c] = @ - ret[c]]
  <2>1. ~(m_cache_idx[c] < 0) BY <1>2
  <2>2. pc' = [pc EXCEPT ![c] = "read"] BY <2>1 DEF EndGenerate
  <2>3. /\ m_buffer_cache' = [m_buffer_cache EXCEPT ![c] =
                                 SubSeq(@, ret[c] + 1, Len(@))]
        /\ m_cache_idx' = [m_cache_idx EXCEPT ![c] = @ - ret[c]]
      BY DEF EndGenerate, Shift
  <2> QED BY <2>2, <2>3 DEF EndGenerate, wireVars, mainVars
<1>6. /\ m_cache_idx'[c] = idx - r /\ ret'[c] = 0 /\ pc'[c] = "read"
      /\ m_buffer_cache'[c] = SubSeq(m_buffer_cache[c], r + 1, idx)
    BY <1>5 DEF TypeOK
<1>7. m_buffer_cache'[c] = Run(taken[c] - (idx - r), idx - r)
  <2> DEFINE b == taken[c] - idx
  <2>1. m_buffer_cache[c] = Run(b, idx) BY <1>1 DEF Cached
  <2>2. b \in Nat /\ r \in 0 .. idx /\ b + r = taken[c] - (idx - r)
      BY <1>2
  <2> HIDE DEF b, r, idx
  <2>3. SubSeq(Run(b, idx), r + 1, idx) = Run(b + r, idx - r)
      BY <2>2, <1>2, RunRest
  <2> QED BY <1>6, <2>1, <2>2, <2>3
<1>8. m_buffer_cache'[c] \in Seq(Nat) /\ Len(m_buffer_cache'[c]) = idx - r
  <2> DEFINE b == taken[c] - (idx - r)
             k == idx - r
  <2>1. b \in Nat /\ k \in Nat
    <3> HIDE DEF idx, r
    <3> QED BY <1>2
  <2> HIDE DEF b, k
  <2>2. Run(b, k) \in Seq(Nat) /\ Len(Run(b, k)) = k BY <2>1, RunType
  <2> QED BY <1>7, <2>2 DEF b, k
<1>9. TypeOK'
  <2>1. m_buffer_cache' \in [Conns -> Seq(Nat)] BY <1>5, <1>8 DEF TypeOK
  <2>2. m_cache_idx' \in [Conns -> Int]
    <3>1. idx - r \in Int BY <1>2
    <3> QED BY <3>1, <1>5 DEF TypeOK
  <2>3. pc' \in [Conns -> PCs] /\ ret' \in [Conns -> Nat]
      BY <1>5 DEF TypeOK, PCs
  <2>4. \A e \in Conns : Len(m_buffer_cache'[e]) = m_cache_idx'[e]
    <3> SUFFICES ASSUME NEW e \in Conns
                 PROVE  Len(m_buffer_cache'[e]) = m_cache_idx'[e]
        OBVIOUS
    <3>1. CASE e = c BY <3>1, <1>6, <1>8
    <3>2. CASE e # c BY <3>2, <1>5 DEF TypeOK
    <3> QED BY <3>1, <3>2
  <2> QED BY <2>1, <2>2, <2>3, <2>4, <1>5 DEF TypeOK
<1>10. Framed(c)' /\ Cached(c)' /\ Between(c)'
  <2>1. Framed(c)' BY <1>1, <1>5 DEF Framed, Frames
  <2>2. Total(c)' = Total(c) /\ Frames(c)' = Frames(c)
      BY <1>5 DEF Total, Frames
  <2>3. /\ idx - r \in 0 .. ShortMax /\ idx - r <= taken[c] /\ 0 <= idx - r
        /\ (taken[c] - (idx - r)) + 0 = this
    <3> HIDE DEF idx, r, this
    <3> QED BY <1>2, SizesAssumption
  <2>4. Cached(c)'
      BY <1>2, <1>5, <1>6, <1>7, <2>2, <2>3 DEF Cached
  <2>5. Between(c)' BY <1>4, <1>5, <1>6, <2>2 DEF Between
  <2> QED BY <2>1, <2>4, <2>5
<1>11. ASSUME NEW e \in Conns, e # c
       PROVE  Framed(e)' /\ Cached(e)' /\ Between(e)'
  <2>1. /\ ret'[e] = ret[e] /\ m_buffer_cache'[e] = m_buffer_cache[e]
        /\ m_cache_idx'[e] = m_cache_idx[e] /\ pc'[e] = pc[e]
      BY <1>5, <1>11 DEF TypeOK
  <2> QED BY <2>1, <1>5, Untouched DEF StreamInv
<1> QED BY <1>9, <1>10, <1>11 DEF StreamInv

(* The other actions leave the stream alone. *)
LEMMA OtherStream ==
    ASSUME TypeOK, StreamInv,
           \/ \E c \in Conns : Break(c) \/ ReadFails(c) \/ WriteFails(c)
           \/ Exec \/ UNCHANGED vars
    PROVE  TypeOK' /\ StreamInv'
<1>1. ASSUME NEW c \in Conns, Break(c) PROVE TypeOK' /\ StreamInv'
  <2>1. UNCHANGED <<sent, readVars>> /\ TypeOK'
      BY <1>1 DEF Break, TypeOK, readVars, mainVars
  <2> QED BY <2>1, Untouched DEF StreamInv, readVars
<1>2. ASSUME NEW c \in Conns, ReadFails(c) PROVE TypeOK' /\ StreamInv'
  <2>1. /\ UNCHANGED <<sent, broken, taken, m_buffer_cache, m_cache_idx>>
        /\ UNCHANGED <<ret, decoded, writeFailed, executed, gone>>
        /\ pc[c] = "read" /\ pc' = [pc EXCEPT ![c] = "closed"]
        /\ m_rpc_imp_queue' =
              Append(m_rpc_imp_queue, Imp(c, decoded[c] + 1, "readError"))
      BY <1>2 DEF ReadFails, ReadError, wireVars, mainVars
  <2>2. TypeOK'
    <3>1. decoded[c] + 1 \in Nat BY DEF TypeOK
    <3>2. m_rpc_imp_queue' \in Seq(Imps) BY <2>1, <3>1, PushType DEF Kinds
    <3> QED BY <2>1, <3>2 DEF TypeOK, PCs
  <2>3. ASSUME NEW d \in Conns PROVE Framed(d)' /\ Cached(d)' /\ Between(d)'
    <3>1. Framed(d)' /\ Cached(d)'
        BY <2>1 DEF StreamInv, Framed, Cached, Frames, Total
    <3>2. CASE d = c
        BY <2>1, <3>1, <3>2 DEF StreamInv, Between, Frames, TypeOK
    <3>3. CASE d # c
        BY <2>1, <3>1, <3>3 DEF StreamInv, Between, Frames, TypeOK
    <3> QED BY <3>2, <3>3
  <2> QED BY <2>2, <2>3 DEF StreamInv
<1>3. ASSUME NEW c \in Conns, WriteFails(c) PROVE TypeOK' /\ StreamInv'
  <2>1. m_rpc_imp_queue' \in Seq(Imps)
      BY <1>3, PushType DEF WriteFails, Kinds
  <2>2. UNCHANGED <<sent, readVars>> /\ TypeOK'
      BY <1>3, <2>1 DEF WriteFails, TypeOK, wireVars, readVars, mainVars
  <2> QED BY <2>2, Untouched DEF StreamInv, readVars
<1>4. CASE Exec
  <2>1. m_rpc_imp_queue' \in Seq(Imps) /\ Pop[1].conn \in Conns /\ Pop[1].n \in Nat
      BY <1>4, PopType DEF Exec, Imps
  <2>2. executed' \in [Conns -> Seq(Nat)] /\ gone' \in [Conns -> BOOLEAN]
    <3>1. executed[Pop[1].conn] \in Seq(Nat) BY <2>1 DEF TypeOK
    <3>2. Append(executed[Pop[1].conn], Pop[1].n) \in Seq(Nat) BY <2>1, <3>1
    <3> QED BY <1>4, <3>2 DEF Exec, TypeOK
  <2>3. UNCHANGED <<sent, readVars>> /\ TypeOK'
      BY <1>4, <2>1, <2>2 DEF Exec, TypeOK, wireVars, readVars
  <2> QED BY <2>3, Untouched DEF StreamInv, readVars
<1>5. CASE UNCHANGED vars
  <2>1. UNCHANGED <<sent, readVars>> /\ TypeOK'
      BY <1>5 DEF TypeOK, vars, wireVars, readVars, mainVars
  <2> QED BY <2>1, Untouched DEF StreamInv, readVars
<1> QED BY <1>1, <1>2, <1>3, <1>4, <1>5

LEMMA StepStream ==
    ASSUME TypeOK, StreamInv, [Next]_vars PROVE TypeOK' /\ StreamInv'
BY SendsStream, ReadStream, GenerateStream, EndGenerateStream, OtherStream
   DEF Next, Step

(* The framing is right in every reachable state. *)
THEOREM StreamFramed == Spec => [](TypeOK /\ StreamInv)
<1>1. TypeOK /\ StreamInv /\ [Next]_vars => (TypeOK /\ StreamInv)'
    BY StepStream
<1> QED BY <1>1, InitStream, PTL DEF Spec

(* Every variable keeps its type, and the cached bytes are as many as the *)
(* index says.                                                            *)
THEOREM TypeCorrect == Spec => []TypeOK
BY StreamFramed, PTL

(* m_buffer_cache never overflows and m_cache_idx never wraps, whatever   *)
(* pieces the stream arrives in.                                          *)
THEOREM CacheFits == Spec => []Fits
<1>1. TypeOK /\ StreamInv => Fits
  <2> SUFFICES ASSUME TypeOK, StreamInv, NEW c \in Conns
               PROVE  /\ pc[c] # "overrun" /\ m_cache_idx[c] >= 0
                      /\ pc[c] \in {"read", "closed"} => m_cache_idx[c] < MaxOffset
      BY DEF Fits
  <2>1. m_cache_idx[c] \in 0 .. ShortMax BY DEF StreamInv, Cached
  <2> QED BY <2>1, SizesAssumption DEF StreamInv, Between
<1> QED BY <1>1, StreamFramed, PTL

(* After each read every frame that has arrived whole is decoded. *)
THEOREM DecodedPromptly == Spec => []Prompt
<1>1. TypeOK /\ StreamInv => Prompt
  <2> SUFFICES ASSUME TypeOK, StreamInv, NEW c \in Conns,
                      pc[c] \in {"read", "closed"}
               PROVE  /\ sent[c][decoded[c] + 1] <= taken[c]
                      /\ decoded[c] < Frames(c) => taken[c] < sent[c][decoded[c] + 2]
      BY DEF Prompt
  <2>1. /\ (taken[c] - m_cache_idx[c]) + ret[c] = sent[c][decoded[c] + 1]
        /\ ret[c] <= m_cache_idx[c] /\ m_cache_idx[c] <= taken[c]
        /\ ret[c] \in Nat /\ m_cache_idx[c] \in Nat /\ taken[c] \in Nat
      BY SizesAssumption DEF StreamInv, Cached, TypeOK
  <2>2. (taken[c] - m_cache_idx[c]) + ret[c] <= taken[c] BY <2>1
  <2> QED BY <2>1, <2>2 DEF StreamInv, Between
<1> QED BY <1>1, StreamFramed, PTL

-----------------------------------------------------------------------------
(* The queue.  A push or a pop for one connection does not disturb what   *)
(* InOrder says of another.                                               *)

Last(c) == IF pc[c] = "closed" THEN decoded[c] + 1 ELSE decoded[c]
NextOf(c) == IF gone[c] THEN decoded[c] + 2 ELSE Len(executed[c]) + 1

Done(c) ==
    /\ executed[c] = Run(0, Len(executed[c])) /\ Len(executed[c]) <= decoded[c]
    /\ gone[c] => pc[c] = "closed" /\ Len(executed[c]) = decoded[c]

Queued(c) ==
    /\ \A i, j \in 1 .. Len(m_rpc_imp_queue) :
          ReadBy(i, c) /\ ReadBy(j, c) /\ i < j =>
             m_rpc_imp_queue[i].n < m_rpc_imp_queue[j].n
    /\ \A n \in NextOf(c) .. Last(c) : \E i \in 1 .. Len(m_rpc_imp_queue) :
          ReadBy(i, c) /\ m_rpc_imp_queue[i].n = n
    /\ \A i \in 1 .. Len(m_rpc_imp_queue) : ReadBy(i, c) =>
          /\ m_rpc_imp_queue[i].n \in NextOf(c) .. Last(c)
          /\ m_rpc_imp_queue[i].kind = "rpc" <=> m_rpc_imp_queue[i].n <= decoded[c]

LEMMA InOrderParts ==
    ASSUME TypeOK
    PROVE  InOrder <=> \A c \in Conns : Done(c) /\ Queued(c)
<1>1. DOMAIN m_rpc_imp_queue = 1 .. Len(m_rpc_imp_queue)
    BY DEF TypeOK
<1> QED BY <1>1 DEF InOrder, Done, Queued, Last, NextOf

(* A push of what Queued does not count. *)
LEMMA PushOther ==
    ASSUME TypeOK, NEW d \in Conns, Done(d), Queued(d), NEW e \in Imps,
           m_rpc_imp_queue' = Append(m_rpc_imp_queue, e),
           ~(e.conn = d /\ e.kind # "writeError"),
           pc'[d] = pc[d], decoded'[d] = decoded[d],
           executed'[d] = executed[d], gone'[d] = gone[d]
    PROVE  Done(d)' /\ Queued(d)'
<1> DEFINE q == m_rpc_imp_queue
           p == m_rpc_imp_queue'
<1>0. PICK l \in Nat : l = Len(m_rpc_imp_queue)
    BY DEF TypeOK
<1>1. /\ Len(p) = l + 1 /\ p[l + 1] = e
      /\ \A i \in 1 .. l : p[i] = q[i]
    BY <1>0 DEF TypeOK
<1>2. /\ \A i \in 1 .. l : ReadBy(i, d)' <=> ReadBy(i, d)
      /\ ~ReadBy(l + 1, d)'
  <2>1. ASSUME NEW i \in 1 .. l PROVE ReadBy(i, d)' <=> ReadBy(i, d)
    <3>1. m_rpc_imp_queue'[i] = m_rpc_imp_queue[i] BY <1>1
    <3> QED BY <3>1 DEF ReadBy
  <2>2. m_rpc_imp_queue'[l + 1] = e BY <1>1
  <2>3. ~ReadBy(l + 1, d)' BY <2>2 DEF ReadBy
  <2> QED BY <2>1, <2>3
<1>3. 1 .. Len(p) = (1 .. l) \cup {l + 1}
    BY <1>1
<1>4. NextOf(d)' = NextOf(d) /\ Last(d)' = Last(d)
    BY DEF NextOf, Last
<1>5. Done(d)' BY DEF Done
<1> HIDE DEF q, p
<1>6. \A i \in 1 .. Len(p) : ReadBy(i, d)' =>
         i \in 1 .. l /\ ReadBy(i, d) /\ p[i] = q[i]
  <2> SUFFICES ASSUME NEW i \in 1 .. Len(p), ReadBy(i, d)'
               PROVE  i \in 1 .. l /\ ReadBy(i, d) /\ p[i] = q[i]
      OBVIOUS
  <2>1. i # l + 1 BY <1>2
  <2>2. i \in 1 .. l BY <2>1, <1>3
  <2> QED BY <2>2, <1>1, <1>2
<1>7. Queued(d)'
  <2>1. \A i, j \in 1 .. Len(p) : ReadBy(i, d)' /\ ReadBy(j, d)' /\ i < j =>
           p[i].n < p[j].n
      BY <1>0, <1>6 DEF Queued, q
  <2>2. \A n \in NextOf(d) .. Last(d) : \E i \in 1 .. Len(p) :
           ReadBy(i, d)' /\ p[i].n = n
      BY <1>0, <1>1, <1>2, <1>3 DEF Queued, q
  <2>3. \A i \in 1 .. Len(p) : ReadBy(i, d)' =>
           p[i].n \in NextOf(d) .. Last(d) /\ (p[i].kind = "rpc" <=> p[i].n <= decoded[d])
      BY <1>0, <1>6 DEF Queued, q
  <2> QED BY <2>1, <2>2, <2>3, <1>4 DEF Queued, p
<1> QED BY <1>5, <1>7

(* on_read pushes the next rpc of its connection, or its notice. *)
LEMMA PushNext ==
    ASSUME TypeOK, NEW c \in Conns, Done(c), Queued(c), pc[c] # "closed",
           NEW kind \in {"rpc", "readError"},
           m_rpc_imp_queue' =
              Append(m_rpc_imp_queue, Imp(c, decoded[c] + 1, kind)),
           UNCHANGED <<executed, gone>>,
           Last(c)' = decoded[c] + 1,
           kind = "rpc" <=> decoded'[c] = decoded[c] + 1,
           kind # "rpc" <=> decoded'[c] = decoded[c]
    PROVE  Done(c)' /\ Queued(c)'
<1> DEFINE q == m_rpc_imp_queue
           p == m_rpc_imp_queue'
           k == decoded[c]
<1>0. PICK l \in Nat : l = Len(m_rpc_imp_queue)
    BY DEF TypeOK
<1>1. /\ Len(p) = l + 1
      /\ p[l + 1] = Imp(c, k + 1, kind)
      /\ \A i \in 1 .. l : p[i] = q[i]
    BY <1>0, PushType DEF TypeOK
<1>2. /\ \A i \in 1 .. l : ReadBy(i, c)' <=> ReadBy(i, c)
      /\ ReadBy(l + 1, c)' /\ p[l + 1].n = k + 1
      /\ p[l + 1].kind = kind
  <2>1. ASSUME NEW i \in 1 .. l PROVE ReadBy(i, c)' <=> ReadBy(i, c)
    <3>1. m_rpc_imp_queue'[i] = m_rpc_imp_queue[i] BY <1>1
    <3> QED BY <3>1 DEF ReadBy
  <2>2. m_rpc_imp_queue'[l + 1] = Imp(c, k + 1, kind) BY <1>1
  <2>3. /\ Imp(c, k + 1, kind).conn = c /\ Imp(c, k + 1, kind).n = k + 1
        /\ Imp(c, k + 1, kind).kind = kind
    <3> HIDE DEF k
    <3> QED BY DEF Imp
  <2>4. p[l + 1].n = k + 1 /\ p[l + 1].kind = kind /\ p[l + 1].conn = c
      BY <2>2, <2>3, Zenon
  <2>5. ReadBy(l + 1, c)' BY <2>4 DEF ReadBy
  <2> QED BY <2>1, <2>4, <2>5
<1>3. 1 .. Len(p) = (1 .. l) \cup {l + 1}
    BY <1>1
<1>4. ~gone[c] /\ NextOf(c)' = NextOf(c) /\ Last(c) = k /\ k \in Nat
      /\ NextOf(c) \in Nat
    BY DEF NextOf, Last, Done, TypeOK
<1>5. Done(c)'
  <2>1. Len(executed[c]) <= decoded'[c] BY <1>4 DEF Done, TypeOK
  <2> QED BY <1>4, <2>1 DEF Done
<1>6. /\ \A i, j \in 1 .. l : ReadBy(i, c) /\ ReadBy(j, c) /\ i < j =>
            q[i].n < q[j].n
      /\ \A n \in NextOf(c) .. k : \E i \in 1 .. l :
            ReadBy(i, c) /\ q[i].n = n
      /\ \A i \in 1 .. l : ReadBy(i, c) =>
            /\ q[i].n \in NextOf(c) .. k
            /\ q[i].kind = "rpc" <=> q[i].n <= k
    BY <1>0, <1>4 DEF Queued
<1> HIDE DEF q, p, k
<1>7. NextOf(c) <= k + 1 /\ NextOf(c)' = NextOf(c)
    BY <1>4 DEF NextOf, Done, TypeOK, k
<1> HIDE DEF k
<1>8. \A i, j \in 1 .. Len(p) : ReadBy(i, c)' /\ ReadBy(j, c)' /\ i < j =>
         p[i].n < p[j].n
  <2> SUFFICES ASSUME NEW i \in 1 .. Len(p), NEW j \in 1 .. Len(p),
                      ReadBy(i, c)', ReadBy(j, c)', i < j
               PROVE  p[i].n < p[j].n
      OBVIOUS
  <2>1. i \in 1 .. l /\ ReadBy(i, c) /\ p[i] = q[i]
      BY <1>1, <1>2, <1>3
  <2>2. CASE j \in 1 .. l BY <2>1, <2>2, <1>1, <1>2, <1>6
  <2>3. CASE j = l + 1
    <3>1. q[i].n \in NextOf(c) .. k BY <2>1, <1>6
    <3>2. q[i].n < k + 1 BY <3>1, <1>4
    <3> QED BY <2>1, <2>3, <3>2, <1>2
  <2> QED BY <2>2, <2>3, <1>3
<1>9. \A n \in NextOf(c) .. k + 1 : \E i \in 1 .. Len(p) :
         ReadBy(i, c)' /\ p[i].n = n
  <2> SUFFICES ASSUME NEW n \in NextOf(c) .. k + 1
               PROVE  \E i \in 1 .. Len(p) : ReadBy(i, c)' /\ p[i].n = n
      OBVIOUS
  <2>1. CASE n = k + 1
    <3>1. l + 1 \in 1 .. Len(p) BY <1>3
    <3> QED BY <2>1, <3>1, <1>2
  <2>2. CASE n # k + 1
    <3>1. n \in NextOf(c) .. k BY <2>2, <1>4
    <3>2. PICK i \in 1 .. l : ReadBy(i, c) /\ q[i].n = n BY <3>1, <1>6
    <3> QED BY <3>2, <1>1, <1>2, <1>3
  <2> QED BY <2>1, <2>2
<1>10. \A i \in 1 .. Len(p) : ReadBy(i, c)' =>
          /\ p[i].n \in NextOf(c) .. k + 1
          /\ p[i].kind = "rpc" <=> p[i].n <= decoded'[c]
  <2> SUFFICES ASSUME NEW i \in 1 .. Len(p), ReadBy(i, c)'
               PROVE  /\ p[i].n \in NextOf(c) .. k + 1
                      /\ p[i].kind = "rpc" <=> p[i].n <= decoded'[c]
      OBVIOUS
  <2>1. decoded'[c] = k \/ decoded'[c] = k + 1 BY DEF k
  <2>2. CASE i \in 1 .. l
    <3>1. ReadBy(i, c) /\ p[i] = q[i] BY <2>2, <1>1, <1>2
    <3>2. q[i].n \in NextOf(c) .. k /\ (q[i].kind = "rpc" <=> q[i].n <= k)
        BY <2>2, <3>1, <1>6
    <3>3. /\ q[i].n \in NextOf(c) .. k + 1 /\ q[i].n <= k
          /\ q[i].n <= decoded'[c]
        BY <3>2, <2>1, <1>4
    <3> QED BY <3>1, <3>2, <3>3
  <2>3. CASE i = l + 1
    <3>1. p[i].n = k + 1 /\ p[i].kind = kind BY <2>3, <1>2
    <3>2. k + 1 \in NextOf(c) .. k + 1 BY <1>4, <1>7
    <3>3. kind = "rpc" <=> k + 1 <= decoded'[c] BY <2>1, <1>4 DEF k
    <3> QED BY <3>1, <3>2, <3>3
  <2> QED BY <2>2, <2>3, <1>3
<1>11. Last(c)' = k + 1 BY DEF k
<1> QED BY <1>5, <1>7, <1>8, <1>9, <1>10, <1>11 DEF Queued, p

(* The first entry of a connection in the queue is its next one. *)
LEMMA HeadIsNext ==
    ASSUME TypeOK, NEW c \in Conns, Done(c), Queued(c),
           1 \in 1 .. Len(m_rpc_imp_queue), ReadBy(1, c)
    PROVE  /\ ~gone[c] /\ m_rpc_imp_queue[1].n = Len(executed[c]) + 1
           /\ m_rpc_imp_queue[1].kind = "rpc" => Len(executed[c]) < decoded[c]
           /\ m_rpc_imp_queue[1].kind = "readError" =>
                 pc[c] = "closed" /\ Len(executed[c]) = decoded[c]
<1> DEFINE q == m_rpc_imp_queue
           n == q[1].n
           x == Len(executed[c])
           d == decoded[c]
<1>1. /\ n \in NextOf(c) .. Last(c) /\ (q[1].kind = "rpc" <=> n <= d)
      /\ \A m \in NextOf(c) .. Last(c) : \E i \in 1 .. Len(q) :
            ReadBy(i, c) /\ q[i].n = m
      /\ \A i \in 1 .. Len(q) : ReadBy(i, c) /\ 1 < i => n < q[i].n
    BY DEF Queued
<1>2. x \in Nat /\ d \in Nat /\ x <= d
    BY DEF TypeOK, Done
<1>3. NextOf(c) \in Nat /\ Last(c) \in Nat /\ n \in Nat
  <2>1. NextOf(c) \in Nat /\ Last(c) \in Nat BY <1>2 DEF NextOf, Last
  <2> HIDE DEF n
  <2> QED BY <2>1, <1>1
<1>4. n = NextOf(c)
  <2>1. PICK i \in 1 .. Len(q) : ReadBy(i, c) /\ q[i].n = NextOf(c)
    <3>1. NextOf(c) \in NextOf(c) .. Last(c)
      <4> HIDE DEF n
      <4> QED BY <1>1, <1>3
    <3> QED BY <3>1, <1>1
  <2>2. CASE i = 1 BY <2>1, <2>2
  <2>3. CASE i # 1
    <3>1. n < NextOf(c) BY <2>1, <2>3, <1>1
    <3> HIDE DEF n
    <3> QED BY <3>1, <1>1, <1>3
  <2> QED BY <2>2, <2>3
<1>5. n <= Last(c)
  <2> HIDE DEF n
  <2> QED BY <1>1, <1>3
<1> HIDE DEF n, x, d
<1>6. ~gone[c]
    BY <1>2, <1>4, <1>5 DEF NextOf, Last, d
<1>7. n = x + 1
    BY <1>4, <1>6 DEF NextOf, x
<1>8. q[1].kind = "rpc" => x < d
    BY <1>1, <1>2, <1>7
<1>9. q[1].kind = "readError" => pc[c] = "closed" /\ x = d
  <2> SUFFICES ASSUME q[1].kind = "readError" PROVE pc[c] = "closed" /\ x = d
      OBVIOUS
  <2>1. ~(n <= d) BY <1>1
  <2>2. pc[c] = "closed" BY <2>1, <1>5 DEF Last, d
  <2>3. n <= d + 1 BY <2>2, <1>5 DEF Last, d
  <2> QED BY <2>1, <2>2, <2>3, <1>2, <1>7
<1> QED BY <1>6, <1>7, <1>8, <1>9 DEF n, x, d

(* The main thread executes the head of the queue. *)
LEMMA PopStep ==
    ASSUME TypeOK, NEW c \in Conns, Done(c), Queued(c), Exec
    PROVE  Done(c)' /\ Queued(c)'
<1> DEFINE q == m_rpc_imp_queue
           p == m_rpc_imp_queue'
<1>0. PICK l \in Nat : l = Len(p)
    BY PopType DEF Exec, TypeOK
<1>1. /\ Len(q) = l + 1 /\ Pop[1] = q[1] /\ q[1] \in Imps
      /\ \A i \in 1 .. l : p[i] = q[i + 1]
  <2>1. /\ p = Pop[2] /\ Len(p) = Len(q) - 1 /\ Pop[1] = q[1] /\ Pop[1] \in Imps
        /\ \A i \in 1 .. Len(p) : p[i] = q[i + 1]
      BY PopType DEF Exec
  <2>2. Len(q) \in Nat BY DEF TypeOK
  <2> HIDE DEF p, q
  <2> QED BY <1>0, <2>1, <2>2
<1>2. ASSUME NEW i \in 1 .. l PROVE ReadBy(i, c)' <=> ReadBy(i + 1, c)
  <2>1. m_rpc_imp_queue'[i] = m_rpc_imp_queue[i + 1] BY <1>1
  <2> QED BY <2>1 DEF ReadBy
<1>3. UNCHANGED <<decoded, pc>>
    BY DEF Exec, readVars
<1>4. /\ \A i, j \in 1 .. Len(q) : ReadBy(i, c) /\ ReadBy(j, c) /\ i < j =>
            q[i].n < q[j].n
      /\ \A n \in NextOf(c) .. Last(c) : \E i \in 1 .. Len(q) :
            ReadBy(i, c) /\ q[i].n = n
      /\ \A i \in 1 .. Len(q) : ReadBy(i, c) =>
            /\ q[i].n \in NextOf(c) .. Last(c)
            /\ q[i].kind = "rpc" <=> q[i].n <= decoded[c]
    BY DEF Queued
<1>5. 1 \in 1 .. Len(q) BY <1>1
<1>6. Last(c)' = Last(c) BY <1>3 DEF Last
<1>7. /\ executed' = IF q[1].kind # "rpc" THEN executed
                     ELSE [executed EXCEPT ![q[1].conn] = Append(@, q[1].n)]
      /\ gone' = IF q[1].kind # "readError" THEN gone
                 ELSE [gone EXCEPT ![q[1].conn] = TRUE]
    BY <1>1 DEF Exec
<1> HIDE DEF q, p
<1>8. \A i, j \in 1 .. l : ReadBy(i, c)' /\ ReadBy(j, c)' /\ i < j => p[i].n < p[j].n
  <2> SUFFICES ASSUME NEW i \in 1 .. l, NEW j \in 1 .. l,
                      ReadBy(i, c)', ReadBy(j, c)', i < j
               PROVE  p[i].n < p[j].n
      OBVIOUS
  <2>1. /\ i + 1 \in 1 .. Len(q) /\ j + 1 \in 1 .. Len(q) /\ i + 1 < j + 1
        /\ ReadBy(i + 1, c) /\ ReadBy(j + 1, c)
      BY <1>1, <1>2
  <2> QED BY <2>1, <1>1, <1>4
<1>9. CASE ~ReadBy(1, c)
  <2>1. executed'[c] = executed[c] /\ gone'[c] = gone[c]
    <3>1. ~(q[1].conn = c /\ q[1].kind \in {"rpc", "readError"})
        BY <1>9 DEF ReadBy, q
    <3> QED BY <3>1, <1>7 DEF TypeOK
  <2>2. NextOf(c)' = NextOf(c) /\ Done(c)'
      BY <2>1, <1>3 DEF NextOf, Done
  <2>3. \A n \in NextOf(c) .. Last(c) : \E i \in 1 .. l : ReadBy(i, c)' /\ p[i].n = n
    <3> SUFFICES ASSUME NEW n \in NextOf(c) .. Last(c)
                 PROVE  \E i \in 1 .. l : ReadBy(i, c)' /\ p[i].n = n
        OBVIOUS
    <3>1. PICK j \in 1 .. Len(q) : ReadBy(j, c) /\ q[j].n = n BY <1>4
    <3>2. PICK i \in 1 .. l : j = i + 1
      <4>1. j # 1 BY <3>1, <1>9
      <4>2. j - 1 \in 1 .. l /\ j = (j - 1) + 1 BY <4>1, <1>1
      <4> QED BY <4>2
    <3> QED BY <3>1, <3>2, <1>1, <1>2
  <2>4. \A i \in 1 .. l : ReadBy(i, c)' =>
           p[i].n \in NextOf(c) .. Last(c) /\ (p[i].kind = "rpc" <=> p[i].n <= decoded[c])
    <3> SUFFICES ASSUME NEW i \in 1 .. l, ReadBy(i, c)'
                 PROVE  /\ p[i].n \in NextOf(c) .. Last(c)
                        /\ p[i].kind = "rpc" <=> p[i].n <= decoded[c]
        OBVIOUS
    <3>1. i + 1 \in 1 .. Len(q) /\ ReadBy(i + 1, c) /\ p[i] = q[i + 1]
        BY <1>1, <1>2
    <3> QED BY <3>1, <1>4
  <2> QED BY <2>2, <2>3, <2>4, <1>0, <1>3, <1>6, <1>8 DEF Queued, p
<1>10. CASE ReadBy(1, c)
  <2> DEFINE x == Len(executed[c])
  <2>1. /\ ~gone[c] /\ q[1].n = x + 1
        /\ q[1].kind = "rpc" => x < decoded[c]
        /\ q[1].kind = "readError" => pc[c] = "closed" /\ x = decoded[c]
      BY <1>5, <1>10, HeadIsNext DEF q
  <2>2. q[1].conn = c /\ (q[1].kind = "rpc" \/ q[1].kind = "readError")
      BY <1>1, <1>10 DEF ReadBy, q, Imps, Kinds
  <2>3. x \in Nat /\ decoded[c] \in Nat /\ NextOf(c) = x + 1
      BY <2>1 DEF TypeOK, NextOf
  <2>4. NextOf(c)' = x + 2 /\ Done(c)'
    <3>1. CASE q[1].kind = "rpc"
      <4>1. executed'[c] = Append(executed[c], x + 1) /\ gone'[c] = gone[c]
          BY <2>1, <2>2, <3>1, <1>7 DEF TypeOK
      <4>2. executed[c] = Run(0, x) /\ executed[c] \in Seq(Nat)
          BY DEF Done, TypeOK
      <4>3. executed'[c] \in Seq(Nat) /\ Len(executed'[c]) = x + 1
          BY <4>1, <4>2, <2>3
      <4>4. executed'[c] = Run(0, x + 1)
        <5>1. ASSUME NEW i \in 1 .. x + 1 PROVE executed'[c][i] = 0 + i
          <6>1. CASE i \in 1 .. x
            <7>1. Run(0, x)[i] = 0 + i BY <6>1, <2>3, RunType
            <7>2. Append(executed[c], x + 1)[i] = executed[c][i]
                BY <6>1, <4>2, <2>3
            <7> QED BY <7>1, <7>2, <4>1, <4>2
          <6>2. CASE i = x + 1 BY <6>2, <4>1, <4>2, <2>3
          <6> QED BY <6>1, <6>2, <2>3
        <5> DEFINE t == executed'[c]
                   k == x + 1
        <5>2. t \in Seq(Nat) /\ k \in Nat /\ Len(t) = k /\ \A i \in 1 .. k : t[i] = 0 + i
            BY <4>3, <5>1, <2>3
        <5> HIDE DEF t, k
        <5>3. t = Run(0, k) BY <5>2, RunUnique
        <5> QED BY <5>3 DEF t, k
      <4>5. Done(c)'
          BY <4>1, <4>3, <4>4, <2>1, <2>3, <3>1, <1>3 DEF Done
      <4>6. NextOf(c)' = x + 2
          BY <4>1, <4>3, <2>1, <2>3 DEF NextOf
      <4> QED BY <4>5, <4>6
    <3>2. CASE q[1].kind = "readError"
      <4>1. executed'[c] = executed[c] /\ gone'[c] = TRUE
          BY <2>2, <3>2, <1>7 DEF TypeOK
      <4> QED BY <4>1, <2>1, <2>3, <3>2, <1>3 DEF Done, NextOf
    <3> QED BY <2>2, <3>1, <3>2
  <2>5. \A n \in x + 2 .. Last(c) : \E i \in 1 .. l : ReadBy(i, c)' /\ p[i].n = n
    <3> SUFFICES ASSUME NEW n \in x + 2 .. Last(c)
                 PROVE  \E i \in 1 .. l : ReadBy(i, c)' /\ p[i].n = n
        OBVIOUS
    <3>1. n \in NextOf(c) .. Last(c) /\ n # x + 1
        BY <2>3 DEF Last
    <3>2. PICK j \in 1 .. Len(q) : ReadBy(j, c) /\ q[j].n = n BY <3>1, <1>4
    <3>3. PICK i \in 1 .. l : j = i + 1
      <4>1. j # 1 BY <3>1, <3>2, <2>1
      <4>2. j - 1 \in 1 .. l /\ j = (j - 1) + 1 BY <4>1, <1>1
      <4> QED BY <4>2
    <3> QED BY <3>2, <3>3, <1>1, <1>2
  <2>6. \A i \in 1 .. l : ReadBy(i, c)' =>
           p[i].n \in x + 2 .. Last(c) /\ (p[i].kind = "rpc" <=> p[i].n <= decoded[c])
    <3> SUFFICES ASSUME NEW i \in 1 .. l, ReadBy(i, c)'
                 PROVE  /\ p[i].n \in x + 2 .. Last(c)
                        /\ p[i].kind = "rpc" <=> p[i].n <= decoded[c]
        OBVIOUS
    <3>1. i + 1 \in 1 .. Len(q) /\ 1 < i + 1 /\ ReadBy(i + 1, c) /\ p[i] = q[i + 1]
        BY <1>1, <1>2
    <3>2. q[1].n < q[i + 1].n BY <3>1, <1>4, <1>5, <1>10
    <3>3. /\ q[i + 1].n \in NextOf(c) .. Last(c)
          /\ q[i + 1].kind = "rpc" <=> q[i + 1].n <= decoded[c]
        BY <3>1, <1>4
    <3>4. p[i].n \in x + 2 .. Last(c)
      <4> DEFINE n == q[i + 1].n
      <4>1. n \in x + 1 .. Last(c) /\ x + 1 < n /\ Last(c) \in Int
          BY <3>2, <3>3, <2>1, <2>3 DEF Last
      <4> HIDE DEF n
      <4>2. n \in x + 2 .. Last(c) BY <4>1, <2>3
      <4> QED BY <4>2, <3>1 DEF n
    <3> QED BY <3>1, <3>3, <3>4
  <2> HIDE DEF x
  <2> QED BY <2>4, <2>5, <2>6, <1>0, <1>3, <1>6, <1>8 DEF Queued, p
<1> QED BY <1>9, <1>10

(* A step that leaves the queue, what was executed and what was decoded. *)
LEMMA QueueUntouched ==
    ASSUME NEW c \in Conns, Done(c), Queued(c),
           UNCHANGED <<m_rpc_imp_queue, executed, gone, decoded>>,
           pc'[c] = "closed" <=> pc[c] = "closed"
    PROVE  Done(c)' /\ Queued(c)'
<1>1. Last(c)' = Last(c) /\ NextOf(c)' = NextOf(c) /\ Done(c)'
    BY DEF Last, NextOf, Done
<1>2. \A i : ReadBy(i, c)' <=> ReadBy(i, c)
    BY DEF ReadBy
<1> QED BY <1>1, <1>2 DEF Queued

LEMMA StepQueue ==
    ASSUME TypeOK, [Next]_vars, NEW d \in Conns, Done(d), Queued(d),
           \A c \in Conns : Done(c) /\ Queued(c)
    PROVE  Done(d)' /\ Queued(d)'
<1>1. ASSUME NEW c \in Conns, PeerSends(c) \/ Break(c) PROVE Done(d)' /\ Queued(d)'
    BY <1>1, QueueUntouched DEF PeerSends, Break, readVars, mainVars
<1>2. ASSUME NEW c \in Conns, OnRead(c) PROVE Done(d)' /\ Queued(d)'
  <2>1. UNCHANGED <<m_rpc_imp_queue, executed, gone, decoded>>
      BY <1>2 DEF OnRead, mainVars
  <2>2. pc'[d] = "closed" <=> pc[d] = "closed"
    <3>1. CASE d = c BY <1>2, <3>1 DEF OnRead, TypeOK
    <3>2. CASE d # c BY <1>2, <3>2 DEF OnRead, TypeOK
    <3> QED BY <3>1, <3>2
  <2> QED BY <2>1, <2>2, QueueUntouched
<1>3. ASSUME NEW c \in Conns, EndGenerate(c) PROVE Done(d)' /\ Queued(d)'
  <2>1. UNCHANGED <<m_rpc_imp_queue, executed, gone, decoded>>
      BY <1>3 DEF EndGenerate, mainVars
  <2>2. pc'[d] = "closed" <=> pc[d] = "closed"
    <3>1. CASE d = c BY <1>3, <3>1 DEF EndGenerate, TypeOK
    <3>2. CASE d # c BY <1>3, <3>2 DEF EndGenerate, TypeOK
    <3> QED BY <3>1, <3>2
  <2> QED BY <2>1, <2>2, QueueUntouched
<1>4. ASSUME NEW c \in Conns, Generate(c) PROVE Done(d)' /\ Queued(d)'
  <2>1. /\ UNCHANGED <<executed, gone, pc>> /\ pc[c] = "generate"
        /\ decoded' = [decoded EXCEPT ![c] = @ + 1]
        /\ m_rpc_imp_queue' =
              Append(m_rpc_imp_queue, Imp(c, decoded[c] + 1, "rpc"))
      BY <1>4 DEF Generate, mainVars
  <2>2. Imp(c, decoded[c] + 1, "rpc") \in Imps /\ Imp(c, decoded[c] + 1, "rpc").conn = c
      BY DEF Imp, Imps, Kinds, TypeOK
  <2>3. CASE d = c
    <3>1. decoded'[c] = decoded[c] + 1 /\ Last(c)' = decoded[c] + 1
          /\ decoded'[c] # decoded[c]
        BY <2>1 DEF TypeOK, Last
    <3> QED BY <2>1, <2>3, <3>1, PushNext
  <2>4. CASE d # c
    <3>1. decoded'[d] = decoded[d] BY <2>1, <2>4 DEF TypeOK
    <3> QED BY <2>1, <2>2, <2>4, <3>1, PushOther
  <2> QED BY <2>3, <2>4
<1>5. ASSUME NEW c \in Conns, ReadFails(c) PROVE Done(d)' /\ Queued(d)'
  <2>1. /\ UNCHANGED <<executed, gone, decoded>> /\ pc[c] = "read"
        /\ pc' = [pc EXCEPT ![c] = "closed"]
        /\ m_rpc_imp_queue' =
              Append(m_rpc_imp_queue, Imp(c, decoded[c] + 1, "readError"))
      BY <1>5 DEF ReadFails, ReadError, mainVars
  <2>2. /\ Imp(c, decoded[c] + 1, "readError") \in Imps
        /\ Imp(c, decoded[c] + 1, "readError").conn = c
      BY DEF Imp, Imps, Kinds, TypeOK
  <2>3. CASE d = c
    <3>1. decoded'[c] = decoded[c] /\ Last(c)' = decoded[c] + 1
          /\ decoded'[c] # decoded[c] + 1
        BY <2>1 DEF TypeOK, Last
    <3> QED BY <2>1, <2>3, <3>1, PushNext
  <2>4. CASE d # c
    <3>1. pc'[d] = pc[d] BY <2>1, <2>4 DEF TypeOK
    <3> QED BY <2>1, <2>2, <2>4, <3>1, PushOther
  <2> QED BY <2>3, <2>4
<1>6. ASSUME NEW c \in Conns, WriteFails(c) PROVE Done(d)' /\ Queued(d)'
  <2>1. /\ UNCHANGED <<executed, gone, decoded, pc>>
        /\ m_rpc_imp_queue' = Append(m_rpc_imp_queue, Imp(c, 0, "writeError"))
      BY <1>6 DEF WriteFails, readVars, mainVars
  <2>2. Imp(c, 0, "writeError") \in Imps /\ Imp(c, 0, "writeError").kind = "writeError"
      BY DEF Imp, Imps, Kinds
  <2> QED BY <2>1, <2>2, PushOther
<1>7. CASE Exec
    BY <1>7, PopStep
<1>8. CASE UNCHANGED vars
    BY <1>8, QueueUntouched DEF vars, readVars, mainVars
<1> QED BY <1>1, <1>2, <1>3, <1>4, <1>5, <1>6, <1>7, <1>8 DEF Next, Step

(* The queue the network threads share with the main thread keeps the     *)
(* rpcs of every connection in order, and the notice of its end last.     *)
THEOREM QueueInOrder == Spec => []InOrder
<1>1. Init => \A c \in Conns : Done(c) /\ Queued(c)
  <2> SUFFICES ASSUME Init, NEW c \in Conns PROVE Done(c) /\ Queued(c)
      OBVIOUS
  <2>1. Run(0, 0) = <<>> BY RunType, EmptySeq
  <2>2. Done(c) BY <2>1 DEF Init, Done
  <2>3. NextOf(c) = 1 /\ Last(c) = 0 BY DEF Init, NextOf, Last
  <2>4. Queued(c) BY <2>3 DEF Init, Queued
  <2> QED BY <2>2, <2>4
<1>2. TypeOK /\ (\A c \in Conns : Done(c) /\ Queued(c)) /\ [Next]_vars
      => (\A c \in Conns : Done(c) /\ Queued(c))'
    BY StepQueue
<1>3. TypeOK /\ (\A c \in Conns : Done(c) /\ Queued(c)) => InOrder
    BY InOrderParts
<1> QED BY <1>1, <1>2, <1>3, TypeCorrect, PTL DEF Spec

-----------------------------------------------------------------------------
(* Each step of the program is a step of every connection's channel. *)

LEMMA ChannelStep ==
    ASSUME TypeOK, StreamInv, InOrder, [Next]_vars, NEW c \in Conns,
           Frames(c)' <= MaxFrames[c]
    PROVE  [Channel(c)!Next]_(Channel(c)!vars)
<1> DEFINE acc == Run(0, Frames(c))
<1>0. Frames(c) \in Nat /\ Done(c) /\ Queued(c)
    BY InOrderParts DEF StreamInv, Framed, Frames, TypeOK
<1>1. ASSUME NEW d \in Conns, PeerSends(d)
      PROVE  [Channel(c)!Next]_(Channel(c)!vars)
  <2>1. UNCHANGED <<executed, gone>>
      BY <1>1 DEF PeerSends, mainVars
  <2>2. CASE d = c
    <3>1. Frames(c)' = Frames(c) + 1
      <4>1. PICK size \in Sizes :
               sent' = [sent EXCEPT ![c] = Append(@, Total(c) + size)]
          BY <1>1, <2>2 DEF PeerSends, Encode
      <4>2. sent'[c] = Append(sent[c], Total(c) + size) BY <4>1 DEF TypeOK
      <4>3. Len(sent'[c]) = Len(sent[c]) + 1
          BY <4>2 DEF TypeOK
      <4> QED BY <4>3 DEF Frames, TypeOK
    <3>2. acc' = Append(acc, Frames(c) + 1)
      <4> DEFINE k == Frames(c)
      <4>1. Run(0, k + 1) = Append(Run(0, k), k + 1)
        <5>1. k \in Nat BY <1>0
        <5> HIDE DEF k
        <5>2. /\ Run(0, k) \in Seq(Nat) /\ Len(Run(0, k)) = k
              /\ \A i \in 1 .. k : Run(0, k)[i] = 0 + i
            BY <5>1, RunType
        <5> DEFINE s == Run(0, k)
                   t == Append(s, k + 1)
        <5>3. /\ t \in Seq(Nat) /\ Len(t) = k + 1
              /\ \A i \in 1 .. k + 1 : t[i] = 0 + i
          <6>1. s \in Seq(Nat) /\ Len(s) = k /\ \A i \in 1 .. k : s[i] = i
              BY <5>1, <5>2
          <6> HIDE DEF s
          <6> QED BY <5>1, <6>1
        <5> HIDE DEF t
        <5>4. t = Run(0, k + 1) BY <5>1, <5>3, RunUnique
        <5> QED BY <5>4 DEF t
      <4> QED BY <3>1, <4>1
    <3>3. Frames(c) + 1 \in 1 .. MaxFrames[c]
        BY <3>1, <1>0, SizesAssumption
    <3>4. Channel(c)!Accept(Frames(c) + 1)
        BY <3>2, <2>1 DEF Channel!Accept
    <3> QED BY <3>3, <3>4 DEF Channel!Next
  <2>3. CASE d # c
    <3>1. sent'[c] = sent[c]
        BY <1>1, <2>3 DEF PeerSends, Encode, TypeOK
    <3> QED BY <2>1, <3>1 DEF Channel!vars, Frames
  <2> QED BY <2>2, <2>3
<1>2. CASE UNCHANGED <<sent, executed, gone>>
    BY <1>2 DEF Channel!vars, Frames
<1>3. CASE Exec
  <2> DEFINE h == m_rpc_imp_queue[1]
  <2>1. /\ sent' = sent /\ 1 \in 1 .. Len(m_rpc_imp_queue) /\ h \in Imps
        /\ executed' = IF h.kind # "rpc" THEN executed
                       ELSE [executed EXCEPT ![h.conn] = Append(@, h.n)]
        /\ gone' = IF h.kind # "readError" THEN gone
                   ELSE [gone EXCEPT ![h.conn] = TRUE]
    <3>1. Len(m_rpc_imp_queue) >= 1
        BY <1>3 DEF Exec, TypeOK
    <3>2. Pop[1] = h /\ h \in Imps BY <1>3, PopType DEF Exec
    <3> QED BY <1>3, <3>1, <3>2 DEF Exec, wireVars, TypeOK
  <2>2. CASE ~(h.conn = c /\ h.kind \in {"rpc", "readError"})
    <3>1. executed'[c] = executed[c] /\ gone'[c] = gone[c] /\ sent'[c] = sent[c]
        BY <2>1, <2>2 DEF TypeOK
    <3> QED BY <3>1 DEF Channel!vars, Frames
  <2>3. CASE h.conn = c /\ h.kind = "rpc"
    <3>1. ReadBy(1, c) BY <2>3 DEF ReadBy
    <3>2. ~gone[c] /\ h.n = Len(executed[c]) + 1 /\ Len(executed[c]) < decoded[c]
        BY <2>1, <2>3, <3>1, <1>0, HeadIsNext
    <3>3. decoded[c] <= Frames(c) BY DEF StreamInv, Cached
    <3>4. executed'[c] = Append(executed[c], h.n) /\ UNCHANGED gone
        BY <2>1, <2>3 DEF TypeOK
    <3>5. /\ Len(executed[c]) \in Nat /\ Len(executed[c]) < Frames(c)
        BY <3>2, <3>3, <1>0 DEF TypeOK
    <3>6. Len(acc) = Frames(c) /\ acc[Len(executed[c]) + 1] = Len(executed[c]) + 1
      <4> DEFINE k == Frames(c)
                 x == Len(executed[c]) + 1
      <4>1. k \in Nat /\ x \in 1 .. k BY <3>5, <1>0
      <4> HIDE DEF k, x
      <4>2. Len(Run(0, k)) = k /\ Run(0, k)[x] = 0 + x BY <4>1, RunType
      <4> QED BY <4>1, <4>2 DEF k, x
    <3>7. Channel(c)!Deliver
        BY <2>1, <3>2, <3>4, <3>5, <3>6 DEF Channel!Deliver, Frames
    <3> QED BY <3>7 DEF Channel!Next
  <2>4. CASE h.conn = c /\ h.kind = "readError"
    <3>1. ReadBy(1, c) BY <2>4 DEF ReadBy
    <3>2. ~gone[c] BY <2>1, <3>1, <1>0, HeadIsNext
    <3>3. executed' = executed /\ gone'[c] = TRUE
        BY <2>1, <2>4 DEF TypeOK
    <3>4. Channel(c)!Fail
        BY <2>1, <3>2, <3>3 DEF Channel!Fail, Frames
    <3> QED BY <3>4 DEF Channel!Next
  <2> QED BY <2>2, <2>3, <2>4
<1>4. ASSUME NEW d \in Conns, Break(d) \/ Step(d) \/ WriteFails(d)
      PROVE  UNCHANGED <<sent, executed, gone>>
    BY <1>4 DEF Break, Step, OnRead, Generate, EndGenerate, ReadFails,
                WriteFails, wireVars, mainVars
<1>5. CASE UNCHANGED vars
    BY <1>2, <1>5 DEF vars, wireVars, mainVars
<1> QED BY <1>1, <1>2, <1>3, <1>4, <1>5 DEF Next

(* The bound on what the peer sends. *)
LEMMA FramesBounded ==
    ASSUME NEW c \in Conns
    PROVE  Spec => [](Frames(c) <= MaxFrames[c])
<1>1. Init => Frames(c) <= MaxFrames[c]
    BY SizesAssumption DEF Init, Frames
<1>2. TypeOK /\ Frames(c) <= MaxFrames[c] /\ [Next]_vars
      => (Frames(c) <= MaxFrames[c])'
  <2> SUFFICES ASSUME TypeOK, Frames(c) <= MaxFrames[c], [Next]_vars
               PROVE  Frames(c)' <= MaxFrames[c]
      OBVIOUS
  <2>1. ASSUME NEW d \in Conns, PeerSends(d) PROVE Frames(c)' <= MaxFrames[c]
    <3>1. PICK size \in Sizes :
             sent' = [sent EXCEPT ![d] = Append(@, Total(d) + size)]
        BY <2>1 DEF PeerSends, Encode
    <3>2. CASE d = c
      <4>1. sent'[c] = Append(sent[c], Total(c) + size) BY <3>1, <3>2 DEF TypeOK
      <4>2. Len(sent'[c]) = Len(sent[c]) + 1 /\ Len(sent[c]) \in Nat
          BY <4>1 DEF TypeOK
      <4>3. Frames(c) < MaxFrames[c] BY <2>1, <3>2 DEF PeerSends, Encode
      <4> QED BY <4>2, <4>3, SizesAssumption DEF Frames
    <3>3. CASE d # c BY <3>1, <3>3 DEF TypeOK, Frames
    <3> QED BY <3>2, <3>3
  <2>2. CASE sent' = sent BY <2>2 DEF Frames
  <2>3. ASSUME NEW d \in Conns, Break(d) \/ Step(d) \/ WriteFails(d)
        PROVE  sent' = sent
      BY <2>3 DEF Break, Step, OnRead, Generate, EndGenerate, ReadFails,
                  WriteFails, wireVars
  <2>4. Exec \/ UNCHANGED vars => sent' = sent BY DEF Exec, vars, wireVars
  <2> QED BY <2>1, <2>2, <2>3, <2>4 DEF Next
<1> QED BY <1>1, <1>2, TypeCorrect, PTL DEF Spec

(* From the peer's socket to the execution on the main thread every       *)
(* connection is an RpcChannel: nothing lost, doubled or overtaken while  *)
(* it is up, whatever the other connections do with the shared queue.     *)
THEOREM Implements == ASSUME NEW c \in Conns PROVE Spec => Channel(c)!Spec
<1>1. Init => Channel(c)!Init
  <2>1. Run(0, 0) = <<>> BY RunType, EmptySeq
  <2> QED BY <2>1 DEF Init, Channel!Init, Frames
<1>2. /\ TypeOK /\ StreamInv /\ InOrder /\ [Next]_vars
      /\ (Frames(c) <= MaxFrames[c])'
      => [Channel(c)!Next]_(Channel(c)!vars)
    BY ChannelStep
<1>3. Spec => [](Frames(c) <= MaxFrames[c])
    BY FramesBounded
<1> QED BY <1>1, <1>2, <1>3, StreamFramed, QueueInOrder, PTL DEF Spec, Channel!Spec
=============================================================================
