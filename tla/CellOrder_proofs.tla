-------------------------- MODULE CellOrder_proofs --------------------------
(***************************************************************************)
(* Proofs about CellMigration: as long as no migration times out, the cell *)
(* executes what each owner calls, in the order of the calls.              *)
(***************************************************************************)
EXTENDS CellMigration_proofs

-----------------------------------------------------------------------------
(* The gameplay rpcs in order.  Of those that owner s has called, numbers  *)
(* 1 .. n, the entity has executed 1 .. a wherever it is; those from there *)
(* on are under way, each once and the older ahead of the younger; the     *)
(* youngest are in the cache.                                              *)
Upto(a) == [i \in 1 .. a |-> i]

No(s, k) == {l \in CallsOf(s) : l.arg[2] = k}
Stale(s, a) == {l \in Pk : l.arg.applied[s] # Upto(a)}

Sequel(q, s, a, m) ==
    /\ \A k \in Nat : Single(q, No(s, k)) /\ (Free(q, No(s, k)) <=> ~(a < k /\ k <= m))
    /\ \A j, k \in Nat : j < k => Ahead(q, Stage, No(s, j), No(s, k))

CacheOf(s, cache, m) == \A i \in 1 .. Len(cache) : cache[i] = CallRpc(<<s, m + i>>)

OrderInv(q, s, cs, live, cache, n, a) ==
    /\ a \in Nat /\ a + Len(cache) <= n
    /\ Sequel(q, s, a, n - Len(cache))
    /\ CacheOf(s, cache, n - Len(cache))
    /\ \A g \in live : cs[g].applied[s] = Upto(a)
    /\ Free(q, Stale(s, a))

(* And no cell, also none that has been sent away, has executed anything   *)
(* else than the first rpcs.                                               *)
NoGap(s, cs) == \A g \in Games : cs[g] # NoCell => \E b \in Nat : cs[g].applied[s] = Upto(b)

LEMMA UptoSeq ==
    /\ Upto(0) = <<>>
    /\ \A a \in Nat : Upto(a) \in Seq(Nat) /\ Append(Upto(a), a + 1) = Upto(a + 1)
<1>1. \A a \in Nat : /\ Upto(a) \in Seq(Nat) /\ Len(Upto(a)) = a
                     /\ \A i \in 1 .. a : Upto(a)[i] = i
    BY DEF Upto
<1>2. Upto(0) = <<>>
    BY <1>1
<1>3. ASSUME NEW a \in Nat PROVE Append(Upto(a), a + 1) = Upto(a + 1)
  <2> DEFINE p == Append(Upto(a), a + 1)
  <2>1. /\ p \in Seq(Nat) /\ Len(p) = a + 1 /\ p[a + 1] = a + 1
        /\ \A i \in 1 .. a : p[i] = Upto(a)[i]
    <3>1. Upto(a) \in Seq(Nat) /\ Len(Upto(a)) = a /\ a + 1 \in Nat
        BY <1>1
    <3> QED BY <3>1
  <2>2. /\ Upto(a + 1) \in Seq(Nat) /\ Len(Upto(a + 1)) = a + 1
        /\ \A i \in 1 .. a + 1 : Upto(a + 1)[i] = i
      BY <1>1
  <2> HIDE DEF p
  <2>3. ASSUME NEW i \in 1 .. a + 1 PROVE p[i] = Upto(a + 1)[i]
    <3>1. i \in 1 .. a \/ i = a + 1
        OBVIOUS
    <3>2. i \in 1 .. a => p[i] = i
        BY <1>1, <2>1
    <3> QED BY <3>1, <3>2, <2>1, <2>2
  <2>4. p = Upto(a + 1)
      BY <2>1, <2>2, <2>3, SeqEqual
  <2> QED BY <2>4 DEF p
<1> QED BY <1>1, <1>2, <1>3

LEMMA NoParts == ASSUME NEW s, NEW k PROVE No(s, k) \in SUBSET CallsOf(s)
BY DEF No

LEMMA Numbered ==
    ASSUME NEW s \in Sources, NEW l \in CallsOf(s)
    PROVE  /\ l \in Letters /\ l.op = "call" /\ l.arg \in Calls /\ l.arg[1] = s
           /\ l.arg[2] \in Nat /\ l \in No(s, l.arg[2])
           /\ \A k : l \in No(s, k) => k = l.arg[2]
<1>1. l \in Letters /\ l.op = "call" /\ l.arg[1] = s
    BY DEF CallsOf
<1>2. PICK c \in Calls, g \in Games : l = SendRpc(c[1], g, CallRpc(c))
    BY <1>1, ForCell, CallLetter
<1>3. l.arg = c
    BY <1>2 DEF SendRpc, CallRpc, Letter
<1>4. c[2] \in Nat
    BY BoundsAssumption DEF Calls
<1> QED BY <1>1, <1>3, <1>4 DEF No

(* What changes the queues and leaves the calls of s in order.             *)
LEMMA SequelSame ==
    ASSUME NEW s, NEW q, NEW r, Same(q, r, CallsOf(s)), NEW a, NEW m, Sequel(q, s, a, m)
    PROVE  Sequel(r, s, a, m)
<1>1. ASSUME NEW k \in Nat
      PROVE  Single(r, No(s, k)) /\ (Free(r, No(s, k)) <=> ~(a < k /\ k <= m))
  <2>1. Single(q, No(s, k)) /\ (Free(q, No(s, k)) <=> ~(a < k /\ k <= m))
      BY DEF Sequel
  <2> QED BY <2>1, NoParts, SameSingle, SameFree
<1>2. ASSUME NEW j \in Nat, NEW k \in Nat, j < k PROVE Ahead(r, Stage, No(s, j), No(s, k))
  <2>1. Ahead(q, Stage, No(s, j), No(s, k))
      BY <1>2 DEF Sequel
  <2> QED BY <2>1, NoParts, SameOrder
<1> QED BY <1>1, <1>2 DEF Sequel

LEMMA SequelTake ==
    ASSUME NEW s, NEW q \in [Where -> Seq(Letters)], NEW v \in Where, q[v] # <<>>,
           NEW r, r = Taken(q, v), Head(q[v]) \notin CallsOf(s),
           NEW a, NEW m, Sequel(q, s, a, m)
    PROVE  Sequel(r, s, a, m)
<1>1. ASSUME NEW k \in Nat
      PROVE  Single(r, No(s, k)) /\ (Free(r, No(s, k)) <=> ~(a < k /\ k <= m))
  <2>1. Single(q, No(s, k)) /\ (Free(q, No(s, k)) <=> ~(a < k /\ k <= m))
      BY DEF Sequel
  <2>2. Head(q[v]) \notin No(s, k)
      BY NoParts
  <2> QED BY <2>1, <2>2, TakeFree, TakeSingle
<1>2. ASSUME NEW j \in Nat, NEW k \in Nat, j < k PROVE Ahead(r, Stage, No(s, j), No(s, k))
  <2>1. Ahead(q, Stage, No(s, j), No(s, k))
      BY <1>2 DEF Sequel
  <2> QED BY <2>1, TakeOrder
<1> QED BY <1>1, <1>2 DEF Sequel

LEMMA SequelHop ==
    ASSUME NEW s \in Sources, NEW q \in [Where -> Seq(Letters)], NEW v, NEW w, NEW r,
           Hop(q, r, v, w), Placed(q), NEW live, Traffic(q, s, live),
           \A g, h \in live : g = h, NEW a, NEW m, Sequel(q, s, a, m)
    PROVE  Sequel(r, s, a, m)
<1>1. v \in Where /\ w \in Where /\ v # w /\ q[v] # <<>> /\ r = Moved(q, v, w)
    BY DEF Hop
<1>2. ASSUME NEW k \in Nat
      PROVE  Single(r, No(s, k)) /\ (Free(r, No(s, k)) <=> ~(a < k /\ k <= m))
  <2>1. Single(q, No(s, k)) /\ (Free(q, No(s, k)) <=> ~(a < k /\ k <= m))
      BY DEF Sequel
  <2> QED BY <2>1, <1>1, MoveFree, MoveSingle
<1> DEFINE dst == CHOOSE g : g \in live
<1>3. ASSUME NEW g \in live PROVE g = dst
  <2>1. dst \in live
      OBVIOUS
  <2> HIDE DEF dst
  <2> QED BY <2>1
<1> HIDE DEF dst
<1>4. ASSUME NEW l \in CallsOf(s) PROVE Free(q, {l}) \/ (l.via = CellGate(s) /\ l.dst = dst)
  <2>1. l.via = CellGate(s) /\ l \in ToCell(s)
      BY ToCellKind DEF ToCell
  <2>2. CASE l.dst \in live
      BY <2>1, <2>2, <1>3
  <2>3. CASE l.dst \notin live
    <3>1. Free(q, {k \in ToCell(s) : k.dst \notin live})
        BY DEF Traffic
    <3> QED BY <3>1, <2>1, <2>3, FreePart
  <2> QED BY <2>2, <2>3
<1>5. ASSUME NEW j \in Nat, NEW k \in Nat, j < k PROVE Ahead(r, Stage, No(s, j), No(s, k))
  <2> DEFINE K == No(s, j)
             M == No(s, k)
  <2>1. Ahead(q, Stage, K, M)
      BY <1>5 DEF Sequel
  <2>2. \A l \in K \cup M : Free(q, {l}) \/ (l.via = CellGate(s) /\ l.dst = dst)
      BY <1>4, NoParts
  <2> HIDE DEF K, M
  <2>3. Ahead(r, Stage, K, M)
      BY <2>1, <2>2, HopOrder
  <2> QED BY <2>3 DEF K, M
<1> QED BY <1>2, <1>5 DEF Sequel

(* The next calls join.                                                    *)
NextCalls(s, m, ls) == \A i \in 1 .. Len(ls) : ls[i] \in No(s, m + i)

LEMMA SequelJoin ==
    ASSUME NEW s \in Sources, NEW q \in [Where -> Seq(Letters)], NEW w \in Where, Stage[w] = 1,
           JoinAt(q, Stage, CallsOf(s), w), NEW a \in Nat, NEW m \in Nat, a <= m,
           Sequel(q, s, a, m),
           NEW ls \in Seq(Letters), NextCalls(s, m, ls), NEW r, r = Joined(q, w, ls)
    PROVE  Sequel(r, s, a, m + Len(ls))
<1>1. Len(ls) \in Nat
    OBVIOUS
<1>2. ASSUME NEW i \in 1 .. Len(ls), NEW k, ls[i] \in No(s, k) PROVE k = m + i
  <2>1. ls[i] \in No(s, m + i)
      BY DEF NextCalls
  <2> QED BY <2>1, <1>2 DEF No
<1>3. ASSUME NEW k \in Nat, ~(m < k /\ k <= m + Len(ls)) PROVE Without(ls, No(s, k))
  <2>1. \A i \in 1 .. Len(ls) : k # m + i
      BY <1>1, <1>3
  <2> QED BY <2>1, <1>2 DEF Without
<1>4. ASSUME NEW k \in Nat, m < k, k <= m + Len(ls) PROVE ~Without(ls, No(s, k))
  <2>1. k - m \in 1 .. Len(ls) /\ m + (k - m) = k
      BY <1>1, <1>4
  <2>2. ls[k - m] \in No(s, k)
      BY <2>1 DEF NextCalls
  <2> QED BY <2>1, <2>2 DEF Without
<1>5. ASSUME NEW k \in Nat
      PROVE  Single(r, No(s, k)) /\ (Free(r, No(s, k)) <=> ~(a < k /\ k <= m + Len(ls)))
  <2>1. Single(q, No(s, k)) /\ (Free(q, No(s, k)) <=> ~(a < k /\ k <= m))
      BY DEF Sequel
  <2>2. Free(r, No(s, k)) <=> Free(q, No(s, k)) /\ Without(ls, No(s, k))
      BY JoinFree
  <2>3. CASE Without(ls, No(s, k))
    <3>1. Single(r, No(s, k))
        BY <2>1, <2>3, JoinSingle
    <3>2. ~(m < k /\ k <= m + Len(ls))
        BY <2>3, <1>4
    <3> QED BY <3>1, <3>2, <2>1, <2>2, <2>3, <1>1
  <2>4. CASE ~Without(ls, No(s, k))
    <3>1. m < k /\ k <= m + Len(ls)
        BY <2>4, <1>3
    <3>2. Free(q, No(s, k))
        BY <3>1, <2>1
    <3>3. ASSUME NEW i \in 1 .. Len(ls), NEW j \in 1 .. Len(ls),
                 ls[i] \in No(s, k), ls[j] \in No(s, k)
          PROVE  i = j
      <4>1. k = m + i /\ k = m + j
          BY <3>3, <1>2
      <4> QED BY <4>1
    <3> DEFINE K == No(s, k)
    <3>4. Free(q, K) /\ \A i, j \in 1 .. Len(ls) : ls[i] \in K /\ ls[j] \in K => i = j
        BY <3>2, <3>3
    <3> HIDE DEF K
    <3>5. Single(r, K)
        BY <3>4, JoinOnce
    <3>6. Single(r, No(s, k))
        BY <3>5 DEF K
    <3> QED BY <3>1, <3>6, <2>2, <2>4
  <2> QED BY <2>3, <2>4
<1>6. ASSUME NEW j \in Nat, NEW k \in Nat, j < k PROVE Ahead(r, Stage, No(s, j), No(s, k))
  <2> DEFINE K == No(s, j)
             M == No(s, k)
  <2>1. Ahead(q, Stage, K, M)
      BY <1>6 DEF Sequel
  <2>2. CASE j <= m
    <3>1. Without(ls, K) /\ JoinAt(q, Stage, K, w)
        BY <2>2, <1>3, NoParts, JoinAtPart
    <3> HIDE DEF K, M
    <3>2. Ahead(r, Stage, K, M)
        BY <2>1, <3>1, JoinsOrder
    <3> QED BY <3>2 DEF K, M
  <2>3. CASE m < j
    <3>1. Free(q, K) /\ Free(q, M)
      <4>1. m < k
          BY <2>3, <1>6
      <4> QED BY <4>1, <2>3 DEF Sequel
    <3>2. ASSUME NEW x \in 1 .. Len(ls), NEW y \in 1 .. Len(ls), ls[x] \in K, ls[y] \in M
          PROVE  x < y
      <4>1. j = m + x /\ k = m + y
          BY <3>2, <1>2
      <4> QED BY <4>1, <1>6
    <3> HIDE DEF K, M
    <3>3. Stage \in [Where -> Nat] /\ \A u \in Where : Stage[u] >= 1
      <4>1. \A u \in Where : Stage[u] = 1 \/ Stage[u] = 2 \/ Stage[u] = 3
          BY Stages
      <4>2. \A u \in Where : Stage[u] >= 1
          BY <4>1
      <4>3. Stage \in [Where -> Nat]
          BY Stages
      <4> QED BY <4>2, <4>3
    <3>4. Ahead(r, Stage, K, M)
        BY <3>1, <3>2, <3>3, JoinOrder
    <3> QED BY <3>4 DEF K, M
  <2> QED BY <2>2, <2>3
<1> QED BY <1>5, <1>6 DEF Sequel

(* The one a cell takes is the next one.                                   *)
LEMMA SequelExec ==
    ASSUME NEW s \in Sources, NEW q \in [Where -> Seq(Letters)], NEW n \in Nodes,
           q[Imp(n)] # <<>>, NEW h, h = Head(q[Imp(n)]), h \in CallsOf(s),
           NEW a \in Nat, NEW m \in Nat, Sequel(q, s, a, m), NEW r, r = Taken(q, Imp(n))
    PROVE  h.arg[2] = a + 1 /\ a + 1 <= m /\ Sequel(r, s, a + 1, m)
<1>1. Imp(n) \in Where
    BY Stages
<1>2. h.arg[2] \in Nat /\ h \in No(s, h.arg[2]) /\ \A k : h \in No(s, k) => k = h.arg[2]
    BY Numbered
<1> DEFINE b == h.arg[2]
<1>3. b \in Nat /\ h \in No(s, b) /\ \A k : h \in No(s, k) => k = b
    BY <1>2
<1> HIDE DEF b
<1>4. a < b /\ b <= m
  <2>1. ~Free(q, No(s, b))
      BY <1>1, <1>3, TakeFree
  <2> QED BY <2>1, <1>3 DEF Sequel
<1>5. b = a + 1
  <2> SUFFICES ASSUME a + 1 < b PROVE FALSE
      BY <1>3, <1>4
  <2> DEFINE c == a + 1
  <2>1. c \in Nat /\ a < c /\ c <= m /\ c < b
      BY <1>3, <1>4
  <2> HIDE DEF c
  <2>2. Ahead(q, Stage, No(s, c), No(s, b)) /\ ~Free(q, No(s, c))
      BY <2>1, <1>3 DEF Sequel
  <2> QED BY <2>2, <1>3, Arrived
<1>6. ASSUME NEW k \in Nat
      PROVE  Single(r, No(s, k)) /\ (Free(r, No(s, k)) <=> ~(a + 1 < k /\ k <= m))
  <2>1. Single(q, No(s, k)) /\ (Free(q, No(s, k)) <=> ~(a < k /\ k <= m))
      BY DEF Sequel
  <2>2. Single(r, No(s, k)) /\ (h \in No(s, k) => Free(r, No(s, k)))
      BY <2>1, <1>1, TakeSingle
  <2>3. CASE k = b
      BY <2>2, <2>3, <1>3, <1>5
  <2>4. CASE k # b
    <3>1. Free(r, No(s, k)) <=> Free(q, No(s, k))
        BY <2>4, <1>1, <1>3, TakeFree
    <3> QED BY <3>1, <2>1, <2>2, <2>4, <1>5
  <2> QED BY <2>3, <2>4
<1>7. ASSUME NEW j \in Nat, NEW k \in Nat, j < k PROVE Ahead(r, Stage, No(s, j), No(s, k))
  <2>1. Ahead(q, Stage, No(s, j), No(s, k))
      BY <1>7 DEF Sequel
  <2> QED BY <2>1, <1>1, TakeOrder
<1>8. Sequel(r, s, a + 1, m)
    BY <1>6, <1>7 DEF Sequel
<1> QED BY <1>4, <1>5, <1>8 DEF b

-----------------------------------------------------------------------------
(* Where the numbers of owner s stand now, and after a step.               *)
Stands(s, a) ==
    /\ OrderInv(Mail, s, cells, Live, mb[s].cache, issued[s], a)
    /\ NoGap(s, cells)

Follows(s, b) ==
    /\ OrderInv(Mail', s, cells', Live', mb'[s].cache, issued'[s], b)
    /\ NoGap(s, cells')

(* The owner has called one more, or the cell has executed one more.       *)
Advances(s, a) ==
    \E b \in Nat :
        /\ Follows(s, b)
        /\ \/ b = a /\ issued'[s] \in {issued[s], issued[s] + 1}
           \/ b = a + 1 /\ issued'[s] = issued[s]

(* What a step does to the mail leaves the calls of s, and what packets    *)
(* say of them, as they are.                                               *)
Carried(q, r, s, a) ==
    /\ \A m \in Nat : Sequel(q, s, a, m) => Sequel(r, s, a, m)
    /\ Free(q, Stale(s, a)) => Free(r, Stale(s, a))

LEMMA CarriedSame ==
    ASSUME NEW s, NEW a, NEW q, NEW r, Same(q, r, CallsOf(s)), Same(q, r, Stale(s, a))
    PROVE  Carried(q, r, s, a)
<1>1. \A m \in Nat : Sequel(q, s, a, m) => Sequel(r, s, a, m)
    BY SequelSame
<1>2. Free(q, Stale(s, a)) => Free(r, Stale(s, a))
    BY SameFree
<1> QED BY <1>1, <1>2 DEF Carried

LEMMA CarriedTake ==
    ASSUME NEW s, NEW a, NEW q \in [Where -> Seq(Letters)], NEW v \in Where, q[v] # <<>>,
           NEW r, r = Taken(q, v), Head(q[v]) \notin CallsOf(s)
    PROVE  Carried(q, r, s, a)
<1>1. \A m \in Nat : Sequel(q, s, a, m) => Sequel(r, s, a, m)
    BY SequelTake
<1>2. Free(q, Stale(s, a)) => Free(r, Stale(s, a))
    BY TakeFree
<1> QED BY <1>1, <1>2 DEF Carried

LEMMA CarriedHop ==
    ASSUME NEW s \in Sources, NEW a, NEW q \in [Where -> Seq(Letters)], NEW v, NEW w, NEW r,
           Hop(q, r, v, w), Placed(q), NEW live, Traffic(q, s, live), \A g, h \in live : g = h
    PROVE  Carried(q, r, s, a)
<1>1. \A m \in Nat : Sequel(q, s, a, m) => Sequel(r, s, a, m)
    BY SequelHop
<1>2. v \in Where /\ w \in Where /\ v # w /\ q[v] # <<>> /\ r = Moved(q, v, w)
    BY DEF Hop
<1>3. Free(q, Stale(s, a)) => Free(r, Stale(s, a))
    BY <1>2, MoveFree
<1> QED BY <1>1, <1>3 DEF Carried

LEMMA CarriedOn ==
    ASSUME NEW s, NEW a, NEW q, NEW r, NEW t, Carried(q, r, s, a), Carried(r, t, s, a)
    PROVE  Carried(q, t, s, a)
BY DEF Carried

LEMMA CarriedSelf == ASSUME NEW s, NEW a, NEW q PROVE Carried(q, q, s, a)
BY DEF Carried

(* The cells, if they change, have executed what they had.                 *)
Steady(s) ==
    /\ Live' \subseteq Live
    /\ \A g \in Games : cells'[g] # NoCell =>
           cells[g] # NoCell /\ cells'[g].applied[s] = cells[g].applied[s]

LEMMA Rest ==
    ASSUME TypeInv, NEW s \in Sources, NEW a \in Nat, Stands(s, a),
           Carried(Mail, Mail', s, a), Steady(s),
           mb'[s].cache = mb[s].cache, issued'[s] = issued[s]
    PROVE  Advances(s, a)
<1> DEFINE m == issued[s] - Len(mb[s].cache)
<1>1. /\ a + Len(mb[s].cache) <= issued[s] /\ Sequel(Mail, s, a, m)
      /\ CacheOf(s, mb[s].cache, m) /\ \A g \in Live : cells[g].applied[s] = Upto(a)
      /\ Free(Mail, Stale(s, a)) /\ NoGap(s, cells)
    BY DEF Stands, OrderInv
<1>2. m \in Nat
  <2>1. issued[s] \in Nat /\ Len(mb[s].cache) \in Nat
    <3>1. mb[s].cache \in Seq(RpcsOf(s)) /\ issued[s] \in Nat
        BY BoxFields DEF TypeInv, Counts
    <3> QED BY <3>1, SeqFacts
  <2> QED BY <1>1, <2>1
<1>3. Sequel(Mail', s, a, m) /\ Free(Mail', Stale(s, a))
  <2> HIDE DEF m
  <2> QED BY <1>1, <1>2 DEF Carried
<1>4. \A g \in Live' : cells'[g].applied[s] = Upto(a)
  <2>1. \A g \in Live' : cells'[g] # NoCell /\ g \in Games
      BY DEF Live, Exists
  <2> QED BY <2>1, <1>1 DEF Steady
<1>5. NoGap(s, cells')
    BY <1>1 DEF Steady, NoGap
<1>6. Follows(s, a)
    BY <1>1, <1>3, <1>4, <1>5 DEF Follows, OrderInv
<1> QED BY <1>6 DEF Advances

(* What keeps the cells steady.                                            *)
LEMMA SteadySame == ASSUME NEW s, UNCHANGED cells PROVE Steady(s)
BY CellsSame DEF Steady

LEMMA SteadyChange ==
    ASSUME TypeInv, NEW s, NEW g \in Games, NEW c \in CellType, cells[g] # NoCell,
           cells' = [cells EXCEPT ![g] = c], c.applied[s] = cells[g].applied[s],
           g \in Live \/ c.state = "RealMigrate"
    PROVE  Steady(s)
<1>1. /\ cells'[g] = c /\ \A h \in Games : h # g => cells'[h] = cells[h]
      /\ Live' = (Live \ {g}) \cup {k \in {g} : c # NoCell /\ c.state # "RealMigrate"}
    BY CellChanged
<1> QED BY <1>1 DEF Steady

-----------------------------------------------------------------------------
(* The steps.                                                              *)
LEMMA HopOrders ==
    ASSUME TypeInv, AuthorityInv, NEW v, NEW w, Hop(Mail, Mail', v, w),
           UNCHANGED <<cells, mb, issued>>,
           NEW s \in Sources, NEW a \in Nat, Stands(s, a)
    PROVE  Advances(s, a)
<1>1. Placed(Mail) /\ Traffic(Mail, s, Live) /\ \A g, h \in Live : g = h
    BY DEF AuthorityInv, OwnerInv, SeatInv, Seat
<1>2. Mail \in [Where -> Seq(Letters)]
    BY MailType
<1>3. Carried(Mail, Mail', s, a)
    BY <1>1, <1>2, CarriedHop
<1> QED BY <1>3, SteadySame, Rest

LEMMA ToldSame ==
    ASSUME NEW u \in Ups, NEW d \in Ups3, NEW m \in Imps, NEW g \in Games, NEW op \in OwnerOps,
           NEW q, q = Queues(u, d, m), NEW r, r = Queues(TellOwners(u, g, op), d, m),
           NEW X, \A s \in Sources : ToOwner(g, s, op) \notin X
    PROVE  Same(q, r, X)
<1> DEFINE l(s) == ToOwner(g, s, op)
           v == Sent(u, g, l("base"))
           t == Queues(v, d, m)
<1>1. "base" \in Sources /\ g \in Nodes /\ \A s \in Sources : l(s) \in Letters
    BY Owners, OwnerLetterKinds
<1>2. v \in Ups /\ Same(q, t, X)
    BY <1>1, SentPosted
<1>3. CASE "client" \notin Sources
  <2>1. r = t
      BY <1>3 DEF TellOwners
  <2> QED BY <2>1, <1>2
<1>4. CASE "client" \in Sources
  <2>1. r = Queues(Sent(v, g, l("client")), d, m)
      BY <1>4 DEF TellOwners
  <2>2. l("client") \in Letters /\ l("client") \notin X
      BY <1>1, <1>4
  <2> HIDE DEF l, v, t
  <2>3. Same(t, r, X)
      BY <2>1, <2>2, <1>1, <1>2, SentPosted DEF t
  <2> QED BY <2>3, <1>2, SameTrans
<1> QED BY <1>3, <1>4

(* What the game tells the owners is neither a call nor a packet.          *)
LEMMA ToldOrders ==
    ASSUME NEW u \in Ups, NEW d \in Ups3, NEW m \in Imps, NEW g \in Games, NEW op \in OwnerOps,
           NEW q, q = Queues(u, d, m), NEW r, r = Queues(TellOwners(u, g, op), d, m),
           NEW s \in Sources, NEW a
    PROVE  Carried(q, r, s, a)
<1>1. \A t \in Sources : ToOwner(g, t, op) \notin CallsOf(s) /\ ToOwner(g, t, op) \notin Stale(s, a)
  <2>1. ASSUME NEW t \in Sources
        PROVE  ToOwner(g, t, op).op \in OwnerOps
      BY DEF ToOwner, Letter
  <2>2. \A l \in CallsOf(s) \cup Stale(s, a) : l.op \notin OwnerOps
      BY DEF CallsOf, Stale, Pk, OwnerOps
  <2> QED BY <2>1, <2>2
<1>2. Same(q, r, CallsOf(s)) /\ Same(q, r, Stale(s, a))
    BY <1>1, ToldSame
<1> QED BY <1>2, CarriedSame

LEMMA BeginMigrateOrders ==
    ASSUME TypeInv, NEW g \in Games, NEW newAddr \in Games, BeginMigrate(g, newAddr),
           NEW s \in Sources, NEW a \in Nat, Stands(s, a)
    PROVE  Advances(s, a)
<1> DEFINE c == [cells[g] EXCEPT !.state = "Prepare", !.timer = TRUE, !.newAddr = newAddr]
<1>1. /\ Exists(g) /\ cells[g].state = "None" /\ cells' = [cells EXCEPT ![g] = c]
      /\ up' = TellOwners(up, g, "migrate_req_from_cell")
      /\ UNCHANGED <<mb, down, imp, issued>>
    BY DEF BeginMigrate
<1>2. g \in Live /\ cells[g] \in CellType
  <2>1. g \in Live
      BY <1>1 DEF Live
  <2> QED BY <2>1, CellFacts
<1>3. c \in CellType /\ c.applied[s] = cells[g].applied[s]
    BY <1>2 DEF CellType
<1> HIDE DEF c
<1>4. Steady(s)
    BY <1>1, <1>2, <1>3, SteadyChange DEF Exists
<1>5. Carried(Mail, Mail', s, a)
  <2>1. up \in Ups /\ down \in Ups3 /\ imp \in Imps /\ Mail = Queues(up, down, imp)
      BY MailType DEF Mail
  <2>2. Mail' = Queues(TellOwners(up, g, "migrate_req_from_cell"), down, imp)
      BY <1>1 DEF Mail
  <2>3. "migrate_req_from_cell" \in OwnerOps
      BY DEF OwnerOps
  <2> QED BY <2>1, <2>2, <2>3, ToldOrders
<1> QED BY <1>1, <1>4, <1>5, Rest

(* A letter that leaves the numbers as they are.                           *)
LEMMA PostedOrders ==
    ASSUME NEW u \in Ups, NEW d \in Ups3, NEW m \in Imps, NEW n \in Nodes, NEW l \in Letters,
           NEW s, NEW a, l \notin CallsOf(s), l \notin Stale(s, a),
           NEW q, q = Queues(u, d, m), NEW r, r = Queues(Sent(u, n, l), d, m)
    PROVE  Carried(q, r, s, a)
<1>1. Same(q, r, CallsOf(s)) /\ Same(q, r, Stale(s, a))
    BY SentPosted
<1> QED BY <1>1, CarriedSame

(* Any other rpc than a call of s is taken.                                *)
LEMMA TakenOrders ==
    ASSUME TypeInv, AuthorityInv, NEW n \in Nodes, NEW to, NEW op, Take(n, to, op),
           NEW s, NEW a, Head(imp[n]).letter \notin CallsOf(s)
    PROVE  Carried(Mail, Queues(up, down, imp'), s, a)
<1>1. /\ Mail \in [Where -> Seq(Letters)] /\ Imp(n) \in Where /\ Mail[Imp(n)] # <<>>
      /\ Head(Mail[Imp(n)]) = Head(imp[n]).letter
      /\ Queues(up, down, imp') = Taken(Mail, Imp(n))
  <2>1. Placed(Mail) /\ DecodedInv
      BY DEF AuthorityInv
  <2> QED BY <2>1, TakenLetter
<1> DEFINE r == Queues(up, down, imp')
<1>2. r = Taken(Mail, Imp(n)) /\ Head(Mail[Imp(n)]) \notin CallsOf(s)
    BY <1>1
<1> HIDE DEF r
<1>3. Carried(Mail, r, s, a)
    BY <1>1, <1>2, CarriedTake
<1> QED BY <1>3 DEF r

LEMMA MigrateReqOrders ==
    ASSUME TypeInv, AuthorityInv, NEW u \in Sources, MigrateReqFromCell(u),
           NEW s \in Sources, NEW a \in Nat, Stands(s, a)
    PROVE  Advances(s, a)
<1> DEFINE n == At[u]
           h == Head(imp[n]).letter
           l == SendRpc(u, mb[u].addr, AckRpc(u))
           r == Queues(up, down, imp')
<1>1. /\ Take(n, u, "migrate_req_from_cell") /\ n \in Nodes
      /\ UNCHANGED <<cells, down, issued>>
    BY Owners DEF MigrateReqFromCell
<1>2. /\ h \in Letters /\ h.to = u /\ h.op = "migrate_req_from_cell"
      /\ Mail[Imp(n)] # <<>> /\ Mail \in [Where -> Seq(Letters)] /\ Head(Mail[Imp(n)]) = h
      /\ up \in Ups /\ down \in Ups3 /\ imp' \in Imps
  <2>1. Placed(Mail) /\ DecodedInv
      BY DEF AuthorityInv
  <2> QED BY <1>1, <2>1, TakenLetter
<1>3. h \in Req(u) /\ h \notin CallsOf(s)
    BY <1>2 DEF Req, CallsOf
<1>4. OwnerInv(Mail, u, mb[u], Live, Prep, Acks)
    BY DEF AuthorityInv
<1>5. Calling(Mail, u, mb[u], Live, Prep, Acks)
  <2>1. Head(Mail[Imp(At[u])]) \in Req(u)
      BY <1>2, <1>3
  <2> QED BY <2>1, <1>2, <1>4, AskedCalls
<1>6. mb' = [mb EXCEPT ![u].caching = TRUE] /\ up' = Sent(up, n, l)
    BY <1>5 DEF MigrateReqFromCell, Calling, AckRpc
<1>7. mb'[s].cache = mb[s].cache
    BY <1>6, BoxFields DEF TypeInv, Places, Boxes
<1>8. Carried(Mail, r, s, a)
  <2> HIDE DEF n
  <2> QED BY <1>1, <1>3, TakenOrders
<1>9. l \in Letters /\ l \notin CallsOf(s) /\ l \notin Stale(s, a)
  <2>1. mb[u].addr \in Games
      BY BoxFields
  <2>2. l \in Letters
      BY <2>1 DEF Letters, AckLetters
  <2>3. l.op = "ack"
      BY DEF SendRpc, AckRpc, Letter
  <2> QED BY <2>2, <2>3 DEF CallsOf, Stale, Pk
<1>10. Mail' = Queues(Sent(up, n, l), down, imp') /\ r = Queues(up, down, imp')
    BY <1>1, <1>6 DEF Mail
<1> HIDE DEF l, r, n
<1>11. Carried(r, Mail', s, a)
    BY <1>1, <1>2, <1>9, <1>10, PostedOrders
<1>12. Carried(Mail, Mail', s, a)
    BY <1>8, <1>11, CarriedOn
<1> QED BY <1>1, <1>7, <1>12, SteadySame, Rest

LEMMA FinishOrders ==
    ASSUME TypeInv, AuthorityInv, NEW g \in Games, NewCellMigrateFinish(g),
           NEW s \in Sources, NEW a \in Nat, Stands(s, a)
    PROVE  Advances(s, a)
<1> DEFINE h == Head(imp[g]).letter
           c == [cells[g] EXCEPT !.dying = TRUE]
<1>1. /\ Take(g, "cell", "finish") /\ Exists(g) /\ cells' = [cells EXCEPT ![g] = c]
      /\ UNCHANGED <<mb, up, down, issued>> /\ g \in Nodes
    BY Owners DEF NewCellMigrateFinish, TakeForCell
<1>2. h \in Fin(g) /\ g \in Old
    BY <1>1, CellLetter
<1>3. cells[g] \in CellType /\ cells[g].state = "RealMigrate"
    BY <1>1, <1>2, CellFacts DEF Old, Frozen
<1>4. c \in CellType /\ c.state = "RealMigrate" /\ c.applied[s] = cells[g].applied[s]
    BY <1>3 DEF CellType
<1>5. h \notin CallsOf(s)
    BY <1>2 DEF Fin, Fins, CallsOf
<1> HIDE DEF c, h
<1>6. Steady(s)
    BY <1>1, <1>4, SteadyChange DEF Exists
<1>7. Carried(Mail, Mail', s, a)
  <2>1. Mail' = Queues(up, down, imp')
      BY <1>1 DEF Mail
  <2>2. Carried(Mail, Queues(up, down, imp'), s, a)
      BY <1>1, <1>5, TakenOrders DEF h
  <2> QED BY <2>1, <2>2
<1> QED BY <1>1, <1>6, <1>7, Rest

LEMMA DestroyCellOrders ==
    ASSUME TypeInv, AuthorityInv, NEW g \in Games, DestroyCell(g),
           NEW s \in Sources, NEW a \in Nat, Stands(s, a)
    PROVE  Advances(s, a)
<1> DEFINE c == NoCell
<1>1. /\ cells' = [cells EXCEPT ![g] = c] /\ UNCHANGED <<mb, up, down, imp, issued>>
    BY DEF DestroyCell, net
<1>2. c = NoCell /\ c \in CellType \cup {NoCell}
    OBVIOUS
<1> HIDE DEF c
<1>3. /\ cells'[g] = c /\ \A k \in Games : k # g => cells'[k] = cells[k]
      /\ Live' = (Live \ {g}) \cup {k \in {g} : c # NoCell /\ c.state # "RealMigrate"}
  <2>1. c \in CellType \cup {NoCell} /\ cells' = [cells EXCEPT ![g] = c]
      BY <1>1, <1>2
  <2> QED BY <2>1, CellChanged
<1>4. Steady(s)
    BY <1>2, <1>3 DEF Steady
<1>5. Mail' = Mail
    BY <1>1 DEF Mail
<1>6. Carried(Mail, Mail', s, a)
    BY <1>5, CarriedSelf
<1> QED BY <1>1, <1>4, <1>6, Rest

(* The packet says what the cell has executed.                             *)
LEMMA MigrateReqackOrders ==
    ASSUME TypeInv, AuthorityInv, NEW g \in Games, MigrateReqack(g),
           NEW s \in Sources, NEW a \in Nat, Stands(s, a)
    PROVE  Advances(s, a)
<1> DEFINE h == Head(imp[g]).letter
           acks2 == cells[g].acks \cup {h.arg}
           c == [cells[g] EXCEPT !.acks = acks2]
           e == SentAway(c)
           r == Queues(up, down, imp')
           packet == [oldAddr |-> g, applied |-> c.applied, own |-> c.own]
<1>1. /\ Take(g, "cell", "ack") /\ Exists(g) /\ g \in Nodes
      /\ UNCHANGED <<mb, down, issued>>
    BY Owners DEF MigrateReqack, TakeForCell
<1>2. /\ up \in Ups /\ down \in Ups3 /\ imp' \in Imps
      /\ h.arg \in Sources /\ h \in AckOf(h.arg) /\ g \in Live
    BY <1>1, CellLetter
<1>3. \/ /\ cells' = [cells EXCEPT ![g] = e]
         /\ \E gate \in Gates :
               up' = Sent(up, g, Letter(gate, c.newAddr, "game", "migrate", packet))
      \/ cells' = [cells EXCEPT ![g] = c] /\ up' = up
    BY DEF MigrateReqack, Arg
<1>4. h \notin CallsOf(s)
    BY <1>2 DEF AckOf, CallsOf
<1>5. Carried(Mail, r, s, a)
    BY <1>1, <1>4, TakenOrders
<1>6. cells[g] \in CellType /\ cells[g].state # "None" /\ cells[g].applied[s] = Upto(a)
  <2>1. cells[g] \in CellType
      BY <1>2, CellFacts
  <2>2. OwnerInv(Mail, h.arg, mb[h.arg], Live, Prep, Acks)
      BY <1>2 DEF AuthorityInv
  <2>3. Prep # {}
    <3>1. ~Free(Mail, AckOf(h.arg))
      <4>1. /\ Mail \in [Where -> Seq(Letters)] /\ Imp(g) \in Where /\ Mail[Imp(g)] # <<>>
            /\ h = Head(Mail[Imp(g)])
          BY <1>1, CellLetter
      <4>2. Head(Mail[Imp(g)]) \in AckOf(h.arg)
          BY <1>2, <4>1
      <4> HIDE DEF h
      <4> QED BY <4>1, <4>2, TakeFree
    <3> HIDE DEF h
    <3> QED BY <2>2, <3>1 DEF OwnerInv, Phase, Calling, Acking, Waiting, Unaware
  <2>4. Prep = IF cells[g].state = "Prepare" THEN {g} ELSE {}
      BY <1>2, LoneLive
  <2>5. cells[g].state = "Prepare"
      BY <2>3, <2>4
  <2>6. cells[g].applied[s] = Upto(a)
      BY <1>2 DEF Stands, OrderInv
  <2> QED BY <2>1, <2>5, <2>6
<1>7. acks2 \in SUBSET Sources
    BY <1>2, <1>6 DEF CellType
<1> HIDE DEF h, acks2
<1>8. c \in CellType /\ c.applied = cells[g].applied /\ c.newAddr = cells[g].newAddr
    BY <1>6, <1>7 DEF CellType
<1>9. CASE cells' = [cells EXCEPT ![g] = c] /\ up' = up
  <2>1. Mail' = r
      BY <1>1, <1>9 DEF Mail
  <2> HIDE DEF c
  <2>2. Steady(s)
      BY <1>1, <1>2, <1>8, <1>9, SteadyChange DEF Exists
  <2> QED BY <2>1, <2>2, <1>1, <1>5, Rest
<1>10. CASE /\ cells' = [cells EXCEPT ![g] = e]
            /\ \E gate \in Gates :
                  up' = Sent(up, g, Letter(gate, c.newAddr, "game", "migrate", packet))
  <2>1. PICK gate \in Gates :
            up' = Sent(up, g, Letter(gate, c.newAddr, "game", "migrate", packet))
      BY <1>10
  <2> DEFINE l == Letter(gate, c.newAddr, "game", "migrate", packet)
  <2>2. e \in CellType /\ e.state = "RealMigrate" /\ e.applied[s] = cells[g].applied[s]
    <3> HIDE DEF c
    <3> QED BY <1>8 DEF SentAway, CellType
  <2>3. Steady(s)
    <3> HIDE DEF e
    <3> QED BY <2>2, <1>1, <1>10, SteadyChange DEF Exists
  <2>4. packet \in PacketType /\ packet.applied[s] = Upto(a)
      BY <1>6, <1>8 DEF PacketType, CellType
  <2> HIDE DEF packet
  <2>5. c.newAddr \in Games
      BY <1>1, <1>6, <1>8 DEF TypeInv, Places
  <2> HIDE DEF c
  <2>6. l \in Letters
      BY <2>4, <2>5 DEF Letters, PacketLetters
  <2>7. l \notin CallsOf(s) /\ l \notin Stale(s, a)
    <3>1. l.op = "migrate" /\ l.arg = packet
        BY DEF Letter
    <3> QED BY <2>4, <3>1 DEF CallsOf, Stale
  <2>8. Mail' = Queues(Sent(up, g, l), down, imp') /\ r = Queues(up, down, imp')
      BY <2>1, <1>1 DEF Mail
  <2> HIDE DEF l, r
  <2>9. Carried(r, Mail', s, a)
      BY <2>6, <2>7, <2>8, <1>1, <1>2, PostedOrders
  <2>10. Carried(Mail, Mail', s, a)
      BY <2>9, <1>5, CarriedOn
  <2> QED BY <2>3, <2>10, <1>1, Rest
<1> QED BY <1>3, <1>9, <1>10

(* The new cell has executed what the packet says.                         *)
LEMMA MigrateFromOldCellOrders ==
    ASSUME TypeInv, AuthorityInv, NEW g \in Games, MigrateFromOldCell(g),
           NEW s \in Sources, NEW a \in Nat, Stands(s, a)
    PROVE  Advances(s, a)
<1> DEFINE h == Head(imp[g]).letter
           k == h.arg.oldAddr
           c == NewCell(h.arg.applied, h.arg.own)
           r == Queues(up, down, imp')
           v == TellOwners(up, g, "new_cell_migrate_in")
           t == Queues(v, down, imp')
           f == NewMailBoxCall(g, k, "finish")
<1>1. /\ Take(g, "game", "migrate") /\ g \in Nodes
      /\ cells' = [cells EXCEPT ![g] = c] /\ up' = Sent(v, g, f)
      /\ UNCHANGED <<mb, down, issued>>
    BY Owners DEF MigrateFromOldCell, Arg, Announced
<1>2. /\ h \in Letters /\ h.op = "migrate" /\ h.dst = g
      /\ Mail \in [Where -> Seq(Letters)] /\ Imp(g) \in Where /\ Mail[Imp(g)] # <<>>
      /\ Head(Mail[Imp(g)]) = h
      /\ imp' \in Imps /\ up \in Ups /\ down \in Ups3 /\ r = Taken(Mail, Imp(g))
  <2>1. Placed(Mail) /\ DecodedInv
      BY DEF AuthorityInv
  <2> QED BY <1>1, <2>1, TakenLetter
<1>3. h \in Pk /\ h.arg \in PacketType /\ k \in Games
  <2>1. h \in Pk
      BY <1>2 DEF Pk
  <2>2. h.arg \in PacketType
      BY <2>1, SeatKind
  <2> QED BY <2>1, <2>2 DEF PacketType
<1>4. Carried(Mail, r, s, a)
  <2>1. h \notin CallsOf(s)
      BY <1>2 DEF CallsOf
  <2> QED BY <2>1, <1>1, TakenOrders
<1>5. h.arg.applied[s] = Upto(a)
  <2>1. Free(Mail, Stale(s, a))
      BY DEF Stands, OrderInv
  <2>2. Head(Mail[Imp(g)]) \notin Stale(s, a)
      BY <2>1, <1>2, TakeFree
  <2> QED BY <2>2, <1>2, <1>3 DEF Stale
<1>6. Live = {}
  <2>1. Live # {} => Free(Mail, Pk)
      BY DEF AuthorityInv, SeatInv, Seat
  <2>2. ~Free(Mail, Pk)
      BY <1>2, <1>3, TakeFree
  <2> QED BY <2>1, <2>2
<1>7. f \in Letters /\ f \notin CallsOf(s) /\ f \notin Stale(s, a)
  <2>1. f \in Letters
      BY <1>3 DEF Letters, FinishLetters
  <2>2. f.op = "finish"
      BY DEF NewMailBoxCall, Letter
  <2> QED BY <2>1, <2>2 DEF CallsOf, Stale, Pk
<1> HIDE DEF h
<1>8. c \in CellType /\ c.applied[s] = Upto(a) /\ c.state = "None"
    BY <1>3, <1>5 DEF PacketType, NewCell, CellType
<1> HIDE DEF c
<1>9. /\ cells'[g] = c /\ \A j \in Games : j # g => cells'[j] = cells[j]
      /\ Live' = {g}
  <2>1. /\ cells'[g] = c /\ \A j \in Games : j # g => cells'[j] = cells[j]
        /\ Live' = (Live \ {g}) \cup {j \in {g} : c # NoCell /\ c.state # "RealMigrate"}
      BY <1>1, <1>8, CellChanged
  <2>2. c # NoCell
      BY <1>8, NoCellAssumption
  <2> QED BY <2>1, <2>2, <1>6, <1>8
<1>10. v \in Ups /\ Carried(r, t, s, a)
  <2>1. "new_cell_migrate_in" \in OwnerOps
      BY DEF OwnerOps
  <2>2. r = Queues(up, down, imp')
           /\ t = Queues(TellOwners(up, g, "new_cell_migrate_in"), down, imp')
      OBVIOUS
  <2>3. v \in Ups
      BY <2>1, <1>2, TellType
  <2> HIDE DEF r, t
  <2>4. Carried(r, t, s, a)
      BY <2>1, <2>2, <1>2, ToldOrders
  <2> QED BY <2>3, <2>4
<1>11. Mail' = Queues(Sent(v, g, f), down, imp') /\ t = Queues(v, down, imp')
    BY <1>1 DEF Mail
<1> HIDE DEF r, v, f, k, t
<1>12. Carried(t, Mail', s, a)
    BY <1>1, <1>2, <1>7, <1>10, <1>11, PostedOrders
<1>13. Carried(Mail, Mail', s, a)
    BY <1>4, <1>10, <1>12, CarriedOn
<1>14. Follows(s, a)
  <2> DEFINE m == issued[s] - Len(mb[s].cache)
  <2>1. /\ a + Len(mb[s].cache) <= issued[s] /\ Sequel(Mail, s, a, m)
        /\ CacheOf(s, mb[s].cache, m) /\ Free(Mail, Stale(s, a)) /\ NoGap(s, cells)
      BY DEF Stands, OrderInv
  <2>2. m \in Nat
    <3>1. mb[s].cache \in Seq(RpcsOf(s)) /\ issued[s] \in Nat
        BY BoxFields DEF TypeInv, Counts
    <3>2. Len(mb[s].cache) \in Nat
        BY <3>1, SeqFacts
    <3> QED BY <2>1, <3>1, <3>2
  <2>3. Sequel(Mail', s, a, m) /\ Free(Mail', Stale(s, a))
    <3> HIDE DEF m
    <3> QED BY <2>1, <2>2, <1>13 DEF Carried
  <2>4. \A j \in Live' : cells'[j].applied[s] = Upto(a)
      BY <1>8, <1>9
  <2>5. NoGap(s, cells')
      BY <2>1, <1>8, <1>9 DEF NoGap
  <2> QED BY <2>1, <2>3, <2>4, <2>5, <1>1 DEF Follows, OrderInv
<1> QED BY <1>1, <1>14 DEF Advances

(* Calls of another owner join.                                            *)
LEMMA OtherCalls ==
    ASSUME NEW u \in Sources, NEW s \in Sources, u # s, NEW a,
           NEW q \in [Where -> Seq(Letters)], NEW w \in Where, NEW ls \in Seq(Letters),
           \A i \in 1 .. Len(ls) : ls[i] \in CallsOf(u), NEW r, r = Joined(q, w, ls)
    PROVE  Carried(q, r, s, a)
<1>1. \A l \in CallsOf(u) : l \notin CallsOf(s) /\ l \notin Stale(s, a)
    BY DEF CallsOf, Stale, Pk
<1>2. Without(ls, CallsOf(s)) /\ Without(ls, Stale(s, a))
    BY <1>1 DEF Without
<1>3. Same(q, r, CallsOf(s)) /\ Same(q, r, Stale(s, a))
    BY <1>2, JoinSame
<1> QED BY <1>3, CarriedSame

(* What the owner has cached joins in the order of the calls.              *)
LEMMA CachedCalls ==
    ASSUME NEW s \in Sources, NEW g \in Games, NEW m \in Nat, CacheOf(s, mb[s].cache, m),
           NEW ls, ls = Flush(s, g), \A i \in 1 .. Len(ls) : ls[i] \in CallsOf(s),
           Len(ls) = Len(mb[s].cache)
    PROVE  NextCalls(s, m, ls)
<1>1. ASSUME NEW i \in 1 .. Len(ls) PROVE ls[i] \in No(s, m + i)
  <2>1. ls[i] = SendRpc(s, g, mb[s].cache[i]) /\ mb[s].cache[i] = CallRpc(<<s, m + i>>)
      BY DEF Flush, CacheOf
  <2>2. ls[i].arg[2] = m + i
      BY <2>1 DEF SendRpc, CallRpc, Letter
  <2> QED BY <2>2 DEF No
<1> QED BY <1>1 DEF NextCalls

(* What has been cached or called before is sent.                          *)
LEMMA SentAll ==
    ASSUME NEW s \in Sources, NEW a \in Nat, NEW m \in Nat, a <= m,
           NEW q \in [Where -> Seq(Letters)], JoinAt(q, Stage, CallsOf(s), Up(At[s], CellGate(s))),
           Sequel(q, s, a, m), Free(q, Stale(s, a)), NoGap(s, cells), UNCHANGED cells,
           \A g \in Live : cells[g].applied[s] = Upto(a),
           NEW ls \in Seq(Letters), NextCalls(s, m, ls),
           Mail' = Joined(q, Up(At[s], CellGate(s)), ls),
           mb'[s].cache = <<>>, issued'[s] = m + Len(ls)
    PROVE  Follows(s, a)
<1> DEFINE w == Up(At[s], CellGate(s))
           n == m + Len(ls)
<1>1. w \in Where /\ Stage[w] = 1
    BY Owners, Routes, Stages
<1>2. n \in Nat /\ a <= n
  <2>1. Len(ls) \in Nat
      BY SeqFacts
  <2> QED BY <2>1
<1>3. Mail' = Joined(q, w, ls) /\ JoinAt(q, Stage, CallsOf(s), w)
    OBVIOUS
<1> HIDE DEF w
<1>4. Sequel(Mail', s, a, n)
    BY <1>1, <1>3, SequelJoin
<1>5. Free(Mail', Stale(s, a))
  <2>1. \A i \in 1 .. Len(ls) : ls[i] \in CallsOf(s)
      BY DEF NextCalls, No
  <2>2. Without(ls, Stale(s, a))
      BY <2>1 DEF Without, CallsOf, Stale, Pk
  <2> QED BY <2>2, <1>1, <1>3, JoinsFree
<1>6. Live' = Live /\ NoGap(s, cells')
    BY CellsSame DEF NoGap
<1>7. Len(mb'[s].cache) = 0 /\ issued'[s] = n
    OBVIOUS
<1> HIDE DEF n
<1>8. a + Len(mb'[s].cache) <= issued'[s] /\ Sequel(Mail', s, a, issued'[s] - Len(mb'[s].cache))
  <2>1. a + 0 = a /\ n - 0 = n
      BY <1>2
  <2> QED BY <2>1, <1>2, <1>4, <1>7
<1>9. CacheOf(s, mb'[s].cache, issued'[s] - Len(mb'[s].cache))
  <2>1. 1 .. Len(mb'[s].cache) = {}
      BY <1>7
  <2> QED BY <2>1 DEF CacheOf
<1> QED BY <1>5, <1>6, <1>8, <1>9 DEF Follows, OrderInv

(* The numbers of a state.                                                 *)
LEMMA Standing ==
    ASSUME TypeInv, NEW s \in Sources, NEW a \in Nat, Stands(s, a),
           NEW m, m = issued[s] - Len(mb[s].cache)
    PROVE  /\ issued[s] \in Nat /\ Len(mb[s].cache) \in Nat /\ m \in Nat /\ a <= m
           /\ m + Len(mb[s].cache) = issued[s]
           /\ Sequel(Mail, s, a, m) /\ CacheOf(s, mb[s].cache, m)
           /\ \A g \in Live : cells[g].applied[s] = Upto(a)
           /\ Free(Mail, Stale(s, a)) /\ NoGap(s, cells)
<1>1. issued[s] \in Nat /\ Len(mb[s].cache) \in Nat
  <2>1. mb[s].cache \in Seq(RpcsOf(s)) /\ issued[s] \in Nat
      BY BoxFields DEF TypeInv, Counts
  <2> QED BY <2>1, SeqFacts
<1>2. a + Len(mb[s].cache) <= issued[s]
    BY DEF Stands, OrderInv
<1>3. m \in Nat /\ a <= m /\ m + Len(mb[s].cache) = issued[s]
  <2> DEFINE x == issued[s]
             y == Len(mb[s].cache)
  <2>1. x \in Nat /\ y \in Nat /\ a + y <= x /\ m = x - y
      BY <1>1, <1>2
  <2> HIDE DEF x, y
  <2>2. m \in Nat /\ a <= m /\ m + y = x
      BY <2>1
  <2> QED BY <2>2 DEF x, y
<1> QED BY <1>1, <1>3 DEF Stands, OrderInv

LEMMA NewCellMigrateInOrders ==
    ASSUME TypeInv, AuthorityInv, NEW u \in Sources, NewCellMigrateIn(u),
           NEW s \in Sources, NEW a \in Nat, Stands(s, a)
    PROVE  Advances(s, a)
<1> DEFINE n == At[u]
           h == Head(imp[n]).letter
           g == h.arg
           r == Queues(up, down, imp')
           ls == Flush(u, g)
           w == Up(n, CellGate(u))
<1>1. /\ Take(n, u, "new_cell_migrate_in") /\ n \in Nodes
      /\ mb' = [mb EXCEPT ![u] = StopCache(@, g)]
      /\ up' = [up EXCEPT ![n][CellGate(u)] = @ \o ls]
      /\ UNCHANGED <<cells, down, issued>>
    BY Owners DEF NewCellMigrateIn, Arg
<1>2. /\ h \in Letters /\ h.to = u /\ h.op = "new_cell_migrate_in"
      /\ Mail \in [Where -> Seq(Letters)] /\ Imp(n) \in Where /\ Mail[Imp(n)] # <<>>
      /\ Head(Mail[Imp(n)]) = h
      /\ imp' \in Imps /\ up \in Ups /\ down \in Ups3 /\ r = Taken(Mail, Imp(n))
  <2>1. Placed(Mail) /\ DecodedInv
      BY DEF AuthorityInv
  <2> QED BY <1>1, <2>1, TakenLetter
<1>3. h \notin CallsOf(s) /\ g \in Games
  <2>1. h \in FromCell(u)
      BY <1>2 DEF New, FromCell
  <2>2. h \notin CallsOf(s)
      BY <1>2 DEF CallsOf
  <2> QED BY <2>1, <2>2, FromCellKind
<1>4. Carried(Mail, r, s, a)
  <2> HIDE DEF n
  <2> QED BY <1>1, <1>3, TakenOrders
<1> HIDE DEF h
<1>5. CellGate(u) \in Gates /\ w \in Where /\ mb[u].cache \in Seq(RpcsOf(u))
    BY <1>1, Routes, BoxFields, Stages
<1>6. ls \in Seq(Letters) /\ Len(ls) = Len(mb[u].cache)
    BY <1>3, FlushType
<1>7. \A i \in 1 .. Len(ls) : ls[i] \in CallsOf(u)
  <2>1. ASSUME NEW i \in 1 .. Len(ls) PROVE ls[i] \in CallsOf(u)
    <3>1. i \in 1 .. Len(mb[u].cache)
        BY <1>6
    <3>2. ls[i] = SendRpc(u, g, mb[u].cache[i])
        BY <3>1 DEF Flush
    <3>3. PICK c \in Calls : c[1] = u /\ mb[u].cache[i] = CallRpc(c)
      <4>1. OnlyCalls(u, mb[u].cache)
          BY DEF AuthorityInv, OwnerInv
      <4> QED BY <3>1, <4>1 DEF OnlyCalls
    <3>4. ls[i].op = "call" /\ ls[i].arg = c
        BY <3>2, <3>3 DEF SendRpc, CallRpc, Letter
    <3>5. ls[i] \in Letters
        BY <1>6, SeqFacts
    <3> QED BY <3>3, <3>4, <3>5 DEF CallsOf
  <2> QED BY <2>1
<1>8. mb'[u].cache = <<>> /\ \A t \in Sources : t # u => mb'[t] = mb[t]
    BY <1>1 DEF TypeInv, Places, StopCache
<1>9. up' = Extended(up, n, CellGate(u), ls) /\ ls = Flush(u, g)
    BY <1>1 DEF Extended
<1> HIDE DEF ls
<1>10. r \in [Where -> Seq(Letters)]
    BY <1>2, QueuesType
<1>11. Mail' = Joined(r, w, ls)
  <2>1. Mail' = Queues(Extended(up, n, CellGate(u), ls), down, imp')
      BY <1>1, <1>9 DEF Mail
  <2> QED BY <2>1, <1>1, <1>2, <1>5, <1>6, ExtendedJoins
<1>12. CASE u # s
  <2> HIDE DEF r, w
  <2>1. Carried(r, Mail', s, a)
      BY <1>5, <1>6, <1>7, <1>10, <1>11, <1>12, OtherCalls
  <2>2. Carried(Mail, Mail', s, a)
      BY <2>1, <1>4, CarriedOn
  <2> QED BY <2>2, <1>1, <1>8, <1>12, SteadySame, Rest
<1>13. CASE u = s
  <2> DEFINE m == issued[s] - Len(mb[s].cache)
  <2>1. /\ m \in Nat /\ a <= m /\ m + Len(mb[s].cache) = issued[s]
        /\ Sequel(Mail, s, a, m) /\ CacheOf(s, mb[s].cache, m)
        /\ \A k \in Live : cells[k].applied[s] = Upto(a)
        /\ Free(Mail, Stale(s, a)) /\ NoGap(s, cells)
      BY Standing
  <2> HIDE DEF m
  <2>2. Sequel(r, s, a, m) /\ Free(r, Stale(s, a))
    <3> HIDE DEF r
    <3> QED BY <2>1, <1>4 DEF Carried
  <2>3. JoinAt(r, Stage, CallsOf(s), Up(At[s], CellGate(s)))
    <3>1. Traffic(Mail, s, Live)
        BY DEF AuthorityInv, OwnerInv
    <3>2. Traffic(r, s, Live)
      <4> HIDE DEF r, n
      <4> QED BY <3>1, <1>2, TrafficTake
    <3> HIDE DEF r
    <3> QED BY <3>2 DEF Traffic
  <2>4. NextCalls(s, m, ls)
    <3>1. ls = Flush(s, g) /\ \A i \in 1 .. Len(ls) : ls[i] \in CallsOf(s)
        BY <1>7, <1>9, <1>13
    <3>2. Len(ls) = Len(mb[s].cache)
        BY <1>6, <1>13
    <3> HIDE DEF g
    <3> QED BY <3>1, <3>2, <2>1, <1>3, CachedCalls
  <2>5. Mail' = Joined(r, Up(At[s], CellGate(s)), ls) /\ mb'[s].cache = <<>>
      BY <1>8, <1>11, <1>13
  <2>6. issued'[s] = m + Len(ls) /\ issued'[s] = issued[s] /\ UNCHANGED cells
      BY <2>1, <1>1, <1>6, <1>13
  <2> HIDE DEF r
  <2>7. Follows(s, a)
      BY <2>1, <2>2, <2>3, <2>4, <2>5, <2>6, <1>6, <1>10, SentAll
  <2> QED BY <2>6, <2>7 DEF Advances
<1> QED BY <1>12, <1>13

LEMMA CallCellOrders ==
    ASSUME TypeInv, AuthorityInv, NEW u \in Sources, CallCell(u),
           NEW s \in Sources, NEW a \in Nat, Stands(s, a)
    PROVE  Advances(s, a)
<1> DEFINE n == At[u]
           c == <<u, issued[u] + 1>>
           l == SendRpc(u, mb[u].addr, CallRpc(c))
<1>1. /\ issued[u] < MaxCalls[u] /\ n \in Nodes
      /\ issued' = [issued EXCEPT ![u] = @ + 1] /\ UNCHANGED <<cells, down, imp>>
    BY Owners DEF CallCell
<1>2. c \in Calls /\ c[1] = u /\ c[2] = issued[u] + 1
  <2>1. issued[u] < MaxCalls[u]
      BY <1>1
  <2>2. issued[u] \in Nat /\ MaxCalls[u] \in Nat
      BY BoundsAssumption DEF TypeInv, Counts
  <2>3. issued[u] + 1 \in 1 .. MaxCalls[u]
      BY <2>1, <2>2
  <2> QED BY <2>3 DEF Calls
<1>3. /\ up \in Ups /\ down \in Ups3 /\ imp \in Imps /\ Mail \in [Where -> Seq(Letters)]
    BY MailType
<1>4. /\ issued'[u] = issued[u] + 1 /\ \A t \in Sources : t # u => issued'[t] = issued[t]
    BY <1>1 DEF TypeInv, Counts
<1> DEFINE m == issued[s] - Len(mb[s].cache)
<1>5. /\ issued[s] \in Nat /\ Len(mb[s].cache) \in Nat /\ m \in Nat /\ a <= m
      /\ m + Len(mb[s].cache) = issued[s]
      /\ Sequel(Mail, s, a, m) /\ CacheOf(s, mb[s].cache, m)
      /\ \A g \in Live : cells[g].applied[s] = Upto(a)
      /\ Free(Mail, Stale(s, a)) /\ NoGap(s, cells)
    BY Standing
<1>6. mb[u].cache \in Seq(RpcsOf(u)) /\ mb[u].addr \in Games /\ mb[u].caching \in BOOLEAN
    BY BoxFields
<1> HIDE DEF m
<1>7. CASE mb[u].caching
  <2>1. mb' = [mb EXCEPT ![u].cache = Append(@, CallRpc(c))] /\ up' = up
      BY <1>7 DEF CallCell, Call, CallRpc
  <2>2. Mail' = Mail
      BY <2>1, <1>1 DEF Mail
  <2> HIDE DEF c
  <2>3. /\ mb'[u].cache = Append(mb[u].cache, CallRpc(c))
        /\ \A t \in Sources : t # u => mb'[t] = mb[t]
      BY <2>1, BoxFields DEF TypeInv, Places, Boxes
  <2>4. CASE u # s
    <3>1. Carried(Mail, Mail', s, a)
        BY <2>2, CarriedSelf
    <3> QED BY <3>1, <2>3, <2>4, <1>1, <1>4, SteadySame, Rest
  <2>5. CASE u = s
    <3> DEFINE old == mb[s].cache
               new == mb'[s].cache
    <3>1. old \in Seq(RpcsOf(s)) /\ CallRpc(c) \in RpcsOf(s) /\ new = Append(old, CallRpc(c))
        BY <2>3, <2>5, <1>2, <1>6 DEF RpcsOf
    <3>2. /\ Len(new) = Len(old) + 1 /\ new[Len(old) + 1] = CallRpc(c)
          /\ \A i \in 1 .. Len(old) : new[i] = old[i]
        BY <3>1
    <3>3. m + Len(new) = issued'[s] /\ a + Len(new) <= issued'[s]
          /\ issued'[s] - Len(new) = m
      <4> DEFINE x == Len(old)
                 y == issued[s]
      <4>1. Len(new) = x + 1 /\ issued'[s] = y + 1 /\ m + x = y /\ x \in Nat /\ y \in Nat
          BY <3>2, <2>5, <1>4, <1>5
      <4> HIDE DEF x, y, old, new
      <4> QED BY <4>1, <1>5
    <3>4. c = <<s, m + (Len(old) + 1)>>
      <4>1. issued[s] + 1 = m + (Len(old) + 1)
          BY <1>5
      <4> QED BY <4>1, <2>5 DEF c
    <3>5. CacheOf(s, new, m)
      <4>1. ASSUME NEW i \in 1 .. Len(new) PROVE new[i] = CallRpc(<<s, m + i>>)
        <5>1. i \in 1 .. Len(old) \/ i = Len(old) + 1
          <6> DEFINE x == Len(old)
          <6>1. Len(new) = x + 1 /\ x \in Nat
              BY <3>2, <1>5
          <6> HIDE DEF x, old, new
          <6>2. i \in 1 .. x + 1
              BY <6>1
          <6>3. i \in 1 .. x \/ i = x + 1
              BY <6>1, <6>2
          <6> QED BY <6>3 DEF x
        <5>2. CASE i \in 1 .. Len(old)
          <6>1. old[i] = CallRpc(<<s, m + i>>)
              BY <5>2, <1>5 DEF CacheOf
          <6> QED BY <5>2, <6>1, <3>2
        <5>3. CASE i = Len(old) + 1
            BY <5>3, <3>2, <3>4
        <5> QED BY <5>1, <5>2, <5>3
      <4> QED BY <4>1 DEF CacheOf
    <3>6. /\ \A g \in Live' : cells'[g].applied[s] = Upto(a)
          /\ Free(Mail', Stale(s, a)) /\ NoGap(s, cells')
        BY <2>2, <1>1, <1>5, CellsSame DEF NoGap
    <3>7. Sequel(Mail', s, a, issued'[s] - Len(new)) /\ CacheOf(s, new, issued'[s] - Len(new))
        BY <3>3, <3>5, <2>2, <1>5
    <3>8. Follows(s, a)
        BY <3>3, <3>6, <3>7 DEF Follows, OrderInv
    <3> QED BY <3>8, <2>5, <1>4 DEF Advances
  <2> QED BY <2>4, <2>5
<1>8. CASE ~mb[u].caching
  <2>1. mb' = mb /\ up' = Sent(up, n, l)
      BY <1>8 DEF CallCell, Call, CallRpc
  <2>2. mb[u].cache = <<>>
      BY <1>8 DEF TypeInv, Places
  <2>3. l \in Letters /\ l.via = CellGate(u) /\ l.op = "call" /\ l.arg = c
    <3>1. CallRpc(c) \in RpcsOf(u)
        BY <1>2 DEF RpcsOf
    <3>2. l \in Letters
        BY <3>1, <1>6, RpcLetter
    <3> QED BY <3>2 DEF SendRpc, CallRpc, Letter
  <2>4. l \in CallsOf(u) /\ l.arg[2] = issued[u] + 1
      BY <2>3, <1>2 DEF CallsOf
  <2> DEFINE ls == <<l>>
             w == Up(n, CellGate(u))
  <2>5. Mail' = Joined(Mail, w, ls) /\ w \in Where
    <3>1. Mail' = Queues(Sent(up, n, l), down, imp)
        BY <2>1, <1>1 DEF Mail
    <3> HIDE DEF l
    <3> QED BY <3>1, <2>3, <1>1, <1>3, SentJoined DEF Mail
  <2>6. ls \in Seq(Letters) /\ Len(ls) = 1 /\ \A i \in 1 .. Len(ls) : ls[i] = l
      BY <2>3, OneLetter
  <2>7. \A i \in 1 .. Len(ls) : ls[i] \in CallsOf(u)
      BY <2>4, <2>6
  <2> HIDE DEF l, ls, c
  <2>8. CASE u # s
    <3> HIDE DEF w
    <3>1. Carried(Mail, Mail', s, a)
        BY <2>5, <2>6, <2>7, <2>8, <1>3, OtherCalls
    <3> QED BY <3>1, <2>1, <2>8, <1>1, <1>4, SteadySame, Rest
  <2>9. CASE u = s
    <3>1. m = issued[s] /\ issued'[s] = m + Len(ls)
      <4>1. Len(mb[s].cache) = 0
          BY <2>2, <2>9
      <4>2. m = issued[s]
          BY <4>1, <1>5
      <4> QED BY <4>2, <2>6, <2>9, <1>4
    <3>2. NextCalls(s, m, ls)
      <4>1. ASSUME NEW i \in 1 .. Len(ls) PROVE ls[i] \in No(s, m + i)
        <5>1. i = 1 /\ ls[i] = l
            BY <2>6
        <5>2. l \in No(s, m + 1)
            BY <3>1, <2>4, <2>9 DEF No
        <5> QED BY <5>1, <5>2
      <4> QED BY <4>1 DEF NextCalls
    <3>3. JoinAt(Mail, Stage, CallsOf(s), Up(At[s], CellGate(s)))
        BY DEF AuthorityInv, OwnerInv, Traffic
    <3>4. Mail' = Joined(Mail, Up(At[s], CellGate(s)), ls) /\ mb'[s].cache = <<>>
        BY <2>1, <2>2, <2>5, <2>9
    <3>5. Follows(s, a)
        BY <3>1, <3>2, <3>3, <3>4, <2>6, <1>1, <1>3, <1>5, SentAll
    <3> QED BY <3>5, <2>9, <1>4 DEF Advances
  <2> QED BY <2>8, <2>9
<1> QED BY <1>6, <1>7, <1>8

LEMMA ExecCallOrders ==
    ASSUME TypeInv, AuthorityInv, NEW g \in Games, ExecCall(g),
           NEW s \in Sources, NEW a \in Nat, Stands(s, a)
    PROVE  Advances(s, a)
<1> DEFINE h == Head(imp[g]).letter
           u == h.arg[1]
           p == [cells[g].applied EXCEPT ![u] = Append(@, h.arg[2])]
           c == [cells[g] EXCEPT !.applied = p]
<1>1. /\ Take(g, "cell", "call") /\ Exists(g) /\ g \in Nodes /\ cells' = [cells EXCEPT ![g] = c]
      /\ UNCHANGED <<mb, up, down, issued>>
    BY Owners DEF ExecCall, TakeForCell, Arg
<1>2. /\ Mail \in [Where -> Seq(Letters)] /\ Imp(g) \in Where /\ Mail[Imp(g)] # <<>>
      /\ h = Head(Mail[Imp(g)])
      /\ Queues(up, down, imp') = Taken(Mail, Imp(g))
      /\ u \in Sources /\ h.arg \in Calls /\ h \in CallsOf(u) /\ g \in Live
    BY <1>1, CallTaken
<1>3. cells[g] \in CellType /\ Live = {g} /\ cells[g].state # "RealMigrate"
    BY <1>2, CellFacts, LoneLive
<1>4. h.arg[2] \in Nat
    BY <1>2, BoundsAssumption DEF Calls
<1>5. u # s => Carried(Mail, Queues(up, down, imp'), s, a)
  <2>1. u # s => h \notin CallsOf(s)
      BY DEF CallsOf
  <2> QED BY <2>1, <1>1, TakenOrders
<1> HIDE DEF h
<1>6. p \in [Sources -> Seq(Nat)] /\ p[u] = Append(cells[g].applied[u], h.arg[2])
      /\ \A t \in Sources : t # u => p[t] = cells[g].applied[t]
  <2> DEFINE old == cells[g].applied
             k == h.arg[2]
  <2>1. old \in [Sources -> Seq(Nat)] /\ u \in Sources /\ k \in Nat
      BY <1>2, <1>3, <1>4 DEF CellType
  <2>2. p = [old EXCEPT ![u] = Append(@, k)]
      OBVIOUS
  <2> HIDE DEF old, k, u, p
  <2>3. p \in [Sources -> Seq(Nat)] /\ p[u] = Append(old[u], k)
        /\ \A t \in Sources : t # u => p[t] = old[t]
      BY <2>1, <2>2
  <2> QED BY <2>3 DEF old, k
<1>7. c \in CellType /\ c.state = cells[g].state /\ c.applied = p
  <2> HIDE DEF u, p
  <2> QED BY <1>3, <1>6 DEF CellType
<1>8. Mail' = Queues(up, down, imp')
    BY <1>1 DEF Mail
<1> HIDE DEF c, p
<1>9. CASE u # s
  <2>1. c.applied[s] = cells[g].applied[s]
      BY <1>6, <1>7, <1>9
  <2>2. Steady(s)
      BY <2>1, <1>1, <1>2, <1>7, SteadyChange DEF Exists
  <2>3. Carried(Mail, Mail', s, a)
      BY <1>5, <1>8, <1>9
  <2> QED BY <2>2, <2>3, <1>1, Rest
<1>10. CASE u = s
  <2> DEFINE m == issued[s] - Len(mb[s].cache)
             b == a + 1
  <2>1. /\ issued[s] \in Nat /\ Len(mb[s].cache) \in Nat /\ m \in Nat /\ a <= m
        /\ m + Len(mb[s].cache) = issued[s]
        /\ Sequel(Mail, s, a, m) /\ CacheOf(s, mb[s].cache, m)
        /\ \A k \in Live : cells[k].applied[s] = Upto(a) /\ NoGap(s, cells)
      BY Standing
  <2>2. m = issued[s] - Len(mb[s].cache) /\ b = a + 1 /\ b \in Nat
      OBVIOUS
  <2>3. h.arg[2] = a + 1 /\ a + 1 <= m /\ Sequel(Mail', s, a + 1, m)
    <3> HIDE DEF m
    <3>1. h \in CallsOf(s) /\ Mail' = Taken(Mail, Imp(g))
        BY <1>2, <1>8, <1>10
    <3>2. /\ Mail \in [Where -> Seq(Letters)] /\ g \in Nodes /\ Mail[Imp(g)] # <<>>
          /\ h = Head(Mail[Imp(g)])
        BY <1>1, <1>2
    <3>3. m \in Nat /\ Sequel(Mail, s, a, m)
        BY <2>1
    <3> HIDE DEF u, b
    <3> QED BY <3>1, <3>2, <3>3, SequelExec
  <2> HIDE DEF m
  <2>4. cells'[g].applied[s] = Upto(b)
    <3>1. cells'[g] = c
        BY <1>1, <1>7, CellChanged
    <3>2. c.applied[s] = Append(Upto(a), a + 1)
        BY <2>1, <2>3, <1>2, <1>6, <1>7, <1>10
    <3> QED BY <3>1, <3>2, <2>2, UptoSeq
  <2>5. Live' = {g} /\ \A k \in Games : k # g => cells'[k] = cells[k]
    <3>1. /\ \A k \in Games : k # g => cells'[k] = cells[k]
          /\ Live' = (Live \ {g}) \cup {k \in {g} : c # NoCell /\ c.state # "RealMigrate"}
        BY <1>1, <1>7, CellChanged
    <3>2. c # NoCell
        BY <1>7, NoCellAssumption
    <3> QED BY <3>1, <3>2, <1>3, <1>7
  <2>6. Free(Mail', Stale(s, b))
    <3>1. Free(Mail, Pk)
        BY <1>2 DEF AuthorityInv, SeatInv, Seat
    <3>2. Free(Mail', Pk)
        BY <3>1, <1>2, <1>8, TakeFree
    <3> QED BY <3>2, FreePart DEF Stale
  <2>7. NoGap(s, cells')
      BY <2>1, <2>2, <2>4, <2>5, <1>2 DEF NoGap
  <2>8. b + Len(mb[s].cache) <= issued[s]
    <3> DEFINE x == Len(mb[s].cache)
               y == issued[s]
    <3>1. x \in Nat /\ y \in Nat /\ m + x = y /\ b <= m /\ m \in Nat
        BY <2>1, <2>3
    <3> HIDE DEF x, y, b
    <3>2. b + x <= y
        BY <3>1, <2>2
    <3> QED BY <3>2 DEF x, y
  <2>9. Follows(s, b)
    <3>1. Sequel(Mail', s, b, m) /\ m = issued'[s] - Len(mb'[s].cache)
          /\ mb'[s].cache = mb[s].cache /\ issued'[s] = issued[s]
        BY <2>2, <2>3, <1>1
    <3>2. \A k \in Live' : cells'[k].applied[s] = Upto(b)
        BY <2>4, <2>5
    <3> HIDE DEF b
    <3> QED BY <3>1, <3>2, <2>1, <2>2, <2>6, <2>7, <2>8 DEF Follows, OrderInv
  <2> QED BY <2>2, <2>9, <1>1 DEF Advances
<1> QED BY <1>9, <1>10

-----------------------------------------------------------------------------
(* Every step keeps the order.                                             *)
InOrder == \A s \in Sources : \E a \in Nat : Stands(s, a)

LEMMA OrderInit == Init => InOrder
<1> SUFFICES ASSUME Init, NEW s \in Sources PROVE \E a \in Nat : Stands(s, a)
    BY DEF InOrder
<1>1. \A K, M : Free(Mail, K) /\ Single(Mail, K) /\ Ahead(Mail, Stage, K, M)
    BY EmptyMail
<1>2. Sequel(Mail, s, 0, 0)
  <2>1. \A k \in Nat : ~(0 < k /\ k <= 0)
      OBVIOUS
  <2> QED BY <2>1, <1>1 DEF Sequel
<1>3. mb[s].cache = <<>> /\ issued[s] = 0 /\ Len(mb[s].cache) = 0
    BY DEF Init
<1>4. \A g \in Games : cells[g] # NoCell => cells[g].applied[s] = <<>>
  <2>1. cells = [g \in Games |->
                   IF g = Home THEN NewCell([t \in Sources |-> <<>>], Belongings) ELSE NoCell]
      BY DEF Init
  <2>2. NewCell([t \in Sources |-> <<>>], Belongings).applied[s] = <<>>
      BY DEF NewCell
  <2> QED BY <2>1, <2>2
<1>5. Upto(0) = <<>>
    BY UptoSeq
<1>6. \A g \in Live : cells[g].applied[s] = Upto(0)
    BY <1>4, <1>5 DEF Live, Exists
<1>7. NoGap(s, cells)
    BY <1>4, <1>5 DEF NoGap
<1>8. CacheOf(s, mb[s].cache, issued[s] - Len(mb[s].cache))
  <2>1. 1 .. Len(mb[s].cache) = {}
      BY <1>3
  <2> QED BY <2>1 DEF CacheOf
<1>9. Sequel(Mail, s, 0, issued[s] - Len(mb[s].cache)) /\ 0 + Len(mb[s].cache) <= issued[s]
  <2> DEFINE x == issued[s]
             y == Len(mb[s].cache)
  <2>1. x = 0 /\ y = 0
      BY <1>3
  <2> HIDE DEF x, y
  <2>2. Sequel(Mail, s, 0, x - y) /\ 0 + y <= x
    <3>1. 0 - 0 = 0 /\ 0 + 0 <= 0
        OBVIOUS
    <3> QED BY <3>1, <2>1, <1>2
  <2> QED BY <2>2 DEF x, y
<1>10. Stands(s, 0)
    BY <1>1, <1>6, <1>7, <1>8, <1>9 DEF Stands, OrderInv
<1> QED BY <1>10

LEMMA OrderStep ==
    ASSUME Ordered, TypeInv, AuthorityInv, [Next]_vars,
           NEW s \in Sources, NEW a \in Nat, Stands(s, a)
    PROVE  Advances(s, a)
<1>1. ASSUME NEW n \in Nodes, NEW gate \in Gates, Forward(n, gate) \/ Arrive(gate, n)
      PROVE  Advances(s, a)
  <2>1. \E v, w : Hop(Mail, Mail', v, w)
      BY <1>1, ForwardKeeps, ArriveKeeps
  <2>2. UNCHANGED <<cells, mb, issued>>
      BY <1>1 DEF Forward, Arrive
  <2> QED BY <2>1, <2>2, HopOrders
<1>2. ASSUME NEW g \in Games, CellStep(g) PROVE Advances(s, a)
    BY <1>2, NoneLost, MigrateReqackOrders, FinishOrders, ExecCallOrders,
       MigrateFromOldCellOrders
       DEF CellStep
<1>3. ASSUME NEW g \in Games, DestroyCell(g) PROVE Advances(s, a)
    BY <1>3, DestroyCellOrders
<1>4. ASSUME NEW g \in Games, MigrateCheckTimer(g) PROVE Advances(s, a)
  <2>1. timeouts < 0 /\ timeouts \in Nat
      BY <1>4 DEF MigrateCheckTimer, Ordered, TypeInv, Counts
  <2> QED BY <2>1
<1>5. ASSUME NEW g \in Games, NEW newAddr \in Games, BeginMigrate(g, newAddr)
      PROVE  Advances(s, a)
    BY <1>5, BeginMigrateOrders
<1>6. ASSUME NEW u \in Sources, OwnerStep(u) PROVE Advances(s, a)
    BY <1>6, MigrateReqOrders, NewCellMigrateInOrders DEF OwnerStep
<1>7. ASSUME NEW u \in Sources, CallCell(u) PROVE Advances(s, a)
    BY <1>7, CallCellOrders
<1>8. CASE UNCHANGED vars
  <2>1. UNCHANGED <<cells, mb, up, down, imp, issued>>
      BY <1>8 DEF vars, net
  <2>2. Mail' = Mail
      BY <2>1 DEF Mail
  <2>3. Carried(Mail, Mail', s, a)
      BY <2>2, CarriedSelf
  <2> QED BY <2>1, <2>3, SteadySame, Rest
<1> QED BY <1>1, <1>2, <1>3, <1>4, <1>5, <1>6, <1>7, <1>8 DEF Next, Transport

(* The calls of every owner stand in order, wherever they are.             *)
THEOREM Order == ASSUME Ordered PROVE Spec => []InOrder
<1>1. Init => InOrder
    BY OrderInit
<1>2. TypeInv /\ AuthorityInv /\ InOrder /\ [Next]_vars => InOrder'
  <2> SUFFICES ASSUME TypeInv, AuthorityInv, InOrder, [Next]_vars, NEW s \in Sources
               PROVE  \E a \in Nat : Stands(s, a)'
      BY DEF InOrder
  <2>1. PICK a \in Nat : Stands(s, a)
      BY DEF InOrder
  <2>2. PICK b \in Nat : Follows(s, b)
      BY <2>1, OrderStep DEF Advances
  <2> QED BY <2>2 DEF Follows, Stands
<1>3. Spec => []TypeInv
    BY Typed
<1>4. Spec => []AuthorityInv
    BY Authority
<1> QED BY <1>1, <1>2, <1>3, <1>4, PTL DEF Spec

(* Every cell has executed the calls of each owner in their order, none    *)
(* twice and none without the one before it.                               *)
THEOREM NeverRepeats == ASSUME Ordered PROVE Spec => []NoRepeat
<1>1. InOrder => NoRepeat
  <2> SUFFICES ASSUME InOrder, NEW g \in Games, Exists(g), NEW s \in Sources,
                      NEW i \in DOMAIN cells[g].applied[s],
                      NEW j \in DOMAIN cells[g].applied[s], i < j
               PROVE  cells[g].applied[s][i] < cells[g].applied[s][j]
      BY DEF NoRepeat
  <2>1. PICK b \in Nat : cells[g].applied[s] = Upto(b)
      BY DEF InOrder, Stands, NoGap, Exists
  <2> QED BY <2>1 DEF Upto
<1>2. Spec => []InOrder
    BY Order
<1> QED BY <1>1, <1>2, PTL

-----------------------------------------------------------------------------
(* What the entity has executed, wherever it is, by its numbers.           *)
Shown ==
    \A s \in Sources : \A a \in Nat :
        Stands(s, a) => a <= issued[s] /\ Applied(s) = Upto(a)

LEMMA IsShown == TypeInv /\ AuthorityInv => Shown
<1> SUFFICES ASSUME TypeInv, AuthorityInv, NEW s \in Sources, NEW a \in Nat, Stands(s, a)
             PROVE  a <= issued[s] /\ Applied(s) = Upto(a)
    BY DEF Shown
<1> DEFINE m == issued[s] - Len(mb[s].cache)
<1>1. /\ issued[s] \in Nat /\ Len(mb[s].cache) \in Nat /\ m \in Nat /\ a <= m
      /\ m + Len(mb[s].cache) = issued[s]
      /\ \A g \in Live : cells[g].applied[s] = Upto(a)
      /\ Free(Mail, Stale(s, a))
    BY Standing
<1> HIDE DEF m
<1>2. a <= issued[s]
  <2> DEFINE x == issued[s]
             y == Len(mb[s].cache)
  <2>1. x \in Nat /\ y \in Nat /\ m + y = x
      BY <1>1
  <2> HIDE DEF x, y
  <2>2. a <= x
      BY <2>1, <1>1
  <2> QED BY <2>2 DEF x
<1>3. CASE Live # {}
  <2> DEFINE g == CHOOSE g \in Live : TRUE
  <2>1. g \in Live
      BY <1>3
  <2>2. Applied(s) = cells[g].applied[s]
      BY <1>3 DEF Applied
  <2> HIDE DEF g
  <2> QED BY <2>1, <2>2, <1>1, <1>2
<1>4. CASE Live = {}
  <2> DEFINE l == CHOOSE l \in Packets : TRUE
  <2>1. Packets # {}
    <3>1. ~Free(Mail, Pk)
        BY <1>4 DEF AuthorityInv, SeatInv, Seat
    <3> QED BY <3>1, PacketsInMail
  <2>2. l \in Packets
      BY <2>1
  <2>3. Applied(s) = l.arg.applied[s]
      BY <1>4 DEF Applied
  <2> HIDE DEF l
  <2>4. l \in InNetwork /\ l \in Pk
      BY <2>2, PacketsInMail
  <2>5. l \notin Stale(s, a)
      BY <2>4, <1>1, FreeOf
  <2> QED BY <2>3, <2>4, <2>5, <1>2 DEF Stale
<1> QED BY <1>3, <1>4

(* A step of the channel of owner s.                                       *)
ChannelStep(s) ==
    \/ /\ \E k \in 1 .. MaxCalls[s] : Issued(s)' = Append(Issued(s), k)
       /\ Applied(s)' = Applied(s)
    \/ /\ Len(Applied(s)) < Len(Issued(s))
       /\ Applied(s)' = Append(Applied(s), Issued(s)[Len(Applied(s)) + 1])
       /\ Issued(s)' = Issued(s)
    \/ Issued(s)' = Issued(s) /\ Applied(s)' = Applied(s)

LEMMA ChannelSteps ==
    ASSUME Ordered, TypeInv, AuthorityInv, InOrder, Shown, TypeInv', Shown', [Next]_vars,
           NEW s \in Sources
    PROVE  ChannelStep(s)
<1>1. PICK a \in Nat : Stands(s, a)
    BY DEF InOrder
<1>2. PICK b \in Nat :
          /\ Follows(s, b)
          /\ \/ b = a /\ issued'[s] \in {issued[s], issued[s] + 1}
             \/ b = a + 1 /\ issued'[s] = issued[s]
    BY <1>1, OrderStep DEF Advances
<1>3. a <= issued[s] /\ Applied(s) = Upto(a)
    BY <1>1 DEF Shown
<1>4. b <= issued'[s] /\ Applied(s)' = Upto(b)
  <2>1. Stands(s, b)'
      BY <1>2 DEF Follows, Stands
  <2>2. (\A t \in Sources : \A c \in Nat :
            Stands(t, c) => c <= issued[t] /\ Applied(t) = Upto(c))'
      BY DEF Shown
  <2> QED BY <2>1, <2>2
<1>5. Issued(s) = Upto(issued[s]) /\ Issued(s)' = Upto(issued'[s])
    BY DEF Issued, Upto
<1>6. issued[s] \in Nat /\ issued'[s] \in Nat /\ issued'[s] <= MaxCalls[s] /\ MaxCalls[s] \in Nat
    BY BoundsAssumption DEF TypeInv, Counts
<1> DEFINE n == issued[s]
           k == issued'[s]
<1>7. /\ n \in Nat /\ k \in Nat /\ k <= MaxCalls[s] /\ MaxCalls[s] \in Nat
      /\ a <= n /\ b <= k /\ ((b = a /\ k \in {n, n + 1}) \/ (b = a + 1 /\ k = n))
      /\ Issued(s) = Upto(n) /\ Issued(s)' = Upto(k)
  <2>1. /\ n \in Nat /\ k \in Nat /\ k <= MaxCalls[s] /\ MaxCalls[s] \in Nat
        /\ a <= n /\ b <= k
      BY <1>3, <1>4, <1>6
  <2>2. (b = a /\ k \in {n, n + 1}) \/ (b = a + 1 /\ k = n)
      BY <1>2
  <2>3. Issued(s) = Upto(n) /\ Issued(s)' = Upto(k)
      BY <1>5
  <2> QED BY <2>1, <2>2, <2>3
<1> HIDE DEF n, k
<1>8. CASE b = a /\ k = n + 1
  <2>1. k \in 1 .. MaxCalls[s]
    <3> DEFINE max == MaxCalls[s]
    <3>1. n \in Nat /\ k = n + 1 /\ k <= max /\ max \in Nat
        BY <1>7, <1>8
    <3> HIDE DEF max
    <3>2. k \in 1 .. max
        BY <3>1
    <3> QED BY <3>2 DEF max
  <2>2. Upto(k) = Append(Upto(n), k)
      BY <1>7, <1>8, UptoSeq
  <2> QED BY <2>1, <2>2, <1>3, <1>4, <1>7, <1>8 DEF ChannelStep
<1>9. CASE b = a + 1 /\ k = n
  <2>1. Len(Upto(a)) = a /\ Len(Upto(n)) = n /\ Upto(n)[a + 1] = a + 1 /\ a < n
    <3>1. a + 1 \in 1 .. n /\ a < n
        BY <1>7, <1>9
    <3> QED BY <3>1, <1>7 DEF Upto
  <2>2. Upto(b) = Append(Upto(a), a + 1)
      BY <1>9, UptoSeq
  <2> QED BY <2>1, <2>2, <1>3, <1>4, <1>7, <1>9 DEF ChannelStep
<1>10. CASE b = a /\ k = n
    BY <1>3, <1>4, <1>7, <1>10 DEF ChannelStep
<1> QED BY <1>7, <1>8, <1>9, <1>10

LEMMA ChannelStarts ==
    ASSUME Init, NEW s \in Sources
    PROVE  Issued(s) = <<>> /\ Applied(s) = <<>>
<1>1. Issued(s) = <<>>
  <2>1. Issued(s) = Upto(0)
      BY DEF Init, Issued, Upto
  <2> QED BY <2>1, UptoSeq
<1>2. Live # {} /\ \A g \in Live : cells[g].applied[s] = <<>>
  <2>1. cells = [g \in Games |->
                   IF g = Home THEN NewCell([t \in Sources |-> <<>>], Belongings) ELSE NoCell]
      BY DEF Init
  <2>2. /\ NewCell([t \in Sources |-> <<>>], Belongings).applied[s] = <<>>
        /\ NewCell([t \in Sources |-> <<>>], Belongings).state = "None"
      BY DEF NewCell
  <2>3. Home \in Games /\ NewCell([t \in Sources |-> <<>>], Belongings) # NoCell
    <3>1. [t \in Sources |-> <<>>] \in [Sources -> Seq(Nat)]
        BY NoneQueued
    <3>2. NewCell([t \in Sources |-> <<>>], Belongings) \in CellType
        BY <3>1 DEF NewCell, CellType
    <3> QED BY <3>2, NoCellAssumption, Routes
  <2>4. Home \in Live
      BY <2>1, <2>2, <2>3 DEF Live, Exists
  <2>5. \A g \in Live : cells[g].applied[s] = <<>>
      BY <2>1, <2>2 DEF Live, Exists
  <2> QED BY <2>4, <2>5
<1>3. Applied(s) = <<>>
  <2> DEFINE g == CHOOSE g \in Live : TRUE
  <2>1. g \in Live
      BY <1>2
  <2>2. Applied(s) = cells[g].applied[s]
      BY <1>2 DEF Applied
  <2> HIDE DEF g
  <2> QED BY <2>1, <2>2, <1>2
<1> QED BY <1>1, <1>3

(* Seen from the base, the cell is one entity behind one ordered channel,  *)
(* wherever it is: what is executed is what was called, in the order of    *)
(* the calls.                                                              *)
THEOREM BaseTransparent == ASSUME Ordered PROVE Spec => BaseChannel!Spec
<1>1. Init => BaseChannel!Init
    BY ChannelStarts, Owners DEF BaseChannel!Init
<1>2. TypeInv /\ AuthorityInv /\ InOrder /\ Shown /\ TypeInv' /\ Shown' /\ [Next]_vars
          => [BaseChannel!Next]_(BaseChannel!vars)
    BY ChannelSteps, Owners
       DEF ChannelStep, BaseChannel!Next, BaseChannel!Accept, BaseChannel!Deliver,
           BaseChannel!vars
<1>3. TypeInv /\ AuthorityInv => Shown
    BY IsShown
<1>4. Spec => []TypeInv /\ []AuthorityInv /\ []InOrder
    BY Typed, Authority, Order
<1> QED BY <1>1, <1>2, <1>3, <1>4, PTL DEF Spec, BaseChannel!Spec

(* The same for the client of an entity that has one.                      *)
THEOREM ClientTransparent ==
    ASSUME Ordered, "client" \in Sources PROVE Spec => ClientChannel!Spec
<1>1. Init => ClientChannel!Init
    BY ChannelStarts DEF ClientChannel!Init
<1>2. TypeInv /\ AuthorityInv /\ InOrder /\ Shown /\ TypeInv' /\ Shown' /\ [Next]_vars
          => [ClientChannel!Next]_(ClientChannel!vars)
    BY ChannelSteps
       DEF ChannelStep, ClientChannel!Next, ClientChannel!Accept, ClientChannel!Deliver,
           ClientChannel!vars
<1>3. TypeInv /\ AuthorityInv => Shown
    BY IsShown
<1>4. Spec => []TypeInv /\ []AuthorityInv /\ []InOrder
    BY Typed, Authority, Order
<1> QED BY <1>1, <1>2, <1>3, <1>4, PTL DEF Spec, ClientChannel!Spec
=============================================================================
