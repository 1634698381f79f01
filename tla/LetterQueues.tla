---------------------------- MODULE LetterQueues ----------------------------
(***************************************************************************)
(* Letters on their way through queues: where they are, in what order, and *)
(* what of this remains when the first letter of a queue is taken, when    *)
(* letters join a queue and when the first letter of a queue moves on to   *)
(* another one.  q[w] is what queue w holds and stage[w] how far along the *)
(* way w is.  Letters join at stage 1 and move to the next stage.          *)
(***************************************************************************)
EXTENDS Naturals, Sequences, SequenceTheorems, TLAPS

(* No letter of K is under way. *)
Free(q, K) == \A w \in DOMAIN q : \A i \in 1 .. Len(q[w]) : q[w][i] \notin K

(* At most one letter of K is under way. *)
Single(q, K) ==
    \A v, w \in DOMAIN q : \A i \in 1 .. Len(q[v]), j \in 1 .. Len(q[w]) :
        q[v][i] \in K /\ q[w][j] \in K => v = w /\ i = j

(* Every letter of K is ahead of every letter of M. *)
Ahead(q, stage, K, M) ==
    \A v, w \in DOMAIN q : \A i \in 1 .. Len(q[v]), j \in 1 .. Len(q[w]) :
        q[v][i] \in K /\ q[w][j] \in M =>
            stage[v] > stage[w] \/ (v = w /\ i < j)

(* The letters of K join in queue u only ... *)
JoinAt(q, stage, K, u) ==
    \A w \in DOMAIN q : \A i \in 1 .. Len(q[w]) :
        stage[w] = 1 /\ q[w][i] \in K => w = u

(* ... and those that still are where they joined are ahead of M there. *)
JoinAhead(q, stage, K, M) ==
    \A v, w \in DOMAIN q : \A i \in 1 .. Len(q[v]), j \in 1 .. Len(q[w]) :
        stage[v] = 1 /\ q[v][i] \in K /\ q[w][j] \in M => v = w /\ i < j

(* No letter of the sequence ls is in K. *)
Without(ls, K) == \A i \in 1 .. Len(ls) : ls[i] \notin K

Taken(q, v) == [q EXCEPT ![v] = Tail(@)]
Joined(q, w, ls) == [q EXCEPT ![w] = @ \o ls]
Moved(q, v, w) == [q EXCEPT ![v] = Tail(@), ![w] = Append(@, Head(q[v]))]

-----------------------------------------------------------------------------
(* Where the letters are after each change: every position after it was    *)
(* one before it, and conversely.                                          *)

AfterTake(W, q, v, r) ==
    /\ Head(q[v]) = q[v][1] /\ 1 \in 1 .. Len(q[v])
    /\ \A u \in W : \A i \in 1 .. Len(r[u]) :
           LET k == IF u = v THEN i + 1 ELSE i
           IN  k \in 1 .. Len(q[u]) /\ r[u][i] = q[u][k]
    /\ \A u \in W : \A k \in 1 .. Len(q[u]) :
           ~(u = v /\ k = 1) =>
               LET i == IF u = v THEN k - 1 ELSE k
               IN  i \in 1 .. Len(r[u]) /\ r[u][i] = q[u][k]

LEMMA TakenAt ==
    ASSUME NEW W, NEW S, NEW q \in [W -> Seq(S)], NEW v \in W, q[v] # <<>>,
           NEW r, r = Taken(q, v)
    PROVE  r \in [W -> Seq(S)] /\ AfterTake(W, q, v, r)
<1>1. q[v] \in Seq(S)
    OBVIOUS
<1>2. /\ Tail(q[v]) \in Seq(S) /\ Len(Tail(q[v])) = Len(q[v]) - 1
      /\ \A i \in 1 .. Len(Tail(q[v])) : Tail(q[v])[i] = q[v][i + 1]
      /\ Head(q[v]) = q[v][1] /\ Head(q[v]) \in S
      /\ Len(q[v]) \in Nat /\ Len(q[v]) > 0
    BY <1>1
<1>3. r[v] = Tail(q[v]) /\ r \in [W -> Seq(S)] /\ \A u \in W : u # v => r[u] = q[u]
    BY <1>2 DEF Taken
<1>4. ASSUME NEW u \in W, NEW i \in 1 .. Len(r[u])
      PROVE  LET k == IF u = v THEN i + 1 ELSE i
             IN  k \in 1 .. Len(q[u]) /\ r[u][i] = q[u][k]
  <2>1. CASE u = v
    <3>1. i \in 1 .. Len(Tail(q[v]))
        BY <1>3, <2>1
    <3>2. Tail(q[v])[i] = q[v][i + 1] /\ i + 1 \in 1 .. Len(q[v])
        BY <3>1, <1>2
    <3> QED BY <3>2, <1>3, <2>1
  <2>2. CASE u # v
      BY <2>2, <1>3
  <2> QED BY <2>1, <2>2
<1>5. ASSUME NEW u \in W, NEW k \in 1 .. Len(q[u]), ~(u = v /\ k = 1)
      PROVE  LET i == IF u = v THEN k - 1 ELSE k
             IN  i \in 1 .. Len(r[u]) /\ r[u][i] = q[u][k]
  <2>1. CASE u = v
    <3>1. k - 1 \in 1 .. Len(Tail(q[v])) /\ (k - 1) + 1 = k
        BY <1>2, <1>5, <2>1
    <3>2. Tail(q[v])[k - 1] = q[v][k]
        BY <3>1, <1>2
    <3> QED BY <3>1, <3>2, <1>3, <2>1
  <2>2. CASE u # v
      BY <2>2, <1>3
  <2> QED BY <2>1, <2>2
<1> QED BY <1>2, <1>3, <1>4, <1>5 DEF AfterTake

AfterJoin(W, q, w, ls, r) ==
    /\ Len(q[w]) \in Nat
    /\ \A u \in W : \A i \in 1 .. Len(r[u]) :
           \/ i \in 1 .. Len(q[u]) /\ r[u][i] = q[u][i]
           \/ /\ u = w /\ i > Len(q[w])
              /\ i - Len(q[w]) \in 1 .. Len(ls) /\ r[u][i] = ls[i - Len(q[w])]
    /\ \A u \in W : \A i \in 1 .. Len(q[u]) : i \in 1 .. Len(r[u]) /\ r[u][i] = q[u][i]
    /\ \A i \in 1 .. Len(ls) :
           Len(q[w]) + i \in 1 .. Len(r[w]) /\ r[w][Len(q[w]) + i] = ls[i]

LEMMA JoinedAt ==
    ASSUME NEW W, NEW S, NEW q \in [W -> Seq(S)], NEW w \in W, NEW ls \in Seq(S),
           NEW r, r = Joined(q, w, ls)
    PROVE  r \in [W -> Seq(S)] /\ AfterJoin(W, q, w, ls, r)
<1>1. q[w] \in Seq(S)
    OBVIOUS
<1>2. /\ q[w] \o ls \in Seq(S) /\ Len(q[w] \o ls) = Len(q[w]) + Len(ls)
      /\ \A i \in 1 .. Len(q[w]) + Len(ls) :
             (q[w] \o ls)[i] = IF i <= Len(q[w]) THEN q[w][i] ELSE ls[i - Len(q[w])]
      /\ Len(q[w]) \in Nat /\ Len(ls) \in Nat
    BY <1>1, ConcatProperties
<1>3. r[w] = q[w] \o ls /\ r \in [W -> Seq(S)] /\ \A u \in W : u # w => r[u] = q[u]
    BY <1>2 DEF Joined
<1>4. ASSUME NEW u \in W, NEW i \in 1 .. Len(r[u])
      PROVE  \/ i \in 1 .. Len(q[u]) /\ r[u][i] = q[u][i]
             \/ /\ u = w /\ i > Len(q[w])
                /\ i - Len(q[w]) \in 1 .. Len(ls) /\ r[u][i] = ls[i - Len(q[w])]
    BY <1>2, <1>3
<1>5. ASSUME NEW u \in W, NEW i \in 1 .. Len(q[u])
      PROVE  i \in 1 .. Len(r[u]) /\ r[u][i] = q[u][i]
  <2>1. CASE u = w
    <3>1. i \in 1 .. Len(q[w]) + Len(ls) /\ i <= Len(q[w])
        BY <1>2, <2>1
    <3>2. (q[w] \o ls)[i] = q[w][i]
        BY <3>1, <1>2
    <3> QED BY <3>1, <3>2, <1>2, <1>3, <2>1
  <2>2. CASE u # w
      BY <2>2, <1>3
  <2> QED BY <2>1, <2>2
<1>6. ASSUME NEW i \in 1 .. Len(ls)
      PROVE  Len(q[w]) + i \in 1 .. Len(r[w]) /\ r[w][Len(q[w]) + i] = ls[i]
    BY <1>2, <1>3
<1> QED BY <1>2, <1>3, <1>4, <1>5, <1>6 DEF AfterJoin

AfterMove(W, q, v, w, r) ==
    /\ Head(q[v]) = q[v][1] /\ 1 \in 1 .. Len(q[v]) /\ Len(q[w]) \in Nat
    /\ \A u \in W : \A i \in 1 .. Len(r[u]) :
           \/ /\ u = w /\ i = Len(q[w]) + 1 /\ r[u][i] = q[v][1]
           \/ /\ u = w => i <= Len(q[w])
              /\ LET k == IF u = v THEN i + 1 ELSE i
                 IN  k \in 1 .. Len(q[u]) /\ r[u][i] = q[u][k]
    /\ Len(q[w]) + 1 \in 1 .. Len(r[w]) /\ r[w][Len(q[w]) + 1] = q[v][1]
    /\ \A u \in W : \A k \in 1 .. Len(q[u]) :
           ~(u = v /\ k = 1) =>
               LET i == IF u = v THEN k - 1 ELSE k
               IN  i \in 1 .. Len(r[u]) /\ r[u][i] = q[u][k]

LEMMA MovedAt ==
    ASSUME NEW W, NEW S, NEW q \in [W -> Seq(S)], NEW v \in W, NEW w \in W, v # w,
           q[v] # <<>>, NEW r, r = Moved(q, v, w)
    PROVE  r \in [W -> Seq(S)] /\ AfterMove(W, q, v, w, r)
<1>1. q[v] \in Seq(S) /\ q[w] \in Seq(S)
    OBVIOUS
<1>2. /\ Tail(q[v]) \in Seq(S) /\ Len(Tail(q[v])) = Len(q[v]) - 1
      /\ \A i \in 1 .. Len(Tail(q[v])) : Tail(q[v])[i] = q[v][i + 1]
      /\ Head(q[v]) = q[v][1] /\ Head(q[v]) \in S
      /\ Len(q[v]) \in Nat /\ Len(q[v]) > 0
    BY <1>1
<1>3. /\ Append(q[w], Head(q[v])) \in Seq(S)
      /\ Len(Append(q[w], Head(q[v]))) = Len(q[w]) + 1
      /\ \A i \in 1 .. Len(q[w]) : Append(q[w], Head(q[v]))[i] = q[w][i]
      /\ Append(q[w], Head(q[v]))[Len(q[w]) + 1] = Head(q[v])
      /\ Len(q[w]) \in Nat
    BY <1>1, <1>2
<1>4. /\ r[v] = Tail(q[v]) /\ r[w] = Append(q[w], Head(q[v]))
      /\ \A u \in W : u # v /\ u # w => r[u] = q[u]
      /\ r \in [W -> Seq(S)]
    BY <1>2, <1>3 DEF Moved
<1>5. ASSUME NEW u \in W, NEW i \in 1 .. Len(r[u])
      PROVE  \/ /\ u = w /\ i = Len(q[w]) + 1 /\ r[u][i] = q[v][1]
             \/ /\ u = w => i <= Len(q[w])
                /\ LET k == IF u = v THEN i + 1 ELSE i
                   IN  k \in 1 .. Len(q[u]) /\ r[u][i] = q[u][k]
  <2>1. CASE u = v
      BY <2>1, <1>2, <1>4
  <2>2. CASE u = w
      BY <2>2, <1>2, <1>3, <1>4
  <2>3. CASE u # v /\ u # w
      BY <2>3, <1>4
  <2> QED BY <2>1, <2>2, <2>3
<1>6. Len(q[w]) + 1 \in 1 .. Len(r[w]) /\ r[w][Len(q[w]) + 1] = q[v][1]
    BY <1>2, <1>3, <1>4
<1>7. ASSUME NEW u \in W, NEW k \in 1 .. Len(q[u]), ~(u = v /\ k = 1)
      PROVE  LET i == IF u = v THEN k - 1 ELSE k
             IN  i \in 1 .. Len(r[u]) /\ r[u][i] = q[u][k]
  <2>1. CASE u = v
    <3>1. k - 1 \in 1 .. Len(Tail(q[v])) /\ (k - 1) + 1 = k
        BY <1>2, <1>7, <2>1
    <3>2. Tail(q[v])[k - 1] = q[v][k]
        BY <3>1, <1>2
    <3> QED BY <3>1, <3>2, <1>4, <2>1
  <2>2. CASE u = w
    <3>1. k \in 1 .. Len(q[w])
        BY <2>2
    <3>2. Append(q[w], Head(q[v]))[k] = q[w][k]
        BY <3>1, <1>3
    <3>3. k \in 1 .. Len(r[w])
        BY <3>1, <1>3, <1>4
    <3> QED BY <3>2, <3>3, <1>4, <2>2
  <2>3. CASE u # v /\ u # w
      BY <2>3, <1>4
  <2> QED BY <2>1, <2>2, <2>3
<1> QED BY <1>2, <1>3, <1>4, <1>5, <1>6, <1>7 DEF AfterMove

-----------------------------------------------------------------------------
(* Taking the first letter of a queue. *)

LEMMA TakeFree ==
    ASSUME NEW W, NEW S, NEW q \in [W -> Seq(S)], NEW v \in W, q[v] # <<>>,
           NEW r, r = Taken(q, v), NEW K
    PROVE  /\ Free(q, K) => Free(r, K)
           /\ Head(q[v]) \notin K /\ Free(r, K) => Free(q, K)
           /\ Head(q[v]) \in K => ~Free(q, K)
<1>1. r \in [W -> Seq(S)] /\ AfterTake(W, q, v, r)
    BY TakenAt
<1>2. DOMAIN q = W /\ DOMAIN r = W
    BY <1>1
<1>3. ASSUME Free(q, K) PROVE Free(r, K)
  <2>1. ASSUME NEW u \in W, NEW i \in 1 .. Len(r[u]) PROVE r[u][i] \notin K
    <3> DEFINE k == IF u = v THEN i + 1 ELSE i
    <3>1. k \in 1 .. Len(q[u]) /\ r[u][i] = q[u][k]
        BY <1>1 DEF AfterTake
    <3> HIDE DEF k
    <3> QED BY <3>1, <1>2, <1>3 DEF Free
  <2> QED BY <2>1, <1>2 DEF Free
<1>4. ASSUME Head(q[v]) \notin K, Free(r, K) PROVE Free(q, K)
  <2>1. ASSUME NEW u \in W, NEW k \in 1 .. Len(q[u]) PROVE q[u][k] \notin K
    <3> DEFINE i == IF u = v THEN k - 1 ELSE k
    <3>1. CASE u = v /\ k = 1
        BY <3>1, <1>1, <1>4 DEF AfterTake
    <3>2. CASE ~(u = v /\ k = 1)
      <4>1. i \in 1 .. Len(r[u]) /\ r[u][i] = q[u][k]
          BY <3>2, <1>1 DEF AfterTake
      <4> HIDE DEF i
      <4> QED BY <4>1, <1>2, <1>4 DEF Free
    <3> QED BY <3>1, <3>2
  <2> QED BY <2>1, <1>2 DEF Free
<1>5. Head(q[v]) \in K => ~Free(q, K)
    BY <1>1, <1>2 DEF AfterTake, Free
<1> QED BY <1>3, <1>4, <1>5

LEMMA TakeSingle ==
    ASSUME NEW W, NEW S, NEW q \in [W -> Seq(S)], NEW v \in W, q[v] # <<>>,
           NEW r, r = Taken(q, v), NEW K, Single(q, K)
    PROVE  /\ Single(r, K)
           /\ Head(q[v]) \in K => Free(r, K)
<1> DEFINE k(u, i) == IF u = v THEN i + 1 ELSE i
<1>1. r \in [W -> Seq(S)] /\ AfterTake(W, q, v, r)
    BY TakenAt
<1>2. DOMAIN q = W /\ DOMAIN r = W
    BY <1>1
<1>3. \A u \in W : \A i \in 1 .. Len(r[u]) :
          i \in Int /\ k(u, i) \in 1 .. Len(q[u]) /\ r[u][i] = q[u][k(u, i)]
    BY <1>1 DEF AfterTake
<1>4. ASSUME NEW u \in W, NEW t \in W, NEW i \in 1 .. Len(r[u]), NEW j \in 1 .. Len(r[t]),
             r[u][i] \in K, r[t][j] \in K
      PROVE  u = t /\ i = j
  <2>1. /\ k(u, i) \in 1 .. Len(q[u]) /\ q[u][k(u, i)] \in K
        /\ k(t, j) \in 1 .. Len(q[t]) /\ q[t][k(t, j)] \in K
      BY <1>3, <1>4
  <2>2. u = t /\ k(u, i) = k(t, j)
    <3> HIDE DEF k
    <3> QED BY <2>1, <1>2 DEF Single
  <2> QED BY <2>2, <1>3
<1>5. ASSUME Head(q[v]) \in K, NEW u \in W, NEW i \in 1 .. Len(r[u]), r[u][i] \in K
      PROVE  FALSE
  <2>1. k(u, i) \in 1 .. Len(q[u]) /\ q[u][k(u, i)] \in K
      BY <1>3, <1>5
  <2>2. q[v][1] \in K /\ 1 \in 1 .. Len(q[v])
      BY <1>1, <1>5 DEF AfterTake
  <2>3. u = v /\ k(u, i) = 1
    <3> HIDE DEF k
    <3> QED BY <2>1, <2>2, <1>2 DEF Single
  <2> QED BY <2>3, <1>3
<1> QED BY <1>2, <1>4, <1>5 DEF Single, Free

LEMMA TakeOrder ==
    ASSUME NEW W, NEW S, NEW q \in [W -> Seq(S)], NEW v \in W, q[v] # <<>>,
           NEW r, r = Taken(q, v), NEW stage, NEW K, NEW M
    PROVE  /\ Ahead(q, stage, K, M) => Ahead(r, stage, K, M)
           /\ JoinAhead(q, stage, K, M) => JoinAhead(r, stage, K, M)
<1> DEFINE k(u, i) == IF u = v THEN i + 1 ELSE i
<1>1. r \in [W -> Seq(S)] /\ AfterTake(W, q, v, r)
    BY TakenAt
<1>2. DOMAIN q = W /\ DOMAIN r = W
    BY <1>1
<1>3. \A u \in W : \A i \in 1 .. Len(r[u]) :
          i \in Int /\ k(u, i) \in 1 .. Len(q[u]) /\ r[u][i] = q[u][k(u, i)]
    BY <1>1 DEF AfterTake
<1>4. \A u \in W : \A i, j \in Int : k(u, i) < k(u, j) => i < j
    OBVIOUS
<1> HIDE DEF k
<1>5. ASSUME NEW u \in W, NEW t \in W, NEW i \in 1 .. Len(r[u]), NEW j \in 1 .. Len(r[t]),
             r[u][i] \in K, r[t][j] \in M
      PROVE  /\ Ahead(q, stage, K, M) => stage[u] > stage[t] \/ (u = t /\ i < j)
             /\ JoinAhead(q, stage, K, M) /\ stage[u] = 1 => u = t /\ i < j
  <2>1. /\ k(u, i) \in 1 .. Len(q[u]) /\ q[u][k(u, i)] \in K /\ i \in Int
        /\ k(t, j) \in 1 .. Len(q[t]) /\ q[t][k(t, j)] \in M /\ j \in Int
      BY <1>3, <1>5
  <2>2. Ahead(q, stage, K, M) => stage[u] > stage[t] \/ (u = t /\ k(u, i) < k(t, j))
      BY <2>1, <1>2 DEF Ahead
  <2>3. JoinAhead(q, stage, K, M) /\ stage[u] = 1 => u = t /\ k(u, i) < k(t, j)
      BY <2>1, <1>2 DEF JoinAhead
  <2>4. u = t => (k(u, i) < k(t, j) => i < j)
      BY <2>1, <1>4
  <2> QED BY <2>2, <2>3, <2>4
<1>6. Ahead(q, stage, K, M) => Ahead(r, stage, K, M)
    BY <1>2, <1>5 DEF Ahead
<1>7. JoinAhead(q, stage, K, M) => JoinAhead(r, stage, K, M)
    BY <1>2, <1>5 DEF JoinAhead
<1> QED BY <1>6, <1>7

LEMMA TakeJoinAt ==
    ASSUME NEW W, NEW S, NEW q \in [W -> Seq(S)], NEW v \in W, q[v] # <<>>,
           NEW r, r = Taken(q, v), NEW stage, NEW K, NEW u, JoinAt(q, stage, K, u)
    PROVE  JoinAt(r, stage, K, u)
<1>1. r \in [W -> Seq(S)] /\ AfterTake(W, q, v, r)
    BY TakenAt
<1>2. DOMAIN q = W /\ DOMAIN r = W
    BY <1>1
<1>3. ASSUME NEW w \in W, NEW i \in 1 .. Len(r[w]), stage[w] = 1, r[w][i] \in K
      PROVE  w = u
  <2> DEFINE k == IF w = v THEN i + 1 ELSE i
  <2>1. k \in 1 .. Len(q[w]) /\ r[w][i] = q[w][k]
      BY <1>1 DEF AfterTake
  <2> HIDE DEF k
  <2> QED BY <2>1, <1>2, <1>3 DEF JoinAt
<1> QED BY <1>2, <1>3 DEF JoinAt

(* The first letter of a queue of the last stage has nothing ahead of it. *)
LEMMA TakeLast ==
    ASSUME NEW W, NEW S, NEW q \in [W -> Seq(S)], NEW v \in W, q[v] # <<>>,
           NEW stage \in [W -> Nat], \A u \in W : stage[u] <= stage[v],
           NEW K, NEW M, Ahead(q, stage, K, M), Head(q[v]) \in M
    PROVE  Free(q, K)
<1> DEFINE r == Taken(q, v)
<1>1. AfterTake(W, q, v, r)
    BY TakenAt
<1>2. q[v][1] \in M /\ 1 \in 1 .. Len(q[v])
    BY <1>1 DEF AfterTake
<1>3. ASSUME NEW u \in W, NEW i \in 1 .. Len(q[u]), q[u][i] \in K
      PROVE  FALSE
  <2>1. stage[u] > stage[v] \/ (u = v /\ i < 1)
      BY <1>2, <1>3 DEF Ahead
  <2> QED BY <2>1
<1> QED BY <1>3 DEF Free

-----------------------------------------------------------------------------
(* Letters that join. *)

LEMMA FreeAhead ==
    ASSUME NEW q, NEW stage, NEW K, NEW M, Free(q, K) \/ Free(q, M)
    PROVE  Ahead(q, stage, K, M) /\ JoinAhead(q, stage, K, M)
BY DEF Free, Ahead, JoinAhead

LEMMA JoinFree ==
    ASSUME NEW W, NEW S, NEW q \in [W -> Seq(S)], NEW w \in W, NEW ls \in Seq(S),
           NEW r, r = Joined(q, w, ls), NEW K
    PROVE  Free(r, K) <=> Free(q, K) /\ Without(ls, K)
<1>1. r \in [W -> Seq(S)] /\ AfterJoin(W, q, w, ls, r)
    BY JoinedAt
<1>2. DOMAIN q = W /\ DOMAIN r = W
    BY <1>1
<1>3. ASSUME Free(q, K), Without(ls, K) PROVE Free(r, K)
  <2>1. ASSUME NEW u \in W, NEW i \in 1 .. Len(r[u]) PROVE r[u][i] \notin K
    <3>1. \/ i \in 1 .. Len(q[u]) /\ r[u][i] = q[u][i]
          \/ i - Len(q[w]) \in 1 .. Len(ls) /\ r[u][i] = ls[i - Len(q[w])]
        BY <1>1 DEF AfterJoin
    <3> QED BY <3>1, <1>2, <1>3 DEF Free, Without
  <2> QED BY <2>1, <1>2 DEF Free
<1>4. ASSUME Free(r, K) PROVE Free(q, K)
  <2>1. ASSUME NEW u \in W, NEW i \in 1 .. Len(q[u]) PROVE q[u][i] \notin K
    <3>1. i \in 1 .. Len(r[u]) /\ r[u][i] = q[u][i]
        BY <1>1 DEF AfterJoin
    <3> QED BY <3>1, <1>2, <1>4 DEF Free
  <2> QED BY <2>1, <1>2 DEF Free
<1>5. Free(r, K) => Without(ls, K)
    BY <1>1, <1>2 DEF AfterJoin, Free, Without
<1> QED BY <1>3, <1>4, <1>5

LEMMA JoinSingle ==
    ASSUME NEW W, NEW S, NEW q \in [W -> Seq(S)], NEW w \in W, NEW ls \in Seq(S),
           NEW r, r = Joined(q, w, ls), NEW K
    PROVE  /\ Single(q, K) /\ Without(ls, K) => Single(r, K)
           /\ Free(q, K) /\ Len(ls) = 1 => Single(r, K)
<1>1. r \in [W -> Seq(S)] /\ AfterJoin(W, q, w, ls, r)
    BY JoinedAt
<1>2. DOMAIN q = W /\ DOMAIN r = W
    BY <1>1
<1>3. ASSUME Single(q, K), Without(ls, K) PROVE Single(r, K)
  <2>1. \A u \in W : \A i \in 1 .. Len(r[u]) :
            r[u][i] \in K => i \in 1 .. Len(q[u]) /\ q[u][i] \in K
    <3> SUFFICES ASSUME NEW u \in W, NEW i \in 1 .. Len(r[u]), r[u][i] \in K
                 PROVE  i \in 1 .. Len(q[u]) /\ q[u][i] \in K
        OBVIOUS
    <3>1. \/ i \in 1 .. Len(q[u]) /\ r[u][i] = q[u][i]
          \/ i - Len(q[w]) \in 1 .. Len(ls) /\ r[u][i] = ls[i - Len(q[w])]
        BY <1>1 DEF AfterJoin
    <3> QED BY <3>1, <1>3 DEF Without
  <2> QED BY <1>2, <1>3, <2>1 DEF Single
<1>4. ASSUME Free(q, K), Len(ls) = 1 PROVE Single(r, K)
  <2>1. \A u \in W : \A i \in 1 .. Len(r[u]) :
            r[u][i] \in K => u = w /\ i - Len(q[w]) = 1 /\ i \in Int /\ Len(q[w]) \in Int
      BY <1>1, <1>2, <1>4 DEF AfterJoin, Free
  <2>2. \A i, j, n \in Int : i - n = 1 /\ j - n = 1 => i = j
      OBVIOUS
  <2> QED BY <1>2, <2>1, <2>2 DEF Single
<1> QED BY <1>3, <1>4

(* Several join, at most one of K. *)
LEMMA JoinOnce ==
    ASSUME NEW W, NEW S, NEW q \in [W -> Seq(S)], NEW w \in W, NEW ls \in Seq(S),
           NEW r, r = Joined(q, w, ls), NEW K, Free(q, K),
           \A i, j \in 1 .. Len(ls) : ls[i] \in K /\ ls[j] \in K => i = j
    PROVE  Single(r, K)
<1>1. r \in [W -> Seq(S)] /\ AfterJoin(W, q, w, ls, r)
    BY JoinedAt
<1>2. DOMAIN q = W /\ DOMAIN r = W
    BY <1>1
<1>3. Len(q[w]) \in Nat
    BY <1>1 DEF AfterJoin
<1>4. ASSUME NEW u \in W, NEW i \in 1 .. Len(r[u]), r[u][i] \in K
      PROVE  /\ u = w /\ i \in Int /\ i - Len(q[w]) \in 1 .. Len(ls)
             /\ ls[i - Len(q[w])] \in K
  <2>1. \/ i \in 1 .. Len(q[u]) /\ r[u][i] = q[u][i]
        \/ u = w /\ i - Len(q[w]) \in 1 .. Len(ls) /\ r[u][i] = ls[i - Len(q[w])]
      BY <1>1 DEF AfterJoin
  <2>2. i \in Int
      OBVIOUS
  <2> QED BY <2>1, <2>2, <1>2, <1>4 DEF Free
<1>5. ASSUME NEW u \in W, NEW t \in W, NEW i \in 1 .. Len(r[u]), NEW j \in 1 .. Len(r[t]),
             r[u][i] \in K, r[t][j] \in K
      PROVE  u = t /\ i = j
  <2>1. u = w /\ t = w /\ i \in Int /\ j \in Int
      BY <1>4, <1>5
  <2>2. i - Len(q[w]) = j - Len(q[w])
      BY <1>4, <1>5
  <2> QED BY <2>1, <2>2, <1>3
<1> QED BY <1>2, <1>5 DEF Single

LEMMA JoinOrder ==
    ASSUME NEW W, NEW S, NEW q \in [W -> Seq(S)], NEW w \in W, NEW ls \in Seq(S),
           NEW r, r = Joined(q, w, ls), NEW stage \in [W -> Nat], stage[w] = 1,
           \A u \in W : stage[u] >= 1, NEW K, NEW M
    PROVE  /\ Ahead(q, stage, K, M) /\ Without(ls, K) /\ Without(ls, M)
              => Ahead(r, stage, K, M)
           /\ Ahead(q, stage, K, M) /\ Without(ls, K) /\ JoinAt(q, stage, K, w)
              => Ahead(r, stage, K, M)
           /\ /\ Free(q, K) /\ Free(q, M)
              /\ \A i, j \in 1 .. Len(ls) : ls[i] \in K /\ ls[j] \in M => i < j
              => Ahead(r, stage, K, M)
<1>1. r \in [W -> Seq(S)] /\ AfterJoin(W, q, w, ls, r)
    BY JoinedAt
<1>2. DOMAIN q = W /\ DOMAIN r = W
    BY <1>1
<1> DEFINE Known == \/ Ahead(q, stage, K, M) /\ Without(ls, K) /\ Without(ls, M)
                    \/ Ahead(q, stage, K, M) /\ Without(ls, K) /\ JoinAt(q, stage, K, w)
                    \/ /\ Free(q, K) /\ Free(q, M)
                       /\ \A x, y \in 1 .. Len(ls) : ls[x] \in K /\ ls[y] \in M => x < y
<1> SUFFICES ASSUME Known PROVE Ahead(r, stage, K, M)
    OBVIOUS
<1> SUFFICES ASSUME NEW u \in W, NEW t \in W, NEW i \in 1 .. Len(r[u]),
                    NEW j \in 1 .. Len(r[t]), r[u][i] \in K, r[t][j] \in M
             PROVE  stage[u] > stage[t] \/ (u = t /\ i < j)
    BY <1>2 DEF Ahead
<1> DEFINE n == Len(q[w])
<1>3. /\ \/ i \in 1 .. Len(q[u]) /\ q[u][i] \in K
         \/ u = w /\ i > n /\ i - n \in 1 .. Len(ls) /\ ls[i - n] \in K
      /\ \/ j \in 1 .. Len(q[t]) /\ q[t][j] \in M
         \/ t = w /\ j > n /\ j - n \in 1 .. Len(ls) /\ ls[j - n] \in M
      /\ n \in Nat /\ i \in Int /\ j \in Int
  <2> HIDE DEF Known
  <2>1. \/ i \in 1 .. Len(q[u]) /\ r[u][i] = q[u][i]
        \/ u = w /\ i > n /\ i - n \in 1 .. Len(ls) /\ r[u][i] = ls[i - n]
      BY <1>1 DEF AfterJoin
  <2>2. \/ j \in 1 .. Len(q[t]) /\ r[t][j] = q[t][j]
        \/ t = w /\ j > n /\ j - n \in 1 .. Len(ls) /\ r[t][j] = ls[j - n]
      BY <1>1 DEF AfterJoin
  <2>3. n \in Nat /\ i \in Int /\ j \in Int
      BY <1>1 DEF AfterJoin
  <2> QED BY <2>1, <2>2, <2>3
<1>4. u = w /\ i \in 1 .. Len(q[u]) => i <= n
    BY <1>3
<1>5. stage[u] \in Nat /\ stage[u] >= 1
    OBVIOUS
<1> HIDE DEF n
<1>6. CASE i \in 1 .. Len(q[u]) /\ q[u][i] \in K
  <2>1. ~Free(q, K)
      BY <1>6, <1>2 DEF Free
  <2>2. CASE j \in 1 .. Len(q[t]) /\ q[t][j] \in M
    <3>1. ~Free(q, M)
        BY <2>2, <1>2 DEF Free
    <3>2. Ahead(q, stage, K, M) => stage[u] > stage[t] \/ (u = t /\ i < j)
        BY <1>6, <2>2, <1>2 DEF Ahead
    <3> QED BY <2>1, <3>1, <3>2
  <2>3. CASE t = w /\ j > n /\ j - n \in 1 .. Len(ls) /\ ls[j - n] \in M
    <3>1. ~Without(ls, M)
        BY <2>3 DEF Without
    <3>2. JoinAt(q, stage, K, w) => stage[u] > 1 \/ u = w
        BY <1>6, <1>2, <1>5 DEF JoinAt
    <3>3. u = w => i < j
        BY <2>3, <1>3, <1>4, <1>6
    <3> QED BY <2>1, <2>3, <3>1, <3>2, <3>3
  <2> QED BY <2>2, <2>3, <1>3
<1>7. CASE u = w /\ i > n /\ i - n \in 1 .. Len(ls) /\ ls[i - n] \in K
  <2>1. ~Without(ls, K)
      BY <1>7 DEF Without
  <2>2. CASE j \in 1 .. Len(q[t]) /\ q[t][j] \in M
    <3>1. ~Free(q, M)
        BY <2>2, <1>2 DEF Free
    <3> QED BY <2>1, <3>1
  <2>3. CASE t = w /\ j > n /\ j - n \in 1 .. Len(ls) /\ ls[j - n] \in M
    <3>1. ~Without(ls, M)
        BY <2>3 DEF Without
    <3>2. i - n < j - n => i < j
        BY <1>3
    <3>3. (\A x, y \in 1 .. Len(ls) : ls[x] \in K /\ ls[y] \in M => x < y) => i - n < j - n
        BY <1>7, <2>3
    <3> QED BY <2>1, <1>7, <2>3, <3>1, <3>2, <3>3
  <2> QED BY <2>2, <2>3, <1>3
<1> QED BY <1>3, <1>6, <1>7

LEMMA JoinJoinAt ==
    ASSUME NEW W, NEW S, NEW q \in [W -> Seq(S)], NEW w \in W, NEW ls \in Seq(S),
           NEW r, r = Joined(q, w, ls), NEW stage, NEW K, NEW u,
           JoinAt(q, stage, K, u), w = u \/ Without(ls, K)
    PROVE  JoinAt(r, stage, K, u)
<1>1. r \in [W -> Seq(S)] /\ AfterJoin(W, q, w, ls, r)
    BY JoinedAt
<1>2. DOMAIN q = W /\ DOMAIN r = W
    BY <1>1
<1>3. ASSUME NEW t \in W, NEW i \in 1 .. Len(r[t]), stage[t] = 1, r[t][i] \in K
      PROVE  t = u
  <2>1. \/ i \in 1 .. Len(q[t]) /\ r[t][i] = q[t][i]
        \/ t = w /\ i - Len(q[w]) \in 1 .. Len(ls) /\ r[t][i] = ls[i - Len(q[w])]
      BY <1>1 DEF AfterJoin
  <2> QED BY <2>1, <1>2, <1>3 DEF JoinAt, Without
<1> QED BY <1>2, <1>3 DEF JoinAt

LEMMA JoinJoinAhead ==
    ASSUME NEW W, NEW S, NEW q \in [W -> Seq(S)], NEW w \in W, NEW ls \in Seq(S),
           NEW r, r = Joined(q, w, ls), NEW stage, NEW K, NEW M,
           JoinAhead(q, stage, K, M), Without(ls, K),
           Without(ls, M) \/ JoinAt(q, stage, K, w)
    PROVE  JoinAhead(r, stage, K, M)
<1>1. r \in [W -> Seq(S)] /\ AfterJoin(W, q, w, ls, r)
    BY JoinedAt
<1>2. DOMAIN q = W /\ DOMAIN r = W
    BY <1>1
<1> SUFFICES ASSUME NEW u \in W, NEW t \in W, NEW i \in 1 .. Len(r[u]),
                    NEW j \in 1 .. Len(r[t]), stage[u] = 1, r[u][i] \in K, r[t][j] \in M
             PROVE  u = t /\ i < j
    BY <1>2 DEF JoinAhead
<1> DEFINE n == Len(q[w])
<1>3. /\ \/ i \in 1 .. Len(q[u]) /\ q[u][i] \in K
         \/ u = w /\ i > n /\ i - n \in 1 .. Len(ls) /\ ls[i - n] \in K
      /\ \/ j \in 1 .. Len(q[t]) /\ q[t][j] \in M
         \/ t = w /\ j > n /\ j - n \in 1 .. Len(ls) /\ ls[j - n] \in M
      /\ n \in Nat /\ i \in Int /\ j \in Int
  <2>1. \/ i \in 1 .. Len(q[u]) /\ r[u][i] = q[u][i]
        \/ u = w /\ i > n /\ i - n \in 1 .. Len(ls) /\ r[u][i] = ls[i - n]
      BY <1>1 DEF AfterJoin
  <2>2. \/ j \in 1 .. Len(q[t]) /\ r[t][j] = q[t][j]
        \/ t = w /\ j > n /\ j - n \in 1 .. Len(ls) /\ r[t][j] = ls[j - n]
      BY <1>1 DEF AfterJoin
  <2>3. n \in Nat /\ i \in Int /\ j \in Int
      BY <1>1 DEF AfterJoin
  <2> QED BY <2>1, <2>2, <2>3
<1>4. u = w /\ i \in 1 .. Len(q[u]) => i <= n
    BY <1>3
<1> HIDE DEF n
<1>5. i \in 1 .. Len(q[u]) /\ q[u][i] \in K
    BY <1>3 DEF Without
<1>6. CASE j \in 1 .. Len(q[t]) /\ q[t][j] \in M
    BY <1>5, <1>6, <1>2 DEF JoinAhead
<1>7. CASE t = w /\ j > n /\ j - n \in 1 .. Len(ls) /\ ls[j - n] \in M
  <2>1. JoinAt(q, stage, K, w)
      BY <1>7 DEF Without
  <2>2. u = w
      BY <2>1, <1>2, <1>5 DEF JoinAt
  <2> QED BY <2>2, <1>3, <1>4, <1>5, <1>7
<1> QED BY <1>3, <1>6, <1>7

-----------------------------------------------------------------------------
(* The first letter of a queue moves on. *)

LEMMA MoveFree ==
    ASSUME NEW W, NEW S, NEW q \in [W -> Seq(S)], NEW v \in W, NEW w \in W, v # w,
           q[v] # <<>>, NEW r, r = Moved(q, v, w), NEW K
    PROVE  Free(r, K) <=> Free(q, K)
<1>1. r \in [W -> Seq(S)] /\ AfterMove(W, q, v, w, r)
    BY MovedAt
<1>2. DOMAIN q = W /\ DOMAIN r = W
    BY <1>1
<1>3. ASSUME Free(q, K) PROVE Free(r, K)
  <2>1. ASSUME NEW u \in W, NEW i \in 1 .. Len(r[u]) PROVE r[u][i] \notin K
    <3> DEFINE k == IF u = v THEN i + 1 ELSE i
    <3>1. \/ r[u][i] = q[v][1] /\ 1 \in 1 .. Len(q[v])
          \/ k \in 1 .. Len(q[u]) /\ r[u][i] = q[u][k]
        BY <1>1 DEF AfterMove
    <3> HIDE DEF k
    <3> QED BY <3>1, <1>2, <1>3 DEF Free
  <2> QED BY <2>1, <1>2 DEF Free
<1>4. ASSUME Free(r, K) PROVE Free(q, K)
  <2>1. ASSUME NEW u \in W, NEW k \in 1 .. Len(q[u]) PROVE q[u][k] \notin K
    <3> DEFINE i == IF u = v THEN k - 1 ELSE k
               n == Len(q[w]) + 1
    <3>1. CASE u = v /\ k = 1
      <4>1. n \in 1 .. Len(r[w]) /\ r[w][n] = q[u][k]
          BY <3>1, <1>1 DEF AfterMove
      <4> HIDE DEF n
      <4> QED BY <4>1, <1>2, <1>4 DEF Free
    <3>2. CASE ~(u = v /\ k = 1)
      <4>1. i \in 1 .. Len(r[u]) /\ r[u][i] = q[u][k]
          BY <3>2, <1>1 DEF AfterMove
      <4> HIDE DEF i
      <4> QED BY <4>1, <1>2, <1>4 DEF Free
    <3> QED BY <3>1, <3>2
  <2> QED BY <2>1, <1>2 DEF Free
<1> QED BY <1>3, <1>4

LEMMA MoveSingle ==
    ASSUME NEW W, NEW S, NEW q \in [W -> Seq(S)], NEW v \in W, NEW w \in W, v # w,
           q[v] # <<>>, NEW r, r = Moved(q, v, w), NEW K, Single(q, K)
    PROVE  Single(r, K)
<1> DEFINE k(u, i) == IF u = v THEN i + 1 ELSE i
           new(u, i) == u = w /\ i = Len(q[w]) + 1
<1>1. r \in [W -> Seq(S)] /\ AfterMove(W, q, v, w, r)
    BY MovedAt
<1>2. DOMAIN q = W /\ DOMAIN r = W
    BY <1>1
<1>3. \A u \in W : \A i \in 1 .. Len(r[u]) :
          /\ i \in Int
          /\ new(u, i) => r[u][i] = q[v][1]
          /\ ~new(u, i) => k(u, i) \in 1 .. Len(q[u]) /\ r[u][i] = q[u][k(u, i)]
    BY <1>1 DEF AfterMove
<1>4. \A u \in W : \A i \in 1 .. Len(r[u]) : u = v => k(u, i) # 1
    OBVIOUS
<1>5. \A u \in W : \A i, j \in Int : k(u, i) = k(u, j) => i = j
    OBVIOUS
<1>6. 1 \in 1 .. Len(q[v])
    BY <1>1 DEF AfterMove
<1>7. \A u, t \in W : \A i, j \in Int : new(u, i) /\ new(t, j) => u = t /\ i = j
    OBVIOUS
<1> HIDE DEF k, new
<1>8. ASSUME NEW u \in W, NEW t \in W, NEW i \in 1 .. Len(r[u]), NEW j \in 1 .. Len(r[t]),
             r[u][i] \in K, r[t][j] \in K
      PROVE  u = t /\ i = j
  <2>1. CASE new(u, i) /\ new(t, j)
      BY <2>1, <1>3, <1>7
  <2>2. CASE ~new(u, i) /\ ~new(t, j)
    <3>1. /\ k(u, i) \in 1 .. Len(q[u]) /\ q[u][k(u, i)] \in K
          /\ k(t, j) \in 1 .. Len(q[t]) /\ q[t][k(t, j)] \in K
        BY <2>2, <1>3, <1>8
    <3>2. u = t /\ k(u, i) = k(t, j)
        BY <3>1, <1>2 DEF Single
    <3> QED BY <3>2, <1>3, <1>5
  <2>3. ASSUME NEW x \in W, NEW y \in W, NEW n \in 1 .. Len(r[x]), NEW m \in 1 .. Len(r[y]),
               new(x, n), ~new(y, m), r[x][n] \in K, r[y][m] \in K
        PROVE  FALSE
    <3>1. k(y, m) \in 1 .. Len(q[y]) /\ q[y][k(y, m)] \in K
        BY <2>3, <1>3
    <3>2. q[v][1] \in K
        BY <2>3, <1>3
    <3>3. y = v /\ k(y, m) = 1
        BY <3>1, <3>2, <1>2, <1>6 DEF Single
    <3> QED BY <3>3, <1>4
  <2>4. ~(new(u, i) /\ ~new(t, j)) /\ ~(~new(u, i) /\ new(t, j))
      BY <2>3, <1>8
  <2> QED BY <2>1, <2>2, <2>4
<1> QED BY <1>2, <1>8 DEF Single

(* A letter that moves on joins those of its kind that are as far: they    *)
(* are all in the queue it joins.                                          *)
Gathered(q, stage, w, K) ==
    \A u \in DOMAIN q : \A i \in 1 .. Len(q[u]) :
        stage[u] = stage[w] /\ q[u][i] \in K => u = w

LEMMA MoveOrder ==
    ASSUME NEW W, NEW S, NEW q \in [W -> Seq(S)], NEW v \in W, NEW w \in W, v # w,
           q[v] # <<>>, NEW r, r = Moved(q, v, w),
           NEW stage \in [W -> Nat], stage[w] = stage[v] + 1, NEW K, NEW M,
           Ahead(q, stage, K, M), Head(q[v]) \in M => Gathered(q, stage, w, K)
    PROVE  Ahead(r, stage, K, M)
<1> DEFINE k(u, i) == IF u = v THEN i + 1 ELSE i
           new(u, i) == u = w /\ i = Len(q[w]) + 1
<1>1. r \in [W -> Seq(S)] /\ AfterMove(W, q, v, w, r)
    BY MovedAt
<1>2. DOMAIN q = W /\ DOMAIN r = W
    BY <1>1
<1>3. \A u \in W : \A i \in 1 .. Len(r[u]) :
          /\ i \in Int
          /\ new(u, i) => u = w /\ r[u][i] = q[v][1]
          /\ ~new(u, i) => k(u, i) \in 1 .. Len(q[u]) /\ r[u][i] = q[u][k(u, i)]
    BY <1>1 DEF AfterMove
<1>4. \A i \in 1 .. Len(r[v]) : k(v, i) > 1
    OBVIOUS
<1>5. \A u \in W : \A i, j \in Int : k(u, i) < k(u, j) => i < j
    OBVIOUS
<1>6. 1 \in 1 .. Len(q[v]) /\ Head(q[v]) = q[v][1]
    BY <1>1 DEF AfterMove
<1>7. \A i, j \in 1 .. Len(r[w]) : ~new(w, i) /\ new(w, j) => i < j
  <2> SUFFICES ASSUME NEW i \in 1 .. Len(r[w]), NEW j \in 1 .. Len(r[w]),
                      ~new(w, i), new(w, j)
               PROVE  i < j
      OBVIOUS
  <2>1. i \in 1 .. Len(q[w]) /\ Len(q[w]) \in Nat
      BY <1>3
  <2> QED BY <2>1
<1>8. \A u \in W : stage[u] \in Nat
    OBVIOUS
<1> HIDE DEF k, new
<1> SUFFICES \A u \in W, t \in W : \A i \in 1 .. Len(r[u]), j \in 1 .. Len(r[t]) :
                 r[u][i] \in K /\ r[t][j] \in M => stage[u] > stage[t] \/ (u = t /\ i < j)
    BY <1>2, Zenon DEF Ahead
<1> SUFFICES ASSUME NEW u \in W, NEW t \in W, NEW i \in 1 .. Len(r[u]),
                    NEW j \in 1 .. Len(r[t]), r[u][i] \in K, r[t][j] \in M
             PROVE  stage[u] > stage[t] \/ (u = t /\ i < j)
    OBVIOUS
<1>9. CASE ~new(u, i) /\ ~new(t, j)
  <2>1. /\ k(u, i) \in 1 .. Len(q[u]) /\ q[u][k(u, i)] \in K
        /\ k(t, j) \in 1 .. Len(q[t]) /\ q[t][k(t, j)] \in M
      BY <1>9, <1>3
  <2>2. stage[u] > stage[t] \/ (u = t /\ k(u, i) < k(t, j))
      BY <2>1, <1>2 DEF Ahead
  <2> QED BY <2>2, <1>3, <1>5
<1>10. CASE new(u, i) /\ ~new(t, j)
  <2>1. /\ q[v][1] \in K /\ u = w
        /\ k(t, j) \in 1 .. Len(q[t]) /\ q[t][k(t, j)] \in M
      BY <1>10, <1>3
  <2>2. stage[v] > stage[t] \/ v = t
      BY <2>1, <1>2, <1>6 DEF Ahead
  <2> QED BY <2>1, <2>2, <1>8
<1>11. CASE ~new(u, i) /\ new(t, j)
  <2>1. /\ q[v][1] \in M /\ t = w
        /\ k(u, i) \in 1 .. Len(q[u]) /\ q[u][k(u, i)] \in K
      BY <1>11, <1>3
  <2>2. stage[u] > stage[v] \/ (u = v /\ k(u, i) < 1)
      BY <2>1, <1>2, <1>6 DEF Ahead
  <2>3. ~(u = v /\ k(u, i) < 1)
      BY <2>1
  <2>4. stage[u] > stage[w] \/ stage[u] = stage[w]
      BY <2>2, <2>3, <1>8
  <2>5. stage[u] = stage[w] => u = w
      BY <2>1, <1>2, <1>6 DEF Gathered
  <2> QED BY <2>1, <2>4, <2>5, <1>7, <1>11
<1>12. CASE new(u, i) /\ new(t, j)
  <2>1. q[v][1] \in K /\ q[v][1] \in M
      BY <1>12, <1>3
  <2>2. stage[v] > stage[v] \/ 1 < 1
      BY <2>1, <1>2, <1>6 DEF Ahead
  <2> QED BY <2>2, <1>8
<1> QED BY <1>9, <1>10, <1>11, <1>12

LEMMA MoveJoinAt ==
    ASSUME NEW W, NEW S, NEW q \in [W -> Seq(S)], NEW v \in W, NEW w \in W, v # w,
           q[v] # <<>>, NEW r, r = Moved(q, v, w), NEW stage, stage[w] # 1,
           NEW K, NEW u, JoinAt(q, stage, K, u)
    PROVE  JoinAt(r, stage, K, u)
<1>1. r \in [W -> Seq(S)] /\ AfterMove(W, q, v, w, r)
    BY MovedAt
<1>2. DOMAIN q = W /\ DOMAIN r = W
    BY <1>1
<1>3. ASSUME NEW t \in W, NEW i \in 1 .. Len(r[t]), stage[t] = 1, r[t][i] \in K
      PROVE  t = u
  <2> DEFINE k == IF t = v THEN i + 1 ELSE i
  <2>1. t = w \/ (k \in 1 .. Len(q[t]) /\ r[t][i] = q[t][k])
      BY <1>1 DEF AfterMove
  <2> HIDE DEF k
  <2> QED BY <2>1, <1>2, <1>3 DEF JoinAt
<1> QED BY <1>2, <1>3 DEF JoinAt

LEMMA MoveJoinAhead ==
    ASSUME NEW W, NEW S, NEW q \in [W -> Seq(S)], NEW v \in W, NEW w \in W, v # w,
           q[v] # <<>>, NEW r, r = Moved(q, v, w), NEW stage, stage[w] # 1,
           NEW K, NEW M, JoinAhead(q, stage, K, M)
    PROVE  JoinAhead(r, stage, K, M)
<1> DEFINE k(u, i) == IF u = v THEN i + 1 ELSE i
           new(u, i) == u = w /\ i = Len(q[w]) + 1
<1>1. r \in [W -> Seq(S)] /\ AfterMove(W, q, v, w, r)
    BY MovedAt
<1>2. DOMAIN q = W /\ DOMAIN r = W
    BY <1>1
<1>3. \A u \in W : \A i \in 1 .. Len(r[u]) :
          /\ i \in Int
          /\ new(u, i) => u = w /\ r[u][i] = q[v][1]
          /\ ~new(u, i) => k(u, i) \in 1 .. Len(q[u]) /\ r[u][i] = q[u][k(u, i)]
    BY <1>1 DEF AfterMove
<1>4. \A i \in 1 .. Len(r[v]) : k(v, i) > 1
    OBVIOUS
<1>5. \A u \in W : \A i, j \in Int : k(u, i) < k(u, j) => i < j
    OBVIOUS
<1>6. 1 \in 1 .. Len(q[v])
    BY <1>1 DEF AfterMove
<1> SUFFICES ASSUME NEW u \in W, NEW t \in W, NEW i \in 1 .. Len(r[u]), NEW j \in 1 .. Len(r[t]),
                    stage[u] = 1, r[u][i] \in K, r[t][j] \in M
             PROVE  u = t /\ i < j
    BY <1>2 DEF JoinAhead
<1> HIDE DEF k, new
<1>7. k(u, i) \in 1 .. Len(q[u]) /\ q[u][k(u, i)] \in K
    BY <1>3
<1>8. CASE ~new(t, j)
  <2>1. k(t, j) \in 1 .. Len(q[t]) /\ q[t][k(t, j)] \in M
      BY <1>8, <1>3
  <2>2. u = t /\ k(u, i) < k(t, j)
      BY <2>1, <1>2, <1>7 DEF JoinAhead
  <2> QED BY <2>2, <1>3, <1>5
<1>9. CASE new(t, j)
  <2>1. q[v][1] \in M
      BY <1>9, <1>3
  <2>2. u = v /\ k(u, i) < 1
      BY <2>1, <1>2, <1>6, <1>7 DEF JoinAhead
  <2> QED BY <2>2, <1>7
<1> QED BY <1>8, <1>9
-----------------------------------------------------------------------------
(* The letters of X are at the same places in q and in r: what joined is   *)
(* not of X.                                                               *)
Same(q, r, X) ==
    /\ DOMAIN r = DOMAIN q
    /\ \A w \in DOMAIN q :
          /\ \A i \in 1 .. Len(r[w]) :
                 r[w][i] \in X => i \in 1 .. Len(q[w]) /\ q[w][i] = r[w][i]
          /\ \A i \in 1 .. Len(q[w]) :
                 q[w][i] \in X => i \in 1 .. Len(r[w]) /\ r[w][i] = q[w][i]

LEMMA JoinSame ==
    ASSUME NEW W, NEW S, NEW q \in [W -> Seq(S)], NEW w \in W, NEW ls \in Seq(S),
           NEW r, r = Joined(q, w, ls), NEW X, Without(ls, X)
    PROVE  r \in [W -> Seq(S)] /\ Same(q, r, X)
<1>1. r \in [W -> Seq(S)] /\ AfterJoin(W, q, w, ls, r)
    BY JoinedAt
<1>2. DOMAIN q = W /\ DOMAIN r = W
    BY <1>1
<1>3. ASSUME NEW u \in W, NEW i \in 1 .. Len(r[u]), r[u][i] \in X
      PROVE  i \in 1 .. Len(q[u]) /\ q[u][i] = r[u][i]
    BY <1>1, <1>3 DEF AfterJoin, Without
<1>4. ASSUME NEW u \in W, NEW i \in 1 .. Len(q[u])
      PROVE  i \in 1 .. Len(r[u]) /\ r[u][i] = q[u][i]
    BY <1>1 DEF AfterJoin
<1> QED BY <1>1, <1>2, <1>3, <1>4 DEF Same

LEMMA SameTrans ==
    ASSUME NEW q, NEW r, NEW t, NEW X, Same(q, r, X), Same(r, t, X)
    PROVE  Same(q, t, X)
BY DEF Same

LEMMA SameBack ==
    ASSUME NEW q, NEW r, NEW X, Same(q, r, X)
    PROVE  Same(r, q, X)
BY DEF Same

LEMMA SameSelf == ASSUME NEW q, NEW X PROVE Same(q, q, X)
BY DEF Same

LEMMA SameFree ==
    ASSUME NEW q, NEW r, NEW X, Same(q, r, X), NEW K \in SUBSET X
    PROVE  Free(r, K) <=> Free(q, K)
BY DEF Same, Free

LEMMA SameSingle ==
    ASSUME NEW q, NEW r, NEW X, Same(q, r, X), NEW K \in SUBSET X, Single(q, K)
    PROVE  Single(r, K)
<1> SUFFICES ASSUME NEW v \in DOMAIN r, NEW w \in DOMAIN r, NEW i \in 1 .. Len(r[v]),
                    NEW j \in 1 .. Len(r[w]), r[v][i] \in K, r[w][j] \in K
             PROVE  v = w /\ i = j
    BY DEF Single
<1>1. /\ v \in DOMAIN q /\ i \in 1 .. Len(q[v]) /\ q[v][i] \in K
      /\ w \in DOMAIN q /\ j \in 1 .. Len(q[w]) /\ q[w][j] \in K
    BY DEF Same
<1> QED BY <1>1 DEF Single

LEMMA SameOrder ==
    ASSUME NEW q, NEW r, NEW X, Same(q, r, X), NEW stage, NEW K \in SUBSET X,
           NEW M \in SUBSET X
    PROVE  /\ Ahead(q, stage, K, M) => Ahead(r, stage, K, M)
           /\ JoinAhead(q, stage, K, M) => JoinAhead(r, stage, K, M)
<1>1. ASSUME NEW v \in DOMAIN r, NEW i \in 1 .. Len(r[v]), r[v][i] \in X
      PROVE  v \in DOMAIN q /\ i \in 1 .. Len(q[v]) /\ q[v][i] = r[v][i]
    BY <1>1 DEF Same
<1>2. ASSUME Ahead(q, stage, K, M), NEW v \in DOMAIN r, NEW w \in DOMAIN r,
             NEW i \in 1 .. Len(r[v]), NEW j \in 1 .. Len(r[w]),
             r[v][i] \in K, r[w][j] \in M
      PROVE  stage[v] > stage[w] \/ (v = w /\ i < j)
  <2>1. /\ v \in DOMAIN q /\ i \in 1 .. Len(q[v]) /\ q[v][i] \in K
        /\ w \in DOMAIN q /\ j \in 1 .. Len(q[w]) /\ q[w][j] \in M
      BY <1>1, <1>2
  <2> QED BY <2>1, <1>2 DEF Ahead
<1>3. ASSUME JoinAhead(q, stage, K, M), NEW v \in DOMAIN r, NEW w \in DOMAIN r,
             NEW i \in 1 .. Len(r[v]), NEW j \in 1 .. Len(r[w]),
             stage[v] = 1, r[v][i] \in K, r[w][j] \in M
      PROVE  v = w /\ i < j
  <2>1. /\ v \in DOMAIN q /\ i \in 1 .. Len(q[v]) /\ q[v][i] \in K
        /\ w \in DOMAIN q /\ j \in 1 .. Len(q[w]) /\ q[w][j] \in M
      BY <1>1, <1>3
  <2> QED BY <2>1, <1>3 DEF JoinAhead
<1> QED BY <1>2, <1>3 DEF Ahead, JoinAhead

LEMMA SameJoinAt ==
    ASSUME NEW q, NEW r, NEW X, Same(q, r, X), NEW stage, NEW K \in SUBSET X,
           NEW u, JoinAt(q, stage, K, u)
    PROVE  JoinAt(r, stage, K, u)
BY DEF Same, JoinAt

-----------------------------------------------------------------------------
(* Smaller kinds. *)
LEMMA FreePart ==
    ASSUME NEW q, NEW K, NEW M, Free(q, M), \A l \in K : l \in M
    PROVE  Free(q, K)
BY DEF Free

LEMMA JoinAtPart ==
    ASSUME NEW q, NEW stage, NEW K, NEW M, NEW u, JoinAt(q, stage, M, u),
           \A l \in K : l \in M
    PROVE  JoinAt(q, stage, K, u)
BY DEF JoinAt

LEMMA FreeJoinAt ==
    ASSUME NEW q, NEW stage, NEW K, NEW u, Free(q, K)
    PROVE  JoinAt(q, stage, K, u) /\ Single(q, K)
BY DEF Free, JoinAt, Single

(* Letters that were to join before one that is on its way do not join any *)
(* more.                                                                   *)
LEMMA JoinedBefore ==
    ASSUME NEW W, NEW S, NEW q \in [W -> Seq(S)], NEW v \in W, q[v] # <<>>,
           NEW stage, stage[v] # 1, NEW K, NEW M, JoinAhead(q, stage, K, M),
           Head(q[v]) \in M, NEW u
    PROVE  JoinAt(q, stage, K, u)
<1>1. 1 \in 1 .. Len(q[v]) /\ q[v][1] \in M
  <2>1. q[v] \in Seq(S)
      OBVIOUS
  <2> QED BY <2>1
<1>2. ASSUME NEW w \in W, NEW i \in 1 .. Len(q[w]), stage[w] = 1, q[w][i] \in K
      PROVE  w = v
    BY <1>1, <1>2 DEF JoinAhead
<1> QED BY <1>2 DEF JoinAt

=============================================================================
