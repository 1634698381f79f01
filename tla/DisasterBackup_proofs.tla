------------------------ MODULE DisasterBackup_proofs ------------------------
(***************************************************************************)
(* Proofs about DisasterBackup, for any games and gates: its types; that   *)
(* the half a dead game had is rebuilt once and not beside the other half, *)
(* unless the table lets a report through after its deadline; and that no  *)
(* gold is doubled by it, whichever games die and in whatever order.  The  *)
(* parts of the invariant are Inv (who is where, and who knows it) and     *)
(* DupInv (what gold can be counted, in entities, backups and gifts under  *)
(* way).                                                                   *)
(***************************************************************************)
EXTENDS DisasterBackup, LetterQueues, FiniteSetTheorems

-----------------------------------------------------------------------------
(* The queues as one function, and the places in it. *)
Ups == [Games -> [Gates -> Seq(Rpcs)]]
Downs == [Gates -> [Games -> Seq(Rpcs)]]
Bags(u, d) == [w \in Lanes |-> IF w[1] = "up" THEN u[w[2]][w[3]] ELSE d[w[3]][w[2]]]
Mail == Bags(up, down)

Up(g, k) == <<"up", g, k>>
Down(k, g) == <<"down", g, k>>

(* Only a backup that was made can be sent, or restored from.              *)
TypeInv ==
    /\ TypeOK
    /\ \A s \in Halves, g \in Games : ents[s][g].exists =>
          /\ g \in alive
          /\ ents[s][g].other = NoBackup \/ ents[s][g].other.round \in 1 .. rounds

-----------------------------------------------------------------------------
LEMMA LaneFacts ==
    /\ \A g \in Games, k \in Gates :
          /\ Up(g, k) \in Lanes /\ Down(k, g) \in Lanes
          /\ Up(g, k)[1] = "up" /\ Up(g, k)[2] = g /\ Up(g, k)[3] = k
          /\ Down(k, g)[1] = "down" /\ Down(k, g)[2] = g /\ Down(k, g)[3] = k
    /\ \A w \in Lanes :
          /\ w[2] \in Games /\ w[3] \in Gates
          /\ w = Up(w[2], w[3]) \/ w = Down(w[3], w[2])
    /\ \A g, h \in Games, k, j \in Gates : Up(g, k) # Down(j, h)
BY DEF Lanes, Up, Down

LEMMA BagsType ==
    ASSUME NEW u \in Ups, NEW d \in Downs
    PROVE  /\ Bags(u, d) \in [Lanes -> Seq(Rpcs)]
           /\ \A g \in Games, k \in Gates :
                 Bags(u, d)[Up(g, k)] = u[g][k] /\ Bags(u, d)[Down(k, g)] = d[k][g]
<1>1. \A w \in Lanes : u[w[2]][w[3]] \in Seq(Rpcs) /\ d[w[3]][w[2]] \in Seq(Rpcs)
    BY LaneFacts DEF Ups, Downs
<1>2. Bags(u, d) \in [Lanes -> Seq(Rpcs)]
    BY <1>1 DEF Bags
<1>3. \A g \in Games, k \in Gates :
          Bags(u, d)[Up(g, k)] = u[g][k] /\ Bags(u, d)[Down(k, g)] = d[k][g]
    BY LaneFacts DEF Bags
<1> QED BY <1>2, <1>3

(* Two families of queues that agree at every place are the same.          *)
LEMMA BagsAre ==
    ASSUME NEW u \in Ups, NEW d \in Downs, NEW r \in [Lanes -> Seq(Rpcs)],
           \A g \in Games, k \in Gates : u[g][k] = r[Up(g, k)] /\ d[k][g] = r[Down(k, g)]
    PROVE  Bags(u, d) = r
<1>1. \A w \in Lanes : Bags(u, d)[w] = r[w]
  <2> SUFFICES ASSUME NEW w \in Lanes PROVE Bags(u, d)[w] = r[w]
      OBVIOUS
  <2> DEFINE g == w[2]
             k == w[3]
  <2>1. g \in Games /\ k \in Gates /\ (w = Up(g, k) \/ w = Down(k, g))
      BY LaneFacts
  <2> HIDE DEF g, k
  <2>2. /\ Bags(u, d)[Up(g, k)] = u[g][k] /\ Bags(u, d)[Down(k, g)] = d[k][g]
        /\ u[g][k] = r[Up(g, k)] /\ d[k][g] = r[Down(k, g)]
      BY <2>1, BagsType
  <2> QED BY <2>1, <2>2
<1>2. Bags(u, d) \in [Lanes -> Seq(Rpcs)]
    BY BagsType
<1> QED BY <1>1, <1>2

(* An rpc leaves a game, or arrives there. *)
LEMMA Posting ==
    ASSUME NEW u \in Ups, NEW d \in Downs, NEW g \in Games, NEW k \in Gates, NEW m \in Rpcs
    PROVE  /\ Send(u, g, k, m) \in Ups
           /\ Bags(Send(u, g, k, m), d) = Joined(Bags(u, d), Up(g, k), <<m>>)
<1> DEFINE v == Send(u, g, k, m)
           q == Bags(u, d)
           r == Joined(q, Up(g, k), <<m>>)
<1>1. u[g][k] \in Seq(Rpcs) /\ Append(u[g][k], m) \in Seq(Rpcs) /\ <<m>> \in Seq(Rpcs)
    BY DEF Ups
<1>2. /\ v[g][k] = Append(u[g][k], m)
      /\ \A h \in Games, j \in Gates : h # g \/ j # k => v[h][j] = u[h][j]
    BY DEF Send, Ups
<1>3. v \in Ups
    BY <1>1 DEF Send, Ups
<1>4. Append(u[g][k], m) = u[g][k] \o <<m>>
    BY <1>1, AppendIsConcat
<1>5. q \in [Lanes -> Seq(Rpcs)] /\ q[Up(g, k)] = u[g][k]
    BY BagsType
<1> HIDE DEF v
<1>6. r \in [Lanes -> Seq(Rpcs)]
    BY <1>1, <1>5, LaneFacts DEF Joined
<1>7. r[Up(g, k)] = v[g][k]
    BY <1>2, <1>4, <1>5, LaneFacts DEF Joined
<1>8. \A w \in Lanes : w # Up(g, k) => r[w] = q[w]
    BY <1>5 DEF Joined
<1>9. \A h \in Games, j \in Gates : v[h][j] = r[Up(h, j)] /\ d[j][h] = r[Down(j, h)]
  <2> SUFFICES ASSUME NEW h \in Games, NEW j \in Gates
               PROVE  v[h][j] = r[Up(h, j)] /\ d[j][h] = r[Down(j, h)]
      OBVIOUS
  <2> HIDE DEF r, q
  <2>1. q[Up(h, j)] = u[h][j] /\ q[Down(j, h)] = d[j][h]
      BY BagsType DEF q
  <2>2. Down(j, h) # Up(g, k) /\ Up(h, j) \in Lanes /\ Down(j, h) \in Lanes
      BY LaneFacts
  <2>3. d[j][h] = r[Down(j, h)]
      BY <2>1, <2>2, <1>8
  <2>4. CASE h = g /\ j = k
      BY <2>3, <2>4, <1>7
  <2>5. CASE h # g \/ j # k
    <3>1. Up(h, j) # Up(g, k)
        BY <2>5, LaneFacts
    <3> QED BY <3>1, <2>1, <2>2, <2>3, <2>5, <1>2, <1>8
  <2> QED BY <2>4, <2>5
<1> HIDE DEF r, q
<1>10. Bags(v, d) = r
    BY <1>3, <1>6, <1>9, BagsAre
<1> QED BY <1>3, <1>10 DEF v, r, q

DownLess(d, k, g) == [d EXCEPT ![k][g] = Tail(@)]

LEMMA Executing ==
    ASSUME NEW u \in Ups, NEW d \in Downs, NEW g \in Games, NEW k \in Gates, d[k][g] # <<>>
    PROVE  /\ DownLess(d, k, g) \in Downs
           /\ Bags(u, DownLess(d, k, g)) = Taken(Bags(u, d), Down(k, g))
           /\ Bags(u, d)[Down(k, g)] # <<>>
           /\ Head(Bags(u, d)[Down(k, g)]) = Head(d[k][g]) /\ Head(d[k][g]) \in Rpcs
<1> DEFINE e == DownLess(d, k, g)
           q == Bags(u, d)
           r == Taken(q, Down(k, g))
<1>1. d[k][g] \in Seq(Rpcs) /\ Tail(d[k][g]) \in Seq(Rpcs) /\ Head(d[k][g]) \in Rpcs
    BY DEF Downs
<1>2. /\ e[k][g] = Tail(d[k][g])
      /\ \A h \in Games, j \in Gates : h # g \/ j # k => e[j][h] = d[j][h]
    BY DEF Downs, DownLess
<1>3. e \in Downs
    BY <1>1 DEF Downs, DownLess
<1> HIDE DEF e
<1>5. q \in [Lanes -> Seq(Rpcs)] /\ q[Down(k, g)] = d[k][g]
    BY BagsType
<1>6. r \in [Lanes -> Seq(Rpcs)]
    BY <1>1, <1>5, LaneFacts DEF Taken
<1>7. r[Down(k, g)] = e[k][g]
    BY <1>2, <1>5, LaneFacts DEF Taken
<1>8. \A w \in Lanes : w # Down(k, g) => r[w] = q[w]
    BY <1>5 DEF Taken
<1>9. \A h \in Games, j \in Gates : u[h][j] = r[Up(h, j)] /\ e[j][h] = r[Down(j, h)]
  <2> SUFFICES ASSUME NEW h \in Games, NEW j \in Gates
               PROVE  u[h][j] = r[Up(h, j)] /\ e[j][h] = r[Down(j, h)]
      OBVIOUS
  <2> HIDE DEF r, q
  <2>1. q[Up(h, j)] = u[h][j] /\ q[Down(j, h)] = d[j][h]
      BY BagsType DEF q
  <2>2. Up(h, j) # Down(k, g) /\ Up(h, j) \in Lanes /\ Down(j, h) \in Lanes
      BY LaneFacts
  <2>3. u[h][j] = r[Up(h, j)]
      BY <2>1, <2>2, <1>8
  <2>4. CASE h = g /\ j = k
      BY <2>3, <2>4, <1>7
  <2>5. CASE h # g \/ j # k
    <3>1. Down(j, h) # Down(k, g)
        BY <2>5, LaneFacts
    <3> QED BY <3>1, <2>1, <2>2, <2>3, <2>5, <1>2, <1>8
  <2> QED BY <2>4, <2>5
<1> HIDE DEF r, q
<1>10. Bags(u, e) = r
    BY <1>3, <1>6, <1>9, BagsAre
<1> QED BY <1>1, <1>3, <1>5, <1>10 DEF e, r, q

(* A gate passes an rpc on, or drops it. *)
UpLess(u, g, k) == [u EXCEPT ![g][k] = Tail(@)]

LEMMA Dropping ==
    ASSUME NEW u \in Ups, NEW d \in Downs, NEW g \in Games, NEW k \in Gates, u[g][k] # <<>>
    PROVE  /\ UpLess(u, g, k) \in Ups
           /\ Bags(UpLess(u, g, k), d) = Taken(Bags(u, d), Up(g, k))
           /\ Bags(u, d)[Up(g, k)] # <<>>
           /\ Head(Bags(u, d)[Up(g, k)]) = Head(u[g][k]) /\ Head(u[g][k]) \in Rpcs
<1> DEFINE v == UpLess(u, g, k)
           q == Bags(u, d)
           r == Taken(q, Up(g, k))
<1>1. u[g][k] \in Seq(Rpcs) /\ Tail(u[g][k]) \in Seq(Rpcs) /\ Head(u[g][k]) \in Rpcs
    BY DEF Ups
<1>2. /\ v[g][k] = Tail(u[g][k])
      /\ \A h \in Games, j \in Gates : h # g \/ j # k => v[h][j] = u[h][j]
    BY DEF Ups, UpLess
<1>3. v \in Ups
    BY <1>1 DEF Ups, UpLess
<1> HIDE DEF v
<1>5. q \in [Lanes -> Seq(Rpcs)] /\ q[Up(g, k)] = u[g][k]
    BY BagsType
<1>6. r \in [Lanes -> Seq(Rpcs)]
    BY <1>1, <1>5, LaneFacts DEF Taken
<1>7. r[Up(g, k)] = v[g][k]
    BY <1>2, <1>5, LaneFacts DEF Taken
<1>8. \A w \in Lanes : w # Up(g, k) => r[w] = q[w]
    BY <1>5 DEF Taken
<1>9. \A h \in Games, j \in Gates : v[h][j] = r[Up(h, j)] /\ d[j][h] = r[Down(j, h)]
  <2> SUFFICES ASSUME NEW h \in Games, NEW j \in Gates
               PROVE  v[h][j] = r[Up(h, j)] /\ d[j][h] = r[Down(j, h)]
      OBVIOUS
  <2> HIDE DEF r, q
  <2>1. q[Up(h, j)] = u[h][j] /\ q[Down(j, h)] = d[j][h]
      BY BagsType DEF q
  <2>2. Down(j, h) # Up(g, k) /\ Up(h, j) \in Lanes /\ Down(j, h) \in Lanes
      BY LaneFacts
  <2>3. d[j][h] = r[Down(j, h)]
      BY <2>1, <2>2, <1>8
  <2>4. CASE h = g /\ j = k
      BY <2>3, <2>4, <1>7
  <2>5. CASE h # g \/ j # k
    <3>1. Up(h, j) # Up(g, k)
        BY <2>5, LaneFacts
    <3> QED BY <3>1, <2>1, <2>2, <2>3, <2>5, <1>2, <1>8
  <2> QED BY <2>4, <2>5
<1> HIDE DEF r, q
<1>10. Bags(v, d) = r
    BY <1>3, <1>6, <1>9, BagsAre
<1> QED BY <1>1, <1>3, <1>5, <1>10 DEF v, r, q

DownMore(d, k, g, m) == [d EXCEPT ![k][g] = Append(@, m)]

LEMMA Arriving ==
    ASSUME NEW u \in Ups, NEW d \in Downs, NEW g \in Games, NEW k \in Gates, NEW m \in Rpcs
    PROVE  /\ DownMore(d, k, g, m) \in Downs
           /\ Bags(u, DownMore(d, k, g, m)) = Joined(Bags(u, d), Down(k, g), <<m>>)
<1> DEFINE e == DownMore(d, k, g, m)
           q == Bags(u, d)
           r == Joined(q, Down(k, g), <<m>>)
<1>1. d[k][g] \in Seq(Rpcs) /\ Append(d[k][g], m) \in Seq(Rpcs) /\ <<m>> \in Seq(Rpcs)
    BY DEF Downs
<1>2. /\ e[k][g] = Append(d[k][g], m)
      /\ \A h \in Games, j \in Gates : h # g \/ j # k => e[j][h] = d[j][h]
    BY DEF Downs, DownMore
<1>3. e \in Downs
    BY <1>1 DEF Downs, DownMore
<1> HIDE DEF e
<1>4. Append(d[k][g], m) = d[k][g] \o <<m>>
    BY <1>1, AppendIsConcat
<1>5. q \in [Lanes -> Seq(Rpcs)] /\ q[Down(k, g)] = d[k][g]
    BY BagsType
<1>6. r \in [Lanes -> Seq(Rpcs)]
    BY <1>1, <1>5, LaneFacts DEF Joined
<1>7. r[Down(k, g)] = e[k][g]
    BY <1>2, <1>4, <1>5, LaneFacts DEF Joined
<1>8. \A w \in Lanes : w # Down(k, g) => r[w] = q[w]
    BY <1>5 DEF Joined
<1>9. \A h \in Games, j \in Gates : u[h][j] = r[Up(h, j)] /\ e[j][h] = r[Down(j, h)]
  <2> SUFFICES ASSUME NEW h \in Games, NEW j \in Gates
               PROVE  u[h][j] = r[Up(h, j)] /\ e[j][h] = r[Down(j, h)]
      OBVIOUS
  <2> HIDE DEF r, q
  <2>1. q[Up(h, j)] = u[h][j] /\ q[Down(j, h)] = d[j][h]
      BY BagsType DEF q
  <2>2. Up(h, j) # Down(k, g) /\ Up(h, j) \in Lanes /\ Down(j, h) \in Lanes
      BY LaneFacts
  <2>3. u[h][j] = r[Up(h, j)]
      BY <2>1, <2>2, <1>8
  <2>4. CASE h = g /\ j = k
      BY <2>3, <2>4, <1>7
  <2>5. CASE h # g \/ j # k
    <3>1. Down(j, h) # Down(k, g)
        BY <2>5, LaneFacts
    <3> QED BY <3>1, <2>1, <2>2, <2>3, <2>5, <1>2, <1>8
  <2> QED BY <2>4, <2>5
<1> HIDE DEF r, q
<1>10. Bags(u, e) = r
    BY <1>3, <1>6, <1>9, BagsAre
<1> QED BY <1>1, <1>3, <1>10 DEF e, r, q

(* What is left of queue w is its beginning. *)
Cut(q, r) ==
    /\ r \in [Lanes -> Seq(Rpcs)]
    /\ \A w \in Lanes : \A i \in 1 .. Len(r[w]) : i \in 1 .. Len(q[w]) /\ r[w][i] = q[w][i]

LEMMA Dying ==
    ASSUME TypeInv, NEW g \in Games, Die(g), NEW q, q = Mail
    PROVE  /\ up' \in Ups /\ down' \in Downs /\ Cut(q, Mail')
           /\ \A h \in Games, k \in Gates : h # g => up'[h][k] = up[h][k] /\ down'[k][h] = down[k][h]
           /\ \A k \in Gates : down'[k][g] = <<>>
<1>1. up \in Ups /\ down \in Downs
    BY DEF TypeInv, TypeOK, Ups, Downs
<1>2. PICK kept \in [Gates -> UNION {0 .. Len(up[g][k]) : k \in Gates}] :
          /\ \A k \in Gates : kept[k] <= Len(up[g][k])
          /\ up' = [up EXCEPT ![g] = [k \in Gates |-> SubSeq(@[k], 1, kept[k])]]
    BY DEF Die
<1>3. down' = [k \in Gates |-> [down[k] EXCEPT ![g] = <<>>]]
    BY DEF Die
<1>4. \A k \in Gates : kept[k] \in Nat /\ kept[k] <= Len(up[g][k])
  <2> SUFFICES ASSUME NEW k \in Gates PROVE kept[k] \in Nat
      BY <1>2
  <2>1. kept[k] \in UNION {0 .. Len(up[g][j]) : j \in Gates}
      BY <1>2
  <2>2. \A j \in Gates : Len(up[g][j]) \in Nat
      BY <1>1 DEF Ups
  <2> QED BY <2>1, <2>2
<1>5. \A k \in Gates :
          /\ SubSeq(up[g][k], 1, kept[k]) \in Seq(Rpcs)
          /\ Len(SubSeq(up[g][k], 1, kept[k])) = kept[k]
          /\ \A i \in 1 .. kept[k] : /\ i \in 1 .. Len(up[g][k])
                                     /\ SubSeq(up[g][k], 1, kept[k])[i] = up[g][k][i]
  <2> SUFFICES ASSUME NEW k \in Gates
               PROVE  /\ SubSeq(up[g][k], 1, kept[k]) \in Seq(Rpcs)
                      /\ Len(SubSeq(up[g][k], 1, kept[k])) = kept[k]
                      /\ \A i \in 1 .. kept[k] :
                            /\ i \in 1 .. Len(up[g][k])
                            /\ SubSeq(up[g][k], 1, kept[k])[i] = up[g][k][i]
      OBVIOUS
  <2> DEFINE x == up[g][k]
             n == kept[k]
  <2>1. x \in Seq(Rpcs) /\ n \in Nat /\ n <= Len(x)
      BY <1>1, <1>4 DEF Ups
  <2> HIDE DEF x, n
  <2>2. /\ SubSeq(x, 1, n) \in Seq(Rpcs) /\ Len(SubSeq(x, 1, n)) = n
        /\ \A i \in 1 .. n : i \in 1 .. Len(x) /\ SubSeq(x, 1, n)[i] = x[i]
      BY <2>1
  <2> QED BY <2>2 DEF x, n
<1>6. /\ \A k \in Gates : up'[g][k] = SubSeq(up[g][k], 1, kept[k])
      /\ \A h \in Games, k \in Gates : h # g => up'[h][k] = up[h][k]
      /\ DOMAIN up' = Games /\ \A h \in Games : DOMAIN up'[h] = Gates
    BY <1>1, <1>2 DEF Ups
<1>7. up' \in Ups
    BY <1>1, <1>2, <1>5 DEF Ups
<1>8. /\ down' \in Downs /\ \A k \in Gates : down'[k][g] = <<>>
      /\ \A h \in Games, k \in Gates : h # g => down'[k][h] = down[k][h]
    BY <1>1, <1>3 DEF Downs
<1>9. Mail' \in [Lanes -> Seq(Rpcs)]
    BY <1>7, <1>8, BagsType DEF Mail
<1>10. ASSUME NEW w \in Lanes, NEW i \in 1 .. Len(Mail'[w])
       PROVE  i \in 1 .. Len(q[w]) /\ Mail'[w][i] = q[w][i]
  <2> DEFINE h == w[2]
             k == w[3]
  <2>1. h \in Games /\ k \in Gates /\ (w = Up(h, k) \/ w = Down(k, h))
      BY LaneFacts
  <2> HIDE DEF h, k
  <2>2. /\ q[Up(h, k)] = up[h][k] /\ q[Down(k, h)] = down[k][h]
        /\ Mail'[Up(h, k)] = up'[h][k] /\ Mail'[Down(k, h)] = down'[k][h]
      BY <2>1, <1>1, <1>7, <1>8, BagsType DEF Mail
  <2>3. CASE w = Up(h, k)
    <3>1. CASE h = g
      <4>1. Mail'[w] = SubSeq(up[g][k], 1, kept[k]) /\ q[w] = up[g][k]
          BY <3>1, <2>1, <2>2, <2>3, <1>6
      <4>2. i \in 1 .. kept[k]
          BY <4>1, <2>1, <1>5, <1>10
      <4> QED BY <4>1, <4>2, <2>1, <1>5
    <3>2. CASE h # g
        BY <3>2, <2>1, <2>2, <2>3, <1>6, <1>10
    <3> QED BY <3>1, <3>2
  <2>4. CASE w = Down(k, h)
    <3>1. CASE h = g
      <4>1. Mail'[w] = <<>>
          BY <3>1, <2>1, <2>2, <2>4, <1>8
      <4> QED BY <4>1, <1>10
    <3>2. CASE h # g
        BY <3>2, <2>1, <2>2, <2>4, <1>8, <1>10
    <3> QED BY <3>1, <3>2
  <2> QED BY <2>1, <2>3, <2>4
<1> QED BY <1>6, <1>7, <1>8, <1>9, <1>10 DEF Cut

LEMMA MailType ==
    ASSUME TypeInv
    PROVE  /\ up \in Ups /\ down \in Downs /\ Mail \in [Lanes -> Seq(Rpcs)]
           /\ \A w \in Lanes : Queue(w) = Mail[w]
<1>1. up \in Ups /\ down \in Downs
    BY DEF TypeInv, TypeOK, Ups, Downs
<1>2. \A w \in Lanes : Queue(w) = Mail[w]
    BY DEF Queue, Mail, Bags
<1> QED BY <1>1, <1>2, BagsType DEF Mail

-----------------------------------------------------------------------------
(* Types. *)
Backed == {"backup", "recover", "recovered"}
Bad(n) == {m \in Rpcs : m.kind \in Backed /\ m.bk.round \notin 1 .. n}

EntOK(e, n) ==
    e \in Entities /\ (e.other = NoBackup \/ e.other.round \in 1 .. n)
EntsOK ==
    /\ ents \in [Halves -> [Games -> Entities \cup {None}]]
    /\ \A s \in Halves, g \in Games :
          ents[s][g].exists => g \in alive /\ EntOK(ents[s][g], rounds)

Plain ==
    /\ alive \subseteq Games
    /\ handled \in [Games -> [Games -> Deadlines]]
    /\ known \in [Gates -> SUBSET Games] /\ reading \in [Gates -> SUBSET Games]
    /\ again \in [Games -> SUBSET Games]
    /\ rounds \in Nat /\ gifts \in Nat /\ timed \in Nat /\ fails \in Nat
    /\ unheld \in BOOLEAN /\ uneven \in BOOLEAN /\ late \in BOOLEAN

QueuesOK == up \in Ups /\ down \in Downs /\ Free(Mail, Bad(rounds))

LEMMA HalfFacts ==
    /\ "base" \in Halves /\ "cell" \in Halves
    /\ \A s \in Halves : /\ Other(s) \in Halves /\ Other(s) # s /\ Other(Other(s)) = s
                         /\ \A t \in Halves : t = s \/ t = Other(s)
    /\ Other("base") = "cell" /\ Other("cell") = "base"
BY DEF Halves, Other

LEMMA Existing ==
    ASSUME NEW e \in Entities \cup {None}
    PROVE  e.exists <=> e \in Entities
<1>1. CASE e \in Entities
  <2>1. e.exists = TRUE
      BY <1>1 DEF Entities
  <2> QED BY <2>1, <1>1
<1>2. CASE e = None
  <2>1. e.exists = FALSE
      BY <1>2 DEF None
  <2>2. e \in Entities => e.exists = TRUE
      BY DEF Entities
  <2> QED BY <2>1, <2>2
<1> QED BY <1>1, <1>2

LEMMA TypeSplit == TypeInv <=> EntsOK /\ Plain /\ QueuesOK
<1>1. ASSUME up \in Ups, down \in Downs
      PROVE  (\A m \in UnderWay : m.kind \in Backed => m.bk.round \in 1 .. rounds)
                <=> Free(Mail, Bad(rounds))
  <2>1. Mail \in [Lanes -> Seq(Rpcs)] /\ DOMAIN Mail = Lanes
      BY <1>1, BagsType DEF Mail
  <2>2. \A w \in Lanes : Queue(w) = Mail[w] /\ DOMAIN Queue(w) = 1 .. Len(Mail[w])
    <3> SUFFICES ASSUME NEW w \in Lanes
                 PROVE  Queue(w) = Mail[w] /\ DOMAIN Queue(w) = 1 .. Len(Mail[w])
        OBVIOUS
    <3>1. Queue(w) = Mail[w]
        BY DEF Queue, Mail, Bags
    <3> QED BY <3>1, <2>1
  <2>3. \A m : m \in UnderWay <=> \E w \in Lanes : \E i \in 1 .. Len(Mail[w]) : m = Mail[w][i]
      BY <2>2 DEF UnderWay
  <2>4. \A w \in Lanes : \A i \in 1 .. Len(Mail[w]) : Mail[w][i] \in Rpcs
      BY <2>1
  <2> QED BY <2>1, <2>3, <2>4 DEF Free, Bad
<1>2. TypeOK <=> /\ ents \in [Halves -> [Games -> Entities \cup {None}]]
                 /\ Plain /\ up \in Ups /\ down \in Downs
                 /\ \A m \in UnderWay : m.kind \in Backed => m.bk.round \in 1 .. rounds
    BY DEF TypeOK, Plain, Ups, Downs, Backed
<1>3. ASSUME ents \in [Halves -> [Games -> Entities \cup {None}]]
      PROVE  \A s \in Halves, g \in Games : ents[s][g].exists <=> ents[s][g] \in Entities
    BY <1>3, Existing
<1> QED BY <1>1, <1>2, <1>3 DEF TypeInv, EntsOK, EntOK, QueuesOK

(* An entity changes, or comes, or goes. *)
LEMMA PuttingOK ==
    ASSUME EntsOK, Plain, NEW s \in Halves, NEW g \in Games, NEW e,
           ents' = [ents EXCEPT ![s][g] = e], alive' = alive,
           rounds' \in Nat, rounds' >= rounds,
           e = None \/ (g \in alive /\ EntOK(e, rounds'))
    PROVE  EntsOK'
<1>1. e \in Entities \cup {None}
    BY DEF EntOK
<1>2. /\ ents'[s][g] = e
      /\ \A t \in Halves, h \in Games : ~(t = s /\ h = g) => ents'[t][h] = ents[t][h]
      /\ ents' \in [Halves -> [Games -> Entities \cup {None}]]
  <2>1. ents \in [Halves -> [Games -> Entities \cup {None}]]
      BY DEF EntsOK
  <2> QED BY <1>1, <2>1
<1>3. rounds \in Nat
    BY DEF Plain
<1> SUFFICES ASSUME NEW t \in Halves, NEW h \in Games, ents'[t][h].exists
             PROVE  h \in alive' /\ EntOK(ents'[t][h], rounds')
    BY <1>2 DEF EntsOK
<1>4. CASE t = s /\ h = g
    BY <1>4, <1>2 DEF None
<1>5. CASE ~(t = s /\ h = g)
  <2>1. h \in alive /\ EntOK(ents[t][h], rounds) /\ ents'[t][h] = ents[t][h]
      BY <1>5, <1>2 DEF EntsOK
  <2> QED BY <2>1, <1>3 DEF EntOK
<1> QED BY <1>4, <1>5

LEMMA SameEnts ==
    ASSUME EntsOK, ents' = ents, alive' = alive, rounds \in Nat,
           rounds' \in Nat, rounds' >= rounds
    PROVE  EntsOK'
<1> SUFFICES ASSUME NEW t \in Halves, NEW h \in Games, ents[t][h].exists
             PROVE  h \in alive' /\ EntOK(ents[t][h], rounds')
    BY DEF EntsOK
<1>1. h \in alive /\ EntOK(ents[t][h], rounds)
    BY DEF EntsOK
<1> QED BY <1>1 DEF EntOK

LEMMA BackupFacts ==
    /\ NoBackup \in Backups
    /\ \A n, i \in Nat : [gold |-> n, round |-> i] \in Backups
BY DEF NoBackup, Backups

LEMMA MakeRpc ==
    ASSUME NEW kind \in Kinds, NEW s \in Halves, NEW a \in Games, NEW g \in Games,
           NEW b \in Backups
    PROVE  /\ Rpc(kind, s, a, g, b) \in Rpcs
           /\ Rpc(kind, s, a, g, b).kind = kind /\ Rpc(kind, s, a, g, b).half = s
           /\ Rpc(kind, s, a, g, b).addr = a /\ Rpc(kind, s, a, g, b).from = g
           /\ Rpc(kind, s, a, g, b).bk = b
BY DEF Rpc, Rpcs

(* The rpcs of a recovery: orders to rebuild half s, those of them that are *)
(* not from game g; and words to half s in game g that the other half is    *)
(* rebuilt, those of them that are from h, and those that are not.          *)
Talk == {m \in Rpcs : m.kind \in {"recover", "recovered"}}
Ords == {m \in Rpcs : m.kind = "recover"}
Ord(s) == {m \in Ords : m.half = s}
Strange(s, g) == {m \in Ord(s) : m.from # g}
Words == {m \in Rpcs : m.kind = "recovered"}
Word(s, g) == {m \in Words : m.half = s /\ m.addr = g}
WordFrom(s, g, h) == {m \in Word(s, g) : m.from = h}
Foreign(s, g, h) == {m \in Word(s, g) : m.from # h}

(* Rpcs are where their senders and receivers are. *)
PlacedAt(w, m) ==
    /\ w[1] = "up" => m.from = w[2] /\ m.kind # "disappear"
    /\ w[1] = "down" /\ m.kind \in {"gift", "backup", "recovered"} => m.addr = w[2]
Placed(q) == \A w \in DOMAIN q : \A i \in 1 .. Len(q[w]) : PlacedAt(w, q[w][i])

(* What a gate sends to game g while those of A run: only deaths have been  *)
(* reported, and an order has not been given by g, unless g is alone.       *)
GoodAt(g, m, A) ==
    /\ m.kind = "disappear" => m.addr \notin A
    /\ m.kind = "recover" => m.from # g \/ A \subseteq {g}

(* Game g has dealt with the death of a.                                    *)
Marked(g, a) == handled[g][a] # "none" \/ a \in again[g]

(* The gates know the games that run, and only deaths are reported and are  *)
(* dealt with.                                                              *)
ReportInv ==
    /\ \A k \in Gates : alive \subseteq known[k]
    /\ \A k \in Gates, g \in Games : \A i \in 1 .. Len(down[k][g]) :
          GoodAt(g, down[k][g][i], alive)
    /\ \A g, a \in Games : Marked(g, a) => a \notin alive

(* Game g will not react to the death of a without being found out: its     *)
(* deadline is ahead, or it has reacted since the deadline passed.          *)
Settled(g, a) ==
    \/ handled[g][a] = "ahead"
    \/ handled[g][a] = "passed" /\ a \in again[g]

Addr(s, g) == ents[s][g].addr

(* A half is in one game at most, and not in that of the other one while    *)
(* there are others.                                                        *)
OneHalf ==
    /\ \A s \in Halves, g, h \in Games : Has(s, g) /\ Has(s, h) => g = h
    /\ \A s \in Halves, g \in Games :
          Has(s, g) /\ Has(Other(s), g) => alive \subseteq {g}

(* There is at most one order; its half does not exist, and if the other    *)
(* one does, it has given the order.                                        *)
OrderInv ==
    /\ Single(Mail, Ords)
    /\ \A s \in Halves : ~Free(Mail, Ord(s)) => \A g \in Games : ~Has(s, g)
    /\ \A s \in Halves, g \in Games : Has(Other(s), g) => Free(Mail, Strange(s, g))

(* A half that has the wrong address of the other one is about to learn the *)
(* right one.                                                               *)
LinkInv ==
    \A s \in Halves, g, h \in Games :
       Has(s, g) /\ Has(Other(s), h) /\ Addr(s, g) # h => ~Free(Mail, WordFrom(s, g, h))

(* While a half is to learn it, nothing is being rebuilt, it exists nowhere *)
(* else and the other half has its right address.                           *)
WordInv ==
    \A s \in Halves, g \in alive : ~Free(Mail, Word(s, g)) =>
       /\ Free(Mail, Ords) /\ Single(Mail, Word(s, g))
       /\ \A x \in Games : Has(s, x) => x = g
       /\ \A x \in Games : Has(Other(s), x) =>
             /\ Addr(Other(s), x) = g /\ Free(Mail, Word(Other(s), x))
             /\ Free(Mail, Foreign(s, g, x))

(* During a recovery the half that is left does not react once more. *)
SettledInv ==
    \A s \in Halves, g \in Games :
       Has(s, g) /\ (~Free(Mail, Ord(Other(s))) \/ ~Free(Mail, Word(s, g))) =>
          Settled(g, Addr(s, g))

CoreInv == OneHalf /\ OrderInv /\ LinkInv /\ WordInv /\ SettledInv
Inv == Placed(Mail) /\ ReportInv /\ (~unheld => CoreInv)

LEMMA OneRpc ==
    ASSUME NEW m \in Rpcs
    PROVE  <<m>> \in Seq(Rpcs) /\ Len(<<m>>) = 1 /\ \A K : Without(<<m>>, K) <=> m \notin K
BY DEF Without

(* Sending an rpc that is not in K. *)
LEMMA PostFree ==
    ASSUME NEW u \in Ups, NEW d \in Downs, NEW g \in Games, NEW k \in Gates, NEW m \in Rpcs,
           NEW K
    PROVE  Free(Bags(Send(u, g, k, m), d), K) <=> Free(Bags(u, d), K) /\ m \notin K
<1> DEFINE q == Bags(u, d)
           r == Bags(Send(u, g, k, m), d)
           w == Up(g, k)
<1>1. q \in [Lanes -> Seq(Rpcs)] /\ w \in Lanes /\ r = Joined(q, w, <<m>>)
    BY BagsType, LaneFacts, Posting
<1>2. <<m>> \in Seq(Rpcs) /\ (Without(<<m>>, K) <=> m \notin K)
    BY OneRpc
<1> HIDE DEF q, r, w
<1>3. Free(r, K) <=> Free(q, K) /\ Without(<<m>>, K)
    BY <1>1, <1>2, JoinFree
<1> QED BY <1>2, <1>3 DEF q, r

LEMMA BadMore ==
    ASSUME NEW q, NEW n \in Nat, NEW i \in Nat, n <= i, Free(q, Bad(n))
    PROVE  Free(q, Bad(i))
<1>1. \A m \in Bad(i) : m \in Bad(n)
    BY DEF Bad
<1> QED BY <1>1, FreePart

LEMMA SameQueues ==
    ASSUME QueuesOK, Plain, UNCHANGED <<up, down>>, rounds' \in Nat, rounds <= rounds'
    PROVE  QueuesOK' /\ Mail' = Mail
<1>1. Free(Mail, Bad(rounds)) /\ rounds \in Nat /\ Mail' = Mail
    BY DEF QueuesOK, Plain, Mail
<1>2. Free(Mail, Bad(rounds'))
    BY <1>1, BadMore
<1> QED BY <1>1, <1>2 DEF QueuesOK

(* Where a half is and whom it knows. *)
Unmoved == \A s \in Halves, g \in Games :
               /\ Has(s, g)' => Has(s, g)
               /\ Has(s, g)' => Addr(s, g)' = Addr(s, g)

(* An entity e replaces one that exists, in the same place.                *)
LEMMA PutUnmoved ==
    ASSUME EntsOK, NEW s \in Halves, NEW g \in Games, NEW e,
           ents' = [ents EXCEPT ![s][g] = e], alive' = alive,
           e = None \/ (Has(s, g) /\ e.addr = Addr(s, g))
    PROVE  Unmoved
<1>1. /\ ents'[s][g] = e
      /\ \A t \in Halves, h \in Games : ~(t = s /\ h = g) => ents'[t][h] = ents[t][h]
  <2>1. ents \in [Halves -> [Games -> Entities \cup {None}]]
      BY DEF EntsOK
  <2> QED BY <2>1
<1> SUFFICES ASSUME NEW t \in Halves, NEW h \in Games, Has(t, h)'
             PROVE  Has(t, h) /\ Addr(t, h)' = Addr(t, h)
    BY DEF Unmoved
<1>2. CASE t = s /\ h = g
    BY <1>1, <1>2 DEF Has, Addr, None
<1>3. CASE ~(t = s /\ h = g)
    BY <1>1, <1>3 DEF Has, Addr
<1> QED BY <1>2, <1>3

LEMMA PutAt ==
    ASSUME EntsOK, NEW s \in Halves, NEW g \in Games, NEW e,
           ents' = [ents EXCEPT ![s][g] = e]
    PROVE  ents'[s][g] = e
BY DEF EntsOK

LEMMA EntityFacts ==
    ASSUME EntsOK, Plain, NEW s \in Halves, NEW g \in Games, Has(s, g)
    PROVE  /\ ents[s][g] \in Entities /\ g \in alive
           /\ Addr(s, g) = ents[s][g].addr /\ Addr(s, g) \in Games
           /\ ents[s][g].gold \in Nat /\ ents[s][g].self \in Backups
           /\ ents[s][g].other \in Backups
           /\ ents[s][g].other = NoBackup \/ ents[s][g].other.round \in 1 .. rounds
<1>1. EntOK(ents[s][g], rounds) /\ g \in alive
    BY DEF EntsOK, Has
<1> QED BY <1>1 DEF EntOK, Addr, Entities

(* A call of the other half joins the queue to the gate of its mailbox.    *)
Called(q, r, kind, s, g, a, b) ==
    \E k \in Gates, m \in Rpcs :
       /\ m.kind = kind /\ m.half = Other(s) /\ m.addr = a /\ m.from = g /\ m.bk = b
       /\ k = ents'[s][g].gate /\ r = Joined(q, Up(g, k), <<m>>)

LEMMA Calling ==
    ASSUME NEW u \in Ups, NEW d \in Downs, NEW n, Free(Bags(u, d), Bad(n)),
           NEW kind \in Kinds, NEW s \in Halves, NEW g \in Games, NEW e \in Entities,
           NEW b \in Backups, kind \in Backed => b.round \in 1 .. n,
           ents'[s][g].gate = e.gate
    PROVE  /\ Call(u, kind, s, g, e, b) \in Ups
           /\ Free(Bags(Call(u, kind, s, g, e, b), d), Bad(n))
           /\ Called(Bags(u, d), Bags(Call(u, kind, s, g, e, b), d), kind, s, g, e.addr, b)
<1> DEFINE k == e.gate
           a == e.addr
           m == Rpc(kind, Other(s), a, g, b)
<1>1. k \in Gates /\ k = ents'[s][g].gate /\ a \in Games /\ a = e.addr
    BY DEF Entities
<1>2. Other(s) \in Halves
    BY HalfFacts
<1>3. /\ m \in Rpcs /\ m.kind = kind /\ m.half = Other(s) /\ m.addr = a /\ m.from = g
      /\ m.bk = b
    BY <1>1, <1>2, MakeRpc
<1>4. Call(u, kind, s, g, e, b) = Send(u, g, k, m)
    BY DEF Call
<1> HIDE DEF k, m, a
<1>5. m \notin Bad(n)
    BY <1>3 DEF Bad
<1>6. Free(Bags(Send(u, g, k, m), d), Bad(n))
    BY <1>1, <1>3, <1>5, PostFree
<1>7. /\ Send(u, g, k, m) \in Ups
      /\ Bags(Send(u, g, k, m), d) = Joined(Bags(u, d), Up(g, k), <<m>>)
    BY <1>1, <1>3, Posting
<1> QED BY <1>1, <1>3, <1>4, <1>6, <1>7 DEF Called

-----------------------------------------------------------------------------
(* What each step does to the halves and to the queues. *)

LEMMA GiveDoes ==
    ASSUME TypeInv, NEW s \in Halves, NEW g \in Games, Give(s, g)
    PROVE  /\ TypeInv' /\ Unmoved
           /\ Called(Mail, Mail', "gift", s, g, Addr(s, g), NoBackup)
<1>1. EntsOK /\ Plain /\ QueuesOK
    BY TypeSplit
<1> DEFINE a == Addr(s, g)
           e == [ents[s][g] EXCEPT !.gold = @ - 1]
<1>2. Has(s, g) /\ ents[s][g].gold > 0 /\ ents[s][g] \in Entities /\ g \in alive
      /\ a = ents[s][g].addr /\ a \in Games /\ ents[s][g].gold \in Nat
    BY <1>1, EntityFacts DEF Give
<1>3. /\ UNCHANGED <<alive, handled, again, unheld, down, known, reading, rounds, timed, fails, uneven, late>>
      /\ gifts' = gifts + 1
      /\ up' = Call(up, "gift", s, g, ents[s][g], NoBackup)
    BY <1>2 DEF Give, ghostVars, heldVars, gateVars, boundVars
<1>4. ents' = [ents EXCEPT ![s][g] = e]
    BY <1>1 DEF Give, EntsOK
<1>5. EntOK(e, rounds) /\ e.addr = a /\ e.gate = ents[s][g].gate
  <2>1. EntOK(ents[s][g], rounds) /\ ents[s][g].gold - 1 \in Nat
      BY <1>1, <1>2 DEF EntsOK, Has
  <2> QED BY <2>1, <1>2 DEF EntOK, Entities
<1> HIDE DEF e, a
<1>6. rounds \in Nat /\ rounds' \in Nat /\ rounds' = rounds /\ alive' = alive
    BY <1>1, <1>3 DEF Plain
<1>7. EntsOK'
  <2>1. rounds' >= rounds /\ EntOK(e, rounds')
      BY <1>5, <1>6
  <2> QED BY <2>1, <1>1, <1>2, <1>4, <1>6, PuttingOK
<1>8. Unmoved
    BY <1>1, <1>2, <1>3, <1>4, <1>5, PutUnmoved DEF a
<1>9. Plain'
    BY <1>1, <1>3 DEF Plain
<1>10. QueuesOK' /\ Called(Mail, Mail', "gift", s, g, a, NoBackup)
  <2>1. up \in Ups /\ down \in Downs /\ Free(Bags(up, down), Bad(rounds))
      BY <1>1 DEF QueuesOK, Mail
  <2>2. "gift" \in Kinds /\ "gift" \notin Backed /\ NoBackup \in Backups
      BY BackupFacts DEF Kinds, Backed
  <2>4. ents'[s][g].gate = ents[s][g].gate
      BY <1>1, <1>4, <1>5, PutAt
  <2>3. /\ up' \in Ups /\ Free(Bags(up', down), Bad(rounds))
        /\ Called(Bags(up, down), Bags(up', down), "gift", s, g, a, NoBackup)
      BY <2>1, <2>2, <2>4, <1>2, <1>3, Calling
  <2> QED BY <2>1, <2>3, <1>3 DEF QueuesOK, Mail
<1>11. TypeInv'
    BY <1>7, <1>9, <1>10, TypeSplit, PTL
<1> QED BY <1>8, <1>10, <1>11 DEF a

(* The base makes its backup and sends it. *)
LEMMA BackedUpFacts ==
    ASSUME Plain, NEW e \in Entities
    PROVE  /\ BackedUp(e) \in Entities /\ BackedUp(e).addr = e.addr
           /\ BackedUp(e).gate = e.gate
           /\ BackedUp(e).other = e.other /\ BackedUp(e).gold = e.gold
           /\ BackedUp(e).self \in Backups /\ BackedUp(e).self.round = rounds + 1
           /\ BackedUp(e).self = [gold |-> e.gold, round |-> rounds + 1]
           /\ rounds + 1 \in Nat /\ rounds + 1 \in 1 .. rounds + 1
           /\ \A q, g : SendBackup(q, g, e)
                           = Call(q, "backup", "base", g, e, BackedUp(e).self)
<1>1. rounds \in Nat
    BY DEF Plain
<1>2. \A q, g : SendBackup(q, g, e) = Call(q, "backup", "base", g, e, BackedUp(e).self)
    BY DEF SendBackup
<1>3. /\ BackedUp(e) \in Entities /\ BackedUp(e).addr = e.addr /\ BackedUp(e).gate = e.gate
      /\ BackedUp(e).other = e.other /\ BackedUp(e).gold = e.gold
      /\ BackedUp(e).self \in Backups /\ BackedUp(e).self.round = rounds + 1
      /\ BackedUp(e).self = [gold |-> e.gold, round |-> rounds + 1]
  <2> DEFINE b == [gold |-> e.gold, round |-> rounds + 1]
  <2>1. e.gold \in Nat /\ rounds + 1 \in Nat
      BY <1>1 DEF Entities
  <2>2. b \in Backups /\ b.round = rounds + 1
      BY <2>1, BackupFacts
  <2>3. BackedUp(e) = [e EXCEPT !.self = b]
      BY DEF BackedUp
  <2>4. b = [gold |-> e.gold, round |-> rounds + 1]
      OBVIOUS
  <2> HIDE DEF b
  <2>5. /\ BackedUp(e) \in Entities /\ BackedUp(e).addr = e.addr /\ BackedUp(e).gate = e.gate
        /\ BackedUp(e).other = e.other /\ BackedUp(e).gold = e.gold
        /\ BackedUp(e).self = b
      BY <2>2, <2>3 DEF Entities
  <2> QED BY <2>2, <2>4, <2>5
<1> QED BY <1>1, <1>2, <1>3

LEMMA TimeToDisasterBackupDoes ==
    ASSUME TypeInv, NEW g \in Games, TimeToDisasterBackup(g)
    PROVE  /\ TypeInv' /\ Unmoved
           /\ Called(Mail, Mail', "backup", "base", g, Addr("base", g),
                     [gold |-> ents["base"][g].gold, round |-> rounds + 1])
<1>1. EntsOK /\ Plain /\ QueuesOK
    BY TypeSplit
<1> DEFINE s == "base"
           a == Addr(s, g)
           e == BackedUp(ents[s][g])
<1>2. Has(s, g) /\ s \in Halves /\ ents[s][g] \in Entities /\ g \in alive
      /\ a = ents[s][g].addr /\ a \in Games
      /\ (ents[s][g].other = NoBackup \/ ents[s][g].other.round \in 1 .. rounds)
    BY <1>1, EntityFacts, HalfFacts DEF TimeToDisasterBackup
<1>3. /\ UNCHANGED <<alive, handled, again, unheld, down, known, reading, gifts, fails, uneven, late>>
      /\ rounds' = rounds + 1 /\ timed' = timed + 1
      /\ up' = Call(up, "backup", s, g, ents[s][g], e.self)
  <2>1. SendBackup(up, g, ents[s][g]) = Call(up, "backup", s, g, ents[s][g], e.self)
      BY <1>2 DEF SendBackup
  <2> QED BY <2>1 DEF TimeToDisasterBackup, ghostVars, heldVars, gateVars, boundVars
<1>4. ents' = [ents EXCEPT ![s][g] = e]
    BY <1>1 DEF TimeToDisasterBackup, EntsOK
<1>5. /\ e \in Entities /\ e.addr = a /\ e.other = ents[s][g].other
      /\ e.gate = ents[s][g].gate
      /\ e.self \in Backups /\ e.self.round \in 1 .. rounds'
      /\ e.self = [gold |-> ents["base"][g].gold, round |-> rounds + 1]
  <2> DEFINE f == ents[s][g]
  <2>1. f \in Entities /\ e = BackedUp(f) /\ f.addr = a /\ f = ents["base"][g]
      BY <1>2
  <2> HIDE DEF e, f, a
  <2>2. /\ e \in Entities /\ e.addr = a /\ e.other = f.other /\ e.gate = f.gate
        /\ e.self \in Backups /\ e.self.round \in 1 .. rounds'
        /\ e.self = [gold |-> f.gold, round |-> rounds + 1]
      BY <1>1, <1>3, <2>1, BackedUpFacts
  <2> QED BY <2>1, <2>2 DEF f
<1> HIDE DEF e, a
<1>6. rounds \in Nat /\ rounds' \in Nat /\ rounds' >= rounds /\ alive' = alive
    BY <1>1, <1>3 DEF Plain
<1>7. EntsOK'
  <2>1. EntOK(e, rounds')
      BY <1>2, <1>5, <1>6 DEF EntOK
  <2> HIDE DEF s
  <2> QED BY <2>1, <1>1, <1>2, <1>4, <1>6, PuttingOK
<1>8. Unmoved
    BY <1>1, <1>2, <1>3, <1>4, <1>5, PutUnmoved DEF a
<1>9. Plain'
    BY <1>1, <1>3 DEF Plain
<1>10. QueuesOK' /\ Called(Mail, Mail', "backup", s, g, a, e.self)
  <2>1. up \in Ups /\ down \in Downs /\ Free(Bags(up, down), Bad(rounds))
      BY <1>1 DEF QueuesOK, Mail
  <2>2. "backup" \in Kinds
      BY DEF Kinds
  <2>3. Free(Bags(up, down), Bad(rounds'))
    <3>1. rounds <= rounds'
        BY <1>6
    <3> QED BY <3>1, <2>1, <1>6, BadMore
  <2>4. /\ up' \in Ups /\ Free(Bags(up', down), Bad(rounds'))
        /\ Called(Bags(up, down), Bags(up', down), "backup", s, g, a, e.self)
    <3>1. ents'[s][g].gate = ents[s][g].gate
        BY <1>1, <1>2, <1>4, <1>5, PutAt
    <3> HIDE DEF s
    <3> QED BY <3>1, <2>1, <2>2, <2>3, <1>2, <1>3, <1>5, Calling
  <2> QED BY <2>1, <2>4, <1>3 DEF QueuesOK, Mail
<1>11. TypeInv'
    BY <1>7, <1>9, <1>10, TypeSplit, PTL
<1> QED BY <1>5, <1>8, <1>10, <1>11 DEF a

LEMMA LoseTouchDoes ==
    ASSUME TypeInv, NEW s \in Halves, NEW g \in Games, LoseTouch(s, g)
    PROVE  TypeInv' /\ Unmoved /\ Mail' = Mail
<1>1. EntsOK /\ Plain /\ QueuesOK
    BY TypeSplit
<1>2. /\ ents' = [ents EXCEPT ![s][g] = None]
      /\ UNCHANGED <<alive, handled, again, unheld, up, down, known, reading, rounds, gifts, timed, fails, uneven, late>>
    BY DEF LoseTouch, netVars, boundVars, ghostVars, heldVars, gateVars
<1>3. rounds \in Nat /\ rounds' \in Nat /\ rounds' >= rounds /\ rounds <= rounds'
    BY <1>1, <1>2 DEF Plain
<1>4. EntsOK'
    BY <1>1, <1>2, <1>3, PuttingOK
<1>5. Unmoved
    BY <1>1, <1>2, PutUnmoved
<1>6. QueuesOK' /\ Mail' = Mail
    BY <1>1, <1>2, <1>3, SameQueues
<1>7. Plain'
    BY <1>1, <1>2 DEF Plain
<1> QED BY <1>4, <1>5, <1>6, <1>7, TypeSplit, PTL

LEMMA DieDoes ==
    ASSUME TypeInv, NEW g \in Games, Die(g)
    PROVE  /\ TypeInv' /\ Unmoved /\ Cut(Mail, Mail') /\ ~(g \in alive') /\ alive' \subseteq alive
           /\ \A h \in Games, k \in Gates : h # g => up'[h][k] = up[h][k] /\ down'[k][h] = down[k][h]
           /\ \A k \in Gates : down'[k][g] = <<>>
           /\ \A h \in Games, a \in Games :
                 handled'[h][a] = IF h = g THEN "none" ELSE handled[h][a]
           /\ known' = known /\ again'[g] = {} /\ \A h \in Games : h # g => again'[h] = again[h]
<1>1. EntsOK /\ Plain /\ QueuesOK
    BY TypeSplit
<1>2. /\ alive' = alive \ {g} /\ ents' = [s \in Halves |-> [ents[s] EXCEPT ![g] = None]]
      /\ handled' = [handled EXCEPT ![g] = [a \in Games |-> "none"]]
      /\ again' = [again EXCEPT ![g] = {}]
      /\ UNCHANGED <<unheld, known, reading, rounds, gifts, timed, fails, uneven, late>>
    BY DEF Die, boundVars, ghostVars, heldVars, gateVars
<1>3. /\ up' \in Ups /\ down' \in Downs /\ Cut(Mail, Mail')
      /\ \A h \in Games, k \in Gates : h # g => up'[h][k] = up[h][k] /\ down'[k][h] = down[k][h]
      /\ \A k \in Gates : down'[k][g] = <<>>
    BY Dying
<1>4. /\ \A s \in Halves : ents'[s][g] = None
      /\ \A s \in Halves, h \in Games : h # g => ents'[s][h] = ents[s][h]
      /\ ents' \in [Halves -> [Games -> Entities \cup {None}]]
    BY <1>1, <1>2 DEF EntsOK
<1>5. EntsOK'
  <2> SUFFICES ASSUME NEW s \in Halves, NEW h \in Games, ents'[s][h].exists
               PROVE  h \in alive' /\ EntOK(ents'[s][h], rounds')
      BY <1>4 DEF EntsOK
  <2>1. h # g
      BY <1>4 DEF None
  <2> QED BY <2>1, <1>1, <1>2, <1>4 DEF EntsOK
<1>6. Unmoved
  <2> SUFFICES ASSUME NEW s \in Halves, NEW h \in Games, Has(s, h)'
               PROVE  Has(s, h) /\ Addr(s, h)' = Addr(s, h)
      BY DEF Unmoved
  <2>1. h # g
      BY <1>2 DEF Has
  <2> QED BY <2>1, <1>2, <1>4 DEF Has, Addr
<1>7. /\ handled' \in [Games -> [Games -> Deadlines]]
      /\ \A h \in Games, a \in Games :
            handled'[h][a] = IF h = g THEN "none" ELSE handled[h][a]
      /\ again' \in [Games -> SUBSET Games] /\ again'[g] = {}
      /\ \A h \in Games : h # g => again'[h] = again[h]
    BY <1>1, <1>2 DEF Plain, Deadlines
<1>8. Plain'
    BY <1>1, <1>2, <1>7 DEF Plain
<1>9. QueuesOK'
  <2>1. Free(Mail, Bad(rounds)) /\ rounds' = rounds
      BY <1>1, <1>2 DEF QueuesOK
  <2>2. Mail \in [Lanes -> Seq(Rpcs)] /\ DOMAIN Mail = Lanes /\ DOMAIN Mail' = Lanes
      BY <1>3, MailType DEF Cut
  <2>3. Free(Mail', Bad(rounds))
      BY <2>1, <2>2, <1>3 DEF Cut, Free
  <2> QED BY <2>1, <2>3, <1>3 DEF QueuesOK
<1>10. TypeInv'
    BY <1>5, <1>8, <1>9, TypeSplit, PTL
<1> QED BY <1>2, <1>3, <1>6, <1>7, <1>10

(* A gate tells games of a death: queues grow by such an rpc, or not at all. *)
Told(q, r) ==
    /\ r \in [Lanes -> Seq(Rpcs)]
    /\ \A w \in Lanes : r[w] = q[w] \/ \E m \in Rpcs : /\ m.kind = "disappear" /\ w[1] = "down"
                                                      /\ r[w] = Append(q[w], m)

LEMMA ToldSame ==
    ASSUME NEW q \in [Lanes -> Seq(Rpcs)], NEW r, Told(q, r), NEW X,
           \A m \in X : m.kind # "disappear"
    PROVE  Same(q, r, X)
<1>1. DOMAIN q = Lanes /\ DOMAIN r = Lanes
    BY DEF Told
<1> SUFFICES ASSUME NEW w \in Lanes
             PROVE  /\ \A i \in 1 .. Len(r[w]) :
                           r[w][i] \in X => i \in 1 .. Len(q[w]) /\ q[w][i] = r[w][i]
                    /\ \A i \in 1 .. Len(q[w]) :
                           q[w][i] \in X => i \in 1 .. Len(r[w]) /\ r[w][i] = q[w][i]
    BY <1>1 DEF Same
<1>2. CASE r[w] = q[w]
    BY <1>2
<1>3. ASSUME NEW m \in Rpcs, m.kind = "disappear", r[w] = Append(q[w], m)
      PROVE  /\ \A i \in 1 .. Len(r[w]) :
                    r[w][i] \in X => i \in 1 .. Len(q[w]) /\ q[w][i] = r[w][i]
             /\ \A i \in 1 .. Len(q[w]) :
                    q[w][i] \in X => i \in 1 .. Len(r[w]) /\ r[w][i] = q[w][i]
  <2> DEFINE x == q[w]
             y == r[w]
  <2>1. x \in Seq(Rpcs) /\ y = Append(x, m) /\ m \notin X
      BY <1>3
  <2> HIDE DEF x, y
  <2>2. /\ Len(x) \in Nat /\ Len(y) = Len(x) + 1 /\ y[Len(x) + 1] = m
        /\ \A i \in 1 .. Len(x) : y[i] = x[i]
      BY <2>1
  <2>3. \A i \in 1 .. Len(y) : i \in 1 .. Len(x) \/ i = Len(x) + 1
      BY <2>2
  <2>4. /\ \A i \in 1 .. Len(y) : y[i] \in X => i \in 1 .. Len(x) /\ x[i] = y[i]
        /\ \A i \in 1 .. Len(x) : x[i] \in X => i \in 1 .. Len(y) /\ y[i] = x[i]
      BY <2>1, <2>2, <2>3
  <2> QED BY <2>4 DEF x, y
<1> QED BY <1>2, <1>3 DEF Told

(* A reading that ends, or a write that fails.                             *)
Reports(k, g) == ReadFails(k, g) \/ WriteFails(k, g)

LEMMA OnRemoteDisconnectedDoes ==
    ASSUME TypeInv, NEW k \in Gates, NEW g \in Games, Reports(k, g)
    PROVE  /\ TypeInv' /\ Unmoved /\ Told(Mail, Mail') /\ g \notin alive
           /\ UNCHANGED <<alive, handled, again, up>>
           /\ known'[k] = known[k] \ {g} /\ \A j \in Gates : j # k => known'[j] = known[j]
           /\ \A j \in Gates, h \in Games :
                 \/ down'[j][h] = down[j][h]
                 \/ /\ j = k /\ h # g /\ h \in alive
                    /\ down'[j][h] = Append(down[j][h], Rpc("disappear", "base", g, h, NoBackup))
<1>1. EntsOK /\ Plain /\ QueuesOK
    BY TypeSplit
<1>2a. /\ g \notin alive /\ OnRemoteDisconnected(k, g)
       /\ UNCHANGED <<alive, ents, handled, again, unheld, up, rounds, gifts, timed, uneven, late>>
       /\ reading' = [reading EXCEPT ![k] = @ \ {g}] \/ reading' = reading
       /\ fails' = fails \/ fails' = fails + 1
  <2>1. CASE ReadFails(k, g)
      BY <2>1 DEF ReadFails, boundVars, ghostVars, heldVars
  <2>2. CASE WriteFails(k, g)
      BY <2>2 DEF WriteFails, ghostVars, heldVars
  <2> QED BY <2>1, <2>2 DEF Reports
<1>2. /\ g \notin alive
      /\ known' = [known EXCEPT ![k] = @ \ {g}] /\ known'[k] = known[k] \ {g}
      /\ down' = [down EXCEPT ![k] = [h \in Games |->
                    IF h \in alive /\ h \in known[k] \ {g}
                    THEN Append(@[h], Rpc("disappear", "base", g, h, NoBackup))
                    ELSE @[h]]]
      /\ UNCHANGED <<alive, ents, handled, again, unheld, up, rounds, gifts, timed, uneven, late>>
  <2>1. known' = [known EXCEPT ![k] = @ \ {g}] /\ known'[k] = known[k] \ {g}
      BY <1>1, <1>2a DEF OnRemoteDisconnected, Plain
  <2>2. down' = [down EXCEPT ![k] = [h \in Games |->
                    IF h \in alive \cap (known[k] \ {g})
                    THEN Append(@[h], Rpc("disappear", "base", g, h, NoBackup))
                    ELSE @[h]]]
      BY <1>2a, <2>1 DEF OnRemoteDisconnected
  <2>3. \A h \in Games : h \in alive \cap (known[k] \ {g}) <=> h \in alive /\ h \in known[k] \ {g}
      OBVIOUS
  <2> QED BY <1>2a, <2>1, <2>2, <2>3
<1>3. up \in Ups /\ down \in Downs
    BY <1>1 DEF QueuesOK
<1>4. \A h \in Games : /\ Rpc("disappear", "base", g, h, NoBackup) \in Rpcs
                       /\ Rpc("disappear", "base", g, h, NoBackup).kind = "disappear"
  <2>1. "disappear" \in Kinds /\ "base" \in Halves /\ NoBackup \in Backups
      BY BackupFacts, HalfFacts DEF Kinds
  <2> QED BY <2>1, MakeRpc
<1>5. \A j \in Gates, h \in Games :
         \/ down'[j][h] = down[j][h]
         \/ /\ j = k /\ h # g /\ h \in alive
            /\ down'[j][h] = Append(down[j][h], Rpc("disappear", "base", g, h, NoBackup))
    BY <1>2, <1>3 DEF Downs
<1>6. down' \in Downs
  <2> DEFINE m(h) == Rpc("disappear", "base", g, h, NoBackup)
             f == [h \in Games |-> IF h \in alive /\ h \in known[k] \ {g}
                                   THEN Append(down[k][h], m(h)) ELSE down[k][h]]
  <2>1. \A h \in Games : m(h) \in Rpcs /\ down[k][h] \in Seq(Rpcs)
      BY <1>3, <1>4 DEF Downs
  <2> HIDE DEF m
  <2>2. f \in [Games -> Seq(Rpcs)]
      BY <2>1
  <2>3. down' = [down EXCEPT ![k] = f]
      BY <1>2, <1>3 DEF Downs, m
  <2> HIDE DEF f
  <2> QED BY <2>2, <2>3, <1>3 DEF Downs
<1>7. Told(Mail, Mail')
  <2>1. Mail' \in [Lanes -> Seq(Rpcs)]
      BY <1>2, <1>3, <1>6, BagsType DEF Mail
  <2> SUFFICES ASSUME NEW w \in Lanes
               PROVE  \/ Mail'[w] = Mail[w]
                      \/ \E m \in Rpcs : /\ m.kind = "disappear" /\ w[1] = "down"
                                         /\ Mail'[w] = Append(Mail[w], m)
      BY <2>1 DEF Told
  <2> DEFINE h == w[2]
             j == w[3]
  <2>2. h \in Games /\ j \in Gates /\ (w = Up(h, j) \/ w = Down(j, h)) /\ Down(j, h)[1] = "down"
      BY LaneFacts
  <2> HIDE DEF h, j
  <2>3. /\ Mail[Up(h, j)] = up[h][j] /\ Mail[Down(j, h)] = down[j][h]
        /\ Mail'[Up(h, j)] = up[h][j] /\ Mail'[Down(j, h)] = down'[j][h]
    <3>1. Mail = Bags(up, down) /\ Mail' = Bags(up, down')
        BY <1>2 DEF Mail
    <3>2. /\ Bags(up, down)[Up(h, j)] = up[h][j] /\ Bags(up, down)[Down(j, h)] = down[j][h]
        BY <2>2, <1>3, BagsType
    <3>3. /\ Bags(up, down')[Up(h, j)] = up[h][j] /\ Bags(up, down')[Down(j, h)] = down'[j][h]
        BY <2>2, <1>3, <1>6, BagsType
    <3> QED BY <3>1, <3>2, <3>3
  <2>4. CASE w = Up(h, j)
      BY <2>3, <2>4
  <2>5. CASE w = Down(j, h)
      BY <2>2, <2>3, <2>5, <1>4, <1>5
  <2> QED BY <2>2, <2>4, <2>5
<1>8. rounds \in Nat /\ rounds' \in Nat /\ rounds' >= rounds /\ rounds' = rounds
    BY <1>1, <1>2 DEF Plain
<1>9. EntsOK'
    BY <1>1, <1>2, <1>8, SameEnts
<1>10. Unmoved
    BY <1>2 DEF Unmoved, Has, Addr
<1>11. Plain' /\ known'[k] = known[k] \ {g} /\ \A j \in Gates : j # k => known'[j] = known[j]
  <2>1. known' \in [Gates -> SUBSET Games] /\ \A j \in Gates : j # k => known'[j] = known[j]
      BY <1>1, <1>2 DEF Plain
  <2>2. reading' \in [Gates -> SUBSET Games] /\ fails' \in Nat
      BY <1>1, <1>2a DEF Plain
  <2> QED BY <1>1, <1>2, <2>1, <2>2 DEF Plain
<1>12. QueuesOK'
  <2>1. Free(Mail, Bad(rounds)) /\ Mail \in [Lanes -> Seq(Rpcs)]
      BY <1>1, <1>3, BagsType DEF QueuesOK, Mail
  <2>2. \A m \in Bad(rounds) : m.kind # "disappear"
      BY DEF Bad, Backed
  <2>3. Same(Mail, Mail', Bad(rounds))
      BY <2>1, <2>2, <1>7, ToldSame
  <2>4. Free(Mail', Bad(rounds))
      BY <2>1, <2>3, SameFree
  <2> QED BY <2>4, <1>2, <1>3, <1>6, <1>8 DEF QueuesOK
<1>13. TypeInv'
    BY <1>9, <1>11, <1>12, TypeSplit, PTL
<1> QED BY <1>2, <1>5, <1>7, <1>10, <1>11, <1>13

(* A gate passes an rpc on, to a game that runs, or loses it. *)
Relayed(q, r, g, k, h, m) == r = Joined(Taken(q, Up(g, k)), Down(k, h), <<m>>)
Lost(q, r, g, k) == r = Taken(q, Up(g, k))

LEMMA RelayDoes ==
    ASSUME TypeInv, NEW k \in Gates, NEW g \in Games, Relay(k, g), NEW m, m = Head(up[g][k])
    PROVE  /\ TypeInv' /\ Unmoved /\ m \in Rpcs
           /\ up[g][k] # <<>> /\ Mail[Up(g, k)] # <<>> /\ Head(Mail[Up(g, k)]) = m
           /\ UNCHANGED <<alive, handled, again, unheld, known, reading>>
           /\ \/ \E h \in Targets(k, m) \cap alive : /\ h \in Games
                                                    /\ down' = [down EXCEPT ![k][h] = Append(@, m)]
                                                    /\ Relayed(Mail, Mail', g, k, h, m)
              \/ /\ Targets(k, m) = {} \/ Targets(k, m) \ alive # {}
                 /\ down' = down /\ Lost(Mail, Mail', g, k)
<1>1. EntsOK /\ Plain /\ QueuesOK
    BY TypeSplit
<1>2. /\ up[g][k] # <<>> /\ up' = [up EXCEPT ![g][k] = Tail(@)]
      /\ \/ \E h \in Targets(k, m) \cap alive : down' = [down EXCEPT ![k][h] = Append(@, m)]
         \/ /\ Targets(k, m) = {} \/ Targets(k, m) \ alive # {}
            /\ down' = down
      /\ UNCHANGED <<alive, ents, handled, again, unheld, known, reading, rounds, gifts, timed, fails, uneven, late>>
    BY DEF Relay, boundVars, ghostVars, heldVars, gateVars
<1>3. up \in Ups /\ down \in Downs
    BY <1>1 DEF QueuesOK
<1>4. /\ up' \in Ups /\ Bags(up', down) = Taken(Mail, Up(g, k)) /\ Mail[Up(g, k)] # <<>>
      /\ Head(Mail[Up(g, k)]) = m /\ m \in Rpcs
  <2>1. up' = UpLess(up, g, k)
      BY <1>2 DEF UpLess
  <2>2. /\ UpLess(up, g, k) \in Ups
        /\ Bags(UpLess(up, g, k), down) = Taken(Bags(up, down), Up(g, k))
        /\ Bags(up, down)[Up(g, k)] # <<>>
        /\ Head(Bags(up, down)[Up(g, k)]) = Head(up[g][k]) /\ Head(up[g][k]) \in Rpcs
      BY <1>2, <1>3, Dropping
  <2> QED BY <2>1, <2>2 DEF Mail
<1>5. /\ Mail \in [Lanes -> Seq(Rpcs)] /\ Free(Mail, Bad(rounds)) /\ Up(g, k) \in Lanes
      /\ Bags(up', down) \in [Lanes -> Seq(Rpcs)]
    BY <1>1, <1>3, <1>4, BagsType, LaneFacts DEF QueuesOK, Mail
<1>6. Free(Bags(up', down), Bad(rounds)) /\ m \notin Bad(rounds)
  <2> DEFINE r == Bags(up', down)
             w == Up(g, k)
             K == Bad(rounds)
  <2>1. /\ r = Taken(Mail, w) /\ Head(Mail[w]) = m /\ Mail \in [Lanes -> Seq(Rpcs)]
        /\ w \in Lanes /\ Mail[w] # <<>> /\ Free(Mail, K)
      BY <1>4, <1>5
  <2> HIDE DEF r, w, K
  <2>2. /\ Free(Mail, K) => Free(r, K)
        /\ Head(Mail[w]) \in K => ~Free(Mail, K)
      BY <2>1, TakeFree
  <2> QED BY <2>1, <2>2 DEF r, K
<1>7. \/ \E h \in Targets(k, m) \cap alive : /\ h \in Games
                                            /\ down' = [down EXCEPT ![k][h] = Append(@, m)]
                                            /\ Relayed(Mail, Mail', g, k, h, m)
                                            /\ down' \in Downs /\ Free(Mail', Bad(rounds))
      \/ /\ Targets(k, m) = {} \/ Targets(k, m) \ alive # {}
         /\ down' = down /\ Lost(Mail, Mail', g, k)
         /\ down' \in Downs /\ Free(Mail', Bad(rounds))
  <2>1. ASSUME NEW h \in Targets(k, m) \cap alive, down' = [down EXCEPT ![k][h] = Append(@, m)]
        PROVE  /\ h \in Games /\ Relayed(Mail, Mail', g, k, h, m)
               /\ down' \in Downs /\ Free(Mail', Bad(rounds))
    <3>1. h \in Games
        BY <1>1 DEF Plain
    <3>2. down' \in Downs /\ Bags(up', down') = Joined(Bags(up', down), Down(k, h), <<m>>)
      <4>1. down' = DownMore(down, k, h, m)
          BY <2>1 DEF DownMore
      <4> QED BY <4>1, <3>1, <1>3, <1>4, Arriving
    <3>3. Relayed(Mail, Mail', g, k, h, m)
        BY <3>2, <1>4 DEF Relayed, Mail
    <3>4. <<m>> \in Seq(Rpcs) /\ Without(<<m>>, Bad(rounds))
        BY <1>4, <1>6, OneRpc
    <3>5. Down(k, h) \in Lanes
        BY <3>1, LaneFacts
    <3>6. Free(Bags(up', down'), Bad(rounds))
        BY <3>2, <3>4, <3>5, <1>5, <1>6, JoinFree
    <3> QED BY <3>1, <3>2, <3>3, <3>6 DEF Mail
  <2>2. down' = down => /\ Lost(Mail, Mail', g, k) /\ down' \in Downs
                        /\ Free(Mail', Bad(rounds))
      BY <1>3, <1>4, <1>6 DEF Lost, Mail
  <2> QED BY <2>1, <2>2, <1>2
<1>8. rounds \in Nat /\ rounds' \in Nat /\ rounds' >= rounds /\ rounds' = rounds
    BY <1>1, <1>2 DEF Plain
<1>9. EntsOK'
    BY <1>1, <1>2, <1>8, SameEnts
<1>10. Unmoved
    BY <1>2 DEF Unmoved, Has, Addr
<1>11. Plain'
    BY <1>1, <1>2 DEF Plain
<1>12. QueuesOK'
    BY <1>4, <1>7, <1>8 DEF QueuesOK
<1>13. TypeInv'
    BY <1>9, <1>11, <1>12, TypeSplit, PTL
<1> QED BY <1>2, <1>4, <1>7, <1>10, <1>13

LEMMA WindowEndsDoes ==
    ASSUME TypeInv, NEW g \in Games, NEW a \in Games, WindowEnds(g, a)
    PROVE  /\ TypeInv' /\ Unmoved /\ Mail' = Mail /\ Free(Mail, Talk)
           /\ Marked(g, a) /\ \A h \in Games : again'[h] \subseteq again[h]
           /\ \A h, b \in Games : handled'[h][b] = IF h = g /\ b = a THEN "passed" ELSE handled[h][b]
           /\ UNCHANGED <<alive, known, reading, up, down>>
<1>1. EntsOK /\ Plain /\ QueuesOK
    BY TypeSplit
<1>2. /\ handled[g][a] = "ahead" \/ a \in again[g]
      /\ handled' = [handled EXCEPT ![g][a] = "passed"]
      /\ again' = [again EXCEPT ![g] = @ \ {a}] /\ unheld' = unheld
      /\ \A m \in UnderWay : m.kind \notin {"recover", "recovered"}
      /\ UNCHANGED <<alive, ents, up, down, known, reading, rounds, gifts, timed, fails, uneven, late>>
    BY DEF WindowEnds, netVars, boundVars, ghostVars, heldVars, gateVars
<1>3. /\ \A h, b \in Games : handled'[h][b] = IF h = g /\ b = a THEN "passed" ELSE handled[h][b]
      /\ Marked(g, a) /\ \A h \in Games : again'[h] \subseteq again[h]
    BY <1>1, <1>2 DEF Plain, Marked
<1>4. Plain'
  <2>1. handled' \in [Games -> [Games -> Deadlines]] /\ again' \in [Games -> SUBSET Games]
      BY <1>1, <1>2 DEF Plain, Deadlines
  <2> QED BY <2>1, <1>1, <1>2 DEF Plain
<1>5. rounds \in Nat /\ rounds' \in Nat /\ rounds' >= rounds /\ rounds <= rounds'
    BY <1>1, <1>2 DEF Plain
<1>6. EntsOK'
    BY <1>1, <1>2, <1>5, SameEnts
<1>7. Unmoved
    BY <1>2 DEF Unmoved, Has, Addr
<1>8. QueuesOK' /\ Mail' = Mail
    BY <1>1, <1>2, <1>5, SameQueues
<1>9. Free(Mail, Talk)
  <2>1. Mail \in [Lanes -> Seq(Rpcs)] /\ \A w \in Lanes : Queue(w) = Mail[w]
      BY MailType
  <2>2. \A w \in Lanes : \A i \in 1 .. Len(Mail[w]) : Mail[w][i] \in UnderWay
    <3> SUFFICES ASSUME NEW w \in Lanes, NEW i \in 1 .. Len(Mail[w])
                 PROVE  Mail[w][i] \in UnderWay
        OBVIOUS
    <3>1. Queue(w) = Mail[w] /\ i \in DOMAIN Mail[w]
        BY <2>1
    <3> QED BY <3>1 DEF UnderWay
  <2> QED BY <2>1, <2>2, <1>2 DEF Free, Talk
<1>10. TypeInv'
    BY <1>4, <1>6, <1>8, TypeSplit, PTL
<1> QED BY <1>2, <1>3, <1>7, <1>8, <1>9, <1>10

-----------------------------------------------------------------------------
(* Game g executes m, the first rpc gate k has sent it. *)
Executes(g, k, m) ==
    /\ g \in alive /\ down[k][g] # <<>> /\ m = Head(down[k][g])
    /\ down' = DownLess(down, k, g) /\ UNCHANGED <<alive, known, reading, gifts, timed, fails>>

Rest(g, k) == Taken(Mail, Down(k, g))

LEMMA ExecMail ==
    ASSUME TypeInv, NEW g \in Games, NEW k \in Gates, NEW m, Executes(g, k, m)
    PROVE  /\ EntsOK /\ Plain /\ up \in Ups /\ down' \in Downs /\ rounds \in Nat
           /\ m \in Rpcs /\ m.bk \in Backups /\ m.addr \in Games /\ m.from \in Games
           /\ m.half \in Halves /\ m.kind \in Kinds
           /\ m.kind \in Backed => m.bk.round \in 1 .. rounds
           /\ Mail \in [Lanes -> Seq(Rpcs)] /\ Down(k, g) \in Lanes
           /\ Mail[Down(k, g)] # <<>> /\ Head(Mail[Down(k, g)]) = m
           /\ Bags(up, down') = Rest(g, k) /\ Rest(g, k) \in [Lanes -> Seq(Rpcs)]
           /\ Free(Rest(g, k), Bad(rounds))
<1>1. EntsOK /\ Plain /\ QueuesOK
    BY TypeSplit
<1>2. /\ down[k][g] # <<>> /\ m = Head(down[k][g]) /\ down' = DownLess(down, k, g)
      /\ up \in Ups /\ down \in Downs /\ rounds \in Nat
    BY <1>1 DEF Executes, QueuesOK, Plain
<1>3. /\ DownLess(down, k, g) \in Downs
      /\ Bags(up, DownLess(down, k, g)) = Taken(Bags(up, down), Down(k, g))
      /\ Bags(up, down)[Down(k, g)] # <<>>
      /\ Head(Bags(up, down)[Down(k, g)]) = Head(down[k][g]) /\ Head(down[k][g]) \in Rpcs
    BY <1>2, Executing
<1>4. /\ m \in Rpcs /\ down' \in Downs /\ Bags(up, down') = Rest(g, k)
      /\ Mail[Down(k, g)] # <<>> /\ Head(Mail[Down(k, g)]) = m
    BY <1>2, <1>3 DEF Mail, Rest
<1>5. Rest(g, k) \in [Lanes -> Seq(Rpcs)]
    BY <1>2, <1>4, BagsType
<1>6. Mail \in [Lanes -> Seq(Rpcs)] /\ Down(k, g) \in Lanes
    BY <1>2, BagsType, LaneFacts DEF Mail
<1>7. Free(Rest(g, k), Bad(rounds)) /\ m \notin Bad(rounds)
  <2> DEFINE r == Rest(g, k)
             w == Down(k, g)
             K == Bad(rounds)
  <2>1. /\ r = Taken(Mail, w) /\ Head(Mail[w]) = m /\ Mail \in [Lanes -> Seq(Rpcs)]
        /\ w \in Lanes /\ Mail[w] # <<>> /\ Free(Mail, K)
      BY <1>1, <1>4, <1>6 DEF Rest, QueuesOK
  <2> HIDE DEF r, w, K
  <2>2. /\ Free(Mail, K) => Free(r, K)
        /\ Head(Mail[w]) \in K => ~Free(Mail, K)
      BY <2>1, TakeFree
  <2> QED BY <2>1, <2>2 DEF r, K
<1>8. /\ m.bk \in Backups /\ m.addr \in Games /\ m.from \in Games /\ m.half \in Halves
      /\ m.kind \in Kinds
    BY <1>4 DEF Rpcs
<1>9. m.kind \in Backed => m.bk.round \in 1 .. rounds
    BY <1>4, <1>7 DEF Bad
<1> QED BY <1>1, <1>2, <1>4, <1>5, <1>6, <1>7, <1>8, <1>9

(* It sends nothing. *)
LEMMA ExecSilent ==
    ASSUME TypeInv, NEW g \in Games, NEW k \in Gates, NEW m, Executes(g, k, m),
           up' = up, rounds' = rounds
    PROVE  QueuesOK' /\ Mail' = Rest(g, k)
<1>1. /\ up \in Ups /\ down' \in Downs /\ Bags(up, down') = Rest(g, k)
      /\ Free(Rest(g, k), Bad(rounds))
    BY ExecMail
<1>2. Mail' = Rest(g, k)
    BY <1>1 DEF Mail
<1> QED BY <1>1, <1>2 DEF QueuesOK

(* It calls the other half of s. *)
LEMMA ExecCalls ==
    ASSUME TypeInv, NEW g \in Games, NEW k \in Gates, NEW m, Executes(g, k, m),
           NEW kind \in Kinds, NEW s \in Halves, NEW e \in Entities, NEW b \in Backups,
           up' = Call(up, kind, s, g, e, b), rounds' \in Nat, rounds <= rounds',
           kind \in Backed => b.round \in 1 .. rounds', ents'[s][g].gate = e.gate
    PROVE  QueuesOK' /\ Called(Rest(g, k), Mail', kind, s, g, e.addr, b)
<1>1. /\ up \in Ups /\ down' \in Downs /\ Bags(up, down') = Rest(g, k)
      /\ Free(Bags(up, down'), Bad(rounds)) /\ rounds \in Nat
    BY ExecMail
<1>2. Free(Bags(up, down'), Bad(rounds'))
    BY <1>1, BadMore
<1> DEFINE u == Call(up, kind, s, g, e, b)
           d == down'
<1>3. d \in Downs /\ Free(Bags(up, d), Bad(rounds')) /\ Bags(up, d) = Rest(g, k) /\ up \in Ups
    BY <1>1, <1>2
<1> HIDE DEF d
<1>4. /\ u \in Ups /\ Free(Bags(u, d), Bad(rounds'))
      /\ Called(Bags(up, d), Bags(u, d), kind, s, g, e.addr, b)
    BY <1>3, Calling
<1>5. Mail' = Bags(u, d)
    BY DEF Mail, d
<1>6. up' = u /\ down' = d
    BY DEF d
<1> HIDE DEF u
<1> QED BY <1>3, <1>4, <1>5, <1>6 DEF QueuesOK

LEMMA NoEntity ==
    ASSUME TypeInv, NEW s \in Halves, NEW g \in alive, ~ents[s][g].exists
    PROVE  ~Has(s, g)
BY DEF Has

LEMMA DroppedDoes ==
    ASSUME TypeInv, NEW g \in Games, NEW k \in Gates, NEW m, Executes(g, k, m), Dropped(g, m)
    PROVE  /\ TypeInv' /\ Unmoved /\ Mail' = Rest(g, k) /\ ~Has(m.half, g)
           /\ m.kind \in {"gift", "backup", "recovered"} /\ handled' = handled /\ up' = up
<1>1. EntsOK /\ Plain /\ rounds \in Nat
    BY ExecMail
<1>2. /\ UNCHANGED <<alive, known, reading, gifts, timed, fails, ents, handled, again, unheld, up, rounds, uneven, late>>
      /\ m.kind \in {"gift", "backup", "recovered"} /\ ~Has(m.half, g)
    BY DEF Dropped, Executes, Has, ghostVars, heldVars
<1>3. QueuesOK' /\ Mail' = Rest(g, k)
    BY <1>2, ExecSilent
<1>4. EntsOK'
  <2>1. rounds' \in Nat /\ rounds' >= rounds
      BY <1>1, <1>2
  <2> QED BY <2>1, <1>1, <1>2, SameEnts
<1>5. Plain'
    BY <1>1, <1>2 DEF Plain
<1>6. Unmoved
    BY <1>2 DEF Unmoved, Has, Addr
<1>7. TypeInv'
    BY <1>3, <1>4, <1>5, TypeSplit, PTL
<1> QED BY <1>2, <1>3, <1>6, <1>7

LEMMA ExecGiftDoes ==
    ASSUME TypeInv, NEW g \in Games, NEW k \in Gates, NEW m, Executes(g, k, m), ExecGift(g, m)
    PROVE  /\ TypeInv' /\ Unmoved /\ Mail' = Rest(g, k)
           /\ m.kind = "gift" /\ handled' = handled /\ up' = up
<1>1. EntsOK /\ Plain /\ rounds \in Nat /\ m.half \in Halves
    BY ExecMail
<1> DEFINE s == m.half
           e == [ents[s][g] EXCEPT !.gold = @ + 1]
<1>2. /\ UNCHANGED <<alive, known, reading, gifts, timed, fails, handled, again, unheld, up, rounds, uneven, late>>
      /\ m.kind = "gift" /\ Has(s, g)
    BY DEF ExecGift, Executes, ghostVars, heldVars
<1>3. ents' = [ents EXCEPT ![s][g] = e]
    BY <1>1 DEF ExecGift, EntsOK
<1>4. EntOK(e, rounds) /\ e.addr = Addr(s, g) /\ g \in alive
  <2> DEFINE f == ents[s][g]
  <2>1. EntOK(f, rounds) /\ g \in alive /\ e = [f EXCEPT !.gold = @ + 1] /\ Addr(s, g) = f.addr
      BY <1>1, <1>2 DEF EntsOK, Has, Addr
  <2> HIDE DEF e, f
  <2>2. f \in Entities
      BY <2>1 DEF EntOK
  <2>4. f.gold \in Nat
      BY <2>2 DEF Entities
  <2>5. f.gold + 1 \in Nat
      BY <2>4
  <2>3. e \in Entities /\ e.addr = f.addr /\ e.other = f.other
      BY <2>1, <2>2, <2>5 DEF Entities
  <2> QED BY <2>1, <2>3 DEF EntOK
<1> HIDE DEF e
<1>5. QueuesOK' /\ Mail' = Rest(g, k)
    BY <1>2, ExecSilent
<1>6. EntsOK'
  <2>1. rounds' \in Nat /\ rounds' >= rounds /\ EntOK(e, rounds')
      BY <1>1, <1>2, <1>4
  <2> HIDE DEF s
  <2> QED BY <2>1, <1>1, <1>2, <1>3, <1>4, PuttingOK DEF s
<1>7. Plain'
    BY <1>1, <1>2 DEF Plain
<1>8. Unmoved
    BY <1>1, <1>2, <1>3, <1>4, PutUnmoved
<1>9. TypeInv'
    BY <1>5, <1>6, <1>7, TypeSplit, PTL
<1> QED BY <1>2, <1>5, <1>8, <1>9

LEMMA BaseDisasterBackupDoes ==
    ASSUME TypeInv, NEW g \in Games, NEW k \in Gates, NEW m, Executes(g, k, m),
           BaseDisasterBackup(g, m)
    PROVE  /\ TypeInv' /\ Unmoved /\ Mail' = Rest(g, k)
           /\ m.kind = "backup" /\ handled' = handled /\ up' = up
<1>1. /\ EntsOK /\ Plain /\ rounds \in Nat /\ m.bk \in Backups
      /\ m.kind \in Backed => m.bk.round \in 1 .. rounds
    BY ExecMail
<1> DEFINE s == "base"
           e == [ents[s][g] EXCEPT !.other = m.bk]
<1>2. /\ UNCHANGED <<alive, known, reading, gifts, timed, fails, handled, again, unheld, up, rounds, uneven, late>>
      /\ m.kind = "backup" /\ Has(s, g) /\ s \in Halves
    BY HalfFacts DEF BaseDisasterBackup, Executes, ghostVars, heldVars
<1>3. ents' = [ents EXCEPT ![s][g] = e]
    BY <1>1, <1>2 DEF BaseDisasterBackup, EntsOK
<1>4. EntOK(e, rounds) /\ e.addr = Addr(s, g) /\ g \in alive
  <2>1. EntOK(ents[s][g], rounds) /\ g \in alive /\ m.bk.round \in 1 .. rounds
      BY <1>1, <1>2 DEF EntsOK, Has, Backed
  <2> QED BY <2>1, <1>1 DEF EntOK, Entities, Addr
<1> HIDE DEF e, s
<1>5. QueuesOK' /\ Mail' = Rest(g, k)
    BY <1>2, ExecSilent
<1>6. EntsOK'
  <2>1. rounds' \in Nat /\ rounds' >= rounds /\ EntOK(e, rounds')
      BY <1>1, <1>2, <1>4
  <2> QED BY <2>1, <1>1, <1>2, <1>3, <1>4, PuttingOK
<1>7. Plain'
    BY <1>1, <1>2 DEF Plain
<1>8. Unmoved
    BY <1>1, <1>2, <1>3, <1>4, PutUnmoved
<1>9. TypeInv'
    BY <1>5, <1>6, <1>7, TypeSplit, PTL
<1> QED BY <1>2, <1>5, <1>8, <1>9

LEMMA CellDisasterBackupDoes ==
    ASSUME TypeInv, NEW g \in Games, NEW k \in Gates, NEW m, Executes(g, k, m),
           CellDisasterBackup(g, m)
    PROVE  /\ TypeInv' /\ Unmoved
           /\ Called(Rest(g, k), Mail', "backup", "cell", g, Addr("cell", g),
                     [gold |-> ents["cell"][g].gold, round |-> m.bk.round])
           /\ m.kind = "backup" /\ handled' = handled
<1>1. /\ EntsOK /\ Plain /\ rounds \in Nat /\ m.bk \in Backups
      /\ m.kind \in Backed => m.bk.round \in 1 .. rounds
    BY ExecMail
<1> DEFINE s == "cell"
           self == [gold |-> ents[s][g].gold, round |-> m.bk.round]
           e == [ents[s][g] EXCEPT !.self = self, !.other = m.bk]
           a == Addr(s, g)
<1>2. /\ UNCHANGED <<alive, known, reading, gifts, timed, fails, handled, again, unheld, rounds, uneven, late>>
      /\ m.kind = "backup" /\ Has(s, g) /\ s \in Halves
      /\ up' = Call(up, "backup", s, g, ents[s][g], self)
    BY HalfFacts DEF CellDisasterBackup, Executes, ghostVars, Addr, heldVars
<1>3. ents' = [ents EXCEPT ![s][g] = e]
    BY <1>1, <1>2 DEF CellDisasterBackup, EntsOK
<1>4. m.bk.round \in 1 .. rounds
    BY <1>1, <1>2 DEF Backed
<1>5. self \in Backups /\ self.round = m.bk.round /\ a \in Games /\ g \in alive
  <2>1. ents[s][g].gold \in Nat /\ m.bk.round \in Nat /\ a \in Games /\ g \in alive
      BY <1>1, <1>2, <1>4, EntityFacts
  <2> QED BY <2>1, BackupFacts
<1> HIDE DEF self
<1>6. /\ EntOK(e, rounds) /\ e.addr = Addr(s, g) /\ e.gate = ents[s][g].gate
      /\ ents[s][g] \in Entities /\ a = ents[s][g].addr
  <2>1. EntOK(ents[s][g], rounds)
      BY <1>1, <1>2 DEF EntsOK, Has
  <2> QED BY <2>1, <1>1, <1>4, <1>5 DEF EntOK, Entities, Addr
<1> HIDE DEF e, s, a
<1>7. rounds' \in Nat /\ rounds' >= rounds /\ rounds <= rounds' /\ EntOK(e, rounds')
    BY <1>1, <1>2, <1>6
<1>8. QueuesOK' /\ Called(Rest(g, k), Mail', "backup", s, g, a, self)
  <2>1. "backup" \in Kinds /\ self.round \in 1 .. rounds'
      BY <1>2, <1>4, <1>5 DEF Kinds
  <2>2. ents'[s][g].gate = ents[s][g].gate
      BY <1>1, <1>2, <1>3, <1>6, PutAt
  <2> QED BY <2>1, <2>2, <1>2, <1>5, <1>6, <1>7, ExecCalls
<1>9. EntsOK'
    BY <1>1, <1>2, <1>3, <1>5, <1>7, PuttingOK
<1>10. Plain'
    BY <1>1, <1>2 DEF Plain
<1>11. Unmoved
    BY <1>1, <1>2, <1>3, <1>6, PutUnmoved
<1>12. TypeInv'
    BY <1>8, <1>9, <1>10, TypeSplit, PTL
<1> QED BY <1>2, <1>8, <1>11, <1>12 DEF s, a, self

-----------------------------------------------------------------------------
(* A half comes to game g, or stays there, and knows the other one at a.   *)
Seated(s, g, a) ==
    /\ Has(s, g)' /\ Addr(s, g)' = a
    /\ \A t \in Halves, h \in Games : ~(t = s /\ h = g) =>
          (Has(t, h)' <=> Has(t, h)) /\ Addr(t, h)' = Addr(t, h)

LEMMA PutSeated ==
    ASSUME EntsOK, NEW s \in Halves, NEW g \in alive, NEW e \in Entities,
           Plain, ents' = [ents EXCEPT ![s][g] = e], alive' = alive
    PROVE  Seated(s, g, e.addr)
<1>1. g \in Games
    BY DEF Plain
<1>2. /\ ents'[s][g] = e
      /\ \A t \in Halves, h \in Games : ~(t = s /\ h = g) => ents'[t][h] = ents[t][h]
  <2>1. ents \in [Halves -> [Games -> Entities \cup {None}]]
      BY DEF EntsOK
  <2> QED BY <1>1, <2>1
<1>3. e.exists
    BY Existing
<1> QED BY <1>1, <1>2, <1>3 DEF Seated, Has, Addr

LEMMA LateType ==
    ASSUME Plain, late' = IF late THEN TRUE ELSE Residue
    PROVE  late' \in BOOLEAN
<1>1. late \in BOOLEAN
    BY DEF Plain
<1>2. CASE late
    BY <1>2
<1>3. CASE ~late
  <2>1. late' = Residue
      BY <1>3
  <2> QED BY <2>1, Zenon DEF Residue
<1> QED BY <1>2, <1>3

(* The half that is rebuilt in game g from a backup b. *)
LEMMA NewHalf ==
    ASSUME NEW g \in Games, NEW a \in Games, NEW b \in Backups, NEW n
    PROVE  /\ Entity(g, a, b.gold) \in Entities /\ Entity(g, a, b.gold).addr = a
           /\ Entity(g, a, b.gold).other = NoBackup /\ EntOK(Entity(g, a, b.gold), n)
<1>1. b.gold \in Nat /\ NoBackup \in Backups /\ Fixed[g][a] \in Gates
    BY BackupFacts, PlacesAssumption DEF Backups
<1> QED BY <1>1 DEF Entity, Entities, EntOK

LEMMA RecoverCellDoes ==
    ASSUME TypeInv, NEW g \in Games, NEW k \in Gates, NEW m, Executes(g, k, m), RecoverCell(g, m)
    PROVE  /\ TypeInv' /\ m.kind = "recover" /\ m.half = "cell" /\ Seated("cell", g, m.from)
           /\ Called(Rest(g, k), Mail', "recovered", "cell", g, m.from, m.bk)
           /\ handled' = handled
<1>1. /\ EntsOK /\ Plain /\ rounds \in Nat /\ m.bk \in Backups /\ m.from \in Games
      /\ m.kind \in Backed => m.bk.round \in 1 .. rounds
    BY ExecMail
<1> DEFINE s == "cell"
           e == Entity(g, m.from, m.bk.gold)
<1>2. /\ UNCHANGED <<alive, known, reading, gifts, timed, fails, handled, again, unheld, rounds, uneven>>
      /\ late' = IF late THEN TRUE ELSE Residue
      /\ m.kind = "recover" /\ m.half = s /\ g \in alive /\ s \in Halves
      /\ ents' = [ents EXCEPT ![s][g] = e]
      /\ up' = Call(up, "recovered", s, g, e, m.bk)
    BY HalfFacts DEF RecoverCell, Executes, heldVars
<1>3. m.bk.round \in 1 .. rounds'
    BY <1>1, <1>2 DEF Backed
<1>4. rounds' \in Nat /\ rounds' >= rounds /\ rounds <= rounds'
    BY <1>1, <1>2
<1>5. e \in Entities /\ e.addr = m.from /\ EntOK(e, rounds')
    BY <1>1, NewHalf
<1> HIDE DEF e, s
<1>6. QueuesOK' /\ Called(Rest(g, k), Mail', "recovered", s, g, m.from, m.bk)
  <2>1. "recovered" \in Kinds
      BY DEF Kinds
  <2>2. ents'[s][g].gate = e.gate
      BY <1>1, <1>2, PutAt
  <2> QED BY <2>1, <2>2, <1>1, <1>2, <1>3, <1>4, <1>5, ExecCalls
<1>7. EntsOK'
    BY <1>1, <1>2, <1>4, <1>5, PuttingOK
<1>8. Plain'
    BY <1>1, <1>2, LateType DEF Plain
<1>9. Seated(s, g, m.from)
    BY <1>1, <1>2, <1>5, PutSeated
<1>10. TypeInv'
    BY <1>6, <1>7, <1>8, TypeSplit, PTL
<1> QED BY <1>2, <1>6, <1>9, <1>10 DEF s

LEMMA RecoverBaseDoes ==
    ASSUME TypeInv, NEW g \in Games, NEW k \in Gates, NEW m, Executes(g, k, m), RecoverBase(g, m)
    PROVE  /\ TypeInv' /\ m.kind = "recover" /\ m.half = "base" /\ Seated("base", g, m.from)
           /\ \E q \in [Lanes -> Seq(Rpcs)] :
                 /\ Called(Rest(g, k), q, "recovered", "base", g, m.from, m.bk)
                 /\ Called(q, Mail', "backup", "base", g, m.from,
                           [gold |-> m.bk.gold, round |-> rounds + 1])
           /\ handled' = handled
<1>1. /\ EntsOK /\ Plain /\ rounds \in Nat /\ m.bk \in Backups /\ m.from \in Games
      /\ m.kind \in Backed => m.bk.round \in 1 .. rounds
      /\ up \in Ups /\ down' \in Downs /\ Bags(up, down') = Rest(g, k)
      /\ Free(Rest(g, k), Bad(rounds))
    BY ExecMail
<1> DEFINE s == "base"
           f == Entity(g, m.from, m.bk.gold)
           e == BackedUp(f)
           u == Call(up, "recovered", s, g, f, m.bk)
           d == down'
<1>2. f \in Entities /\ f.addr = m.from /\ f.other = NoBackup /\ f.gold = m.bk.gold
    BY <1>1, NewHalf DEF Entity
<1>3. /\ e \in Entities /\ e.addr = m.from /\ e.other = f.other /\ e.gate = f.gate
      /\ e.self = [gold |-> m.bk.gold, round |-> rounds + 1] /\ e.self \in Backups /\ e.self.round = rounds + 1
      /\ rounds + 1 \in Nat /\ rounds + 1 \in 1 .. rounds + 1
      /\ SendBackup(u, g, f) = Call(u, "backup", s, g, f, e.self)
    BY <1>1, <1>2, BackedUpFacts
<1>4. /\ UNCHANGED <<alive, known, reading, gifts, timed, fails, handled, again, unheld, uneven>>
      /\ late' = IF late THEN TRUE ELSE Residue
      /\ m.kind = "recover" /\ m.half = s /\ g \in alive /\ s \in Halves
      /\ rounds' = rounds + 1
      /\ ents' = [ents EXCEPT ![s][g] = e]
      /\ up' = Call(u, "backup", s, g, f, e.self)
    BY <1>3, HalfFacts DEF RecoverBase, Executes, heldVars
<1>5. m.bk.round \in 1 .. rounds' /\ e.self.round \in 1 .. rounds'
    BY <1>1, <1>3, <1>4 DEF Backed
<1>6. rounds' \in Nat /\ rounds' >= rounds /\ rounds <= rounds'
    BY <1>1, <1>4
<1>7. EntOK(e, rounds')
    BY <1>2, <1>3, <1>6 DEF EntOK
<1>8. "recovered" \in Kinds /\ "backup" \in Kinds
    BY DEF Kinds
<1>9. /\ Free(Bags(up, d), Bad(rounds')) /\ up \in Ups /\ d \in Downs /\ d = down'
      /\ Bags(up, d) = Rest(g, k)
    BY <1>1, <1>6, BadMore
<1>9a. ents'[s][g].gate = f.gate
    BY <1>1, <1>3, <1>4, PutAt
<1> HIDE DEF e, f, s, u, d
<1>10. /\ u \in Ups /\ Free(Bags(u, d), Bad(rounds'))
       /\ Called(Bags(up, d), Bags(u, d), "recovered", s, g, m.from, m.bk)
  <2> DEFINE v == Call(up, "recovered", s, g, f, m.bk)
  <2>1. /\ v \in Ups /\ Free(Bags(v, d), Bad(rounds'))
        /\ Called(Bags(up, d), Bags(v, d), "recovered", s, g, m.from, m.bk)
      BY <1>1, <1>2, <1>4, <1>5, <1>8, <1>9, <1>9a, Calling
  <2> QED BY <2>1 DEF u
<1>11. /\ up' \in Ups /\ Free(Bags(up', d), Bad(rounds'))
       /\ Called(Bags(u, d), Bags(up', d), "backup", s, g, m.from, e.self)
  <2> DEFINE v == Call(u, "backup", s, g, f, e.self)
  <2>1. /\ v \in Ups /\ Free(Bags(v, d), Bad(rounds'))
        /\ Called(Bags(u, d), Bags(v, d), "backup", s, g, m.from, e.self)
      BY <1>1, <1>2, <1>3, <1>4, <1>5, <1>8, <1>9, <1>9a, <1>10, Calling
  <2> QED BY <2>1, <1>4
<1>12. QueuesOK' /\ Mail' = Bags(up', d)
    BY <1>9, <1>11 DEF QueuesOK, Mail
<1>13. EntsOK'
    BY <1>1, <1>4, <1>6, <1>7, PuttingOK
<1>14. Plain'
    BY <1>1, <1>4, <1>6, LateType DEF Plain
<1>15. Seated(s, g, m.from)
    BY <1>1, <1>3, <1>4, PutSeated
<1>16. TypeInv'
    BY <1>12, <1>13, <1>14, TypeSplit, PTL
<1>17. Bags(u, d) \in [Lanes -> Seq(Rpcs)]
    BY <1>9, <1>10, BagsType
<1> QED BY <1>3, <1>4, <1>9, <1>10, <1>11, <1>12, <1>15, <1>16, <1>17 DEF s

(* The half that is left rolls itself back.                                *)
LEMMA RolledBackFacts ==
    ASSUME NEW e \in Entities, NEW a \in Games
    PROVE  /\ RolledBack(e, a) \in Entities /\ RolledBack(e, a).addr = a
           /\ RolledBack(e, a).gate = e.gate
           /\ RolledBack(e, a).other = e.other /\ RolledBack(e, a).self = e.self
           /\ RolledBack(e, a).gold = e.self.gold
<1>1. e.self \in Backups /\ e.self.gold \in Nat
    BY DEF Entities, Backups
<1>2. RolledBack(e, a) = [e EXCEPT !.addr = a, !.gold = e.self.gold]
    BY DEF RolledBack
<1> QED BY <1>1, <1>2 DEF Entities

LEMMA BaseRecoveredDoes ==
    ASSUME TypeInv, NEW g \in Games, NEW k \in Gates, NEW m, Executes(g, k, m), BaseRecovered(g, m)
    PROVE  /\ TypeInv' /\ m.kind = "recovered" /\ m.half = "cell" /\ Seated("cell", g, m.from)
           /\ Has("cell", g) /\ Mail' = Rest(g, k) /\ handled' = handled
<1>1. EntsOK /\ Plain /\ rounds \in Nat /\ m.from \in Games
    BY ExecMail
<1> DEFINE s == "cell"
           e == RolledBack(ents[s][g], m.from)
<1>2. /\ UNCHANGED <<alive, known, reading, gifts, timed, fails, handled, again, unheld, up, rounds>>
      /\ late' = IF late THEN TRUE ELSE Residue
      /\ uneven' = (uneven \/ ents["cell"][g].self.round # m.bk.round)
      /\ m.kind = "recovered" /\ m.half = s /\ Has(s, g) /\ g \in alive /\ s \in Halves
    BY HalfFacts DEF BaseRecovered, Executes, heldVars
<1>3. ents' = [ents EXCEPT ![s][g] = e]
    BY <1>1, <1>2 DEF BaseRecovered, EntsOK
<1>4. /\ ents[s][g] \in Entities /\ EntOK(ents[s][g], rounds)
    BY <1>1, <1>2 DEF EntsOK, EntOK, Has
<1>5. e \in Entities /\ e.addr = m.from /\ e.other = ents[s][g].other
    BY <1>1, <1>4, RolledBackFacts
<1>6. rounds' \in Nat /\ rounds' >= rounds /\ EntOK(e, rounds')
    BY <1>1, <1>2, <1>4, <1>5 DEF EntOK
<1> HIDE DEF e, s
<1>7. QueuesOK' /\ Mail' = Rest(g, k)
    BY <1>2, ExecSilent
<1>8. EntsOK'
    BY <1>1, <1>2, <1>3, <1>6, PuttingOK
<1>9. Plain'
  <2>1. uneven' \in BOOLEAN
      BY <1>1, <1>2 DEF Plain
  <2> QED BY <2>1, <1>1, <1>2, LateType DEF Plain
<1>10. Seated(s, g, m.from)
    BY <1>1, <1>2, <1>3, <1>5, PutSeated
<1>11. TypeInv'
    BY <1>7, <1>8, <1>9, TypeSplit, PTL
<1> QED BY <1>2, <1>7, <1>10, <1>11 DEF s

LEMMA CellRecoveredDoes ==
    ASSUME TypeInv, NEW g \in Games, NEW k \in Gates, NEW m, Executes(g, k, m), CellRecovered(g, m)
    PROVE  /\ TypeInv' /\ m.kind = "recovered" /\ m.half = "base" /\ Seated("base", g, m.from)
           /\ Has("base", g) /\ handled' = handled
           /\ Called(Rest(g, k), Mail', "backup", "base", g, m.from,
                     [gold |-> ents["base"][g].self.gold, round |-> rounds + 1])
<1>1. EntsOK /\ Plain /\ rounds \in Nat /\ m.from \in Games
    BY ExecMail
<1> DEFINE s == "base"
           f == RolledBack(ents[s][g], m.from)
           e == BackedUp(f)
<1>2. /\ UNCHANGED <<alive, known, reading, gifts, timed, fails, handled, again, unheld>>
      /\ late' = IF late THEN TRUE ELSE Residue
      /\ uneven' = (uneven \/ f.self.round # m.bk.round)
      /\ m.kind = "recovered" /\ m.half = s /\ Has(s, g) /\ g \in alive /\ s \in Halves
      /\ rounds' = rounds + 1 /\ ents' = [ents EXCEPT ![s][g] = e]
      /\ up' = SendBackup(up, g, f)
    BY HalfFacts DEF CellRecovered, Executes, heldVars
<1>3. ents[s][g] \in Entities /\ EntOK(ents[s][g], rounds)
    BY <1>1, <1>2 DEF EntsOK, EntOK, Has
<1>4. /\ f \in Entities /\ f.addr = m.from /\ f.other = ents[s][g].other
      /\ f.gold = ents["base"][g].self.gold
    BY <1>1, <1>3, RolledBackFacts
<1> HIDE DEF f
<1>5. /\ e \in Entities /\ e.addr = m.from /\ e.other = f.other /\ e.gate = f.gate
      /\ e.self = [gold |-> ents["base"][g].self.gold, round |-> rounds + 1]
      /\ e.self \in Backups /\ e.self.round = rounds + 1
      /\ rounds + 1 \in Nat /\ rounds + 1 \in 1 .. rounds + 1
      /\ SendBackup(up, g, f) = Call(up, "backup", s, g, f, e.self)
    BY <1>1, <1>4, BackedUpFacts
<1>6. rounds' \in Nat /\ rounds' >= rounds /\ rounds <= rounds' /\ e.self.round \in 1 .. rounds'
    BY <1>1, <1>2, <1>5
<1>7. EntOK(e, rounds')
    BY <1>1, <1>3, <1>4, <1>5, <1>6 DEF EntOK
<1> HIDE DEF e, s
<1>8. QueuesOK' /\ Called(Rest(g, k), Mail', "backup", s, g, m.from, e.self)
  <2>1. "backup" \in Kinds
      BY DEF Kinds
  <2>2. ents'[s][g].gate = f.gate
      BY <1>1, <1>2, <1>5, PutAt
  <2> QED BY <2>1, <2>2, <1>1, <1>2, <1>4, <1>5, <1>6, ExecCalls
<1>9. EntsOK'
    BY <1>1, <1>2, <1>6, <1>7, PuttingOK
<1>10. Plain'
  <2>1. uneven' \in BOOLEAN
      BY <1>1, <1>2 DEF Plain
  <2> QED BY <2>1, <1>1, <1>2, <1>6, LateType DEF Plain
<1>11. Seated(s, g, m.from)
    BY <1>1, <1>2, <1>5, PutSeated
<1>12. TypeInv'
    BY <1>8, <1>9, <1>10, TypeSplit, PTL
<1> QED BY <1>2, <1>5, <1>8, <1>11, <1>12 DEF s

-----------------------------------------------------------------------------
(* The orders that a game gives when it learns of a death: for each half   *)
(* in T, those that are to ask, an rpc joins the queue to some gate.       *)
Sent(u, g, k, m, s, T) == IF s \in T THEN Send(u, g, k, m) ELSE u
Extra(h, j, g, k, m, s, T) == IF s \in T /\ h = g /\ k = j THEN <<m>> ELSE <<>>

Orderings(u, g, j1, j2, m1, m2, T) ==
    [u EXCEPT ![g] = [j \in Gates |->
        @[j] \o (IF "base" \in T /\ j1 = j THEN <<m1>> ELSE <<>>)
             \o (IF "cell" \in T /\ j2 = j THEN <<m2>> ELSE <<>>)]]

LEMMA SentFacts ==
    ASSUME NEW u \in Ups, NEW g \in Games, NEW k \in Gates, NEW m, NEW s, NEW T,
           s \in T => m \in Rpcs
    PROVE  /\ Sent(u, g, k, m, s, T) \in Ups
           /\ \A h \in Games, j \in Gates :
                 Sent(u, g, k, m, s, T)[h][j] = u[h][j] \o Extra(h, j, g, k, m, s, T)
<1>1. \A h \in Games, j \in Gates : u[h][j] \in Seq(Rpcs) /\ u[h][j] \o <<>> = u[h][j]
  <2> SUFFICES ASSUME NEW h \in Games, NEW j \in Gates
               PROVE  u[h][j] \in Seq(Rpcs) /\ u[h][j] \o <<>> = u[h][j]
      OBVIOUS
  <2>1. u[h][j] \in Seq(Rpcs)
      BY DEF Ups
  <2> QED BY <2>1, ConcatEmptySeq
<1>2. CASE s \in T
  <2>1. Sent(u, g, k, m, s, T) = Send(u, g, k, m) /\ m \in Rpcs
      BY <1>2 DEF Sent
  <2>2. Append(u[g][k], m) \in Seq(Rpcs) /\ Append(u[g][k], m) = u[g][k] \o <<m>>
      BY <1>1, <2>1, AppendIsConcat
  <2>3. /\ Send(u, g, k, m) \in Ups
        /\ Send(u, g, k, m)[g][k] = u[g][k] \o <<m>>
        /\ \A h \in Games, j \in Gates : ~(h = g /\ k = j) => Send(u, g, k, m)[h][j] = u[h][j]
      BY <2>2 DEF Send, Ups
  <2> HIDE DEF Send
  <2>4. ASSUME NEW h \in Games, NEW j \in Gates
        PROVE  Send(u, g, k, m)[h][j] = u[h][j] \o Extra(h, j, g, k, m, s, T)
    <3>1. CASE h = g /\ k = j
        BY <3>1, <2>3, <1>2 DEF Extra
    <3>2. CASE ~(h = g /\ k = j)
        BY <3>2, <2>3, <1>1 DEF Extra
    <3> QED BY <3>1, <3>2
  <2> QED BY <2>1, <2>3, <2>4
<1>3. CASE s \notin T
    BY <1>1, <1>3 DEF Sent, Extra
<1> QED BY <1>2, <1>3

LEMMA SameUps ==
    ASSUME NEW u \in Ups, NEW v \in Ups, \A h \in Games, j \in Gates : u[h][j] = v[h][j]
    PROVE  u = v
<1>1. \A h \in Games : u[h] = v[h]
    BY DEF Ups
<1> QED BY <1>1 DEF Ups

LEMMA OrderingsAre ==
    ASSUME NEW u \in Ups, NEW g \in Games, NEW j1 \in Gates, NEW j2 \in Gates,
           NEW m1, NEW m2, NEW T, "base" \in T => m1 \in Rpcs, "cell" \in T => m2 \in Rpcs
    PROVE  Orderings(u, g, j1, j2, m1, m2, T) =
              Sent(Sent(u, g, j1, m1, "base", T), g, j2, m2, "cell", T)
<1> DEFINE v == Orderings(u, g, j1, j2, m1, m2, T)
           x == Sent(u, g, j1, m1, "base", T)
           y == Sent(x, g, j2, m2, "cell", T)
           l1(j) == IF "base" \in T /\ j1 = j THEN <<m1>> ELSE <<>>
           l2(j) == IF "cell" \in T /\ j2 = j THEN <<m2>> ELSE <<>>
           f == [j \in Gates |-> u[g][j] \o l1(j) \o l2(j)]
<1>1. \A j \in Gates : l1(j) \in Seq(Rpcs) /\ l2(j) \in Seq(Rpcs) /\ u[g][j] \in Seq(Rpcs)
    BY DEF Ups
<1>2. v = [u EXCEPT ![g] = f]
    BY DEF Orderings, Ups
<1>3. x \in Ups /\ \A h \in Games, j \in Gates :
            x[h][j] = u[h][j] \o Extra(h, j, g, j1, m1, "base", T)
    BY SentFacts
<1> HIDE DEF x, v
<1>4. y \in Ups /\ \A h \in Games, j \in Gates :
            y[h][j] = x[h][j] \o Extra(h, j, g, j2, m2, "cell", T)
    BY <1>3, SentFacts
<1> HIDE DEF y
<1>5. \A j \in Gates : x[g][j] = u[g][j] \o l1(j) /\ y[g][j] = x[g][j] \o l2(j)
    BY <1>3, <1>4 DEF Extra
<1>6. \A h \in Games, j \in Gates : h # g => x[h][j] = u[h][j] \o <<>> /\ y[h][j] = x[h][j] \o <<>>
    BY <1>3, <1>4 DEF Extra
<1> HIDE DEF l1, l2
<1>7. f \in [Gates -> Seq(Rpcs)]
  <2> SUFFICES ASSUME NEW j \in Gates PROVE u[g][j] \o l1(j) \o l2(j) \in Seq(Rpcs)
      OBVIOUS
  <2>1. u[g][j] \o l1(j) \in Seq(Rpcs) /\ l2(j) \in Seq(Rpcs)
      BY <1>1
  <2> QED BY <2>1
<1>8. \A j \in Gates : f[j] = y[g][j]
    BY <1>5
<1> HIDE DEF f
<1>9. v \in Ups /\ v[g] = f /\ \A h \in Games : h # g => v[h] = u[h]
    BY <1>2, <1>7 DEF Ups
<1>10. \A h \in Games, j \in Gates : h # g => y[h][j] = u[h][j]
  <2> SUFFICES ASSUME NEW h \in Games, NEW j \in Gates, h # g PROVE y[h][j] = u[h][j]
      OBVIOUS
  <2>1. u[h][j] \in Seq(Rpcs) /\ x[h][j] \in Seq(Rpcs)
      BY <1>3 DEF Ups
  <2> QED BY <2>1, <1>6, ConcatEmptySeq
<1>11. \A h \in Games, j \in Gates : v[h][j] = y[h][j]
    BY <1>8, <1>9, <1>10
<1>12. v = y
    BY <1>4, <1>9, <1>11, SameUps
<1> QED BY <1>12 DEF v, y, x

(* Half s in game g asks for the other half to be rebuilt, or need not.    *)
Asked(q, r, s, g, T) ==
    \/ s \notin T /\ r = q
    \/ s \in T /\ \E k \in Gates, m \in Rpcs :
                     /\ m.kind = "recover" /\ m.half = Other(s) /\ m.from = g
                     /\ m.bk = ents[s][g].other
                     /\ r = Joined(q, Up(g, k), <<m>>)

LEMMA Asking ==
    ASSUME NEW u \in Ups, NEW d \in Downs, NEW n, Free(Bags(u, d), Bad(n)),
           NEW s \in Halves, NEW g \in Games, NEW k \in Gates, NEW m, NEW T,
           s \in T => /\ m \in Rpcs /\ m.kind = "recover" /\ m.half = Other(s) /\ m.from = g
                      /\ m.bk.round \in 1 .. n /\ m.bk = ents[s][g].other
    PROVE  /\ Sent(u, g, k, m, s, T) \in Ups
           /\ Free(Bags(Sent(u, g, k, m, s, T), d), Bad(n))
           /\ Asked(Bags(u, d), Bags(Sent(u, g, k, m, s, T), d), s, g, T)
<1>1. CASE s \notin T
    BY <1>1 DEF Sent, Asked
<1>2. CASE s \in T
  <2>1. Sent(u, g, k, m, s, T) = Send(u, g, k, m) /\ m \in Rpcs
      BY <1>2 DEF Sent
  <2>2. m \notin Bad(n)
      BY <1>2 DEF Bad
  <2>3. Free(Bags(Send(u, g, k, m), d), Bad(n))
      BY <2>1, <2>2, PostFree
  <2>4. /\ Send(u, g, k, m) \in Ups
        /\ Bags(Send(u, g, k, m), d) = Joined(Bags(u, d), Up(g, k), <<m>>)
      BY <2>1, Posting
  <2> QED BY <1>2, <2>1, <2>3, <2>4 DEF Asked
<1> QED BY <1>1, <1>2

(* Whether game g has sent an order after the deadline, and then another.  *)
Noted(g, a) ==
    /\ \A h \in Games : /\ again[h] \subseteq again'[h]
                         /\ \A b \in again'[h] : b \in again[h] \/ (h = g /\ b = a)
    /\ unheld => unheld'
    /\ handled[g][a] = "passed" /\ ToRecover(g, a) # {} =>
          a \in again'[g] /\ (a \in again[g] => unheld')

LEMMA OnGameDisappearDoes ==
    ASSUME TypeInv, NEW g \in Games, NEW k \in Gates, NEW m, Executes(g, k, m),
           OnGameDisappear(g, m)
    PROVE  /\ TypeInv' /\ Unmoved /\ ents' = ents /\ m.kind = "disappear"
           /\ \/ Handled(g, m) /\ Mail' = Rest(g, k) /\ UNCHANGED <<handled, again, unheld>>
              \/ /\ ~Handled(g, m) /\ Noted(g, m.addr)
                 /\ \A h, a \in Games : handled'[h][a] =
                       IF h = g /\ a = m.addr /\ handled[h][a] = "none" THEN "ahead"
                       ELSE handled[h][a]
                 /\ \E q \in [Lanes -> Seq(Rpcs)] :
                       /\ Asked(Rest(g, k), q, "base", g, ToRecover(g, m.addr))
                       /\ Asked(q, Mail', "cell", g, ToRecover(g, m.addr))
<1>1. /\ EntsOK /\ Plain /\ rounds \in Nat /\ m.addr \in Games
      /\ up \in Ups /\ down' \in Downs /\ Bags(up, down') = Rest(g, k)
      /\ Free(Rest(g, k), Bad(rounds))
    BY ExecMail
<1>2. /\ UNCHANGED <<alive, known, reading, gifts, timed, fails, ents, rounds, uneven, late>>
      /\ m.kind = "disappear" /\ g \in alive
    BY DEF OnGameDisappear, Executes, ghostVars, heldVars
<1>3. EntsOK'
  <2>1. rounds' \in Nat /\ rounds' >= rounds
      BY <1>1, <1>2
  <2> QED BY <2>1, <1>1, <1>2, SameEnts
<1>4. Unmoved
    BY <1>2 DEF Unmoved, Has, Addr
<1>5. CASE Handled(g, m) /\ UNCHANGED <<heldVars, up>>
  <2>1. QueuesOK' /\ Mail' = Rest(g, k)
      BY <1>2, <1>5, ExecSilent
  <2>4. UNCHANGED <<handled, again, unheld>>
      BY <1>5 DEF heldVars
  <2>2. Plain'
      BY <1>1, <1>2, <2>4 DEF Plain
  <2>3. TypeInv'
      BY <1>3, <2>1, <2>2, TypeSplit, PTL
  <2> QED BY <1>2, <1>4, <1>5, <2>1, <2>3, <2>4
<1>6. CASE ~(Handled(g, m) /\ UNCHANGED <<heldVars, up>>)
  <2> DEFINE T == ToRecover(g, m.addr)
             m1 == Rpc("recover", "cell", g, g, ents["base"][g].other)
             m2 == Rpc("recover", "base", g, g, ents["cell"][g].other)
  <2>1. /\ ~Handled(g, m)
        /\ handled' = [handled EXCEPT ![g][m.addr] = IF @ = "none" THEN "ahead" ELSE @]
        /\ IF handled[g][m.addr] = "passed" /\ T # {}
           THEN /\ again' = [again EXCEPT ![g] = @ \cup {m.addr}]
                /\ unheld' = (unheld \/ m.addr \in again[g])
           ELSE UNCHANGED <<again, unheld>>
        /\ \E j \in [Halves -> Gates] :
              up' = Orderings(up, g, j["base"], j["cell"], m1, m2, T)
      BY <1>6 DEF OnGameDisappear, Orderings
  <2>2. PICK j \in [Halves -> Gates] :
           up' = Orderings(up, g, j["base"], j["cell"], m1, m2, T)
      BY <2>1
  <2> DEFINE j1 == j["base"]
             j2 == j["cell"]
             d == down'
             x == Sent(up, g, j1, m1, "base", T)
             y == Sent(x, g, j2, m2, "cell", T)
  <2>3. j1 \in Gates /\ j2 \in Gates /\ up' = Orderings(up, g, j1, j2, m1, m2, T)
      BY <2>2, HalfFacts
  <2>4. \A s \in Halves : s \in T =>
             /\ "recover" \in Kinds /\ Other(s) \in Halves /\ ents[s][g].other \in Backups
             /\ ents[s][g].other.round \in 1 .. rounds
      BY <1>1, EntityFacts, HalfFacts DEF ToRecover, Kinds
  <2>5. /\ "base" \in T => /\ m1 \in Rpcs /\ m1.kind = "recover" /\ m1.half = Other("base")
                           /\ m1.from = g /\ m1.bk.round \in 1 .. rounds
                           /\ m1.bk = ents["base"][g].other
        /\ "cell" \in T => /\ m2 \in Rpcs /\ m2.kind = "recover" /\ m2.half = Other("cell")
                           /\ m2.from = g /\ m2.bk.round \in 1 .. rounds
                           /\ m2.bk = ents["cell"][g].other
    <3>1. ASSUME "base" \in T
          PROVE  /\ m1 \in Rpcs /\ m1.kind = "recover" /\ m1.half = Other("base")
                 /\ m1.from = g /\ m1.bk.round \in 1 .. rounds
                 /\ m1.bk = ents["base"][g].other
        BY <3>1, <2>4, HalfFacts, MakeRpc
    <3>2. ASSUME "cell" \in T
          PROVE  /\ m2 \in Rpcs /\ m2.kind = "recover" /\ m2.half = Other("cell")
                 /\ m2.from = g /\ m2.bk.round \in 1 .. rounds
                 /\ m2.bk = ents["cell"][g].other
        BY <3>2, <2>4, HalfFacts, MakeRpc
    <3> QED BY <3>1, <3>2
  <2> HIDE DEF m1, m2, T, j1, j2, d
  <2>6. up' = y
      BY <2>3, <2>5, <1>1, OrderingsAre
  <2>7. /\ d \in Downs /\ Free(Bags(up, d), Bad(rounds)) /\ up \in Ups /\ d = down'
        /\ Bags(up, d) = Rest(g, k)
      BY <1>1 DEF d
  <2>8. /\ x \in Ups /\ Free(Bags(x, d), Bad(rounds))
        /\ Asked(Bags(up, d), Bags(x, d), "base", g, T)
      BY <2>3, <2>5, <2>7, HalfFacts, Asking
  <2> HIDE DEF x
  <2>9. /\ y \in Ups /\ Free(Bags(y, d), Bad(rounds))
        /\ Asked(Bags(x, d), Bags(y, d), "cell", g, T)
      BY <2>3, <2>5, <2>7, <2>8, HalfFacts, Asking
  <2> HIDE DEF y
  <2>10. Mail' = Bags(y, d) /\ QueuesOK'
      BY <1>2, <2>6, <2>7, <2>9 DEF QueuesOK, Mail
  <2>11. \A h, a \in Games : handled'[h][a] =
            IF h = g /\ a = m.addr /\ handled[h][a] = "none" THEN "ahead" ELSE handled[h][a]
      BY <1>1, <2>1 DEF Plain
  <2>12. handled' \in [Games -> [Games -> Deadlines]]
      BY <1>1, <2>1 DEF Plain, Deadlines
  <2>12a. /\ again' \in [Games -> SUBSET Games] /\ unheld' \in BOOLEAN
          /\ Noted(g, m.addr)
    <3>1. CASE handled[g][m.addr] = "passed" /\ T # {}
      <4>1. again' = [again EXCEPT ![g] = @ \cup {m.addr}] /\ unheld' = (unheld \/ m.addr \in again[g])
          BY <3>1, <2>1
      <4>2. again \in [Games -> SUBSET Games] /\ unheld \in BOOLEAN
          BY <1>1 DEF Plain
      <4>3. /\ again' \in [Games -> SUBSET Games] /\ m.addr \in again'[g]
            /\ \A h \in Games : /\ again[h] \subseteq again'[h]
                                 /\ \A b \in again'[h] : b \in again[h] \/ (h = g /\ b = m.addr)
          BY <4>1, <4>2, <1>1
      <4>4. unheld' \in BOOLEAN /\ (unheld => unheld') /\ (m.addr \in again[g] => unheld')
          BY <4>1, <4>2
      <4> QED BY <4>3, <4>4 DEF Noted
    <3>2. CASE ~(handled[g][m.addr] = "passed" /\ T # {})
      <4>1. UNCHANGED <<again, unheld>>
          BY <3>2, <2>1
      <4> QED BY <4>1, <3>2, <1>1 DEF Noted, Plain, T
    <3> QED BY <3>1, <3>2
  <2>13. Plain'
      BY <1>1, <1>2, <2>12, <2>12a DEF Plain
  <2>14. TypeInv'
      BY <1>3, <2>10, <2>13, TypeSplit, PTL
  <2>15. Bags(x, d) \in [Lanes -> Seq(Rpcs)]
      BY <2>7, <2>8, BagsType
  <2>16. \E q \in [Lanes -> Seq(Rpcs)] :
            /\ Asked(Rest(g, k), q, "base", g, T) /\ Asked(q, Mail', "cell", g, T)
      BY <2>7, <2>8, <2>9, <2>10, <2>15
  <2> QED BY <1>2, <1>4, <2>1, <2>11, <2>12a, <2>14, <2>16 DEF T
<1> QED BY <1>5, <1>6

-----------------------------------------------------------------------------
(* Types, for any games and gates. *)
(* One of the handlers of a game takes m. *)
Handles(g, m) ==
    \/ Dropped(g, m) \/ ExecGift(g, m) \/ OnGameDisappear(g, m)
    \/ CellDisasterBackup(g, m) \/ BaseDisasterBackup(g, m)
    \/ RecoverCell(g, m) \/ RecoverBase(g, m)
    \/ CellRecovered(g, m) \/ BaseRecovered(g, m)

LEMMA ExecIs ==
    ASSUME NEW g \in Games, Exec(g)
    PROVE  \E k \in Gates : \E m : Executes(g, k, m) /\ Handles(g, m)
BY DEF Exec, Executes, Handles, DownLess, boundVars, gateVars

LEMMA TypeInit == Init => TypeInv /\ Mail = [w \in Lanes |-> <<>>]
<1> SUFFICES ASSUME Init PROVE TypeInv /\ Mail = [w \in Lanes |-> <<>>]
    OBVIOUS
<1>1. /\ NoBackup \in Backups /\ Gold \in Nat /\ Base0 \in Games /\ Cell0 \in Games
      /\ Fixed[Base0][Cell0] \in Gates /\ Fixed[Cell0][Base0] \in Gates
    BY BackupFacts, PlacesAssumption
<1> DEFINE b == Entity(Base0, Cell0, Gold)
           c == Entity(Cell0, Base0, Gold)
<1>2. b \in Entities /\ c \in Entities /\ b.other = NoBackup /\ c.other = NoBackup
    BY <1>1 DEF Entity, Entities
<1>3. ents = [s \in Halves |-> [g \in Games |->
                 IF s = "base" /\ g = Base0 THEN b
                 ELSE IF s = "cell" /\ g = Cell0 THEN c ELSE None]]
    BY DEF Init
<1> HIDE DEF b, c
<1>4. EntsOK
  <2>1. ents \in [Halves -> [Games -> Entities \cup {None}]]
      BY <1>2, <1>3
  <2> SUFFICES ASSUME NEW s \in Halves, NEW g \in Games, ents[s][g].exists
               PROVE  g \in alive /\ EntOK(ents[s][g], rounds)
      BY <2>1 DEF EntsOK
  <2>2. g \in alive
      BY DEF Init
  <2>3. ents[s][g] = b \/ ents[s][g] = c
      BY <1>3 DEF None
  <2> QED BY <2>2, <2>3, <1>2 DEF EntOK
<1>5. Plain
    BY DEF Init, Plain, Deadlines
<1>6. up \in Ups /\ down \in Downs /\ \A g \in Games, k \in Gates : up[g][k] = <<>> /\ down[k][g] = <<>>
    BY DEF Init, Ups, Downs
<1>7. Mail = [w \in Lanes |-> <<>>]
    BY <1>6, LaneFacts DEF Mail, Bags
<1>8. Free(Mail, Bad(rounds))
    BY <1>7 DEF Free
<1>9. TypeInv
    BY <1>4, <1>5, <1>6, <1>8, TypeSplit DEF QueuesOK
<1> QED BY <1>7, <1>9

LEMMA TypeStep == TypeInv /\ [Next]_vars => TypeInv'
<1> SUFFICES ASSUME TypeInv, [Next]_vars PROVE TypeInv'
    OBVIOUS
<1>1. ASSUME NEW g \in Games, Exec(g) PROVE TypeInv'
  <2>1a. PICK k \in Gates : \E m : Executes(g, k, m) /\ Handles(g, m)
      BY <1>1, ExecIs
  <2>1. PICK m :
            /\ Executes(g, k, m)
            /\ \/ Dropped(g, m) \/ ExecGift(g, m) \/ OnGameDisappear(g, m)
               \/ CellDisasterBackup(g, m) \/ BaseDisasterBackup(g, m)
               \/ RecoverCell(g, m) \/ RecoverBase(g, m)
               \/ CellRecovered(g, m) \/ BaseRecovered(g, m)
      BY <2>1a DEF Handles
  <2>2. CASE Dropped(g, m) \/ ExecGift(g, m) \/ OnGameDisappear(g, m)
      BY <2>1, <2>2, DroppedDoes, ExecGiftDoes, OnGameDisappearDoes
  <2>3. CASE CellDisasterBackup(g, m) \/ BaseDisasterBackup(g, m)
      BY <2>1, <2>3, CellDisasterBackupDoes, BaseDisasterBackupDoes
  <2>4. CASE RecoverCell(g, m) \/ RecoverBase(g, m)
      BY <2>1, <2>4, RecoverCellDoes, RecoverBaseDoes
  <2>5. CASE CellRecovered(g, m) \/ BaseRecovered(g, m)
      BY <2>1, <2>5, CellRecoveredDoes, BaseRecoveredDoes
  <2> QED BY <2>1, <2>2, <2>3, <2>4, <2>5
<1>2. ASSUME NEW g \in Games, TimeToDisasterBackup(g) \/ Die(g) PROVE TypeInv'
    BY <1>2, TimeToDisasterBackupDoes, DieDoes
<1>3. ASSUME NEW g \in Games, NEW a \in Games, WindowEnds(g, a) PROVE TypeInv'
    BY <1>3, WindowEndsDoes
<1>4. ASSUME NEW g \in Games, NEW s \in Halves, Give(s, g) \/ LoseTouch(s, g) PROVE TypeInv'
    BY <1>4, GiveDoes, LoseTouchDoes
<1>5. ASSUME NEW k \in Gates, NEW g \in Games, ReadFails(k, g) \/ WriteFails(k, g) \/ Relay(k, g)
      PROVE  TypeInv'
    BY <1>5, OnRemoteDisconnectedDoes, RelayDoes DEF Reports
<1>6. CASE UNCHANGED vars
  <2>1. EntsOK /\ Plain /\ QueuesOK
      BY TypeSplit
  <2>2. UNCHANGED <<alive, ents, handled, again, unheld, up, down, known, reading, rounds, gifts, timed, fails, uneven, late>>
      BY <1>6 DEF vars, netVars, boundVars, ghostVars, heldVars, gateVars
  <2>3. EntsOK' /\ Plain'
      BY <2>1, <2>2 DEF EntsOK, Plain
  <2>4. QueuesOK'
      BY <2>1, <2>2 DEF QueuesOK, Mail
  <2> QED BY <2>3, <2>4, TypeSplit, PTL
<1> QED BY <1>1, <1>2, <1>3, <1>4, <1>5, <1>6 DEF Next

(* TypeOK: whatever the games, the gates and the bounds, the tables and    *)
(* queues hold what they should, and every backup that is sent or used was *)
(* made.                                                                   *)
THEOREM TypeCorrect == Spec => []TypeOK
<1>1. Init => TypeInv
    BY TypeInit
<1>2. TypeInv /\ [Next]_vars => TypeInv'
    BY TypeStep
<1>3. TypeInv => TypeOK
    BY DEF TypeInv
<1> QED BY <1>1, <1>2, <1>3, PTL DEF Spec

-----------------------------------------------------------------------------
(* What becomes of the letters of the kinds within X: there are no new ones *)
(* of a kind that is absent, or single; none goes.                          *)
Keeps(q, r, X) == \A K \in SUBSET X : /\ Free(q, K) => Free(r, K)
                                      /\ Single(q, K) => Single(r, K)
Holds(q, r, X) == \A K \in SUBSET X : Free(r, K) => Free(q, K)

LEMMA KeepsSelf == ASSUME NEW q, NEW X PROVE Keeps(q, q, X) /\ Holds(q, q, X)
BY DEF Keeps, Holds

LEMMA KeepsTrans ==
    ASSUME NEW q, NEW r, NEW t, NEW X
    PROVE  /\ Keeps(q, r, X) /\ Keeps(r, t, X) => Keeps(q, t, X)
           /\ Holds(q, r, X) /\ Holds(r, t, X) => Holds(q, t, X)
BY DEF Keeps, Holds

LEMMA KeepsSame ==
    ASSUME NEW q, NEW r, NEW X, Same(q, r, X)
    PROVE  Keeps(q, r, X) /\ Holds(q, r, X)
<1> SUFFICES ASSUME NEW K \in SUBSET X
             PROVE  /\ Free(q, K) <=> Free(r, K)
                    /\ Single(q, K) => Single(r, K)
    BY DEF Keeps, Holds
<1>1. Free(r, K) <=> Free(q, K)
    BY SameFree
<1>2. Single(q, K) => Single(r, K)
    BY SameSingle
<1> QED BY <1>1, <1>2

LEMMA KeepsTake ==
    ASSUME NEW q \in [Lanes -> Seq(Rpcs)], NEW w \in Lanes, q[w] # <<>>, NEW X
    PROVE  /\ Keeps(q, Taken(q, w), X)
           /\ Head(q[w]) \notin X => Holds(q, Taken(q, w), X)
           /\ Taken(q, w) \in [Lanes -> Seq(Rpcs)]
<1> DEFINE r == Taken(q, w)
<1>1. r = Taken(q, w)
    OBVIOUS
<1> HIDE DEF r
<1>2. \A K : /\ Free(q, K) => Free(r, K)
             /\ Head(q[w]) \notin K /\ Free(r, K) => Free(q, K)
    BY <1>1, TakeFree
<1>3. \A K : Single(q, K) => Single(r, K)
    BY <1>1, TakeSingle
<1>4. r \in [Lanes -> Seq(Rpcs)]
    BY <1>1, TakenAt
<1>5. Keeps(q, r, X)
    BY <1>2, <1>3 DEF Keeps
<1>6. Head(q[w]) \notin X => Holds(q, r, X)
    BY <1>2 DEF Holds
<1> QED BY <1>4, <1>5, <1>6 DEF r

LEMMA KeepsJoin ==
    ASSUME NEW q \in [Lanes -> Seq(Rpcs)], NEW w \in Lanes, NEW m \in Rpcs, NEW X, m \notin X
    PROVE  /\ Keeps(q, Joined(q, w, <<m>>), X) /\ Holds(q, Joined(q, w, <<m>>), X)
           /\ Joined(q, w, <<m>>) \in [Lanes -> Seq(Rpcs)]
<1> DEFINE r == Joined(q, w, <<m>>)
<1>1. r = Joined(q, w, <<m>>) /\ <<m>> \in Seq(Rpcs) /\ Without(<<m>>, X)
    BY OneRpc
<1> HIDE DEF r
<1>2. r \in [Lanes -> Seq(Rpcs)] /\ Same(q, r, X)
    BY <1>1, JoinSame
<1> QED BY <1>2, KeepsSame DEF r

LEMMA JoinType ==
    ASSUME NEW q \in [Lanes -> Seq(Rpcs)], NEW w \in Lanes, NEW m \in Rpcs
    PROVE  Joined(q, w, <<m>>) \in [Lanes -> Seq(Rpcs)]
<1>1. m \notin {}
    OBVIOUS
<1> QED BY <1>1, KeepsJoin

LEMMA KeepsMove ==
    ASSUME NEW q \in [Lanes -> Seq(Rpcs)], NEW v \in Lanes, NEW w \in Lanes, v # w,
           q[v] # <<>>, NEW X
    PROVE  LET r == Joined(Taken(q, v), w, <<Head(q[v])>>)
           IN  Keeps(q, r, X) /\ Holds(q, r, X) /\ r \in [Lanes -> Seq(Rpcs)]
<1> DEFINE r == Moved(q, v, w)
<1>1. r = Moved(q, v, w)
    OBVIOUS
<1>2. r = Joined(Taken(q, v), w, <<Head(q[v])>>)
  <2>1. q[v] \in Seq(Rpcs) /\ q[w] \in Seq(Rpcs) /\ Head(q[v]) \in Rpcs
      OBVIOUS
  <2>2. Append(q[w], Head(q[v])) = q[w] \o <<Head(q[v])>>
      BY <2>1, AppendIsConcat
  <2> QED BY <2>2 DEF Moved, Joined, Taken
<1> HIDE DEF r
<1>3. \A K : Free(r, K) <=> Free(q, K)
    BY <1>1, MoveFree
<1>4. \A K : Single(q, K) => Single(r, K)
    BY <1>1, MoveSingle
<1>5. r \in [Lanes -> Seq(Rpcs)]
    BY <1>1, MovedAt
<1> QED BY <1>2, <1>3, <1>4, <1>5 DEF Keeps, Holds

LEMMA KeepsCut ==
    ASSUME NEW q \in [Lanes -> Seq(Rpcs)], NEW r, Cut(q, r), NEW X
    PROVE  Keeps(q, r, X)
<1>1. DOMAIN q = Lanes /\ DOMAIN r = Lanes
    BY DEF Cut
<1>2. \A w \in Lanes : \A i \in 1 .. Len(r[w]) : i \in 1 .. Len(q[w]) /\ r[w][i] = q[w][i]
    BY DEF Cut
<1> SUFFICES ASSUME NEW K \in SUBSET X
             PROVE  /\ Free(q, K) => Free(r, K)
                    /\ Single(q, K) => Single(r, K)
    BY DEF Keeps
<1>3. Free(q, K) => Free(r, K)
    BY <1>1, <1>2 DEF Free
<1>4. ASSUME Single(q, K) PROVE Single(r, K)
  <2> SUFFICES ASSUME NEW v \in Lanes, NEW w \in Lanes, NEW i \in 1 .. Len(r[v]),
                      NEW j \in 1 .. Len(r[w]), r[v][i] \in K, r[w][j] \in K
               PROVE  v = w /\ i = j
      BY <1>1 DEF Single
  <2>1. /\ i \in 1 .. Len(q[v]) /\ q[v][i] \in K
        /\ j \in 1 .. Len(q[w]) /\ q[w][j] \in K
      BY <1>2
  <2> QED BY <1>1, <1>4, <2>1 DEF Single
<1> QED BY <1>3, <1>4

(* A call joins one queue. *)
LEMMA CalledIs ==
    ASSUME NEW q \in [Lanes -> Seq(Rpcs)], NEW r, NEW kind, NEW s, NEW g \in Games, NEW a, NEW b,
           Called(q, r, kind, s, g, a, b)
    PROVE  /\ r \in [Lanes -> Seq(Rpcs)]
           /\ \A X : (\A m \in Rpcs : m.kind = kind => m \notin X) => Keeps(q, r, X) /\ Holds(q, r, X)
<1>1. PICK k \in Gates, m \in Rpcs : m.kind = kind /\ r = Joined(q, Up(g, k), <<m>>)
    BY DEF Called
<1>2. Up(g, k) \in Lanes
    BY LaneFacts
<1>3. r \in [Lanes -> Seq(Rpcs)]
    BY <1>1, <1>2, JoinType
<1>4. ASSUME NEW X, \A l \in Rpcs : l.kind = kind => l \notin X
      PROVE  Keeps(q, r, X) /\ Holds(q, r, X)
  <2>1. m \notin X
      BY <1>1, <1>4
  <2> QED BY <2>1, <1>1, <1>2, KeepsJoin
<1> QED BY <1>3, <1>4

-----------------------------------------------------------------------------
(* Rpcs are where their senders and receivers are. *)
LEMMA PlacedTake ==
    ASSUME NEW q \in [Lanes -> Seq(Rpcs)], NEW w \in Lanes, q[w] # <<>>, Placed(q)
    PROVE  Placed(Taken(q, w)) /\ PlacedAt(w, Head(q[w]))
<1> DEFINE r == Taken(q, w)
<1>1. r \in [Lanes -> Seq(Rpcs)] /\ AfterTake(Lanes, q, w, r)
    BY TakenAt
<1> HIDE DEF r
<1>2. DOMAIN q = Lanes /\ DOMAIN r = Lanes
    BY <1>1
<1>3. PlacedAt(w, Head(q[w]))
    BY <1>1, <1>2 DEF AfterTake, Placed
<1>4. Placed(r)
  <2> SUFFICES ASSUME NEW u \in Lanes, NEW i \in 1 .. Len(r[u]) PROVE PlacedAt(u, r[u][i])
      BY <1>2 DEF Placed
  <2>1. \E k \in 1 .. Len(q[u]) : r[u][i] = q[u][k]
      BY <1>1 DEF AfterTake
  <2> QED BY <2>1, <1>2 DEF Placed
<1> QED BY <1>3, <1>4 DEF r

LEMMA PlacedJoin ==
    ASSUME NEW q \in [Lanes -> Seq(Rpcs)], NEW w \in Lanes, NEW m \in Rpcs, PlacedAt(w, m),
           Placed(q)
    PROVE  Placed(Joined(q, w, <<m>>))
<1> DEFINE r == Joined(q, w, <<m>>)
           K(u) == {l \in Rpcs : ~PlacedAt(u, l)}
<1>1. r = Joined(q, w, <<m>>) /\ <<m>> \in Seq(Rpcs) /\ r \in [Lanes -> Seq(Rpcs)]
    BY OneRpc, JoinType
<1> HIDE DEF r
<1>2. DOMAIN q = Lanes /\ DOMAIN r = Lanes
    BY <1>1
<1>3. q[w] \in Seq(Rpcs) /\ r[w] = q[w] \o <<m>> /\ \A u \in Lanes : u # w => r[u] = q[u]
    BY <1>1 DEF Joined
<1>4. \A i \in 1 .. Len(r[w]) : (i \in 1 .. Len(q[w]) /\ r[w][i] = q[w][i]) \/ r[w][i] = m
  <2> DEFINE x == q[w]
             y == r[w]
  <2>1. x \in Seq(Rpcs) /\ y = x \o <<m>>
      BY <1>3
  <2> HIDE DEF x, y
  <2>2. Len(y) = Len(x) + 1 /\ Len(x) \in Nat /\ y[Len(x) + 1] = m
        /\ \A i \in 1 .. Len(x) : y[i] = x[i]
      BY <2>1
  <2>3. \A i \in 1 .. Len(y) : (i \in 1 .. Len(x) /\ y[i] = x[i]) \/ y[i] = m
      BY <2>2
  <2> QED BY <2>3 DEF x, y
<1> SUFFICES ASSUME NEW u \in Lanes, NEW i \in 1 .. Len(r[u]) PROVE PlacedAt(u, r[u][i])
    BY <1>1, <1>2 DEF Placed
<1>5. CASE u = w
    BY <1>5, <1>2, <1>4 DEF Placed
<1>6. CASE u # w
    BY <1>6, <1>2, <1>3 DEF Placed
<1> QED BY <1>5, <1>6

LEMMA PlacedCalled ==
    ASSUME NEW q \in [Lanes -> Seq(Rpcs)], NEW r, NEW kind, NEW s, NEW g \in Games, NEW a, NEW b,
           Called(q, r, kind, s, g, a, b), kind # "disappear", Placed(q)
    PROVE  Placed(r)
<1>1. PICK k \in Gates, m \in Rpcs : /\ m.kind = kind /\ m.from = g
                                     /\ r = Joined(q, Up(g, k), <<m>>)
    BY DEF Called
<1>2. Up(g, k) \in Lanes /\ PlacedAt(Up(g, k), m)
    BY <1>1, LaneFacts DEF PlacedAt
<1> QED BY <1>1, <1>2, PlacedJoin

LEMMA PlacedAsked ==
    ASSUME NEW q \in [Lanes -> Seq(Rpcs)], NEW r, NEW s, NEW g \in Games, NEW T,
           Asked(q, r, s, g, T), Placed(q)
    PROVE  Placed(r)
<1>1. CASE r = q
    BY <1>1
<1>2. ASSUME NEW k \in Gates, NEW m \in Rpcs, m.kind = "recover", m.from = g,
             r = Joined(q, Up(g, k), <<m>>)
      PROVE  Placed(r)
  <2>1. Up(g, k) \in Lanes /\ PlacedAt(Up(g, k), m)
      BY <1>2, LaneFacts DEF PlacedAt
  <2> QED BY <1>2, <2>1, PlacedJoin
<1> QED BY <1>1, <1>2 DEF Asked

LEMMA PlacedCut ==
    ASSUME NEW q \in [Lanes -> Seq(Rpcs)], NEW r, Cut(q, r), Placed(q)
    PROVE  Placed(r)
BY DEF Cut, Placed

LEMMA PlacedTold ==
    ASSUME NEW q \in [Lanes -> Seq(Rpcs)], NEW r, Told(q, r), Placed(q)
    PROVE  Placed(r)
<1>1. DOMAIN q = Lanes /\ DOMAIN r = Lanes
    BY DEF Told
<1> SUFFICES ASSUME NEW u \in Lanes, NEW i \in 1 .. Len(r[u]) PROVE PlacedAt(u, r[u][i])
    BY <1>1 DEF Placed
<1>2. CASE r[u] = q[u]
    BY <1>1, <1>2 DEF Placed
<1>3. ASSUME NEW m \in Rpcs, m.kind = "disappear", u[1] = "down", r[u] = Append(q[u], m)
      PROVE  PlacedAt(u, r[u][i])
  <2> DEFINE x == q[u]
             y == r[u]
  <2>1. x \in Seq(Rpcs) /\ y = Append(x, m) /\ i \in 1 .. Len(y)
      BY <1>3
  <2> HIDE DEF x, y
  <2>2. y[i] = m \/ (i \in 1 .. Len(x) /\ y[i] = x[i])
      BY <2>1
  <2>3. PlacedAt(u, m)
      BY <1>3 DEF PlacedAt
  <2> QED BY <2>2, <2>3, <1>1 DEF Placed, x, y
<1> QED BY <1>2, <1>3 DEF Told

LEMMA PlacedRelay ==
    ASSUME TypeInv, Placed(Mail), NEW k \in Gates, NEW g \in Games, Relay(k, g)
    PROVE  Placed(Mail') /\ PlacedAt(Up(g, k), Head(up[g][k]))
<1> DEFINE m == Head(up[g][k])
           w == Up(g, k)
           r == Taken(Mail, w)
<1>1. m = Head(up[g][k])
    OBVIOUS
<1> HIDE DEF m
<1>2. /\ m \in Rpcs /\ Mail[w] # <<>> /\ Head(Mail[w]) = m
      /\ \/ \E h \in Targets(k, m) \cap alive : h \in Games /\ Relayed(Mail, Mail', g, k, h, m)
         \/ Lost(Mail, Mail', g, k)
    BY <1>1, RelayDoes
<1>3. w \in Lanes /\ w[1] = "up" /\ Mail \in [Lanes -> Seq(Rpcs)]
    BY LaneFacts, MailType
<1> HIDE DEF w
<1>4. Placed(r) /\ PlacedAt(w, m) /\ r \in [Lanes -> Seq(Rpcs)]
    BY <1>2, <1>3, PlacedTake, KeepsTake
<1> HIDE DEF r
<1>5. ASSUME NEW h \in Targets(k, m) \cap alive, h \in Games, Relayed(Mail, Mail', g, k, h, m)
      PROVE  Placed(Mail')
  <2>1. Down(k, h) \in Lanes /\ Down(k, h)[1] = "down" /\ Down(k, h)[2] = h
      BY <1>5, LaneFacts
  <2>3. m.kind \in {"gift", "backup", "recovered"} => m.addr = h
      BY DEF Targets
  <2>4. PlacedAt(Down(k, h), m)
      BY <2>1, <2>3 DEF PlacedAt
  <2>5. Mail' = Joined(r, Down(k, h), <<m>>)
      BY <1>5 DEF Relayed, r, w
  <2> QED BY <1>2, <1>4, <2>1, <2>4, <2>5, PlacedJoin
<1>6. ASSUME Lost(Mail, Mail', g, k) PROVE Placed(Mail')
  <2>1. Mail' = r
      BY <1>6 DEF Lost, r, w
  <2> QED BY <2>1, <1>4
<1> QED BY <1>1, <1>2, <1>4, <1>5, <1>6 DEF w

LEMMA PlacedExec ==
    ASSUME TypeInv, Placed(Mail), NEW g \in Games, NEW k \in Gates, NEW m, Executes(g, k, m)
    PROVE  /\ Placed(Rest(g, k)) /\ Rest(g, k) \in [Lanes -> Seq(Rpcs)]
           /\ m.kind \in {"gift", "backup", "recovered"} => m.addr = g
<1>1. /\ Mail \in [Lanes -> Seq(Rpcs)] /\ Down(k, g) \in Lanes /\ Mail[Down(k, g)] # <<>>
      /\ Head(Mail[Down(k, g)]) = m /\ Rest(g, k) \in [Lanes -> Seq(Rpcs)]
    BY ExecMail
<1>2. Placed(Rest(g, k)) /\ PlacedAt(Down(k, g), m)
    BY <1>1, PlacedTake DEF Rest
<1>3. Down(k, g)[1] = "down" /\ Down(k, g)[2] = g
    BY LaneFacts
<1> QED BY <1>1, <1>2, <1>3 DEF PlacedAt

LEMMA PlacedStep ==
    ASSUME TypeInv, Placed(Mail), [Next]_vars
    PROVE  Placed(Mail')
<1>0. Mail \in [Lanes -> Seq(Rpcs)]
    BY MailType
<1>1. ASSUME NEW g \in Games, Exec(g) PROVE Placed(Mail')
  <2>1a. PICK k \in Gates : \E m : Executes(g, k, m) /\ Handles(g, m)
      BY <1>1, ExecIs
  <2>1. PICK m :
            /\ Executes(g, k, m)
            /\ \/ Dropped(g, m) \/ ExecGift(g, m) \/ OnGameDisappear(g, m)
               \/ CellDisasterBackup(g, m) \/ BaseDisasterBackup(g, m)
               \/ RecoverCell(g, m) \/ RecoverBase(g, m)
               \/ CellRecovered(g, m) \/ BaseRecovered(g, m)
      BY <2>1a DEF Handles
  <2>2. Placed(Rest(g, k)) /\ Rest(g, k) \in [Lanes -> Seq(Rpcs)]
      BY <2>1, PlacedExec
  <2>3. CASE Dropped(g, m) \/ ExecGift(g, m) \/ BaseDisasterBackup(g, m) \/ BaseRecovered(g, m)
    <3>1. Mail' = Rest(g, k)
        BY <2>1, <2>3, DroppedDoes, ExecGiftDoes, BaseDisasterBackupDoes, BaseRecoveredDoes
    <3> QED BY <3>1, <2>2
  <2>4. CASE CellDisasterBackup(g, m) \/ CellRecovered(g, m)
    <3>1. \E s, a, b : Called(Rest(g, k), Mail', "backup", s, g, a, b)
        BY <2>1, <2>4, CellDisasterBackupDoes, CellRecoveredDoes
    <3> QED BY <3>1, <2>2, PlacedCalled
  <2>5. CASE RecoverCell(g, m)
    <3>1. Called(Rest(g, k), Mail', "recovered", "cell", g, m.from, m.bk)
        BY <2>1, <2>5, RecoverCellDoes
    <3> QED BY <3>1, <2>2, PlacedCalled
  <2>6. CASE RecoverBase(g, m)
    <3>1a. PICK q \in [Lanes -> Seq(Rpcs)] : \E b :
              /\ Called(Rest(g, k), q, "recovered", "base", g, m.from, m.bk)
              /\ Called(q, Mail', "backup", "base", g, m.from, b)
        BY <2>1, <2>6, RecoverBaseDoes
    <3>1. PICK b :
              /\ Called(Rest(g, k), q, "recovered", "base", g, m.from, m.bk)
              /\ Called(q, Mail', "backup", "base", g, m.from, b)
        BY <3>1a
    <3>2. Placed(q)
        BY <3>1, <2>2, PlacedCalled
    <3> QED BY <3>1, <3>2, PlacedCalled
  <2>7. CASE OnGameDisappear(g, m)
    <3>1. \/ Mail' = Rest(g, k)
          \/ \E q \in [Lanes -> Seq(Rpcs)] :
                /\ Asked(Rest(g, k), q, "base", g, ToRecover(g, m.addr))
                /\ Asked(q, Mail', "cell", g, ToRecover(g, m.addr))
        BY <2>1, <2>7, OnGameDisappearDoes
    <3>2. ASSUME NEW q \in [Lanes -> Seq(Rpcs)],
                 Asked(Rest(g, k), q, "base", g, ToRecover(g, m.addr)),
                 Asked(q, Mail', "cell", g, ToRecover(g, m.addr))
          PROVE  Placed(Mail')
      <4>1. Placed(q)
          BY <3>2, <2>2, PlacedAsked
      <4> QED BY <3>2, <4>1, PlacedAsked
    <3> QED BY <3>1, <3>2, <2>2
  <2> QED BY <2>1, <2>3, <2>4, <2>5, <2>6, <2>7
<1>2. ASSUME NEW g \in Games, TimeToDisasterBackup(g) PROVE Placed(Mail')
  <2>1. \E a, b : Called(Mail, Mail', "backup", "base", g, a, b)
      BY <1>2, TimeToDisasterBackupDoes
  <2> QED BY <2>1, <1>0, PlacedCalled
<1>3. ASSUME NEW g \in Games, Die(g) PROVE Placed(Mail')
  <2>1. Cut(Mail, Mail')
      BY <1>3, DieDoes
  <2> QED BY <2>1, <1>0, PlacedCut
<1>4. ASSUME NEW g \in Games, NEW s \in Halves, Give(s, g) PROVE Placed(Mail')
  <2>1. \E a, b : Called(Mail, Mail', "gift", s, g, a, b)
      BY <1>4, GiveDoes
  <2> QED BY <2>1, <1>0, PlacedCalled
<1>5. ASSUME NEW g \in Games, (\E a \in Games : WindowEnds(g, a)) \/ (\E s \in Halves : LoseTouch(s, g))
      PROVE  Placed(Mail')
  <2>1. Mail' = Mail
      BY <1>5, WindowEndsDoes, LoseTouchDoes
  <2> QED BY <2>1
<1>6. ASSUME NEW k \in Gates, NEW g \in Games, ReadFails(k, g) \/ WriteFails(k, g)
      PROVE  Placed(Mail')
  <2>1. Told(Mail, Mail')
      BY <1>6, OnRemoteDisconnectedDoes DEF Reports
  <2> QED BY <2>1, <1>0, PlacedTold
<1>7. ASSUME NEW k \in Gates, NEW g \in Games, Relay(k, g) PROVE Placed(Mail')
    BY <1>7, PlacedRelay
<1>8. CASE UNCHANGED vars
  <2>1. Mail' = Mail
      BY <1>8 DEF vars, netVars, Mail
  <2> QED BY <2>1
<1> QED BY <1>1, <1>2, <1>3, <1>4, <1>5, <1>6, <1>7, <1>8 DEF Next

-----------------------------------------------------------------------------
(* What the gates report, and whom they choose. *)
LaneStep(x, y, g) ==
    \/ y = x \/ y = <<>>
    \/ x # <<>> /\ y = Tail(x)
    \/ \E m \in Rpcs : GoodAt(g, m, alive') /\ y = Append(x, m)

LEMMA LaneSteps ==
    ASSUME NEW x \in Seq(Rpcs), NEW y, NEW g, LaneStep(x, y, g), alive' \subseteq alive,
           \A i \in 1 .. Len(x) : GoodAt(g, x[i], alive)
    PROVE  \A i \in 1 .. Len(y) : GoodAt(g, y[i], alive')
<1>0. \A i \in 1 .. Len(x) : GoodAt(g, x[i], alive')
  <2> SUFFICES ASSUME NEW i \in 1 .. Len(x) PROVE GoodAt(g, x[i], alive')
      OBVIOUS
  <2>1. GoodAt(g, x[i], alive)
      OBVIOUS
  <2> QED BY <2>1 DEF GoodAt
<1>1. CASE y = x
    BY <1>0, <1>1
<1>2. CASE y = <<>>
    BY <1>2
<1>3. CASE x # <<>> /\ y = Tail(x)
  <2>1. Len(x) \in Nat /\ Len(y) = Len(x) - 1 /\ \A i \in 1 .. Len(y) : y[i] = x[i + 1]
      BY <1>3
  <2>2. \A i \in 1 .. Len(y) : i + 1 \in 1 .. Len(x) /\ y[i] = x[i + 1]
      BY <2>1
  <2> QED BY <1>0, <2>2
<1>4. ASSUME NEW m \in Rpcs, GoodAt(g, m, alive'), y = Append(x, m)
      PROVE  \A i \in 1 .. Len(y) : GoodAt(g, y[i], alive')
  <2>1. Len(x) \in Nat /\ Len(y) = Len(x) + 1 /\ y[Len(x) + 1] = m
        /\ \A i \in 1 .. Len(x) : y[i] = x[i]
      BY <1>4
  <2>2. \A i \in 1 .. Len(y) : y[i] = m \/ (i \in 1 .. Len(x) /\ y[i] = x[i])
      BY <2>1
  <2> QED BY <1>0, <1>4, <2>2
<1> QED BY <1>1, <1>2, <1>3, <1>4 DEF LaneStep

LEMMA ReportKeeps ==
    ASSUME TypeInv, ReportInv, alive' \subseteq alive,
           \A k \in Gates : alive' \subseteq known'[k],
           \A k \in Gates, g \in Games : LaneStep(down[k][g], down'[k][g], g),
           \A g, a \in Games : Marked(g, a)' => a \notin alive'
    PROVE  ReportInv'
<1>1. ASSUME NEW k \in Gates, NEW g \in Games
      PROVE  \A i \in 1 .. Len(down'[k][g]) : GoodAt(g, down'[k][g][i], alive')
  <2> DEFINE x == down[k][g]
             y == down'[k][g]
  <2>1. x \in Seq(Rpcs)
      BY MailType DEF Downs
  <2>2. LaneStep(x, y, g) /\ \A i \in 1 .. Len(x) : GoodAt(g, x[i], alive)
      BY DEF ReportInv
  <2> HIDE DEF x, y
  <2>3. \A i \in 1 .. Len(y) : GoodAt(g, y[i], alive')
      BY <2>1, <2>2, LaneSteps
  <2> QED BY <2>3 DEF y
<1> QED BY <1>1 DEF ReportInv

LEMMA ReportDisconnected ==
    ASSUME TypeInv, ReportInv, NEW k \in Gates, NEW g \in Games, Reports(k, g)
    PROVE  ReportInv'
<1>1. /\ g \notin alive /\ UNCHANGED <<alive, handled, again>>
      /\ known'[k] = known[k] \ {g} /\ \A j \in Gates : j # k => known'[j] = known[j]
      /\ \A j \in Gates, h \in Games :
            \/ down'[j][h] = down[j][h]
            \/ /\ j = k /\ h # g /\ h \in alive
               /\ down'[j][h] = Append(down[j][h], Rpc("disappear", "base", g, h, NoBackup))
    BY OnRemoteDisconnectedDoes
<1>2. \A h \in Games : LET m == Rpc("disappear", "base", g, h, NoBackup)
                       IN  m \in Rpcs /\ GoodAt(h, m, alive')
  <2> SUFFICES ASSUME NEW h \in Games
               PROVE  LET m == Rpc("disappear", "base", g, h, NoBackup)
                      IN  m \in Rpcs /\ GoodAt(h, m, alive')
      OBVIOUS
  <2>1. "disappear" \in Kinds /\ "base" \in Halves /\ NoBackup \in Backups
      BY BackupFacts, HalfFacts DEF Kinds
  <2> DEFINE m == Rpc("disappear", "base", g, h, NoBackup)
  <2>2. m \in Rpcs /\ m.kind = "disappear" /\ m.addr = g
      BY <2>1, MakeRpc
  <2> QED BY <2>2, <1>1 DEF GoodAt
<1>3. \A j \in Gates, h \in Games : LaneStep(down[j][h], down'[j][h], h)
    BY <1>1, <1>2 DEF LaneStep
<1>4. \A j \in Gates : alive' \subseteq known'[j]
  <2> SUFFICES ASSUME NEW j \in Gates PROVE alive' \subseteq known'[j]
      OBVIOUS
  <2>1. alive \subseteq known[j]
      BY DEF ReportInv
  <2> QED BY <2>1, <1>1
<1>5. \A h, a \in Games : Marked(h, a)' => a \notin alive'
    BY <1>1 DEF ReportInv, Marked
<1> QED BY <1>1, <1>3, <1>4, <1>5, ReportKeeps

LEMMA ExecLanes ==
    ASSUME TypeInv, NEW g \in Games, NEW k \in Gates, NEW m, Executes(g, k, m)
    PROVE  /\ \A j \in Gates, h \in Games : LaneStep(down[j][h], down'[j][h], h)
           /\ down[k][g] \in Seq(Rpcs) /\ down[k][g] # <<>> /\ m = Head(down[k][g])
<1>1. /\ down[k][g] # <<>> /\ m = Head(down[k][g]) /\ down' = DownLess(down, k, g)
      /\ down \in Downs
    BY MailType DEF Executes
<1>2. /\ down'[k][g] = Tail(down[k][g])
      /\ \A h \in Games, j \in Gates : h # g \/ j # k => down'[j][h] = down[j][h]
    BY <1>1 DEF Downs, DownLess
<1> QED BY <1>1, <1>2 DEF LaneStep, Downs

(* What a game executes: only a death is reported to it, and it is not asked *)
(* to rebuild what it has itself asked for, unless it is alone.              *)
LEMMA ReportHeard ==
    ASSUME TypeInv, ReportInv, NEW g \in Games, NEW k \in Gates, NEW m, Executes(g, k, m)
    PROVE  /\ m.kind = "disappear" => m.addr \notin alive
           /\ m.kind = "recover" => m.from # g \/ alive \subseteq {g}
           /\ m.addr \in Games
<1>1. down[k][g] \in Seq(Rpcs) /\ down[k][g] # <<>> /\ m = Head(down[k][g]) /\ m.addr \in Games
    BY ExecLanes, ExecMail
<1>2. 1 \in 1 .. Len(down[k][g]) /\ m = down[k][g][1]
    BY <1>1
<1>3. GoodAt(g, m, alive)
    BY <1>2 DEF ReportInv
<1> QED BY <1>1, <1>3 DEF GoodAt

LEMMA ReportExec ==
    ASSUME TypeInv, ReportInv, NEW g \in Games, NEW k \in Gates, NEW m, Executes(g, k, m),
           \A h, a \in Games : Marked(h, a)' =>
              Marked(h, a) \/ (m.kind = "disappear" /\ a = m.addr)
    PROVE  ReportInv'
<1>1. \A j \in Gates, h \in Games : LaneStep(down[j][h], down'[j][h], h)
    BY ExecLanes
<1>2. alive' = alive /\ known' = known
    BY DEF Executes
<1>3. \A h, a \in Games : Marked(h, a)' => a \notin alive'
    BY <1>2, ReportHeard DEF ReportInv
<1>4. \A j \in Gates : alive' \subseteq known'[j]
    BY <1>2 DEF ReportInv
<1> QED BY <1>1, <1>2, <1>3, <1>4, ReportKeeps

(* A gate that passes an order on to the game it is from knows no other.   *)
LEMMA OnlyRemote ==
    ASSUME NEW k, NEW a, NEW h \in RandRemoteExclude(k, a), known[k] \subseteq Games
    PROVE  h \in known[k] /\ (a # h \/ known[k] \subseteq {h})
<1>1. CASE Cardinality(known[k]) = 1
  <2>1. IsFiniteSet(known[k])
      BY PlacesAssumption, FS_Subset
  <2>2. PICK x : known[k] = {x}
      BY <2>1, <1>1, FS_Singleton
  <2> QED BY <1>1, <2>2 DEF RandRemoteExclude
<1>2. CASE Cardinality(known[k]) # 1
    BY <1>2 DEF RandRemoteExclude
<1> QED BY <1>1, <1>2

LEMMA ReportRelay ==
    ASSUME TypeInv, Placed(Mail), ReportInv, NEW k \in Gates, NEW g \in Games, Relay(k, g)
    PROVE  ReportInv'
<1> DEFINE m == Head(up[g][k])
<1>1. m = Head(up[g][k])
    OBVIOUS
<1> HIDE DEF m
<1>2. /\ m \in Rpcs /\ UNCHANGED <<alive, handled, again, known>>
      /\ \/ \E h \in Targets(k, m) \cap alive :
               h \in Games /\ down' = [down EXCEPT ![k][h] = Append(@, m)]
         \/ down' = down
  <2>1. UNCHANGED <<handled, again>>
      BY DEF Relay, heldVars
  <2> QED BY <2>1, <1>1, RelayDoes
<1>3. m.kind # "disappear"
  <2>1. PlacedAt(Up(g, k), m)
      BY <1>1, PlacedRelay
  <2> QED BY <2>1, LaneFacts DEF PlacedAt
<1>4. \A h \in Targets(k, m) : GoodAt(h, m, alive')
  <2> SUFFICES ASSUME NEW h \in Targets(k, m), m.kind = "recover"
               PROVE  m.from # h \/ alive' \subseteq {h}
      BY <1>3 DEF GoodAt
  <2>1. known[k] \subseteq Games /\ alive \subseteq known[k]
    <3>1. Plain
        BY TypeSplit
    <3> QED BY <3>1 DEF Plain, ReportInv
  <2>2. h \in RandRemoteExclude(k, m.from)
      BY DEF Targets
  <2>3. m.from # h \/ known[k] \subseteq {h}
      BY <2>1, <2>2, OnlyRemote
  <2> QED BY <2>1, <2>3, <1>2
<1>5. \A j \in Gates, h \in Games : LaneStep(down[j][h], down'[j][h], h)
  <2>1. CASE down' = down
      BY <2>1 DEF LaneStep
  <2>2. ASSUME NEW x \in Targets(k, m), x \in Games,
               down' = [down EXCEPT ![k][x] = Append(@, m)],
               NEW j \in Gates, NEW h \in Games
        PROVE  LaneStep(down[j][h], down'[j][h], h)
    <3>1. down \in Downs
        BY MailType
    <3>2. down'[j][h] = down[j][h] \/ (h = x /\ down'[j][h] = Append(down[j][h], m))
        BY <2>2, <3>1 DEF Downs
    <3> QED BY <3>2, <1>2, <1>4 DEF LaneStep
  <2> QED BY <2>1, <2>2, <1>2
<1>6. \A j \in Gates : alive' \subseteq known'[j]
    BY <1>2 DEF ReportInv
<1>7. \A h, a \in Games : Marked(h, a)' => a \notin alive'
    BY <1>2 DEF ReportInv, Marked
<1> QED BY <1>2, <1>5, <1>6, <1>7, ReportKeeps

LEMMA ReportDie ==
    ASSUME TypeInv, ReportInv, NEW g \in Games, Die(g)
    PROVE  ReportInv'
<1>1. /\ alive' \subseteq alive /\ known' = known
      /\ \A h \in Games, k \in Gates : h # g => down'[k][h] = down[k][h]
      /\ \A k \in Gates : down'[k][g] = <<>>
      /\ \A h \in Games, a \in Games : handled'[h][a] = IF h = g THEN "none" ELSE handled[h][a]
      /\ again'[g] = {} /\ \A h \in Games : h # g => again'[h] = again[h]
    BY DieDoes
<1>2. \A j \in Gates, h \in Games : LaneStep(down[j][h], down'[j][h], h)
    BY <1>1 DEF LaneStep
<1>3. \A h, a \in Games : Marked(h, a)' => a \notin alive'
    BY <1>1 DEF ReportInv, Marked
<1>4. \A j \in Gates : alive' \subseteq known'[j]
    BY <1>1 DEF ReportInv
<1> QED BY <1>1, <1>2, <1>3, <1>4, ReportKeeps

LEMMA ReportQuiet ==
    ASSUME TypeInv, ReportInv, UNCHANGED <<alive, known, down>>,
           \A g, a \in Games : Marked(g, a)' => Marked(g, a)
    PROVE  ReportInv'
<1>1. \A j \in Gates, h \in Games : LaneStep(down[j][h], down'[j][h], h)
    BY DEF LaneStep
<1>2. \A h, a \in Games : Marked(h, a)' => a \notin alive'
    BY DEF ReportInv
<1>3. \A j \in Gates : alive' \subseteq known'[j]
    BY DEF ReportInv
<1> QED BY <1>1, <1>2, <1>3, ReportKeeps

(* What a handler does to the table of the game, and to unheld.            *)
LEMMA ExecHandled ==
    ASSUME TypeInv, NEW g \in Games, NEW k \in Gates, NEW m, Executes(g, k, m), Handles(g, m)
    PROVE  /\ \A h, a \in Games : /\ handled[h][a] # "none" => handled'[h][a] = handled[h][a]
                                  /\ a \in again[h] => a \in again'[h]
                                  /\ Marked(h, a)' => Marked(h, a) \/
                                        (m.kind = "disappear" /\ a = m.addr)
           /\ unheld => unheld'
<1>1. CASE ~OnGameDisappear(g, m)
  <2>1. UNCHANGED heldVars
      BY <1>1 DEF Handles, Dropped, ExecGift, CellDisasterBackup, BaseDisasterBackup, RecoverCell,
                  RecoverBase, CellRecovered, BaseRecovered
  <2> QED BY <2>1 DEF heldVars, Marked
<1>2. CASE OnGameDisappear(g, m)
    BY <1>2, OnGameDisappearDoes DEF Noted, Marked
<1> QED BY <1>1, <1>2

LEMMA ReportStep ==
    ASSUME TypeInv, Placed(Mail), ReportInv, [Next]_vars
    PROVE  ReportInv'
<1>1. ASSUME NEW g \in Games, Exec(g) PROVE ReportInv'
  <2>1a. PICK k \in Gates : \E m : Executes(g, k, m) /\ Handles(g, m)
      BY <1>1, ExecIs
  <2>1. PICK m : Executes(g, k, m) /\ Handles(g, m)
      BY <2>1a
  <2>2. \A h, a \in Games : Marked(h, a)' => Marked(h, a) \/ (m.kind = "disappear" /\ a = m.addr)
      BY <2>1, ExecHandled
  <2> QED BY <2>1, <2>2, ReportExec
<1>2. ASSUME NEW g \in Games, NEW s \in Halves,
             TimeToDisasterBackup(g) \/ Give(s, g) \/ LoseTouch(s, g)
      PROVE  ReportInv'
  <2>1. UNCHANGED <<alive, known, down, handled, again>>
      BY <1>2 DEF TimeToDisasterBackup, Give, LoseTouch, netVars, heldVars, gateVars
  <2> QED BY <2>1, ReportQuiet DEF Marked
<1>3. ASSUME NEW g \in Games, NEW a \in Games, WindowEnds(g, a) PROVE ReportInv'
  <2>1. /\ UNCHANGED <<alive, known, down>>
        /\ Marked(g, a) /\ \A h \in Games : again'[h] \subseteq again[h]
        /\ \A h, b \in Games : handled'[h][b] = IF h = g /\ b = a THEN "passed" ELSE handled[h][b]
      BY <1>3, WindowEndsDoes
  <2>2. \A h, b \in Games : Marked(h, b)' => Marked(h, b)
    <3> SUFFICES ASSUME NEW h \in Games, NEW b \in Games, Marked(h, b)' PROVE Marked(h, b)
        OBVIOUS
    <3>1. CASE h = g /\ b = a
        BY <3>1, <2>1
    <3>2. CASE ~(h = g /\ b = a)
        BY <3>2, <2>1 DEF Marked
    <3> QED BY <3>1, <3>2
  <2> QED BY <2>1, <2>2, ReportQuiet
<1>4. ASSUME NEW g \in Games, Die(g) PROVE ReportInv'
    BY <1>4, ReportDie
<1>5. ASSUME NEW k \in Gates, NEW g \in Games, ReadFails(k, g) \/ WriteFails(k, g)
      PROVE  ReportInv'
    BY <1>5, ReportDisconnected DEF Reports
<1>6. ASSUME NEW k \in Gates, NEW g \in Games, Relay(k, g) PROVE ReportInv'
    BY <1>6, ReportRelay
<1>7. CASE UNCHANGED vars
  <2>1. UNCHANGED <<alive, known, down, handled, again>>
      BY <1>7 DEF vars, netVars, heldVars, gateVars
  <2> QED BY <2>1, ReportQuiet DEF Marked
<1> QED BY <1>1, <1>2, <1>3, <1>4, <1>5, <1>6, <1>7, HalfFacts DEF Next

(* A game that will not react to a death does not do so later, while a     *)
(* recovery is under way and it lives; and what the table has let through  *)
(* stays recorded.                                                         *)
LEMMA HeldStep ==
    ASSUME TypeInv, [Next]_vars
    PROVE  /\ unheld => unheld'
           /\ \A g \in alive', a \in Games : Settled(g, a) /\ ~Free(Mail, Talk) => Settled(g, a)'
<1> DEFINE Goal == /\ unheld => unheld'
                   /\ \A g \in alive', a \in Games :
                         Settled(g, a) /\ ~Free(Mail, Talk) => Settled(g, a)'
<1> SUFFICES Goal
    OBVIOUS
<1>0. alive' \subseteq Games
  <2>1. Plain'
      BY TypeStep, TypeSplit, PTL
  <2> QED BY <2>1 DEF Plain
<1>1. ASSUME NEW h \in Games, Exec(h) PROVE Goal
  <2>1a. PICK k \in Gates : \E m : Executes(h, k, m) /\ Handles(h, m)
      BY <1>1, ExecIs
  <2>1. PICK m : Executes(h, k, m) /\ Handles(h, m)
      BY <2>1a
  <2>2. /\ \A x, a \in Games : /\ handled[x][a] # "none" => handled'[x][a] = handled[x][a]
                               /\ a \in again[x] => a \in again'[x]
        /\ unheld => unheld'
      BY <2>1, ExecHandled
  <2> QED BY <2>2, <1>0 DEF Settled
<1>2. ASSUME UNCHANGED heldVars PROVE Goal
    BY <1>2 DEF heldVars, Settled
<1>3. ASSUME NEW h \in Games, NEW b \in Games, WindowEnds(h, b) PROVE Goal
  <2>1. Free(Mail, Talk) /\ unheld' = unheld
      BY <1>3, WindowEndsDoes DEF WindowEnds
  <2> QED BY <2>1
<1>4. ASSUME NEW h \in Games, Die(h) PROVE Goal
  <2>1. /\ h \notin alive' /\ unheld' = unheld
        /\ \A x, b \in Games : handled'[x][b] = IF x = h THEN "none" ELSE handled[x][b]
        /\ \A x \in Games : x # h => again'[x] = again[x]
      BY <1>4, DieDoes DEF Die
  <2> QED BY <2>1, <1>0 DEF Settled
<1>5. ASSUME NEW h \in Games, NEW s \in Halves,
             TimeToDisasterBackup(h) \/ Give(s, h) \/ LoseTouch(s, h)
      PROVE  UNCHANGED heldVars
    BY <1>5 DEF TimeToDisasterBackup, Give, LoseTouch
<1>6. ASSUME NEW k \in Gates, NEW h \in Games, ReadFails(k, h) \/ WriteFails(k, h) \/ Relay(k, h)
      PROVE  UNCHANGED heldVars
    BY <1>6 DEF ReadFails, WriteFails, Relay
<1>7. CASE UNCHANGED vars
  <2>1. UNCHANGED heldVars
      BY <1>7 DEF vars
  <2> QED BY <2>1, <1>2
<1> HIDE DEF Goal
<1> QED BY <1>1, <1>2, <1>3, <1>4, <1>5, <1>6, <1>7, HalfFacts DEF Next

-----------------------------------------------------------------------------
(* The rpcs of a recovery. *)
LEMMA KindFacts ==
    /\ Ords \in SUBSET Talk /\ Words \in SUBSET Talk
    /\ \A s, g, h : /\ Ord(s) \in SUBSET Talk /\ Strange(s, g) \in SUBSET Talk
                    /\ Word(s, g) \in SUBSET Talk /\ WordFrom(s, g, h) \in SUBSET Talk
                    /\ Foreign(s, g, h) \in SUBSET Talk
    /\ \A m \in Rpcs : m.kind \notin {"recover", "recovered"} => m \notin Talk
BY DEF Ords, Words, Talk, Ord, Strange, Word, WordFrom, Foreign

LEMMA FreeParts ==
    ASSUME NEW q
    PROVE  /\ Free(q, Talk) => Free(q, Ords) /\ \A s, g : Free(q, Word(s, g))
           /\ Free(q, Ords) => \A s : Free(q, Ord(s))
           /\ (\A s \in Halves : Free(q, Ord(s))) => Free(q, Ords)
           /\ \A s, g : Free(q, Ord(s)) => Free(q, Strange(s, g))
           /\ \A s, g, h : Free(q, Word(s, g)) =>
                 Free(q, WordFrom(s, g, h)) /\ Free(q, Foreign(s, g, h))
<1>1. Free(q, Talk) => Free(q, Ords) /\ \A s, g : Free(q, Word(s, g))
    BY DEF Free, Talk, Ords, Word, Words
<1>2. Free(q, Ords) => \A s : Free(q, Ord(s))
    BY DEF Free, Ords, Ord
<1>3. (\A s \in Halves : Free(q, Ord(s))) => Free(q, Ords)
  <2>1. \A m \in Ords : m.half \in Halves /\ m \in Ord(m.half)
      BY DEF Ords, Ord, Rpcs
  <2> QED BY <2>1 DEF Free
<1>4. \A s, g : Free(q, Ord(s)) => Free(q, Strange(s, g))
    BY DEF Free, Ord, Strange
<1>5. \A s, g, h : Free(q, Word(s, g)) => Free(q, WordFrom(s, g, h)) /\ Free(q, Foreign(s, g, h))
    BY DEF Free, Word, WordFrom, Foreign
<1> QED BY <1>1, <1>2, <1>3, <1>4, <1>5

(* Halves and queues change in such a way that none comes and no rpc of a  *)
(* recovery does; none of those that tell a half that is left of one that  *)
(* is rebuilt is lost.                                                     *)
NoWordLost ==
    \A s \in Halves, g, h \in Games :
       Has(s, g)' /\ Has(Other(s), h)' /\ ~Free(Mail, WordFrom(s, g, h)) =>
          ~Free(Mail', WordFrom(s, g, h))
StaySettled ==
    ~Free(Mail, Talk) => \A g \in alive', a \in Games : Settled(g, a) => Settled(g, a)'

LEMMA HasIn ==
    ASSUME NEW s, NEW g, Has(s, g)
    PROVE  g \in alive
BY DEF Has

LEMMA CoreKeeps ==
    ASSUME TypeInv, CoreInv, TypeInv', Unmoved, alive' \subseteq alive, Keeps(Mail, Mail', Talk),
           NoWordLost, StaySettled
    PROVE  CoreInv'
<1>1. \A s \in Halves, g \in Games : /\ Has(s, g)' => Has(s, g)
                                     /\ Has(s, g)' => Addr(s, g)' = Addr(s, g)
    BY DEF Unmoved
<1>2. \A K \in SUBSET Talk : Free(Mail, K) => Free(Mail', K)
    BY DEF Keeps
<1>3. \A K \in SUBSET Talk : Single(Mail, K) => Single(Mail', K)
    BY DEF Keeps
<1>4. OneHalf'
    BY <1>1, HalfFacts DEF CoreInv, OneHalf
<1>5. OrderInv'
  <2>1. Single(Mail, Ords)
      BY DEF CoreInv, OrderInv
  <2>2. Single(Mail', Ords)
      BY <2>1, <1>3, KindFacts
  <2>3. ASSUME NEW s \in Halves, ~Free(Mail', Ord(s)), NEW g \in Games PROVE ~Has(s, g)'
    <3>1. ~Free(Mail, Ord(s))
        BY <2>3, <1>2, KindFacts
    <3> QED BY <3>1, <1>1 DEF CoreInv, OrderInv
  <2>4. ASSUME NEW s \in Halves, NEW g \in Games, Has(Other(s), g)'
        PROVE  Free(Mail', Strange(s, g))
    <3>1. Has(Other(s), g)
        BY <2>4, <1>1, HalfFacts
    <3>2. Free(Mail, Strange(s, g))
        BY <3>1 DEF CoreInv, OrderInv
    <3> QED BY <3>2, <1>2, KindFacts
  <2> QED BY <2>2, <2>3, <2>4 DEF OrderInv
<1>6. LinkInv'
  <2> SUFFICES ASSUME NEW s \in Halves, NEW g \in Games, NEW h \in Games,
                      Has(s, g)', Has(Other(s), h)', Addr(s, g)' # h
               PROVE  ~Free(Mail', WordFrom(s, g, h))
      BY DEF LinkInv
  <2>1. Has(s, g) /\ Has(Other(s), h) /\ Addr(s, g) # h
      BY <1>1, HalfFacts
  <2>2. ~Free(Mail, WordFrom(s, g, h))
      BY <2>1 DEF CoreInv, LinkInv
  <2> QED BY <2>2 DEF NoWordLost
<1>7. WordInv'
  <2> SUFFICES ASSUME NEW s \in Halves, NEW g \in alive', ~Free(Mail', Word(s, g))
               PROVE  /\ Free(Mail', Ords) /\ Single(Mail', Word(s, g))
                      /\ \A x \in Games : Has(s, x)' => x = g
                      /\ \A x \in Games : Has(Other(s), x)' =>
                            /\ Addr(Other(s), x)' = g /\ Free(Mail', Word(Other(s), x))
                            /\ Free(Mail', Foreign(s, g, x))
      BY DEF WordInv
  <2>1. g \in alive /\ ~Free(Mail, Word(s, g))
      BY <1>2, KindFacts
  <2>2. /\ Free(Mail, Ords) /\ Single(Mail, Word(s, g))
        /\ \A x \in Games : Has(s, x) => x = g
        /\ \A x \in Games : Has(Other(s), x) =>
              /\ Addr(Other(s), x) = g /\ Free(Mail, Word(Other(s), x))
              /\ Free(Mail, Foreign(s, g, x))
      BY <2>1 DEF CoreInv, WordInv
  <2>3. Free(Mail', Ords) /\ Single(Mail', Word(s, g))
      BY <2>2, <1>2, <1>3, KindFacts
  <2>4. \A x \in Games : Has(s, x)' => x = g
      BY <2>2, <1>1
  <2>5. ASSUME NEW x \in Games, Has(Other(s), x)'
        PROVE  /\ Addr(Other(s), x)' = g /\ Free(Mail', Word(Other(s), x))
               /\ Free(Mail', Foreign(s, g, x))
    <3>1. Has(Other(s), x) /\ Addr(Other(s), x)' = Addr(Other(s), x)
        BY <2>5, <1>1, HalfFacts
    <3>2. /\ Addr(Other(s), x) = g /\ Free(Mail, Word(Other(s), x))
          /\ Free(Mail, Foreign(s, g, x))
        BY <3>1, <2>2
    <3> QED BY <3>1, <3>2, <1>2, KindFacts
  <2> QED BY <2>3, <2>4, <2>5
<1>8. SettledInv'
  <2> SUFFICES ASSUME NEW s \in Halves, NEW g \in Games, Has(s, g)',
                      ~Free(Mail', Ord(Other(s))) \/ ~Free(Mail', Word(s, g))
               PROVE  Settled(g, Addr(s, g))'
      BY DEF SettledInv
  <2>1. ~Free(Mail, Ord(Other(s))) \/ ~Free(Mail, Word(s, g))
      BY <1>2, KindFacts
  <2>2. Has(s, g) /\ Addr(s, g)' = Addr(s, g)
      BY <1>1
  <2>3. Settled(g, Addr(s, g))
      BY <2>1, <2>2 DEF CoreInv, SettledInv
  <2>4. ~Free(Mail, Talk)
      BY <2>1, FreeParts
  <2>5. g \in alive' /\ Addr(s, g) \in Games
    <3>1. EntsOK /\ Plain
        BY TypeSplit
    <3> QED BY <3>1, <2>2, EntityFacts DEF Has
  <2>6. PICK a \in Games : a = Addr(s, g)
      BY <2>5
  <2>7. Settled(g, a)'
      BY <2>3, <2>4, <2>5, <2>6 DEF StaySettled
  <2> QED BY <2>2, <2>6, <2>7 DEF Settled
<1> QED BY <1>4, <1>5, <1>6, <1>7, <1>8 DEF CoreInv

LEMMA AllStay ==
    ASSUME TypeInv, [Next]_vars
    PROVE  StaySettled
BY HeldStep DEF StaySettled

LEMMA HoldsWords ==
    ASSUME Holds(Mail, Mail', Talk)
    PROVE  NoWordLost
BY KindFacts DEF Holds, NoWordLost

(* Steps that leave the rpcs of a recovery as they are. *)
LEMMA CoreSilent ==
    ASSUME TypeInv, CoreInv, TypeInv', Unmoved, alive' = alive, StaySettled,
           Keeps(Mail, Mail', Talk), Holds(Mail, Mail', Talk)
    PROVE  CoreInv'
<1>1. NoWordLost
    BY HoldsWords
<1> QED BY <1>1, CoreKeeps

LEMMA CoreCalls ==
    ASSUME TypeInv, CoreInv, TypeInv', Unmoved, alive' = alive, StaySettled,
           NEW q \in [Lanes -> Seq(Rpcs)], Keeps(Mail, q, Talk), Holds(Mail, q, Talk),
           NEW kind \in {"gift", "backup"}, NEW s, NEW g \in Games, NEW a, NEW b,
           Called(q, Mail', kind, s, g, a, b)
    PROVE  CoreInv'
<1>1. \A m \in Rpcs : m.kind = kind => m \notin Talk
    BY KindFacts
<1>2. Keeps(q, Mail', Talk) /\ Holds(q, Mail', Talk)
    BY <1>1, CalledIs
<1>3. Keeps(Mail, Mail', Talk) /\ Holds(Mail, Mail', Talk)
    BY <1>2, KeepsTrans
<1> QED BY <1>3, CoreSilent

LEMMA MailTypes == TypeInv => Mail \in [Lanes -> Seq(Rpcs)] /\ up \in Ups /\ down \in Downs
BY MailType

(* A game dies: only words from it or to it are lost.                      *)
LEMMA CoreDie ==
    ASSUME TypeInv, CoreInv, Placed(Mail), StaySettled, NEW g \in Games, Die(g)
    PROVE  CoreInv'
<1>1. /\ TypeInv' /\ Unmoved /\ Cut(Mail, Mail') /\ ~(g \in alive') /\ alive' \subseteq alive
      /\ \A h \in Games, k \in Gates : h # g => up'[h][k] = up[h][k] /\ down'[k][h] = down[k][h]
    BY DieDoes
<1>2. Mail \in [Lanes -> Seq(Rpcs)] /\ up \in Ups /\ down \in Downs
    BY MailType
<1>3. Mail' \in [Lanes -> Seq(Rpcs)] /\ up' \in Ups /\ down' \in Downs
  <2>2. TypeInv'
      BY <1>1
  <2>3. (Mail \in [Lanes -> Seq(Rpcs)] /\ up \in Ups /\ down \in Downs)'
      BY <2>2, MailTypes, PTL
  <2> QED BY <2>3
<1>4. Keeps(Mail, Mail', Talk)
    BY <1>1, <1>2, KeepsCut
<1>5. NoWordLost
  <2> SUFFICES ASSUME NEW s \in Halves, NEW x \in Games, NEW h \in Games,
                      Has(s, x)', Has(Other(s), h)', ~Free(Mail, WordFrom(s, x, h))
               PROVE  ~Free(Mail', WordFrom(s, x, h))
      BY DEF NoWordLost
  <2>1. x # g /\ h # g
      BY <1>1 DEF Has
  <2>0. PICK w \in Lanes : \E i \in 1 .. Len(Mail[w]) : Mail[w][i] \in WordFrom(s, x, h)
      BY <1>2 DEF Free
  <2>2. PICK i \in 1 .. Len(Mail[w]) : Mail[w][i] \in WordFrom(s, x, h)
      BY <2>0
  <2>3. /\ Mail[w][i].kind = "recovered" /\ Mail[w][i].addr = x /\ Mail[w][i].from = h
      BY <2>2 DEF WordFrom, Word, Words
  <2>4. PlacedAt(w, Mail[w][i])
      BY <1>2, <2>2 DEF Placed
  <2> DEFINE y == w[2]
             k == w[3]
  <2>5. /\ y \in Games /\ k \in Gates /\ (w = Up(y, k) \/ w = Down(k, y))
        /\ Up(y, k)[1] = "up" /\ Down(k, y)[1] = "down"
      BY LaneFacts
  <2>6. y # g
      BY <2>1, <2>3, <2>4, <2>5 DEF PlacedAt
  <2> HIDE DEF y, k
  <2>7. /\ Mail[Up(y, k)] = up[y][k] /\ Mail[Down(k, y)] = down[k][y]
        /\ Mail'[Up(y, k)] = up'[y][k] /\ Mail'[Down(k, y)] = down'[k][y]
      BY <1>2, <1>3, <2>5, BagsType DEF Mail
  <2>8. Mail'[w] = Mail[w]
      BY <1>1, <2>5, <2>6, <2>7
  <2> QED BY <1>3, <2>2, <2>8 DEF Free
<1> QED BY <1>1, <1>4, <1>5, CoreKeeps

LEMMA CoreTold ==
    ASSUME TypeInv, CoreInv, StaySettled, NEW k \in Gates, NEW g \in Games, Reports(k, g)
    PROVE  CoreInv'
<1>1. TypeInv' /\ Unmoved /\ Told(Mail, Mail') /\ alive' = alive
    BY OnRemoteDisconnectedDoes
<1>2. Mail \in [Lanes -> Seq(Rpcs)]
    BY MailType
<1>3. \A m \in Talk : m.kind # "disappear"
    BY DEF Talk
<1>4. Same(Mail, Mail', Talk)
    BY <1>1, <1>2, <1>3, ToldSame
<1>5. Keeps(Mail, Mail', Talk) /\ Holds(Mail, Mail', Talk)
    BY <1>4, KeepsSame
<1> QED BY <1>1, <1>5, CoreSilent

(* A gate loses no word to a half that lives: it knows its game.           *)
LEMMA CoreRelay ==
    ASSUME TypeInv, CoreInv, ReportInv, StaySettled, NEW k \in Gates, NEW g \in Games,
           Relay(k, g)
    PROVE  CoreInv'
<1> DEFINE m == Head(up[g][k])
           w == Up(g, k)
<1>1. m = Head(up[g][k])
    OBVIOUS
<1> HIDE DEF m
<1>2. /\ TypeInv' /\ Unmoved /\ m \in Rpcs /\ alive' = alive
      /\ Mail[w] # <<>> /\ Head(Mail[w]) = m
      /\ \/ \E h \in Games : Relayed(Mail, Mail', g, k, h, m)
         \/ /\ Targets(k, m) = {} \/ Targets(k, m) \ alive # {}
            /\ Lost(Mail, Mail', g, k)
    BY <1>1, RelayDoes
<1>3. Mail \in [Lanes -> Seq(Rpcs)] /\ w \in Lanes
    BY MailType, LaneFacts
<1>4. ASSUME NEW h \in Games, Relayed(Mail, Mail', g, k, h, m) PROVE CoreInv'
  <2>1. Down(k, h) \in Lanes /\ w # Down(k, h)
      BY LaneFacts
  <2> HIDE DEF w
  <2>2. Mail' = Joined(Taken(Mail, w), Down(k, h), <<Head(Mail[w])>>)
      BY <1>2, <1>4 DEF Relayed, w
  <2>3. Keeps(Mail, Mail', Talk) /\ Holds(Mail, Mail', Talk)
      BY <1>2, <1>3, <2>1, <2>2, KeepsMove
  <2> QED BY <1>2, <2>3, CoreSilent
<1>5. ASSUME Targets(k, m) = {} \/ Targets(k, m) \ alive # {}, Lost(Mail, Mail', g, k)
      PROVE  CoreInv'
  <2> HIDE DEF w
  <2>1. Mail' = Taken(Mail, w)
      BY <1>5 DEF Lost, w
  <2>2. Keeps(Mail, Mail', Talk)
      BY <1>2, <1>3, <2>1, KeepsTake
  <2>3. NoWordLost
    <3> SUFFICES ASSUME NEW s \in Halves, NEW x \in Games, NEW h \in Games,
                        Has(s, x)', ~Free(Mail, WordFrom(s, x, h))
                 PROVE  ~Free(Mail', WordFrom(s, x, h))
        BY DEF NoWordLost
    <3>1. m \notin WordFrom(s, x, h)
      <4> SUFFICES ASSUME m \in WordFrom(s, x, h) PROVE FALSE
          OBVIOUS
      <4>1. m.kind = "recovered" /\ m.addr = x
          BY DEF WordFrom, Word, Words
      <4>2. x \in alive /\ x \in known[k]
          BY <1>2 DEF Has, ReportInv
      <4>3. Targets(k, m) = {x}
          BY <4>1, <4>2 DEF Targets
      <4> QED BY <4>2, <4>3, <1>5
    <3> DEFINE K == WordFrom(s, x, h)
    <3>2. Head(Mail[w]) \notin K /\ ~Free(Mail, K)
        BY <3>1, <1>2
    <3> HIDE DEF K
    <3>3. Head(Mail[w]) \notin K /\ Free(Mail', K) => Free(Mail, K)
        BY <1>2, <1>3, <2>1, TakeFree
    <3> QED BY <3>2, <3>3 DEF K
  <2> QED BY <1>2, <2>2, <2>3, CoreKeeps
<1> QED BY <1>2, <1>4, <1>5

LEMMA RestKeeps ==
    ASSUME TypeInv, NEW g \in Games, NEW k \in Gates, NEW m, Executes(g, k, m)
    PROVE  /\ Keeps(Mail, Rest(g, k), Talk) /\ Rest(g, k) \in [Lanes -> Seq(Rpcs)]
           /\ m.kind \notin {"recover", "recovered"} => Holds(Mail, Rest(g, k), Talk)
           /\ \A K : m \notin K /\ Free(Rest(g, k), K) => Free(Mail, K)
           /\ \A K : m \in K /\ Single(Mail, K) => Free(Rest(g, k), K)
           /\ \A K : m \in K => ~Free(Mail, K)
<1> DEFINE w == Down(k, g)
           r == Rest(g, k)
<1>1. /\ Mail \in [Lanes -> Seq(Rpcs)] /\ w \in Lanes /\ Mail[w] # <<>>
      /\ Head(Mail[w]) = m /\ m \in Rpcs /\ r = Taken(Mail, w)
    BY ExecMail DEF Rest
<1> HIDE DEF r, w
<1>2. Keeps(Mail, r, Talk) /\ r \in [Lanes -> Seq(Rpcs)] /\ (m \notin Talk => Holds(Mail, r, Talk))
    BY <1>1, KeepsTake
<1>3. m.kind \notin {"recover", "recovered"} => m \notin Talk
    BY <1>1, KindFacts
<1>4. \A K : /\ Head(Mail[w]) \notin K /\ Free(r, K) => Free(Mail, K)
             /\ Head(Mail[w]) \in K => ~Free(Mail, K)
    BY <1>1, TakeFree
<1>5. \A K : Single(Mail, K) => (Head(Mail[w]) \in K => Free(r, K))
    BY <1>1, TakeSingle
<1> QED BY <1>1, <1>2, <1>3, <1>4, <1>5 DEF r

LEMMA CoreDropped ==
    ASSUME TypeInv, CoreInv, Placed(Mail), StaySettled, NEW g \in Games, NEW k \in Gates, NEW m,
           Executes(g, k, m), Dropped(g, m)
    PROVE  CoreInv'
<1>1. /\ TypeInv' /\ Unmoved /\ Mail' = Rest(g, k) /\ ~Has(m.half, g)
      /\ m.kind \in {"gift", "backup", "recovered"} /\ alive' = alive
    BY DroppedDoes DEF Executes
<1>2. m.addr = g
    BY <1>1, PlacedExec
<1>3. Keeps(Mail, Mail', Talk)
    BY <1>1, RestKeeps
<1>4. NoWordLost
  <2> SUFFICES ASSUME NEW s \in Halves, NEW x \in Games, NEW h \in Games,
                      Has(s, x)', ~Free(Mail, WordFrom(s, x, h))
               PROVE  ~Free(Mail', WordFrom(s, x, h))
      BY DEF NoWordLost
  <2>1. Has(s, x)
      BY <1>1 DEF Unmoved
  <2>2. m \notin WordFrom(s, x, h)
      BY <2>1, <1>1, <1>2 DEF WordFrom, Word
  <2> QED BY <2>2, <1>1, RestKeeps
<1> QED BY <1>1, <1>3, <1>4, CoreKeeps

LEMMA CoreQuietExec ==
    ASSUME TypeInv, CoreInv, StaySettled, NEW g \in Games, NEW k \in Gates, NEW m,
           Executes(g, k, m),
           ExecGift(g, m) \/ BaseDisasterBackup(g, m) \/ CellDisasterBackup(g, m)
    PROVE  CoreInv'
<1>0. alive' = alive
    BY DEF Executes
<1>1. CASE ExecGift(g, m) \/ BaseDisasterBackup(g, m)
  <2>1. TypeInv' /\ Unmoved /\ Mail' = Rest(g, k) /\ m.kind \notin {"recover", "recovered"}
      BY <1>1, ExecGiftDoes, BaseDisasterBackupDoes
  <2>2. Keeps(Mail, Mail', Talk) /\ Holds(Mail, Mail', Talk)
      BY <2>1, RestKeeps
  <2> QED BY <1>0, <2>1, <2>2, CoreSilent
<1>2. CASE CellDisasterBackup(g, m)
  <2>1. /\ TypeInv' /\ Unmoved /\ m.kind \notin {"recover", "recovered"}
        /\ \E a, b : Called(Rest(g, k), Mail', "backup", "cell", g, a, b)
      BY <1>2, CellDisasterBackupDoes
  <2>2. /\ Keeps(Mail, Rest(g, k), Talk) /\ Holds(Mail, Rest(g, k), Talk)
        /\ Rest(g, k) \in [Lanes -> Seq(Rpcs)]
      BY <2>1, RestKeeps
  <2> QED BY <1>0, <2>1, <2>2, CoreCalls
<1> QED BY <1>1, <1>2

(* One more rpc. *)
LEMMA JoinMore ==
    ASSUME NEW q \in [Lanes -> Seq(Rpcs)], NEW w \in Lanes, NEW m \in Rpcs
    PROVE  /\ \A K : m \notin K => (Free(Joined(q, w, <<m>>), K) <=> Free(q, K))
           /\ \A K : m \in K => ~Free(Joined(q, w, <<m>>), K)
           /\ \A K : Free(q, K) => Single(Joined(q, w, <<m>>), K)
<1> DEFINE r == Joined(q, w, <<m>>)
<1>1. /\ r = Joined(q, w, <<m>>) /\ <<m>> \in Seq(Rpcs) /\ Len(<<m>>) = 1
      /\ \A K : Without(<<m>>, K) <=> m \notin K
    BY OneRpc
<1> HIDE DEF r
<1>2. \A K : Free(r, K) <=> Free(q, K) /\ Without(<<m>>, K)
    BY <1>1, JoinFree
<1>3. \A K : Free(q, K) /\ Len(<<m>>) = 1 => Single(r, K)
    BY <1>1, JoinSingle
<1> QED BY <1>1, <1>2, <1>3 DEF r

(* A half is rebuilt in game g: the order goes, a word to the half that    *)
(* asked for it comes.                                                     *)
LEMMA RebuildDoes ==
    ASSUME TypeInv, NEW g \in Games, NEW k \in Gates, NEW m, Executes(g, k, m),
           RecoverCell(g, m) \/ RecoverBase(g, m)
    PROVE  /\ TypeInv' /\ m.kind = "recover" /\ Seated(m.half, g, m.from)
           /\ \E l \in Rpcs :
                 /\ l.kind = "recovered" /\ l.half = Other(m.half) /\ l.addr = m.from /\ l.from = g
                 /\ \A K \in SUBSET Talk : /\ Free(Rest(g, k), K) /\ l \notin K => Free(Mail', K)
                                           /\ l \in K => ~Free(Mail', K)
                                           /\ Free(Rest(g, k), K) => Single(Mail', K)
<1> DEFINE s == m.half
<1>1. /\ TypeInv' /\ m.kind = "recover" /\ Seated(s, g, m.from)
      /\ \E q \in [Lanes -> Seq(Rpcs)] :
            /\ Called(Rest(g, k), q, "recovered", s, g, m.from, m.bk)
            /\ Keeps(q, Mail', Talk) /\ Holds(q, Mail', Talk)
  <2>1. CASE RecoverCell(g, m)
    <3>1. /\ TypeInv' /\ m.kind = "recover" /\ s = "cell" /\ Seated("cell", g, m.from)
          /\ Called(Rest(g, k), Mail', "recovered", "cell", g, m.from, m.bk)
        BY <2>1, RecoverCellDoes
    <3>2. Mail' \in [Lanes -> Seq(Rpcs)]
        BY <3>1, RestKeeps, CalledIs
    <3> QED BY <3>1, <3>2, KeepsSelf
  <2>2. CASE RecoverBase(g, m)
    <3>1. /\ TypeInv' /\ m.kind = "recover" /\ s = "base" /\ Seated("base", g, m.from)
          /\ \E q \in [Lanes -> Seq(Rpcs)] : \E b :
                /\ Called(Rest(g, k), q, "recovered", "base", g, m.from, m.bk)
                /\ Called(q, Mail', "backup", "base", g, m.from, b)
        BY <2>2, RecoverBaseDoes
    <3>2a. PICK q \in [Lanes -> Seq(Rpcs)] : \E b :
              /\ Called(Rest(g, k), q, "recovered", "base", g, m.from, m.bk)
              /\ Called(q, Mail', "backup", "base", g, m.from, b)
        BY <3>1
    <3>2. PICK b :
              /\ Called(Rest(g, k), q, "recovered", "base", g, m.from, m.bk)
              /\ Called(q, Mail', "backup", "base", g, m.from, b)
        BY <3>2a
    <3>3. \A l \in Rpcs : l.kind = "backup" => l \notin Talk
        BY KindFacts
    <3>4. Keeps(q, Mail', Talk) /\ Holds(q, Mail', Talk)
        BY <3>2, <3>3, CalledIs
    <3> QED BY <3>1, <3>2, <3>4
  <2> QED BY <2>1, <2>2
<1>2. PICK q \in [Lanes -> Seq(Rpcs)] :
         /\ Called(Rest(g, k), q, "recovered", s, g, m.from, m.bk)
         /\ Keeps(q, Mail', Talk) /\ Holds(q, Mail', Talk)
    BY <1>1
<1>3. PICK j \in Gates, l \in Rpcs :
         /\ l.kind = "recovered" /\ l.half = Other(s) /\ l.addr = m.from /\ l.from = g
         /\ q = Joined(Rest(g, k), Up(g, j), <<l>>)
    BY <1>2 DEF Called
<1>4. Up(g, j) \in Lanes /\ Rest(g, k) \in [Lanes -> Seq(Rpcs)]
    BY LaneFacts, RestKeeps
<1>5. /\ \A K : l \notin K => (Free(q, K) <=> Free(Rest(g, k), K))
      /\ \A K : l \in K => ~Free(q, K)
      /\ \A K : Free(Rest(g, k), K) => Single(q, K)
    BY <1>3, <1>4, JoinMore
<1>6. \A K \in SUBSET Talk : /\ Free(Rest(g, k), K) /\ l \notin K => Free(Mail', K)
                             /\ l \in K => ~Free(Mail', K)
                             /\ Free(Rest(g, k), K) => Single(Mail', K)
    BY <1>2, <1>5 DEF Keeps, Holds
<1> QED BY <1>1, <1>3, <1>6

LEMMA CoreRebuild ==
    ASSUME TypeInv, CoreInv, ReportInv, StaySettled, NEW g \in Games, NEW k \in Gates, NEW m,
           Executes(g, k, m), RecoverCell(g, m) \/ RecoverBase(g, m)
    PROVE  CoreInv'
<1> DEFINE s == m.half
           o == Other(s)
           f == m.from
<1>1. /\ m \in Rpcs /\ s \in Halves /\ o \in Halves /\ o # s /\ Other(o) = s /\ f \in Games
      /\ \A t \in Halves : t = s \/ t = o
    BY ExecMail, HalfFacts
<1>2. TypeInv' /\ m.kind = "recover" /\ Seated(s, g, f) /\ alive' = alive
    BY RebuildDoes DEF Executes
<1>3. PICK l \in Rpcs :
         /\ l.kind = "recovered" /\ l.half = o /\ l.addr = f /\ l.from = g
         /\ \A K \in SUBSET Talk : /\ Free(Rest(g, k), K) /\ l \notin K => Free(Mail', K)
                                   /\ l \in K => ~Free(Mail', K)
                                   /\ Free(Rest(g, k), K) => Single(Mail', K)
    BY RebuildDoes
<1>4. f # g \/ alive \subseteq {g}
    BY <1>2, ReportHeard
<1>5. m \in Ords /\ m \in Ord(s)
    BY <1>1, <1>2 DEF Ords, Ord
<1> HIDE DEF o, f
<1>6. \A x \in Games : ~Has(s, x)
  <2>1. ~Free(Mail, Ord(s))
      BY <1>5, RestKeeps
  <2> HIDE DEF s
  <2> QED BY <2>1, <1>1 DEF CoreInv, OrderInv
<1>7. \A y \in Games : Has(o, y) => y = f
  <2> SUFFICES ASSUME NEW y \in Games, Has(o, y), y # f PROVE FALSE
      OBVIOUS
  <2>1. m \in Strange(s, y)
      BY <1>5 DEF Strange, f
  <2>2. ~Free(Mail, Strange(s, y))
      BY <2>1, RestKeeps
  <2> HIDE DEF s
  <2>3. Free(Mail, Strange(s, y))
      BY <1>1 DEF CoreInv, OrderInv, o
  <2> QED BY <2>2, <2>3
<1>8. \A t \in Halves, x \in alive : Free(Rest(g, k), Word(t, x))
  <2>1. ~Free(Mail, Ords)
      BY <1>5, RestKeeps
  <2>2. \A t \in Halves, x \in alive : Free(Mail, Word(t, x))
      BY <2>1 DEF CoreInv, WordInv
  <2>3. Keeps(Mail, Rest(g, k), Talk)
      BY RestKeeps
  <2> QED BY <2>2, <2>3, KindFacts DEF Keeps
<1>9. Free(Rest(g, k), Ords)
  <2>1. Single(Mail, Ords)
      BY DEF CoreInv, OrderInv
  <2> QED BY <2>1, <1>5, RestKeeps
<1>10. Free(Mail', Ords)
  <2>1. l \notin Ords
      BY <1>3 DEF Ords
  <2> QED BY <2>1, <1>3, <1>9, KindFacts
<1> HIDE DEF s
<1>11. /\ \A x \in Games : Has(s, x)' => x = g /\ Addr(s, x)' = f
       /\ \A x \in Games : Has(o, x)' => Has(o, x) /\ x = f /\ Addr(o, x)' = Addr(o, x)
    BY <1>1, <1>2, <1>6, <1>7 DEF Seated
<1>12. OneHalf'
  <2>1. \A t \in Halves, x, y \in Games : Has(t, x)' /\ Has(t, y)' => x = y
      BY <1>1, <1>11
  <2>2. \A t \in Halves, x \in Games : Has(t, x)' /\ Has(Other(t), x)' => alive' \subseteq {x}
      BY <1>1, <1>2, <1>4, <1>11 DEF o
  <2> QED BY <2>1, <2>2 DEF OneHalf
<1>13. OrderInv'
  <2>1. \A t \in Halves : Free(Mail', Ord(t))
      BY <1>10, FreeParts
  <2>2. Single(Mail', Ords)
      BY <1>10, FreeJoinAt
  <2>3. \A t \in Halves, x \in Games : Free(Mail', Strange(t, x))
      BY <2>1, FreeParts
  <2> QED BY <2>1, <2>2, <2>3 DEF OrderInv
<1>14. LinkInv'
  <2> SUFFICES ASSUME NEW t \in Halves, NEW x \in Games, NEW y \in Games,
                      Has(t, x)', Has(Other(t), y)', Addr(t, x)' # y
               PROVE  ~Free(Mail', WordFrom(t, x, y))
      BY DEF LinkInv
  <2>1. t = o /\ x = f /\ y = g
      BY <1>1, <1>11 DEF o
  <2>2. l \in WordFrom(t, x, y)
      BY <2>1, <1>3 DEF WordFrom, Word, Words
  <2> QED BY <2>2, <1>3, KindFacts
<1>15. \A t \in Halves, x \in alive : ~Free(Mail', Word(t, x)) => t = o /\ x = f
  <2> SUFFICES ASSUME NEW t \in Halves, NEW x \in alive, ~(t = o /\ x = f)
               PROVE  Free(Mail', Word(t, x))
      OBVIOUS
  <2>1. l \notin Word(t, x)
      BY <1>3 DEF Word
  <2> QED BY <2>1, <1>3, <1>8, KindFacts
<1>16. WordInv'
  <2> SUFFICES ASSUME NEW t \in Halves, NEW x \in alive', ~Free(Mail', Word(t, x))
               PROVE  /\ Single(Mail', Word(t, x))
                      /\ \A y \in Games : Has(t, y)' => y = x
                      /\ \A y \in Games : Has(Other(t), y)' =>
                            /\ Addr(Other(t), y)' = x /\ Free(Mail', Word(Other(t), y))
                            /\ Free(Mail', Foreign(t, x, y))
      BY <1>10 DEF WordInv
  <2>1. t = o /\ x = f /\ Other(t) = s /\ x \in alive
      BY <1>1, <1>2, <1>15
  <2>2. Free(Rest(g, k), Word(t, x))
      BY <2>1, <1>8
  <2>3. Single(Mail', Word(t, x))
      BY <2>2, <1>3, KindFacts
  <2>4. \A y \in Games : Has(t, y)' => y = x
      BY <2>1, <1>11
  <2>5. ASSUME NEW y \in Games, Has(s, y)'
        PROVE  /\ Addr(s, y)' = x /\ Free(Mail', Word(s, y)) /\ Free(Mail', Foreign(t, x, y))
    <3>1. y = g /\ Addr(s, y)' = x /\ y \in alive
        BY <2>1, <2>5, <1>2, <1>11 DEF Has
    <3>2. Free(Mail', Word(s, y))
        BY <3>1, <1>1, <1>15
    <3>3. l \notin Foreign(t, x, y)
        BY <3>1, <1>3 DEF Foreign
    <3>4. Free(Rest(g, k), Foreign(t, x, y))
        BY <2>2, FreeParts
    <3> QED BY <3>1, <3>2, <3>3, <3>4, <1>3, KindFacts
  <2> QED BY <2>1, <2>3, <2>4, <2>5
<1>17. SettledInv'
  <2> SUFFICES ASSUME NEW t \in Halves, NEW x \in Games, Has(t, x)',
                      ~Free(Mail', Ord(Other(t))) \/ ~Free(Mail', Word(t, x))
               PROVE  Settled(x, Addr(t, x))'
      BY DEF SettledInv
  <2>1. ~Free(Mail', Word(t, x)) /\ x \in alive
      BY <1>2, <1>10, FreeParts DEF Has
  <2>2. t = o /\ x = f
      BY <2>1, <1>15
  <2>3. Has(t, x) /\ Addr(t, x)' = Addr(t, x)
      BY <2>2, <1>11
  <2>4. ~Free(Mail, Ord(s)) /\ ~Free(Mail, Talk)
    <3>1. ~Free(Mail, Ord(s))
        BY <1>5, RestKeeps
    <3> QED BY <3>1, FreeParts
  <2>5. Settled(x, Addr(t, x))
      BY <2>2, <2>3, <2>4, <1>1 DEF CoreInv, SettledInv
  <2>6. PICK a \in Games : a = Addr(t, x)
    <3>1. EntsOK /\ Plain
        BY TypeSplit
    <3> QED BY <3>1, <2>3, EntityFacts
  <2>7. Settled(x, a)'
      BY <2>1, <2>4, <2>5, <2>6, <1>2 DEF StaySettled
  <2> QED BY <2>3, <2>6, <2>7 DEF Settled
<1> QED BY <1>12, <1>13, <1>14, <1>16, <1>17 DEF CoreInv

(* A half learns where the other one is rebuilt. *)
LEMMA RecoveredDoes ==
    ASSUME TypeInv, NEW g \in Games, NEW k \in Gates, NEW m, Executes(g, k, m),
           CellRecovered(g, m) \/ BaseRecovered(g, m)
    PROVE  /\ TypeInv' /\ m.kind = "recovered" /\ Has(m.half, g) /\ Seated(m.half, g, m.from)
           /\ Keeps(Rest(g, k), Mail', Talk)
<1>1. CASE BaseRecovered(g, m)
    BY <1>1, BaseRecoveredDoes, KeepsSelf
<1>2. CASE CellRecovered(g, m)
  <2>1. /\ TypeInv' /\ m.kind = "recovered" /\ m.half = "base" /\ Seated("base", g, m.from)
        /\ Has("base", g) /\ \E b : Called(Rest(g, k), Mail', "backup", "base", g, m.from, b)
      BY <1>2, CellRecoveredDoes
  <2>2. Rest(g, k) \in [Lanes -> Seq(Rpcs)]
      BY RestKeeps
  <2>3. \A l \in Rpcs : l.kind = "backup" => l \notin Talk
      BY KindFacts
  <2>4. Keeps(Rest(g, k), Mail', Talk)
      BY <2>1, <2>2, <2>3, CalledIs
  <2> QED BY <2>1, <2>4
<1> QED BY <1>1, <1>2

LEMMA CoreRecovered ==
    ASSUME TypeInv, CoreInv, Placed(Mail), NEW g \in Games, NEW k \in Gates, NEW m,
           Executes(g, k, m), CellRecovered(g, m) \/ BaseRecovered(g, m)
    PROVE  CoreInv'
<1> DEFINE s == m.half
           o == Other(s)
           f == m.from
<1>1. /\ m \in Rpcs /\ s \in Halves /\ o \in Halves /\ o # s /\ Other(o) = s /\ f \in Games
      /\ \A t \in Halves : t = s \/ t = o
    BY ExecMail, HalfFacts
<1>2. /\ TypeInv' /\ m.kind = "recovered" /\ Has(s, g) /\ Seated(s, g, f) /\ alive' = alive
      /\ g \in alive
    BY RecoveredDoes DEF Executes
<1>3. m.addr = g
    BY <1>2, PlacedExec
<1>4. m \in Word(s, g)
    BY <1>1, <1>2, <1>3 DEF Word, Words
<1>5. \A K \in SUBSET Talk : Free(Mail, K) => Free(Mail', K)
    BY RecoveredDoes, RestKeeps DEF Keeps
<1>6. ~Free(Mail, Word(s, g)) /\ (Single(Mail, Word(s, g)) => Free(Mail', Word(s, g)))
  <2> DEFINE K == Word(s, g)
  <2>1. m \in K /\ K \in SUBSET Talk
      BY <1>4, KindFacts
  <2> HIDE DEF K
  <2>2. ~Free(Mail, K) /\ (Single(Mail, K) => Free(Rest(g, k), K))
      BY <2>1, RestKeeps
  <2>3. Free(Rest(g, k), K) => Free(Mail', K)
      BY <2>1, RecoveredDoes DEF Keeps
  <2> QED BY <2>2, <2>3 DEF K
<1> HIDE DEF o, f
<1>7. /\ Free(Mail, Ords) /\ Single(Mail, Word(s, g))
      /\ \A x \in Games : Has(s, x) => x = g
      /\ \A x \in Games : Has(o, x) => /\ Addr(o, x) = g /\ Free(Mail, Word(o, x))
                                       /\ Free(Mail, Foreign(s, g, x))
    BY <1>1, <1>2, <1>6 DEF CoreInv, WordInv, o
<1>8. \A x \in Games : Has(o, x) => x = f
  <2> SUFFICES ASSUME NEW x \in Games, Has(o, x), x # f PROVE FALSE
      OBVIOUS
  <2>1. m \in Foreign(s, g, x)
      BY <1>4 DEF Foreign, f
  <2>2. ~Free(Mail, Foreign(s, g, x))
      BY <2>1, RestKeeps
  <2> QED BY <2>2, <1>7
<1>9. Free(Mail', Ords) /\ Free(Mail', Word(s, g))
    BY <1>5, <1>6, <1>7, KindFacts
<1> HIDE DEF s
<1>10. /\ \A x \in Games : Has(s, x)' => x = g /\ Addr(s, x)' = f
       /\ \A x \in Games : Has(o, x)' => Has(o, x) /\ x = f /\ Addr(o, x)' = g
    BY <1>1, <1>2, <1>7, <1>8 DEF Seated
<1>11. \A t \in Halves, x \in alive : Free(Mail', Word(t, x))
  <2> SUFFICES ASSUME NEW t \in Halves, NEW x \in alive, ~Free(Mail', Word(t, x)) PROVE FALSE
      OBVIOUS
  <2>1. ~Free(Mail, Word(t, x))
      BY <1>5, KindFacts
  <2>2. /\ \A y \in Games : Has(t, y) => y = x
        /\ \A y \in Games : Has(Other(t), y) => /\ Addr(Other(t), y) = x
                                                /\ Free(Mail, Word(Other(t), y))
      BY <2>1 DEF CoreInv, WordInv
  <2>3. CASE t = s
      BY <2>2, <2>3, <1>2, <1>9
  <2>4. CASE t = o
      BY <2>2, <2>4, <1>1, <1>2, <1>6
  <2> QED BY <2>3, <2>4, <1>1
<1>12. OneHalf'
  <2>1. f # g \/ (\A x \in Games : ~Has(o, x)') \/ alive' \subseteq {g}
    <3>1. \A x \in Games : Has(s, x) /\ Has(Other(s), x) => alive \subseteq {x}
        BY <1>1 DEF CoreInv, OneHalf
    <3> QED BY <3>1, <1>2, <1>10 DEF o
  <2>2. \A t \in Halves, x, y \in Games : Has(t, x)' /\ Has(t, y)' => x = y
      BY <1>1, <1>10
  <2>3. \A t \in Halves, x \in Games : Has(t, x)' /\ Has(Other(t), x)' => alive' \subseteq {x}
      BY <1>1, <1>10, <2>1 DEF o
  <2> QED BY <2>2, <2>3 DEF OneHalf
<1>13. OrderInv'
  <2>1. \A t \in Halves : Free(Mail', Ord(t))
      BY <1>9, FreeParts
  <2>2. Single(Mail', Ords)
      BY <1>9, FreeJoinAt
  <2>3. \A t \in Halves, x \in Games : Free(Mail', Strange(t, x))
      BY <2>1, FreeParts
  <2> QED BY <2>1, <2>2, <2>3 DEF OrderInv
<1>14. LinkInv'
  <2> SUFFICES ASSUME NEW t \in Halves, NEW x \in Games, NEW y \in Games,
                      Has(t, x)', Has(Other(t), y)'
               PROVE  Addr(t, x)' = y
      BY DEF LinkInv
  <2>1. CASE t = s
      BY <2>1, <1>1, <1>10 DEF o
  <2>2. CASE t = o
      BY <2>2, <1>1, <1>10
  <2> QED BY <2>1, <2>2, <1>1
<1>15. WordInv'
    BY <1>2, <1>11 DEF WordInv
<1>16. SettledInv'
  <2>1. \A t \in Halves : Free(Mail', Ord(Other(t)))
      BY <1>9, FreeParts
  <2>2. \A t \in Halves, x \in Games : Has(t, x)' => Free(Mail', Word(t, x))
      BY <1>2, <1>11 DEF Has
  <2> QED BY <2>1, <2>2 DEF SettledInv
<1> QED BY <1>12, <1>13, <1>14, <1>15, <1>16 DEF CoreInv

-----------------------------------------------------------------------------
(* A game hears of a death.  It may react a second time, once the deadline  *)
(* of the first report has passed, and that holds back none after it, as    *)
(* the table of on_game_disappear keeps a deadline that has passed.         *)

(* Not both halves are in one game and have lost the other one: it would    *)
(* have been told that it is there.                                         *)
LEMMA OneAsks ==
    ASSUME TypeInv, CoreInv, NEW g \in Games, NEW a, a \notin alive
    PROVE  \A s \in Halves : s \in ToRecover(g, a) => Other(s) \notin ToRecover(g, a)
<1> SUFFICES ASSUME NEW s \in Halves, s \in ToRecover(g, a), Other(s) \in ToRecover(g, a)
             PROVE  FALSE
    OBVIOUS
<1>1. /\ Has(s, g) /\ Has(Other(s), g) /\ Addr(s, g) = a /\ Addr(Other(s), g) = a /\ g \in alive
    BY DEF ToRecover, Addr, Has
<1>2. ~Free(Mail, WordFrom(s, g, g))
    BY <1>1 DEF CoreInv, LinkInv
<1>3. ~Free(Mail, Word(s, g))
    BY <1>2, FreeParts
<1>4. Addr(Other(s), g) = g
    BY <1>1, <1>3 DEF CoreInv, WordInv
<1> QED BY <1>1, <1>4

LEMMA HeardDoes ==
    ASSUME TypeInv, ReportInv, CoreInv, NEW g \in Games, NEW k \in Gates, NEW m,
           Executes(g, k, m), OnGameDisappear(g, m)
    PROVE  /\ TypeInv' /\ Unmoved /\ ents' = ents /\ alive' = alive /\ m.kind = "disappear"
           /\ \/ Mail' = Rest(g, k)
              \/ /\ ~Handled(g, m) /\ Noted(g, m.addr)
                 /\ \A h, a \in Games : handled'[h][a] =
                       IF h = g /\ a = m.addr /\ handled[h][a] = "none" THEN "ahead"
                       ELSE handled[h][a]
                 /\ \E s \in Halves : /\ s \in ToRecover(g, m.addr)
                                      /\ Asked(Rest(g, k), Mail', s, g, ToRecover(g, m.addr))
<1> DEFINE T == ToRecover(g, m.addr)
<1>1. /\ TypeInv' /\ Unmoved /\ ents' = ents /\ alive' = alive /\ m.kind = "disappear"
      /\ \/ Mail' = Rest(g, k)
         \/ /\ ~Handled(g, m) /\ Noted(g, m.addr)
            /\ \A h, a \in Games : handled'[h][a] =
                  IF h = g /\ a = m.addr /\ handled[h][a] = "none" THEN "ahead"
                  ELSE handled[h][a]
            /\ \E q : Asked(Rest(g, k), q, "base", g, T) /\ Asked(q, Mail', "cell", g, T)
  <2>1. alive' = alive
      BY DEF Executes
  <2>2. /\ TypeInv' /\ Unmoved /\ ents' = ents /\ m.kind = "disappear"
        /\ \/ Handled(g, m) /\ Mail' = Rest(g, k)
           \/ /\ ~Handled(g, m) /\ Noted(g, m.addr)
              /\ \A h, a \in Games : handled'[h][a] =
                    IF h = g /\ a = m.addr /\ handled[h][a] = "none" THEN "ahead"
                    ELSE handled[h][a]
              /\ \E q \in [Lanes -> Seq(Rpcs)] :
                    /\ Asked(Rest(g, k), q, "base", g, ToRecover(g, m.addr))
                    /\ Asked(q, Mail', "cell", g, ToRecover(g, m.addr))
      BY OnGameDisappearDoes
  <2> QED BY <2>1, <2>2, Zenon
<1>2. "base" \in T => "cell" \notin T
  <2>1. m.addr \notin alive
      BY <1>1, ReportHeard
  <2> QED BY <2>1, OneAsks, HalfFacts
<1> HIDE DEF T
<1>3. ASSUME NEW q, Asked(Rest(g, k), q, "base", g, T), Asked(q, Mail', "cell", g, T)
      PROVE  \/ Mail' = Rest(g, k)
             \/ \E s \in Halves : s \in T /\ Asked(Rest(g, k), Mail', s, g, T)
  <2>1. CASE "base" \in T
    <3>1. Mail' = q
        BY <2>1, <1>2, <1>3 DEF Asked
    <3> QED BY <3>1, <2>1, <1>3, HalfFacts
  <2>2. CASE "base" \notin T
    <3>1. q = Rest(g, k)
        BY <2>2, <1>3 DEF Asked
    <3>2. CASE "cell" \in T
        BY <3>1, <3>2, <1>3, HalfFacts
    <3>3. CASE "cell" \notin T
        BY <3>1, <3>3, <1>3 DEF Asked
    <3> QED BY <3>2, <3>3
  <2> QED BY <2>1, <2>2
<1> QED BY <1>1, <1>3 DEF T

LEMMA CoreHeard ==
    ASSUME TypeInv, CoreInv, ReportInv, StaySettled, ~unheld',
           NEW g \in Games, NEW k \in Gates, NEW m, Executes(g, k, m), OnGameDisappear(g, m)
    PROVE  CoreInv'
<1> DEFINE T == ToRecover(g, m.addr)
           a == m.addr
<1>1. TypeInv' /\ Unmoved /\ ents' = ents /\ alive' = alive /\ m.kind = "disappear" /\ g \in alive
    BY HeardDoes DEF Executes
<1>2. CASE Mail' = Rest(g, k)
  <2>1. Keeps(Mail, Mail', Talk) /\ Holds(Mail, Mail', Talk)
      BY <1>1, <1>2, RestKeeps
  <2> QED BY <1>1, <2>1, CoreSilent
<1>3. ASSUME ~Handled(g, m), Noted(g, m.addr),
             \A h, b \in Games : handled'[h][b] =
                 IF h = g /\ b = m.addr /\ handled[h][b] = "none" THEN "ahead" ELSE handled[h][b],
             NEW s \in Halves, s \in T, Asked(Rest(g, k), Mail', s, g, T)
      PROVE  CoreInv'
  <2> DEFINE o == Other(s)
  <2>1. /\ o \in Halves /\ o # s /\ Other(o) = s /\ a \in Games
        /\ \A t \in Halves : t = s \/ t = o
      BY ExecMail, HalfFacts
  <2>2. Has(s, g) /\ Addr(s, g) = a
      BY <1>3 DEF ToRecover, Addr
  <2>3. a \notin alive
      BY <1>1, ReportHeard
  <2>4. ~Settled(g, a)
      BY <1>3, <2>1 DEF Settled, Handled, Noted
  <2> HIDE DEF a, T
  <2>5. Free(Mail, Ord(o)) /\ Free(Mail, Word(s, g))
      BY <2>2, <2>4 DEF CoreInv, SettledInv, o
  <2>6. \A h \in Games : ~Has(o, h)
    <3> SUFFICES ASSUME NEW h \in Games, Has(o, h) PROVE FALSE
        OBVIOUS
    <3>1. Addr(s, g) # h
        BY <2>2, <2>3 DEF Has
    <3>2. ~Free(Mail, WordFrom(s, g, h))
        BY <3>1, <2>2 DEF CoreInv, LinkInv, o
    <3> QED BY <3>2, <2>5, FreeParts
  <2>7. Free(Mail, Ords)
    <3>1. Free(Mail, Ord(s))
        BY <2>2 DEF CoreInv, OrderInv
    <3>2. \A t \in Halves : Free(Mail, Ord(t))
        BY <3>1, <2>1, <2>5
    <3> QED BY <3>2, FreeParts
  <2>8. \A t \in Halves, x \in alive : Free(Mail, Word(t, x))
    <3> SUFFICES ASSUME NEW t \in Halves, NEW x \in alive, ~Free(Mail, Word(t, x)) PROVE FALSE
        OBVIOUS
    <3>1. /\ \A y \in Games : Has(t, y) => y = x
          /\ \A y \in Games : Has(Other(t), y) => Addr(Other(t), y) = x
        BY DEF CoreInv, WordInv
    <3>2. CASE t = s
        BY <3>1, <3>2, <2>2, <2>5
    <3>3. CASE t = o
        BY <3>1, <3>3, <2>1, <2>2, <2>3
    <3> QED BY <3>2, <3>3, <2>1
  <2>9. \A h \in Games : Has(s, h) => h = g
      BY <2>2 DEF CoreInv, OneHalf
  <2>10. PICK j \in Gates, l \in Rpcs :
            /\ l.kind = "recover" /\ l.half = o /\ l.from = g
            /\ Mail' = Joined(Rest(g, k), Up(g, j), <<l>>)
      BY <1>3 DEF Asked
  <2>11. /\ \A K \in SUBSET Talk : /\ Free(Mail, K) /\ l \notin K => Free(Mail', K)
                                   /\ Free(Mail, K) => Single(Mail', K)
    <3>1. Up(g, j) \in Lanes /\ Rest(g, k) \in [Lanes -> Seq(Rpcs)] /\ Keeps(Mail, Rest(g, k), Talk)
        BY LaneFacts, RestKeeps
    <3>2. /\ \A K : l \notin K => (Free(Mail', K) <=> Free(Rest(g, k), K))
          /\ \A K : Free(Rest(g, k), K) => Single(Mail', K)
        BY <3>1, <2>10, JoinMore
    <3> QED BY <3>1, <3>2 DEF Keeps
  <2> HIDE DEF o
  <2>12. /\ \A x \in Games : Has(s, x)' => x = g /\ Addr(s, x)' = a
         /\ \A x \in Games : ~Has(o, x)'
      BY <1>1, <2>1, <2>2, <2>6, <2>9 DEF Unmoved
  <2>13. OneHalf'
      BY <2>1, <2>12 DEF OneHalf, o
  <2>14. OrderInv'
    <3>1. Single(Mail', Ords)
        BY <2>7, <2>11, KindFacts
    <3>2. Free(Mail', Ord(s))
      <4>1. l \notin Ord(s) /\ Free(Mail, Ord(s))
          BY <2>1, <2>7, <2>10, FreeParts DEF Ord
      <4> QED BY <4>1, <2>11, KindFacts
    <3>3. Free(Mail', Strange(o, g))
      <4>1. l \notin Strange(o, g) /\ Free(Mail, Strange(o, g))
        <5>1. Free(Mail, Strange(o, g))
            BY <2>5, FreeParts
        <5> QED BY <5>1, <2>10 DEF Strange
      <4> QED BY <4>1, <2>11, KindFacts
    <3>4. \A t \in Halves : ~Free(Mail', Ord(t)) => \A x \in Games : ~Has(t, x)'
        BY <3>2, <2>1, <2>12
    <3>5. ASSUME NEW t \in Halves, NEW x \in Games, Has(Other(t), x)'
          PROVE  Free(Mail', Strange(t, x))
      <4>1. CASE t = s
          BY <4>1, <3>5, <2>12 DEF o
      <4>2. CASE t = o
          BY <4>2, <3>3, <3>5, <2>1, <2>12
      <4> QED BY <4>1, <4>2, <2>1
    <3> QED BY <3>1, <3>4, <3>5 DEF OrderInv
  <2>15. LinkInv'
      BY <2>1, <2>12 DEF LinkInv, o
  <2>16. \A t \in Halves, x \in alive : Free(Mail', Word(t, x))
    <3>1. \A t \in Halves, x \in alive : l \notin Word(t, x)
        BY <2>10 DEF Word, Words
    <3> QED BY <3>1, <2>8, <2>11, KindFacts
  <2>17. WordInv'
      BY <1>1, <2>16 DEF WordInv
  <2>18. Settled(g, a)'
    <3>1. CASE handled[g][a] = "none"
        BY <3>1, <1>3, <2>1 DEF Settled, a
    <3>2. CASE handled[g][a] # "none"
      <4>1. handled[g][a] = "passed" /\ handled'[g][a] = "passed"
        <5>1. handled[g][a] \in Deadlines
          <6>1. Plain
              BY TypeSplit
          <6> QED BY <6>1, <2>1 DEF Plain
        <5> QED BY <5>1, <3>2, <1>3, <2>1 DEF Handled, Deadlines, a
      <4>2. a \in again'[g]
          BY <4>1, <1>3 DEF Noted, a, T
      <4> QED BY <4>1, <4>2 DEF Settled
    <3> QED BY <3>1, <3>2
  <2>19. SettledInv'
    <3> SUFFICES ASSUME NEW t \in Halves, NEW x \in Games, Has(t, x)'
                 PROVE  Settled(x, Addr(t, x))'
        BY DEF SettledInv
    <3>1. t = s /\ x = g /\ Addr(t, x)' = a
        BY <2>1, <2>12
    <3> QED BY <3>1, <2>18 DEF Settled
  <2> QED BY <2>13, <2>14, <2>15, <2>17, <2>19 DEF CoreInv
<1> QED BY <1>1, <1>2, <1>3, HeardDoes

-----------------------------------------------------------------------------
(* The invariant. *)
LEMMA CoreStep ==
    ASSUME TypeInv, Inv, [Next]_vars, ~unheld'
    PROVE  CoreInv'
<1>00. ~unheld
    BY HeldStep
<1>0. /\ CoreInv /\ Placed(Mail) /\ ReportInv /\ StaySettled /\ TypeInv'
      /\ Mail \in [Lanes -> Seq(Rpcs)] /\ Keeps(Mail, Mail, Talk) /\ Holds(Mail, Mail, Talk)
    BY <1>00, AllStay, TypeStep, MailType, KeepsSelf DEF Inv
<1>1. ASSUME NEW g \in Games, Exec(g) PROVE CoreInv'
  <2>1a. PICK k \in Gates : \E m : Executes(g, k, m) /\ Handles(g, m)
      BY <1>1, ExecIs
  <2>1. PICK m :
            /\ Executes(g, k, m)
            /\ \/ Dropped(g, m) \/ ExecGift(g, m) \/ OnGameDisappear(g, m)
               \/ CellDisasterBackup(g, m) \/ BaseDisasterBackup(g, m)
               \/ RecoverCell(g, m) \/ RecoverBase(g, m)
               \/ CellRecovered(g, m) \/ BaseRecovered(g, m)
      BY <2>1a DEF Handles
  <2>2. CASE Dropped(g, m)
      BY <1>0, <2>1, <2>2, CoreDropped
  <2>3. CASE ExecGift(g, m) \/ BaseDisasterBackup(g, m) \/ CellDisasterBackup(g, m)
      BY <1>0, <2>1, <2>3, CoreQuietExec
  <2>4. CASE OnGameDisappear(g, m)
      BY <1>0, <2>1, <2>4, CoreHeard
  <2>5. CASE RecoverCell(g, m) \/ RecoverBase(g, m)
      BY <1>0, <2>1, <2>5, CoreRebuild
  <2>6. CASE CellRecovered(g, m) \/ BaseRecovered(g, m)
      BY <1>0, <2>1, <2>6, CoreRecovered
  <2> QED BY <2>1, <2>2, <2>3, <2>4, <2>5, <2>6
<1>2. ASSUME NEW g \in Games, TimeToDisasterBackup(g) PROVE CoreInv'
  <2>1. Unmoved /\ alive' = alive /\ \E a, b : Called(Mail, Mail', "backup", "base", g, a, b)
      BY <1>2, TimeToDisasterBackupDoes DEF TimeToDisasterBackup
  <2> QED BY <1>0, <2>1, CoreCalls
<1>3. ASSUME NEW g \in Games, NEW s \in Halves, Give(s, g) PROVE CoreInv'
  <2>1. Unmoved /\ alive' = alive /\ \E a, b : Called(Mail, Mail', "gift", s, g, a, b)
      BY <1>3, GiveDoes DEF Give
  <2> QED BY <1>0, <2>1, CoreCalls
<1>4. ASSUME NEW g \in Games, NEW s \in Halves, LoseTouch(s, g) PROVE CoreInv'
  <2>1. Unmoved /\ Mail' = Mail /\ alive' = alive
      BY <1>4, LoseTouchDoes DEF LoseTouch
  <2> QED BY <1>0, <2>1, CoreSilent
<1>5. ASSUME NEW g \in Games, NEW a \in Games, WindowEnds(g, a) PROVE CoreInv'
  <2>1. Unmoved /\ Mail' = Mail /\ alive' = alive
      BY <1>5, WindowEndsDoes
  <2> QED BY <1>0, <2>1, CoreSilent
<1>6. ASSUME NEW g \in Games, Die(g) PROVE CoreInv'
    BY <1>0, <1>6, CoreDie
<1>7. ASSUME NEW k \in Gates, NEW g \in Games, ReadFails(k, g) \/ WriteFails(k, g)
      PROVE  CoreInv'
    BY <1>0, <1>7, CoreTold DEF Reports
<1>8. ASSUME NEW k \in Gates, NEW g \in Games, Relay(k, g) PROVE CoreInv'
    BY <1>0, <1>8, CoreRelay
<1>9. CASE UNCHANGED vars
  <2>1. Mail' = Mail /\ alive' = alive /\ ents' = ents
      BY <1>9 DEF vars, netVars, Mail
  <2>2. Unmoved
      BY <2>1 DEF Unmoved, Has, Addr
  <2> QED BY <1>0, <2>1, <2>2, CoreSilent
<1> QED BY <1>1, <1>2, <1>3, <1>4, <1>5, <1>6, <1>7, <1>8, <1>9 DEF Next

LEMMA InvStep ==
    ASSUME TypeInv, Inv, [Next]_vars
    PROVE  Inv'
BY CoreStep, PlacedStep, ReportStep DEF Inv

LEMMA InvInit ==
    ASSUME Init
    PROVE  Inv
<1>1. TypeInv /\ Mail = [w \in Lanes |-> <<>>]
    BY TypeInit
<1>2. \A K : Free(Mail, K)
    BY <1>1 DEF Free
<1>3. Placed(Mail)
    BY <1>1 DEF Placed
<1>4. ReportInv
  <2>1. \A k \in Gates : alive \subseteq known[k]
      BY DEF Init
  <2>2. \A k \in Gates, g \in Games : down[k][g] = <<>>
      BY DEF Init
  <2>3. \A g, a \in Games : handled[g][a] = "none" /\ again[g] = {}
      BY DEF Init
  <2> QED BY <2>1, <2>2, <2>3 DEF ReportInv, Marked
<1>5. /\ \A s \in Halves, g \in Games : Has(s, g) =>
            (s = "base" /\ g = Base0) \/ (s = "cell" /\ g = Cell0)
      /\ Addr("base", Base0) = Cell0 /\ Addr("cell", Cell0) = Base0
      /\ Base0 # Cell0
  <2>1. Base0 # Cell0 /\ Base0 \in Games /\ Cell0 \in Games
      BY PlacesAssumption
  <2> QED BY <2>1, HalfFacts DEF Init, Has, Addr, None, Entity
<1>6. OneHalf
    BY <1>5, HalfFacts DEF OneHalf
<1>7. OrderInv
    BY <1>2, FreeJoinAt DEF OrderInv
<1>8. LinkInv
    BY <1>5, HalfFacts DEF LinkInv
<1>9. WordInv /\ SettledInv
    BY <1>2 DEF WordInv, SettledInv
<1> QED BY <1>3, <1>4, <1>6, <1>7, <1>8, <1>9 DEF Inv, CoreInv

-----------------------------------------------------------------------------
(* At most one member. *)
LEMMA OneMember ==
    ASSUME NEW S, \A x, y \in S : x = y
    PROVE  /\ IsFiniteSet(S) /\ Cardinality(S) \in {0, 1}
           /\ S = {} => Cardinality(S) = 0
<1>1. CASE S = {}
    BY <1>1, FS_EmptySet
<1>2. CASE S # {}
  <2>1. PICK x \in S : TRUE
      BY <1>2
  <2>2. S = {x}
      BY <2>1
  <2> QED BY <2>2, FS_Singleton
<1> QED BY <1>1, <1>2

LEMMA OneCopyFrom ==
    ASSUME TypeInv, Inv
    PROVE  OneCopy
<1> SUFFICES ASSUME ~unheld, NEW s \in Halves
             PROVE  Cardinality(Where(s)) + Cardinality(Orders(s)) <= 1
    BY DEF OneCopy
<1>1. Mail \in [Lanes -> Seq(Rpcs)] /\ \A w \in Lanes : Queue(w) = Mail[w]
    BY MailType
<1>2. \A x, y \in Where(s) : x = y
    BY DEF Where, Inv, CoreInv, OneHalf
<1>3. ASSUME NEW x \in Orders(s)
      PROVE  \E w \in Lanes : \E i \in 1 .. Len(Mail[w]) : x = <<w, i>> /\ Mail[w][i] \in Ord(s)
  <2>1. PICK w \in Lanes : \E i \in DOMAIN Queue(w) :
            x = <<w, i>> /\ Queue(w)[i].kind = "recover" /\ Queue(w)[i].half = s
      BY <1>3 DEF Orders
  <2>2. PICK i \in DOMAIN Queue(w) :
            x = <<w, i>> /\ Queue(w)[i].kind = "recover" /\ Queue(w)[i].half = s
      BY <2>1
  <2>3. Queue(w) = Mail[w] /\ Mail[w] \in Seq(Rpcs)
      BY <1>1
  <2>4. i \in 1 .. Len(Mail[w]) /\ Mail[w][i] \in Rpcs
      BY <2>2, <2>3
  <2> QED BY <2>2, <2>3, <2>4 DEF Ord, Ords
<1>4. \A x, y \in Orders(s) : x = y
  <2> SUFFICES ASSUME NEW x \in Orders(s), NEW y \in Orders(s) PROVE x = y
      OBVIOUS
  <2>1. PICK v \in Lanes : \E i \in 1 .. Len(Mail[v]) : x = <<v, i>> /\ Mail[v][i] \in Ord(s)
      BY <1>3
  <2>2. PICK i \in 1 .. Len(Mail[v]) : x = <<v, i>> /\ Mail[v][i] \in Ord(s)
      BY <2>1
  <2>3. PICK w \in Lanes : \E j \in 1 .. Len(Mail[w]) : y = <<w, j>> /\ Mail[w][j] \in Ord(s)
      BY <1>3
  <2>4. PICK j \in 1 .. Len(Mail[w]) : y = <<w, j>> /\ Mail[w][j] \in Ord(s)
      BY <2>3
  <2>5. Single(Mail, Ords) /\ DOMAIN Mail = Lanes
      BY <1>1 DEF Inv, CoreInv, OrderInv
  <2>6. v = w /\ i = j
      BY <2>2, <2>4, <2>5 DEF Single, Ord
  <2> QED BY <2>2, <2>4, <2>6
<1>5. Where(s) = {} \/ Orders(s) = {}
  <2> SUFFICES ASSUME NEW x \in Orders(s), NEW g \in Where(s) PROVE FALSE
      OBVIOUS
  <2>1. ~Free(Mail, Ord(s))
      BY <1>1, <1>3 DEF Free
  <2> QED BY <2>1 DEF Where, Inv, CoreInv, OrderInv
<1> DEFINE W == Where(s)
           O == Orders(s)
<1>6. \A x, y \in W : x = y
    BY <1>2
<1>7. \A x, y \in O : x = y
    BY <1>4
<1>8. W = {} \/ O = {}
    BY <1>5
<1> HIDE DEF W, O
<1>9. Cardinality(W) \in {0, 1} /\ (W = {} => Cardinality(W) = 0)
    BY <1>6, OneMember
<1>10. Cardinality(O) \in {0, 1} /\ (O = {} => Cardinality(O) = 0)
    BY <1>7, OneMember
<1>11. Cardinality(W) + Cardinality(O) <= 1
    BY <1>8, <1>9, <1>10
<1> QED BY <1>11 DEF W, O

LEMMA ApartFrom ==
    ASSUME TypeInv, Inv
    PROVE  Apart
<1> SUFFICES ASSUME ~unheld, NEW g \in Where("base") \cap Where("cell")
             PROVE  Cardinality(alive) = 1
    BY DEF Apart
<1>1. g \in Games /\ Has("base", g) /\ Has("cell", g) /\ g \in alive
    BY DEF Where, Has
<1>2. alive \subseteq {g}
    BY <1>1, HalfFacts DEF Inv, CoreInv, OneHalf
<1>3. alive = {g}
    BY <1>1, <1>2
<1> QED BY <1>3, FS_Singleton

(* OneCopy: whichever games die, and however often and whenever each gate  *)
(* reports it to on_game_disappear, a half that is lost is rebuilt once:   *)
(* of the half and the orders to rebuild it there is one at most, unless   *)
(* the table has let a second order out after its deadline.                *)
THEOREM RebuiltOnce == Spec => []OneCopy
<1>1. Init => TypeInv /\ Inv
    BY TypeInit, InvInit
<1>2. TypeInv /\ Inv /\ [Next]_vars => (TypeInv /\ Inv)'
    BY TypeStep, InvStep
<1>3. TypeInv /\ Inv => OneCopy
    BY OneCopyFrom
<1> QED BY <1>1, <1>2, <1>3, PTL DEF Spec

(* Apart: nor do the gates ever choose the game of the half that is left,  *)
(* whose death would take both and the backups, while there is any other:  *)
(* get_rand_remote_exclude returns the excluded one only if it knows none  *)
(* besides, and a gate knows every game that runs.                         *)
THEOREM NeverTogether == Spec => []Apart
<1>1. Init => TypeInv /\ Inv
    BY TypeInit, InvInit
<1>2. TypeInv /\ Inv /\ [Next]_vars => (TypeInv /\ Inv)'
    BY TypeStep, InvStep
<1>3. TypeInv /\ Inv => Apart
    BY ApartFrom
<1> QED BY <1>1, <1>2, <1>3, PTL DEF Spec

-----------------------------------------------------------------------------
(***************************************************************************)
(* Counting letters.  A place is a queue and a position in it.             *)
(***************************************************************************)
Places(q, K) == {p \in Lanes \X (Nat \ {0}) : p[2] <= Len(q[p[1]]) /\ q[p[1]][p[2]] \in K}
Letter(q, p) == q[p[1]][p[2]]

(* A letter in a queue to a game is ahead of those in the queues to gates. *)
Prior(a, b) == \/ a[1][1] = "down" /\ b[1][1] = "up"
               \/ a[1] = b[1] /\ a[2] < b[2]

(* The letters of K that are ahead of place b. *)
Before(q, K, b) == {a \in Places(q, K) : Prior(a, b)}

(* All letters of X are in the queues u and d. *)
OnPath(q, X, u, d) == \A a \in Places(q, X) : a[1] = u \/ a[1] = d

(* Every letter of X in r was one of q, at place p[a] if it is at a. *)
Follows(q, r, X, p) ==
    /\ \A a \in Places(r, X) : p[a] \in Places(q, X) /\ Letter(q, p[a]) = Letter(r, a)
    /\ \A a, b \in Places(r, X) : p[a] = p[b] => a = b
(* The letters are in the same order. *)
InStep(q, r, X, p) ==
    \A a, b \in Places(r, X) : Prior(a, b) <=> Prior(p[a], p[b])

LEMMA PlaceFacts ==
    ASSUME NEW q \in [Lanes -> Seq(Rpcs)], NEW K
    PROVE  /\ \A a \in Places(q, K) :
                 /\ a[1] \in Lanes /\ a[2] \in 1 .. Len(q[a[1]]) /\ a = <<a[1], a[2]>>
                 /\ Letter(q, a) \in K /\ Letter(q, a) \in Rpcs
           /\ \A w \in Lanes : \A i \in 1 .. Len(q[w]) :
                 q[w][i] \in K <=> <<w, i>> \in Places(q, K)
           /\ Free(q, K) <=> Places(q, K) = {}
           /\ \A X : K \subseteq X => Places(q, K) \subseteq Places(q, X)
<1>1. DOMAIN q = Lanes /\ \A w \in Lanes : Len(q[w]) \in Nat /\ \A i \in 1 .. Len(q[w]) : q[w][i] \in Rpcs
    OBVIOUS
<1>2. ASSUME NEW a \in Places(q, K)
      PROVE  /\ a[1] \in Lanes /\ a[2] \in 1 .. Len(q[a[1]]) /\ a = <<a[1], a[2]>>
             /\ Letter(q, a) \in K /\ Letter(q, a) \in Rpcs
    BY <1>1 DEF Places, Letter
<1>3. ASSUME NEW w \in Lanes, NEW i \in 1 .. Len(q[w])
      PROVE  q[w][i] \in K <=> <<w, i>> \in Places(q, K)
    BY <1>1 DEF Places
<1>4. Free(q, K) <=> Places(q, K) = {}
  <2>1. ASSUME Free(q, K), NEW a \in Places(q, K) PROVE FALSE
      BY <2>1, <1>1, <1>2 DEF Free, Letter
  <2>2. ASSUME Places(q, K) = {} PROVE Free(q, K)
      BY <2>2, <1>1, <1>3 DEF Free
  <2> QED BY <2>1, <2>2
<1>5. \A X : K \subseteq X => Places(q, K) \subseteq Places(q, X)
    BY DEF Places
<1> QED BY <1>2, <1>3, <1>4, <1>5

LEMMA PlaceIs ==
    ASSUME NEW q \in [Lanes -> Seq(Rpcs)], NEW K, NEW a \in Places(q, K)
    PROVE  /\ a[1] \in Lanes /\ a[2] \in 1 .. Len(q[a[1]]) /\ a = <<a[1], a[2]>>
           /\ a[2] \in Nat /\ Letter(q, a) \in K /\ Letter(q, a) = q[a[1]][a[2]]
           /\ Letter(q, a) \in Rpcs
<1>1. /\ a[1] \in Lanes /\ a[2] \in 1 .. Len(q[a[1]]) /\ a = <<a[1], a[2]>>
      /\ Letter(q, a) \in K /\ Letter(q, a) \in Rpcs
    BY PlaceFacts
<1> QED BY <1>1 DEF Letter

LEMMA IsPlace ==
    ASSUME NEW q \in [Lanes -> Seq(Rpcs)], NEW w \in Lanes, NEW i \in 1 .. Len(q[w]), NEW K
    PROVE  q[w][i] \in K <=> <<w, i>> \in Places(q, K)
BY PlaceFacts

(* Letters of which each was another one before are no more than before. *)
LEMMA Injected ==
    ASSUME NEW p, NEW D, NEW T, NEW S \in SUBSET D, IsFiniteSet(T),
           \A a \in S : p[a] \in T, \A a, b \in D : p[a] = p[b] => a = b
    PROVE  IsFiniteSet(S) /\ Cardinality(S) <= Cardinality(T)
           /\ Cardinality(S) \in Nat /\ Cardinality(T) \in Nat
<1> DEFINE f == [a \in S |-> p[a]]
<1>1. f \in Injection(S, T)
    BY DEF Injection, IsInjective
<1> HIDE DEF f
<1>2. IsFiniteSet(S) /\ Cardinality(S) <= Cardinality(T)
    BY <1>1, FS_Injection
<1> QED BY <1>2, FS_CardinalityType

LEMMA FollowsCount ==
    ASSUME NEW q \in [Lanes -> Seq(Rpcs)], NEW r \in [Lanes -> Seq(Rpcs)], NEW X, NEW p,
           Follows(q, r, X, p), NEW K \in SUBSET X, IsFiniteSet(Places(q, K))
    PROVE  /\ IsFiniteSet(Places(r, K)) /\ Cardinality(Places(r, K)) <= Cardinality(Places(q, K))
           /\ InStep(q, r, X, p) => \A b \in Places(r, X) :
                 Cardinality(Before(r, K, b)) <= Cardinality(Before(q, K, p[b]))
<1>1. Places(r, K) \in SUBSET Places(r, X)
    BY PlaceFacts
<1>2. \A a \in Places(r, K) : p[a] \in Places(q, K)
  <2> TAKE a \in Places(r, K)
  <2>1. p[a] \in Places(q, X) /\ Letter(q, p[a]) = Letter(r, a) /\ Letter(r, a) \in K
      BY <1>1, PlaceFacts DEF Follows
  <2> QED BY <2>1 DEF Places, Letter
<1>3. \A a, b \in Places(r, X) : p[a] = p[b] => a = b
    BY DEF Follows
<1>4. /\ IsFiniteSet(Places(r, K)) /\ Cardinality(Places(r, K)) <= Cardinality(Places(q, K))
    BY <1>1, <1>2, <1>3, Injected
<1>5. ASSUME InStep(q, r, X, p), NEW b \in Places(r, X)
      PROVE  Cardinality(Before(r, K, b)) <= Cardinality(Before(q, K, p[b]))
  <2>1. Before(r, K, b) \in SUBSET Places(r, X)
      BY <1>1 DEF Before
  <2>2. \A a \in Before(r, K, b) : p[a] \in Before(q, K, p[b])
      BY <1>1, <1>2, <1>5 DEF Before, InStep
  <2>3. IsFiniteSet(Before(q, K, p[b]))
      BY FS_Subset DEF Before
  <2> QED BY <1>3, <2>1, <2>2, <2>3, Injected
<1> QED BY <1>4, <1>5

(* Besides, none of them was at place c. *)
Trails(q, r, X, c) ==
    \E p : /\ Follows(q, r, X, p) /\ InStep(q, r, X, p)
           /\ \A a \in Places(r, X) : p[a] # c

(* The first letter of queue w is taken. *)
LEMMA FollowsTake ==
    ASSUME NEW q \in [Lanes -> Seq(Rpcs)], NEW w \in Lanes, q[w] # <<>>,
           NEW r, r = Taken(q, w), NEW X
    PROVE  Trails(q, r, X, <<w, 1>>)
<1> DEFINE p == [a \in Places(r, X) |-> IF a[1] = w THEN <<w, a[2] + 1>> ELSE a]
<1>1. r \in [Lanes -> Seq(Rpcs)] /\ AfterTake(Lanes, q, w, r)
    BY TakenAt
<1>2. ASSUME NEW a \in Places(r, X)
      PROVE  /\ p[a] \in Places(q, X) /\ Letter(q, p[a]) = Letter(r, a) /\ p[a] # <<w, 1>>
             /\ p[a] = IF a[1] = w THEN <<w, a[2] + 1>> ELSE a
             /\ p[a][1] = a[1] /\ p[a][2] = IF a[1] = w THEN a[2] + 1 ELSE a[2]
             /\ a[2] \in Nat \ {0}
  <2>1. /\ a[1] \in Lanes /\ a[2] \in 1 .. Len(r[a[1]]) /\ a = <<a[1], a[2]>>
        /\ Letter(r, a) \in X
      BY <1>1, PlaceFacts
  <2>2. LET k == IF a[1] = w THEN a[2] + 1 ELSE a[2]
        IN  k \in 1 .. Len(q[a[1]]) /\ r[a[1]][a[2]] = q[a[1]][k]
      BY <1>1, <2>1 DEF AfterTake
  <2>3. p[a] = IF a[1] = w THEN <<w, a[2] + 1>> ELSE a
      OBVIOUS
  <2>4. a[2] \in Nat \ {0} /\ Len(q[a[1]]) \in Nat
      BY <2>1, <1>1
  <2> HIDE DEF p
  <2>5. CASE a[1] = w
    <3>1. p[a] = <<w, a[2] + 1>> /\ a[2] + 1 \in 1 .. Len(q[w]) /\ r[w][a[2]] = q[w][a[2] + 1]
        BY <2>2, <2>3, <2>5
    <3>2. q[w][a[2] + 1] \in X /\ Letter(q, p[a]) = Letter(r, a)
        BY <3>1, <2>1, <2>5 DEF Letter
    <3>3. p[a] \in Places(q, X)
        BY <3>1, <3>2, PlaceFacts
    <3> QED BY <3>1, <3>2, <3>3, <2>3, <2>4, <2>5
  <2>6. CASE a[1] # w
    <3>1. p[a] = a /\ a[2] \in 1 .. Len(q[a[1]]) /\ r[a[1]][a[2]] = q[a[1]][a[2]]
        BY <2>2, <2>3, <2>6
    <3>2. q[a[1]][a[2]] \in X /\ Letter(q, p[a]) = Letter(r, a)
        BY <3>1, <2>1 DEF Letter
    <3>3. <<a[1], a[2]>> \in Places(q, X)
        BY <3>1, <3>2, <2>1, PlaceFacts
    <3>4. a # <<w, 1>>
        BY <2>6
    <3> QED BY <3>1, <3>2, <3>3, <3>4, <2>1, <2>4, <2>6
  <2> QED BY <2>5, <2>6
<1>3. \A a \in Places(r, X) : a = <<a[1], a[2]>>
    BY <1>1, PlaceFacts
<1> HIDE DEF p
<1>4. Follows(q, r, X, p)
  <2>1. ASSUME NEW a \in Places(r, X), NEW b \in Places(r, X), p[a] = p[b] PROVE a = b
    <3>1. /\ p[a][1] = a[1] /\ p[a][2] = IF a[1] = w THEN a[2] + 1 ELSE a[2]
          /\ p[b][1] = b[1] /\ p[b][2] = IF b[1] = w THEN b[2] + 1 ELSE b[2]
          /\ a[2] \in Nat /\ b[2] \in Nat
        BY <1>2
    <3>2. p[a][1] = p[b][1] /\ p[a][2] = p[b][2]
        BY <2>1
    <3>3. a[1] = b[1] /\ a[2] = b[2]
        BY <3>1, <3>2
    <3> QED BY <3>3, <1>3
  <2> QED BY <2>1, <1>2 DEF Follows
<1>5. InStep(q, r, X, p)
  <2> SUFFICES ASSUME NEW a \in Places(r, X), NEW b \in Places(r, X)
               PROVE  Prior(a, b) <=> Prior(p[a], p[b])
      BY DEF InStep
  <2>1. /\ p[a][1] = a[1] /\ p[a][2] = IF a[1] = w THEN a[2] + 1 ELSE a[2]
        /\ p[b][1] = b[1] /\ p[b][2] = IF b[1] = w THEN b[2] + 1 ELSE b[2]
        /\ a[2] \in Nat /\ b[2] \in Nat
      BY <1>2
  <2> QED BY <2>1 DEF Prior
<1>6. \A a \in Places(r, X) : p[a] # <<w, 1>>
    BY <1>2
<1> QED BY <1>4, <1>5, <1>6 DEF Trails

(* No letter of X is new or has moved, though some may be lost.            *)
LEMMA FollowsStill ==
    ASSUME NEW q \in [Lanes -> Seq(Rpcs)], NEW r \in [Lanes -> Seq(Rpcs)], NEW X,
           \A w \in Lanes : \A i \in 1 .. Len(r[w]) :
              r[w][i] \in X => i \in 1 .. Len(q[w]) /\ q[w][i] = r[w][i]
    PROVE  /\ \E p : Follows(q, r, X, p) /\ InStep(q, r, X, p) /\ \A a \in Places(r, X) : p[a] = a
           /\ Places(r, X) \subseteq Places(q, X)
<1> DEFINE p == [a \in Places(r, X) |-> a]
<1>1. ASSUME NEW a \in Places(r, X)
      PROVE  p[a] = a /\ a \in Places(q, X) /\ Letter(q, a) = Letter(r, a)
  <2>1. /\ a[1] \in Lanes /\ a[2] \in 1 .. Len(r[a[1]]) /\ a = <<a[1], a[2]>>
        /\ Letter(r, a) \in X
      BY PlaceFacts
  <2>2. a[2] \in 1 .. Len(q[a[1]]) /\ q[a[1]][a[2]] = r[a[1]][a[2]]
      BY <2>1 DEF Letter
  <2>3. Letter(q, a) = Letter(r, a) /\ q[a[1]][a[2]] \in X
      BY <2>1, <2>2 DEF Letter
  <2>4. a \in Places(q, X)
      BY <2>1, <2>2, <2>3, IsPlace
  <2> QED BY <2>3, <2>4
<1> HIDE DEF p
<1>2. Follows(q, r, X, p) /\ InStep(q, r, X, p)
    BY <1>1 DEF Follows, InStep
<1> QED BY <1>1, <1>2

(* A letter joins queue w, at place n. *)
Grows(q, r, w, m, n) ==
    /\ \A K : Places(r, K) = Places(q, K) \cup (IF m \in K THEN {n} ELSE {})
    /\ \A X : n \notin Places(q, X)
    /\ Letter(r, n) = m /\ \A X : \A a \in Places(q, X) : Letter(r, a) = Letter(q, a)
    /\ n[1] = w
    /\ w[1] = "up" => \A X : \A a \in Places(q, X) :
          ~Prior(n, a) /\ (a[1] = w \/ a[1][1] = "down" => Prior(a, n))

LEMMA PlacesGrow ==
    ASSUME NEW q \in [Lanes -> Seq(Rpcs)], NEW r \in [Lanes -> Seq(Rpcs)], NEW w \in Lanes,
           NEW m, NEW l \in Nat, l = Len(q[w]),
           \A u \in Lanes : \A i \in 1 .. Len(q[u]) : i \in 1 .. Len(r[u]) /\ r[u][i] = q[u][i],
           \A u \in Lanes : \A i \in 1 .. Len(r[u]) :
              (i \in 1 .. Len(q[u]) /\ r[u][i] = q[u][i]) \/ (u = w /\ i = l + 1),
           l + 1 \in 1 .. Len(r[w]), r[w][l + 1] = m
    PROVE  Grows(q, r, w, m, <<w, l + 1>>)
<1> DEFINE n == <<w, l + 1>>
<1>1. n[1] = w /\ n[2] = l + 1
    OBVIOUS
<1>2. Letter(r, n) = m
    BY <1>1 DEF Letter
<1>3. \A K : n \in Places(r, K) <=> m \in K
    BY PlaceFacts
<1> HIDE DEF n
<1>4. ASSUME NEW X, NEW a \in Places(q, X)
      PROVE  /\ a \in Places(r, X) /\ Letter(r, a) = Letter(q, a) /\ a # n
             /\ w[1] = "up" =>
                   ~Prior(n, a) /\ (a[1] = w \/ a[1][1] = "down" => Prior(a, n))
  <2>1. /\ a[1] \in Lanes /\ a[2] \in 1 .. Len(q[a[1]]) /\ a = <<a[1], a[2]>>
        /\ Letter(q, a) \in X
      BY PlaceFacts
  <2>2. a[2] \in 1 .. Len(r[a[1]]) /\ r[a[1]][a[2]] = q[a[1]][a[2]]
      BY <2>1
  <2>3. Letter(r, a) = Letter(q, a) /\ r[a[1]][a[2]] \in X
      BY <2>1, <2>2 DEF Letter
  <2>4. <<a[1], a[2]>> \in Places(r, X)
      BY <2>1, <2>2, <2>3, IsPlace
  <2>5. a[1] = w => a[2] <= l
      BY <2>1
  <2>6. a[2] \in Nat
      BY <2>1
  <2>7. a # n
      BY <2>5, <2>6, <1>1
  <2>8. w[1] = "up" => ~Prior(n, a) /\ (a[1] = w \/ a[1][1] = "down" => Prior(a, n))
      BY <2>5, <2>6, <1>1 DEF Prior
  <2> QED BY <2>1, <2>3, <2>4, <2>7, <2>8
<1>5. ASSUME NEW K, NEW a \in Places(r, K), a # n PROVE a \in Places(q, K)
  <2>1. /\ a[1] \in Lanes /\ a[2] \in 1 .. Len(r[a[1]]) /\ a = <<a[1], a[2]>>
        /\ Letter(r, a) \in K
      BY PlaceFacts
  <2>2. ~(a[1] = w /\ a[2] = l + 1)
      BY <1>5, <2>1 DEF n
  <2>3. a[2] \in 1 .. Len(q[a[1]]) /\ r[a[1]][a[2]] = q[a[1]][a[2]]
      BY <2>1, <2>2
  <2>4. q[a[1]][a[2]] \in K
      BY <2>1, <2>3 DEF Letter
  <2>5. <<a[1], a[2]>> \in Places(q, K)
      BY <2>1, <2>3, <2>4, IsPlace
  <2> QED BY <2>1, <2>5
<1>6. \A K : Places(r, K) = Places(q, K) \cup (IF m \in K THEN {n} ELSE {})
  <2> TAKE K
  <2>1. \A a \in Places(q, K) : a \in Places(r, K)
      BY <1>4
  <2>2. \A a \in Places(r, K) : a = n \/ a \in Places(q, K)
      BY <1>5
  <2> QED BY <2>1, <2>2, <1>3
<1>7. \A X : n \notin Places(q, X)
    BY <1>4
<1>8. \A X : \A a \in Places(q, X) : Letter(r, a) = Letter(q, a)
    BY <1>4
<1>9. w[1] = "up" => \A X : \A a \in Places(q, X) :
          ~Prior(n, a) /\ (a[1] = w \/ a[1][1] = "down" => Prior(a, n))
    BY <1>4
<1>10. Grows(q, r, w, m, n)
    BY <1>1, <1>2, <1>6, <1>7, <1>8, <1>9 DEF Grows
<1> QED BY <1>10 DEF n

LEMMA PlacesJoin ==
    ASSUME NEW q \in [Lanes -> Seq(Rpcs)], NEW w \in Lanes, NEW m \in Rpcs,
           NEW r, r = Joined(q, w, <<m>>)
    PROVE  /\ r \in [Lanes -> Seq(Rpcs)]
           /\ \E n : Grows(q, r, w, m, n)
<1>1. /\ r \in [Lanes -> Seq(Rpcs)]
      /\ \A u \in Lanes : u # w => r[u] = q[u]
      /\ r[w] = Append(q[w], m)
  <2>1. r \in [Lanes -> Seq(Rpcs)]
      BY JoinType
  <2>2. q[w] \o <<m>> = Append(q[w], m)
      BY AppendIsConcat
  <2> QED BY <2>1, <2>2 DEF Joined
<1>2. PICK l \in Nat : l = Len(q[w])
    OBVIOUS
<1>3. /\ Len(r[w]) = l + 1 /\ r[w][l + 1] = m
      /\ \A i \in 1 .. Len(q[w]) : r[w][i] = q[w][i]
  <2> DEFINE x == q[w]
             y == r[w]
  <2>1. x \in Seq(Rpcs) /\ y = Append(x, m) /\ Len(x) = l
      BY <1>1, <1>2
  <2> HIDE DEF x, y
  <2>2. Len(y) = l + 1 /\ y[l + 1] = m /\ \A i \in 1 .. Len(x) : y[i] = x[i]
      BY <2>1
  <2> QED BY <2>2 DEF x, y
<1>4. /\ \A u \in Lanes : \A i \in 1 .. Len(q[u]) : i \in 1 .. Len(r[u]) /\ r[u][i] = q[u][i]
      /\ \A u \in Lanes : \A i \in 1 .. Len(r[u]) :
            (i \in 1 .. Len(q[u]) /\ r[u][i] = q[u][i]) \/ (u = w /\ i = l + 1)
      /\ l + 1 \in 1 .. Len(r[w])
  <2>1. ASSUME NEW u \in Lanes, NEW i \in 1 .. Len(q[u]) PROVE i \in 1 .. Len(r[u]) /\ r[u][i] = q[u][i]
    <3>1. CASE u = w
        BY <3>1, <1>2, <1>3
    <3> QED BY <3>1, <1>1
  <2>2. ASSUME NEW u \in Lanes, NEW i \in 1 .. Len(r[u])
        PROVE  (i \in 1 .. Len(q[u]) /\ r[u][i] = q[u][i]) \/ (u = w /\ i = l + 1)
    <3>1. CASE u = w
        BY <3>1, <1>2, <1>3
    <3> QED BY <3>1, <1>1
  <2> QED BY <2>1, <2>2, <1>3
<1>5. r \in [Lanes -> Seq(Rpcs)] /\ r[w][l + 1] = m
    BY <1>1, <1>3
<1>6. Grows(q, r, w, m, <<w, l + 1>>)
    BY <1>2, <1>4, <1>5, PlacesGrow
<1> QED BY <1>5, <1>6

(* The first letter of queue v moves to the end of queue w.                *)
LEMMA FollowsMove ==
    ASSUME NEW q \in [Lanes -> Seq(Rpcs)], NEW v \in Lanes, NEW w \in Lanes, v # w,
           v[1] = "up", w[1] = "down", q[v] # <<>>,
           NEW r, r = Moved(q, v, w), NEW X
    PROVE  \E p : /\ Follows(q, r, X, p)
                  /\ (Head(q[v]) \in X => OnPath(q, X, v, w)) => InStep(q, r, X, p)
<1>1. PICK l \in Nat : l = Len(q[w])
    OBVIOUS
<1> DEFINE n == <<w, l + 1>>
           p == [a \in Places(r, X) |-> IF a = n THEN <<v, 1>>
                                        ELSE IF a[1] = v THEN <<v, a[2] + 1>> ELSE a]
<1>2. r \in [Lanes -> Seq(Rpcs)] /\ AfterMove(Lanes, q, v, w, r)
    BY MovedAt
<1>3. /\ Head(q[v]) = q[v][1] /\ 1 \in 1 .. Len(q[v])
      /\ \A u \in Lanes : \A i \in 1 .. Len(r[u]) :
           \/ /\ u = w /\ i = l + 1 /\ r[u][i] = q[v][1]
           \/ /\ u = w => i <= l
              /\ LET k == IF u = v THEN i + 1 ELSE i
                 IN  k \in 1 .. Len(q[u]) /\ r[u][i] = q[u][k]
    BY <1>1, <1>2 DEF AfterMove
<1>4. n[1] = w /\ n[2] = l + 1
    OBVIOUS
<1>5. \A a \in Places(r, X) : p[a] = IF a = n THEN <<v, 1>>
                                     ELSE IF a[1] = v THEN <<v, a[2] + 1>> ELSE a
    OBVIOUS
<1>6. n = <<w, l + 1>>
    OBVIOUS
<1> HIDE DEF p, n
<1>7. ASSUME NEW a \in Places(r, X)
      PROVE  /\ p[a] \in Places(q, X) /\ Letter(q, p[a]) = Letter(r, a)
             /\ a = n => p[a][1] = v /\ p[a][2] = 1 /\ Head(q[v]) \in X
             /\ a # n => /\ p[a][1] = a[1] /\ p[a][2] = IF a[1] = v THEN a[2] + 1 ELSE a[2]
                         /\ a[1] = w => a[2] <= l
             /\ a[2] \in Nat \ {0}
  <2>1. /\ a[1] \in Lanes /\ a[2] \in 1 .. Len(r[a[1]]) /\ a = <<a[1], a[2]>>
        /\ Letter(r, a) \in X /\ Letter(r, a) = r[a[1]][a[2]] /\ a[2] \in Nat
      BY <1>2, PlaceIs, ZenonT(30)
  <2>2. a[2] \in Nat \ {0}
      BY <2>1
  <2>3. CASE a = n
    <3>1. a[1] = w /\ a[2] = l + 1 /\ p[a] = <<v, 1>>
        BY <2>3, <1>4, <1>5
    <3>2. r[a[1]][a[2]] = q[v][1]
        BY <3>1, <2>1, <1>3
    <3>3. q[v][1] \in X /\ Letter(q, <<v, 1>>) = q[v][1]
        BY <3>2, <2>1 DEF Letter
    <3>4. <<v, 1>> \in Places(q, X)
        BY <3>3, <1>3, IsPlace
    <3> QED BY <3>1, <3>2, <3>3, <3>4, <2>1, <2>2, <2>3, <1>3
  <2>4. CASE a # n /\ a[1] = v
    <3>1. p[a] = <<v, a[2] + 1>>
        BY <2>4, <1>5
    <3>2. a[2] + 1 \in 1 .. Len(q[v]) /\ r[a[1]][a[2]] = q[v][a[2] + 1]
        BY <2>1, <2>4, <1>3
    <3>3. q[v][a[2] + 1] \in X /\ Letter(q, <<v, a[2] + 1>>) = q[v][a[2] + 1]
        BY <3>2, <2>1 DEF Letter
    <3>4. <<v, a[2] + 1>> \in Places(q, X)
        BY <3>2, <3>3, IsPlace
    <3> QED BY <3>1, <3>2, <3>3, <3>4, <2>1, <2>2, <2>4
  <2>5. CASE a # n /\ a[1] # v
    <3>1. p[a] = a
        BY <2>5, <1>5
    <3>2. ~(a[1] = w /\ a[2] = l + 1)
        BY <2>1, <2>5, <1>6
    <3>3. /\ a[2] \in 1 .. Len(q[a[1]]) /\ r[a[1]][a[2]] = q[a[1]][a[2]]
          /\ a[1] = w => a[2] <= l
        BY <3>2, <2>1, <2>5, <1>3
    <3>4. q[a[1]][a[2]] \in X /\ Letter(q, a) = q[a[1]][a[2]]
        BY <3>3, <2>1 DEF Letter
    <3>5. <<a[1], a[2]>> \in Places(q, X)
        BY <3>3, <3>4, <2>1, IsPlace
    <3> QED BY <3>1, <3>3, <3>4, <3>5, <2>1, <2>2, <2>5
  <2> QED BY <2>3, <2>4, <2>5
<1>8. Follows(q, r, X, p)
  <2>1. ASSUME NEW a \in Places(r, X), NEW b \in Places(r, X), p[a] = p[b] PROVE a = b
    <3>1. a = <<a[1], a[2]>> /\ b = <<b[1], b[2]>>
        BY <1>2, PlaceIs, SMTT(30)
    <3>2. p[a][1] = p[b][1] /\ p[a][2] = p[b][2]
        BY <2>1
    <3>3. a[2] \in Nat \ {0} /\ b[2] \in Nat \ {0}
        BY <1>7
    <3>4. CASE a = n /\ b # n
      <4>1. p[a][1] = v /\ p[a][2] = 1
          BY <1>7, <3>4
      <4>2. p[b][1] = b[1] /\ p[b][2] = IF b[1] = v THEN b[2] + 1 ELSE b[2]
          BY <1>7, <3>4
      <4> QED BY <4>1, <4>2, <3>2, <3>3
    <3>5. CASE b = n /\ a # n
      <4>1. p[b][1] = v /\ p[b][2] = 1
          BY <1>7, <3>5
      <4>2. p[a][1] = a[1] /\ p[a][2] = IF a[1] = v THEN a[2] + 1 ELSE a[2]
          BY <1>7, <3>5
      <4> QED BY <4>1, <4>2, <3>2, <3>3
    <3>6. CASE a # n /\ b # n
      <4>1. p[a][1] = a[1] /\ p[a][2] = IF a[1] = v THEN a[2] + 1 ELSE a[2]
          BY <1>7, <3>6
      <4>2. p[b][1] = b[1] /\ p[b][2] = IF b[1] = v THEN b[2] + 1 ELSE b[2]
          BY <1>7, <3>6
      <4>3. a[1] = b[1] /\ a[2] = b[2]
          BY <4>1, <4>2, <3>2, <3>3
      <4> QED BY <4>3, <3>1
    <3> QED BY <3>4, <3>5, <3>6
  <2> QED BY <2>1, <1>7 DEF Follows
<1>9. ASSUME Head(q[v]) \in X => OnPath(q, X, v, w)
      PROVE  InStep(q, r, X, p)
  <2> SUFFICES ASSUME NEW a \in Places(r, X), NEW b \in Places(r, X)
               PROVE  Prior(a, b) <=> Prior(p[a], p[b])
      BY DEF InStep
  <2>1. a[2] \in Nat \ {0} /\ b[2] \in Nat \ {0}
      BY <1>7
  <2>2. CASE a # n /\ b # n
    <3>1. p[a][1] = a[1] /\ p[a][2] = IF a[1] = v THEN a[2] + 1 ELSE a[2]
        BY <1>7, <2>2
    <3>2. p[b][1] = b[1] /\ p[b][2] = IF b[1] = v THEN b[2] + 1 ELSE b[2]
        BY <1>7, <2>2
    <3> QED BY SMTT(30), <3>1, <3>2, <2>1 DEF Prior
  <2>3. ASSUME NEW c \in Places(r, X), c # n, Head(q[v]) \in X
        PROVE  /\ p[c][1] = c[1] /\ p[c][2] = IF c[1] = v THEN c[2] + 1 ELSE c[2]
               /\ c[1] = v \/ (c[1] = w /\ c[2] <= l)
               /\ c[2] \in Nat \ {0}
    <3>1. /\ p[c][1] = c[1] /\ p[c][2] = IF c[1] = v THEN c[2] + 1 ELSE c[2]
          /\ c[1] = w => c[2] <= l
          /\ p[c] \in Places(q, X) /\ c[2] \in Nat \ {0}
        BY <1>7, <2>3
    <3>2. p[c][1] = v \/ p[c][1] = w
        BY <3>1, <2>3, <1>9 DEF OnPath
    <3> QED BY <3>1, <3>2
  <2>4. CASE a = n /\ b # n
    <3>1. p[a][1] = v /\ p[a][2] = 1 /\ Head(q[v]) \in X
        BY <1>7, <2>4
    <3>2. /\ p[b][1] = b[1] /\ p[b][2] = IF b[1] = v THEN b[2] + 1 ELSE b[2]
          /\ b[1] = v \/ (b[1] = w /\ b[2] <= l)
        BY <2>3, <2>4, <3>1
    <3>3. a[1] = w /\ a[2] = l + 1
        BY <2>4, <1>4
    <3> QED BY <3>1, <3>2, <3>3, <2>1 DEF Prior
  <2>5. CASE b = n /\ a # n
    <3>1. p[b][1] = v /\ p[b][2] = 1 /\ Head(q[v]) \in X
        BY <1>7, <2>5
    <3>2. /\ p[a][1] = a[1] /\ p[a][2] = IF a[1] = v THEN a[2] + 1 ELSE a[2]
          /\ a[1] = v \/ (a[1] = w /\ a[2] <= l)
        BY <2>3, <2>5, <3>1
    <3>3. b[1] = w /\ b[2] = l + 1
        BY <2>5, <1>4
    <3> QED BY <3>1, <3>2, <3>3, <2>1 DEF Prior
  <2>6. CASE a = n /\ b = n
    <3>1. ~Prior(a, b)
        BY <2>6, <1>4 DEF Prior
    <3>2. p[a][1] = v /\ p[a][2] = 1 /\ a = b
        BY <1>7, <2>6
    <3> QED BY <3>1, <3>2 DEF Prior
  <2> QED BY <2>2, <2>4, <2>5, <2>6
<1> QED BY <1>8, <1>9

-----------------------------------------------------------------------------
(* Which letters there are, and in which queue. *)
At(q, w, m) == \E i \in 1 .. Len(q[w]) : q[w][i] = m
On(q, m) == \E w \in Lanes : At(q, w, m)

Calls == {m \in Rpcs : m.kind # "disappear"}

(* There are no new calls, and those that are left are in the same order.  *)
Sheds(q, r) ==
    /\ r \in [Lanes -> Seq(Rpcs)]
    /\ \A w \in Lanes, m \in Calls : At(r, w, m) => At(q, w, m)
    /\ \E p : Follows(q, r, Calls, p) /\ InStep(q, r, Calls, p)

LEMMA OnFacts ==
    ASSUME NEW q \in [Lanes -> Seq(Rpcs)]
    PROVE  /\ \A K : ~Free(q, K) => \E m \in K : m \in Rpcs /\ On(q, m)
           /\ \A K : \A m \in K : On(q, m) => ~Free(q, K)
           /\ \A m : On(q, m) => m \in Rpcs
           /\ \A w \in Lanes : \A m : At(q, w, m) => On(q, m)
<1>1. DOMAIN q = Lanes /\ \A w \in Lanes : \A i \in 1 .. Len(q[w]) : q[w][i] \in Rpcs
    OBVIOUS
<1>2. ASSUME NEW K, ~Free(q, K) PROVE \E m \in K : m \in Rpcs /\ On(q, m)
  <2>1. PICK w \in Lanes : \E i \in 1 .. Len(q[w]) : q[w][i] \in K
      BY <1>1, <1>2 DEF Free
  <2>2. PICK i \in 1 .. Len(q[w]) : q[w][i] \in K
      BY <2>1
  <2> QED BY <1>1, <2>2 DEF On, At
<1>3. ASSUME NEW K, NEW m \in K, On(q, m) PROVE ~Free(q, K)
    BY <1>1, <1>3 DEF Free, On, At
<1>4. \A m : On(q, m) => m \in Rpcs
    BY <1>1 DEF On, At
<1> QED BY <1>2, <1>3, <1>4 DEF On

LEMMA AtPlace ==
    ASSUME NEW q \in [Lanes -> Seq(Rpcs)], NEW K
    PROVE  /\ \A a \in Places(q, K) : a[1] \in Lanes /\ At(q, a[1], Letter(q, a)) /\ On(q, Letter(q, a))
           /\ \A w \in Lanes, m \in K : At(q, w, m) =>
                 \E a \in Places(q, K) : a[1] = w /\ Letter(q, a) = m
           /\ Free(q, K) <=> Places(q, K) = {}
<1>1. ASSUME NEW a \in Places(q, K)
      PROVE  a[1] \in Lanes /\ At(q, a[1], Letter(q, a)) /\ On(q, Letter(q, a))
  <2>1. a[1] \in Lanes /\ a[2] \in 1 .. Len(q[a[1]]) /\ Letter(q, a) = q[a[1]][a[2]]
      BY PlaceIs
  <2> QED BY <2>1 DEF At, On
<1>2. ASSUME NEW w \in Lanes, NEW m \in K, At(q, w, m)
      PROVE  \E a \in Places(q, K) : a[1] = w /\ Letter(q, a) = m
  <2>1. PICK i \in 1 .. Len(q[w]) : q[w][i] = m
      BY <1>2 DEF At
  <2>2. <<w, i>> \in Places(q, K)
      BY <2>1, IsPlace
  <2>3. <<w, i>>[1] = w /\ Letter(q, <<w, i>>) = m
      BY <2>1 DEF Letter
  <2> QED BY <2>2, <2>3
<1>3. Free(q, K) <=> Places(q, K) = {}
    BY PlaceFacts
<1> QED BY <1>1, <1>2, <1>3

LEMMA OnePlace ==
    ASSUME NEW q \in [Lanes -> Seq(Rpcs)], NEW w \in Lanes, NEW m
    PROVE  At(q, w, m) <=> \E a \in Places(q, {m}) : a[1] = w
<1>1. At(q, w, m) => \E a \in Places(q, {m}) : a[1] = w
  <2> DEFINE K == {m}
  <2>1. m \in K
      OBVIOUS
  <2> HIDE DEF K
  <2>2. At(q, w, m) => \E a \in Places(q, K) : a[1] = w
      BY <2>1, AtPlace
  <2> QED BY <2>2 DEF K
<1>2. ASSUME NEW a \in Places(q, {m}), a[1] = w PROVE At(q, w, m)
  <2>1. At(q, a[1], Letter(q, a)) /\ Letter(q, a) \in {m}
      BY AtPlace, PlaceIs
  <2> QED BY <2>1, <1>2
<1> QED BY <1>1, <1>2

LEMMA FollowsPart ==
    ASSUME NEW q, NEW r \in [Lanes -> Seq(Rpcs)], NEW X, NEW p, Follows(q, r, X, p),
           NEW K \in SUBSET X
    PROVE  Follows(q, r, K, p) /\ (InStep(q, r, X, p) => InStep(q, r, K, p))
<1>1. \A a \in Places(r, K) : a \in Places(r, X) /\ Letter(r, a) \in K
    BY PlaceFacts
<1>2. \A a \in Places(r, K) : p[a] \in Places(q, X) /\ Letter(q, p[a]) = Letter(r, a)
    BY <1>1 DEF Follows
<1>3. \A a \in Places(r, K) : p[a] \in Places(q, K)
    BY <1>1, <1>2 DEF Places, Letter
<1> QED BY <1>1, <1>2, <1>3 DEF Follows, InStep

LEMMA ShedsTake ==
    ASSUME NEW q \in [Lanes -> Seq(Rpcs)], NEW w \in Lanes, q[w] # <<>>,
           NEW r, r = Taken(q, w)
    PROVE  /\ Sheds(q, r)
           /\ \A v \in Lanes : \A m : At(r, v, m) => At(q, v, m)
           /\ \A v \in Lanes : \A m : At(q, v, m) => At(r, v, m) \/ (v = w /\ m = Head(q[w]))
           /\ At(q, w, Head(q[w]))
<1>1. r \in [Lanes -> Seq(Rpcs)] /\ AfterTake(Lanes, q, w, r)
    BY TakenAt
<1>2. \A v \in Lanes : \A m : At(r, v, m) => At(q, v, m)
  <2> SUFFICES ASSUME NEW v \in Lanes, NEW i \in 1 .. Len(r[v]) PROVE At(q, v, r[v][i])
      BY DEF At
  <2>1. LET k == IF v = w THEN i + 1 ELSE i IN k \in 1 .. Len(q[v]) /\ r[v][i] = q[v][k]
      BY <1>1 DEF AfterTake
  <2> QED BY <2>1 DEF At
<1>3. ASSUME NEW v \in Lanes, NEW m, At(q, v, m)
      PROVE  At(r, v, m) \/ (v = w /\ m = Head(q[w]))
  <2>1. PICK k \in 1 .. Len(q[v]) : q[v][k] = m
      BY <1>3 DEF At
  <2>2. CASE v = w /\ k = 1
      BY <2>1, <2>2, <1>1 DEF AfterTake
  <2>3. CASE ~(v = w /\ k = 1)
    <3>1. LET i == IF v = w THEN k - 1 ELSE k IN i \in 1 .. Len(r[v]) /\ r[v][i] = q[v][k]
        BY <2>3, <1>1 DEF AfterTake
    <3> QED BY <2>1, <3>1 DEF At
  <2> QED BY <2>2, <2>3
<1>4. At(q, w, Head(q[w]))
    BY <1>1 DEF AfterTake, At
<1>5. \E p : Follows(q, r, Calls, p) /\ InStep(q, r, Calls, p)
    BY FollowsTake DEF Trails
<1> QED BY <1>1, <1>2, <1>3, <1>4, <1>5 DEF Sheds

(* Calls stay where they are, or are lost. *)
LEMMA ShedsStill ==
    ASSUME NEW q \in [Lanes -> Seq(Rpcs)], NEW r \in [Lanes -> Seq(Rpcs)],
           \A w \in Lanes : \A i \in 1 .. Len(r[w]) :
              r[w][i] \in Calls => i \in 1 .. Len(q[w]) /\ q[w][i] = r[w][i]
    PROVE  Sheds(q, r)
<1>1. \E p : Follows(q, r, Calls, p) /\ InStep(q, r, Calls, p)
    BY FollowsStill
<1>2. \A w \in Lanes, m \in Calls : At(r, w, m) => At(q, w, m)
    BY DEF At
<1> QED BY <1>1, <1>2 DEF Sheds

LEMMA ShedsSelf ==
    ASSUME NEW q \in [Lanes -> Seq(Rpcs)]
    PROVE  Sheds(q, q)
BY ShedsStill

LEMMA ShedsCut ==
    ASSUME NEW q \in [Lanes -> Seq(Rpcs)], NEW r, Cut(q, r)
    PROVE  Sheds(q, r)
BY ShedsStill DEF Cut

LEMMA ShedsTold ==
    ASSUME NEW q \in [Lanes -> Seq(Rpcs)], NEW r, Told(q, r)
    PROVE  Sheds(q, r) /\ \A K \in SUBSET Calls : Free(r, K) <=> Free(q, K)
<1>1. \A m \in Calls : m.kind # "disappear"
    BY DEF Calls
<1>2. Same(q, r, Calls) /\ r \in [Lanes -> Seq(Rpcs)]
    BY <1>1, ToldSame DEF Told
<1>3. \A w \in Lanes : \A i \in 1 .. Len(r[w]) :
          r[w][i] \in Calls => i \in 1 .. Len(q[w]) /\ q[w][i] = r[w][i]
    BY <1>2 DEF Same
<1>4. \A K \in SUBSET Calls : Free(r, K) <=> Free(q, K)
  <2> SUFFICES ASSUME NEW K \in SUBSET Calls PROVE Free(r, K) <=> Free(q, K)
      OBVIOUS
  <2>1. \A m \in K : m.kind # "disappear"
      BY <1>1
  <2>2. Same(q, r, K)
      BY <2>1, ToldSame
  <2> QED BY <2>2, SameFree
<1> QED BY <1>2, <1>3, <1>4, ShedsStill

LEMMA JoinOn ==
    ASSUME NEW q \in [Lanes -> Seq(Rpcs)], NEW w \in Lanes, NEW m \in Rpcs,
           NEW r, r = Joined(q, w, <<m>>)
    PROVE  /\ r \in [Lanes -> Seq(Rpcs)]
           /\ \A v \in Lanes : \A l : At(r, v, l) <=> At(q, v, l) \/ (v = w /\ l = m)
           /\ \A l : On(r, l) <=> On(q, l) \/ l = m
<1>1. PICK n : r \in [Lanes -> Seq(Rpcs)] /\ Grows(q, r, w, m, n)
    BY PlacesJoin
<1>2. ASSUME NEW v \in Lanes, NEW l
      PROVE  At(r, v, l) <=> At(q, v, l) \/ (v = w /\ l = m)
  <2>1. Places(r, {l}) = Places(q, {l}) \cup (IF m \in {l} THEN {n} ELSE {}) /\ n[1] = w
      BY <1>1 DEF Grows
  <2>2. At(r, v, l) <=> \E a \in Places(r, {l}) : a[1] = v
      BY <1>1, OnePlace
  <2>3. At(q, v, l) <=> \E a \in Places(q, {l}) : a[1] = v
      BY OnePlace
  <2>4. m \in {l} <=> l = m
      OBVIOUS
  <2> QED BY <2>1, <2>2, <2>3, <2>4
<1>3. \A l : On(r, l) <=> On(q, l) \/ l = m
    BY <1>2 DEF On
<1> QED BY <1>1, <1>2, <1>3

LEMMA JoinAtOne ==
    ASSUME NEW q \in [Lanes -> Seq(Rpcs)], NEW w \in Lanes, NEW m \in Rpcs,
           NEW u \in Lanes, NEW l
    PROVE  At(Joined(q, w, <<m>>), u, l) <=> At(q, u, l) \/ (u = w /\ l = m)
<1> DEFINE r == Joined(q, w, <<m>>)
<1> HIDE DEF r
<1>1. \A v \in Lanes : \A k : At(r, v, k) <=> At(q, v, k) \/ (v = w /\ k = m)
    BY JoinOn DEF r
<1> QED BY <1>1 DEF r

LEMMA MoveOn ==
    ASSUME NEW q \in [Lanes -> Seq(Rpcs)], NEW v \in Lanes, NEW w \in Lanes,
           q[v] # <<>>, NEW r, r = Joined(Taken(q, v), w, <<Head(q[v])>>)
    PROVE  /\ r \in [Lanes -> Seq(Rpcs)]
           /\ \A u \in Lanes : \A l : At(r, u, l) => At(q, u, l) \/ (u = w /\ l = Head(q[v]))
           /\ \A l : On(r, l) <=> On(q, l)
<1>1. PICK t : t = Taken(q, v)
    OBVIOUS
<1>2. PICK h : h = Head(q[v])
    OBVIOUS
<1>3. /\ t \in [Lanes -> Seq(Rpcs)] /\ h \in Rpcs
      /\ \A u \in Lanes : \A m : At(t, u, m) => At(q, u, m)
      /\ \A u \in Lanes : \A m : At(q, u, m) => At(t, u, m) \/ (u = v /\ m = h)
      /\ At(q, v, h)
  <2>1. q[v] \in Seq(Rpcs)
      OBVIOUS
  <2>2. h \in Rpcs
      BY <2>1, <1>2
  <2> QED BY <2>2, <1>1, <1>2, ShedsTake DEF Sheds
<1>4. r = Joined(t, w, <<h>>)
    BY <1>1, <1>2
<1>5. /\ r \in [Lanes -> Seq(Rpcs)]
      /\ \A u \in Lanes : \A l : At(r, u, l) <=> At(t, u, l) \/ (u = w /\ l = h)
  <2>1. Joined(t, w, <<h>>) \in [Lanes -> Seq(Rpcs)]
      BY <1>3, JoinType
  <2>2. ASSUME NEW u \in Lanes, NEW l
        PROVE  At(Joined(t, w, <<h>>), u, l) <=> At(t, u, l) \/ (u = w /\ l = h)
      BY <1>3, JoinAtOne
  <2> QED BY <2>1, <2>2, <1>4
<1>6. \A u \in Lanes : \A l : At(r, u, l) => At(q, u, l) \/ (u = w /\ l = h)
    BY <1>3, <1>5
<1>7. \A l : On(r, l) <=> On(q, l)
  <2>1. \A l : On(r, l) => On(q, l)
      BY <1>3, <1>6 DEF On
  <2>2. ASSUME NEW l, On(q, l) PROVE On(r, l)
    <3>1. PICK u \in Lanes : At(q, u, l)
        BY <2>2 DEF On
    <3>2. At(t, u, l) \/ l = h
        BY <3>1, <1>3
    <3> QED BY <3>2, <1>5 DEF On
  <2> QED BY <2>1, <2>2
<1> QED BY <1>2, <1>5, <1>6, <1>7

-----------------------------------------------------------------------------
(* Half s is in game g, when the games A live and E says what they hold.   *)
Lives(A, E, s, g) == g \in A /\ E[s][g].exists

(* Halves may be lost; those that are left have not heard of another one.  *)
Fewer(A, E, B, F) ==
    /\ B \subseteq A
    /\ \A s \in Halves, g \in Games :
          Lives(B, F, s, g) => /\ Lives(A, E, s, g) /\ F[s][g].addr = E[s][g].addr
                               /\ F[s][g].gate = E[s][g].gate

(* F has the halves of E in the games of B, or fewer; each takes its gate.  *)
SameGates(A, E, B, F) ==
    \A s \in Halves, g \in Games :
       Lives(B, F, s, g) => Lives(A, E, s, g) /\ F[s][g].gate = E[s][g].gate

(* What the halves send each other; to one that lives, from one that lives. *)
Live(A) == {m \in Rpcs : m.kind \in {"gift", "backup"} /\ m.addr \in A /\ m.from \in A}
Tie(s, h) == {m \in Rpcs : m.kind \in {"gift", "backup", "recovered"} /\ m.half = s /\ m.addr = h}

(* What is known of q, A and E from Inv.                                   *)
EntsSound(A, E) ==
    /\ A \subseteq Games
    /\ \A s \in Halves, g \in Games : Lives(A, E, s, g) =>
          /\ E[s][g] \in Entities
          /\ \A h \in Games : Lives(A, E, s, h) => g = h
OrdersSound(q, A, E) ==
    /\ Single(q, Ords)
    /\ \A s \in Halves, g \in Games : Lives(A, E, s, g) =>
          /\ Free(q, Ord(s)) /\ Free(q, Strange(Other(s), g))
          /\ E[s][g].addr \in A => Free(q, Ords) /\ Free(q, Word(s, g))
LinksSound(q, A, E) ==
    \A s \in Halves, g, h \in Games :
       Lives(A, E, s, g) /\ Lives(A, E, Other(s), h) /\ E[s][g].addr # h =>
          ~Free(q, WordFrom(s, g, h))
WordsSound(q, A, E) ==
    \A s \in Halves, g \in A : ~Free(q, Word(s, g)) =>
       /\ Free(q, Ords) /\ Single(q, Word(s, g))
       /\ \A x \in Games : Lives(A, E, Other(s), x) => Free(q, Foreign(s, g, x))
Sound(q, A, E) ==
    /\ EntsSound(A, E) /\ OrdersSound(q, A, E) /\ LinksSound(q, A, E) /\ WordsSound(q, A, E)
    /\ Placed(q)

(* The gifts and backups on the way between living halves name them, or    *)
(* the half that gets them has not yet heard of the one that was rebuilt;  *)
(* there are none when a half is to be rebuilt.                            *)
AddrAt(q, A, E) ==
    /\ ~Free(q, Ords) => Free(q, Live(A))
    /\ \A s \in Halves, z \in Games : Lives(A, E, s, z) =>
          \A m \in Live(A) : On(q, m) =>
             /\ m.half = Other(s) => m.from = z /\ m.addr = E[s][z].addr
             /\ m.half = s => m.from = E[s][z].addr \/ ~Free(q, WordFrom(s, z, m.from))

(* All that is sent to half s in game h is sent by game x through gate k.   *)
Way(q, A, E, s, h, x, k) ==
    /\ OnPath(q, Tie(s, h), Up(x, k), Down(k, h))
    /\ \A g \in Games : Lives(A, E, Other(s), g) => g = x /\ E[Other(s)][g].gate = k
PathAt(q, A, E) ==
    \A s \in Halves, h \in Games : Lives(A, E, s, h) =>
       \E x \in Games, k \in Gates : Way(q, A, E, s, h, x, k)

LEMMA CallSets ==
    /\ Ords \in SUBSET Calls
    /\ \A s, h, f : /\ Tie(s, h) \in SUBSET Calls /\ Word(s, h) \in SUBSET Calls
                    /\ WordFrom(s, h, f) \in SUBSET Calls /\ Ord(s) \in SUBSET Calls
    /\ \A A : Live(A) \in SUBSET Calls
BY DEF Ords, Calls, Tie, Words, Word, WordFrom, Ord, Live

LEMMA FreeOn ==
    ASSUME NEW q \in [Lanes -> Seq(Rpcs)], NEW r \in [Lanes -> Seq(Rpcs)],
           NEW K, \A m \in K : On(r, m) => On(q, m)
    PROVE  Free(q, K) => Free(r, K)
BY OnFacts

LEMMA AddrLess ==
    ASSUME NEW q \in [Lanes -> Seq(Rpcs)], NEW r \in [Lanes -> Seq(Rpcs)],
           NEW A, NEW B, NEW E, NEW F, AddrAt(q, A, E), Fewer(A, E, B, F),
           \A m \in Calls : On(r, m) => On(q, m),
           \A s \in Halves, z \in Games : \A f \in B :
              Lives(B, F, s, z) /\ ~Free(q, WordFrom(s, z, f)) => ~Free(r, WordFrom(s, z, f))
    PROVE  AddrAt(r, B, F)
<1>1. Live(B) \subseteq Live(A) /\ \A m \in Live(B) : m.from \in B /\ m \in Calls
    BY CallSets DEF Live, Fewer
<1>2. ~Free(r, Ords) => Free(r, Live(B))
  <2>1. ASSUME ~Free(r, Ords), ~Free(r, Live(B)) PROVE FALSE
    <3>1. PICK m \in Live(B) : On(r, m)
        BY <2>1, OnFacts
    <3>2. On(q, m) /\ m \in Live(A)
        BY <1>1, <3>1
    <3>3. ~Free(q, Live(A))
        BY <3>2, OnFacts
    <3>4. ~Free(q, Ords)
        BY <2>1, CallSets, FreeOn
    <3> QED BY <3>3, <3>4 DEF AddrAt
  <2> QED BY <2>1
<1>3. ASSUME NEW s \in Halves, NEW z \in Games, Lives(B, F, s, z), NEW m \in Live(B), On(r, m)
      PROVE  /\ m.half = Other(s) => m.from = z /\ m.addr = F[s][z].addr
             /\ m.half = s => m.from = F[s][z].addr \/ ~Free(r, WordFrom(s, z, m.from))
  <2>1. On(q, m) /\ m \in Live(A) /\ m.from \in B
      BY <1>1, <1>3
  <2>2. Lives(A, E, s, z) /\ F[s][z].addr = E[s][z].addr
      BY <1>3 DEF Fewer
  <2>3. /\ m.half = Other(s) => m.from = z /\ m.addr = E[s][z].addr
        /\ m.half = s => m.from = E[s][z].addr \/ ~Free(q, WordFrom(s, z, m.from))
      BY <2>1, <2>2 DEF AddrAt
  <2>4. ~Free(q, WordFrom(s, z, m.from)) => ~Free(r, WordFrom(s, z, m.from))
      BY <1>3, <2>1
  <2> QED BY <2>2, <2>3, <2>4
<1> QED BY <1>2, <1>3 DEF AddrAt

LEMMA AddrNone ==
    ASSUME NEW r \in [Lanes -> Seq(Rpcs)], NEW A, NEW E, Free(r, Live(A))
    PROVE  AddrAt(r, A, E)
BY OnFacts DEF AddrAt

(* A half calls the other one.                                             *)
LEMMA AddrCall ==
    ASSUME NEW q \in [Lanes -> Seq(Rpcs)], NEW w \in Lanes, NEW m \in Rpcs,
           NEW r, r = Joined(q, w, <<m>>), NEW A, NEW E, AddrAt(q, A, E),
           EntsSound(A, E), OrdersSound(r, A, E), LinksSound(r, A, E),
           NEW s \in Halves, NEW g \in Games, Lives(A, E, s, g),
           m.kind \in {"gift", "backup"}, m.half = Other(s), m.from = g, m.addr = E[s][g].addr
    PROVE  AddrAt(r, A, E)
<1>1. /\ r \in [Lanes -> Seq(Rpcs)]
      /\ \A l : On(r, l) <=> On(q, l) \/ l = m
    BY JoinOn
<1>2. m \notin Ords /\ (m \in Live(A) => m.addr \in A)
    BY DEF Ords, Live
<1>3. \A K : Free(r, K) => Free(q, K)
  <2> SUFFICES ASSUME NEW K, Free(r, K) PROVE Free(q, K)
      OBVIOUS
  <2>1. \A l \in K : On(q, l) => On(r, l)
      BY <1>1
  <2> QED BY <2>1, <1>1, FreeOn
<1>4. \A l \in Ords : On(r, l) => On(q, l)
    BY <1>1, <1>2
<1>5. Free(q, Ords) => Free(r, Ords)
    BY <1>1, <1>4, FreeOn
<1>6. ~Free(r, Ords) => Free(r, Live(A))
  <2>1. ASSUME ~Free(r, Ords), NEW l \in Live(A), On(r, l) PROVE FALSE
    <3>1. CASE On(q, l)
        BY <3>1, <2>1, <1>5, OnFacts DEF AddrAt
    <3>2. CASE l = m
        BY <3>2, <2>1, <1>2 DEF OrdersSound
    <3> QED BY <3>1, <3>2, <2>1, <1>1
  <2> QED BY <2>1, <1>1, OnFacts
<1>7. ASSUME NEW t \in Halves, NEW z \in Games, Lives(A, E, t, z), NEW l \in Live(A), On(r, l)
      PROVE  /\ l.half = Other(t) => l.from = z /\ l.addr = E[t][z].addr
             /\ l.half = t => l.from = E[t][z].addr \/ ~Free(r, WordFrom(t, z, l.from))
  <2>1. CASE On(q, l)
      BY <2>1, <1>7, <1>3 DEF AddrAt
  <2>2. CASE l = m
    <3>1. (m.half = Other(t) => t = s) /\ (m.half = t => t = Other(s))
        BY HalfFacts
    <3>2. t = s => z = g
        BY <1>7 DEF EntsSound
    <3>3. ASSUME t = Other(s) PROVE E[t][z].addr # g => ~Free(r, WordFrom(t, z, g))
      <4>1. Other(t) = s /\ Lives(A, E, Other(t), g)
          BY <3>3, HalfFacts
      <4> QED BY <4>1, <1>7 DEF LinksSound
    <3> QED BY <2>2, <3>1, <3>2, <3>3
  <2> QED BY <2>1, <2>2, <1>1, <1>7
<1> QED BY <1>6, <1>7 DEF AddrAt

(* A half hears which game has rebuilt the other one.                      *)
LEMMA AddrRolled ==
    ASSUME NEW q \in [Lanes -> Seq(Rpcs)], NEW w \in Lanes, q[w] # <<>>,
           NEW r, r = Taken(q, w), NEW A, NEW E, NEW F, AddrAt(q, A, E),
           OrdersSound(q, A, E), WordsSound(q, A, E),
           NEW s \in Halves, NEW g \in Games, Lives(A, E, s, g), Head(q[w]) \in Word(s, g),
           F[s][g].addr = Head(q[w]).from,
           \A t \in Halves, h \in Games :
              /\ Lives(A, F, t, h) => Lives(A, E, t, h)
              /\ ~(t = s /\ h = g) => F[t][h].addr = E[t][h].addr
    PROVE  AddrAt(r, A, F)
<1>1. PICK m : m = Head(q[w])
    OBVIOUS
<1>2. /\ r \in [Lanes -> Seq(Rpcs)]
      /\ \A l : On(r, l) => On(q, l)
      /\ \A l : On(q, l) => On(r, l) \/ l = m
      /\ On(q, m) /\ m \in Word(s, g)
    BY <1>1, ShedsTake DEF Sheds, On
<1>3. ~Free(q, Word(s, g)) /\ g \in A
    BY <1>2, OnFacts DEF Lives
<1>4. Single(q, Word(s, g)) /\ E[s][g].addr \notin A
    BY <1>3 DEF WordsSound, OrdersSound
<1>5. \A l \in Word(s, g) : On(q, l) => l = m
  <2> SUFFICES ASSUME NEW l \in Word(s, g), On(q, l) PROVE l = m
      OBVIOUS
  <2>1. DOMAIN q = Lanes
      OBVIOUS
  <2>2. PICK v \in Lanes : \E i \in 1 .. Len(q[v]) : q[v][i] = l
      BY DEF On, At
  <2>3. PICK u \in Lanes : \E j \in 1 .. Len(q[u]) : q[u][j] = m
      BY <1>2 DEF On, At
  <2>4. PICK i \in 1 .. Len(q[v]) : q[v][i] = l
      BY <2>2
  <2>5. PICK j \in 1 .. Len(q[u]) : q[u][j] = m
      BY <2>3
  <2>6. Single(q, Word(s, g)) /\ l \in Word(s, g) /\ m \in Word(s, g)
      BY <1>2, <1>4
  <2> QED BY <2>1, <2>4, <2>5, <2>6 DEF Single
<1>6. ~Free(r, Ords) => Free(r, Live(A))
  <2>1. Free(q, Ords) => Free(r, Ords)
      BY <1>2, FreeOn
  <2>2. Free(q, Live(A)) => Free(r, Live(A))
      BY <1>2, FreeOn
  <2> QED BY <2>1, <2>2 DEF AddrAt
<1>7. ASSUME NEW t \in Halves, NEW z \in Games, Lives(A, F, t, z), NEW l \in Live(A), On(r, l)
      PROVE  /\ l.half = Other(t) => l.from = z /\ l.addr = F[t][z].addr
             /\ l.half = t => l.from = F[t][z].addr \/ ~Free(r, WordFrom(t, z, l.from))
  <2>1. Lives(A, E, t, z) /\ On(q, l) /\ l.from \in A /\ l.addr \in A
      BY <1>2, <1>7 DEF Live
  <2>2. /\ l.half = Other(t) => l.from = z /\ l.addr = E[t][z].addr
        /\ l.half = t => l.from = E[t][z].addr \/ ~Free(q, WordFrom(t, z, l.from))
      BY <1>7, <2>1 DEF AddrAt
  <2>3. CASE t = s /\ z = g
    <3>1. l.half = t => ~Free(q, WordFrom(s, g, l.from))
        BY <2>1, <2>2, <2>3, <1>4
    <3>2. ASSUME ~Free(q, WordFrom(s, g, l.from)) PROVE l.from = m.from
      <4>1. PICK k \in WordFrom(s, g, l.from) : On(q, k)
          BY <3>2, OnFacts
      <4>2. k \in Word(s, g) /\ k.from = l.from
          BY DEF WordFrom
      <4> QED BY <4>1, <4>2, <1>5
    <3> QED BY <2>1, <2>2, <2>3, <3>1, <3>2, <1>1, <1>4
  <2>4. CASE ~(t = s /\ z = g)
    <3>1. ASSUME ~Free(q, WordFrom(t, z, l.from)) PROVE ~Free(r, WordFrom(t, z, l.from))
      <4>1. PICK k \in WordFrom(t, z, l.from) : On(q, k)
          BY <3>1, OnFacts
      <4>2. k # m
          BY <2>4, <1>2 DEF WordFrom, Word
      <4> QED BY <4>1, <4>2, <1>2, OnFacts
    <3> QED BY <2>2, <2>4, <3>1
  <2> QED BY <2>3, <2>4
<1> QED BY <1>6, <1>7 DEF AddrAt

-----------------------------------------------------------------------------
LEMMA PathIs ==
    ASSUME NEW q \in [Lanes -> Seq(Rpcs)], NEW X, NEW u, NEW d
    PROVE  OnPath(q, X, u, d) <=>
              \A w \in Lanes : \A m \in X : At(q, w, m) => w = u \/ w = d
<1>1. ASSUME OnPath(q, X, u, d), NEW w \in Lanes, NEW m \in X, At(q, w, m)
      PROVE  w = u \/ w = d
  <2>1. PICK a \in Places(q, X) : a[1] = w
      BY <1>1, AtPlace
  <2> QED BY <2>1, <1>1 DEF OnPath
<1>2. ASSUME \A w \in Lanes : \A m \in X : At(q, w, m) => w = u \/ w = d,
             NEW a \in Places(q, X)
      PROVE  a[1] = u \/ a[1] = d
  <2>1. a[1] \in Lanes /\ At(q, a[1], Letter(q, a)) /\ Letter(q, a) \in X
      BY AtPlace, PlaceIs
  <2> QED BY <2>1, <1>2
<1> QED BY <1>1, <1>2 DEF OnPath

LEMMA PathLess ==
    ASSUME NEW q \in [Lanes -> Seq(Rpcs)], NEW r \in [Lanes -> Seq(Rpcs)],
           NEW A, NEW B, NEW E, NEW F, PathAt(q, A, E),
           SameGates(A, E, B, F),
           \A w \in Lanes : \A m \in Calls : At(r, w, m) => At(q, w, m)
    PROVE  PathAt(r, B, F)
<1> SUFFICES ASSUME NEW s \in Halves, NEW h \in Games, Lives(B, F, s, h)
             PROVE  \E x \in Games, k \in Gates : Way(r, B, F, s, h, x, k)
    BY DEF PathAt
<1>1. PICK x \in Games, k \in Gates : Way(q, A, E, s, h, x, k)
    BY DEF PathAt, SameGates
<1>2. \A g \in Games : Lives(B, F, Other(s), g) => g = x /\ F[Other(s)][g].gate = k
    BY <1>1, HalfFacts DEF Way, SameGates
<1>3. PICK u, d, X : u = Up(x, k) /\ d = Down(k, h) /\ X = Tie(s, h)
    OBVIOUS
<1>4. OnPath(r, X, u, d)
  <2>1. OnPath(q, X, u, d)
      BY <1>1, <1>3 DEF Way
  <2>2. ASSUME NEW w \in Lanes, NEW m \in X, At(r, w, m)
        PROVE  w = u \/ w = d
    <3>1. m \in Calls
        BY <1>3, CallSets
    <3>2. At(q, w, m)
        BY <3>1, <2>2
    <3> QED BY <3>2, <2>1, PathIs
  <2> QED BY <2>2, PathIs
<1> QED BY <1>2, <1>3, <1>4 DEF Way

(* Half s in game g calls the other one.                                   *)
LEMMA PathCall ==
    ASSUME NEW q \in [Lanes -> Seq(Rpcs)], NEW A, NEW E, PathAt(q, A, E),
           NEW s \in Halves, NEW g \in Games, Lives(A, E, s, g), NEW m \in Rpcs,
           m.half = Other(s), NEW j \in Gates, j = E[s][g].gate,
           NEW r, r = Joined(q, Up(g, j), <<m>>)
    PROVE  PathAt(r, A, E)
<1>1. PICK w : w = Up(g, j) /\ w \in Lanes
    BY LaneFacts
<1>3. r \in [Lanes -> Seq(Rpcs)] /\ \A v \in Lanes : \A l : At(r, v, l) => At(q, v, l) \/ (v = w /\ l = m)
  <2>1. r = Joined(q, w, <<m>>)
      BY <1>1
  <2>2. Joined(q, w, <<m>>) \in [Lanes -> Seq(Rpcs)]
      BY <1>1, JoinType
  <2>3. ASSUME NEW v \in Lanes, NEW l, At(Joined(q, w, <<m>>), v, l)
        PROVE  At(q, v, l) \/ (v = w /\ l = m)
      BY <2>3, <1>1, JoinAtOne
  <2> QED BY <2>1, <2>2, <2>3
<1> SUFFICES ASSUME NEW t \in Halves, NEW h \in Games, Lives(A, E, t, h)
             PROVE  \E x \in Games, k \in Gates : Way(r, A, E, t, h, x, k)
    BY DEF PathAt
<1>4. PICK x \in Games, k \in Gates : Way(q, A, E, t, h, x, k)
    BY DEF PathAt
<1>5. ASSUME NEW v \in Lanes, NEW l \in Tie(t, h), At(r, v, l)
      PROVE  v = Up(x, k) \/ v = Down(k, h)
  <2>1. CASE At(q, v, l)
      BY <2>1, <1>4, PathIs DEF Way
  <2>2. CASE v = w /\ l = m
    <3>1. t = Other(s) /\ Other(t) = s
        BY <2>2, HalfFacts DEF Tie
    <3>2. g = x /\ j = k
        BY <3>1, <1>4 DEF Way
    <3> QED BY <2>2, <3>2, <1>1
  <2> QED BY <2>1, <2>2, <1>3, <1>5
<1>6. OnPath(r, Tie(t, h), Up(x, k), Down(k, h))
    BY <1>3, <1>5, PathIs
<1> QED BY <1>4, <1>6 DEF Way

(* A gate passes a letter on.                                              *)
LEMMA PathMove ==
    ASSUME NEW q \in [Lanes -> Seq(Rpcs)], NEW A, NEW E, PathAt(q, A, E),
           NEW g \in Games, NEW k \in Gates, NEW h \in Games, q[Up(g, k)] # <<>>,
           Head(q[Up(g, k)]).kind \in {"gift", "backup", "recovered"} =>
              h = Head(q[Up(g, k)]).addr,
           NEW r, r = Joined(Taken(q, Up(g, k)), Down(k, h), <<Head(q[Up(g, k)])>>)
    PROVE  /\ PathAt(r, A, E)
           /\ \A t \in Halves, z \in Games : Lives(A, E, t, z) /\ Head(q[Up(g, k)]) \in Tie(t, z) =>
                 OnPath(q, Tie(t, z), Up(g, k), Down(k, h))
<1>1. PICK v, w, m : /\ v \in Lanes /\ w \in Lanes
                     /\ v = Up(g, k) /\ w = Down(k, h) /\ m = Head(q[Up(g, k)])
    BY LaneFacts
<1>2. /\ r \in [Lanes -> Seq(Rpcs)]
      /\ \A u \in Lanes : \A l : At(r, u, l) => At(q, u, l) \/ (u = w /\ l = m)
  <2>1. q[v] # <<>> /\ r = Joined(Taken(q, v), w, <<Head(q[v])>>) /\ m = Head(q[v])
      BY <1>1
  <2> QED BY <1>1, <2>1, MoveOn
<1>3. At(q, v, m)
    BY <1>1, ShedsTake
<1> SUFFICES ASSUME NEW t \in Halves, NEW z \in Games, Lives(A, E, t, z)
             PROVE  /\ \E x \in Games, j \in Gates : Way(r, A, E, t, z, x, j)
                    /\ m \in Tie(t, z) => OnPath(q, Tie(t, z), Up(g, k), Down(k, h))
    BY <1>1 DEF PathAt
<1>4. PICK x \in Games, j \in Gates : Way(q, A, E, t, z, x, j)
    BY DEF PathAt
<1>5. ASSUME m \in Tie(t, z) PROVE x = g /\ k = j /\ h = z
  <2>1. v = Up(x, j) \/ v = Down(j, z)
      BY <1>1, <1>3, <1>4, <1>5, PathIs DEF Way
  <2>2. h = z
      BY <1>1, <1>5 DEF Tie
  <2>4. v # Down(j, z)
      BY <1>1, LaneFacts
  <2>5. v[2] = g /\ v[3] = k
      BY <1>1, LaneFacts
  <2>6. Up(x, j)[2] = x /\ Up(x, j)[3] = j
      BY DEF Up
  <2> QED BY <2>1, <2>2, <2>4, <2>5, <2>6
<1>6. ASSUME NEW u \in Lanes, NEW l \in Tie(t, z), At(r, u, l)
      PROVE  u = Up(x, j) \/ u = Down(j, z)
  <2>1. CASE At(q, u, l)
      BY <2>1, <1>4, <1>6, PathIs DEF Way
  <2>2. CASE u = w /\ l = m
      BY <2>2, <1>1, <1>5, <1>6
  <2> QED BY <2>1, <2>2, <1>2, <1>6
<1>7. OnPath(r, Tie(t, z), Up(x, j), Down(j, z))
    BY <1>2, <1>6, PathIs
<1> QED BY <1>4, <1>5, <1>7 DEF Way

(* Nothing is on the way to the halves that live.                          *)
LEMMA PathNone ==
    ASSUME NEW q \in [Lanes -> Seq(Rpcs)], NEW A, NEW E, EntsSound(A, E),
           \A s \in Halves, h \in Games : Lives(A, E, s, h) => Free(q, Tie(s, h))
    PROVE  PathAt(q, A, E)
<1> SUFFICES ASSUME NEW s \in Halves, NEW h \in Games, Lives(A, E, s, h)
             PROVE  \E x \in Games, k \in Gates : Way(q, A, E, s, h, x, k)
    BY DEF PathAt
<1>1. Places(q, Tie(s, h)) = {}
    BY AtPlace
<1>2. \A x, k : OnPath(q, Tie(s, h), Up(x, k), Down(k, h))
    BY <1>1 DEF OnPath
<1>3. \E x \in Games, k \in Gates :
         \A g \in Games : Lives(A, E, Other(s), g) => g = x /\ E[Other(s)][g].gate = k
  <2>1. ASSUME NEW x \in Games, Lives(A, E, Other(s), x)
        PROVE  /\ E[Other(s)][x].gate \in Gates
               /\ \A g \in Games : Lives(A, E, Other(s), g) => g = x
    <3>1. E[Other(s)][x] \in Entities /\ \A g \in Games : Lives(A, E, Other(s), g) => x = g
        BY <2>1, HalfFacts DEF EntsSound
    <3> QED BY <3>1 DEF Entities
  <2>2. CASE \E x \in Games : Lives(A, E, Other(s), x)
      BY <2>1, <2>2
  <2>3. CASE ~\E x \in Games : Lives(A, E, Other(s), x)
    <3>1. E[s][h].gate \in Gates
        BY DEF EntsSound, Entities
    <3> QED BY <2>3, <3>1
  <2> QED BY <2>2, <2>3
<1> QED BY <1>2, <1>3 DEF Way

-----------------------------------------------------------------------------
(* Backups of half s: its own, the one the other half has, and those in    *)
(* letters.  Each belongs to a round.                                      *)
Of(m) == IF m.kind = "recover" THEN m.half ELSE Other(m.half)
Held(q, A, E, s, b) ==
    /\ b \in Backups /\ b.round # 0
    /\ \/ \E g \in Games : Lives(A, E, s, g) /\ b = E[s][g].self
       \/ \E g \in Games : Lives(A, E, Other(s), g) /\ b = E[Other(s)][g].other
       \/ \E m \in Rpcs : On(q, m) /\ m.kind \in Backed /\ Of(m) = s /\ b = m.bk

(* A round has one backup of the base, and the gold in its backups of both *)
(* halves is no more than there was.                                       *)
BackAt(q, A, E, n) ==
    /\ \A s \in Halves : \A b : Held(q, A, E, s, b) => b.round \in 1 .. n
    /\ \A b, c : Held(q, A, E, "base", b) /\ Held(q, A, E, "base", c) /\ b.round = c.round => b = c
    /\ \A b, c : Held(q, A, E, "base", b) /\ Held(q, A, E, "cell", c) /\ b.round = c.round =>
          b.gold + c.gold <= 2 * Gold

LEMMA BackLess ==
    ASSUME NEW q, NEW r, NEW A, NEW B, NEW E, NEW F, NEW n \in Nat, BackAt(q, A, E, n),
           \A s \in Halves : \A b : Held(r, B, F, s, b) => Held(q, A, E, s, b)
    PROVE  BackAt(r, B, F, n)
<1>1. "base" \in Halves /\ "cell" \in Halves
    BY HalfFacts
<1> QED BY <1>1 DEF BackAt

(* The base makes a backup. *)
LEMMA BackRound ==
    ASSUME NEW q, NEW r, NEW A, NEW B, NEW E, NEW F, NEW n \in Nat, BackAt(q, A, E, n),
           NEW c, c.round = n + 1,
           \A s \in Halves : \A b : Held(r, B, F, s, b) => Held(q, A, E, s, b) \/ (s = "base" /\ b = c)
    PROVE  BackAt(r, B, F, n + 1)
<1>1. "base" \in Halves /\ "cell" \in Halves /\ "base" # "cell"
    BY HalfFacts
<1>2. \A s \in Halves : \A b : Held(q, A, E, s, b) => b.round \in 1 .. n
    BY DEF BackAt
<1>3. \A b : Held(r, B, F, "base", b) => Held(q, A, E, "base", b) \/ b = c
    BY <1>1
<1>4. \A b : Held(r, B, F, "cell", b) => Held(q, A, E, "cell", b)
    BY <1>1
<1>5. \A s \in Halves : \A b : Held(r, B, F, s, b) => b.round \in 1 .. n + 1
  <2> SUFFICES ASSUME NEW s \in Halves, NEW b, Held(r, B, F, s, b)
               PROVE  b.round \in 1 .. n + 1
      OBVIOUS
  <2>1. b.round \in 1 .. n \/ b = c
      BY <1>2
  <2> QED BY <2>1
<1>6. ASSUME NEW b, NEW d, Held(r, B, F, "base", b), Held(r, B, F, "base", d), b.round = d.round
      PROVE  b = d
  <2>1. CASE Held(q, A, E, "base", b) /\ Held(q, A, E, "base", d)
      BY <2>1, <1>6 DEF BackAt
  <2>2. CASE Held(q, A, E, "base", b) /\ d = c
    <3>1. b.round \in 1 .. n
        BY <2>2, <1>1, <1>2
    <3> QED BY <3>1, <2>2, <1>6
  <2>3. CASE Held(q, A, E, "base", d) /\ b = c
    <3>1. d.round \in 1 .. n
        BY <2>3, <1>1, <1>2
    <3> QED BY <3>1, <2>3, <1>6
  <2> QED BY <2>1, <2>2, <2>3, <1>3, <1>6
<1>7. ASSUME NEW b, NEW d, Held(r, B, F, "base", b), Held(r, B, F, "cell", d), b.round = d.round
      PROVE  b.gold + d.gold <= 2 * Gold
  <2>1. Held(q, A, E, "cell", d)
      BY <1>4, <1>7
  <2>2. d.round \in 1 .. n
      BY <2>1, <1>1, <1>2
  <2>3. b # c
      BY <2>2, <1>7
  <2>4. Held(q, A, E, "base", b)
      BY <2>3, <1>3, <1>7
  <2> QED BY <2>1, <2>4, <1>7 DEF BackAt
<1> QED BY <1>5, <1>6, <1>7 DEF BackAt

(* So does the cell, of the same round as the one of the base that it has got. *)
LEMMA BackCell ==
    ASSUME NEW q, NEW r, NEW A, NEW B, NEW E, NEW F, NEW n \in Nat, BackAt(q, A, E, n),
           NEW a, Held(q, A, E, "base", a), NEW c, c.round = a.round, a.gold + c.gold <= 2 * Gold,
           \A s \in Halves : \A b : Held(r, B, F, s, b) => Held(q, A, E, s, b) \/ (s = "cell" /\ b = c)
    PROVE  BackAt(r, B, F, n)
<1>1. "base" \in Halves /\ "cell" \in Halves /\ "base" # "cell"
    BY HalfFacts
<1>2. \A s \in Halves : \A b : Held(q, A, E, s, b) => b.round \in 1 .. n
    BY DEF BackAt
<1>3. \A b : Held(r, B, F, "cell", b) => Held(q, A, E, "cell", b) \/ b = c
    BY <1>1
<1>4. \A b : Held(r, B, F, "base", b) => Held(q, A, E, "base", b)
    BY <1>1
<1>5. c.round \in 1 .. n
    BY <1>1, <1>2
<1>6. \A s \in Halves : \A b : Held(r, B, F, s, b) => b.round \in 1 .. n
    BY <1>2, <1>5
<1>7. \A b, d : Held(r, B, F, "base", b) /\ Held(r, B, F, "base", d) /\ b.round = d.round => b = d
    BY <1>4 DEF BackAt
<1>8. ASSUME NEW b, NEW d, Held(r, B, F, "base", b), Held(r, B, F, "cell", d), b.round = d.round
      PROVE  b.gold + d.gold <= 2 * Gold
  <2>1. Held(q, A, E, "base", b)
      BY <1>4, <1>8
  <2>2. CASE Held(q, A, E, "cell", d)
      BY <2>1, <2>2, <1>8 DEF BackAt
  <2>3. CASE d = c
    <3>1. b = a
        BY <2>1, <2>3, <1>8 DEF BackAt
    <3> QED BY <3>1, <2>3
  <2> QED BY <2>2, <2>3, <1>3, <1>8
<1> QED BY <1>6, <1>7, <1>8 DEF BackAt

-----------------------------------------------------------------------------
(* The gold of a half.  Until it has heard of the recovery of the other    *)
(* half it counts as what the backup used for that has left over.          *)
Gifts(s, h) == {m \in Rpcs : m.kind = "gift" /\ m.half = s /\ m.addr = h}
Backs(h) == {m \in Rpcs : m.kind = "backup" /\ m.half = "cell" /\ m.addr = h}

Worth(q, E, s, h, n) ==
    /\ n \in Int
    /\ \A m \in Word(s, h) : On(q, m) => n = 2 * Gold - m.bk.gold
    /\ Free(q, Word(s, h)) => n = E[s][h].gold

Income(q, s, h) == Cardinality(Places(q, Gifts(s, h)))
AheadOf(q, h, b) == Cardinality(Before(q, Gifts("cell", h), b))

(* Together with the gifts under way the halves have no more than there    *)
(* was,                                                                    *)
Total(q, A, E) ==
    \A g, h \in Games : Lives(A, E, "base", g) /\ Lives(A, E, "cell", h) =>
       \A n, o \in Int : Worth(q, E, "base", g, n) /\ Worth(q, E, "cell", h, o) =>
          n + o + Income(q, "base", g) + Income(q, "cell", h) <= 2 * Gold
(* and nor will the backup that the cell makes when a backup of the base   *)
(* arrives, together with that one.                                        *)
Cuts(q, A, E) ==
    \A h \in Games : Lives(A, E, "cell", h) =>
       \A b \in Places(q, Backs(h)) : \A n \in Int : Worth(q, E, "cell", h, n) =>
          Letter(q, b).bk.gold + n + AheadOf(q, h, b) <= 2 * Gold
(* By then the cell has heard of the recovery of the base.                 *)
WordFirst(q, A, E) ==
    \A h \in Games : Lives(A, E, "cell", h) =>
       \A a \in Places(q, Word("cell", h)) : \A b \in Places(q, Backs(h)) : Prior(a, b)

GoldAt(q, A, E) ==
    /\ IsFiniteSet(Places(q, Calls))
    /\ Total(q, A, E) /\ Cuts(q, A, E) /\ WordFirst(q, A, E)

LEMMA GoldSets ==
    \A s, h : /\ Gifts(s, h) \in SUBSET Tie(s, h) /\ Gifts(s, h) \in SUBSET Calls
              /\ Backs(h) \in SUBSET Tie("cell", h) /\ Backs(h) \in SUBSET Calls
              /\ Word(s, h) \in SUBSET Tie(s, h) /\ Word(s, h) \in SUBSET Calls
              /\ Tie(s, h) \in SUBSET Calls
<1> SUFFICES ASSUME NEW s, NEW h
             PROVE  /\ Gifts(s, h) \in SUBSET Tie(s, h) /\ Backs(h) \in SUBSET Tie("cell", h)
                    /\ Word(s, h) \in SUBSET Tie(s, h)
                    /\ Tie(s, h) \in SUBSET Calls /\ Tie("cell", h) \in SUBSET Calls
    OBVIOUS
<1>1. Gifts(s, h) \in SUBSET Tie(s, h)
    BY DEF Gifts, Tie
<1>2. Backs(h) \in SUBSET Tie("cell", h)
    BY DEF Backs, Tie
<1>3. Word(s, h) \in SUBSET Tie(s, h)
    BY DEF Words, Word, Tie
<1>4. Tie(s, h) \in SUBSET Calls /\ Tie("cell", h) \in SUBSET Calls
    BY DEF Tie, Calls
<1> QED BY <1>1, <1>2, <1>3, <1>4

LEMMA Counting ==
    ASSUME NEW q \in [Lanes -> Seq(Rpcs)], IsFiniteSet(Places(q, Calls)), NEW K \in SUBSET Calls
    PROVE  /\ IsFiniteSet(Places(q, K)) /\ Cardinality(Places(q, K)) \in Nat
           /\ \A b : /\ IsFiniteSet(Before(q, K, b)) /\ Cardinality(Before(q, K, b)) \in Nat
                     /\ Cardinality(Before(q, K, b)) <= Cardinality(Places(q, K))
<1>1. Places(q, K) \subseteq Places(q, Calls)
    BY PlaceFacts
<1>2. IsFiniteSet(Places(q, K)) /\ Cardinality(Places(q, K)) \in Nat
    BY <1>1, FS_Subset, FS_CardinalityType
<1>3. ASSUME NEW b
      PROVE  /\ IsFiniteSet(Before(q, K, b)) /\ Cardinality(Before(q, K, b)) \in Nat
             /\ Cardinality(Before(q, K, b)) <= Cardinality(Places(q, K))
  <2>1. Before(q, K, b) \subseteq Places(q, K)
      BY DEF Before
  <2> QED BY <2>1, <1>2, FS_Subset, FS_CardinalityType
<1> QED BY <1>2, <1>3

LEMMA GoldCounts ==
    ASSUME NEW q \in [Lanes -> Seq(Rpcs)], IsFiniteSet(Places(q, Calls))
    PROVE  \A s, h : /\ Income(q, s, h) \in Nat
                     /\ \A b : AheadOf(q, h, b) \in Nat /\ AheadOf(q, h, b) <= Income(q, "cell", h)
<1> SUFFICES ASSUME NEW s, NEW h
             PROVE  /\ Income(q, s, h) \in Nat
                    /\ \A b : AheadOf(q, h, b) \in Nat /\ AheadOf(q, h, b) <= Income(q, "cell", h)
    OBVIOUS
<1>1. Gifts(s, h) \in SUBSET Calls /\ Gifts("cell", h) \in SUBSET Calls
    BY GoldSets
<1>2. Income(q, s, h) \in Nat
    BY <1>1, Counting DEF Income
<1>3. \A b : AheadOf(q, h, b) \in Nat /\ AheadOf(q, h, b) <= Income(q, "cell", h)
  <2> DEFINE K == Gifts("cell", h)
  <2>1. K \in SUBSET Calls
      BY <1>1
  <2> HIDE DEF K
  <2>2. \A b : /\ Cardinality(Before(q, K, b)) \in Nat
               /\ Cardinality(Before(q, K, b)) <= Cardinality(Places(q, K))
      BY <2>1, Counting
  <2> QED BY <2>2 DEF AheadOf, Income, K
<1> QED BY <1>2, <1>3

LEMMA SameWorth ==
    ASSUME NEW q \in [Lanes -> Seq(Rpcs)], NEW r \in [Lanes -> Seq(Rpcs)], NEW E, NEW F,
           NEW s, NEW h, \A m \in Word(s, h) : On(r, m) <=> On(q, m),
           F[s][h].gold = E[s][h].gold
    PROVE  \A n : Worth(r, F, s, h, n) <=> Worth(q, E, s, h, n)
<1>1. Free(r, Word(s, h)) <=> Free(q, Word(s, h))
    BY FreeOn
<1> QED BY <1>1 DEF Worth

-----------------------------------------------------------------------------
(* Nothing new is sent to the half that is left, and it has become poorer. *)
Poorer(q, E, r, F, s, h) ==
    /\ \E p : Follows(q, r, Tie(s, h), p) /\ InStep(q, r, Tie(s, h), p)
    /\ \A n \in Int : Worth(r, F, s, h, n) => \E m \in Int : n <= m /\ Worth(q, E, s, h, m)
(* It is alone, and will not make a backup. *)
Alone(r, B, F, s, h) ==
    /\ \A x \in Games : ~Lives(B, F, Other(s), x)
    /\ s = "cell" => Free(r, Backs(h))

LEMMA GoldFollow ==
    ASSUME NEW q \in [Lanes -> Seq(Rpcs)], NEW r \in [Lanes -> Seq(Rpcs)],
           NEW A, NEW B, NEW E, NEW F, GoldAt(q, A, E), IsFiniteSet(Places(r, Calls)),
           \A s \in Halves, h \in Games : Lives(B, F, s, h) =>
              /\ Lives(A, E, s, h)
              /\ Poorer(q, E, r, F, s, h) \/ Alone(r, B, F, s, h)
    PROVE  GoldAt(r, B, F)
<1>0. "base" \in Halves /\ "cell" \in Halves /\ Other("base") = "cell" /\ Other("cell") = "base"
    BY HalfFacts
<1>1. IsFiniteSet(Places(q, Calls)) /\ Total(q, A, E) /\ Cuts(q, A, E) /\ WordFirst(q, A, E)
    BY DEF GoldAt
<1>2. ASSUME NEW s \in Halves, NEW h \in Games, Poorer(q, E, r, F, s, h)
      PROVE  /\ Income(r, s, h) \in Nat /\ Income(q, s, h) \in Nat
             /\ Income(r, s, h) <= Income(q, s, h)
  <2>1. PICK p : Follows(q, r, Tie(s, h), p)
      BY <1>2 DEF Poorer
  <2>2. Gifts(s, h) \in SUBSET Tie(s, h) /\ Gifts(s, h) \in SUBSET Calls
      BY GoldSets
  <2>3. IsFiniteSet(Places(q, Gifts(s, h)))
      BY <1>1, <2>2, Counting
  <2>4. Cardinality(Places(r, Gifts(s, h))) <= Cardinality(Places(q, Gifts(s, h)))
      BY <2>1, <2>2, <2>3, FollowsCount
  <2> QED BY <2>4, <1>1, GoldCounts DEF Income
<1>3. Total(r, B, F)
  <2> SUFFICES ASSUME NEW g \in Games, NEW h \in Games, Lives(B, F, "base", g), Lives(B, F, "cell", h),
                      NEW n \in Int, NEW o \in Int,
                      Worth(r, F, "base", g, n), Worth(r, F, "cell", h, o)
               PROVE  n + o + Income(r, "base", g) + Income(r, "cell", h) <= 2 * Gold
      BY DEF Total
  <2>1. Poorer(q, E, r, F, "base", g) /\ Poorer(q, E, r, F, "cell", h)
      BY <1>0 DEF Alone
  <2>2. PICK n1 \in Int : n <= n1 /\ Worth(q, E, "base", g, n1)
      BY <2>1 DEF Poorer
  <2>3. PICK o1 \in Int : o <= o1 /\ Worth(q, E, "cell", h, o1)
      BY <2>1 DEF Poorer
  <2>4. Lives(A, E, "base", g) /\ Lives(A, E, "cell", h)
      BY <1>0
  <2>5. n1 + o1 + Income(q, "base", g) + Income(q, "cell", h) <= 2 * Gold
      BY <2>2, <2>3, <2>4, <1>1 DEF Total
  <2>6. /\ Income(r, "base", g) \in Nat /\ Income(q, "base", g) \in Nat
        /\ Income(r, "base", g) <= Income(q, "base", g)
      BY <2>1, <1>0, <1>2
  <2>7. /\ Income(r, "cell", h) \in Nat /\ Income(q, "cell", h) \in Nat
        /\ Income(r, "cell", h) <= Income(q, "cell", h)
      BY <2>1, <1>0, <1>2
  <2>8. Gold \in Nat
      BY PlacesAssumption
  <2> QED BY SMTT(30), <2>2, <2>3, <2>5, <2>6, <2>7, <2>8
<1>4. ASSUME NEW h \in Games, Lives(B, F, "cell", h), NEW b \in Places(r, Backs(h))
      PROVE  /\ Lives(A, E, "cell", h)
             /\ Poorer(q, E, r, F, "cell", h)
             /\ b \in Places(r, Tie("cell", h))
  <2>1. ~Free(r, Backs(h))
      BY <1>4, PlaceFacts
  <2>2. b \in Places(r, Tie("cell", h))
    <3>1. Backs(h) \in SUBSET Tie("cell", h)
        BY GoldSets
    <3> QED BY <3>1, <1>4 DEF Places
  <2> QED BY <2>1, <2>2, <1>0, <1>4 DEF Alone
<1>5. Cuts(r, B, F)
  <2> SUFFICES ASSUME NEW h \in Games, Lives(B, F, "cell", h), NEW b \in Places(r, Backs(h)),
                      NEW n \in Int, Worth(r, F, "cell", h, n)
               PROVE  Letter(r, b).bk.gold + n + AheadOf(r, h, b) <= 2 * Gold
      BY DEF Cuts
  <2>1. Lives(A, E, "cell", h) /\ Poorer(q, E, r, F, "cell", h) /\ b \in Places(r, Tie("cell", h))
      BY <1>4
  <2>2. PICK p : Follows(q, r, Tie("cell", h), p) /\ InStep(q, r, Tie("cell", h), p)
      BY <2>1 DEF Poorer
  <2>3. p[b] \in Places(q, Backs(h)) /\ Letter(q, p[b]) = Letter(r, b)
    <3>1. Follows(q, r, Backs(h), p)
        BY <2>2, GoldSets, FollowsPart
    <3> QED BY <3>1 DEF Follows
  <2>4. PICK n1 \in Int : n <= n1 /\ Worth(q, E, "cell", h, n1)
      BY <2>1 DEF Poorer
  <2>5. Letter(q, p[b]).bk.gold + n1 + AheadOf(q, h, p[b]) <= 2 * Gold
      BY <2>1, <2>3, <2>4, <1>1 DEF Cuts
  <2>6. AheadOf(r, h, b) <= AheadOf(q, h, p[b])
    <3>1. Gifts("cell", h) \in SUBSET Tie("cell", h) /\ Gifts("cell", h) \in SUBSET Calls
        BY GoldSets
    <3>2. IsFiniteSet(Places(q, Gifts("cell", h)))
        BY <3>1, <1>1, Counting
    <3>3. \A c \in Places(r, Tie("cell", h)) :
             Cardinality(Before(r, Gifts("cell", h), c)) <= Cardinality(Before(q, Gifts("cell", h), p[c]))
        BY <2>2, <3>1, <3>2, FollowsCount
    <3> QED BY <3>3, <2>1 DEF AheadOf
  <2>7. AheadOf(r, h, b) \in Nat /\ AheadOf(q, h, p[b]) \in Nat
      BY <1>1, GoldCounts
  <2>8. Letter(r, b) \in Rpcs
      BY PlaceIs
  <2>9. Letter(r, b).bk.gold \in Nat /\ Gold \in Nat
      BY <2>8, PlacesAssumption DEF Rpcs, Backups
  <2> QED BY SMTT(30), <2>3, <2>4, <2>5, <2>6, <2>7, <2>9
<1>6. WordFirst(r, B, F)
  <2> SUFFICES ASSUME NEW h \in Games, Lives(B, F, "cell", h), NEW a \in Places(r, Word("cell", h)),
                      NEW b \in Places(r, Backs(h))
               PROVE  Prior(a, b)
      BY DEF WordFirst
  <2>1. Lives(A, E, "cell", h) /\ Poorer(q, E, r, F, "cell", h) /\ b \in Places(r, Tie("cell", h))
      BY <1>4
  <2>2. PICK p : Follows(q, r, Tie("cell", h), p) /\ InStep(q, r, Tie("cell", h), p)
      BY <2>1 DEF Poorer
  <2>3. p[b] \in Places(q, Backs(h)) /\ p[a] \in Places(q, Word("cell", h))
    <3>1. Follows(q, r, Backs(h), p) /\ Follows(q, r, Word("cell", h), p)
        BY <2>2, GoldSets, FollowsPart
    <3> QED BY <3>1 DEF Follows
  <2>4. Prior(p[a], p[b])
      BY <2>1, <2>3, <1>1 DEF WordFirst
  <2>5. a \in Places(r, Tie("cell", h))
    <3>1. Word("cell", h) \in SUBSET Tie("cell", h)
        BY GoldSets
    <3> QED BY <3>1 DEF Places
  <2> QED BY <2>1, <2>2, <2>4, <2>5 DEF InStep
<1> QED BY <1>3, <1>5, <1>6 DEF GoldAt

-----------------------------------------------------------------------------
(* A letter joins a queue to a gate. *)
LEMMA GrownCounts ==
    ASSUME NEW q \in [Lanes -> Seq(Rpcs)], NEW r \in [Lanes -> Seq(Rpcs)],
           NEW w \in Lanes, w[1] = "up", NEW m, NEW z, Grows(q, r, w, m, z),
           IsFiniteSet(Places(q, Calls))
    PROVE  /\ IsFiniteSet(Places(r, Calls))
           /\ \A K \in SUBSET Calls :
                 /\ m \notin K => Places(r, K) = Places(q, K)
                 /\ m \in K => Cardinality(Places(r, K)) = Cardinality(Places(q, K)) + 1
                 /\ Cardinality(Before(r, K, z)) <= Cardinality(Places(q, K))
           /\ \A K, X : \A b \in Places(q, X) : Before(r, K, b) = Before(q, K, b)
<1>1. /\ \A K : Places(r, K) = Places(q, K) \cup (IF m \in K THEN {z} ELSE {})
      /\ \A X : z \notin Places(q, X)
      /\ z[1] = w
      /\ \A X : \A a \in Places(q, X) : ~Prior(z, a)
    BY DEF Grows
<1>2. \A K : /\ m \notin K => Places(r, K) = Places(q, K)
             /\ m \in K => Places(r, K) = Places(q, K) \cup {z}
    BY <1>1
<1>3. IsFiniteSet(Places(r, Calls))
  <2>1. IsFiniteSet(Places(q, Calls) \cup {z})
      BY FS_AddElement
  <2> QED BY <2>1, <1>2
<1>4. ASSUME NEW K \in SUBSET Calls, m \in K
      PROVE  Cardinality(Places(r, K)) = Cardinality(Places(q, K)) + 1
  <2>1. IsFiniteSet(Places(q, K)) /\ z \notin Places(q, K)
      BY <1>1, Counting
  <2>2. Cardinality(Places(q, K) \cup {z}) = Cardinality(Places(q, K)) + 1
      BY <2>1, FS_AddElement
  <2> QED BY <2>2, <1>2, <1>4
<1>5. ASSUME NEW K, NEW X, NEW b \in Places(q, X)
      PROVE  Before(r, K, b) = Before(q, K, b)
  <2>1. ~Prior(z, b)
      BY <1>1
  <2>2. \A a : a \in Places(r, K) /\ Prior(a, b) <=> a \in Places(q, K) /\ Prior(a, b)
      BY <2>1, <1>2
  <2> QED BY <2>2 DEF Before
<1>6. ASSUME NEW K \in SUBSET Calls
      PROVE  Cardinality(Before(r, K, z)) <= Cardinality(Places(q, K))
  <2>1. m \in K => ~Prior(z, z)
    <3>1. SUFFICES ASSUME m \in K PROVE ~Prior(z, z)
        OBVIOUS
    <3>2. z \in Places(r, K)
        BY <3>1, <1>2
    <3>3. z[2] \in Nat
        BY <3>2 DEF Places
    <3> QED BY <3>3, <1>1 DEF Prior
  <2>2. Before(r, K, z) \subseteq Places(q, K)
      BY <2>1, <1>2 DEF Before
  <2>3. IsFiniteSet(Places(q, K))
      BY Counting
  <2> QED BY <2>2, <2>3, FS_Subset
<1> QED BY <1>2, <1>3, <1>4, <1>5, <1>6

LEMMA GrownIncome ==
    ASSUME NEW s, NEW x, NEW q \in [Lanes -> Seq(Rpcs)], NEW r \in [Lanes -> Seq(Rpcs)],
           NEW w \in Lanes, NEW m, NEW z, w[1] = "up", Grows(q, r, w, m, z),
           IsFiniteSet(Places(q, Calls))
    PROVE  /\ m \in Gifts(s, x) => Income(r, s, x) = Income(q, s, x) + 1
           /\ m \notin Gifts(s, x) => Income(r, s, x) = Income(q, s, x)
<1> DEFINE K == Gifts(s, x)
<1>1. K \in SUBSET Calls
    BY GoldSets
<1> HIDE DEF K
<1>3. IsFiniteSet(Places(q, K)) /\ Cardinality(Places(q, K)) \in Nat
    BY <1>1, Counting
<1>2. /\ m \notin K => Places(r, K) = Places(q, K)
      /\ m \in K => Cardinality(Places(r, K)) = Cardinality(Places(q, K)) + 1
  <2>1. z \notin Places(q, K) /\ Places(r, K) = Places(q, K) \cup (IF m \in K THEN {z} ELSE {})
      BY DEF Grows
  <2>2. Cardinality(Places(q, K) \cup {z}) = Cardinality(Places(q, K)) + 1
      BY <2>1, <1>3, FS_AddElement
  <2> QED BY <2>1, <2>2
<1> QED BY <1>2 DEF Income, K

LEMMA GrownOn ==
    ASSUME NEW q \in [Lanes -> Seq(Rpcs)], NEW r \in [Lanes -> Seq(Rpcs)],
           NEW w, NEW m, NEW z, Grows(q, r, w, m, z)
    PROVE  \A l : On(r, l) <=> On(q, l) \/ l = m
<1> SUFFICES ASSUME NEW l PROVE On(r, l) <=> On(q, l) \/ l = m
    OBVIOUS
<1>1. Places(r, {l}) = Places(q, {l}) \cup (IF m \in {l} THEN {z} ELSE {})
    BY DEF Grows
<1>2. On(r, l) <=> Places(r, {l}) # {}
  <2> DEFINE K == {l}
  <2>1. l \in K /\ \A k \in K : k = l
      OBVIOUS
  <2> HIDE DEF K
  <2>2. On(r, l) <=> ~Free(r, K)
      BY <2>1, OnFacts
  <2>3. Free(r, K) <=> Places(r, K) = {}
      BY AtPlace
  <2> QED BY <2>2, <2>3 DEF K
<1>3. On(q, l) <=> Places(q, {l}) # {}
  <2> DEFINE K == {l}
  <2>1. l \in K /\ \A k \in K : k = l
      OBVIOUS
  <2> HIDE DEF K
  <2>2. On(q, l) <=> ~Free(q, K)
      BY <2>1, OnFacts
  <2>3. Free(q, K) <=> Places(q, K) = {}
      BY AtPlace
  <2> QED BY <2>2, <2>3 DEF K
<1> QED BY <1>1, <1>2, <1>3

LEMMA GrownCuts ==
    ASSUME NEW q \in [Lanes -> Seq(Rpcs)], NEW r \in [Lanes -> Seq(Rpcs)],
           NEW w \in Lanes, w[1] = "up", NEW m \in Rpcs, NEW z, Grows(q, r, w, m, z),
           NEW A, NEW E, NEW F, GoldAt(q, A, E),
           \A h \in Games : Lives(A, F, "cell", h) =>
              /\ Lives(A, E, "cell", h) /\ m \notin Word("cell", h)
              /\ \A n \in Int : Worth(r, F, "cell", h, n) =>
                    \E o \in Int : n <= o /\ Worth(q, E, "cell", h, o)
              /\ m \in Backs(h) =>
                    /\ \A a \in Places(q, Word("cell", h)) : a[1] = w \/ a[1][1] = "down"
                    /\ \A n \in Int : Worth(r, F, "cell", h, n) =>
                          m.bk.gold + n + Income(q, "cell", h) <= 2 * Gold
    PROVE  Cuts(r, A, F) /\ WordFirst(r, A, F)
<1>1. /\ IsFiniteSet(Places(q, Calls)) /\ Cuts(q, A, E) /\ WordFirst(q, A, E)
      /\ \A K : Places(r, K) = Places(q, K) \cup (IF m \in K THEN {z} ELSE {})
      /\ Letter(r, z) = m
      /\ \A X : \A a \in Places(q, X) : Letter(r, a) = Letter(q, a)
      /\ \A X : \A a \in Places(q, X) : a[1] = w \/ a[1][1] = "down" => Prior(a, z)
    BY DEF GoldAt, Grows
<1>2. IsFiniteSet(Places(r, Calls)) /\ Gold \in Nat
    BY <1>1, GrownCounts, PlacesAssumption
<1> SUFFICES ASSUME NEW h \in Games, Lives(A, F, "cell", h), NEW b \in Places(r, Backs(h))
             PROVE  /\ \A n \in Int : Worth(r, F, "cell", h, n) =>
                          Letter(r, b).bk.gold + n + AheadOf(r, h, b) <= 2 * Gold
                    /\ \A a \in Places(r, Word("cell", h)) : Prior(a, b)
    BY DEF Cuts, WordFirst
<1>3. /\ Lives(A, E, "cell", h) /\ m \notin Word("cell", h)
      /\ \A n \in Int : Worth(r, F, "cell", h, n) =>
            \E o \in Int : n <= o /\ Worth(q, E, "cell", h, o)
      /\ m \in Backs(h) =>
            /\ \A a \in Places(q, Word("cell", h)) : a[1] = w \/ a[1][1] = "down"
            /\ \A n \in Int : Worth(r, F, "cell", h, n) =>
                  m.bk.gold + n + Income(q, "cell", h) <= 2 * Gold
    OBVIOUS
<1>4. Places(r, Word("cell", h)) = Places(q, Word("cell", h))
    BY <1>1, <1>3
<1>5. Letter(r, b).bk.gold \in Nat
  <2>1. Letter(r, b) \in Rpcs
      BY PlaceIs
  <2> QED BY <2>1 DEF Rpcs, Backups
<1>6. \A c : /\ AheadOf(r, h, c) \in Nat /\ AheadOf(q, h, c) \in Nat
             /\ Income(q, "cell", h) \in Nat
    BY <1>1, <1>2, GoldCounts
<1>7. CASE b \in Places(q, Backs(h))
  <2>1. Letter(r, b) = Letter(q, b)
      BY <1>1, <1>7
  <2>2. AheadOf(r, h, b) = AheadOf(q, h, b)
    <3>1. Before(r, Gifts("cell", h), b) = Before(q, Gifts("cell", h), b)
        BY <1>1, <1>7, GrownCounts
    <3> QED BY <3>1 DEF AheadOf
  <2>3. ASSUME NEW n \in Int, Worth(r, F, "cell", h, n)
        PROVE  Letter(r, b).bk.gold + n + AheadOf(r, h, b) <= 2 * Gold
    <3>1. PICK o \in Int : n <= o /\ Worth(q, E, "cell", h, o)
        BY <1>3, <2>3
    <3>2. Letter(q, b).bk.gold + o + AheadOf(q, h, b) <= 2 * Gold
        BY <3>1, <1>1, <1>3, <1>7 DEF Cuts
    <3> QED BY <3>1, <3>2, <2>1, <2>2, <1>2, <1>5, <1>6, SMTT(30)
  <2>4. \A a \in Places(r, Word("cell", h)) : Prior(a, b)
      BY <1>1, <1>3, <1>4, <1>7 DEF WordFirst
  <2> QED BY <2>3, <2>4
<1>8. CASE b \notin Places(q, Backs(h))
  <2>1. m \in Backs(h) /\ b = z
      BY <1>1, <1>8
  <2>2. ASSUME NEW n \in Int, Worth(r, F, "cell", h, n)
        PROVE  Letter(r, b).bk.gold + n + AheadOf(r, h, b) <= 2 * Gold
    <3>1. m.bk.gold + n + Income(q, "cell", h) <= 2 * Gold
        BY <2>1, <2>2, <1>3
    <3>2. AheadOf(r, h, b) <= Income(q, "cell", h)
      <4> DEFINE K == Gifts("cell", h)
      <4>1. K \in SUBSET Calls
          BY GoldSets
      <4> HIDE DEF K
      <4>2. Cardinality(Before(r, K, z)) <= Cardinality(Places(q, K))
          BY <4>1, <1>1, GrownCounts
      <4> QED BY <4>2, <2>1 DEF AheadOf, Income, K
    <3> QED BY <3>1, <3>2, <2>1, <1>1, <1>2, <1>5, <1>6
  <2>3. \A a \in Places(r, Word("cell", h)) : Prior(a, b)
      BY <2>1, <1>1, <1>3, <1>4
  <2> QED BY <2>2, <2>3
<1> QED BY <1>7, <1>8

(* What base and cell lose becomes the gift m.                              *)
Balanced(q, E, r, F, m, g, h) ==
    \A n, o \in Int : Worth(r, F, "base", g, n) /\ Worth(r, F, "cell", h, o) =>
       \E n1, o1 \in Int :
          /\ Worth(q, E, "base", g, n1) /\ Worth(q, E, "cell", h, o1)
          /\ n + o + (IF m \in Gifts("base", g) \cup Gifts("cell", h) THEN 1 ELSE 0) <= n1 + o1

LEMMA GrownTotal ==
    ASSUME NEW q \in [Lanes -> Seq(Rpcs)], NEW r \in [Lanes -> Seq(Rpcs)],
           NEW w \in Lanes, w[1] = "up", NEW m \in Rpcs, NEW z, Grows(q, r, w, m, z),
           NEW A, NEW E, NEW F, GoldAt(q, A, E),
           \A g, h \in Games : Lives(A, F, "base", g) /\ Lives(A, F, "cell", h) =>
              /\ Lives(A, E, "base", g) /\ Lives(A, E, "cell", h)
              /\ Balanced(q, E, r, F, m, g, h)
    PROVE  Total(r, A, F)
<1>1. IsFiniteSet(Places(q, Calls)) /\ Total(q, A, E)
    BY DEF GoldAt
<1>2. Gold \in Nat
    BY PlacesAssumption
<1> SUFFICES ASSUME NEW g \in Games, NEW h \in Games, Lives(A, F, "base", g), Lives(A, F, "cell", h),
                    NEW n \in Int, NEW o \in Int,
                    Worth(r, F, "base", g, n), Worth(r, F, "cell", h, o)
             PROVE  n + o + Income(r, "base", g) + Income(r, "cell", h) <= 2 * Gold
    BY DEF Total
<1>3. PICK n1 \in Int, o1 \in Int :
         /\ Worth(q, E, "base", g, n1) /\ Worth(q, E, "cell", h, o1)
         /\ n + o + (IF m \in Gifts("base", g) \cup Gifts("cell", h) THEN 1 ELSE 0) <= n1 + o1
    BY DEF Balanced
<1>4. n1 + o1 + Income(q, "base", g) + Income(q, "cell", h) <= 2 * Gold
    BY <1>1, <1>3 DEF Total
<1>5. m \in Gifts("base", g) => m \notin Gifts("cell", h)
    BY DEF Gifts
<1>6. IsFiniteSet(Places(q, Calls))
    BY <1>1
<1>7. Income(q, "base", g) \in Nat /\ Income(q, "cell", h) \in Nat
    BY <1>1, GoldCounts
<1>8. /\ m \in Gifts("base", g) => Income(r, "base", g) = Income(q, "base", g) + 1
      /\ m \notin Gifts("base", g) => Income(r, "base", g) = Income(q, "base", g)
    BY <1>6, GrownIncome
<1>9. /\ m \in Gifts("cell", h) => Income(r, "cell", h) = Income(q, "cell", h) + 1
      /\ m \notin Gifts("cell", h) => Income(r, "cell", h) = Income(q, "cell", h)
    BY <1>6, GrownIncome
<1> QED BY <1>2, <1>3, <1>4, <1>5, <1>7, <1>8, <1>9, SMTT(30)

-----------------------------------------------------------------------------
(* What the gold is does not depend on anything else in the halves. *)
LEMMA GoldEnts ==
    ASSUME NEW q \in [Lanes -> Seq(Rpcs)], NEW A, NEW E, NEW F, GoldAt(q, A, E),
           \A s \in Halves, h \in Games : Lives(A, F, s, h) =>
              Lives(A, E, s, h) /\ F[s][h].gold = E[s][h].gold
    PROVE  GoldAt(q, A, F)
<1>1. \A s \in Halves, h \in Games : Lives(A, F, s, h) =>
         Lives(A, E, s, h) /\ \A n : Worth(q, F, s, h, n) <=> Worth(q, E, s, h, n)
    BY SameWorth
<1>2. "base" \in Halves /\ "cell" \in Halves
    BY HalfFacts
<1>3. Total(q, A, F)
    BY <1>1, <1>2 DEF GoldAt, Total
<1>4. Cuts(q, A, F)
    BY <1>1, <1>2 DEF GoldAt, Cuts
<1>5. WordFirst(q, A, F)
    BY <1>1, <1>2 DEF GoldAt, WordFirst
<1> QED BY <1>3, <1>4, <1>5 DEF GoldAt

(* A letter is sent that is not for a half that lives. *)
LEMMA GoldOther ==
    ASSUME NEW q \in [Lanes -> Seq(Rpcs)], NEW r \in [Lanes -> Seq(Rpcs)],
           NEW w \in Lanes, w[1] = "up", NEW m \in Rpcs, NEW z, Grows(q, r, w, m, z),
           NEW A, NEW E, GoldAt(q, A, E),
           \A s \in Halves, h \in Games : Lives(A, E, s, h) =>
              /\ m \notin Gifts(s, h) /\ m \notin Word(s, h)
              /\ s = "cell" => m \notin Backs(h)
    PROVE  GoldAt(r, A, E)
<1>1. "base" \in Halves /\ "cell" \in Halves
    BY HalfFacts
<1>2. \A l : On(r, l) <=> On(q, l) \/ l = m
    BY GrownOn
<1>3. ASSUME NEW s \in Halves, NEW h \in Games, Lives(A, E, s, h)
      PROVE  \A n : Worth(r, E, s, h, n) <=> Worth(q, E, s, h, n)
  <2>1. \A l \in Word(s, h) : On(r, l) <=> On(q, l)
      BY <1>2, <1>3
  <2> QED BY <2>1, SameWorth
<1>4. IsFiniteSet(Places(q, Calls))
    BY DEF GoldAt
<1>5. IsFiniteSet(Places(r, Calls))
    BY <1>4, GrownCounts
<1>6. Cuts(r, A, E) /\ WordFirst(r, A, E)
  <2>1. \A h \in Games : Lives(A, E, "cell", h) =>
           /\ m \notin Word("cell", h) /\ m \notin Backs(h)
           /\ \A n \in Int : Worth(r, E, "cell", h, n) =>
                 \E o \in Int : n <= o /\ Worth(q, E, "cell", h, o)
      BY <1>1, <1>3
  <2> QED BY <2>1, GrownCuts
<1>7. Total(r, A, E)
  <2>1. ASSUME NEW g \in Games, NEW h \in Games, Lives(A, E, "base", g), Lives(A, E, "cell", h)
        PROVE  Balanced(q, E, r, E, m, g, h)
    <3>1. m \notin Gifts("base", g) \cup Gifts("cell", h)
        BY <2>1, <1>1
    <3>2. ASSUME NEW n \in Int, NEW o \in Int,
                 Worth(r, E, "base", g, n), Worth(r, E, "cell", h, o)
          PROVE  /\ Worth(q, E, "base", g, n) /\ Worth(q, E, "cell", h, o)
                 /\ n + o + 0 <= n + o
        BY <3>2, <2>1, <1>1, <1>3
    <3> QED BY <3>1, <3>2 DEF Balanced
  <2> QED BY <2>1, GrownTotal
<1> QED BY <1>5, <1>6, <1>7 DEF GoldAt

(* The base sends a backup, of the gold that it has. *)
LEMMA GoldBack ==
    ASSUME NEW q \in [Lanes -> Seq(Rpcs)], NEW r \in [Lanes -> Seq(Rpcs)],
           NEW w \in Lanes, w[1] = "up", NEW m \in Rpcs, NEW z, Grows(q, r, w, m, z),
           NEW A, NEW E, EntsSound(A, E), GoldAt(q, A, E),
           NEW g \in Games, Lives(A, E, "base", g), m.kind = "backup", m.half = "cell",
           Lives(A, E, "cell", m.addr) =>
              /\ Worth(q, E, "base", g, m.bk.gold)
              /\ \A a \in Places(q, Word("cell", m.addr)) : a[1] = w \/ a[1][1] = "down"
    PROVE  GoldAt(r, A, E)
<1>1. /\ "base" \in Halves /\ "cell" \in Halves
      /\ \A s, h : m \notin Gifts(s, h) /\ m \notin Word(s, h)
      /\ \A h : m \in Backs(h) => h = m.addr
      /\ m.bk.gold \in Int /\ Gold \in Nat
    BY HalfFacts, PlacesAssumption DEF Gifts, Words, Word, Backs, Rpcs, Backups
<1>2. \A l : On(r, l) <=> On(q, l) \/ l = m
    BY GrownOn
<1>3. ASSUME NEW s, NEW h
      PROVE  \A n : Worth(r, E, s, h, n) <=> Worth(q, E, s, h, n)
  <2>1. \A l \in Word(s, h) : On(r, l) <=> On(q, l)
      BY <1>1, <1>2
  <2> QED BY <2>1, SameWorth
<1>4. IsFiniteSet(Places(q, Calls)) /\ Total(q, A, E)
    BY DEF GoldAt
<1>5. IsFiniteSet(Places(r, Calls)) /\ \A s, h : Income(q, s, h) \in Nat
    BY <1>4, GrownCounts, GoldCounts
<1>6. Cuts(r, A, E) /\ WordFirst(r, A, E)
  <2>1. ASSUME NEW h \in Games, Lives(A, E, "cell", h)
        PROVE  /\ m \notin Word("cell", h)
               /\ \A n \in Int : Worth(r, E, "cell", h, n) =>
                     \E o \in Int : n <= o /\ Worth(q, E, "cell", h, o)
               /\ m \in Backs(h) =>
                     /\ \A a \in Places(q, Word("cell", h)) : a[1] = w \/ a[1][1] = "down"
                     /\ \A n \in Int : Worth(r, E, "cell", h, n) =>
                           m.bk.gold + n + Income(q, "cell", h) <= 2 * Gold
    <3>1. \A n \in Int : Worth(r, E, "cell", h, n) =>
             \E o \in Int : n <= o /\ Worth(q, E, "cell", h, o)
        BY <1>3
    <3>2. ASSUME m \in Backs(h)
          PROVE  /\ Worth(q, E, "base", g, m.bk.gold)
                 /\ \A a \in Places(q, Word("cell", h)) : a[1] = w \/ a[1][1] = "down"
        BY <3>2, <2>1, <1>1
    <3>3. ASSUME m \in Backs(h), NEW n \in Int, Worth(r, E, "cell", h, n)
          PROVE  m.bk.gold + n + Income(q, "cell", h) <= 2 * Gold
      <4>1. Worth(q, E, "base", g, m.bk.gold) /\ Worth(q, E, "cell", h, n)
          BY <3>2, <3>3, <1>3
      <4>2. m.bk.gold + n + Income(q, "base", g) + Income(q, "cell", h) <= 2 * Gold
          BY <4>1, <2>1, <1>1, <1>4 DEF Total
      <4>3. Income(q, "base", g) \in Nat /\ Income(q, "cell", h) \in Nat
          BY <1>5
      <4> QED BY SMTT(30), <4>2, <4>3, <1>1
    <3> QED BY <3>1, <3>2, <3>3, <1>1
  <2> QED BY <2>1, GrownCuts
<1>7. Total(r, A, E)
  <2>1. ASSUME NEW x \in Games, NEW h \in Games, Lives(A, E, "base", x), Lives(A, E, "cell", h)
        PROVE  Balanced(q, E, r, E, m, x, h)
    <3>1. m \notin Gifts("base", x) \cup Gifts("cell", h)
        BY <1>1
    <3>2. ASSUME NEW n \in Int, NEW o \in Int,
                 Worth(r, E, "base", x, n), Worth(r, E, "cell", h, o)
          PROVE  /\ Worth(q, E, "base", x, n) /\ Worth(q, E, "cell", h, o)
                 /\ n + o + 0 <= n + o
        BY <3>2, <1>3
    <3> QED BY <3>1, <3>2 DEF Balanced
  <2> QED BY <2>1, GrownTotal
<1> QED BY <1>5, <1>6, <1>7 DEF GoldAt

-----------------------------------------------------------------------------
(* Only half s in game g changes its gold. *)
OthersKeep(A, E, F, s, g) ==
    \A t \in Halves, h \in Games : Lives(A, F, t, h) =>
       /\ Lives(A, E, t, h)
       /\ ~(t = s /\ h = g) => F[t][h].gold = E[t][h].gold

(* A half takes a piece of its gold and gives it. *)
LEMMA GoldGive ==
    ASSUME NEW q \in [Lanes -> Seq(Rpcs)], NEW r \in [Lanes -> Seq(Rpcs)],
           NEW w \in Lanes, w[1] = "up", NEW m \in Rpcs, NEW z, Grows(q, r, w, m, z),
           NEW A, NEW E, NEW F, EntsSound(A, E), GoldAt(q, A, E),
           NEW s \in Halves, NEW g \in Games, Lives(A, E, s, g),
           m.kind = "gift", m.half = Other(s), m.addr \in A => Free(q, Word(s, g)),
           F[s][g].gold = E[s][g].gold - 1,
           OthersKeep(A, E, F, s, g)
    PROVE  GoldAt(r, A, F)
<1> USE DEF OthersKeep
<1>1. /\ "base" \in Halves /\ "cell" \in Halves
      /\ \A t, h : m \notin Word(t, h)
      /\ \A h : m \notin Backs(h)
      /\ \A t, h : m \in Gifts(t, h) => t = Other(s) /\ h = m.addr
    BY HalfFacts DEF Gifts, Words, Word, Backs
<1>2. \A l : On(r, l) <=> On(q, l) \/ l = m
    BY GrownOn
<1>3. \A t, h : /\ \A l \in Word(t, h) : On(r, l) <=> On(q, l)
                /\ Free(r, Word(t, h)) <=> Free(q, Word(t, h))
  <2> SUFFICES ASSUME NEW t, NEW h
               PROVE  /\ \A l \in Word(t, h) : On(r, l) <=> On(q, l)
                      /\ Free(r, Word(t, h)) <=> Free(q, Word(t, h))
      OBVIOUS
  <2>1. \A l \in Word(t, h) : On(r, l) <=> On(q, l)
      BY <1>1, <1>2
  <2> QED BY <2>1, FreeOn
<1>4. ASSUME NEW t \in Halves, NEW h \in Games, Lives(A, F, t, h), ~(t = s /\ h = g)
      PROVE  \A n : Worth(r, F, t, h, n) <=> Worth(q, E, t, h, n)
  <2>1. F[t][h].gold = E[t][h].gold
      BY <1>4
  <2> QED BY <2>1, <1>3, SameWorth
<1>5. E[s][g].gold \in Int
  <2>1. E[s][g] \in Entities
      BY DEF EntsSound
  <2>2. \A e \in Entities : e.gold \in Int
      BY DEF Entities
  <2> QED BY <2>1, <2>2
<1>6. ASSUME NEW n \in Int, Worth(r, F, s, g, n)
      PROVE  /\ Worth(q, E, s, g, n) \/ Worth(q, E, s, g, n + 1)
             /\ m.addr \in A => Worth(q, E, s, g, n + 1)
  <2>1. CASE Free(q, Word(s, g))
    <3>1. n = E[s][g].gold - 1
        BY <2>1, <1>3, <1>6 DEF Worth
    <3>2. \A l \in Word(s, g) : ~On(q, l)
        BY <2>1, OnFacts
    <3>3. n + 1 = E[s][g].gold /\ n + 1 \in Int
        BY <3>1, <1>5
    <3>4. Worth(q, E, s, g, n + 1)
        BY <3>2, <3>3 DEF Worth
    <3> QED BY <3>4
  <2>2. CASE ~Free(q, Word(s, g))
    <3>1. \A l \in Word(s, g) : On(q, l) => n = 2 * Gold - l.bk.gold
        BY <1>3, <1>6 DEF Worth
    <3> QED BY <3>1, <2>2 DEF Worth
  <2> QED BY <2>1, <2>2
<1>7. ASSUME NEW t \in Halves, NEW h \in Games, Lives(A, F, t, h), NEW n \in Int, Worth(r, F, t, h, n)
      PROVE  /\ Lives(A, E, t, h)
             /\ \E o \in Int : n <= o /\ Worth(q, E, t, h, o)
             /\ t = s /\ m.addr \in A => Worth(q, E, t, h, n + 1)
  <2>0. Lives(A, E, t, h)
      BY <1>7
  <2>1. CASE t = s /\ h = g
    <3>1. (Worth(q, E, t, h, n) \/ Worth(q, E, t, h, n + 1)) /\ (m.addr \in A => Worth(q, E, t, h, n + 1))
        BY <2>1, <1>6, <1>7
    <3>2. n <= n /\ n <= n + 1 /\ n + 1 \in Int
        OBVIOUS
    <3> QED BY <2>0, <3>1, <3>2
  <2>2. CASE ~(t = s /\ h = g)
    <3>1. Worth(q, E, t, h, n)
        BY <2>2, <1>4, <1>7
    <3>2. n <= n
        OBVIOUS
    <3>3. t # s
        BY <2>0, <2>2 DEF EntsSound
    <3> QED BY <2>0, <3>1, <3>2, <3>3
  <2> QED BY <2>1, <2>2
<1>8. IsFiniteSet(Places(q, Calls))
    BY DEF GoldAt
<1>9. IsFiniteSet(Places(r, Calls))
    BY <1>8, GrownCounts
<1>10. Cuts(r, A, F) /\ WordFirst(r, A, F)
  <2>1. \A h \in Games : Lives(A, F, "cell", h) =>
           /\ Lives(A, E, "cell", h) /\ m \notin Word("cell", h) /\ m \notin Backs(h)
           /\ \A n \in Int : Worth(r, F, "cell", h, n) =>
                 \E o \in Int : n <= o /\ Worth(q, E, "cell", h, o)
      BY <1>1, <1>7
  <2> QED BY <2>1, GrownCuts
<1>11. Total(r, A, F)
  <2>1. ASSUME NEW x \in Games, NEW h \in Games, Lives(A, F, "base", x), Lives(A, F, "cell", h)
        PROVE  Balanced(q, E, r, F, m, x, h)
    <3>1. m \in Gifts("base", x) \cup Gifts("cell", h) => m.addr \in A
        BY <2>1, <1>1 DEF Lives
    <3>2. ASSUME NEW n \in Int, NEW o \in Int,
                 Worth(r, F, "base", x, n), Worth(r, F, "cell", h, o)
          PROVE  \E n1, o1 \in Int :
                    /\ Worth(q, E, "base", x, n1) /\ Worth(q, E, "cell", h, o1)
                    /\ n + o + (IF m \in Gifts("base", x) \cup Gifts("cell", h) THEN 1 ELSE 0) <= n1 + o1
      <4>1. PICK n1 \in Int : n <= n1 /\ Worth(q, E, "base", x, n1)
          BY <3>2, <2>1, <1>1, <1>7
      <4>2. PICK o1 \in Int : o <= o1 /\ Worth(q, E, "cell", h, o1)
          BY <3>2, <2>1, <1>1, <1>7
      <4>3. CASE m \notin Gifts("base", x) \cup Gifts("cell", h)
          BY <4>1, <4>2, <4>3
      <4>4. CASE m \in Gifts("base", x) \cup Gifts("cell", h) /\ s = "base"
        <5>1. Worth(q, E, "base", x, n + 1)
            BY <4>4, <3>1, <3>2, <2>1, <1>1, <1>7
        <5>2. n + o + 1 <= (n + 1) + o1
            BY <4>2
        <5> QED BY <5>1, <5>2, <4>2, <4>4
      <4>5. CASE m \in Gifts("base", x) \cup Gifts("cell", h) /\ s = "cell"
        <5>1. Worth(q, E, "cell", h, o + 1)
            BY <4>5, <3>1, <3>2, <2>1, <1>1, <1>7
        <5>2. n + o + 1 <= n1 + (o + 1)
            BY <4>1
        <5> QED BY <5>1, <5>2, <4>1, <4>5
      <4> QED BY <4>3, <4>4, <4>5 DEF Halves
    <3> QED BY <3>2 DEF Balanced
  <2>2. \A x, h \in Games : Lives(A, F, "base", x) /\ Lives(A, F, "cell", h) =>
           /\ Lives(A, E, "base", x) /\ Lives(A, E, "cell", h)
           /\ Balanced(q, E, r, F, m, x, h)
      BY <2>1, <1>1
  <2> QED BY <2>2, GrownTotal
<1> QED BY <1>9, <1>10, <1>11 DEF GoldAt

-----------------------------------------------------------------------------
LEMMA InjectedLess ==
    ASSUME NEW p, NEW D, NEW T, NEW c, NEW S \in SUBSET D, IsFiniteSet(T), c \in T,
           \A a \in S : p[a] \in T /\ p[a] # c, \A a, b \in D : p[a] = p[b] => a = b
    PROVE  Cardinality(S) + 1 <= Cardinality(T)
<1> DEFINE U == T \ {c}
           f == [a \in S |-> p[a]]
<1>1. IsFiniteSet(U) /\ Cardinality(U) = Cardinality(T) - 1 /\ Cardinality(T) \in Nat
    BY FS_RemoveElement, FS_CardinalityType
<1>2. \A a \in S : p[a] \in U
    OBVIOUS
<1> HIDE DEF U
<1>3. f \in Injection(S, U)
    BY <1>2 DEF Injection, IsInjective
<1> HIDE DEF f
<1>4. IsFiniteSet(S) /\ Cardinality(S) <= Cardinality(U)
    BY <1>1, <1>3, FS_Injection
<1>5. Cardinality(S) \in Nat /\ Cardinality(U) \in Nat
    BY <1>1, <1>4, FS_CardinalityType
<1> QED BY <1>1, <1>4, <1>5

(* One letter of K, at place c, is gone. *)
LEMMA FollowsLess ==
    ASSUME NEW q \in [Lanes -> Seq(Rpcs)], NEW r \in [Lanes -> Seq(Rpcs)], NEW X, NEW p, NEW c,
           Follows(q, r, X, p), \A a \in Places(r, X) : p[a] # c,
           NEW K \in SUBSET X, c \in Places(q, K), IsFiniteSet(Places(q, K))
    PROVE  /\ Cardinality(Places(r, K)) + 1 <= Cardinality(Places(q, K))
           /\ InStep(q, r, X, p) => \A b \in Places(r, X) : c \in Before(q, K, p[b]) =>
                 Cardinality(Before(r, K, b)) + 1 <= Cardinality(Before(q, K, p[b]))
<1>1. Places(r, K) \subseteq Places(r, X)
    BY PlaceFacts
<1>2. \A a \in Places(r, K) : p[a] \in Places(q, K)
  <2>1. Follows(q, r, K, p)
      BY FollowsPart
  <2> QED BY <2>1 DEF Follows
<1>3. \A a, b \in Places(r, X) : p[a] = p[b] => a = b
    BY DEF Follows
<1>4. \A a \in Places(r, K) : p[a] # c
    BY <1>1
<1>5. Cardinality(Places(r, K)) + 1 <= Cardinality(Places(q, K))
    BY <1>1, <1>2, <1>3, <1>4, InjectedLess
<1>6. ASSUME InStep(q, r, X, p), NEW b \in Places(r, X), c \in Before(q, K, p[b])
      PROVE  Cardinality(Before(r, K, b)) + 1 <= Cardinality(Before(q, K, p[b]))
  <2>1. Before(r, K, b) \in SUBSET Places(r, X)
      BY <1>1 DEF Before
  <2>2. \A a \in Before(r, K, b) : p[a] \in Before(q, K, p[b]) /\ p[a] # c
      BY <1>1, <1>2, <1>4, <1>6 DEF Before, InStep
  <2>3. IsFiniteSet(Before(q, K, p[b]))
      BY FS_Subset DEF Before
  <2> QED BY <2>1, <2>2, <2>3, <1>3, <1>6, InjectedLess
<1> QED BY <1>5, <1>6

-----------------------------------------------------------------------------
(* A half executes a gift. *)
LEMMA GoldExec ==
    ASSUME NEW q \in [Lanes -> Seq(Rpcs)], NEW r \in [Lanes -> Seq(Rpcs)],
           NEW w \in Lanes, w[1] = "down", q[w] # <<>>, r = Taken(q, w),
           NEW A, NEW E, NEW F, EntsSound(A, E), GoldAt(q, A, E), PathAt(q, A, E),
           NEW s \in Halves, NEW g \in Games, Lives(A, E, s, g), Head(q[w]) \in Gifts(s, g),
           F[s][g].gold = E[s][g].gold + 1,
           OthersKeep(A, E, F, s, g)
    PROVE  GoldAt(r, A, F)
<1> USE DEF OthersKeep
<1>0. /\ "base" \in Halves /\ "cell" \in Halves /\ "base" # "cell"
      /\ \A t \in Halves : t = "base" \/ t = "cell"
      /\ Gold \in Nat
    BY PlacesAssumption DEF Halves
<1>1. PICK m, c : m = Head(q[w]) /\ c = <<w, 1>>
    OBVIOUS
<1>2. /\ m \in Gifts(s, g) /\ m.kind = "gift" /\ \A t, h : m \notin Word(t, h)
    BY <1>1 DEF Gifts, Words, Word
<1>3. c \in Places(q, Gifts(s, g)) /\ c[1] = w /\ c[2] = 1
  <2>1. q[w] \in Seq(Rpcs)
      OBVIOUS
  <2>2. 1 \in 1 .. Len(q[w]) /\ q[w][1] = m
      BY <2>1, <1>1
  <2> QED BY <2>2, <1>1, <1>2, IsPlace
<1>4. /\ IsFiniteSet(Places(q, Calls)) /\ Total(q, A, E) /\ Cuts(q, A, E) /\ WordFirst(q, A, E)
    BY DEF GoldAt
<1>5. PICK p : /\ Follows(q, r, Calls, p) /\ InStep(q, r, Calls, p)
               /\ \A a \in Places(r, Calls) : p[a] # c
  <2>1. Trails(q, r, Calls, <<w, 1>>)
      BY FollowsTake
  <2> QED BY <2>1, <1>1 DEF Trails
<1>6. IsFiniteSet(Places(r, Calls))
    BY <1>4, <1>5, FollowsCount
<1>7. \A t, h : \A l \in Word(t, h) : On(r, l) <=> On(q, l)
  <2>1. /\ \A l : On(r, l) => On(q, l)
        /\ \A l : On(q, l) => On(r, l) \/ l = m
      BY <1>1, ShedsTake DEF On
  <2> QED BY <2>1, <1>2
<1>8. ASSUME NEW t \in Halves, NEW h \in Games, Lives(A, F, t, h), ~(t = s /\ h = g)
      PROVE  \A n : Worth(r, F, t, h, n) <=> Worth(q, E, t, h, n)
  <2>1. F[t][h].gold = E[t][h].gold
      BY <1>8
  <2> QED BY <2>1, <1>7, SameWorth
<1>9. ASSUME NEW n \in Int, Worth(r, F, s, g, n)
      PROVE  Worth(q, E, s, g, n) \/ Worth(q, E, s, g, n - 1)
  <2>0. E[s][g].gold \in Int
    <3>1. E[s][g] \in Entities
        BY DEF EntsSound
    <3>2. \A e \in Entities : e.gold \in Int
        BY DEF Entities
    <3> QED BY <3>1, <3>2
  <2>1. Free(r, Word(s, g)) <=> Free(q, Word(s, g))
      BY <1>7, FreeOn
  <2>2. CASE Free(q, Word(s, g))
    <3>1. n = E[s][g].gold + 1
        BY <2>1, <2>2, <1>9 DEF Worth
    <3>2. \A l \in Word(s, g) : ~On(q, l)
        BY <2>2, OnFacts
    <3>3. n - 1 = E[s][g].gold /\ n - 1 \in Int
        BY <3>1, <2>0
    <3>4. Worth(q, E, s, g, n - 1)
        BY <3>2, <3>3 DEF Worth
    <3> QED BY <3>4
  <2>3. CASE ~Free(q, Word(s, g))
    <3>1. \A l \in Word(s, g) : On(q, l) => n = 2 * Gold - l.bk.gold
        BY <1>7, <1>9 DEF Worth
    <3> QED BY <3>1, <2>3 DEF Worth
  <2> QED BY <2>2, <2>3
(* What is added to the worth of a half at most, and taken from the gifts. *)
<1> DEFINE add(t, h) == IF t = s /\ h = g THEN 1 ELSE 0
<1>10. ASSUME NEW t \in Halves, NEW h \in Games, Lives(A, F, t, h), NEW n \in Int, Worth(r, F, t, h, n)
       PROVE  Lives(A, E, t, h) /\ \E o \in Int : n <= o + add(t, h) /\ Worth(q, E, t, h, o)
  <2>1. CASE t = s /\ h = g
    <3>1. Worth(q, E, t, h, n) \/ Worth(q, E, t, h, n - 1)
        BY <2>1, <1>9, <1>10
    <3>2. n <= n + 1 /\ n <= (n - 1) + 1 /\ n - 1 \in Int
        OBVIOUS
    <3> QED BY <2>1, <3>1, <3>2, <1>10
  <2>2. CASE ~(t = s /\ h = g)
    <3>1. n <= n + 0
        OBVIOUS
    <3> QED BY <2>2, <3>1, <1>8, <1>10
  <2> QED BY <2>1, <2>2
<1>11. ASSUME NEW t, NEW h
       PROVE  /\ Income(r, t, h) \in Nat /\ Income(q, t, h) \in Nat
              /\ Income(r, t, h) + add(t, h) <= Income(q, t, h)
  <2> DEFINE K == Gifts(t, h)
  <2>1. K \in SUBSET Calls /\ (t = s /\ h = g => c \in Places(q, K))
      BY <1>3, GoldSets
  <2> HIDE DEF K
  <2>2. IsFiniteSet(Places(q, K)) /\ Cardinality(Places(q, K)) \in Nat
      BY <2>1, <1>4, Counting
  <2>3. Cardinality(Places(r, K)) \in Nat
      BY <2>1, <1>6, Counting
  <2>4. Cardinality(Places(r, K)) <= Cardinality(Places(q, K))
      BY <2>1, <2>2, <1>5, FollowsCount
  <2>5. t = s /\ h = g => Cardinality(Places(r, K)) + 1 <= Cardinality(Places(q, K))
      BY <2>1, <2>2, <1>5, FollowsLess
  <2>6. Cardinality(Places(r, K)) + add(t, h) <= Cardinality(Places(q, K))
      BY <2>2, <2>3, <2>4, <2>5
  <2> QED BY <2>2, <2>3, <2>6 DEF K, Income
<1>12. Total(r, A, F)
  <2> SUFFICES ASSUME NEW x \in Games, NEW h \in Games, Lives(A, F, "base", x), Lives(A, F, "cell", h),
                      NEW n \in Int, NEW o \in Int,
                      Worth(r, F, "base", x, n), Worth(r, F, "cell", h, o)
               PROVE  n + o + Income(r, "base", x) + Income(r, "cell", h) <= 2 * Gold
      BY DEF Total
  <2>1. PICK n1 \in Int : n <= n1 + add("base", x) /\ Worth(q, E, "base", x, n1)
      BY <1>0, <1>10
  <2>2. PICK o1 \in Int : o <= o1 + add("cell", h) /\ Worth(q, E, "cell", h, o1)
      BY <1>0, <1>10
  <2>3. n1 + o1 + Income(q, "base", x) + Income(q, "cell", h) <= 2 * Gold
      BY <2>1, <2>2, <1>0, <1>4, <1>10 DEF Total
  <2>4. /\ Income(r, "base", x) \in Nat /\ Income(q, "base", x) \in Nat
        /\ Income(r, "base", x) + add("base", x) <= Income(q, "base", x)
      BY <1>11
  <2>5. /\ Income(r, "cell", h) \in Nat /\ Income(q, "cell", h) \in Nat
        /\ Income(r, "cell", h) + add("cell", h) <= Income(q, "cell", h)
      BY <1>11
  <2>6. PICK u \in Int, v \in Int : u = add("base", x) /\ v = add("cell", h)
      OBVIOUS
  <2>7. n <= n1 + u /\ o <= o1 + v
      BY <2>1, <2>2, <2>6
  <2>8. /\ Income(r, "base", x) + u <= Income(q, "base", x)
        /\ Income(r, "cell", h) + v <= Income(q, "cell", h)
      BY <2>4, <2>5, <2>6
  <2> HIDE DEF add
  <2>9. PICK i \in Nat, j \in Nat, i1 \in Nat, j1 \in Nat :
            /\ i = Income(r, "base", x) /\ i1 = Income(q, "base", x)
            /\ j = Income(r, "cell", h) /\ j1 = Income(q, "cell", h)
      BY <2>4, <2>5
  <2>10. i + u <= i1 /\ j + v <= j1 /\ n1 + o1 + i1 + j1 <= 2 * Gold
      BY <2>3, <2>8, <2>9
  <2>11. n + o + i + j <= 2 * Gold
      BY <2>7, <2>10, PlacesAssumption
  <2> QED BY <2>9, <2>11
<1>13. ASSUME NEW h \in Games, Lives(A, F, "cell", h), NEW b \in Places(r, Backs(h))
       PROVE  /\ AheadOf(r, h, b) \in Nat /\ AheadOf(q, h, p[b]) \in Nat
              /\ AheadOf(r, h, b) + add("cell", h) <= AheadOf(q, h, p[b])
              /\ p[b] \in Places(q, Backs(h)) /\ Letter(q, p[b]) = Letter(r, b)
              /\ b \in Places(r, Calls)
  <2> DEFINE K == Gifts("cell", h)
  <2>1. K \in SUBSET Calls /\ ("cell" = s /\ h = g => c \in Places(q, K))
      BY <1>3, GoldSets
  <2>2. b \in Places(r, Calls)
    <3>1. Backs(h) \in SUBSET Calls
        BY GoldSets
    <3> QED BY <3>1, <1>13 DEF Places
  <2>3. p[b] \in Places(q, Backs(h)) /\ Letter(q, p[b]) = Letter(r, b)
    <3>1. Follows(q, r, Backs(h), p)
        BY <1>5, GoldSets, FollowsPart
    <3> QED BY <3>1, <1>13 DEF Follows
  <2>4. "cell" = s /\ h = g => Prior(c, p[b])
    <3> SUFFICES ASSUME "cell" = s, h = g PROVE Prior(c, p[b])
        OBVIOUS
    <3>1. /\ p[b][1] \in Lanes /\ p[b] = <<p[b][1], p[b][2]>>
          /\ p[b][2] \in Nat /\ p[b][2] \in 1 .. Len(q[p[b][1]])
        BY <2>3, PlaceIs
    <3>2. p[b] # c
        BY <2>2, <1>5
    <3>3. PICK x \in Games, k \in Gates : OnPath(q, Tie("cell", h), Up(x, k), Down(k, h))
        BY <1>0, <1>10 DEF PathAt, Way
    <3>5. Up(x, k)[1] = "up"
        BY DEF Up
    <3>6. c \in Places(q, Tie("cell", h)) /\ p[b] \in Places(q, Tie("cell", h))
      <4>1. Gifts("cell", h) \in SUBSET Tie("cell", h) /\ Backs(h) \in SUBSET Tie("cell", h)
          BY GoldSets
      <4> QED BY <4>1, <2>1, <2>3 DEF Places
    <3>7. c[1] = Down(k, h)
        BY <3>3, <3>5, <3>6, <1>3 DEF OnPath
    <3>8. p[b][1] = Up(x, k) \/ p[b][1] = Down(k, h)
        BY <3>3, <3>6 DEF OnPath
    <3>9. CASE p[b][1] = Up(x, k)
        BY <3>5, <3>9, <1>3 DEF Prior
    <3>10. CASE p[b][1] = Down(k, h)
      <4>1. p[b][1] = c[1]
          BY <3>7, <3>10
      <4>2. p[b][2] # 1
          BY <4>1, <3>1, <3>2, <1>1, <1>3
      <4>3. c[2] < p[b][2]
          BY <4>2, <3>1, <1>3
      <4> QED BY <4>1, <4>3 DEF Prior
    <3> QED BY <3>8, <3>9, <3>10
  <2> HIDE DEF K
  <2>5. /\ IsFiniteSet(Places(q, K))
        /\ Cardinality(Before(r, K, b)) \in Nat /\ Cardinality(Before(q, K, p[b])) \in Nat
      BY <2>1, <1>4, <1>6, Counting
  <2>6. Cardinality(Before(r, K, b)) <= Cardinality(Before(q, K, p[b]))
      BY <2>1, <2>2, <2>5, <1>5, FollowsCount
  <2>7. "cell" = s /\ h = g => Cardinality(Before(r, K, b)) + 1 <= Cardinality(Before(q, K, p[b]))
    <3> SUFFICES ASSUME "cell" = s, h = g
                 PROVE  Cardinality(Before(r, K, b)) + 1 <= Cardinality(Before(q, K, p[b]))
        OBVIOUS
    <3>1. c \in Before(q, K, p[b]) /\ c \in Places(q, K)
        BY <2>1, <2>4 DEF Before
    <3> QED BY <3>1, <2>1, <2>2, <2>5, <1>5, FollowsLess
  <2>8. Cardinality(Before(r, K, b)) + add("cell", h) <= Cardinality(Before(q, K, p[b]))
      BY <2>5, <2>6, <2>7
  <2> QED BY <2>2, <2>3, <2>5, <2>8 DEF K, AheadOf
<1>14. Cuts(r, A, F)
  <2> SUFFICES ASSUME NEW h \in Games, Lives(A, F, "cell", h), NEW b \in Places(r, Backs(h)),
                      NEW n \in Int, Worth(r, F, "cell", h, n)
               PROVE  Letter(r, b).bk.gold + n + AheadOf(r, h, b) <= 2 * Gold
      BY DEF Cuts
  <2>1. PICK o \in Int : n <= o + add("cell", h) /\ Worth(q, E, "cell", h, o)
      BY <1>0, <1>10
  <2>2. /\ AheadOf(r, h, b) \in Nat /\ AheadOf(q, h, p[b]) \in Nat
        /\ AheadOf(r, h, b) + add("cell", h) <= AheadOf(q, h, p[b])
        /\ p[b] \in Places(q, Backs(h)) /\ Letter(q, p[b]) = Letter(r, b)
      BY <1>13
  <2>3. Letter(q, p[b]).bk.gold + o + AheadOf(q, h, p[b]) <= 2 * Gold
      BY <2>1, <2>2, <1>0, <1>4, <1>10 DEF Cuts
  <2>4. Letter(r, b).bk.gold \in Nat
    <3>1. Letter(r, b) \in Rpcs
        BY PlaceIs
    <3> QED BY <3>1 DEF Rpcs, Backups
  <2>5. PICK u \in Int : u = add("cell", h)
      OBVIOUS
  <2>6. n <= o + u
      BY <2>1, <2>5
  <2>7. AheadOf(r, h, b) + u <= AheadOf(q, h, p[b])
      BY <2>2, <2>5
  <2>8. Letter(r, b).bk.gold + o + AheadOf(q, h, p[b]) <= 2 * Gold
      BY <2>2, <2>3
  <2>9. PICK l \in Int, i \in Int, j \in Int :
           l = Letter(r, b).bk.gold /\ i = AheadOf(r, h, b) /\ j = AheadOf(q, h, p[b])
      BY <2>2, <2>4
  <2>10. i + u <= j /\ l + o + j <= 2 * Gold
      BY <2>7, <2>8, <2>9
  <2>11. l + n + i <= 2 * Gold
      BY <2>6, <2>10, <1>0
  <2> QED BY <2>9, <2>11
<1>15. WordFirst(r, A, F)
  <2> SUFFICES ASSUME NEW h \in Games, Lives(A, F, "cell", h), NEW a \in Places(r, Word("cell", h)),
                      NEW b \in Places(r, Backs(h))
               PROVE  Prior(a, b)
      BY DEF WordFirst
  <2>1. p[b] \in Places(q, Backs(h)) /\ b \in Places(r, Calls)
      BY <1>13
  <2>2. p[a] \in Places(q, Word("cell", h)) /\ a \in Places(r, Calls)
    <3>1. Follows(q, r, Word("cell", h), p)
        BY <1>5, GoldSets, FollowsPart
    <3>2. Word("cell", h) \in SUBSET Calls
        BY GoldSets
    <3> QED BY <3>1, <3>2 DEF Follows, Places
  <2>3. Lives(A, E, "cell", h)
      BY <1>0
  <2>4. Prior(p[a], p[b])
      BY <2>1, <2>2, <2>3, <1>4 DEF WordFirst
  <2> QED BY <2>1, <2>2, <2>4, <1>5 DEF InStep
<1> QED BY <1>6, <1>12, <1>14, <1>15 DEF GoldAt

(* A half is rebuilt.  The other one will roll itself back to what the     *)
(* backup has left over.                                                   *)
LEMMA GoldBorn ==
    ASSUME NEW q \in [Lanes -> Seq(Rpcs)], NEW r \in [Lanes -> Seq(Rpcs)],
           NEW w \in Lanes, w[1] = "up", NEW m \in Rpcs, NEW z, Grows(q, r, w, m, z),
           IsFiniteSet(Places(q, Calls)), NEW A, NEW E, EntsSound(A, E),
           \A t \in Halves, h \in Games : Lives(A, E, t, h) => Free(q, Tie(t, h)),
           NEW s \in Halves, NEW g \in Games, Lives(A, E, s, g), NEW f,
           m \in Word(Other(s), f), E[s][g].gold = m.bk.gold,
           \A x \in Games : Lives(A, E, Other(s), x) => x = f
    PROVE  GoldAt(r, A, E)
<1>0. /\ "base" \in Halves /\ "cell" \in Halves /\ Gold \in Nat
      /\ (s = "base" /\ Other(s) = "cell") \/ (s = "cell" /\ Other(s) = "base")
    BY PlacesAssumption DEF Halves, Other
<1>1. /\ \A t, h : m \notin Gifts(t, h) /\ (m \in Word(t, h) => t = Other(s))
      /\ \A h : m \notin Backs(h)
      /\ m.bk.gold \in Nat
    BY DEF Gifts, Words, Word, Backs, Rpcs, Backups
<1>2. IsFiniteSet(Places(r, Calls))
    BY GrownCounts
<1>3. \A l : On(r, l) <=> On(q, l) \/ l = m
    BY GrownOn
<1>4. ASSUME NEW t \in Halves, NEW h \in Games, Lives(A, E, t, h), NEW l \in Tie(t, h), On(r, l)
      PROVE  l = m
    BY <1>3, <1>4, OnFacts
<1>5. ASSUME NEW t \in Halves, NEW h \in Games, Lives(A, E, t, h)
      PROVE  Income(r, t, h) = 0
  <2>1. \A l \in Gifts(t, h) : ~On(r, l)
      BY <1>1, <1>4, <1>5, GoldSets
  <2>2. Free(r, Gifts(t, h))
      BY <2>1, OnFacts
  <2>3. Places(r, Gifts(t, h)) = {}
      BY <2>2, AtPlace
  <2> QED BY <2>3, FS_EmptySet DEF Income
<1>6. ASSUME NEW h \in Games, Lives(A, E, "cell", h)
      PROVE  Places(r, Backs(h)) = {}
  <2>1. \A l \in Backs(h) : ~On(r, l)
      BY <1>0, <1>1, <1>4, <1>6, GoldSets
  <2>2. Free(r, Backs(h))
      BY <2>1, OnFacts
  <2> QED BY <2>2, AtPlace
<1>7. ASSUME NEW x \in Games, NEW y \in Games, Lives(A, E, s, x), Lives(A, E, Other(s), y),
             NEW n \in Int, NEW o \in Int, Worth(r, E, s, x, n), Worth(r, E, Other(s), y, o)
      PROVE  n + o = 2 * Gold
  <2>1. x = g /\ y = f
      BY <1>7 DEF EntsSound
  <2>2. \A l \in Word(s, x) : ~On(r, l)
    <3> SUFFICES ASSUME NEW l \in Word(s, x), On(r, l) PROVE FALSE
        OBVIOUS
    <3>1. l = m
        BY <1>4, <1>7, GoldSets
    <3> QED BY <3>1, <1>0, <1>1
  <2>3. n = m.bk.gold
    <3>1. Free(r, Word(s, x))
        BY <2>2, OnFacts
    <3> QED BY <3>1, <2>1, <1>7 DEF Worth
  <2>4. o = 2 * Gold - m.bk.gold
      BY <2>1, <1>3, <1>7 DEF Worth
  <2> QED BY <2>3, <2>4, <1>0, <1>1
<1>8. Total(r, A, E)
  <2> SUFFICES ASSUME NEW x \in Games, NEW y \in Games, Lives(A, E, "base", x), Lives(A, E, "cell", y),
                      NEW n \in Int, NEW o \in Int,
                      Worth(r, E, "base", x, n), Worth(r, E, "cell", y, o)
               PROVE  n + o + Income(r, "base", x) + Income(r, "cell", y) <= 2 * Gold
      BY DEF Total
  <2>1. n + o = 2 * Gold
    <3>1. CASE s = "base"
        BY <3>1, <1>0, <1>7
    <3>2. CASE s = "cell"
      <4>1. o + n = 2 * Gold
          BY <3>2, <1>0, <1>7
      <4> QED BY <4>1
    <3> QED BY <3>1, <3>2, <1>0
  <2>2. Income(r, "base", x) = 0 /\ Income(r, "cell", y) = 0
      BY <1>0, <1>5
  <2> QED BY <2>1, <2>2, <1>0
<1> QED BY <1>2, <1>6, <1>8 DEF GoldAt, Cuts, WordFirst

-----------------------------------------------------------------------------
(* All of it, for queues q, games A, halves E and n rounds. *)
Accounts(q, A, E, n) ==
    AddrAt(q, A, E) /\ PathAt(q, A, E) /\ BackAt(q, A, E, n) /\ GoldAt(q, A, E)

SoundInv == Sound(Mail, alive, ents)
AccountsInv == Accounts(Mail, alive, ents, rounds)

(* Of the games and halves, half s in game g becomes e. *)
Becomes(E, F, s, g, e) ==
    /\ F[s][g] = e
    /\ \A t \in Halves, h \in Games : ~(t = s /\ h = g) => F[t][h] = E[t][h]

LEMMA BecomesIs ==
    ASSUME EntsOK, NEW s \in Halves, NEW g \in Games, NEW e,
           ents' = [ents EXCEPT ![s][g] = e]
    PROVE  Becomes(ents, ents', s, g, e)
<1>1. ents \in [Halves -> [Games -> Entities \cup {None}]]
    BY DEF EntsOK
<1> QED BY <1>1 DEF Becomes

LEMMA SoundNow ==
    ASSUME TypeInv, Inv, ~unheld
    PROVE  Sound(Mail, alive, ents)
<1>0. EntsOK /\ Plain /\ OneHalf /\ OrderInv /\ LinkInv /\ WordInv /\ SettledInv /\ ReportInv
      /\ Placed(Mail)
    BY TypeSplit DEF Inv, CoreInv
<1>1. \A s, g : Lives(alive, ents, s, g) <=> Has(s, g)
    BY DEF Lives, Has
<1>2. EntsSound(alive, ents)
  <2>1. alive \subseteq Games
      BY <1>0 DEF Plain
  <2>2. ASSUME NEW s \in Halves, NEW g \in Games, Has(s, g)
        PROVE  /\ ents[s][g] \in Entities
               /\ \A h \in Games : Has(s, h) => g = h
      BY <1>0, <2>2, EntityFacts DEF OneHalf
  <2> QED BY <2>1, <2>2, <1>1 DEF EntsSound
<1>3. OrdersSound(Mail, alive, ents)
  <2>1. ASSUME NEW s \in Halves, NEW g \in Games, Has(s, g)
        PROVE  /\ Free(Mail, Ord(s)) /\ Free(Mail, Strange(Other(s), g))
               /\ ents[s][g].addr \in alive => Free(Mail, Ords) /\ Free(Mail, Word(s, g))
    <3>1. Free(Mail, Ord(s))
        BY <1>0, <2>1 DEF OrderInv
    <3>2. Free(Mail, Strange(Other(s), g))
        BY <1>0, <2>1, HalfFacts DEF OrderInv
    <3>3. ASSUME ents[s][g].addr \in alive PROVE ~Settled(g, Addr(s, g))
      <4>1. Addr(s, g) \in alive /\ Addr(s, g) \in Games
          BY <1>0, <2>1, <3>3, EntityFacts DEF Addr
      <4>2. ~Marked(g, Addr(s, g))
          BY <4>1, <1>0 DEF ReportInv
      <4> QED BY <4>2 DEF Settled, Marked
    <3>4. ASSUME ents[s][g].addr \in alive PROVE Free(Mail, Ord(Other(s))) /\ Free(Mail, Word(s, g))
        BY <1>0, <2>1, <3>3, <3>4 DEF SettledInv
    <3>5. ASSUME ents[s][g].addr \in alive PROVE Free(Mail, Ords)
      <4>1. \A t \in Halves : Free(Mail, Ord(t))
          BY <3>1, <3>4, <3>5, HalfFacts
      <4> QED BY <4>1, FreeParts
    <3> QED BY <3>1, <3>2, <3>4, <3>5
  <2>2. Single(Mail, Ords)
      BY <1>0 DEF OrderInv
  <2> QED BY <2>1, <2>2, <1>1 DEF OrdersSound
<1>4. LinksSound(Mail, alive, ents)
  <2>1. ASSUME NEW s \in Halves, NEW g \in Games, NEW h \in Games, Has(s, g), Has(Other(s), h),
               ents[s][g].addr # h
        PROVE  ~Free(Mail, WordFrom(s, g, h))
    <3>1. Addr(s, g) # h
        BY <2>1 DEF Addr
    <3> QED BY <3>1, <2>1, <1>0 DEF LinkInv
  <2> QED BY <2>1, <1>1 DEF LinksSound
<1>5. WordsSound(Mail, alive, ents)
  <2>1. ASSUME NEW s \in Halves, NEW g \in alive, ~Free(Mail, Word(s, g))
        PROVE  /\ Free(Mail, Ords) /\ Single(Mail, Word(s, g))
               /\ \A x \in Games : Has(Other(s), x) => Free(Mail, Foreign(s, g, x))
      BY <1>0, <2>1 DEF WordInv
  <2> QED BY <2>1, <1>1 DEF WordsSound
<1> QED BY <1>0, <1>2, <1>3, <1>4, <1>5 DEF Sound

LEMMA SoundAlways == TypeInv /\ Inv /\ ~unheld => SoundInv
BY SoundNow DEF SoundInv

LEMMA SoundNext ==
    ASSUME TypeInv', Inv', ~unheld'
    PROVE  Sound(Mail', alive', ents')
<1>1. SoundInv'
    BY SoundAlways, PTL
<1> QED BY <1>1 DEF SoundInv

-----------------------------------------------------------------------------
(* Which backups there are after half s has changed and letters M have     *)
(* been sent.                                                              *)
Adds(q, r, M) == \A l : On(r, l) => On(q, l) \/ l \in M

LEMMA HeldChange ==
    ASSUME NEW q, NEW r, NEW A, NEW E, NEW F, NEW s \in Halves, NEW g \in Games, NEW e,
           Becomes(E, F, s, g, e), NEW M, Adds(q, r, M)
    PROVE  \A t \in Halves : \A b : Held(r, A, F, t, b) =>
              \/ Held(q, A, E, t, b)
              \/ /\ b \in Backups /\ b.round # 0
                 /\ \/ t = s /\ b = e.self
                    \/ t = Other(s) /\ b = e.other
                    \/ \E m \in M : m.kind \in Backed /\ Of(m) = t /\ b = m.bk
<1> SUFFICES ASSUME NEW t \in Halves, NEW b, Held(r, A, F, t, b)
             PROVE  \/ Held(q, A, E, t, b)
                    \/ /\ b \in Backups /\ b.round # 0
                       /\ \/ t = s /\ b = e.self
                          \/ t = Other(s) /\ b = e.other
                          \/ \E m \in M : m.kind \in Backed /\ Of(m) = t /\ b = m.bk
    OBVIOUS
<1>1. b \in Backups /\ b.round # 0
    BY DEF Held
<1>2. CASE \E h \in Games : Lives(A, F, t, h) /\ b = F[t][h].self
  <2>1. PICK h \in Games : Lives(A, F, t, h) /\ b = F[t][h].self
      BY <1>2
  <2>2. CASE t = s /\ h = g
      BY <1>1, <2>1, <2>2 DEF Becomes
  <2>3. CASE ~(t = s /\ h = g)
    <3>1. F[t][h] = E[t][h]
        BY <2>3 DEF Becomes
    <3> QED BY <3>1, <1>1, <2>1 DEF Held, Lives
  <2> QED BY <2>2, <2>3
<1>3. CASE \E h \in Games : Lives(A, F, Other(t), h) /\ b = F[Other(t)][h].other
  <2>1. PICK h \in Games : Lives(A, F, Other(t), h) /\ b = F[Other(t)][h].other
      BY <1>3
  <2>2. CASE Other(t) = s /\ h = g
      BY <1>1, <2>1, <2>2, HalfFacts DEF Becomes
  <2>3. CASE ~(Other(t) = s /\ h = g)
    <3>1. F[Other(t)][h] = E[Other(t)][h]
        BY <2>3, HalfFacts DEF Becomes
    <3> QED BY <3>1, <1>1, <2>1 DEF Held, Lives
  <2> QED BY <2>2, <2>3
<1>4. CASE \E m \in Rpcs : On(r, m) /\ m.kind \in Backed /\ Of(m) = t /\ b = m.bk
  <2>1. PICK m \in Rpcs : On(r, m) /\ m.kind \in Backed /\ Of(m) = t /\ b = m.bk
      BY <1>4
  <2>2. CASE On(q, m)
      BY <1>1, <2>1, <2>2 DEF Held
  <2>3. CASE m \in M
      BY <1>1, <2>1, <2>3
  <2> QED BY <2>1, <2>2, <2>3 DEF Adds
<1> QED BY <1>2, <1>3, <1>4 DEF Held

-----------------------------------------------------------------------------
(* Letters and halves may be lost, and the other half's backup replaced by *)
(* one that is there.                                                      *)
LEMMA AccountsLess ==
    ASSUME NEW q \in [Lanes -> Seq(Rpcs)], NEW r, NEW A, NEW B, NEW E, NEW F, NEW n \in Nat,
           Accounts(q, A, E, n), Fewer(A, E, B, F), Sheds(q, r),
           \A s \in Halves, h \in Games : Lives(B, F, s, h) =>
              /\ F[s][h].gold = E[s][h].gold /\ F[s][h].self = E[s][h].self
              /\ F[s][h].other = E[s][h].other \/ Held(q, A, E, Other(s), F[s][h].other),
           \A s \in Halves, h \in Games : Lives(B, F, s, h) =>
              \A m \in Word(s, h) : On(q, m) =>
                 On(r, m) \/ (m.from \notin B /\ Alone(r, B, F, s, h))
    PROVE  Accounts(r, B, F, n)
<1>0. AddrAt(q, A, E) /\ PathAt(q, A, E) /\ BackAt(q, A, E, n) /\ GoldAt(q, A, E)
    BY DEF Accounts
<1>1. /\ r \in [Lanes -> Seq(Rpcs)]
      /\ \A w \in Lanes : \A m \in Calls : At(r, w, m) => At(q, w, m)
      /\ \A m \in Calls : On(r, m) => On(q, m)
    BY DEF Sheds, On
<1>2. AddrAt(r, B, F)
  <2>1. ASSUME NEW s \in Halves, NEW z \in Games, NEW f \in B, Lives(B, F, s, z),
               ~Free(q, WordFrom(s, z, f))
        PROVE  ~Free(r, WordFrom(s, z, f))
    <3>1. PICK m \in WordFrom(s, z, f) : On(q, m)
        BY <2>1, OnFacts
    <3>2. m \in Word(s, z) /\ m.from = f
        BY <3>1 DEF WordFrom
    <3>3. On(r, m)
        BY <3>1, <3>2, <2>1
    <3> QED BY <3>1, <3>3, <1>1, OnFacts
  <2> QED BY <2>1, <1>0, <1>1, AddrLess
<1>3. PathAt(r, B, F)
  <2>1. SameGates(A, E, B, F)
      BY DEF Fewer, SameGates
  <2> QED BY <2>1, <1>0, <1>1, PathLess
<1>4. BackAt(r, B, F, n)
  <2>1. ASSUME NEW s \in Halves, NEW b, Held(r, B, F, s, b) PROVE Held(q, A, E, s, b)
    <3>1. b \in Backups /\ b.round # 0
        BY <2>1 DEF Held
    <3>2. CASE \E g \in Games : Lives(B, F, s, g) /\ b = F[s][g].self
        BY <3>1, <3>2 DEF Held, Fewer
    <3>3. CASE \E g \in Games : Lives(B, F, Other(s), g) /\ b = F[Other(s)][g].other
      <4>1. PICK g \in Games : Lives(B, F, Other(s), g) /\ b = F[Other(s)][g].other
          BY <3>3
      <4>2. /\ Lives(A, E, Other(s), g)
            /\ b = E[Other(s)][g].other \/ Held(q, A, E, s, b)
          BY <4>1, HalfFacts DEF Fewer
      <4> QED BY <4>2, <3>1 DEF Held
    <3>4. CASE \E m \in Rpcs : On(r, m) /\ m.kind \in Backed /\ Of(m) = s /\ b = m.bk
      <4>1. PICK m \in Rpcs : On(r, m) /\ m.kind \in Backed /\ Of(m) = s /\ b = m.bk
          BY <3>4
      <4>2. m \in Calls
          BY <4>1 DEF Backed, Calls
      <4>3. On(q, m)
          BY <4>1, <4>2, <1>1
      <4> QED BY <4>1, <4>3, <3>1 DEF Held
    <3> QED BY <3>2, <3>3, <3>4, <2>1 DEF Held
  <2> QED BY <2>1, <1>0, BackLess
<1>5. GoldAt(r, B, F)
  <2>1. PICK p : Follows(q, r, Calls, p) /\ InStep(q, r, Calls, p)
      BY DEF Sheds
  <2>2. IsFiniteSet(Places(q, Calls))
      BY <1>0 DEF GoldAt
  <2>3. IsFiniteSet(Places(r, Calls))
      BY <2>1, <2>2, <1>1, FollowsCount
  <2>4. ASSUME NEW s \in Halves, NEW h \in Games, Lives(B, F, s, h)
        PROVE  Lives(A, E, s, h) /\ (Poorer(q, E, r, F, s, h) \/ Alone(r, B, F, s, h))
    <3>1. Lives(A, E, s, h) /\ F[s][h].gold = E[s][h].gold
        BY <2>4 DEF Fewer
    <3>2. CASE \A m \in Word(s, h) : On(q, m) => On(r, m)
      <4>1. \A m \in Word(s, h) : On(r, m) <=> On(q, m)
          BY <3>2, <1>1, GoldSets
      <4>2. \A i : Worth(r, F, s, h, i) <=> Worth(q, E, s, h, i)
          BY <4>1, <3>1, <1>1, SameWorth
      <4>3. Tie(s, h) \in SUBSET Calls
          BY GoldSets
      <4>4. Follows(q, r, Tie(s, h), p) /\ InStep(q, r, Tie(s, h), p)
          BY <4>3, <2>1, <1>1, FollowsPart
      <4>5. \A i \in Int : Worth(r, F, s, h, i) => \E j \in Int : i <= j /\ Worth(q, E, s, h, j)
        <5>1. \A i \in Int : i <= i
            OBVIOUS
        <5> QED BY <5>1, <4>2
      <4> QED BY <4>4, <4>5, <3>1 DEF Poorer
    <3>3. CASE ~\A m \in Word(s, h) : On(q, m) => On(r, m)
        BY <3>1, <3>3, <2>4
    <3> QED BY <3>2, <3>3
  <2> QED BY <2>3, <2>4, <1>0, <1>1, GoldFollow
<1> QED BY <1>2, <1>3, <1>4, <1>5 DEF Accounts

(* Nothing changes in the halves. *)
LEMMA FewerSelf == ASSUME NEW A, NEW E PROVE Fewer(A, E, A, E)
BY DEF Fewer

-----------------------------------------------------------------------------
(* A gate passes a letter on. *)
LEMMA AccountsMove ==
    ASSUME NEW q \in [Lanes -> Seq(Rpcs)], NEW A, NEW E, NEW n \in Nat, Accounts(q, A, E, n),
           NEW g \in Games, NEW k \in Gates, NEW h \in Games, q[Up(g, k)] # <<>>,
           Head(q[Up(g, k)]).kind \in {"gift", "backup", "recovered"} =>
              h = Head(q[Up(g, k)]).addr,
           NEW r, r = Joined(Taken(q, Up(g, k)), Down(k, h), <<Head(q[Up(g, k)])>>)
    PROVE  Accounts(r, A, E, n)
<1>0. AddrAt(q, A, E) /\ PathAt(q, A, E) /\ BackAt(q, A, E, n) /\ GoldAt(q, A, E)
    BY DEF Accounts
<1>1. PICK v, w, m : /\ v \in Lanes /\ w \in Lanes /\ v # w /\ v[1] = "up" /\ w[1] = "down"
                     /\ v = Up(g, k) /\ w = Down(k, h) /\ m = Head(q[Up(g, k)])
    BY LaneFacts
<1>2. /\ q[v] # <<>> /\ r = Joined(Taken(q, v), w, <<Head(q[v])>>) /\ m = Head(q[v])
    BY <1>1
<1>3. /\ r \in [Lanes -> Seq(Rpcs)]
      /\ \A l : On(r, l) <=> On(q, l)
    BY <1>1, <1>2, MoveOn
<1>4. AddrAt(r, A, E)
  <2>1. \A s \in Halves, z \in Games : \A f \in A :
           Lives(A, E, s, z) /\ ~Free(q, WordFrom(s, z, f)) => ~Free(r, WordFrom(s, z, f))
      BY <1>3, FreeOn
  <2> QED BY <2>1, <1>0, <1>3, FewerSelf, AddrLess
<1>5. /\ PathAt(r, A, E)
      /\ \A t \in Halves, z \in Games : Lives(A, E, t, z) /\ m \in Tie(t, z) =>
            OnPath(q, Tie(t, z), v, w)
    BY <1>0, <1>1, PathMove
<1>6. BackAt(r, A, E, n)
  <2>1. \A s \in Halves : \A b : Held(r, A, E, s, b) => Held(q, A, E, s, b)
      BY <1>3 DEF Held
  <2> QED BY <2>1, <1>0, BackLess
<1>7. r = Moved(q, v, w)
  <2>1. q[v] \in Seq(Rpcs) /\ q[w] \in Seq(Rpcs)
      BY <1>1
  <2>2. m \in Rpcs
      BY <2>1, <1>2
  <2>3. Taken(q, v) = [q EXCEPT ![v] = Tail(@)]
      BY DEF Taken
  <2>4. Append(q[w], m) = q[w] \o <<m>>
      BY <2>1, <2>2, AppendIsConcat
  <2>5. r = [[q EXCEPT ![v] = Tail(@)] EXCEPT ![w] = @ \o <<m>>]
      BY <1>2, <2>3 DEF Joined
  <2>6. r = [q EXCEPT ![v] = Tail(@), ![w] = q[w] \o <<m>>]
      BY <2>5, <1>1
  <2> QED BY <2>6, <2>4, <1>1, <1>2 DEF Moved
<1>8. GoldAt(r, A, E)
  <2>1. IsFiniteSet(Places(q, Calls))
      BY <1>0 DEF GoldAt
  <2>2. PICK p : Follows(q, r, Calls, p)
      BY <1>1, <1>2, <1>7, FollowsMove
  <2>3. IsFiniteSet(Places(r, Calls))
      BY <2>1, <2>2, <1>3, FollowsCount
  <2>4. ASSUME NEW t \in Halves, NEW z \in Games, Lives(A, E, t, z)
        PROVE  Poorer(q, E, r, E, t, z)
    <3>1. PICK o : Follows(q, r, Tie(t, z), o) /\ InStep(q, r, Tie(t, z), o)
      <4>1. m \in Tie(t, z) => OnPath(q, Tie(t, z), v, w)
          BY <2>4, <1>5
      <4> QED BY <4>1, <1>1, <1>2, <1>7, FollowsMove
    <3>2. \A i : Worth(r, E, t, z, i) <=> Worth(q, E, t, z, i)
        BY <1>3, SameWorth
    <3>3. \A i \in Int : i <= i
        OBVIOUS
    <3> QED BY <3>1, <3>2, <3>3 DEF Poorer
  <2> QED BY <2>3, <2>4, <1>0, <1>3, GoldFollow
<1> QED BY <1>4, <1>5, <1>6, <1>8 DEF Accounts

-----------------------------------------------------------------------------
(* A game dies.  If a word is lost to a half that is left, the game with   *)
(* the other half has died, and what it sent afterwards is lost, too.      *)
LEMMA DieAccounts ==
    ASSUME TypeInv, Inv, ~unheld, Accounts(Mail, alive, ents, rounds), NEW g \in Games, Die(g)
    PROVE  Accounts(Mail', alive', ents', rounds')
<1>0. /\ EntsOK /\ Plain /\ rounds \in Nat /\ Mail \in [Lanes -> Seq(Rpcs)] /\ Placed(Mail)
      /\ Sound(Mail, alive, ents) /\ up \in Ups /\ down \in Downs
    BY TypeSplit, MailType, SoundNow DEF Inv, Plain
<1>1. /\ Cut(Mail, Mail') /\ ~(g \in alive') /\ alive' \subseteq alive
      /\ \A h \in Games, k \in Gates : h # g => up'[h][k] = up[h][k] /\ down'[k][h] = down[k][h]
      /\ up' \in Ups /\ down' \in Downs /\ Mail' = Bags(up', down') /\ rounds' = rounds
      /\ Mail' \in [Lanes -> Seq(Rpcs)]
  <2>1. rounds' = rounds
      BY DEF Die
  <2>2. Cut(Mail, Mail') /\ up' \in Ups /\ down' \in Downs
      BY Dying
  <2> QED BY <2>1, <2>2, DieDoes DEF Mail, Cut
<1>2. \A s \in Halves, h \in Games : h # g => ents'[s][h] = ents[s][h]
  <2>1. ents \in [Halves -> [Games -> Entities \cup {None}]]
      BY <1>0 DEF EntsOK
  <2> QED BY <2>1 DEF Die
<1>3. \A s \in Halves, h \in Games : Lives(alive', ents', s, h) =>
         h # g /\ Lives(alive, ents, s, h) /\ ents'[s][h] = ents[s][h]
    BY <1>1, <1>2 DEF Lives
<1>4. Fewer(alive, ents, alive', ents')
    BY <1>1, <1>3 DEF Fewer
<1>5. ASSUME NEW s \in Halves, NEW h \in Games, Lives(alive', ents', s, h),
             NEW m \in Word(s, h), On(Mail, m), ~On(Mail', m)
      PROVE  m.from \notin alive' /\ Alone(Mail', alive', ents', s, h)
  <2>1. PICK w \in Lanes : At(Mail, w, m)
      BY <1>5 DEF On
  <2>2. PICK i \in 1 .. Len(Mail[w]) : Mail[w][i] = m
      BY <2>1 DEF At
  <2>3. PlacedAt(w, m) /\ m.kind = "recovered" /\ m.half = s /\ m.addr = h
      BY <2>2, <1>0, <1>5 DEF Placed, Words, Word
  <2>4. Mail'[w] # Mail[w]
    <3>1. ~At(Mail', w, m)
        BY <1>1, <1>5, OnFacts
    <3> QED BY <3>1, <2>1 DEF At
  <2>5. w[2] \in Games /\ w[3] \in Gates /\ (w = Up(w[2], w[3]) \/ w = Down(w[3], w[2]))
      BY LaneFacts
  <2>6. w[2] = g
    <3> SUFFICES ASSUME w[2] # g PROVE FALSE
        OBVIOUS
    <3>1. up'[w[2]][w[3]] = up[w[2]][w[3]] /\ down'[w[3]][w[2]] = down[w[3]][w[2]]
        BY <2>5, <1>1
    <3> QED BY <3>1, <2>4, <2>5, <1>0, <1>1, BagsType DEF Mail
  <2>7. w = Up(g, w[3])
    <3> SUFFICES ASSUME w = Down(w[3], g) PROVE FALSE
        BY <2>5, <2>6
    <3>1. w[1] = "down"
        BY <2>5, LaneFacts
    <3> QED BY <3>1, <2>3, <2>6, <1>3, <1>5 DEF PlacedAt
  <2>8. w[1] = "up" /\ m.from = g
    <3>1. w[1] = "up"
        BY <2>5, <2>7, LaneFacts
    <3> QED BY <3>1, <2>3, <2>6 DEF PlacedAt
  <2>9. \A x \in Games : ~Lives(alive', ents', Other(s), x)
    <3> SUFFICES ASSUME NEW x \in Games, Lives(alive', ents', Other(s), x) PROVE FALSE
        OBVIOUS
    <3>1. x # g /\ Lives(alive, ents, Other(s), x) /\ Lives(alive, ents, s, h)
        BY <1>3, <1>5, HalfFacts
    <3>2. m \in Foreign(s, h, x) /\ h \in alive
        BY <3>1, <2>8, <1>5 DEF Foreign, Lives
    <3>3. ~Free(Mail, Word(s, h)) /\ ~Free(Mail, Foreign(s, h, x))
        BY <3>2, <1>0, <1>5, OnFacts
    <3> QED BY <3>1, <3>2, <3>3, <1>0 DEF Sound, WordsSound
  <2>10. ASSUME s = "cell" PROVE Free(Mail', Backs(h))
    <3> SUFFICES ASSUME NEW b \in Places(Mail', Backs(h)) PROVE FALSE
        BY <1>1, AtPlace
    <3>1. /\ b[1] \in Lanes /\ b[2] \in 1 .. Len(Mail'[b[1]]) /\ b = <<b[1], b[2]>>
          /\ Mail'[b[1]][b[2]] \in Backs(h) /\ b[2] \in Nat
        BY <1>1, PlaceIs
    <3>2. b[2] \in 1 .. Len(Mail[b[1]]) /\ Mail[b[1]][b[2]] \in Backs(h)
        BY <3>1, <1>1 DEF Cut
    <3>3. b \in Places(Mail, Backs(h))
        BY <3>1, <3>2, <1>0, IsPlace
    <3>4. <<w, i>> \in Places(Mail, Word("cell", h))
        BY <2>2, <2>10, <1>0, <1>5, IsPlace
    <3>5. WordFirst(Mail, alive, ents) /\ Lives(alive, ents, "cell", h)
        BY <2>10, <1>3, <1>5 DEF Accounts, GoldAt
    <3>6. Prior(<<w, i>>, b)
        BY <3>3, <3>4, <3>5 DEF WordFirst
    <3>7. b[1] = w /\ i < b[2]
        BY <3>6, <2>8 DEF Prior
    <3>8. i \in 1 .. Len(Mail'[w])
      <4>1. Mail'[w] \in Seq(Rpcs) /\ i \in Nat
          BY <1>1, <2>2
      <4>2. Len(Mail'[w]) \in Nat
          BY <4>1
      <4> QED BY <4>1, <4>2, <2>2, <3>1, <3>7
    <3>9. Mail'[w][i] = m
        BY <3>8, <2>2, <1>1 DEF Cut
    <3> QED BY <3>8, <3>9, <1>5 DEF On, At
  <2> QED BY <2>8, <2>9, <2>10, <1>1 DEF Alone
<1>6. \A s \in Halves, h \in Games : Lives(alive', ents', s, h) =>
         /\ ents'[s][h].gold = ents[s][h].gold /\ ents'[s][h].self = ents[s][h].self
         /\ ents'[s][h].other = ents[s][h].other
    BY <1>3
<1>7. Sheds(Mail, Mail')
    BY <1>0, <1>1, ShedsCut
<1> QED BY <1>0, <1>1, <1>4, <1>5, <1>6, <1>7, AccountsLess

-----------------------------------------------------------------------------
LEMMA LoseTouchAccounts ==
    ASSUME TypeInv, Accounts(Mail, alive, ents, rounds),
           NEW s \in Halves, NEW g \in Games, LoseTouch(s, g)
    PROVE  Accounts(Mail', alive', ents', rounds')
<1>0. /\ EntsOK /\ Plain /\ rounds \in Nat /\ Mail \in [Lanes -> Seq(Rpcs)]
    BY TypeSplit, MailType DEF Plain
<1>1. Mail' = Mail /\ alive' = alive /\ rounds' = rounds /\ ents' = [ents EXCEPT ![s][g] = None]
    BY LoseTouchDoes DEF LoseTouch
<1>2. Becomes(ents, ents', s, g, None)
    BY <1>0, <1>1, BecomesIs
<1>3. \A t \in Halves, h \in Games : Lives(alive, ents', t, h) =>
         Lives(alive, ents, t, h) /\ ents'[t][h] = ents[t][h]
    BY <1>2 DEF Becomes, Lives, None
<1>4. Fewer(alive, ents, alive, ents')
    BY <1>3 DEF Fewer
<1>5. Sheds(Mail, Mail)
    BY <1>0, ShedsSelf
<1>6. Accounts(Mail, alive, ents', rounds)
    BY <1>0, <1>3, <1>4, <1>5, AccountsLess
<1> QED BY <1>1, <1>6

LEMMA DisconnectedAccounts ==
    ASSUME TypeInv, Accounts(Mail, alive, ents, rounds),
           NEW k \in Gates, NEW g \in Games, Reports(k, g)
    PROVE  Accounts(Mail', alive', ents', rounds')
<1>0. /\ rounds \in Nat /\ Mail \in [Lanes -> Seq(Rpcs)]
    BY TypeSplit, MailType DEF Plain
<1>1. Told(Mail, Mail') /\ alive' = alive /\ rounds' = rounds /\ ents' = ents
    BY OnRemoteDisconnectedDoes DEF Reports, ReadFails, WriteFails
<1>2. Sheds(Mail, Mail') /\ \A K \in SUBSET Calls : Free(Mail', K) <=> Free(Mail, K)
    BY <1>0, <1>1, ShedsTold
<1>3. ASSUME NEW s, NEW h, NEW m \in Word(s, h), On(Mail, m) PROVE On(Mail', m)
  <2>1. {m} \in SUBSET Calls
      BY <1>3, GoldSets
  <2>2. ~Free(Mail, {m})
      BY <1>0, <1>3, OnFacts
  <2>3. ~Free(Mail', {m}) /\ Mail' \in [Lanes -> Seq(Rpcs)]
      BY <2>1, <2>2, <1>2 DEF Sheds
  <2> QED BY <2>3, OnFacts
<1>4. Accounts(Mail', alive, ents, rounds)
    BY <1>0, <1>2, <1>3, FewerSelf, AccountsLess
<1> QED BY <1>1, <1>4

(* A letter that is dropped is no word to a half that lives. *)
LEMMA AccountsTake ==
    ASSUME NEW q \in [Lanes -> Seq(Rpcs)], NEW w \in Lanes, q[w] # <<>>,
           NEW r, r = Taken(q, w), NEW A, NEW E, NEW F, NEW n \in Nat,
           Accounts(q, A, E, n), Fewer(A, E, A, F),
           \A s \in Halves, h \in Games : Lives(A, F, s, h) =>
              /\ F[s][h].gold = E[s][h].gold /\ F[s][h].self = E[s][h].self
              /\ F[s][h].other = E[s][h].other \/ Held(q, A, E, Other(s), F[s][h].other)
              /\ Head(q[w]) \notin Word(s, h)
    PROVE  Accounts(r, A, F, n)
<1>1. Sheds(q, r) /\ \A m : On(q, m) => On(r, m) \/ m = Head(q[w])
    BY ShedsTake DEF On
<1> QED BY <1>1, AccountsLess

LEMMA RelayAccounts ==
    ASSUME TypeInv, Inv, ~unheld, Accounts(Mail, alive, ents, rounds),
           NEW k \in Gates, NEW g \in Games, Relay(k, g)
    PROVE  Accounts(Mail', alive', ents', rounds')
<1>0. /\ Plain /\ rounds \in Nat /\ Mail \in [Lanes -> Seq(Rpcs)] /\ ReportInv
      /\ Up(g, k) \in Lanes
    BY TypeSplit, MailType, LaneFacts DEF Inv, Plain
<1>1. PICK m : m = Head(up[g][k])
    OBVIOUS
<1>2. /\ Mail[Up(g, k)] # <<>> /\ Head(Mail[Up(g, k)]) = m
      /\ alive' = alive /\ ents' = ents /\ rounds' = rounds
      /\ \/ \E h \in Targets(k, m) \cap alive : h \in Games /\ Relayed(Mail, Mail', g, k, h, m)
         \/ /\ Targets(k, m) = {} \/ Targets(k, m) \ alive # {}
            /\ Lost(Mail, Mail', g, k)
    BY <1>1, RelayDoes DEF Relay
<1>3. ASSUME NEW h \in Targets(k, m) \cap alive, h \in Games, Relayed(Mail, Mail', g, k, h, m)
      PROVE  Accounts(Mail', alive, ents, rounds)
  <2>1. m.kind \in {"gift", "backup", "recovered"} => h = m.addr
      BY <1>3 DEF Targets
  <2>2. Mail' = Joined(Taken(Mail, Up(g, k)), Down(k, h), <<Head(Mail[Up(g, k)])>>)
      BY <1>2, <1>3 DEF Relayed
  <2> QED BY <2>1, <2>2, <1>0, <1>2, <1>3, AccountsMove
<1>4. ASSUME Targets(k, m) = {} \/ Targets(k, m) \ alive # {}, Lost(Mail, Mail', g, k)
      PROVE  Accounts(Mail', alive, ents, rounds)
  <2>1. ASSUME NEW s \in Halves, NEW h \in Games, Lives(alive, ents, s, h), m \in Word(s, h)
        PROVE  FALSE
    <3>1. h \in alive /\ h \in known[k] /\ m.kind = "recovered" /\ m.addr = h
        BY <2>1, <1>0 DEF Lives, ReportInv, Words, Word
    <3>2. Targets(k, m) = {h}
        BY <3>1 DEF Targets
    <3> QED BY <3>1, <3>2, <1>4
  <2>2. Mail' = Taken(Mail, Up(g, k))
      BY <1>4 DEF Lost
  <2> QED BY <2>1, <2>2, <1>0, <1>2, FewerSelf, AccountsTake
<1>5. Accounts(Mail', alive, ents, rounds)
    BY <1>2, <1>3, <1>4
<1> QED BY <1>2, <1>5

-----------------------------------------------------------------------------
LEMMA DroppedAccounts ==
    ASSUME TypeInv, Inv, ~unheld, Accounts(Mail, alive, ents, rounds),
           NEW g \in Games, NEW k \in Gates, NEW m, Executes(g, k, m), Dropped(g, m)
    PROVE  Accounts(Mail', alive', ents', rounds')
<1>0. /\ Mail \in [Lanes -> Seq(Rpcs)] /\ Down(k, g) \in Lanes /\ rounds \in Nat
      /\ Mail[Down(k, g)] # <<>> /\ Head(Mail[Down(k, g)]) = m
    BY ExecMail
<1>1. /\ Mail' = Taken(Mail, Down(k, g)) /\ ~Has(m.half, g) /\ alive' = alive
      /\ ents' = ents /\ rounds' = rounds
    BY DroppedDoes DEF Dropped, Executes, Rest
<1>2. m.kind \in {"gift", "backup", "recovered"} => m.addr = g
    BY PlacedExec DEF Inv
<1>3. ASSUME NEW s \in Halves, NEW h \in Games, Lives(alive, ents, s, h), m \in Word(s, h)
      PROVE  FALSE
  <2>1. m.kind = "recovered" /\ m.half = s /\ m.addr = h /\ Has(s, h)
      BY <1>3 DEF Words, Word, Lives, Has
  <2> QED BY <2>1, <1>1, <1>2
<1>4. Accounts(Mail', alive, ents, rounds)
    BY <1>0, <1>1, <1>3, FewerSelf, AccountsTake
<1> QED BY <1>1, <1>4

LEMMA BaseBackupAccounts ==
    ASSUME TypeInv, Accounts(Mail, alive, ents, rounds),
           NEW g \in Games, NEW k \in Gates, NEW m, Executes(g, k, m), BaseDisasterBackup(g, m)
    PROVE  Accounts(Mail', alive', ents', rounds')
<1>0. /\ Mail \in [Lanes -> Seq(Rpcs)] /\ Down(k, g) \in Lanes /\ rounds \in Nat
      /\ Mail[Down(k, g)] # <<>> /\ Head(Mail[Down(k, g)]) = m /\ EntsOK
      /\ m \in Rpcs /\ m.bk \in Backups
      /\ m.kind \in Backed => m.bk.round \in 1 .. rounds
    BY ExecMail
<1> DEFINE e == [ents["base"][g] EXCEPT !.other = m.bk]
<1>1. /\ Mail' = Taken(Mail, Down(k, g)) /\ alive' = alive /\ rounds' = rounds
      /\ m.kind = "backup" /\ m.half = "base" /\ Has("base", g)
    BY BaseDisasterBackupDoes DEF BaseDisasterBackup, Executes, Rest
<1>2. ents' = [ents EXCEPT !["base"][g] = e]
    BY <1>0 DEF BaseDisasterBackup, EntsOK
<1>3. ents["base"][g] \in Entities
    BY <1>0, <1>1, HalfFacts DEF EntsOK, EntOK, Has
<1>4. /\ e.exists = ents["base"][g].exists /\ e.addr = ents["base"][g].addr /\ e.gate = ents["base"][g].gate
      /\ e.gold = ents["base"][g].gold /\ e.self = ents["base"][g].self /\ e.other = m.bk
    BY <1>3 DEF Entities
<1> HIDE DEF e
<1>5. Becomes(ents, ents', "base", g, e)
    BY <1>0, <1>2, HalfFacts, BecomesIs
<1>6. Held(Mail, alive, ents, "cell", m.bk)
  <2>1. On(Mail, m)
      BY <1>0, ShedsTake DEF On
  <2>2. m.bk.round # 0 /\ m.kind \in Backed
      BY <1>0, <1>1 DEF Backed
  <2>3. Of(m) = "cell"
      BY <1>1, HalfFacts DEF Of
  <2> QED BY <2>1, <2>2, <2>3, <1>0 DEF Held
<1>7. ASSUME NEW t \in Halves, NEW h \in Games, Lives(alive, ents', t, h)
      PROVE  /\ Lives(alive, ents, t, h) /\ ents'[t][h].addr = ents[t][h].addr
             /\ ents'[t][h].gate = ents[t][h].gate
             /\ ents'[t][h].gold = ents[t][h].gold /\ ents'[t][h].self = ents[t][h].self
             /\ ents'[t][h].other = ents[t][h].other
                \/ Held(Mail, alive, ents, Other(t), ents'[t][h].other)
             /\ m \notin Word(t, h)
  <2>1. m \notin Word(t, h)
      BY <1>1 DEF Words, Word
  <2>2. CASE t = "base" /\ h = g
      BY <2>1, <2>2, <1>1, <1>4, <1>5, <1>6, HalfFacts DEF Becomes, Lives, Has
  <2>3. CASE ~(t = "base" /\ h = g)
      BY <2>1, <2>3, <1>5, <1>7 DEF Becomes, Lives
  <2> QED BY <2>2, <2>3
<1>8. Fewer(alive, ents, alive, ents')
    BY <1>7 DEF Fewer
<1>9. Accounts(Mail', alive, ents', rounds)
    BY <1>0, <1>1, <1>7, <1>8, AccountsTake
<1> QED BY <1>1, <1>9

-----------------------------------------------------------------------------
(* A half that is e calls the other one: a letter joins the queue to the   *)
(* gate that e takes.                                                      *)
Grown(q, r, kind, s, g, e, b) ==
    \E w, l, z :
       /\ l \in Rpcs /\ l.kind = kind /\ l.half = Other(s) /\ l.from = g
       /\ l.addr = e.addr /\ l.addr \in Games /\ l.bk = b
       /\ w \in Lanes /\ w[1] = "up" /\ w = Up(g, e.gate)
       /\ Grows(q, r, w, l, z) /\ Adds(q, r, {l})

LEMMA CallParts ==
    ASSUME NEW q \in [Lanes -> Seq(Rpcs)], NEW A, NEW E, AddrAt(q, A, E), PathAt(q, A, E),
           NEW r, Sound(r, A, E), NEW s \in Halves, NEW g \in Games, Lives(A, E, s, g),
           NEW kind \in {"gift", "backup"}, NEW b,
           Called(q, r, kind, s, g, E[s][g].addr, b), E[s][g].gate = ents'[s][g].gate
    PROVE  /\ r \in [Lanes -> Seq(Rpcs)] /\ AddrAt(r, A, E) /\ PathAt(r, A, E)
           /\ Grown(q, r, kind, s, g, E[s][g], b)
<1>0. EntsSound(A, E) /\ OrdersSound(r, A, E) /\ LinksSound(r, A, E)
    BY DEF Sound
<1>1. PICK k \in Gates, l \in Rpcs :
         /\ l.kind = kind /\ l.half = Other(s) /\ l.addr = E[s][g].addr /\ l.from = g /\ l.bk = b
         /\ k = E[s][g].gate /\ r = Joined(q, Up(g, k), <<l>>)
    BY DEF Called
<1>2. PICK w : w = Up(g, k)
    OBVIOUS
<1>3. w \in Lanes /\ w[1] = "up" /\ w = Up(g, E[s][g].gate) /\ r = Joined(q, w, <<l>>)
    BY <1>1, <1>2, LaneFacts
<1>4. l.addr \in Games
    BY DEF Rpcs
<1>5. r \in [Lanes -> Seq(Rpcs)] /\ \A m : On(r, m) <=> On(q, m) \/ m = l
    BY <1>3, JoinOn
<1>6. PICK z : Grows(q, r, w, l, z)
    BY <1>3, PlacesJoin
<1>7. AddrAt(r, A, E)
    BY <1>0, <1>1, <1>3, AddrCall
<1>8. PathAt(r, A, E)
  <2>1. r = Joined(q, Up(g, k), <<l>>)
      BY <1>1
  <2> QED BY <2>1, <1>1, PathCall
<1>9. Grown(q, r, kind, s, g, E[s][g], b)
  <2>1. Adds(q, r, {l})
      BY <1>5 DEF Adds
  <2> QED BY <2>1, <1>1, <1>3, <1>4, <1>6 DEF Grown
<1> QED BY <1>5, <1>7, <1>8, <1>9

(* Where the words are that a half has to hear before it gets a letter     *)
(* from the other one.                                                     *)
LEMMA WordsAhead ==
    ASSUME NEW q \in [Lanes -> Seq(Rpcs)], NEW A, NEW E, PathAt(q, A, E),
           NEW s \in Halves, NEW g \in Games, Lives(A, E, s, g),
           NEW h \in Games, Lives(A, E, Other(s), h), NEW w, w = Up(g, E[s][g].gate)
    PROVE  \A a \in Places(q, Word(Other(s), h)) : a[1] = w \/ a[1][1] = "down"
<1>0. Other(s) \in Halves /\ Other(Other(s)) = s
    BY HalfFacts
<1>1. PICK x \in Games, k \in Gates : Way(q, A, E, Other(s), h, x, k)
    BY <1>0 DEF PathAt
<1>2. x = g /\ k = E[s][g].gate /\ OnPath(q, Tie(Other(s), h), Up(x, k), Down(k, h))
    BY <1>0, <1>1 DEF Way
<1>3. \A a \in Places(q, Word(Other(s), h)) : a \in Places(q, Tie(Other(s), h))
    BY GoldSets DEF Places
<1>4. Down(k, h)[1] = "down"
    BY DEF Down
<1> QED BY <1>2, <1>3, <1>4 DEF OnPath

(* The halves differ in what AddrAt, PathAt and GoldAt do not look at.     *)
LEMMA OtherEnts ==
    ASSUME NEW q \in [Lanes -> Seq(Rpcs)], NEW A, NEW E, NEW F,
           \A s \in Halves, h \in Games : Lives(A, F, s, h) =>
              /\ Lives(A, E, s, h) /\ F[s][h].addr = E[s][h].addr
              /\ F[s][h].gate = E[s][h].gate
    PROVE  /\ AddrAt(q, A, E) => AddrAt(q, A, F)
           /\ PathAt(q, A, E) => PathAt(q, A, F)
           /\ (\A s \in Halves, h \in Games : Lives(A, F, s, h) => F[s][h].gold = E[s][h].gold)
                 => (GoldAt(q, A, E) => GoldAt(q, A, F))
<1>1. Fewer(A, E, A, F)
    BY DEF Fewer
<1>2. AddrAt(q, A, E) => AddrAt(q, A, F)
    BY <1>1, AddrLess
<1>3. PathAt(q, A, E) => PathAt(q, A, F)
  <2>1. SameGates(A, E, A, F)
      BY DEF SameGates
  <2> QED BY <2>1, PathLess
<1> QED BY <1>2, <1>3, GoldEnts

-----------------------------------------------------------------------------
LEMMA GiveAccounts ==
    ASSUME TypeInv, Inv, ~unheld, Accounts(Mail, alive, ents, rounds), Sound(Mail', alive', ents'),
           NEW s \in Halves, NEW g \in Games, Give(s, g)
    PROVE  Accounts(Mail', alive', ents', rounds')
<1>0. /\ EntsOK /\ rounds \in Nat /\ Mail \in [Lanes -> Seq(Rpcs)]
      /\ Sound(Mail, alive, ents)
      /\ AddrAt(Mail, alive, ents) /\ PathAt(Mail, alive, ents)
      /\ BackAt(Mail, alive, ents, rounds) /\ GoldAt(Mail, alive, ents)
    BY TypeSplit, MailType, SoundNow DEF Plain, Accounts
<1> DEFINE e == [ents[s][g] EXCEPT !.gold = @ - 1]
<1>1. /\ Called(Mail, Mail', "gift", s, g, Addr(s, g), NoBackup)
      /\ alive' = alive /\ rounds' = rounds /\ Has(s, g)
    BY GiveDoes DEF Give
<1>2. ents' = [ents EXCEPT ![s][g] = e]
    BY <1>0 DEF Give, EntsOK
<1>3. ents[s][g] \in Entities
    BY <1>0, <1>1 DEF EntsOK, EntOK, Has
<1>4. /\ e.exists = ents[s][g].exists /\ e.addr = ents[s][g].addr /\ e.gate = ents[s][g].gate
      /\ e.gold = ents[s][g].gold - 1 /\ e.self = ents[s][g].self /\ e.other = ents[s][g].other
    BY <1>3 DEF Entities
<1> HIDE DEF e
<1>5. Becomes(ents, ents', s, g, e)
    BY <1>0, <1>2, BecomesIs
<1>6. /\ Lives(alive, ents, s, g) /\ Lives(alive, ents', s, g)
      /\ Addr(s, g) = ents'[s][g].addr /\ ents'[s][g].gold = ents[s][g].gold - 1
      /\ ents'[s][g].addr = ents[s][g].addr /\ ents'[s][g].gate = ents[s][g].gate
    BY <1>1, <1>4, <1>5 DEF Becomes, Lives, Has, Addr
<1>7. \A t \in Halves, h \in Games : Lives(alive, ents', t, h) =>
         /\ Lives(alive, ents, t, h) /\ ents'[t][h].addr = ents[t][h].addr
         /\ ents'[t][h].gate = ents[t][h].gate
         /\ ~(t = s /\ h = g) => ents'[t][h].gold = ents[t][h].gold
    BY <1>5, <1>6 DEF Becomes, Lives
<1>8. AddrAt(Mail, alive, ents') /\ PathAt(Mail, alive, ents')
    BY <1>0, <1>7, OtherEnts
<1>9. /\ Mail' \in [Lanes -> Seq(Rpcs)] /\ AddrAt(Mail', alive, ents') /\ PathAt(Mail', alive, ents')
      /\ Grown(Mail, Mail', "gift", s, g, ents'[s][g], NoBackup)
  <2>1. Sound(Mail', alive, ents')
      BY <1>1
  <2>2. Called(Mail, Mail', "gift", s, g, ents'[s][g].addr, NoBackup)
      BY <1>1, <1>6
  <2>3. "gift" \in {"gift", "backup"}
      OBVIOUS
  <2> QED BY <2>1, <2>2, <2>3, <1>0, <1>6, <1>8, CallParts
<1>10. PICK w, l, z :
            /\ l \in Rpcs /\ l.kind = "gift" /\ l.half = Other(s)
            /\ l.addr = ents'[s][g].addr
            /\ w \in Lanes /\ w[1] = "up" /\ Grows(Mail, Mail', w, l, z)
            /\ Adds(Mail, Mail', {l})
    BY <1>9 DEF Grown
<1>11. BackAt(Mail', alive, ents', rounds)
  <2>2. ASSUME NEW t \in Halves, NEW b, Held(Mail', alive, ents', t, b)
        PROVE  Held(Mail, alive, ents, t, b)
    <3>1. \/ Held(Mail, alive, ents, t, b)
          \/ /\ b \in Backups /\ b.round # 0
             /\ \/ t = s /\ b = e.self
                \/ t = Other(s) /\ b = e.other
                \/ \E m \in {l} : m.kind \in Backed /\ Of(m) = t /\ b = m.bk
        BY <2>2, <1>5, <1>10, HeldChange
    <3>2. l.kind \notin Backed
        BY <1>10 DEF Backed
    <3> QED BY <3>1, <3>2, <1>4, <1>6, HalfFacts DEF Held
  <2> QED BY <2>2, <1>0, BackLess
<1>12. GoldAt(Mail', alive, ents')
  <2>1. EntsSound(alive, ents)
      BY <1>0 DEF Sound
  <2>2. l.addr \in alive => Free(Mail, Word(s, g))
      BY <1>0, <1>6, <1>10 DEF Sound, OrdersSound
  <2>3. OthersKeep(alive, ents, ents', s, g)
      BY <1>7 DEF OthersKeep
  <2>4. /\ Mail \in [Lanes -> Seq(Rpcs)] /\ Mail' \in [Lanes -> Seq(Rpcs)]
        /\ l \in Rpcs /\ w \in Lanes /\ w[1] = "up" /\ Grows(Mail, Mail', w, l, z)
        /\ l.kind = "gift" /\ l.half = Other(s)
        /\ GoldAt(Mail, alive, ents) /\ Lives(alive, ents, s, g)
        /\ ents'[s][g].gold = ents[s][g].gold - 1
      BY <1>0, <1>6, <1>9, <1>10
  <2> QED BY <2>1, <2>2, <2>3, <2>4, GoldGive
<1> QED BY <1>1, <1>9, <1>11, <1>12 DEF Accounts

-----------------------------------------------------------------------------
(* The base makes a backup, of which no other has the round, and sends it. *)
LEMMA BackParts ==
    ASSUME NEW q \in [Lanes -> Seq(Rpcs)], NEW A, NEW E, NEW r \in [Lanes -> Seq(Rpcs)],
           NEW g \in Games, Lives(A, E, "base", g), NEW b, b.gold = E["base"][g].gold,
           Free(q, Word("base", g)) \/ E["base"][g].addr \notin A,
           EntsSound(A, E), PathAt(q, A, E), GoldAt(q, A, E),
           Grown(q, r, "backup", "base", g, E["base"][g], b)
    PROVE  GoldAt(r, A, E)
<1>1. PICK w, l, z :
         /\ l \in Rpcs /\ l.kind = "backup" /\ l.half = Other("base") /\ l.from = g
         /\ l.addr = E["base"][g].addr /\ l.addr \in Games /\ l.bk = b
         /\ w \in Lanes /\ w[1] = "up" /\ w = Up(g, E["base"][g].gate)
         /\ Grows(q, r, w, l, z)
    BY DEF Grown
<1>2. ASSUME Lives(A, E, "cell", l.addr)
      PROVE  /\ Worth(q, E, "base", g, l.bk.gold)
             /\ \A a \in Places(q, Word("cell", l.addr)) : a[1] = w \/ a[1][1] = "down"
  <2>1. Free(q, Word("base", g))
      BY <1>1, <1>2 DEF Lives
  <2>2. \A m \in Word("base", g) : ~On(q, m)
      BY <2>1, OnFacts
  <2>3. l.bk.gold \in Int
      BY <1>1 DEF Rpcs, Backups
  <2>4. Worth(q, E, "base", g, l.bk.gold)
      BY <2>2, <2>3, <1>1 DEF Worth
  <2>5. Lives(A, E, Other("base"), l.addr)
      BY <1>2, HalfFacts
  <2>6. \A a \in Places(q, Word(Other("base"), l.addr)) : a[1] = w \/ a[1][1] = "down"
    <3>1. "base" \in Halves /\ l.addr \in Games /\ w = Up(g, E["base"][g].gate)
        BY <1>1, HalfFacts
    <3> QED BY <3>1, <2>5, WordsAhead
  <2> QED BY <2>4, <2>6, HalfFacts
<1>3. l.half = "cell"
    BY <1>1, HalfFacts
<1> QED BY <1>1, <1>2, <1>3, GoldBack

LEMMA RoundAccounts ==
    ASSUME TypeInv, Inv, ~unheld, Accounts(Mail, alive, ents, rounds), Sound(Mail', alive', ents'),
           NEW g \in Games, TimeToDisasterBackup(g)
    PROVE  Accounts(Mail', alive', ents', rounds')
<1>0. /\ EntsOK /\ Plain /\ rounds \in Nat /\ Mail \in [Lanes -> Seq(Rpcs)]
      /\ Sound(Mail, alive, ents)
      /\ AddrAt(Mail, alive, ents) /\ PathAt(Mail, alive, ents)
      /\ BackAt(Mail, alive, ents, rounds) /\ GoldAt(Mail, alive, ents)
    BY TypeSplit, MailType, SoundNow DEF Plain, Accounts
<1> DEFINE b == [gold |-> ents["base"][g].gold, round |-> rounds + 1]
           e == BackedUp(ents["base"][g])
<1>1. /\ Called(Mail, Mail', "backup", "base", g, Addr("base", g), b)
      /\ alive' = alive /\ rounds' = rounds + 1 /\ Has("base", g)
      /\ ents' = [ents EXCEPT !["base"][g] = e]
    BY TimeToDisasterBackupDoes DEF TimeToDisasterBackup
<1>2. ents["base"][g] \in Entities
    BY <1>0, <1>1, HalfFacts DEF EntsOK, EntOK, Has
<1>3. /\ e.exists = ents["base"][g].exists /\ e.addr = ents["base"][g].addr /\ e.gate = ents["base"][g].gate
      /\ e.gold = ents["base"][g].gold /\ e.self = b /\ e.other = ents["base"][g].other
  <2>1. /\ e \in Entities /\ e.addr = ents["base"][g].addr /\ e.gate = ents["base"][g].gate
        /\ e.gold = ents["base"][g].gold /\ e.self = b /\ e.other = ents["base"][g].other
      BY <1>0, <1>2, BackedUpFacts
  <2> QED BY <2>1, <1>2 DEF Entities
<1>4. b.gold = ents["base"][g].gold /\ b.round = rounds + 1
    OBVIOUS
<1> HIDE DEF b, e
<1>5. Becomes(ents, ents', "base", g, e)
    BY <1>0, <1>1, HalfFacts, BecomesIs
<1>6. /\ Lives(alive, ents, "base", g) /\ Lives(alive, ents', "base", g)
      /\ Addr("base", g) = ents'["base"][g].addr
      /\ ents'["base"][g].addr = ents["base"][g].addr
      /\ ents'["base"][g].gate = ents["base"][g].gate
      /\ b.gold = ents'["base"][g].gold
    BY <1>1, <1>3, <1>4, <1>5 DEF Becomes, Lives, Has, Addr
<1>7. \A t \in Halves, h \in Games : Lives(alive, ents', t, h) =>
         /\ Lives(alive, ents, t, h) /\ ents'[t][h].addr = ents[t][h].addr
         /\ ents'[t][h].gate = ents[t][h].gate
         /\ ents'[t][h].gold = ents[t][h].gold
    BY <1>3, <1>5, <1>6 DEF Becomes, Lives
<1>8. /\ AddrAt(Mail, alive, ents') /\ PathAt(Mail, alive, ents') /\ GoldAt(Mail, alive, ents')
  <2>1. \A t \in Halves, h \in Games : Lives(alive, ents', t, h) =>
           Lives(alive, ents, t, h) /\ ents'[t][h].addr = ents[t][h].addr
                                    /\ ents'[t][h].gate = ents[t][h].gate
      BY <1>7
  <2>2. \A t \in Halves, h \in Games : Lives(alive, ents', t, h) =>
           ents'[t][h].gold = ents[t][h].gold
      BY <1>7
  <2> QED BY <2>1, <2>2, <1>0, OtherEnts
<1>9. /\ Mail' \in [Lanes -> Seq(Rpcs)] /\ AddrAt(Mail', alive, ents') /\ PathAt(Mail', alive, ents')
      /\ Grown(Mail, Mail', "backup", "base", g, ents'["base"][g], b)
  <2>1. Sound(Mail', alive, ents')
      BY <1>1
  <2>2. Called(Mail, Mail', "backup", "base", g, ents'["base"][g].addr, b)
      BY <1>1, <1>6
  <2>3. "backup" \in {"gift", "backup"}
      OBVIOUS
  <2> QED BY <2>1, <2>2, <2>3, <1>0, <1>6, <1>8, HalfFacts, CallParts
<1>10. BackAt(Mail', alive, ents', rounds + 1)
  <2>1. PICK l : l.kind = "backup" /\ l.half = Other("base") /\ l.bk = b /\ Adds(Mail, Mail', {l})
      BY <1>9 DEF Grown
  <2>2. Of(l) = "base"
      BY <2>1, HalfFacts DEF Of
  <2>3. ASSUME NEW t \in Halves, NEW c, Held(Mail', alive, ents', t, c)
        PROVE  Held(Mail, alive, ents, t, c) \/ (t = "base" /\ c = b)
    <3>1. \/ Held(Mail, alive, ents, t, c)
          \/ /\ c \in Backups /\ c.round # 0
             /\ \/ t = "base" /\ c = e.self
                \/ t = Other("base") /\ c = e.other
                \/ \E m \in {l} : m.kind \in Backed /\ Of(m) = t /\ c = m.bk
        BY <2>1, <2>3, <1>5, HalfFacts, HeldChange
    <3>2. ASSUME c \in Backups, c.round # 0, t = Other("base"), c = e.other
          PROVE  Held(Mail, alive, ents, t, c)
        BY <3>2, <1>3, <1>6, HalfFacts DEF Held
    <3> QED BY <3>1, <3>2, <2>1, <2>2, <1>3
  <2> QED BY <2>3, <1>0, <1>4, BackRound
<1>11. GoldAt(Mail', alive, ents')
  <2>1. EntsSound(alive, ents')
      BY <1>1 DEF Sound
  <2>2. Free(Mail, Word("base", g)) \/ ents'["base"][g].addr \notin alive
      BY <1>0, <1>6, HalfFacts DEF Sound, OrdersSound
  <2> QED BY <2>1, <2>2, <1>0, <1>6, <1>8, <1>9, BackParts
<1> QED BY <1>1, <1>9, <1>10, <1>11 DEF Accounts

-----------------------------------------------------------------------------
LEMMA GiftAccounts ==
    ASSUME TypeInv, Inv, ~unheld, Accounts(Mail, alive, ents, rounds),
           NEW g \in Games, NEW k \in Gates, NEW m, Executes(g, k, m), ExecGift(g, m)
    PROVE  Accounts(Mail', alive', ents', rounds')
<1>0. /\ EntsOK /\ rounds \in Nat /\ Mail \in [Lanes -> Seq(Rpcs)]
      /\ Sound(Mail, alive, ents)
      /\ AddrAt(Mail, alive, ents) /\ PathAt(Mail, alive, ents)
      /\ BackAt(Mail, alive, ents, rounds) /\ GoldAt(Mail, alive, ents)
    BY TypeSplit, MailType, SoundNow DEF Plain, Accounts
<1>1. /\ m \in Rpcs /\ m.half \in Halves
      /\ Down(k, g) \in Lanes /\ Down(k, g)[1] = "down"
      /\ Mail[Down(k, g)] # <<>> /\ Head(Mail[Down(k, g)]) = m
    BY ExecMail, LaneFacts
<1>2. PICK s, w : s = m.half /\ w = Down(k, g)
    OBVIOUS
<1>3. s \in Halves /\ w \in Lanes /\ w[1] = "down" /\ Mail[w] # <<>> /\ Head(Mail[w]) = m
    BY <1>1, <1>2
<1> DEFINE e == [ents[s][g] EXCEPT !.gold = @ + 1]
<1>4. /\ Mail' = Taken(Mail, w) /\ m.kind = "gift" /\ alive' = alive /\ rounds' = rounds
      /\ Has(s, g)
    BY ZenonT(30), <1>2, ExecGiftDoes DEF ExecGift, Executes, Rest
<1>5. m \in Gifts(s, g)
  <2>1. m.addr = g
      BY <1>4, PlacedExec DEF Inv
  <2> QED BY <2>1, <1>1, <1>2, <1>4 DEF Gifts
<1>6. ents' = [ents EXCEPT ![s][g] = e]
    BY <1>0, <1>2 DEF ExecGift, EntsOK
<1>7. ents[s][g] \in Entities
    BY <1>0, <1>3, <1>4 DEF EntsOK, EntOK, Has
<1>8. /\ e.exists = ents[s][g].exists /\ e.addr = ents[s][g].addr /\ e.gate = ents[s][g].gate
      /\ e.gold = ents[s][g].gold + 1 /\ e.self = ents[s][g].self /\ e.other = ents[s][g].other
    BY <1>7 DEF Entities
<1> HIDE DEF e
<1>9. Becomes(ents, ents', s, g, e)
    BY <1>0, <1>3, <1>6, BecomesIs
<1>10. /\ Lives(alive, ents, s, g) /\ ents'[s][g].gold = ents[s][g].gold + 1
       /\ OthersKeep(alive, ents, ents', s, g)
    BY <1>4, <1>8, <1>9 DEF Becomes, Lives, Has, OthersKeep
<1>11. \A t \in Halves, h \in Games : Lives(alive, ents', t, h) =>
          Lives(alive, ents, t, h) /\ ents'[t][h].addr = ents[t][h].addr
                                   /\ ents'[t][h].gate = ents[t][h].gate
    BY <1>4, <1>8, <1>9 DEF Becomes, Lives, Has
<1>12. AddrAt(Mail, alive, ents') /\ PathAt(Mail, alive, ents')
    BY <1>0, <1>11, OtherEnts
<1>13. /\ Mail' \in [Lanes -> Seq(Rpcs)] /\ Sheds(Mail, Mail')
       /\ \A l : On(Mail, l) => On(Mail', l) \/ l = m
       /\ \A l : On(Mail', l) => On(Mail, l)
       /\ \A v \in Lanes : \A l : At(Mail', v, l) => At(Mail, v, l)
    BY <1>0, <1>3, <1>4, ShedsTake DEF Sheds, On
<1>14. AddrAt(Mail', alive, ents')
  <2>1. ASSUME NEW t \in Halves, NEW z \in Games, NEW f \in alive, Lives(alive, ents', t, z),
               ~Free(Mail, WordFrom(t, z, f))
        PROVE  ~Free(Mail', WordFrom(t, z, f))
    <3>1. PICK l \in WordFrom(t, z, f) : On(Mail, l)
        BY <2>1, <1>0, OnFacts
    <3>2. l # m
        BY <3>1, <1>4 DEF WordFrom, Word, Words
    <3> QED BY <3>1, <3>2, <1>13, OnFacts
  <2>2. \A l \in Calls : On(Mail', l) => On(Mail, l)
      BY <1>13
  <2> QED BY <2>1, <2>2, <1>0, <1>12, <1>13, FewerSelf, AddrLess
<1>15. PathAt(Mail', alive, ents')
  <2>1. SameGates(alive, ents', alive, ents')
      BY DEF SameGates
  <2> QED BY <2>1, <1>0, <1>12, <1>13, PathLess
<1>16. BackAt(Mail', alive, ents', rounds)
  <2>1. Adds(Mail, Mail', {})
      BY <1>13 DEF Adds
  <2>2. ASSUME NEW t \in Halves, NEW b, Held(Mail', alive, ents', t, b)
        PROVE  Held(Mail, alive, ents, t, b)
    <3>1. \/ Held(Mail, alive, ents, t, b)
          \/ /\ b \in Backups /\ b.round # 0
             /\ (t = s /\ b = e.self) \/ (t = Other(s) /\ b = e.other)
      <4>1. \/ Held(Mail, alive, ents, t, b)
            \/ /\ b \in Backups /\ b.round # 0
               /\ \/ t = s /\ b = e.self
                  \/ t = Other(s) /\ b = e.other
                  \/ \E l \in {} : l.kind \in Backed /\ Of(l) = t /\ b = l.bk
          BY <2>1, <2>2, <1>3, <1>9, HeldChange
      <4> QED BY <4>1
    <3> QED BY <3>1, <1>3, <1>8, <1>10, HalfFacts DEF Held
  <2> QED BY <2>2, <1>0, BackLess
<1>17. GoldAt(Mail', alive, ents')
  <2>1. EntsSound(alive, ents) /\ Head(Mail[w]) \in Gifts(s, g)
      BY <1>0, <1>3, <1>5 DEF Sound
  <2> QED BY <2>1, <1>0, <1>3, <1>4, <1>10, <1>13, GoldExec
<1> QED BY <1>4, <1>14, <1>15, <1>16, <1>17 DEF Accounts

-----------------------------------------------------------------------------
(* The backup that comes first and the gold of the cell that gets it.      *)
LEMMA CutNow ==
    ASSUME NEW q \in [Lanes -> Seq(Rpcs)], NEW A, NEW E, GoldAt(q, A, E),
           NEW w \in Lanes, w[1] = "down", q[w] # <<>>,
           NEW h \in Games, Lives(A, E, "cell", h), Head(q[w]) \in Backs(h),
           E["cell"][h].gold \in Nat, Head(q[w]).bk.gold \in Nat
    PROVE  Head(q[w]).bk.gold + E["cell"][h].gold <= 2 * Gold
<1>1. q[w] \in Seq(Rpcs)
    OBVIOUS
<1>2. 1 \in 1 .. Len(q[w]) /\ q[w][1] = Head(q[w])
    BY <1>1
<1> DEFINE b == <<w, 1>>
<1>3. b[1] = w /\ b[2] = 1
    OBVIOUS
<1>4. b \in Places(q, Backs(h))
    BY <1>2, IsPlace
<1>5. Letter(q, b) = Head(q[w])
    BY <1>2, <1>3 DEF Letter
<1> HIDE DEF b
<1>6. Places(q, Word("cell", h)) = {}
  <2>1. ASSUME NEW a \in Places(q, Word("cell", h)) PROVE FALSE
    <3>1. Prior(a, b)
        BY <1>4, <2>1 DEF GoldAt, WordFirst
    <3>2. a[2] \in 1 .. Len(q[a[1]]) /\ a[2] \in Nat
        BY <2>1, PlaceIs
    <3>3. a[2] >= 1
        BY <3>2 DEF Places
    <3> QED BY <1>3, <3>1, <3>2, <3>3 DEF Prior
  <2> QED BY <2>1
<1>7. Free(q, Word("cell", h))
    BY <1>6, AtPlace
<1>8. \A m \in Word("cell", h) : ~On(q, m)
    BY <1>7, OnFacts
<1>9. Worth(q, E, "cell", h, E["cell"][h].gold)
    BY <1>8 DEF Worth
<1>10. Letter(q, b).bk.gold + E["cell"][h].gold + AheadOf(q, h, b) <= 2 * Gold
    BY <1>4, <1>9 DEF GoldAt, Cuts
<1>11. AheadOf(q, h, b) \in Nat
    BY GoldCounts DEF GoldAt
<1>12. 2 * Gold \in Nat
    BY PlacesAssumption
<1> QED BY SMTT(30), <1>5, <1>10, <1>11, <1>12

LEMMA CellBackupAccounts ==
    ASSUME TypeInv, Inv, ~unheld, Accounts(Mail, alive, ents, rounds), Sound(Mail', alive', ents'),
           NEW g \in Games, NEW k \in Gates, NEW m, Executes(g, k, m), CellDisasterBackup(g, m)
    PROVE  Accounts(Mail', alive', ents', rounds')
<1>0. /\ EntsOK /\ rounds \in Nat /\ Mail \in [Lanes -> Seq(Rpcs)]
      /\ Sound(Mail, alive, ents) /\ BackAt(Mail, alive, ents, rounds)
      /\ GoldAt(Mail, alive, ents)
    BY TypeSplit, MailType, SoundNow DEF Plain, Accounts
<1>1. PICK t, w : t = Rest(g, k) /\ w = Down(k, g)
    OBVIOUS
<1>2. /\ m \in Rpcs /\ m.bk \in Backups /\ (m.kind \in Backed => m.bk.round \in 1 .. rounds)
      /\ w \in Lanes /\ w[1] = "down" /\ t = Taken(Mail, w) /\ t \in [Lanes -> Seq(Rpcs)]
      /\ Mail[w] # <<>> /\ Head(Mail[w]) = m
    BY <1>1, ExecMail, LaneFacts DEF Rest
<1> DEFINE c == [gold |-> ents["cell"][g].gold, round |-> m.bk.round]
           e == [ents["cell"][g] EXCEPT !.self = c, !.other = m.bk]
<1>3. /\ Called(t, Mail', "backup", "cell", g, Addr("cell", g), c)
      /\ alive' = alive /\ rounds' = rounds /\ m.kind = "backup" /\ m.half = "cell"
      /\ Has("cell", g)
    BY ZenonT(30), <1>1, CellDisasterBackupDoes DEF CellDisasterBackup, Executes
<1>4. ents' = [ents EXCEPT !["cell"][g] = e]
    BY <1>0 DEF CellDisasterBackup, EntsOK
<1>5. ents["cell"][g] \in Entities
    BY <1>0, <1>3, HalfFacts DEF EntsOK, EntOK, Has
<1>6. /\ e.exists = ents["cell"][g].exists /\ e.addr = ents["cell"][g].addr /\ e.gate = ents["cell"][g].gate
      /\ e.gold = ents["cell"][g].gold /\ e.self = c /\ e.other = m.bk
    BY <1>5 DEF Entities
<1>7. c.gold = ents["cell"][g].gold /\ c.round = m.bk.round
    OBVIOUS
<1> HIDE DEF c, e
<1>8. Becomes(ents, ents', "cell", g, e)
    BY <1>0, <1>4, HalfFacts, BecomesIs
<1>9. /\ Lives(alive, ents, "cell", g) /\ Lives(alive, ents', "cell", g)
      /\ Addr("cell", g) = ents'["cell"][g].addr
    BY <1>3, <1>6, <1>8 DEF Becomes, Lives, Has, Addr
<1>10. \A s \in Halves, h \in Games : Lives(alive, ents', s, h) =>
         /\ Lives(alive, ents, s, h) /\ ents'[s][h].addr = ents[s][h].addr
         /\ ents'[s][h].gate = ents[s][h].gate
         /\ ents'[s][h].gold = ents[s][h].gold
    BY <1>6, <1>8, <1>9 DEF Becomes, Lives
<1>11. m.addr = g
    BY <1>3, PlacedExec DEF Inv
<1>12. Accounts(t, alive, ents, rounds)
  <2>1. \A s, h : m \notin Word(s, h)
      BY <1>3 DEF Word, Words
  <2> QED BY <2>1, <1>0, <1>2, FewerSelf, AccountsTake
<1>13. AddrAt(t, alive, ents') /\ PathAt(t, alive, ents') /\ GoldAt(t, alive, ents')
  <2>1. \A s \in Halves, h \in Games : Lives(alive, ents', s, h) =>
           Lives(alive, ents, s, h) /\ ents'[s][h].addr = ents[s][h].addr
                                    /\ ents'[s][h].gate = ents[s][h].gate
      BY <1>10
  <2>2. \A s \in Halves, h \in Games : Lives(alive, ents', s, h) =>
           ents'[s][h].gold = ents[s][h].gold
      BY <1>10
  <2>3. AddrAt(t, alive, ents) /\ PathAt(t, alive, ents) /\ GoldAt(t, alive, ents)
      BY <1>12 DEF Accounts
  <2> QED BY <2>1, <2>2, <2>3, <1>2, OtherEnts, ZenonT(30)
<1>14. /\ Mail' \in [Lanes -> Seq(Rpcs)] /\ AddrAt(Mail', alive, ents') /\ PathAt(Mail', alive, ents')
       /\ Grown(t, Mail', "backup", "cell", g, ents'["cell"][g], c)
  <2>1. Sound(Mail', alive, ents')
      BY <1>3
  <2>2. Called(t, Mail', "backup", "cell", g, ents'["cell"][g].addr, c)
      BY <1>3, <1>9
  <2>3. "backup" \in {"gift", "backup"}
      OBVIOUS
  <2> QED BY <2>1, <2>2, <2>3, <1>2, <1>9, <1>13, HalfFacts, CallParts
<1>15. PICK v, l, z :
            /\ l \in Rpcs /\ l.kind = "backup" /\ l.half = Other("cell") /\ l.bk = c
            /\ v \in Lanes /\ v[1] = "up" /\ Grows(t, Mail', v, l, z) /\ Adds(t, Mail', {l})
    BY <1>14 DEF Grown
<1>16. GoldAt(Mail', alive, ents')
  <2>1. \A s, h : l \notin Gifts(s, h) /\ l \notin Word(s, h) /\ l \notin Backs(h)
      BY <1>15, HalfFacts DEF Gifts, Word, Words, Backs
  <2> QED BY <2>1, <1>2, <1>13, <1>14, <1>15, GoldOther
<1>17. BackAt(Mail', alive, ents', rounds)
  <2>1. On(Mail, m) /\ \A x : On(t, x) => On(Mail, x)
      BY <1>0, <1>2, ShedsTake DEF On
  <2>2. Adds(Mail, Mail', {l})
      BY <2>1, <1>15 DEF Adds
  <2>3. Held(Mail, alive, ents, "base", m.bk)
    <3>1. Of(m) = "base" /\ m.kind \in Backed
        BY <1>3, HalfFacts DEF Of, Backed
    <3>2. m.bk.round # 0
        BY <1>0, <1>2, <3>1
    <3> QED BY <2>1, <3>1, <3>2, <1>2 DEF Held
  <2>4. ASSUME NEW s \in Halves, NEW b, Held(Mail', alive, ents', s, b)
        PROVE  Held(Mail, alive, ents, s, b) \/ (s = "cell" /\ b = c)
    <3>1. \/ Held(Mail, alive, ents, s, b)
          \/ /\ b \in Backups /\ b.round # 0
             /\ \/ s = "cell" /\ b = e.self
                \/ s = Other("cell") /\ b = e.other
                \/ \E x \in {l} : x.kind \in Backed /\ Of(x) = s /\ b = x.bk
        BY <2>2, <2>4, <1>8, HalfFacts, HeldChange
    <3>2. Of(l) = "cell"
        BY <1>15, HalfFacts DEF Of
    <3> QED BY <3>1, <3>2, <2>3, <1>6, <1>15, HalfFacts
  <2>5. m.bk.gold + c.gold <= 2 * Gold
    <3>1. m \in Backs(g)
        BY <1>2, <1>3, <1>11 DEF Backs
    <3>2. m.bk.gold \in Nat /\ ents["cell"][g].gold \in Nat
        BY <1>2, <1>5 DEF Backups, Entities
    <3> QED BY <3>1, <3>2, <1>0, <1>2, <1>7, <1>9, CutNow
  <2> QED BY <2>3, <2>4, <2>5, <1>0, <1>7, BackCell
<1> QED BY <1>3, <1>14, <1>16, <1>17 DEF Accounts

-----------------------------------------------------------------------------
LEMMA OneOn ==
    ASSUME NEW q \in [Lanes -> Seq(Rpcs)], NEW K, Single(q, K),
           NEW l \in K, NEW m \in K, On(q, l), On(q, m)
    PROVE  l = m
<1>1. PICK v \in Lanes : \E i \in 1 .. Len(q[v]) : q[v][i] = l
    BY DEF On, At
<1>2. PICK i \in 1 .. Len(q[v]) : q[v][i] = l
    BY <1>1
<1>3. PICK w \in Lanes : \E j \in 1 .. Len(q[w]) : q[w][j] = m
    BY DEF On, At
<1>4. PICK j \in 1 .. Len(q[w]) : q[w][j] = m
    BY <1>3
<1>5. DOMAIN q = Lanes
    OBVIOUS
<1>6. v = w /\ i = j
    BY <1>2, <1>4, <1>5 DEF Single
<1> QED BY <1>2, <1>4, <1>6

(* A half hears that the other one was rebuilt, from a backup of the round *)
(* of the one it keeps of itself, and goes back to that.                   *)
LEMMA Rolls ==
    ASSUME NEW q \in [Lanes -> Seq(Rpcs)], NEW w \in Lanes, q[w] # <<>>,
           NEW r, r = Taken(q, w), NEW A, NEW E, NEW F, NEW n \in Nat,
           Accounts(q, A, E, n), Sound(q, A, E),
           NEW s \in Halves, NEW g \in Games, Lives(A, E, s, g),
           NEW m \in Rpcs, m = Head(q[w]), m \in Word(s, g),
           m.bk.round # 0, E[s][g].self.round = m.bk.round,
           NEW e, Becomes(E, F, s, g, e), e.addr = m.from, e.gold = E[s][g].self.gold,
           e.gate = E[s][g].gate
    PROVE  AddrAt(r, A, F) /\ PathAt(r, A, F) /\ GoldAt(r, A, F) /\ Free(r, Word(s, g))
<1>0. /\ AddrAt(q, A, E) /\ PathAt(q, A, E) /\ BackAt(q, A, E, n) /\ GoldAt(q, A, E)
      /\ EntsSound(A, E) /\ OrdersSound(q, A, E) /\ WordsSound(q, A, E)
    BY DEF Accounts, Sound
<1>1. /\ r \in [Lanes -> Seq(Rpcs)] /\ Sheds(q, r)
      /\ \A l : On(r, l) => On(q, l)
      /\ \A l : On(q, l) => On(r, l) \/ l = m
      /\ \A v \in Lanes : \A l : At(r, v, l) => At(q, v, l)
      /\ On(q, m)
    BY ShedsTake DEF Sheds, On
<1>2. \A t \in Halves, h \in Games :
         /\ Lives(A, F, t, h) => Lives(A, E, t, h)
         /\ ~(t = s /\ h = g) => F[t][h].addr = E[t][h].addr /\ F[t][h].gold = E[t][h].gold
         /\ Lives(A, F, t, h) => F[t][h].gate = E[t][h].gate
    BY DEF Becomes, Lives
<1>3. F[s][g].addr = m.from /\ F[s][g].gold = E[s][g].self.gold
    BY DEF Becomes
<1>4. AddrAt(r, A, F)
  <2>1. \A t \in Halves, h \in Games :
           /\ Lives(A, F, t, h) => Lives(A, E, t, h)
           /\ ~(t = s /\ h = g) => F[t][h].addr = E[t][h].addr
      BY <1>2
  <2>2. Head(q[w]) \in Word(s, g) /\ F[s][g].addr = Head(q[w]).from
      BY <1>3
  <2> QED BY <2>1, <2>2, <1>0, AddrRolled
<1>5. PathAt(r, A, F)
  <2>1. SameGates(A, E, A, F)
      BY <1>2 DEF SameGates
  <2> QED BY <2>1, <1>0, <1>1, PathLess
<1>6. Single(q, Word(s, g)) /\ ~Free(q, Word(s, g))
  <2>1. ~Free(q, Word(s, g))
      BY <1>1, OnFacts
  <2>2. g \in A
      BY DEF Lives
  <2> QED BY <2>1, <2>2, <1>0 DEF WordsSound
<1>7. Free(r, Word(s, g))
    BY <1>6, TakeSingle
<1>8. E[s][g].self.gold + m.bk.gold <= 2 * Gold /\ E[s][g].self.gold \in Nat /\ m.bk.gold \in Nat
  <2>1. E[s][g].self \in Backups /\ m.bk \in Backups
      BY <1>0 DEF EntsSound, Entities, Rpcs
  <2>2. m.kind = "recovered" /\ m.half = s
      BY DEF Word, Words
  <2>3. Held(q, A, E, s, E[s][g].self)
      BY <2>1 DEF Held
  <2>4. Of(m) = Other(s) /\ m.kind \in Backed
      BY <2>2 DEF Of, Backed
  <2>5. Held(q, A, E, Other(s), m.bk)
      BY <2>1, <2>4, <1>1 DEF Held
  <2>6. \A b, c : Held(q, A, E, "base", b) /\ Held(q, A, E, "cell", c) /\ b.round = c.round =>
           b.gold + c.gold <= 2 * Gold
      BY <1>0 DEF BackAt
  <2>7. E[s][g].self.gold \in Nat /\ m.bk.gold \in Nat
      BY <2>1 DEF Backups
  <2>8. CASE s = "base"
      BY <2>3, <2>5, <2>6, <2>7, <2>8, HalfFacts
  <2>9. CASE s = "cell"
    <3>1. m.bk.gold + E[s][g].self.gold <= 2 * Gold
        BY <2>3, <2>5, <2>6, <2>9, HalfFacts
    <3>2. 2 * Gold \in Nat
        BY PlacesAssumption
    <3> QED BY <3>1, <3>2, <2>7
  <2> QED BY <2>8, <2>9, HalfFacts
<1>9. ASSUME NEW t \in Halves, NEW h \in Games, Lives(A, F, t, h)
      PROVE  Lives(A, E, t, h) /\ Poorer(q, E, r, F, t, h)
  <2>1. \E p : Follows(q, r, Tie(t, h), p) /\ InStep(q, r, Tie(t, h), p)
      BY FollowsTake DEF Trails
  <2>2. ASSUME NEW i \in Int, Worth(r, F, t, h, i)
        PROVE  \E j \in Int : i <= j /\ Worth(q, E, t, h, j)
    <3>1. CASE t = s /\ h = g
      <4>1. i = E[s][g].self.gold
          BY <2>2, <3>1, <1>3, <1>7 DEF Worth
      <4>2. PICK j \in Int : j = 2 * Gold - m.bk.gold
          BY <1>8, PlacesAssumption
      <4>3. i <= j
          BY SMTT(30), <4>1, <4>2, <1>8, PlacesAssumption
      <4>4. \A l \in Word(s, g) : On(q, l) => l = m
          BY <1>1, <1>6, OneOn
      <4>5. Worth(q, E, s, g, j)
          BY <4>2, <4>4, <1>6 DEF Worth
      <4> QED BY <4>3, <4>5, <3>1
    <3>2. CASE ~(t = s /\ h = g)
      <4>1. \A l \in Word(t, h) : On(r, l) <=> On(q, l)
        <5>1. m \notin Word(t, h)
            BY <3>2 DEF Word
        <5> QED BY <5>1, <1>1
      <4>2. F[t][h].gold = E[t][h].gold
          BY <1>2, <3>2
      <4>3. Worth(q, E, t, h, i)
          BY <4>1, <4>2, <2>2, <1>1, SameWorth
      <4> QED BY <4>3
    <3> QED BY <3>1, <3>2
  <2> QED BY <2>1, <2>2, <1>2, <1>9 DEF Poorer
<1>10. IsFiniteSet(Places(r, Calls))
  <2>1. PICK p : Follows(q, r, Calls, p) /\ InStep(q, r, Calls, p)
      BY <1>1 DEF Sheds
  <2> QED BY <2>1, <1>0, <1>1, FollowsCount DEF GoldAt
<1>11. GoldAt(r, A, F)
    BY <1>0, <1>1, <1>9, <1>10, GoldFollow
<1> QED BY <1>4, <1>5, <1>7, <1>11

-----------------------------------------------------------------------------
(* The word that a half takes.                                             *)
LEMMA WordTaken ==
    ASSUME TypeInv, Inv, ~unheld, NEW g \in Games, NEW k \in Gates, NEW m, Executes(g, k, m),
           m.kind = "recovered", Has(m.half, g)
    PROVE  /\ m \in Rpcs /\ m.half \in Halves /\ m \in Word(m.half, g) /\ m.bk.round # 0
           /\ m.from \in Games /\ Lives(alive, ents, m.half, g)
           /\ Rest(g, k) = Taken(Mail, Down(k, g)) /\ Down(k, g) \in Lanes
           /\ Mail[Down(k, g)] # <<>> /\ m = Head(Mail[Down(k, g)])
           /\ Rest(g, k) \in [Lanes -> Seq(Rpcs)]
           /\ \A l : On(Rest(g, k), l) => On(Mail, l)
<1>1. /\ m \in Rpcs /\ m.half \in Halves /\ m.from \in Games /\ rounds \in Nat
      /\ m.kind \in Backed => m.bk.round \in 1 .. rounds
      /\ Mail \in [Lanes -> Seq(Rpcs)] /\ Down(k, g) \in Lanes
      /\ Mail[Down(k, g)] # <<>> /\ Head(Mail[Down(k, g)]) = m
      /\ Rest(g, k) \in [Lanes -> Seq(Rpcs)] /\ Rest(g, k) = Taken(Mail, Down(k, g))
    BY ExecMail DEF Rest
<1>2. m.bk.round # 0
    BY <1>1 DEF Backed
<1>3. m.addr = g
    BY PlacedExec DEF Inv
<1>4. m \in Word(m.half, g)
    BY <1>1, <1>3 DEF Word, Words
<1>5. Lives(alive, ents, m.half, g)
    BY DEF Lives, Has
<1>6. \A l : On(Rest(g, k), l) => On(Mail, l)
    BY <1>1, ShedsTake DEF On
<1> QED BY <1>1, <1>2, <1>4, <1>5, <1>6

LEMMA BaseRecoveredAccounts ==
    ASSUME TypeInv, Inv, ~unheld, Accounts(Mail, alive, ents, rounds), ~uneven',
           NEW g \in Games, NEW k \in Gates, NEW m, Executes(g, k, m), BaseRecovered(g, m)
    PROVE  Accounts(Mail', alive', ents', rounds')
<1>0. /\ EntsOK /\ rounds \in Nat /\ Mail \in [Lanes -> Seq(Rpcs)]
      /\ Sound(Mail, alive, ents) /\ BackAt(Mail, alive, ents, rounds)
    BY TypeSplit, MailType, SoundNow DEF Plain, Accounts
<1>1. PICK w : w = Down(k, g)
    OBVIOUS
<1> DEFINE e == RolledBack(ents["cell"][g], m.from)
<1>2. /\ m.kind = "recovered" /\ m.half = "cell" /\ Has("cell", g) /\ Mail' = Rest(g, k)
      /\ alive' = alive /\ rounds' = rounds /\ ents["cell"][g].self.round = m.bk.round
    BY BaseRecoveredDoes DEF BaseRecovered, Executes
<1>3. /\ m \in Rpcs /\ m \in Word("cell", g) /\ m.bk.round # 0 /\ m.from \in Games
      /\ Lives(alive, ents, "cell", g) /\ w \in Lanes /\ Mail[w] # <<>> /\ m = Head(Mail[w])
      /\ Mail' = Taken(Mail, w) /\ \A l : On(Mail', l) => On(Mail, l)
    BY <1>1, <1>2, WordTaken
<1>4. ents' = [ents EXCEPT !["cell"][g] = e]
    BY <1>0 DEF BaseRecovered, EntsOK
<1>5. ents["cell"][g] \in Entities
    BY <1>0, <1>2, HalfFacts DEF EntsOK, EntOK, Has
<1>6. /\ e.addr = m.from /\ e.gold = ents["cell"][g].self.gold
      /\ e.self = ents["cell"][g].self /\ e.other = ents["cell"][g].other
      /\ e.gate = ents["cell"][g].gate
    BY <1>3, <1>5, RolledBackFacts
<1> HIDE DEF e
<1>7. Becomes(ents, ents', "cell", g, e)
    BY <1>0, <1>4, HalfFacts, BecomesIs
<1>8. AddrAt(Mail', alive, ents') /\ PathAt(Mail', alive, ents') /\ GoldAt(Mail', alive, ents')
  <2>1. /\ Accounts(Mail, alive, ents, rounds) /\ Sound(Mail, alive, ents)
        /\ "cell" \in Halves /\ Mail \in [Lanes -> Seq(Rpcs)] /\ rounds \in Nat
      BY <1>0, HalfFacts
  <2> QED BY <2>1, <1>2, <1>3, <1>6, <1>7, Rolls
<1>9. BackAt(Mail', alive, ents', rounds)
  <2>1. Adds(Mail, Mail', {})
      BY <1>3 DEF Adds
  <2>2. ASSUME NEW t \in Halves, NEW b, Held(Mail', alive, ents', t, b)
        PROVE  Held(Mail, alive, ents, t, b)
    <3>1. \/ Held(Mail, alive, ents, t, b)
          \/ /\ b \in Backups /\ b.round # 0
             /\ \/ t = "cell" /\ b = e.self
                \/ t = Other("cell") /\ b = e.other
                \/ \E l \in {} : l.kind \in Backed /\ Of(l) = t /\ b = l.bk
        BY <2>1, <2>2, <1>7, HalfFacts, HeldChange
    <3>2. \/ Held(Mail, alive, ents, t, b)
          \/ /\ b \in Backups /\ b.round # 0
             /\ (t = "cell" /\ b = e.self) \/ (t = Other("cell") /\ b = e.other)
        BY <3>1
    <3> QED BY <3>2, <1>3, <1>6, HalfFacts DEF Held
  <2> QED BY <2>2, <1>0, BackLess
<1> QED BY <1>2, <1>8, <1>9 DEF Accounts

LEMMA CellRecoveredAccounts ==
    ASSUME TypeInv, Inv, ~unheld, Accounts(Mail, alive, ents, rounds), Sound(Mail', alive', ents'), ~uneven',
           NEW g \in Games, NEW k \in Gates, NEW m, Executes(g, k, m), CellRecovered(g, m)
    PROVE  Accounts(Mail', alive', ents', rounds')
<1>0. /\ EntsOK /\ Plain /\ rounds \in Nat /\ Mail \in [Lanes -> Seq(Rpcs)]
      /\ Sound(Mail, alive, ents) /\ BackAt(Mail, alive, ents, rounds)
    BY TypeSplit, MailType, SoundNow DEF Plain, Accounts
<1>1. PICK w, t : w = Down(k, g) /\ t = Rest(g, k)
    OBVIOUS
<1> DEFINE b == [gold |-> ents["base"][g].self.gold, round |-> rounds + 1]
           e0 == RolledBack(ents["base"][g], m.from)
           e == BackedUp(e0)
<1>2. /\ m.kind = "recovered" /\ m.half = "base" /\ Has("base", g)
      /\ Called(t, Mail', "backup", "base", g, m.from, b)
      /\ alive' = alive /\ rounds' = rounds + 1
    BY ZenonT(30), <1>1, CellRecoveredDoes DEF CellRecovered, Executes
<1>3. /\ m \in Rpcs /\ m \in Word("base", g) /\ m.bk.round # 0 /\ m.from \in Games
      /\ Lives(alive, ents, "base", g) /\ w \in Lanes /\ Mail[w] # <<>> /\ m = Head(Mail[w])
      /\ t = Taken(Mail, w) /\ t \in [Lanes -> Seq(Rpcs)] /\ \A l : On(t, l) => On(Mail, l)
    BY <1>1, <1>2, WordTaken
<1>4. ents["base"][g] \in Entities
    BY <1>0, <1>2, HalfFacts DEF EntsOK, EntOK, Has
<1>5. /\ e0 \in Entities /\ e0.addr = m.from /\ e0.gold = ents["base"][g].self.gold
      /\ e0.self = ents["base"][g].self /\ e0.other = ents["base"][g].other
      /\ e0.gate = ents["base"][g].gate
    BY <1>3, <1>4, RolledBackFacts
<1>6. ents' = [ents EXCEPT !["base"][g] = e] /\ e0.self.round = m.bk.round
    BY <1>0 DEF CellRecovered, EntsOK
<1> HIDE DEF e0
<1>7. /\ e \in Entities /\ e.addr = m.from /\ e.gold = ents["base"][g].self.gold
      /\ e.self = b /\ e.other = ents["base"][g].other /\ e.gate = ents["base"][g].gate
    BY <1>0, <1>5, BackedUpFacts
<1>8. e.exists
    BY <1>7 DEF Entities
<1>9. b.gold = ents["base"][g].self.gold /\ b.round = rounds + 1
    OBVIOUS
<1> HIDE DEF b, e
<1>10. Becomes(ents, ents', "base", g, e)
    BY <1>0, <1>6, HalfFacts, BecomesIs
<1>11. /\ ents'["base"][g].addr = m.from /\ ents'["base"][g].gold = b.gold
       /\ Lives(alive, ents', "base", g)
    BY <1>3, <1>7, <1>8, <1>9, <1>10 DEF Becomes, Lives
<1>12. /\ AddrAt(t, alive, ents') /\ PathAt(t, alive, ents') /\ GoldAt(t, alive, ents')
       /\ Free(t, Word("base", g))
  <2>1. /\ Accounts(Mail, alive, ents, rounds) /\ Sound(Mail, alive, ents)
        /\ "base" \in Halves /\ Mail \in [Lanes -> Seq(Rpcs)] /\ rounds \in Nat
      BY <1>0, HalfFacts
  <2>2. ents["base"][g].self.round = m.bk.round
      BY <1>5, <1>6
  <2> QED BY <2>1, <2>2, <1>3, <1>7, <1>10, Rolls
<1>13. /\ Mail' \in [Lanes -> Seq(Rpcs)] /\ AddrAt(Mail', alive, ents') /\ PathAt(Mail', alive, ents')
       /\ Grown(t, Mail', "backup", "base", g, ents'["base"][g], b)
  <2>1. Sound(Mail', alive, ents')
      BY <1>2
  <2>2. Called(t, Mail', "backup", "base", g, ents'["base"][g].addr, b)
      BY <1>2, <1>11
  <2>3. "backup" \in {"gift", "backup"}
      OBVIOUS
  <2> QED BY <2>1, <2>2, <2>3, <1>3, <1>11, <1>12, HalfFacts, CallParts
<1>14. BackAt(Mail', alive, ents', rounds + 1)
  <2>1. PICK l : l.kind = "backup" /\ l.half = Other("base") /\ l.bk = b /\ Adds(t, Mail', {l})
      BY <1>13 DEF Grown
  <2>2. Of(l) = "base"
      BY <2>1, HalfFacts DEF Of
  <2>3. Adds(Mail, Mail', {l})
      BY <2>1, <1>3 DEF Adds
  <2>4. ASSUME NEW s \in Halves, NEW c, Held(Mail', alive, ents', s, c)
        PROVE  Held(Mail, alive, ents, s, c) \/ (s = "base" /\ c = b)
    <3>1. \/ Held(Mail, alive, ents, s, c)
          \/ /\ c \in Backups /\ c.round # 0
             /\ \/ s = "base" /\ c = e.self
                \/ s = Other("base") /\ c = e.other
                \/ \E x \in {l} : x.kind \in Backed /\ Of(x) = s /\ c = x.bk
        BY <2>3, <2>4, <1>10, HalfFacts, HeldChange
    <3>2. ASSUME c \in Backups, c.round # 0, s = Other("base"), c = e.other
          PROVE  Held(Mail, alive, ents, s, c)
        BY <3>2, <1>3, <1>7, HalfFacts DEF Held
    <3> QED BY <3>1, <3>2, <2>1, <2>2, <1>7
  <2> QED BY <2>4, <1>0, <1>9, BackRound
<1>15. GoldAt(Mail', alive, ents')
  <2>1. EntsSound(alive, ents')
      BY <1>2 DEF Sound
  <2>2. b.gold = ents'["base"][g].gold
      BY <1>11
  <2> QED BY <2>1, <2>2, <1>3, <1>11, <1>12, <1>13, BackParts
<1> QED BY <1>2, <1>13, <1>14, <1>15 DEF Accounts

-----------------------------------------------------------------------------
(* A letter is sent that is no tie between the halves. *)
LEMMA PathOther ==
    ASSUME NEW q \in [Lanes -> Seq(Rpcs)], NEW A, NEW E, PathAt(q, A, E),
           NEW w \in Lanes, NEW l \in Rpcs, \A s, h : l \notin Tie(s, h),
           NEW r, r = Joined(q, w, <<l>>)
    PROVE  PathAt(r, A, E)
<1>1. /\ r \in [Lanes -> Seq(Rpcs)]
      /\ \A v \in Lanes : \A m : At(r, v, m) <=> At(q, v, m) \/ (v = w /\ m = l)
    BY JoinOn
<1> SUFFICES ASSUME NEW s \in Halves, NEW h \in Games, Lives(A, E, s, h)
             PROVE  \E x \in Games, k \in Gates : Way(r, A, E, s, h, x, k)
    BY DEF PathAt
<1>2. PICK x \in Games, k \in Gates : Way(q, A, E, s, h, x, k)
    BY DEF PathAt
<1>3. \A v \in Lanes : \A m \in Tie(s, h) : At(q, v, m) => v = Up(x, k) \/ v = Down(k, h)
    BY <1>2, PathIs DEF Way
<1>4. \A v \in Lanes : \A m \in Tie(s, h) : At(r, v, m) => v = Up(x, k) \/ v = Down(k, h)
    BY <1>1, <1>3
<1>5. OnPath(r, Tie(s, h), Up(x, k), Down(k, h))
    BY <1>1, <1>4, PathIs
<1> QED BY <1>2, <1>5 DEF Way

(* When a half is to be rebuilt nothing is on the way between two halves.  *)
LEMMA AddrAsked ==
    ASSUME NEW q \in [Lanes -> Seq(Rpcs)], NEW r \in [Lanes -> Seq(Rpcs)], NEW A, NEW E,
           AddrAt(q, A, E), WordsSound(r, A, E), NEW l \in Ords, On(r, l),
           \A x : On(r, x) <=> On(q, x) \/ x = l,
           NEW s \in Halves, NEW g \in Games, Lives(A, E, s, g), E[s][g].addr \notin A
    PROVE  AddrAt(r, A, E)
<1>1. ~Free(r, Ords)
    BY OnFacts
<1>2. ASSUME NEW x \in Live(A), On(r, x) PROVE FALSE
  <2>1. x.kind # "recover" /\ x \in Rpcs /\ x.addr \in A /\ x.from \in A
      BY <1>2 DEF Live
  <2>2. On(q, x)
      BY <1>2, <2>1 DEF Ords
  <2>3. /\ x.half = Other(s) => x.from = g /\ x.addr = E[s][g].addr
        /\ x.half = s => x.from = E[s][g].addr \/ ~Free(q, WordFrom(s, g, x.from))
      BY <1>2, <2>2 DEF AddrAt
  <2>4. x.half \in Halves
      BY <2>1 DEF Rpcs
  <2>5. ~Free(q, WordFrom(s, g, x.from))
      BY <2>1, <2>3, <2>4, HalfFacts
  <2>6. PICK y \in WordFrom(s, g, x.from) : On(q, y)
      BY <2>5, OnFacts
  <2>7. y \in Word(s, g) /\ On(r, y)
      BY <2>6 DEF WordFrom
  <2>8. ~Free(r, Word(s, g))
      BY <2>7, OnFacts
  <2>9. g \in A
      BY DEF Lives
  <2> QED BY <1>1, <2>8, <2>9 DEF WordsSound
<1>3. Free(r, Live(A))
    BY <1>2, OnFacts
<1> QED BY <1>3, AddrNone

LEMMA HeardAccounts ==
    ASSUME TypeInv, Inv, ~unheld, Accounts(Mail, alive, ents, rounds), Sound(Mail', alive', ents'),
           NEW g \in Games, NEW k \in Gates, NEW m, Executes(g, k, m), OnGameDisappear(g, m)
    PROVE  Accounts(Mail', alive', ents', rounds')
<1>0. /\ EntsOK /\ rounds \in Nat /\ Mail \in [Lanes -> Seq(Rpcs)]
      /\ BackAt(Mail, alive, ents, rounds)
    BY TypeSplit, MailType DEF Plain, Accounts
<1>1. PICK w, t : w = Down(k, g) /\ t = Rest(g, k)
    OBVIOUS
<1>2. /\ m \in Rpcs /\ w \in Lanes /\ t = Taken(Mail, w) /\ t \in [Lanes -> Seq(Rpcs)]
      /\ Mail[w] # <<>> /\ Head(Mail[w]) = m
    BY <1>1, ExecMail DEF Rest
<1>3. /\ ents' = ents /\ alive' = alive /\ rounds' = rounds /\ m.kind = "disappear"
      /\ \/ Mail' = t
         \/ \E s \in Halves : /\ s \in ToRecover(g, m.addr)
                              /\ Asked(t, Mail', s, g, ToRecover(g, m.addr))
    BY <1>1, HeardDoes DEF Inv, OnGameDisappear
<1>4. Accounts(t, alive, ents, rounds)
  <2>1. \A s, h : m \notin Word(s, h)
      BY <1>3 DEF Word, Words
  <2> QED BY <2>1, <1>0, <1>2, FewerSelf, AccountsTake
<1>5. ASSUME NEW s \in Halves, s \in ToRecover(g, m.addr),
             Asked(t, Mail', s, g, ToRecover(g, m.addr))
      PROVE  Accounts(Mail', alive, ents, rounds)
  <2>1. PICK j \in Gates, l \in Rpcs :
            /\ l.kind = "recover" /\ l.half = Other(s) /\ l.from = g
            /\ l.bk = ents[s][g].other /\ Mail' = Joined(t, Up(g, j), <<l>>)
      BY <1>5 DEF Asked
  <2>2. PICK v : v = Up(g, j)
      OBVIOUS
  <2>3. v \in Lanes /\ v[1] = "up" /\ Mail' = Joined(t, v, <<l>>)
      BY <2>1, <2>2, LaneFacts
  <2>4. /\ Lives(alive, ents, s, g) /\ ents[s][g].addr \notin alive
    <3>1. m.addr \notin alive
        BY <1>3, ReportHeard DEF Inv
    <3>2. Has(s, g) /\ ents[s][g].addr = m.addr
        BY <1>5 DEF ToRecover
    <3> QED BY <3>1, <3>2 DEF Has, Lives
  <2>5. /\ Mail' \in [Lanes -> Seq(Rpcs)] /\ \A x : On(Mail', x) <=> On(t, x) \/ x = l
      BY <2>3, <1>2, JoinOn
  <2>6. PICK z : Grows(t, Mail', v, l, z)
      BY <2>3, <1>2, PlacesJoin
  <2>7. /\ AddrAt(t, alive, ents) /\ PathAt(t, alive, ents) /\ GoldAt(t, alive, ents)
      BY <1>4 DEF Accounts
  <2>8. AddrAt(Mail', alive, ents)
    <3>1. l \in Ords /\ On(Mail', l)
        BY <2>1, <2>5 DEF Ords
    <3>2. WordsSound(Mail', alive, ents)
        BY <1>3 DEF Sound
    <3> QED BY <3>1, <3>2, <2>4, <2>5, <2>7, <1>2, AddrAsked
  <2>9. PathAt(Mail', alive, ents)
    <3>1. \A x, h : l \notin Tie(x, h)
        BY <2>1 DEF Tie
    <3> QED BY <3>1, <2>3, <2>7, <1>2, PathOther
  <2>10. GoldAt(Mail', alive, ents)
    <3>1. \A x, h : l \notin Gifts(x, h) /\ l \notin Word(x, h) /\ l \notin Backs(h)
        BY <2>1 DEF Gifts, Word, Words, Backs
    <3> QED BY <3>1, <2>3, <2>5, <2>6, <2>7, <1>2, GoldOther
  <2>11. BackAt(Mail', alive, ents, rounds)
    <3>1. \A x : On(t, x) => On(Mail, x)
        BY <1>0, <1>2, ShedsTake DEF On
    <3>2. Adds(Mail, Mail', {l})
        BY <3>1, <2>5 DEF Adds
    <3>3. Becomes(ents, ents, s, g, ents[s][g])
        BY DEF Becomes
    <3>4. ASSUME NEW x \in Halves, NEW b, Held(Mail', alive, ents, x, b)
          PROVE  Held(Mail, alive, ents, x, b)
      <4>1. \/ Held(Mail, alive, ents, x, b)
            \/ /\ b \in Backups /\ b.round # 0
               /\ \/ x = s /\ b = ents[s][g].self
                  \/ x = Other(s) /\ b = ents[s][g].other
                  \/ \E y \in {l} : y.kind \in Backed /\ Of(y) = x /\ b = y.bk
          BY <3>2, <3>3, <3>4, HeldChange
      <4>2. Of(l) = Other(s) /\ l.bk = ents[s][g].other
          BY <2>1 DEF Of
      <4>3. \/ Held(Mail, alive, ents, x, b)
            \/ /\ b \in Backups /\ b.round # 0
               /\ (x = s /\ b = ents[s][g].self) \/ (x = Other(s) /\ b = ents[s][g].other)
          BY <4>1, <4>2
      <4> QED BY <4>3, <2>4, HalfFacts DEF Held
    <3> QED BY <3>4, <1>0, BackLess
  <2> QED BY <2>8, <2>9, <2>10, <2>11 DEF Accounts
<1> QED BY <1>3, <1>4, <1>5

-----------------------------------------------------------------------------
LEMMA OnWay ==
    ASSUME TypeInv, NEW x, On(Mail, x)
    PROVE  x \in UnderWay
<1>1. PICK w \in Lanes : \E i \in 1 .. Len(Mail[w]) : Mail[w][i] = x
    BY DEF On, At
<1>2. PICK i \in 1 .. Len(Mail[w]) : Mail[w][i] = x
    BY <1>1
<1>3. Queue(w) = Mail[w] /\ Mail[w] \in Seq(Rpcs)
    BY MailType
<1>4. i \in DOMAIN Queue(w) /\ Queue(w)[i] = x
    BY <1>2, <1>3
<1> QED BY <1>4 DEF UnderWay

(* When a half is to be rebuilt, and nothing of the lost one is on the way, *)
(* nothing at all is on the way to a game that runs.                       *)
LEMMA Quiet ==
    ASSUME TypeInv, Inv, ~unheld, AddrAt(Mail, alive, ents), ~Residue, NEW o \in Ords, On(Mail, o)
    PROVE  Free(Mail, Live(alive)) /\ \A t \in Halves, h \in alive : Free(Mail, Tie(t, h))
<1>0. Mail \in [Lanes -> Seq(Rpcs)] /\ WordsSound(Mail, alive, ents)
    BY MailType, SoundNow DEF Sound
<1>1. ~Free(Mail, Ords)
    BY <1>0, OnFacts
<1>2. Free(Mail, Live(alive))
    BY <1>1 DEF AddrAt
<1>3. ASSUME NEW t \in Halves, NEW h \in alive, NEW x \in Tie(t, h), On(Mail, x) PROVE FALSE
  <2>1. x \in UnderWay
      BY <1>3, OnWay
  <2>2. x \in Rpcs /\ x.kind \in {"gift", "backup", "recovered"} /\ x.half = t /\ x.addr = h
      BY <1>3 DEF Tie
  <2>3. x.from \in alive
      BY <2>1, <2>2 DEF Residue
  <2>4. CASE x.kind = "recovered"
    <3>1. x \in Word(t, h)
        BY <2>2, <2>4 DEF Word, Words
    <3>2. ~Free(Mail, Word(t, h))
        BY <3>1, <1>0, <1>3, OnFacts
    <3> QED BY <3>2, <1>0, <1>1, <1>3 DEF WordsSound
  <2>5. CASE x.kind # "recovered"
    <3>1. x \in Live(alive)
        BY <2>2, <2>3, <2>5, <1>3 DEF Live
    <3> QED BY <3>1, <1>0, <1>2, <1>3, OnFacts
  <2> QED BY <2>4, <2>5
<1>4. \A t \in Halves, h \in alive : Free(Mail, Tie(t, h))
  <2> SUFFICES ASSUME NEW t \in Halves, NEW h \in alive PROVE Free(Mail, Tie(t, h))
      OBVIOUS
  <2> QED BY <1>0, <1>3, OnFacts
<1> QED BY <1>2, <1>4

(* Nothing is on the way to the games A. *)
Hushed(q, A) ==
    /\ IsFiniteSet(Places(q, Calls)) /\ Free(q, Live(A))
    /\ \A t \in Halves, h \in A : Free(q, Tie(t, h))
(* Half s is nowhere but in game f. *)
Only(A, E, s, f) == \A x \in Games : Lives(A, E, s, x) => x = f
(* One letter is added, with backup b of half s. *)
Sends(q, r, s, b) == \E l \in Rpcs : Of(l) = s /\ l.bk = b /\ Adds(q, r, {l})

(* Half s is there again, and sends word to the other one. *)
LEMMA Born ==
    ASSUME NEW q \in [Lanes -> Seq(Rpcs)], NEW A, NEW E, EntsSound(A, E),
           Hushed(q, A),
           NEW s \in Halves, NEW g \in Games, Lives(A, E, s, g),
           NEW f, Only(A, E, Other(s), f),
           NEW b, E[s][g].gold = b.gold, NEW r, Called(q, r, "recovered", s, g, f, b),
           E[s][g].gate = ents'[s][g].gate
    PROVE  /\ r \in [Lanes -> Seq(Rpcs)]
           /\ AddrAt(r, A, E) /\ PathAt(r, A, E) /\ GoldAt(r, A, E) /\ Free(r, Word(s, g))
           /\ Sends(q, r, s, b)
<1>0. /\ IsFiniteSet(Places(q, Calls)) /\ Free(q, Live(A))
      /\ \A t \in Halves, h \in A : Free(q, Tie(t, h))
      /\ \A x \in Games : Lives(A, E, Other(s), x) => x = f
    BY DEF Hushed, Only
<1>1. PICK k \in Gates, l \in Rpcs :
         /\ l.kind = "recovered" /\ l.half = Other(s) /\ l.addr = f /\ l.from = g /\ l.bk = b
         /\ k = E[s][g].gate /\ r = Joined(q, Up(g, k), <<l>>)
    BY DEF Called
<1>2. PICK w : w = Up(g, k)
    OBVIOUS
<1>3. w \in Lanes /\ w[1] = "up" /\ r = Joined(q, w, <<l>>) /\ l.addr \in Games
    BY <1>1, <1>2, LaneFacts DEF Rpcs
<1>4. r \in [Lanes -> Seq(Rpcs)] /\ \A m : On(r, m) <=> On(q, m) \/ m = l
    BY <1>3, JoinOn
<1>5. PICK z : Grows(q, r, w, l, z)
    BY <1>3, PlacesJoin
<1>6. AddrAt(r, A, E)
  <2>1. \A m \in Live(A) : ~On(q, m)
      BY <1>0, OnFacts
  <2>2. l \notin Live(A)
      BY <1>1 DEF Live
  <2>3. Free(r, Live(A))
      BY <2>1, <2>2, <1>4, OnFacts
  <2> QED BY <2>3, <1>4, AddrNone
<1>7. \A t \in Halves, h \in Games : Lives(A, E, t, h) => Free(q, Tie(t, h))
    BY <1>0 DEF Lives
<1>8. PathAt(r, A, E)
  <2>1. PathAt(q, A, E)
      BY <1>7, PathNone
  <2>2. r = Joined(q, Up(g, k), <<l>>)
      BY <1>1
  <2> QED BY <2>1, <2>2, <1>1, PathCall
<1>9. GoldAt(r, A, E)
  <2>1. l \in Word(Other(s), f)
      BY <1>1 DEF Word, Words
  <2>2. E[s][g].gold = l.bk.gold
      BY <1>1
  <2> QED BY <2>1, <2>2, <1>0, <1>3, <1>4, <1>5, <1>7, GoldBorn
<1>10. Free(r, Word(s, g))
  <2>1. Free(q, Tie(s, g))
      BY <1>7
  <2>2. \A m \in Word(s, g) : ~On(q, m)
      BY <2>1, GoldSets, OnFacts
  <2>3. l \notin Word(s, g)
      BY <1>1, HalfFacts DEF Word
  <2> QED BY <2>2, <2>3, <1>4, OnFacts
<1>11. Of(l) = s
    BY <1>1, HalfFacts DEF Of
<1>12. Adds(q, r, {l})
    BY <1>4 DEF Adds
<1> QED BY <1>1, <1>4, <1>6, <1>8, <1>9, <1>10, <1>11, <1>12 DEF Sends

-----------------------------------------------------------------------------
(* What there is when the order m is executed. *)
LEMMA OrderTaken ==
    ASSUME TypeInv, Inv, ~unheld, Accounts(Mail, alive, ents, rounds), ~Residue,
           NEW g \in Games, NEW k \in Gates, NEW m, Executes(g, k, m), m.kind = "recover"
    PROVE  /\ m \in Rpcs /\ m.half \in Halves /\ m.from \in Games /\ m.bk \in Backups
           /\ Rest(g, k) \in [Lanes -> Seq(Rpcs)] /\ \A l : On(Rest(g, k), l) => On(Mail, l)
           /\ Hushed(Rest(g, k), alive)
           /\ Held(Mail, alive, ents, m.half, m.bk)
           /\ Only(alive, ents, Other(m.half), m.from)
<1> DEFINE w == Down(k, g)
           t == Rest(g, k)
<1>1. /\ m \in Rpcs /\ m.half \in Halves /\ m.from \in Games /\ m.bk \in Backups
      /\ rounds \in Nat
      /\ m.kind \in Backed => m.bk.round \in 1 .. rounds
    BY ExecMail
<1>2. /\ Mail \in [Lanes -> Seq(Rpcs)] /\ w \in Lanes
      /\ Mail[w] # <<>> /\ Head(Mail[w]) = m
      /\ t \in [Lanes -> Seq(Rpcs)] /\ t = Taken(Mail, w)
    BY ExecMail DEF Rest
<1> HIDE DEF w, t
<1>3. Sheds(Mail, t) /\ On(Mail, m) /\ \A l : On(t, l) => On(Mail, l)
    BY <1>2, ShedsTake DEF On
<1>4. m \in Ords
    BY <1>1 DEF Ords
<1>5. Free(Mail, Live(alive)) /\ \A u \in Halves, h \in alive : Free(Mail, Tie(u, h))
  <2>1. AddrAt(Mail, alive, ents)
      BY DEF Accounts
  <2> QED BY <2>1, <1>3, <1>4, Quiet
<1>6. \A K : Free(Mail, K) => Free(t, K)
  <2> SUFFICES ASSUME NEW K, Free(Mail, K) PROVE Free(t, K)
      OBVIOUS
  <2> QED BY <1>2, <1>3, FreeOn
<1>7. IsFiniteSet(Places(t, Calls))
  <2>1. PICK p : Follows(Mail, t, Calls, p) /\ InStep(Mail, t, Calls, p)
      BY <1>3 DEF Sheds
  <2> QED BY <2>1, <1>2, FollowsCount DEF Accounts, GoldAt
<1>8. Held(Mail, alive, ents, m.half, m.bk)
  <2>1. m.kind \in Backed /\ Of(m) = m.half
      BY DEF Backed, Of
  <2>2. m.bk.round # 0
      BY <2>1, <1>1
  <2> QED BY <2>1, <2>2, <1>1, <1>3 DEF Held
<1>9. ASSUME NEW x \in Games, Lives(alive, ents, Other(m.half), x) PROVE x = m.from
  <2>1. Free(Mail, Strange(m.half, x))
    <3>1. Has(Other(m.half), x)
        BY <1>9 DEF Lives, Has
    <3> QED BY <3>1, <1>1 DEF Inv, CoreInv, OrderInv
  <2>2. m \notin Strange(m.half, x)
      BY <2>1, <1>2, <1>3, OnFacts
  <2> QED BY <2>2, <1>4 DEF Strange, Ord
<1>10. Hushed(t, alive)
    BY <1>5, <1>6, <1>7 DEF Hushed
<1>11. Only(alive, ents, Other(m.half), m.from)
    BY <1>9 DEF Only
<1> QED BY <1>1, <1>2, <1>3, <1>8, <1>10, <1>11 DEF t

LEMMA NotLate ==
    ASSUME late' = (IF late THEN TRUE ELSE Residue), ~late'
    PROVE  ~late /\ ~Residue
OBVIOUS

LEMMA RecoverCellAccounts ==
    ASSUME TypeInv, Inv, ~unheld, Accounts(Mail, alive, ents, rounds), Sound(Mail', alive', ents'), ~late',
           NEW g \in Games, NEW k \in Gates, NEW m, Executes(g, k, m), RecoverCell(g, m)
    PROVE  Accounts(Mail', alive', ents', rounds')
<1>0. /\ EntsOK /\ rounds \in Nat /\ BackAt(Mail, alive, ents, rounds)
    BY TypeSplit DEF Plain, Accounts
<1>1. PICK t : t = Rest(g, k)
    OBVIOUS
<1> DEFINE e == Entity(g, m.from, m.bk.gold)
<1>2. /\ m.kind = "recover" /\ m.half = "cell" /\ g \in alive
      /\ Called(t, Mail', "recovered", "cell", g, m.from, m.bk)
      /\ ents' = [ents EXCEPT !["cell"][g] = e]
      /\ alive' = alive /\ rounds' = rounds
    BY <1>1, RecoverCellDoes DEF RecoverCell, Executes
<1>3. ~Residue
    BY NotLate DEF RecoverCell
<1>4. /\ t \in [Lanes -> Seq(Rpcs)] /\ \A l : On(t, l) => On(Mail, l)
      /\ Hushed(t, alive)
      /\ Held(Mail, alive, ents, "cell", m.bk)
      /\ Only(alive, ents, Other("cell"), m.from)
    BY <1>1, <1>2, <1>3, OrderTaken
<1>5. e.exists /\ e.gold = m.bk.gold /\ e.self.round = 0 /\ e.other.round = 0
    BY DEF Entity, NoBackup
<1> HIDE DEF e
<1>6. Becomes(ents, ents', "cell", g, e)
    BY <1>0, <1>2, HalfFacts, BecomesIs
<1>7. Lives(alive, ents', "cell", g) /\ ents'["cell"][g].gold = m.bk.gold
    BY <1>2, <1>5, <1>6 DEF Becomes, Lives
<1>8. Only(alive, ents', Other("cell"), m.from)
    BY <1>4, <1>6, HalfFacts DEF Becomes, Lives, Only
<1>9. /\ AddrAt(Mail', alive, ents') /\ PathAt(Mail', alive, ents') /\ GoldAt(Mail', alive, ents')
      /\ Sends(t, Mail', "cell", m.bk)
  <2>1. EntsSound(alive, ents')
      BY <1>2 DEF Sound
  <2>2. /\ "cell" \in Halves /\ t \in [Lanes -> Seq(Rpcs)] /\ Hushed(t, alive)
        /\ Called(t, Mail', "recovered", "cell", g, m.from, m.bk)
      BY <1>2, <1>4, HalfFacts
  <2> QED BY <2>1, <2>2, <1>7, <1>8, Born
<1>10. BackAt(Mail', alive, ents', rounds)
  <2>1. PICK l \in Rpcs : Of(l) = "cell" /\ l.bk = m.bk /\ Adds(t, Mail', {l})
      BY <1>9 DEF Sends
  <2>2. Adds(Mail, Mail', {l})
      BY <2>1, <1>4 DEF Adds
  <2>3. ASSUME NEW s \in Halves, NEW b, Held(Mail', alive, ents', s, b)
        PROVE  Held(Mail, alive, ents, s, b)
    <3>1. \/ Held(Mail, alive, ents, s, b)
          \/ /\ b \in Backups /\ b.round # 0
             /\ \/ s = "cell" /\ b = e.self
                \/ s = Other("cell") /\ b = e.other
                \/ \E x \in {l} : x.kind \in Backed /\ Of(x) = s /\ b = x.bk
        BY <2>2, <2>3, <1>6, HalfFacts, HeldChange
    <3> QED BY <3>1, <2>1, <1>4, <1>5
  <2> QED BY <2>3, <1>0, BackLess
<1> QED BY <1>2, <1>9, <1>10 DEF Accounts

LEMMA RecoverBaseAccounts ==
    ASSUME TypeInv, Inv, ~unheld, Accounts(Mail, alive, ents, rounds), Sound(Mail', alive', ents'), ~late',
           NEW g \in Games, NEW k \in Gates, NEW m, Executes(g, k, m), RecoverBase(g, m)
    PROVE  Accounts(Mail', alive', ents', rounds')
<1>0. /\ EntsOK /\ Plain /\ rounds \in Nat /\ BackAt(Mail, alive, ents, rounds)
    BY TypeSplit DEF Plain, Accounts
<1>1. PICK t : t = Rest(g, k)
    OBVIOUS
<1> DEFINE b == [gold |-> m.bk.gold, round |-> rounds + 1]
           e0 == Entity(g, m.from, m.bk.gold)
           e == BackedUp(e0)
<1>2. /\ m.kind = "recover" /\ m.half = "base" /\ g \in alive
      /\ ents' = [ents EXCEPT !["base"][g] = e]
      /\ alive' = alive /\ rounds' = rounds + 1
    BY DEF RecoverBase, Executes
<1>3. PICK q \in [Lanes -> Seq(Rpcs)] :
         /\ Called(t, q, "recovered", "base", g, m.from, m.bk)
         /\ Called(q, Mail', "backup", "base", g, m.from, b)
    BY <1>1, RecoverBaseDoes
<1>4. ~Residue
    BY NotLate DEF RecoverBase
<1>5. /\ m \in Rpcs /\ m.from \in Games /\ m.bk \in Backups
      /\ t \in [Lanes -> Seq(Rpcs)] /\ \A l : On(t, l) => On(Mail, l)
      /\ Hushed(t, alive)
      /\ Held(Mail, alive, ents, "base", m.bk)
      /\ Only(alive, ents, Other("base"), m.from)
    BY <1>1, <1>2, <1>4, OrderTaken
<1>6. e0 \in Entities /\ e0.addr = m.from /\ e0.gold = m.bk.gold /\ e0.other = NoBackup
  <2>1. e0.gold = m.bk.gold
      BY DEF Entity
  <2> QED BY <2>1, <1>5, NewHalf
<1> HIDE DEF e0
<1>7. /\ e \in Entities /\ e.addr = m.from /\ e.gold = m.bk.gold
      /\ e.self = b /\ e.other = NoBackup
    BY <1>0, <1>6, BackedUpFacts
<1>8. e.exists /\ e.other.round = 0
  <2>1. NoBackup.round = 0
      BY DEF NoBackup
  <2>2. e.exists
      BY <1>7 DEF Entities
  <2> QED BY <2>1, <2>2, <1>7
<1>9. b.gold = m.bk.gold /\ b.round = rounds + 1
    OBVIOUS
<1> HIDE DEF b, e
<1>10. Becomes(ents, ents', "base", g, e)
    BY <1>0, <1>2, HalfFacts, BecomesIs
<1>11. /\ Lives(alive, ents', "base", g) /\ ents'["base"][g].gold = m.bk.gold
       /\ ents'["base"][g].addr = m.from
    BY <1>2, <1>7, <1>8, <1>10 DEF Becomes, Lives
<1>12. Only(alive, ents', Other("base"), m.from)
    BY <1>5, <1>10, HalfFacts DEF Becomes, Lives, Only
<1>13. Sound(Mail', alive, ents') /\ EntsSound(alive, ents')
    BY <1>2 DEF Sound
<1>14. /\ AddrAt(q, alive, ents') /\ PathAt(q, alive, ents') /\ GoldAt(q, alive, ents')
       /\ Free(q, Word("base", g))
       /\ Sends(t, q, "base", m.bk)
  <2>1. /\ "base" \in Halves /\ t \in [Lanes -> Seq(Rpcs)] /\ Hushed(t, alive)
        /\ Called(t, q, "recovered", "base", g, m.from, m.bk)
      BY <1>3, <1>5, HalfFacts
  <2> QED BY <2>1, <1>11, <1>12, <1>13, Born
<1>15. /\ Mail' \in [Lanes -> Seq(Rpcs)] /\ AddrAt(Mail', alive, ents') /\ PathAt(Mail', alive, ents')
       /\ Grown(q, Mail', "backup", "base", g, ents'["base"][g], b)
  <2>1. Called(q, Mail', "backup", "base", g, ents'["base"][g].addr, b)
      BY <1>3, <1>11
  <2>2. "backup" \in {"gift", "backup"}
      OBVIOUS
  <2> QED BY <2>1, <2>2, <1>11, <1>13, <1>14, HalfFacts, CallParts
<1>16. GoldAt(Mail', alive, ents')
  <2>1. b.gold = ents'["base"][g].gold
      BY <1>9, <1>11
  <2> QED BY <2>1, <1>11, <1>13, <1>14, <1>15, BackParts
<1>17. BackAt(Mail', alive, ents', rounds + 1)
  <2>1. PICK l \in Rpcs : Of(l) = "base" /\ l.bk = m.bk /\ Adds(t, q, {l})
      BY <1>14 DEF Sends
  <2>2. PICK j : j.kind = "backup" /\ j.half = Other("base") /\ j.bk = b /\ Adds(q, Mail', {j})
      BY <1>15 DEF Grown
  <2>3. Of(j) = "base"
      BY <2>2, HalfFacts DEF Of
  <2>4. Adds(Mail, Mail', {l, j})
      BY <2>1, <2>2, <1>5 DEF Adds
  <2>5. ASSUME NEW s \in Halves, NEW c, Held(Mail', alive, ents', s, c)
        PROVE  Held(Mail, alive, ents, s, c) \/ (s = "base" /\ c = b)
    <3>1. \/ Held(Mail, alive, ents, s, c)
          \/ /\ c \in Backups /\ c.round # 0
             /\ \/ s = "base" /\ c = e.self
                \/ s = Other("base") /\ c = e.other
                \/ \E x \in {l, j} : x.kind \in Backed /\ Of(x) = s /\ c = x.bk
        BY <2>4, <2>5, <1>10, HalfFacts, HeldChange
    <3> QED BY <3>1, <2>1, <2>2, <2>3, <1>5, <1>7, <1>8
  <2> QED BY <2>5, <1>0, <1>9, BackRound
<1> QED BY <1>2, <1>15, <1>16, <1>17 DEF Accounts

-----------------------------------------------------------------------------
(* As long as no game has ordered the same half twice, and no half went     *)
(* back to a backup of another round, or while rpcs of the lost one were    *)
(* under way, the accounts are right.                                       *)
DupInv == ~late /\ ~uneven /\ ~unheld => Accounts(Mail, alive, ents, rounds)

LEMMA FlagsStay ==
    ASSUME TypeInv, [Next]_vars, ~late', ~uneven', ~unheld'
    PROVE  ~late /\ ~uneven /\ ~unheld
<1>0. ~unheld
    BY HeldStep
<1>1. ASSUME NEW g \in Games, Exec(g) PROVE ~late /\ ~uneven
  <2>1. PICK k \in Gates : \E m : Executes(g, k, m) /\ Handles(g, m)
      BY <1>1, ExecIs
  <2>2. PICK m : Handles(g, m)
      BY <2>1
  <2>3. CASE UNCHANGED ghostVars
      BY <2>3 DEF ghostVars
  <2>4. \/ UNCHANGED ghostVars
        \/ RecoverCell(g, m) \/ RecoverBase(g, m) \/ CellRecovered(g, m) \/ BaseRecovered(g, m)
      BY <2>2 DEF Handles, Dropped, ExecGift, OnGameDisappear, CellDisasterBackup,
                  BaseDisasterBackup
  <2>5. CASE RecoverCell(g, m) \/ RecoverBase(g, m)
    <3>1. late' = (IF late THEN TRUE ELSE Residue) /\ uneven' = uneven
        BY <2>5 DEF RecoverCell, RecoverBase
    <3> QED BY <3>1, NotLate
  <2>6. CASE CellRecovered(g, m) \/ BaseRecovered(g, m)
      BY <2>6 DEF CellRecovered, BaseRecovered
  <2> QED BY <2>3, <2>4, <2>5, <2>6
<1>2. CASE UNCHANGED ghostVars
    BY <1>0, <1>2 DEF ghostVars
<1>3. \/ UNCHANGED ghostVars
      \/ \E g \in Games : Exec(g)
  <2>1. \A g \in Games : /\ TimeToDisasterBackup(g) => UNCHANGED ghostVars
                         /\ Die(g) => UNCHANGED ghostVars
                         /\ \A a \in Games : WindowEnds(g, a) => UNCHANGED ghostVars
                         /\ \A s \in Halves : Give(s, g) \/ LoseTouch(s, g) => UNCHANGED ghostVars
                         /\ \A k \in Gates : Reports(k, g) \/ Relay(k, g)
                               => UNCHANGED ghostVars
      BY DEF TimeToDisasterBackup, Die, WindowEnds, Give, LoseTouch, Reports, ReadFails,
             WriteFails, Relay
  <2>2. UNCHANGED vars => UNCHANGED ghostVars
      BY DEF vars
  <2> QED BY <2>1, <2>2 DEF Next, Reports
<1> QED BY <1>0, <1>1, <1>2, <1>3

LEMMA DupStep ==
    ASSUME TypeInv, Inv, DupInv, [Next]_vars
    PROVE  DupInv'
<1> SUFFICES ASSUME ~late', ~uneven', ~unheld'
             PROVE  Accounts(Mail', alive', ents', rounds')
    BY DEF DupInv
<1>0. /\ Accounts(Mail, alive, ents, rounds) /\ Sound(Mail', alive', ents') /\ ~unheld
  <2>1. TypeInv' /\ Inv'
      BY TypeStep, InvStep
  <2>2. ~late /\ ~uneven /\ ~unheld
      BY FlagsStay
  <2> QED BY <2>1, <2>2, SoundNext DEF DupInv
<1>1. ASSUME NEW g \in Games, Exec(g) PROVE Accounts(Mail', alive', ents', rounds')
  <2>1. PICK k \in Gates : \E m : Executes(g, k, m) /\ Handles(g, m)
      BY <1>1, ExecIs
  <2>2. PICK m : Executes(g, k, m) /\ Handles(g, m)
      BY <2>1
  <2>3. CASE Dropped(g, m)
      BY <1>0, <2>2, <2>3, DroppedAccounts
  <2>4. CASE ExecGift(g, m)
      BY <1>0, <2>2, <2>4, GiftAccounts
  <2>5. CASE OnGameDisappear(g, m)
      BY <1>0, <2>2, <2>5, HeardAccounts
  <2>6. CASE CellDisasterBackup(g, m)
      BY <1>0, <2>2, <2>6, CellBackupAccounts
  <2>7. CASE BaseDisasterBackup(g, m)
      BY <1>0, <2>2, <2>7, BaseBackupAccounts
  <2>8. CASE RecoverCell(g, m)
      BY <1>0, <2>2, <2>8, RecoverCellAccounts
  <2>9. CASE RecoverBase(g, m)
      BY <1>0, <2>2, <2>9, RecoverBaseAccounts
  <2>10. CASE CellRecovered(g, m)
      BY <1>0, <2>2, <2>10, CellRecoveredAccounts
  <2>11. CASE BaseRecovered(g, m)
      BY <1>0, <2>2, <2>11, BaseRecoveredAccounts
  <2> QED BY <2>2, <2>3, <2>4, <2>5, <2>6, <2>7, <2>8, <2>9, <2>10, <2>11 DEF Handles
<1>2. ASSUME NEW g \in Games, TimeToDisasterBackup(g) PROVE Accounts(Mail', alive', ents', rounds')
    BY <1>0, <1>2, RoundAccounts
<1>3. ASSUME NEW g \in Games, NEW s \in Halves, Give(s, g)
      PROVE  Accounts(Mail', alive', ents', rounds')
    BY <1>0, <1>3, GiveAccounts
<1>4. ASSUME NEW g \in Games, NEW s \in Halves, LoseTouch(s, g)
      PROVE  Accounts(Mail', alive', ents', rounds')
    BY <1>0, <1>4, LoseTouchAccounts
<1>5. ASSUME NEW g \in Games, NEW a \in Games, WindowEnds(g, a)
      PROVE  Accounts(Mail', alive', ents', rounds')
  <2>1. Mail' = Mail /\ alive' = alive /\ ents' = ents /\ rounds' = rounds
      BY <1>5, WindowEndsDoes DEF WindowEnds
  <2> QED BY <1>0, <2>1
<1>6. ASSUME NEW g \in Games, Die(g) PROVE Accounts(Mail', alive', ents', rounds')
    BY <1>0, <1>6, DieAccounts
<1>7. ASSUME NEW k \in Gates, NEW g \in Games, Reports(k, g)
      PROVE  Accounts(Mail', alive', ents', rounds')
    BY <1>0, <1>7, DisconnectedAccounts
<1>8. ASSUME NEW k \in Gates, NEW g \in Games, Relay(k, g)
      PROVE  Accounts(Mail', alive', ents', rounds')
    BY <1>0, <1>8, RelayAccounts
<1>9. CASE UNCHANGED vars
  <2>1. Mail' = Mail /\ alive' = alive /\ ents' = ents /\ rounds' = rounds
      BY <1>9 DEF vars, netVars, Mail
  <2> QED BY <1>0, <2>1
<1> QED BY <1>1, <1>2, <1>3, <1>4, <1>5, <1>6, <1>7, <1>8, <1>9 DEF Next, Reports

LEMMA DupInit ==
    ASSUME Init
    PROVE  DupInv
<1>0. TypeInv /\ Inv /\ ~unheld /\ Mail = [w \in Lanes |-> <<>>]
    BY TypeInit, InvInit DEF Init
<1>1. Mail \in [Lanes -> Seq(Rpcs)] /\ EntsSound(alive, ents)
    BY <1>0, MailType, SoundNow DEF Sound
<1>2. \A K : Free(Mail, K)
    BY <1>0 DEF Free
<1>3. \A K : Places(Mail, K) = {}
    BY <1>1, <1>2, AtPlace
<1>4. \A m : ~On(Mail, m)
    BY <1>0 DEF On, At
<1>5. AddrAt(Mail, alive, ents) /\ PathAt(Mail, alive, ents)
    BY <1>1, <1>2, AddrNone, PathNone
<1>6. \A s \in Halves, g \in Games : Lives(alive, ents, s, g) =>
         /\ ents[s][g].gold = Gold
         /\ ents[s][g].self.round = 0 /\ ents[s][g].other.round = 0
    BY HalfFacts DEF Lives, Init, Entity, None, NoBackup
<1>7. BackAt(Mail, alive, ents, rounds)
  <2>1. \A s \in Halves : \A b : ~Held(Mail, alive, ents, s, b)
      BY <1>4, <1>6, HalfFacts DEF Held
  <2> QED BY <2>1, HalfFacts DEF BackAt
<1>8. GoldAt(Mail, alive, ents)
  <2>1. IsFiniteSet(Places(Mail, Calls)) /\ \A s, h : Income(Mail, s, h) = 0
      BY <1>3, FS_EmptySet DEF Income
  <2>2. \A s \in Halves, h \in Games : \A n : Lives(alive, ents, s, h) /\ Worth(Mail, ents, s, h, n)
           => n = Gold
      BY <1>2, <1>6 DEF Worth
  <2>3. Total(Mail, alive, ents)
      BY <2>1, <2>2, HalfFacts, PlacesAssumption DEF Total
  <2>4. Cuts(Mail, alive, ents) /\ WordFirst(Mail, alive, ents)
      BY <1>3 DEF Cuts, WordFirst
  <2> QED BY <2>1, <2>3, <2>4 DEF GoldAt
<1> QED BY <1>5, <1>7, <1>8 DEF DupInv, Accounts

LEMMA NoDuplicateFrom ==
    ASSUME TypeInv, Inv, DupInv
    PROVE  NoDuplicate
<1> DEFINE gold(s) == ents[s][CHOOSE g \in Games : Has(s, g)].gold
<1> SUFFICES ASSUME Linked, \A m \in UnderWay : m.kind \in {"disappear"}, ~unheld, ~uneven, ~late
             PROVE  gold("base") + gold("cell") <= 2 * Gold
    BY DEF NoDuplicate
<1>1. /\ Mail \in [Lanes -> Seq(Rpcs)] /\ EntsSound(alive, ents)
      /\ GoldAt(Mail, alive, ents)
    BY MailType, SoundNow DEF Sound, DupInv, Accounts
<1>2. PICK g \in Games, h \in Games : Where("base") = {g} /\ Where("cell") = {h}
    BY DEF Linked
<1>3. ASSUME NEW s \in Halves, NEW x \in Games, Where(s) = {x}
      PROVE  /\ Lives(alive, ents, s, x) /\ gold(s) = ents[s][x].gold
             /\ ents[s][x].gold \in Nat /\ Worth(Mail, ents, s, x, ents[s][x].gold)
  <2>1. \A y \in Games : Has(s, y) <=> y = x
      BY <1>3 DEF Where
  <2>2. (CHOOSE y \in Games : Has(s, y)) = x
      BY <2>1
  <2>3. Lives(alive, ents, s, x)
      BY <2>1 DEF Has, Lives
  <2>4. ents[s][x].gold \in Nat
      BY <2>3, <1>1 DEF EntsSound, Entities
  <2>5. \A m \in Word(s, x) : ~On(Mail, m)
    <3>1. \A m \in Word(s, x) : m.kind # "disappear"
        BY DEF Word, Words
    <3> QED BY <3>1, OnWay
  <2>6. Worth(Mail, ents, s, x, ents[s][x].gold)
      BY <2>4, <2>5 DEF Worth
  <2> QED BY <2>2, <2>3, <2>4, <2>6
<1>4. /\ Lives(alive, ents, "base", g) /\ gold("base") = ents["base"][g].gold
      /\ ents["base"][g].gold \in Nat /\ Worth(Mail, ents, "base", g, ents["base"][g].gold)
    BY <1>2, <1>3, HalfFacts
<1>5. /\ Lives(alive, ents, "cell", h) /\ gold("cell") = ents["cell"][h].gold
      /\ ents["cell"][h].gold \in Nat /\ Worth(Mail, ents, "cell", h, ents["cell"][h].gold)
    BY <1>2, <1>3, HalfFacts
<1> HIDE DEF gold
<1>6. Income(Mail, "base", g) \in Nat /\ Income(Mail, "cell", h) \in Nat
    BY <1>1, GoldCounts DEF GoldAt
<1>7. ents["base"][g].gold + ents["cell"][h].gold
         + Income(Mail, "base", g) + Income(Mail, "cell", h) <= 2 * Gold
    BY <1>1, <1>4, <1>5 DEF GoldAt, Total
<1> QED BY <1>4, <1>5, <1>6, <1>7, PlacesAssumption

(* NoDuplicate (README.md, 547: first take, then give): whatever gifts,    *)
(* backups and deaths there are, the two halves never end up with more     *)
(* gold than there was, if no half was ordered again, both go back to the  *)
(* same round and nothing of the lost half is under way then.              *)
THEOREM NeverDoubled == Spec => []NoDuplicate
<1>1. Init => TypeInv /\ Inv /\ DupInv
    BY TypeInit, InvInit, DupInit
<1>2. TypeInv /\ Inv /\ DupInv /\ [Next]_vars => (TypeInv /\ Inv /\ DupInv)'
    BY TypeStep, InvStep, DupStep
<1>3. TypeInv /\ Inv /\ DupInv => NoDuplicate
    BY NoDuplicateFrom
<1> QED BY <1>1, <1>2, <1>3, PTL DEF Spec
=============================================================================
