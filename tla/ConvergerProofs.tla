-------------------------- MODULE ConvergerProofs ---------------------------
(***************************************************************************)
(* Proofs about Converger, for any number of peers, keys, grids and levels, *)
(* any faults and writes as slow as they like: that server and peers agree *)
(* on the keys, and that what the peers report is true.                    *)
(***************************************************************************)
EXTENDS Converger, GridSearchProofs

-----------------------------------------------------------------------------
(* The inductive invariant.  KeyAgreement speaks of reports; what keeps it  *)
(* is what a peer is going to know after every message that is on its way   *)
(* to it.  All of that echoes keys which are, counted from the one that the *)
(* peer's last report had, in their order and not beyond io_key.            *)

Report == BootReport \cup PeerReport

\* What is really sent: a recentring message always has a complexity.
Sent == {m \in StateSync \cup RecentreOnly \cup ComplexityOnly :
           m.type = "recentre" => m.x \in Complexity}

\* What a peer knows about the search, and what it will know after a message.
View == [key : Key, grid : Grid, centre : Place, boot : BOOLEAN]
ViewOf(c) == [key |-> c.key, grid |-> c.grid, centre |-> c.centre,
              boot |-> c.am_bootstrapping]
ViewAfter(v, m) ==
  IF m.type = "state"
  THEN [key |-> m.key, grid |-> IF m.key = v.key THEN v.grid ELSE m.grid,
        centre |-> IF m.key = v.key THEN v.centre ELSE m.centre,
        boot |-> m.am_bootstrapping]
  ELSE IF m.type = "recentre"
  THEN [key |-> m.key, grid |-> v.grid, centre |-> Demod[v.grid][v.centre][m.x],
        boot |-> v.boot]
  ELSE v

\* What io_key stands for.  While a coroutine is about to announce a new centre
\* the key still stands for the old one, which `via' takes to the new one.
Sense == [grid : Grid, boot : BOOLEAN, centre : Place, via : Complexity \cup {NoComplexity}]
SenseOfKey ==
  [grid |-> search.grid, boot |-> search.am_bootstrapping, centre |-> search.centre,
   via |-> IF coroutine = "recentre" THEN recentre_x ELSE NoComplexity]
Agrees(v, g) ==
  /\ v.grid = g.grid /\ v.boot = g.boot
  /\ ~g.boot => IF g.via = NoComplexity THEN v.centre = g.centre
                ELSE Demod[g.grid][v.centre][g.via] = g.centre
TypeFor(g) == IF g.boot THEN "boot" ELSE "report"

\* One connection: l is the server's end, c the peer, `out' and `in' what is on
\* its way to the peer and back, v what the peer will know after each message of
\* `out'.  A peer that was never told anything (b = 1) knows nothing yet.  What
\* it will know in the end is what io_key stands for unless more is `due'.
Linked(key, g, l, c, out, in, due, b, v) ==
  /\ v[0] = ViewOf(c)
  /\ \A i \in 1 .. Len(out) : v[i] = ViewAfter(v[i - 1], out[i])
  /\ b = 1 => /\ c = FreshPeer /\ in = <<>>
              /\ Len(out) # 0 /\ out[1].type = "state" /\ out[1].key # 0
  /\ \A i \in b .. Len(out) :
       Lag(v[i].key, l) <= Lag(key, l) /\ (v[i].key = key => Agrees(v[i], g))
  /\ \A i, j \in b .. Len(out) : i <= j => Lag(v[i].key, l) <= Lag(v[j].key, l)
  /\ v[Len(out)].key # key => due
  /\ \A i \in 1 .. Len(in) :
       Lag(in[i].key, l) <= Lag(c.key, l) /\ (in[i].key = key => in[i].type = TypeFor(g))
  /\ \A i, j \in 1 .. Len(in) : i <= j => Lag(in[i].key, l) <= Lag(in[j].key, l)
  /\ c.deferred # NoReport =>
       c.deferred.key = c.key /\ (c.key = key => c.deferred.type = TypeFor(g))

InTouch(key, g, l, c, out, in, due) ==
  \E b \in {0, 1} : \E v \in [0 .. Len(out) -> View] : Linked(key, g, l, c, out, in, due, b, v)

\* Whoever was not told of io_key will be: when the write under way completes,
\* or when the peer has caught up with what it was sent.
Due(key, l) == l.late /\ (l.writing \/ Stale(key, l))

-----------------------------------------------------------------------------
(* Keys, counted from the one that was echoed last.                         *)

\* How far a key is ahead of the echo tells it from every other key.
LEMMA LagIs ==
  ASSUME NEW l, l.echo \in Key, NEW k \in Key
  PROVE  /\ Lag(k, l) = IF k >= l.echo THEN k - l.echo ELSE k - l.echo + KeyMod
         /\ Lag(k, l) \in 0 .. KeyMod - 1
<1>1. KeyMod \in Nat /\ KeyMod > 1
  BY ConvergerAssumption
<1> QED BY <1>1, SMT DEF Lag, Key

LEMMA LagTellsApart ==
  ASSUME NEW l, l.echo \in Key, NEW k \in Key, NEW m \in Key, Lag(k, l) = Lag(m, l)
  PROVE  k = m
<1>1. KeyMod \in Nat /\ KeyMod > 1
  BY ConvergerAssumption
<1> QED BY <1>1, LagIs, SMT DEF Key

\* The next key is one further ahead, unless it is the one that was echoed.
LEMMA LagOfNext ==
  ASSUME NEW l, l.echo \in Key, NEW k \in Key, l.echo # (k + 1) % KeyMod
  PROVE  (k + 1) % KeyMod \in Key /\ Lag((k + 1) % KeyMod, l) = Lag(k, l) + 1
<1>1. KeyMod \in Nat /\ KeyMod > 1
  BY ConvergerAssumption
<1>2. (k + 1) % KeyMod = IF k = KeyMod - 1 THEN 0 ELSE k + 1
  BY <1>1, SMT DEF Key
<1>3. (k + 1) % KeyMod \in Key
  BY <1>1, <1>2, SMT DEF Key
<1> QED BY <1>1, <1>2, <1>3, LagIs, SMTT(30), ZenonT(40) DEF Key

\* When a key is echoed all that is not behind it is counted from it.
LEMMA LagAfterEcho ==
  ASSUME NEW l, l.echo \in Key, NEW h, h.echo \in Key, NEW k \in Key,
         Lag(h.echo, l) <= Lag(k, l)
  PROVE  Lag(k, h) = Lag(k, l) - Lag(h.echo, l)
<1>1. KeyMod \in Nat /\ KeyMod > 1
  BY ConvergerAssumption
<1> QED BY <1>1, LagIs, SMT DEF Key

-----------------------------------------------------------------------------
(* What one step does to one connection.                                    *)

\* A message takes a view to a view.
LEMMA ViewAfterIsAView ==
  ASSUME NEW v \in View, NEW m \in Sent
  PROVE  ViewAfter(v, m) \in View
<1>1. CASE m.type = "state"
  <2>1. m \in StateSync
    BY <1>1 DEF Sent, StateSync, RecentreOnly, ComplexityOnly
  <2> QED BY <1>1, <2>1 DEF ViewAfter, View, StateSync
<1>2. CASE m.type = "recentre"
  <2>1. m \in RecentreOnly /\ m.x \in Complexity
    BY <1>2 DEF Sent, StateSync, RecentreOnly, ComplexityOnly
  <2>2. Demod[v.grid][v.centre][m.x] \in Place
    BY <2>1, SearchAssumption DEF View
  <2> QED BY <1>2, <2>1, <2>2 DEF ViewAfter, View, RecentreOnly
<1>3. CASE m.type # "state" /\ m.type # "recentre"
  BY <1>3 DEF ViewAfter
<1> QED BY <1>1, <1>2, <1>3

\* The peer reads a message: it knows what it was to know, and keeps a deferred
\* report only under the same key.
LEMMA TouchRead ==
  ASSUME NEW key \in Key, NEW g, NEW l \in Link, NEW c \in PeerState,
         NEW out \in Seq(Sent), out # <<>>,
         NEW in \in Seq(Report), NEW due, NEW d \in PeerState,
         InTouch(key, g, l, c, out, in, due),
         ViewOf(d) = ViewAfter(ViewOf(c), Head(out)),
         d.deferred = NoReport \/ (d.deferred = c.deferred /\ d.key = c.key)
  PROVE  InTouch(key, g, l, d, Tail(out), in, due)
<1>1. PICK b \in {0, 1}, v \in [0 .. Len(out) -> View] : Linked(key, g, l, c, out, in, due, b, v)
  BY DEF InTouch
<1> DEFINE n == Len(out)
           w == [i \in 0 .. n - 1 |-> v[i + 1]]
<1>2. /\ n \in Nat \ {0} /\ Len(Tail(out)) = n - 1 /\ Head(out) = out[1]
      /\ \A i \in 1 .. n - 1 : Tail(out)[i] = out[i + 1]
  BY EmptySeq, LenProperties, HeadTailProperties
<1>3. w \in [0 .. n - 1 -> View]
  BY <1>2
<1> HIDE DEF n
<1>4. w[0] = ViewOf(d)
  <2>1. v[1] = ViewAfter(v[0], out[1])
    BY <1>1, <1>2 DEF Linked, n
  <2> QED BY <2>1, <1>1, <1>2 DEF Linked
<1>5. \A i \in 1 .. n - 1 : w[i] = ViewAfter(w[i - 1], Tail(out)[i])
  <2>1. SUFFICES ASSUME NEW i \in 1 .. n - 1 PROVE w[i] = ViewAfter(w[i - 1], Tail(out)[i])
    OBVIOUS
  <2>2. /\ w[i] = v[i + 1] /\ w[i - 1] = v[i] /\ Tail(out)[i] = out[i + 1]
        /\ i + 1 \in 1 .. n /\ (i + 1) - 1 = i
    BY <1>2
  <2>3. v[i + 1] = ViewAfter(v[(i + 1) - 1], out[i + 1])
    BY <1>1, <2>2 DEF Linked, n
  <2> QED BY <2>2, <2>3
<1>6. /\ \A i \in 0 .. n - 1 : Lag(w[i].key, l) <= Lag(key, l) /\ (w[i].key = key => Agrees(w[i], g))
      /\ \A i, j \in 0 .. n - 1 : i <= j => Lag(w[i].key, l) <= Lag(w[j].key, l)
      /\ w[n - 1].key # key => due
  <2>1. \A i \in 0 .. n - 1 : w[i] = v[i + 1] /\ i + 1 \in b .. n /\ i \in Int
    BY <1>2
  <2>2. \A i, j \in 0 .. n - 1 : i <= j => i + 1 <= j + 1
    BY <1>2
  <2>3. n - 1 \in 0 .. n - 1 /\ (n - 1) + 1 = n
    BY <1>2
  <2> QED BY <1>1, <2>1, <2>2, <2>3 DEF Linked, n
<1>7. \A i \in 1 .. Len(in) : Lag(in[i].key, l) <= Lag(d.key, l)
                              /\ (in[i].key = key => in[i].type = TypeFor(g))
  <2>1. SUFFICES ASSUME NEW i \in 1 .. Len(in) PROVE Lag(in[i].key, l) <= Lag(d.key, l)
    BY <1>1 DEF Linked
  <2>2. b = 0
    BY <1>1, EmptySeq DEF Linked
  <2>3. Lag(in[i].key, l) <= Lag(c.key, l)
    BY <1>1 DEF Linked
  <2>4. Lag(v[0].key, l) <= Lag(v[1].key, l)
    BY <1>1, <1>2, <2>2 DEF Linked, n
  <2>5. v[0].key = c.key /\ v[1].key = d.key
    BY <1>1, <1>2, <1>4 DEF Linked, ViewOf
  <2>6. in[i].key \in Key /\ c.key \in Key /\ d.key \in Key /\ l.echo \in Key
    <3>1. in[i] \in Report
      BY LenProperties
    <3> QED BY <3>1 DEF Report, BootReport, PeerReport, PeerState, Link
  <2>7. /\ Lag(in[i].key, l) \in Int /\ Lag(c.key, l) \in Int /\ Lag(d.key, l) \in Int
    BY <2>6, LagIs
  <2> QED BY <2>3, <2>4, <2>5, <2>7
<1>8. d.deferred # NoReport =>
        d.deferred.key = d.key /\ (d.key = key => d.deferred.type = TypeFor(g))
  BY <1>1 DEF Linked
<1>9. Linked(key, g, l, d, Tail(out), in, due, 0, w)
  BY <1>1, <1>2, <1>4, <1>5, <1>6, <1>7, <1>8 DEF Linked
<1> QED BY <1>2, <1>3, <1>9 DEF InTouch

\* One more message is sent, after which the peer will know what the key stands for.
LEMMA LinkedByOneMore ==
  ASSUME NEW key \in Key, NEW g, NEW l \in Link, NEW c \in PeerState,
         NEW out \in Seq(Sent), NEW in \in Seq(Report), NEW due, NEW due2, NEW m \in Sent,
         NEW b \in {0, 1}, NEW v \in [0 .. Len(out) -> View],
         Linked(key, g, l, c, out, in, due, b, v),
         ViewAfter(v[Len(out)], m).key = key, Agrees(ViewAfter(v[Len(out)], m), g)
  PROVE  InTouch(key, g, l, c, Append(out, m), in, due2)
<1> DEFINE n == Len(out)
           last == ViewAfter(v[n], m)
           w == [i \in 0 .. n + 1 |-> IF i = n + 1 THEN last ELSE v[i]]
           to == Append(out, m)
<1>1. /\ n \in Nat /\ Len(to) = n + 1 /\ to[n + 1] = m
      /\ \A i \in 1 .. n : to[i] = out[i]
  BY LenProperties, AppendProperties
<1>2. last \in View /\ last.key = key /\ Agrees(last, g)
  <2>1. v[n] \in View
    BY <1>1
  <2> QED BY <2>1, ViewAfterIsAView
<1>3. w \in [0 .. n + 1 -> View]
  BY <1>1, <1>2
<1> HIDE DEF n
<1>4. /\ w[0] = v[0] /\ w[n + 1] = last
      /\ \A i \in 0 .. n : w[i] = v[i]
  BY <1>1
<1> HIDE DEF w, to, last
<1>5. \A i \in 1 .. n + 1 : w[i] = ViewAfter(w[i - 1], to[i])
  <2>1. ASSUME NEW i \in 1 .. n PROVE w[i] = ViewAfter(w[i - 1], to[i])
    <3>1. v[i] = ViewAfter(v[i - 1], out[i])
      BY DEF Linked, n
    <3>2. i \in 0 .. n /\ i - 1 \in 0 .. n
      BY <1>1
    <3>3. w[i] = v[i] /\ w[i - 1] = v[i - 1]
      BY <3>2, <1>4
    <3>4. to[i] = out[i]
      BY <1>1
    <3> QED BY <3>1, <3>3, <3>4
  <2>2. w[n + 1] = ViewAfter(w[(n + 1) - 1], to[n + 1])
    <3>1. (n + 1) - 1 = n /\ w[n] = v[n]
      BY <1>1, <1>4
    <3> QED BY <3>1, <1>1, <1>4 DEF last
  <2>3. \A i \in 1 .. n + 1 : i = n + 1 \/ i \in 1 .. n
    BY <1>1
  <2> QED BY <2>1, <2>2, <2>3
<1>6. b <= n
  BY <1>1 DEF Linked, n
<1>7. \A i \in b .. n : /\ Lag(v[i].key, l) \in Int /\ Lag(v[i].key, l) <= Lag(key, l)
                        /\ (v[i].key = key => Agrees(v[i], g))
  <2>1. SUFFICES ASSUME NEW i \in b .. n PROVE Lag(v[i].key, l) \in Int
    BY DEF Linked, n
  <2>2. v[i] \in View
    BY <1>1 DEF n
  <2> QED BY <2>2, LagIs DEF View, Link
<1>8. Lag(key, l) \in Int
  BY LagIs DEF Link
<1>9. \A i \in b .. n + 1 : Lag(w[i].key, l) <= Lag(key, l) /\ (w[i].key = key => Agrees(w[i], g))
  <2>1. SUFFICES ASSUME NEW i \in b .. n + 1
                 PROVE  Lag(w[i].key, l) <= Lag(key, l) /\ (w[i].key = key => Agrees(w[i], g))
    OBVIOUS
  <2>2. CASE i = n + 1
    BY <2>2, <1>2, <1>4, <1>8
  <2>3. CASE i # n + 1
    <3>1. i \in b .. n /\ i \in 0 .. n
      BY <2>3, <1>1
    <3> QED BY <3>1, <1>4, <1>7
  <2> QED BY <2>2, <2>3
<1>10. \A i, j \in b .. n + 1 : i <= j => Lag(w[i].key, l) <= Lag(w[j].key, l)
  <2>1. SUFFICES ASSUME NEW i \in b .. n + 1, NEW j \in b .. n + 1, i <= j
                 PROVE  Lag(w[i].key, l) <= Lag(w[j].key, l)
    OBVIOUS
  <2>2. CASE j = n + 1
    BY <2>2, <1>2, <1>4, <1>9
  <2>3. CASE j # n + 1
    <3>1. i \in b .. n /\ j \in b .. n /\ i \in 0 .. n /\ j \in 0 .. n
      BY <2>1, <2>3, <1>1
    <3>2. Lag(v[i].key, l) <= Lag(v[j].key, l)
      BY <3>1, <2>1 DEF Linked, n
    <3> QED BY <3>1, <3>2, <1>4
  <2> QED BY <2>2, <2>3
<1>11. b = 1 => /\ c = FreshPeer /\ in = <<>>
                /\ Len(to) # 0 /\ to[1].type = "state" /\ to[1].key # 0
  <2>1. b = 1 => 1 \in 1 .. n
    BY <1>1 DEF Linked, n
  <2> QED BY <2>1, <1>1 DEF Linked, n
<1>12. Linked(key, g, l, c, to, in, due2, b, w)
  BY <1>1, <1>2, <1>4, <1>5, <1>9, <1>10, <1>11 DEF Linked
<1> QED BY <1>1, <1>3, <1>12 DEF InTouch, to

\* io_key moves on: no view and no report has the new key, whatever it stands for.
LEMMA LinkedUnderNextKey ==
  ASSUME NEW key \in Key, NEW g, NEW g2, NEW l \in Link, NEW c \in PeerState,
         NEW out \in Seq(Sent), NEW in \in Seq(Report), NEW due, NEW next,
         NEW b \in {0, 1}, NEW v \in [0 .. Len(out) -> View],
         Linked(key, g, l, c, out, in, due, b, v),
         next = (key + 1) % KeyMod, l.echo # next
  PROVE  Linked(next, g2, l, c, out, in, TRUE, b, v)
<1> DEFINE n == Len(out)
<1>1. next \in Key /\ Lag(next, l) = Lag(key, l) + 1 /\ Lag(key, l) \in Int
  BY LagOfNext, LagIs DEF Link
<1>2. n \in Nat
  BY LenProperties
<1>3. ASSUME NEW i \in b .. n PROVE Lag(v[i].key, l) <= Lag(next, l) /\ v[i].key # next
  <2>1. v[i].key \in Key /\ Lag(v[i].key, l) <= Lag(key, l)
    <3>1. v[i] \in View
      BY <1>2
    <3> QED BY <3>1 DEF Linked, View
  <2>2. Lag(v[i].key, l) \in Int
    BY <2>1, LagIs DEF Link
  <2>3. Lag(v[i].key, l) # Lag(next, l) /\ Lag(v[i].key, l) <= Lag(next, l)
    BY <2>1, <2>2, <1>1
  <2> QED BY <2>3
<1>4. c.key = v[0].key
  BY DEF Linked, ViewOf
<1>5. b = 0 => c.key # next
  BY <1>2, <1>3, <1>4
<1>6. ASSUME NEW i \in 1 .. Len(in) PROVE in[i].key # next
  <2>1. b = 0 /\ Lag(in[i].key, l) <= Lag(c.key, l) /\ Lag(c.key, l) <= Lag(key, l)
    <3>1. b = 0
      BY EmptySeq DEF Linked
    <3> QED BY <3>1, <1>2, <1>4 DEF Linked, n
  <2>2. in[i].key \in Key /\ c.key \in Key
    <3>1. in[i] \in Report
      BY LenProperties
    <3> QED BY <3>1 DEF Report, BootReport, PeerReport, PeerState
  <2>3. Lag(in[i].key, l) \in Int /\ Lag(c.key, l) \in Int
    BY <2>2, LagIs DEF Link
  <2>4. Lag(in[i].key, l) # Lag(next, l)
    BY <2>1, <2>3, <1>1
  <2> QED BY <2>4
<1>7. b = 1 => c.deferred = NoReport
  BY DEF Linked, FreshPeer
<1> QED BY <1>3, <1>5, <1>6, <1>7 DEF Linked

\* The server sends the whole state, which agrees with what the key stands for.
LEMMA TouchState ==
  ASSUME NEW key \in Key, NEW g \in Sense, NEW l \in Link, NEW c \in PeerState,
         NEW out \in Seq(Sent), NEW in \in Seq(Report), NEW due, NEW due2, NEW m \in Sent,
         InTouch(key, g, l, c, out, in, due),
         m.type = "state", m.key = key, m.am_bootstrapping = g.boot, m.grid = g.grid,
         ~g.boot => m.centre = g.centre,
         g.via # NoComplexity => Demod[g.grid][g.centre][g.via] = g.centre
  PROVE  InTouch(key, g, l, c, Append(out, m), in, due2)
<1>1. PICK b \in {0, 1}, v \in [0 .. Len(out) -> View] : Linked(key, g, l, c, out, in, due, b, v)
  BY DEF InTouch
<1> DEFINE u == v[Len(out)]
           last == ViewAfter(u, m)
<1>2. last.key = key /\ last.boot = g.boot
      /\ last.grid = (IF u.key = key THEN u.grid ELSE m.grid)
      /\ last.centre = (IF u.key = key THEN u.centre ELSE m.centre)
  BY DEF ViewAfter
<1>3. u.key = key => Agrees(u, g)
  <2>1. Len(out) \in Nat /\ b <= Len(out)
    BY <1>1, LenProperties DEF Linked
  <2>2. Len(out) \in b .. Len(out)
    BY <2>1
  <2> QED BY <2>2, <1>1 DEF Linked
<1>4. Agrees(last, g)
  BY <1>2, <1>3 DEF Agrees
<1> QED BY <1>1, <1>2, <1>4, LinkedByOneMore

\* The key moves on and nothing is sent: the peer is due to be told.
LEMMA TouchLate ==
  ASSUME NEW key \in Key, NEW g, NEW g2, NEW l \in Link, NEW c \in PeerState,
         NEW out \in Seq(Sent), NEW in \in Seq(Report), NEW due, NEW next,
         InTouch(key, g, l, c, out, in, due),
         next = (key + 1) % KeyMod, l.echo # next
  PROVE  InTouch(next, g2, l, c, out, in, TRUE)
<1>1. PICK b \in {0, 1}, v \in [0 .. Len(out) -> View] : Linked(key, g, l, c, out, in, due, b, v)
  BY DEF InTouch
<1>2. Linked(next, g2, l, c, out, in, TRUE, b, v)
  BY <1>1, LinkedUnderNextKey
<1> QED BY <1>2 DEF InTouch

\* The key moves on and the new centre is sent, as a complexity of the old one: the
\* peer that was told of the old key finds the same centre.
LEMMA TouchRecentre ==
  ASSUME NEW key \in Key, NEW g \in Sense, NEW g2 \in Sense, NEW l \in Link,
         NEW c \in PeerState, NEW out \in Seq(Sent), NEW in \in Seq(Report),
         NEW next, NEW due2, NEW m \in Sent,
         InTouch(key, g, l, c, out, in, FALSE),
         next = (key + 1) % KeyMod, l.echo # next,
         m.type = "recentre", m.key = next,
         g2.grid = g.grid, g2.boot = g.boot, g2.via = NoComplexity,
         \A u \in View : Agrees(u, g) /\ ~g.boot => Demod[g.grid][u.centre][m.x] = g2.centre
  PROVE  InTouch(next, g2, l, c, Append(out, m), in, due2)
<1>1. PICK b \in {0, 1}, v \in [0 .. Len(out) -> View] : Linked(key, g, l, c, out, in, FALSE, b, v)
  BY DEF InTouch
<1>2. next \in Key
  BY LagOfNext DEF Link
<1>3. Linked(next, g2, l, c, out, in, TRUE, b, v)
  BY <1>1, LinkedUnderNextKey
<1> DEFINE u == v[Len(out)]
           last == ViewAfter(u, m)
<1>4. u \in View /\ Agrees(u, g)
  <2>1. Len(out) \in Nat /\ b <= Len(out)
    BY <1>1, LenProperties DEF Linked
  <2>2. Len(out) \in b .. Len(out) /\ Len(out) \in 0 .. Len(out)
    BY <2>1
  <2> QED BY <2>2, <1>1 DEF Linked
<1>5. last = [key |-> next, grid |-> u.grid, centre |-> Demod[u.grid][u.centre][m.x],
              boot |-> u.boot]
  BY DEF ViewAfter
<1>6. Agrees(last, g2)
  BY <1>4, <1>5 DEF Agrees
<1>7. last.key = next
  BY <1>5
<1> QED BY <1>2, <1>3, <1>6, <1>7, LinkedByOneMore

\* New shares are sent to a peer that was told of the key.
LEMMA TouchShares ==
  ASSUME NEW key \in Key, NEW g, NEW l \in Link, NEW c \in PeerState,
         NEW out \in Seq(Sent), NEW in \in Seq(Report), NEW due2, NEW m \in Sent,
         InTouch(key, g, l, c, out, in, FALSE), m.type = "complexity"
  PROVE  InTouch(key, g, l, c, Append(out, m), in, due2)
<1>1. PICK b \in {0, 1}, v \in [0 .. Len(out) -> View] : Linked(key, g, l, c, out, in, FALSE, b, v)
  BY DEF InTouch
<1>2. ViewAfter(v[Len(out)], m) = v[Len(out)]
  BY DEF ViewAfter
<1>3. v[Len(out)].key = key /\ Agrees(v[Len(out)], g)
  <2>1. Len(out) \in Nat /\ b <= Len(out)
    BY <1>1, LenProperties DEF Linked
  <2>2. Len(out) \in b .. Len(out)
    BY <2>1
  <2> QED BY <2>2, <1>1 DEF Linked
<1> QED BY <1>1, <1>2, <1>3, LinkedByOneMore

\* Only the echo of the server's end matters, and more may be due.
LEMMA TouchKept ==
  ASSUME NEW key, NEW g, NEW l, NEW h, NEW c, NEW out, NEW in, NEW due, NEW due2,
         InTouch(key, g, l, c, out, in, due), h.echo = l.echo, due => due2
  PROVE  InTouch(key, g, h, c, out, in, due2)
<1>1. \A k : Lag(k, h) = Lag(k, l)
  BY DEF Lag
<1> QED BY <1>1, SMTT(30), ZenonT(40) DEF InTouch, Linked

\* While the key stays, what it stands for may come to be said in another way.
LEMMA TouchSense ==
  ASSUME NEW key, NEW g, NEW g2, NEW l, NEW c, NEW out, NEW in, NEW due,
         InTouch(key, g, l, c, out, in, due),
         Len(out) \in Nat,
         g2.boot = g.boot, \A u \in View : Agrees(u, g) => Agrees(u, g2)
  PROVE  InTouch(key, g2, l, c, out, in, due)
<1>1. PICK b \in {0, 1}, v \in [0 .. Len(out) -> View] : Linked(key, g, l, c, out, in, due, b, v)
  BY DEF InTouch
<1>2. TypeFor(g2) = TypeFor(g)
  BY DEF TypeFor
<1>3. \A i \in b .. Len(out) : v[i] \in View
  OBVIOUS
<1>4. Linked(key, g2, l, c, out, in, due, b, v)
  BY <1>1, <1>2, <1>3 DEF Linked
<1> QED BY <1>4 DEF InTouch

\* The server reads a report: keys are counted from the one it echoes.
LEMMA TouchHeard ==
  ASSUME NEW key \in Key, NEW g, NEW l \in Link, NEW h \in Link, NEW c \in PeerState,
         NEW out \in Seq(Sent), NEW in \in Seq(Report), in # <<>>, NEW due,
         InTouch(key, g, l, c, out, in, due), h.echo = Head(in).key
  PROVE  InTouch(key, g, h, c, out, Tail(in), due)
<1>1. PICK b \in {0, 1}, v \in [0 .. Len(out) -> View] : Linked(key, g, l, c, out, in, due, b, v)
  BY DEF InTouch
<1> DEFINE n == Len(out)
           k == Len(in)
<1>2. n \in Nat /\ b = 0
  BY <1>1, LenProperties DEF Linked
<1>3. /\ k \in Nat \ {0} /\ Len(Tail(in)) = k - 1 /\ Head(in) = in[1]
      /\ \A i \in 1 .. k - 1 : Tail(in)[i] = in[i + 1]
  BY EmptySeq, LenProperties, HeadTailProperties
<1>4. /\ \A i \in 1 .. k : in[i].key \in Key
      /\ c.key \in Key /\ l.echo \in Key /\ h.echo \in Key
      /\ \A i \in 0 .. n : v[i].key \in Key
  <2>1. \A i \in 1 .. k : in[i] \in Report
    BY LenProperties
  <2>2. \A i \in 1 .. k : in[i].key \in Key
    BY <2>1 DEF Report, BootReport, PeerReport
  <2>3. \A i \in 0 .. n : v[i].key \in Key
    BY DEF View
  <2> QED BY <2>2, <2>3 DEF PeerState, Link
<1> HIDE DEF n, k
<1>5. /\ c.key = v[0].key /\ 0 \in 0 .. n /\ n \in 0 .. n
      /\ \A i \in 0 .. n : Lag(v[0].key, l) <= Lag(v[i].key, l) /\ Lag(v[i].key, l) <= Lag(key, l)
  BY <1>1, <1>2 DEF Linked, ViewOf, n
<1>6. \A m \in Key : Lag(m, l) \in Int
  BY <1>4, LagIs
<1>7. /\ \A i \in 1 .. k : Lag(h.echo, l) <= Lag(in[i].key, l)
      /\ Lag(h.echo, l) <= Lag(c.key, l)
  <2>1. 1 \in 1 .. k /\ \A i \in 1 .. k : 1 <= i
    BY <1>3
  <2>2. h.echo = in[1].key
    BY <1>3
  <2> QED BY <2>1, <2>2, <1>1 DEF Linked, k
<1>8. \A m \in Key : Lag(h.echo, l) <= Lag(m, l) => Lag(m, h) = Lag(m, l) - Lag(h.echo, l)
  BY <1>4, LagAfterEcho
<1>9. /\ \A i \in 0 .. n : Lag(h.echo, l) <= Lag(v[i].key, l)
      /\ Lag(h.echo, l) <= Lag(key, l)
  <2>1. Lag(c.key, l) \in Int /\ Lag(h.echo, l) \in Int /\ Lag(key, l) \in Int
    BY <1>4, <1>6
  <2>2. \A i \in 0 .. n : Lag(v[i].key, l) \in Int
    BY <1>4, <1>6
  <2> QED BY <2>1, <2>2, <1>5, <1>7
<1>10. /\ Lag(key, h) = Lag(key, l) - Lag(h.echo, l)
       /\ Lag(c.key, h) = Lag(c.key, l) - Lag(h.echo, l)
       /\ \A i \in 0 .. n : Lag(v[i].key, h) = Lag(v[i].key, l) - Lag(h.echo, l)
       /\ \A i \in 1 .. k : Lag(in[i].key, h) = Lag(in[i].key, l) - Lag(h.echo, l)
  BY <1>4, <1>7, <1>8, <1>9
<1>11. ASSUME NEW x \in Key, NEW y \in Key, Lag(x, l) <= Lag(y, l),
              Lag(x, h) = Lag(x, l) - Lag(h.echo, l), Lag(y, h) = Lag(y, l) - Lag(h.echo, l)
       PROVE  Lag(x, h) <= Lag(y, h)
  <2>1. Lag(x, l) \in Int /\ Lag(y, l) \in Int /\ Lag(h.echo, l) \in Int
    BY <1>4, <1>6
  <2> QED BY <2>1, <1>11
<1>12. /\ \A i \in 0 .. n : Lag(v[i].key, h) <= Lag(key, h) /\ (v[i].key = key => Agrees(v[i], g))
       /\ \A i, j \in 0 .. n : i <= j => Lag(v[i].key, h) <= Lag(v[j].key, h)
  BY <1>1, <1>2, <1>4, <1>10, <1>11 DEF Linked, n
<1>13. \A i \in 1 .. k - 1 : /\ i + 1 \in 1 .. k /\ Tail(in)[i] = in[i + 1]
                             /\ \A j \in 1 .. k - 1 : i <= j => i + 1 <= j + 1
  BY <1>3
<1>14. /\ \A i \in 1 .. k - 1 : /\ Lag(Tail(in)[i].key, h) <= Lag(c.key, h)
                                /\ Tail(in)[i].key = key => Tail(in)[i].type = TypeFor(g)
       /\ \A i, j \in 1 .. k - 1 : i <= j => Lag(Tail(in)[i].key, h) <= Lag(Tail(in)[j].key, h)
  <2>1. \A i \in 1 .. k : /\ Lag(in[i].key, h) <= Lag(c.key, h)
                          /\ in[i].key = key => in[i].type = TypeFor(g)
    BY <1>1, <1>4, <1>10, <1>11 DEF Linked, k
  <2>2. \A i, j \in 1 .. k : i <= j => Lag(in[i].key, h) <= Lag(in[j].key, h)
    BY <1>1, <1>4, <1>10, <1>11 DEF Linked, k
  <2> QED BY <2>1, <2>2, <1>13
<1>15. Linked(key, g, h, c, out, Tail(in), due, 0, v)
  BY <1>1, <1>2, <1>3, <1>12, <1>14 DEF Linked, n
<1> QED BY <1>15 DEF InTouch

\* A peer that reports under the key itself has been told all there is to tell.
LEMMA TouchCaughtUp ==
  ASSUME NEW key \in Key, NEW g, NEW l \in Link, NEW c \in PeerState,
         NEW out \in Seq(Sent), NEW in \in Seq(Report), in # <<>>, Head(in).key = key,
         NEW due, NEW due2, InTouch(key, g, l, c, out, in, due)
  PROVE  InTouch(key, g, l, c, out, in, due2)
<1>1. PICK b \in {0, 1}, v \in [0 .. Len(out) -> View] : Linked(key, g, l, c, out, in, due, b, v)
  BY DEF InTouch
<1>2. Len(out) \in Nat /\ b = 0 /\ Len(in) \in Nat \ {0} /\ Head(in) = in[1]
  BY <1>1, LenProperties, EmptySeq, HeadTailProperties DEF Linked
<1>3. 0 \in b .. Len(out) /\ Len(out) \in b .. Len(out) /\ 0 <= Len(out) /\ 1 \in 1 .. Len(in)
      /\ v[0].key = c.key
  BY <1>1, <1>2 DEF Linked, ViewOf
<1>4. Lag(key, l) <= Lag(c.key, l) /\ Lag(c.key, l) <= Lag(v[Len(out)].key, l)
      /\ Lag(v[Len(out)].key, l) <= Lag(key, l)
  BY <1>1, <1>2, <1>3 DEF Linked
<1>5. c.key \in Key /\ v[Len(out)].key \in Key /\ l.echo \in Key
  <2>1. v[Len(out)] \in View
    BY <1>2
  <2> QED BY <2>1 DEF View, PeerState, Link
<1>6. Lag(key, l) = Lag(v[Len(out)].key, l)
  BY <1>4, <1>5, LagIs
<1>7. v[Len(out)].key = key
  BY <1>5, <1>6, LagTellsApart
<1>8. Linked(key, g, l, c, out, in, due2, b, v)
  BY <1>1, <1>7 DEF Linked
<1> QED BY <1>8 DEF InTouch

\* The peer works: what it knows stays, and what it reports it reports under its key
\* and in its mode, be it written now, deferred, or deferred before and written now.
LEMMA TouchWork ==
  ASSUME NEW key \in Key, NEW g, NEW l \in Link, NEW c \in PeerState, NEW d,
         NEW out \in Seq(Sent), NEW in \in Seq(Report), NEW in2, NEW due, NEW m \in Report,
         InTouch(key, g, l, c, out, in, due),
         c # FreshPeer, ViewOf(d) = ViewOf(c),
         \/ m.key = c.key /\ m.type = (IF c.am_bootstrapping THEN "boot" ELSE "report")
         \/ m = c.deferred /\ m # NoReport,
         d.deferred \in {NoReport, c.deferred, m},
         in2 \in {in, Append(in, m)}
  PROVE  InTouch(key, g, l, d, out, in2, due)
<1>1. PICK b \in {0, 1}, v \in [0 .. Len(out) -> View] : Linked(key, g, l, c, out, in, due, b, v)
  BY DEF InTouch
<1>2. Len(out) \in Nat /\ b = 0
  BY <1>1, LenProperties DEF Linked
<1>3. d.key = c.key /\ v[0] = ViewOf(c) /\ v[0].key = c.key /\ v[0].boot = c.am_bootstrapping
  BY <1>1 DEF Linked, ViewOf
<1>4. c.key = key => Agrees(v[0], g)
  BY <1>1, <1>2, <1>3 DEF Linked
<1>5. m.key = c.key /\ (c.key = key => m.type = TypeFor(g))
  BY <1>1, <1>3, <1>4 DEF Linked, Agrees, TypeFor
<1>6. d.deferred # NoReport =>
        d.deferred.key = d.key /\ (d.key = key => d.deferred.type = TypeFor(g))
  BY <1>1, <1>3, <1>5 DEF Linked
<1>7. /\ \A i \in 1 .. Len(in2) : Lag(in2[i].key, l) <= Lag(c.key, l)
                                  /\ (in2[i].key = key => in2[i].type = TypeFor(g))
      /\ \A i, j \in 1 .. Len(in2) : i <= j => Lag(in2[i].key, l) <= Lag(in2[j].key, l)
  <2>1. CASE in2 = in
    BY <2>1, <1>1 DEF Linked
  <2>2. CASE in2 = Append(in, m)
    <3>1. /\ Len(in) \in Nat /\ Len(in2) = Len(in) + 1 /\ in2[Len(in) + 1] = m
          /\ \A i \in 1 .. Len(in) : in2[i] = in[i]
      BY <2>2, LenProperties, AppendProperties
    <3>2. Lag(c.key, l) \in Int
      BY LagIs DEF PeerState, Link
    <3>3. \A i \in 1 .. Len(in2) : i = Len(in) + 1 \/ i \in 1 .. Len(in)
      BY <3>1
    <3>4. \A i \in 1 .. Len(in2) : Lag(in2[i].key, l) <= Lag(c.key, l)
                                   /\ (in2[i].key = key => in2[i].type = TypeFor(g))
      <4>1. SUFFICES ASSUME NEW i \in 1 .. Len(in2)
                     PROVE  Lag(in2[i].key, l) <= Lag(c.key, l)
                            /\ (in2[i].key = key => in2[i].type = TypeFor(g))
        OBVIOUS
      <4>2. CASE i = Len(in) + 1
        <5>1. in2[i] = m
          BY <4>2, <3>1
        <5> QED BY <5>1, <3>2, <1>5
      <4>3. CASE i \in 1 .. Len(in)
        <5>1. in2[i] = in[i]
          BY <4>3, <3>1
        <5> QED BY <5>1, <4>3, <1>1 DEF Linked
      <4> QED BY <4>2, <4>3, <3>3
    <3>5. ASSUME NEW i \in 1 .. Len(in2), NEW j \in 1 .. Len(in2), i <= j
          PROVE  Lag(in2[i].key, l) <= Lag(in2[j].key, l)
      <4>1. CASE j = Len(in) + 1
        BY <4>1, <3>1, <3>4, <1>5
      <4>2. CASE j # Len(in) + 1
        <5>1. i \in 1 .. Len(in) /\ j \in 1 .. Len(in)
          BY <4>2, <3>1, <3>5
        <5> QED BY <5>1, <3>1, <3>5, <1>1 DEF Linked
      <4> QED BY <4>1, <4>2
    <3> QED BY <3>4, <3>5
  <2> QED BY <2>1, <2>2
<1>8. Linked(key, g, l, d, out, in2, due, 0, v)
  BY <1>1, <1>2, <1>3, <1>6, <1>7 DEF Linked
<1> QED BY <1>8 DEF InTouch

\* A peer joins: the first it is going to hear is the whole state.
LEMMA TouchJoin ==
  ASSUME NEW key \in Key, key # 0, NEW g \in Sense, NEW l \in Link, l.echo = key, NEW due,
         NEW m \in StateSync, m.key = key, m.am_bootstrapping = g.boot, m.grid = g.grid,
         ~g.boot => m.centre = g.centre,
         g.via # NoComplexity => Demod[g.grid][g.centre][g.via] = g.centre,
         FreshPeer \in PeerState
  PROVE  InTouch(key, g, l, FreshPeer, <<m>>, <<>>, due)
<1> DEFINE v == [i \in 0 .. 1 |-> IF i = 0 THEN ViewOf(FreshPeer) ELSE ViewAfter(ViewOf(FreshPeer), m)]
           out == <<m>>
<1>1. m \in Sent /\ ViewOf(FreshPeer) \in View
  BY DEF Sent, StateSync, ViewOf, View, PeerState
<1>2. ViewAfter(ViewOf(FreshPeer), m) \in View
  BY <1>1, ViewAfterIsAView
<1>3. Len(out) = 1 /\ out[1] = m
  OBVIOUS
<1>4. v \in [0 .. Len(out) -> View] /\ v[0] = ViewOf(FreshPeer)
      /\ v[1] = ViewAfter(ViewOf(FreshPeer), m)
  BY <1>1, <1>2, <1>3
<1>5. v[1].key = key /\ Agrees(v[1], g)
  <2>1. ViewOf(FreshPeer).key = 0
    BY DEF ViewOf, FreshPeer
  <2>2. v[1] = [key |-> m.key, grid |-> m.grid, centre |-> m.centre, boot |-> m.am_bootstrapping]
    <3>1. m.type = "state"
      BY DEF StateSync
    <3> HIDE DEF v
    <3> QED BY <3>1, <2>1, <1>4 DEF ViewAfter
  <2> HIDE DEF v
  <2> QED BY <2>2 DEF Agrees
<1>6. Lag(key, l) \in Int /\ 1 \in {0, 1}
  BY LagIs DEF Link
<1>7. out[1].type = "state" /\ out[1].key # 0
  BY <1>3 DEF StateSync
<1>8. FreshPeer.deferred = NoReport
  BY DEF FreshPeer
<1>9. Len(<<>>) = 0
  OBVIOUS
<1> HIDE DEF v, out
<1>10. Linked(key, g, l, FreshPeer, out, <<>>, due, 1, v)
  <2>1. \A i \in 1 .. Len(out) : v[i] = ViewAfter(v[i - 1], out[i])
    BY <1>3, <1>4
  <2>2. \A i \in 1 .. Len(out) : i = 1
    BY <1>3
  <2>3. \A i \in 1 .. Len(out) : Lag(v[i].key, l) <= Lag(key, l) /\ (v[i].key = key => Agrees(v[i], g))
    BY <2>2, <1>5, <1>6
  <2>4. \A i, j \in 1 .. Len(out) : i <= j => Lag(v[i].key, l) <= Lag(v[j].key, l)
    BY <2>2, <1>5, <1>6
  <2> QED BY <2>1, <2>3, <2>4, <1>3, <1>4, <1>5, <1>7, <1>8, <1>9 DEF Linked
<1> QED BY <1>4, <1>10 DEF InTouch, out

\* A report with the current key was made by a peer that knows what the key stands for.
LEMMA TouchSays ==
  ASSUME NEW key \in Key, NEW g, NEW l \in Link, NEW c \in PeerState,
         NEW out \in Seq(Sent), NEW in \in Seq(Report), NEW due, NEW m \in Report, m.key = key,
         InTouch(key, g, l, c, out, in, due),
         \/ \E i \in 1 .. Len(in) : m = in[i]
         \/ c.deferred # NoReport /\ m = c.deferred
  PROVE  m.type = TypeFor(g) /\ c.key = key /\ Agrees(ViewOf(c), g)
<1>1. PICK b \in {0, 1}, v \in [0 .. Len(out) -> View] : Linked(key, g, l, c, out, in, due, b, v)
  BY DEF InTouch
<1>2. b = 0
  <2>1. b = 1 => Len(in) = 0 /\ c.deferred = NoReport
    BY <1>1 DEF Linked, FreshPeer
  <2> QED BY <2>1
<1>3. 0 \in b .. Len(out) /\ v[0] = ViewOf(c) /\ v[0].key = c.key
  BY <1>1, <1>2, LenProperties DEF Linked, ViewOf
<1>4. Lag(key, l) \in Int /\ Lag(c.key, l) \in Int /\ c.key \in Key /\ l.echo \in Key
  BY LagIs DEF PeerState, Link
<1>5. Lag(c.key, l) <= Lag(key, l)
  BY <1>1, <1>3 DEF Linked
<1>6. CASE \E i \in 1 .. Len(in) : m = in[i]
  <2>1. m.type = TypeFor(g) /\ Lag(key, l) <= Lag(c.key, l)
    BY <1>1, <1>6 DEF Linked
  <2>2. Lag(c.key, l) = Lag(key, l)
    BY <2>1, <1>4, <1>5
  <2>3. c.key = key
    BY <2>2, <1>4, LagTellsApart
  <2> QED BY <2>1, <2>3, <1>1, <1>3 DEF Linked
<1>7. CASE c.deferred # NoReport /\ m = c.deferred
  BY <1>7, <1>1, <1>3 DEF Linked
<1> QED BY <1>6, <1>7

-----------------------------------------------------------------------------
(* What the operators of the two programs return.                           *)

\* The blank ends of a connection, and the keys a program starts from.
LEMMA BlankFacts ==
  /\ 0 \in Key /\ 1 \in Key /\ \A k \in Key : (k + 1) % KeyMod \in Key
  /\ NoLink \in Link /\ FreshPeer \in PeerState
<1>1. KeyMod \in Nat /\ KeyMod > 1
  BY ConvergerAssumption
<1>2. 0 \in Key /\ 1 \in Key /\ \A k \in Key : (k + 1) % KeyMod \in Key
  BY <1>1, SMT DEF Key
<1>3. 0 \in Grid /\ Origin \in Place /\ Largish \in Likelihood
  BY GridFacts, LikelihoodFacts, SearchAssumption
<1>4. NoLink \in Link
  BY <1>2 DEF NoLink, Link
<1>5. FreshPeer \in PeerState
  BY <1>2, <1>3 DEF FreshPeer, PeerState
<1> QED BY <1>2, <1>4, <1>5

\* A search that starts, one that is saved, one that is loaded, what is sent of one.
LEMMA SearchForms ==
  /\ FreshSearch \in Search /\ Waiting(FreshSearch.grid) # {}
  /\ \A s \in Search : Saved(s) \in Image
  /\ \A d \in Image : Loaded(d) \in Search /\ Loaded(d).grid = d.grid
  /\ \A s \in Search, k \in Key :
       /\ Cooked(s, k) \in CookedSync
       /\ Cooked(s, k).key = k /\ Cooked(s, k).grid = s.grid
       /\ Cooked(s, k).centre = s.centre /\ Cooked(s, k).value = s.e_min
       /\ Cooked(s, k).am_bootstrapping = s.am_bootstrapping
<1>1. /\ 0 \in Grid /\ Waiting(0) # {} /\ Origin \in Place /\ Largish \in Likelihood
      /\ 1 \in Level /\ LevelRange(1) \in SUBSET Complexity
  BY GridFacts, LikelihoodFacts, SearchAssumption, LevelFacts
<1>2. FreshSearch \in Search /\ FreshSearch.grid = 0
  <2> HIDE DEF Level, Grid, Complexity, Likelihood
  <2> QED BY <1>1 DEF FreshSearch, Search
<1>3. \A s \in Search : Saved(s) \in Image
  BY DEF Saved, Search, Image
<1>4. \A d \in Image : Loaded(d) \in Search /\ Loaded(d).grid = d.grid
  BY DEF Loaded, Search, Image
<1>5. \A s \in Search, k \in Key :
       /\ Cooked(s, k) \in CookedSync
       /\ Cooked(s, k).key = k /\ Cooked(s, k).grid = s.grid
       /\ Cooked(s, k).centre = s.centre /\ Cooked(s, k).value = s.e_min
       /\ Cooked(s, k).am_bootstrapping = s.am_bootstrapping
  BY DEF Cooked, CookedSync, Search
<1> QED BY <1>1, <1>2, <1>3, <1>4, <1>5

\* What the server sends is a message, whatever the share that it is sent with.
WithShare(m, r) == [m EXCEPT !.remaining = r]

LEMMA StateForms ==
  ASSUME NEW m \in CookedSync, NEW r \in SUBSET Complexity
  PROVE  LET n == WithShare(StateFor(m), r)
         IN /\ n \in StateSync /\ n \in Sent /\ n.type = "state" /\ n.key = m.key
            /\ n.grid = m.grid /\ n.centre = m.centre
            /\ n.am_bootstrapping = m.am_bootstrapping
<1> DEFINE n == WithShare(StateFor(m), r)
<1>1. /\ n \in StateSync /\ n.type = "state" /\ n.key = m.key
      /\ n.grid = m.grid /\ n.centre = m.centre /\ n.am_bootstrapping = m.am_bootstrapping
  BY DEF WithShare, StateFor, CookedSync, StateSync
<1>2. StateSync \subseteq Sent
  BY DEF Sent, StateSync
<1> HIDE DEF n
<1> QED BY <1>1, <1>2 DEF n

LEMMA RecentreForms ==
  ASSUME NEW k \in Key, NEW v \in Likelihood, NEW x \in Complexity, NEW r \in SUBSET Complexity
  PROVE  LET n == WithShare(RecentreFor(k, v, x), r)
         IN n \in Sent /\ n.type = "recentre" /\ n.key = k /\ n.x = x
<1> DEFINE n == WithShare(RecentreFor(k, v, x), r)
<1>1. n \in RecentreOnly /\ n.type = "recentre" /\ n.key = k /\ n.x = x
  BY DEF WithShare, RecentreFor, RecentreOnly
<1> HIDE DEF n
<1>2. n \in Sent
  BY <1>1 DEF Sent
<1> QED BY <1>1, <1>2 DEF n

LEMMA ComplexityForms ==
  ASSUME NEW b \in BOOLEAN, NEW r \in SUBSET Complexity
  PROVE  LET n == WithShare(ComplexityFor(b), r)
         IN n \in Sent /\ n.type = "complexity"
<1> DEFINE n == WithShare(ComplexityFor(b), r)
<1>1. n \in ComplexityOnly /\ n.type = "complexity"
  BY DEF WithShare, ComplexityFor, ComplexityOnly
<1> HIDE DEF n
<1>2. n \in Sent
  BY <1>1 DEF Sent, ComplexityOnly
<1> QED BY <1>1, <1>2 DEF n

\* A share is a part of what is dealt out, and dealing changes nothing else.
LEMMA DealtFacts ==
  ASSUME NEW lk \in [Peers -> Link], NEW rem \in SUBSET Complexity
  PROVE  /\ Dealt(lk, rem) \in [Peers -> Link]
         /\ \A p \in Peers : /\ Dealt(lk, rem)[p].echo = lk[p].echo
                             /\ Dealt(lk, rem)[p].writing = lk[p].writing
                             /\ Dealt(lk, rem)[p].late = lk[p].late
<1>1. \A n, i : Share(rem, n, i) \in SUBSET Complexity
  BY DEF Share
<1>2. \A l \in Link, r \in SUBSET Complexity :
        LET d == [l EXCEPT !.remaining = r]
        IN d \in Link /\ d.echo = l.echo /\ d.writing = l.writing /\ d.late = l.late
  BY DEF Link
<1>3. ASSUME NEW p \in Peers
      PROVE  /\ Dealt(lk, rem)[p] \in Link /\ Dealt(lk, rem)[p].echo = lk[p].echo
             /\ Dealt(lk, rem)[p].writing = lk[p].writing
             /\ Dealt(lk, rem)[p].late = lk[p].late
  <2> DEFINE i == CHOOSE j \in 1 .. Len(processing) : processing[j] = p
             r == Share(rem, Len(processing), i)
  <2>1. Dealt(lk, rem)[p] = IF p \notin Processing THEN lk[p] ELSE [lk[p] EXCEPT !.remaining = r]
    BY DEF Dealt
  <2>2. r \in SUBSET Complexity
    BY <1>1
  <2> HIDE DEF r
  <2> QED BY <2>1, <2>2, <1>2
<1>4. Dealt(lk, rem) = [p \in Peers |-> Dealt(lk, rem)[p]]
  BY DEF Dealt
<1> QED BY <1>3, <1>4

LEMMA PostedFacts ==
  ASSUME NEW key, NEW l \in Link
  PROVE  LET h == Posted(key, l) IN
         /\ h \in Link /\ h.echo = l.echo
         /\ CanWrite(key, l) => h.late = l.late
         /\ ~CanWrite(key, l) => h.late /\ h.writing = l.writing
<1>1. CASE CanWrite(key, l)
  BY <1>1 DEF Posted, Link
<1>2. CASE ~CanWrite(key, l)
  BY <1>2 DEF Posted, Link
<1> QED BY <1>1, <1>2

\* What is announced is a message to each peer, with its share, and the ends of the
\* connections stay what they are.
LEMMA AnnounceTypes ==
  ASSUME NEW lk \in [Peers -> Link], NEW key, NEW to, NEW gone, NEW m,
         s2p \in [Peers -> Seq(Sent)],
         \A r \in SUBSET Complexity : WithShare(m, r) \in Sent,
         Announce(lk, key, to, gone, m)
  PROVE  link' \in [Peers -> Link] /\ s2p' \in [Peers -> Seq(Sent)]
<1>1. link' \in [Peers -> Link]
  BY PostedFacts, BlankFacts DEF Announce
<1>2. ASSUME NEW p \in Peers
      PROVE  Append(s2p[p], WithShare(m, lk[p].remaining)) \in Seq(Sent)
  <2>1. lk[p].remaining \in SUBSET Complexity
    BY DEF Link
  <2> QED BY <2>1, AppendProperties
<1>3. \A p \in Peers : s2p[p] \in Seq(Sent) /\ <<>> \in Seq(Sent)
  BY EmptySeq
<1>4. s2p' \in [Peers -> Seq(Sent)]
  BY <1>2, <1>3 DEF Announce, WithShare
<1> QED BY <1>1, <1>4

\* Forgetting connections leaves the others, in their order.
LEMMA ForgetFacts ==
  ASSUME NEW gone, processing \in Seq(Peers), peer \in [Peers -> PeerState], Forget(gone)
  PROVE  /\ processing' \in Seq(Peers) /\ Members(processing') = Processing \ gone
         /\ peer' \in [Peers -> PeerState]
         /\ \A p \in Peers : peer'[p] = IF p \in gone THEN FreshPeer ELSE peer[p]
<1>1. processing' \in Seq(Peers) /\ Members(processing') = Processing \ gone
  <2>1. processing' = Only(processing, Processing \ gone)
    BY DEF Forget, Without, Processing
  <2> QED BY <2>1, OnlyFacts DEF Processing
<1>2. peer' = [p \in Peers |-> IF p \in gone THEN FreshPeer ELSE peer[p]]
  BY DEF Forget
<1>3. peer' \in [Peers -> PeerState]
  BY <1>2, BlankFacts
<1> QED BY <1>1, <1>2, <1>3

-----------------------------------------------------------------------------
(* The types, and when which part of the state is at rest.                  *)

TaskTypes ==
  /\ status \in {"active", "inactive", "converged", "failed"}
  /\ disk \in Image \cup {NoImage} /\ faults \in Nat /\ evaluated \subseteq Grid \X Place
SearchTypes ==
  /\ search \in Search /\ io_key \in Key /\ sync_msg \in CookedSync
  /\ recentre_x \in Complexity \cup {NoComplexity} /\ redistribute \in BOOLEAN
  /\ coroutine \in {"none", "level", "recentre"}
  /\ sync_timer \in {"off", "sync", "converged"}
  /\ save_timer \in BOOLEAN /\ dont_delay \in BOOLEAN
NetTypes ==
  /\ processing \in Seq(Peers) /\ link \in [Peers -> Link] /\ peer \in [Peers -> PeerState]
  /\ s2p \in [Peers -> Seq(Sent)] /\ p2s \in [Peers -> Seq(Report)]

\* While a task runs there are ranges to wait for; a coroutine that recentres knows
\* to where; whoever does not process has no connection.
Steady ==
  /\ sync_timer = "converged" => coroutine = "none"
  /\ status = "active" /\ sync_timer # "converged" => Waiting(search.grid) # {}
  /\ coroutine = "recentre" => recentre_x # NoComplexity
  /\ status # "active" => processing = <<>>

Blank(p) == link[p] = NoLink /\ peer[p] = FreshPeer /\ s2p[p] = <<>> /\ p2s[p] = <<>>
Apart == \A p \in Peers \ Processing : Blank(p)

TypeInv == TaskTypes /\ SearchTypes /\ NetTypes /\ Steady /\ Apart

LEMMA TypeInvIsTypeOK == TypeInv => TypeOK
<1>1. Sent \subseteq StateSync \cup RecentreOnly \cup ComplexityOnly
  BY DEF Sent
<1>2. \A s \in Seq(Sent) : s \in Seq(StateSync \cup RecentreOnly \cup ComplexityOnly)
  BY <1>1
<1> QED BY <1>2 DEF TypeInv, TaskTypes, SearchTypes, NetTypes, TypeOK, Report

LEMMA StartTypes ==
  ASSUME NEW s \in Search, StartFrom(s)
  PROVE  SearchTypes' /\ search' = s /\ coroutine' = "none" /\ sync_timer' = "off"
BY SearchForms, BlankFacts DEF StartFrom, SearchTypes

LEMMA NoConnectionsTypes ==
  ASSUME NoConnections
  PROVE  NetTypes' /\ Apart' /\ processing' = <<>> /\ Processing' = {}
<1>1. <<>> \in Seq(Peers) /\ <<>> \in Seq(Sent) /\ <<>> \in Seq(Report) /\ Len(<<>>) = 0
  BY EmptySeq
<1>2. NetTypes' /\ processing' = <<>>
  BY <1>1, BlankFacts DEF NoConnections, NetTypes
<1>3. Processing' = {}
  BY <1>1, <1>2 DEF Processing, Members
<1>4. Apart'
  BY DEF NoConnections, Apart, Blank
<1> QED BY <1>2, <1>3, <1>4

LEMMA ConcludeTypes ==
  ASSUME TaskTypes, SearchTypes, NEW s \in Search, Conclude(s)
  PROVE  /\ search' = s /\ coroutine' = "none" /\ sync_timer' = "off"
         /\ recentre_x' = NoComplexity /\ redistribute' = FALSE
         /\ disk' \in Image \cup {NoImage} /\ save_timer' \in BOOLEAN /\ dont_delay' \in BOOLEAN
<1>1. Saved(s) \in Image
  BY SearchForms
<1> QED BY <1>1 DEF Conclude, TaskTypes, SearchTypes

\* Whoever is dropped while something is announced is without a connection.
LEMMA AnnounceApart ==
  ASSUME TypeInv, NEW lk, NEW key, NEW to \in SUBSET Processing, NEW gone, NEW m,
         Announce(lk, key, to, gone, m), Forget(gone),
         \A q \in Peers \ Processing : lk[q] = link[q],
         \A q \in gone : p2s'[q] = <<>>,
         \A q \in Peers \ (Processing \cup gone) : p2s'[q] = p2s[q]
  PROVE  Apart'
<1>1. /\ Members(processing') = Processing \ gone
      /\ \A p \in Peers : peer'[p] = IF p \in gone THEN FreshPeer ELSE peer[p]
  BY ForgetFacts DEF TypeInv, NetTypes
<1>2. SUFFICES ASSUME NEW q \in Peers, q \notin Processing \ gone PROVE Blank(q)'
  BY <1>1 DEF Apart, Processing
<1>3. CASE q \in gone
  BY <1>3, <1>1 DEF Announce, Blank
<1>4. CASE q \notin gone
  <2>1. q \notin Processing /\ q \notin to /\ Blank(q)
    BY <1>2, <1>4 DEF TypeInv, Apart
  <2> QED BY <2>1, <1>4, <1>1 DEF Announce, Blank
<1> QED BY <1>3, <1>4

\* The same when nobody is dropped.
LEMMA AnnounceToSome ==
  ASSUME TypeInv, NEW lk, NEW key, NEW to \in SUBSET Processing, NEW m,
         Announce(lk, key, to, {}, m), UNCHANGED <<processing, peer, p2s>>,
         \A q \in Peers \ Processing : lk[q] = link[q]
  PROVE  Apart'
<1>1. Processing' = Processing
  BY DEF Processing
<1>2. SUFFICES ASSUME NEW q \in Peers, q \notin Processing PROVE Blank(q)'
  BY <1>1 DEF Apart
<1>3. Blank(q) /\ q \notin to
  BY <1>2 DEF TypeInv, Apart
<1> QED BY <1>2, <1>3 DEF Announce, Blank

-----------------------------------------------------------------------------
(* Every action keeps them: the connections.                                *)

LEMMA TypeJoin ==
  ASSUME TypeInv, NEW p \in Peers, Join(p)
  PROVE  TypeInv' /\ Processing' = Processing \cup {p} /\ p \notin Processing
<1>1. TaskTypes' /\ SearchTypes'
  BY DEF TypeInv, Join, taskVars, TaskTypes, SearchTypes, PostedTimer
<1>2. StateFor(sync_msg) \in Sent
  <2>1. StateFor(sync_msg) \in StateSync
    BY DEF TypeInv, SearchTypes, StateFor, CookedSync, StateSync
  <2> QED BY <2>1 DEF Sent, StateSync
<1>3. <<StateFor(sync_msg)>> \in Seq(Sent)
  BY <1>2
<1>4. [NoLink EXCEPT !.echo = io_key, !.writing = TRUE] \in Link
  BY BlankFacts DEF TypeInv, SearchTypes, Link
<1>5. processing' = Append(processing, p) /\ processing \in Seq(Peers)
  BY DEF Join, TypeInv, NetTypes
<1>6. NetTypes'
  BY <1>3, <1>4, <1>5, AppendProperties DEF TypeInv, Join, NetTypes
<1>7. Processing' = Processing \cup {p}
  <2>1. Len(processing) \in Nat /\ Len(processing') = Len(processing) + 1
        /\ processing'[Len(processing) + 1] = p
        /\ \A i \in 1 .. Len(processing) : processing'[i] = processing[i]
    BY <1>5, AppendProperties, LenProperties
  <2> QED BY <2>1 DEF Processing, Members
<1>8. Steady'
  BY DEF TypeInv, Join, Steady, taskVars, PostedTimer
<1>9. Apart'
  <2>1. SUFFICES ASSUME NEW q \in Peers, q \notin Processing \cup {p} PROVE Blank(q)'
    BY <1>7 DEF Apart
  <2>2. Blank(q) /\ q # p
    BY <2>1 DEF TypeInv, Apart
  <2> QED BY <2>2 DEF Join, Blank, TypeInv, NetTypes
<1> QED BY <1>1, <1>6, <1>7, <1>8, <1>9 DEF TypeInv, Join

LEMMA TypeLose ==
  ASSUME TypeInv, NEW p \in Peers, p \in Processing, Lose(p), faults' \in Nat
  PROVE  TypeInv' /\ Processing' = Processing \ {p}
<1>1. TaskTypes' /\ SearchTypes'
  BY DEF TypeInv, Lose, serverVars, TaskTypes, SearchTypes
<1>2. /\ processing' \in Seq(Peers) /\ Processing' = Processing \ {p}
      /\ peer' \in [Peers -> PeerState]
      /\ \A q \in Peers : peer'[q] = IF q = p THEN FreshPeer ELSE peer[q]
  BY ForgetFacts DEF TypeInv, NetTypes, Lose, Processing
<1>3. NetTypes'
  BY <1>2, BlankFacts, EmptySeq DEF TypeInv, Lose, NetTypes
<1>4. Steady'
  <2>1. status = "active"
    <3>1. processing # <<>>
      BY EmptySeq DEF Processing, Members
    <3> QED BY <3>1 DEF TypeInv, Steady
  <2> QED BY <2>1 DEF TypeInv, Lose, serverVars, Steady
<1>5. Apart'
  <2>1. SUFFICES ASSUME NEW q \in Peers, q \notin Processing \ {p} PROVE Blank(q)'
    BY <1>2 DEF Apart
  <2>2. q # p => Blank(q)
    BY <2>1 DEF TypeInv, Apart
  <2> QED BY <2>2, <1>2 DEF Lose, Blank, TypeInv, NetTypes
<1> QED BY <1>1, <1>2, <1>3, <1>4, <1>5 DEF TypeInv

LEMMA TypeServerWriteDone ==
  ASSUME TypeInv, NEW p \in Peers, ServerWriteDone(p)
  PROVE  TypeInv'
<1> DEFINE done == [link[p] EXCEPT !.writing = FALSE, !.late = FALSE]
           lk == [link EXCEPT ![p] = done]
<1>1. TaskTypes' /\ SearchTypes' /\ Steady'
  BY DEF TypeInv, ServerWriteDone, serverVars, taskVars, TaskTypes, SearchTypes, Steady
<1>2. lk \in [Peers -> Link] /\ \A q \in Peers : q # p => lk[q] = link[q]
  BY DEF TypeInv, NetTypes, Link
<1>3. CASE link[p].late
  <2>1. Announce(lk, io_key, {p}, {}, StateFor(sync_msg)) /\ UNCHANGED <<processing, peer, p2s>>
        /\ p \in Processing
    BY <1>3 DEF ServerWriteDone
  <2>2. \A r \in SUBSET Complexity : WithShare(StateFor(sync_msg), r) \in Sent
    BY StateForms DEF TypeInv, SearchTypes
  <2> HIDE DEF lk
  <2>3. link' \in [Peers -> Link] /\ s2p' \in [Peers -> Seq(Sent)]
    BY <2>1, <2>2, <1>2, AnnounceTypes DEF TypeInv, NetTypes
  <2>4. Apart'
    BY <2>1, <1>2, AnnounceToSome
  <2> QED BY <2>1, <2>3, <2>4, <1>1 DEF TypeInv, NetTypes
<1>4. CASE ~link[p].late
  <2>1. link' = lk /\ UNCHANGED <<processing, peer, p2s, s2p>> /\ p \in Processing
    BY <1>4 DEF ServerWriteDone
  <2> HIDE DEF lk
  <2>2. NetTypes' /\ Apart'
    BY <2>1, <1>2 DEF TypeInv, NetTypes, Apart, Blank, Processing
  <2> QED BY <2>2, <1>1 DEF TypeInv
<1> QED BY <1>3, <1>4

-----------------------------------------------------------------------------
(* Every action keeps them: the sync and its coroutine.                     *)

\* What a sync leaves alone, and the links that it may deal to.
Elsewhere == UNCHANGED <<status, faults, evaluated>>
LinksOf(lk) == lk \in [Peers -> Link] /\ \A q \in Peers \ Processing : lk[q] = link[q]

LEMMA DealtLinks ==
  ASSUME TypeInv, NEW lk, LinksOf(lk), NEW rem \in SUBSET Complexity
  PROVE  LinksOf(Dealt(lk, rem))
<1>1. \A q \in Peers \ Processing : Dealt(lk, rem)[q] = lk[q]
  BY DEF Dealt
<1> QED BY <1>1, DealtFacts DEF LinksOf

\* A deal leaves what a link remembers of the messages it writes.
LEMMA DealtKeeps ==
  ASSUME NEW lk, LinksOf(lk), NEW rem \in SUBSET Complexity
  PROVE  \A q \in Peers : /\ Dealt(lk, rem)[q].echo = lk[q].echo
                          /\ Dealt(lk, rem)[q].writing = lk[q].writing
                          /\ Dealt(lk, rem)[q].late = lk[q].late
<1>1. lk \in [Peers -> Link]
  BY DEF LinksOf
<1> QED BY <1>1, DealtFacts

LEMMA MergedLinksFacts ==
  ASSUME TypeInv
  PROVE  /\ LinksOf(MergedLinks) /\ LinksOf(link)
         /\ \A p \in Peers : /\ MergedLinks[p].echo = link[p].echo
                             /\ MergedLinks[p].writing = link[p].writing
                             /\ MergedLinks[p].late = link[p].late
<1>1. \A r : \A l \in Link : LET h == [l EXCEPT !.remaining = @ \ r]
                               IN h \in Link /\ h.echo = l.echo /\ h.writing = l.writing /\ h.late = l.late
  BY DEF Link
<1>2. link \in [Peers -> Link] /\ \A p \in Peers : link[p] \in Link
  BY DEF TypeInv, NetTypes
<1>3. ASSUME NEW p \in Peers
      PROVE  /\ MergedLinks[p] \in Link /\ MergedLinks[p].echo = link[p].echo
             /\ MergedLinks[p].writing = link[p].writing /\ MergedLinks[p].late = link[p].late
  BY <1>1, <1>2, ZenonT(40) DEF MergedLinks
<1>4. \A q \in Peers \ Processing : MergedLinks[q] = link[q]
  BY DEF MergedLinks, Assisted
<1>5. MergedLinks = [p \in Peers |-> MergedLinks[p]]
  BY DEF MergedLinks
<1>6. LinksOf(MergedLinks)
  <2> HIDE DEF MergedLinks
  <2> QED BY <1>3, <1>4, <1>5 DEF LinksOf
<1> QED BY <1>2, <1>3, <1>6 DEF LinksOf

\* A new key is announced, and whoever has wrapped around is dropped.
LEMMA AnnouncedToAll ==
  ASSUME TypeInv, NEW lk, LinksOf(lk), NEW key, NEW gone \in SUBSET Processing, NEW m,
         \A r \in SUBSET Complexity : WithShare(m, r) \in Sent,
         Announce(lk, key, Processing \ gone, gone, m), Forget(gone),
         \A q \in gone : p2s'[q] = <<>>,
         \A q \in Peers \ (Processing \cup gone) : p2s'[q] = p2s[q],
         p2s' \in [Peers -> Seq(Report)]
  PROVE  NetTypes' /\ Apart' /\ Processing' = Processing \ gone
<1>1. link' \in [Peers -> Link] /\ s2p' \in [Peers -> Seq(Sent)]
  BY AnnounceTypes DEF TypeInv, NetTypes, LinksOf
<1>2. /\ processing' \in Seq(Peers) /\ Members(processing') = Processing \ gone
      /\ peer' \in [Peers -> PeerState]
  BY ForgetFacts DEF TypeInv, NetTypes
<1>3. Apart'
  BY AnnounceApart DEF LinksOf
<1> QED BY <1>1, <1>2, <1>3 DEF NetTypes, Processing

LEMMA ForgottenReports ==
  ASSUME TypeInv, NEW gone \in SUBSET Processing, ForgetWithReports(gone)
  PROVE  /\ Forget(gone) /\ p2s' \in [Peers -> Seq(Report)]
         /\ \A q \in gone : p2s'[q] = <<>>
         /\ \A q \in Peers \ gone : p2s'[q] = p2s[q]
<1>1. gone \subseteq Peers /\ p2s \in [Peers -> Seq(Report)] /\ <<>> \in Seq(Report)
  <2>1. Processing \subseteq Peers
    BY LenProperties DEF TypeInv, NetTypes, Processing, Members
  <2> QED BY <2>1, EmptySeq DEF TypeInv, NetTypes
<1> QED BY <1>1 DEF ForgetWithReports

LEMMA TypeSendRecentre ==
  ASSUME TypeInv, Elsewhere, NEW s \in Search, Waiting(s.grid) # {}, NEW lk, LinksOf(lk),
         NEW x \in Complexity, SendRecentre(s, lk, x), status = "active"
  PROVE  TypeInv' /\ Processing' = Processing \ WrappedAround(lk, NextKey)
<1> DEFINE gone == WrappedAround(lk, NextKey)
           m == RecentreFor(NextKey, s.e_min, x)
<1>1. gone \in SUBSET Processing
  BY DEF WrappedAround
<1>2. NextKey \in Key /\ s.e_min \in Likelihood /\ s.remaining \in SUBSET Complexity
  BY BlankFacts DEF TypeInv, SearchTypes, NextKey, Search
<1>3. \A r \in SUBSET Complexity : WithShare(m, r) \in Sent
  BY <1>2, RecentreForms
<1>4. LinksOf(Dealt(lk, s.remaining))
  BY <1>2, DealtLinks
<1>5. /\ Announce(Dealt(lk, s.remaining), NextKey, Processing \ gone, gone, m)
      /\ ForgetWithReports(gone) /\ Conclude(s)
      /\ io_key' = NextKey /\ sync_msg' = Cooked(s, NextKey)
  BY DEF SendRecentre
<1> HIDE DEF gone, m
<1>6. NetTypes' /\ Apart' /\ Processing' = Processing \ gone
  BY <1>1, <1>3, <1>4, <1>5, ForgottenReports, AnnouncedToAll
<1>7. TaskTypes' /\ SearchTypes' /\ Steady'
  BY <1>2, <1>5, ConcludeTypes, SearchForms
     DEF TypeInv, TaskTypes, SearchTypes, Steady, Elsewhere
<1> QED BY <1>6, <1>7 DEF TypeInv, gone

LEMMA TypeSendShrunk ==
  ASSUME TypeInv, Elsewhere, NEW s \in Search, SendShrunk(s, link), status = "active"
  PROVE  TypeInv' /\ (Waiting(s.grid) # {} =>
                        Processing' = Processing \ WrappedAround(link, NextKey))
<1>1. NextKey \in Key /\ Saved(s) \in Image /\ Cooked(s, NextKey) \in CookedSync /\ LinksOf(link)
  BY BlankFacts, SearchForms, MergedLinksFacts DEF TypeInv, SearchTypes, NextKey
<1>2. CASE Waiting(s.grid) = {}
  <2>1. [sync_msg EXCEPT !.grid = s.grid, !.centre = s.centre] \in CookedSync
    BY DEF TypeInv, SearchTypes, CookedSync, Search
  <2>2. TaskTypes' /\ SearchTypes'
    BY <1>1, <1>2, <2>1 DEF SendShrunk, TypeInv, TaskTypes, SearchTypes, Elsewhere
  <2>3. Steady'
    BY <1>2 DEF SendShrunk, Steady, TypeInv, Elsewhere
  <2>4. NetTypes' /\ Apart'
    BY <1>2 DEF SendShrunk, TypeInv, NetTypes, Apart, Blank, Processing
  <2> QED BY <1>2, <2>2, <2>3, <2>4 DEF TypeInv
<1>3. CASE Waiting(s.grid) # {}
  <2> DEFINE gone == WrappedAround(link, NextKey)
             m == StateFor(Cooked(s, NextKey))
  <2>1. gone \in SUBSET Processing
    BY DEF WrappedAround
  <2>2. \A r \in SUBSET Complexity : WithShare(m, r) \in Sent
    BY <1>1, StateForms
  <2>3. /\ Announce(link, NextKey, Processing \ gone, gone, m)
        /\ ForgetWithReports(gone) /\ Conclude(s)
        /\ io_key' = NextKey /\ sync_msg' = Cooked(s, NextKey)
    BY <1>3 DEF SendShrunk
  <2> HIDE DEF gone, m
  <2>4. NetTypes' /\ Apart' /\ Processing' = Processing \ gone
    BY <1>1, <2>1, <2>2, <2>3, ForgottenReports, AnnouncedToAll
  <2>5. TaskTypes' /\ SearchTypes' /\ Steady'
    BY <1>1, <1>3, <2>3, ConcludeTypes
       DEF TypeInv, TaskTypes, SearchTypes, Steady, Elsewhere
  <2> QED BY <2>4, <2>5 DEF TypeInv, gone
<1> QED BY <1>2, <1>3

LEMMA TypeSendShares ==
  ASSUME TypeInv, Elsewhere, NEW s \in Search, Waiting(s.grid) # {}, NEW lk, LinksOf(lk),
         NEW to \in SUBSET Processing, NEW b \in BOOLEAN,
         Conclude(s), Keep, Announce(lk, io_key, to, {}, ComplexityFor(b)), status = "active"
  PROVE  TypeInv'
<1>1. \A r \in SUBSET Complexity : WithShare(ComplexityFor(b), r) \in Sent
  BY ComplexityForms
<1>2. link' \in [Peers -> Link] /\ s2p' \in [Peers -> Seq(Sent)]
  BY <1>1, AnnounceTypes DEF TypeInv, NetTypes, LinksOf
<1>3. NetTypes' /\ Apart'
  BY <1>2, AnnounceToSome DEF TypeInv, NetTypes, LinksOf, Keep
<1>4. TaskTypes' /\ SearchTypes' /\ Steady'
  BY ConcludeTypes DEF TypeInv, TaskTypes, SearchTypes, Steady, Elsewhere, Keep
<1> QED BY <1>3, <1>4 DEF TypeInv

LEMMA TypeYield ==
  ASSUME TypeInv, Elsewhere, NEW s \in Search, Waiting(s.grid) # {}, NEW lk, LinksOf(lk),
         NEW where \in {"level", "recentre"}, NEW x \in Complexity \cup {NoComplexity},
         where = "recentre" => x # NoComplexity,
         Yield(where, s, lk, x), sync_msg' \in CookedSync, sync_timer = "sync", status = "active"
  PROVE  TypeInv'
<1>1. TaskTypes' /\ SearchTypes' /\ Steady'
  BY DEF TypeInv, TaskTypes, SearchTypes, Steady, Elsewhere, Yield
<1>2. NetTypes' /\ Apart'
  BY DEF TypeInv, NetTypes, Apart, Blank, Processing, LinksOf, Yield
<1> QED BY <1>1, <1>2 DEF TypeInv

\* The search as the first part of the coroutine leaves it.
LEMMA SyncedForms ==
  ASSUME TypeInv
  PROVE  LET s == Merged(search)
             r == Recentred(s)
         IN /\ s \in Search /\ s.grid = search.grid /\ s.centre = search.centre
            /\ s.am_bootstrapping = search.am_bootstrapping
            /\ s.e_min_complexity = search.e_min_complexity
            /\ s.remaining \in SUBSET Complexity
            /\ search.e_min_complexity # NoComplexity =>
                 /\ search.e_min_complexity \in Complexity
                 /\ r \in Search /\ r.grid = search.grid
                 /\ r.am_bootstrapping = search.am_bootstrapping
                 /\ r.centre = Demod[search.grid][search.centre][search.e_min_complexity]
<1>1. search \in Search
  BY DEF TypeInv, SearchTypes
<1>2. /\ Merged(search) \in Search /\ Merged(search).grid = search.grid
      /\ Merged(search).centre = search.centre
      /\ Merged(search).am_bootstrapping = search.am_bootstrapping
      /\ Merged(search).e_min_complexity = search.e_min_complexity
  BY <1>1, MergedFields
<1>3. ASSUME NEW s \in Search, s.e_min_complexity # NoComplexity
      PROVE  /\ Recentred(s) \in Search /\ Recentred(s).grid = s.grid
             /\ Recentred(s).am_bootstrapping = s.am_bootstrapping
             /\ Recentred(s).centre = Demod[s.grid][s.centre][s.e_min_complexity]
             /\ s.e_min_complexity \in Complexity
  <2>1. s.e_min_complexity \in Complexity
    BY <1>3 DEF Search
  <2> QED BY <1>3, <2>1, RecentredFields DEF PlaceOf
<1>4. Merged(search).remaining \in SUBSET Complexity
  BY <1>2 DEF Search
<1> QED BY <1>2, <1>3, <1>4

LEMMA AdvancedForms ==
  ASSUME NEW s \in Search
  PROVE  /\ Advanced(s) \in Search /\ Advanced(s).grid = s.grid
         /\ Advanced(s).am_bootstrapping = s.am_bootstrapping
         /\ Advanced(s).centre = s.centre
<1>1. CASE s.remaining = {}
  BY <1>1, AdvancedFields
<1>2. CASE s.remaining # {}
  <2>1. Advanced(s) = s
    BY <1>2 DEF Advanced
  <2> QED BY <2>1
<1> QED BY <1>1, <1>2

LEMMA TypeSyncTimeout ==
  ASSUME TypeInv, SyncTimeout
  PROVE  TypeInv'
<1> DEFINE s == Merged(search)
           r == Recentred(s)
           x == search.e_min_complexity
<1>1. /\ status = "active" /\ sync_timer = "sync" /\ coroutine = "none" /\ Elsewhere
      /\ Waiting(search.grid) # {}
  BY DEF SyncTimeout, TypeInv, Steady, Elsewhere
<1>2. /\ s \in Search /\ s.grid = search.grid /\ s.remaining \in SUBSET Complexity
      /\ x # NoComplexity => x \in Complexity /\ r \in Search /\ r.grid = search.grid
      /\ LinksOf(MergedLinks)
  BY SyncedForms, MergedLinksFacts
<1>3. CASE /\ x # NoComplexity /\ Yield("recentre", r, MergedLinks, x)
           /\ sync_msg' = [sync_msg EXCEPT !.grid = r.grid, !.centre = r.centre]
  <2>1. sync_msg' \in CookedSync
    BY <1>2, <1>3 DEF TypeInv, SearchTypes, CookedSync, Search
  <2> HIDE DEF r, s
  <2> QED BY <1>1, <1>2, <1>3, <2>1, TypeYield
<1>4. CASE x # NoComplexity /\ SendRecentre(r, MergedLinks, x)
  <2> HIDE DEF r, s
  <2> QED BY <1>1, <1>2, <1>4, TypeSendRecentre
<1>5. CASE Yield("level", s, MergedLinks, NoComplexity) /\ UNCHANGED sync_msg
  <2>1. sync_msg' \in CookedSync
    BY <1>5 DEF TypeInv, SearchTypes
  <2> HIDE DEF r, s
  <2> QED BY <1>1, <1>2, <1>5, <2>1, TypeYield
<1>6. CASE SendComplexities(s, MergedLinks)
  <2> HIDE DEF r, s
  <2>1. LinksOf(Dealt(MergedLinks, s.remaining))
    BY <1>2, DealtLinks
  <2> QED BY <1>1, <1>2, <1>6, <2>1, TypeSendShares DEF SendComplexities
<1>7. CASE SendAssisted(s, MergedLinks, Assisted)
  <2>1. Assisted \in SUBSET Processing
    BY DEF Assisted
  <2> HIDE DEF r, s
  <2> QED BY <1>1, <1>2, <1>7, <2>1, TypeSendShares DEF SendAssisted
<1> QED BY <1>3, <1>4, <1>5, <1>6, <1>7 DEF SyncTimeout

LEMMA TypeResumeCoroutine ==
  ASSUME TypeInv, ResumeCoroutine
  PROVE  TypeInv'
<1> DEFINE s == Advanced(search)
<1>1. /\ status = "active" /\ coroutine # "none" /\ Elsewhere /\ Waiting(search.grid) # {}
  BY DEF ResumeCoroutine, TypeInv, Steady, Elsewhere
<1>2. /\ s \in Search /\ s.grid = search.grid /\ s.remaining \in SUBSET Complexity
      /\ LinksOf(link)
  <2>1. search \in Search
    BY DEF TypeInv, SearchTypes
  <2>2. s \in Search /\ s.grid = search.grid
    BY <2>1, AdvancedForms
  <2> HIDE DEF s
  <2> QED BY <2>2, MergedLinksFacts DEF Search
<1> HIDE DEF s
<1>3. CASE SendShrunk(Shrunk(s), link)
  <2>1. Shrunk(s) \in Search
    BY <1>1, <1>2, ShrunkFields
  <2> QED BY <1>1, <1>3, <2>1, TypeSendShrunk
<1>4. CASE coroutine = "recentre" /\ SendRecentre(s, link, recentre_x)
  <2>1. recentre_x \in Complexity
    BY <1>4 DEF TypeInv, SearchTypes, Steady
  <2> QED BY <1>1, <1>2, <1>4, <2>1, TypeSendRecentre
<1>5. CASE SendComplexities(s, link)
  <2>1. LinksOf(Dealt(link, s.remaining))
    BY <1>2, DealtLinks
  <2> QED BY <1>1, <1>2, <1>5, <2>1, TypeSendShares DEF SendComplexities
<1> QED BY <1>3, <1>4, <1>5 DEF ResumeCoroutine, s

-----------------------------------------------------------------------------
(* Every action keeps them: reports.                                        *)

\* What is read of a peer that still processes is not there any more.
LEMMA ReportRead ==
  ASSUME TypeInv, NEW p \in Peers, ReportArrives(p)
  PROVE  LET m == Head(p2s[p])
         IN /\ status = "active" /\ coroutine = "none" /\ p \in Processing
            /\ p2s[p] \in Seq(Report) /\ p2s[p] # <<>> /\ m \in Report /\ m.key \in Key
            /\ m.type = "boot" => m.place \in Place /\ m.value \in Likelihood
            /\ m.type = "report" => /\ m.value \in Likelihood /\ m.done \in SUBSET Complexity
                                    /\ m.x \in Complexity \cup {NoComplexity}
            /\ LinksOf([link EXCEPT ![p].echo = m.key])
            /\ p2s' \in [Peers -> Seq(Report)]
            /\ \A q \in Peers \ Members(processing') : p2s'[q] = <<>>
            /\ \A q \in Members(processing') :
                 p2s'[q] = IF q = p THEN Tail(p2s[p]) ELSE p2s[q]
            /\ Elsewhere /\ UNCHANGED <<disk, recentre_x, coroutine, save_timer, dont_delay>>
<1> DEFINE m == Head(p2s[p])
<1>1. /\ status = "active" /\ coroutine = "none" /\ p \in Processing /\ p2s[p] # <<>>
      /\ Elsewhere /\ UNCHANGED <<disk, recentre_x, coroutine, save_timer, dont_delay>>
  BY DEF ReportArrives, Elsewhere, taskVars
<1>2. p2s \in [Peers -> Seq(Report)] /\ p2s[p] \in Seq(Report)
  BY DEF TypeInv, NetTypes
<1>3. m \in Report /\ Tail(p2s[p]) \in Seq(Report)
  BY <1>1, <1>2, HeadTailProperties
<1>4. /\ m.key \in Key
      /\ m.type = "boot" => m.place \in Place /\ m.value \in Likelihood
      /\ m.type = "report" => /\ m.value \in Likelihood /\ m.done \in SUBSET Complexity
                              /\ m.x \in Complexity \cup {NoComplexity}
  <2> HIDE DEF m
  <2> QED BY <1>3 DEF Report, BootReport, PeerReport
<1> HIDE DEF m
<1>5. LinksOf([link EXCEPT ![p].echo = m.key])
  BY <1>1, <1>4 DEF LinksOf, TypeInv, NetTypes, Link
<1>6. p2s' = [q \in Peers |-> IF q \in Members(processing')
                              THEN IF q = p THEN Tail(p2s[p]) ELSE p2s[q] ELSE <<>>]
  BY DEF ReportArrives
<1>7. p2s' \in [Peers -> Seq(Report)]
  BY <1>2, <1>3, <1>6, EmptySeq
<1>8. Members(processing') \subseteq Peers
  <2>1. processing' \in Seq(Peers)
    BY ForgetFacts DEF ReportArrives, OnBootstrappingReport, OnPeerReport, TypeInv, NetTypes
  <2> QED BY <2>1, LenProperties DEF Members
<1> QED BY <1>1, <1>2, <1>3, <1>4, <1>5, <1>6, <1>7, <1>8 DEF m

\* The server is told where the search is to start.
LEMMA TypeBootReport ==
  ASSUME TypeInv, NEW p \in Peers, ReportArrives(p), NEW m, m = Head(p2s[p]), m.type = "boot",
         NEW lk, lk = [link EXCEPT ![p].echo = m.key], OnBootstrappingReport(m, lk)
  PROVE  TypeInv' /\ Processing' = Processing \ WrappedAround(lk, NextKey)
<1> DEFINE s == Bootstrapped(search, m.place, m.value)
           gone == WrappedAround(lk, NextKey)
           n == StateFor(Cooked(s, NextKey))
<1>1. s \in Search /\ s.grid = search.grid
  <2>1. search \in Search /\ m.place \in Place /\ m.value \in Likelihood
    BY ReportRead DEF TypeInv, SearchTypes
  <2> QED BY <2>1, BootstrappedSearch, ZenonT(40)
<1>2. /\ search' = s /\ sync_msg' = Cooked(s, NextKey) /\ io_key' = NextKey
      /\ redistribute' = FALSE /\ sync_timer' = PostedTimer
      /\ Announce(Dealt(lk, s.remaining), NextKey, Processing \ gone, gone, n) /\ Forget(gone)
  BY DEF OnBootstrappingReport
<1>3. gone \in SUBSET Processing
  BY DEF WrappedAround
<1> HIDE DEF s, gone
<1>4. NextKey \in Key /\ Cooked(s, NextKey) \in CookedSync /\ s.remaining \in SUBSET Complexity
  BY <1>1, BlankFacts, SearchForms DEF TypeInv, SearchTypes, NextKey, Search
<1>5. \A r \in SUBSET Complexity : WithShare(n, r) \in Sent
  BY <1>4, StateForms
<1>6. LinksOf(Dealt(lk, s.remaining))
  BY <1>4, ReportRead, DealtLinks
<1> HIDE DEF n
<1>7. Members(processing') = Processing \ gone
  BY <1>2, ForgetFacts DEF TypeInv, NetTypes
<1>8. /\ \A q \in gone : p2s'[q] = <<>> /\ q \in Peers
      /\ \A q \in Peers \ (Processing \cup gone) : p2s'[q] = p2s[q]
      /\ p2s' \in [Peers -> Seq(Report)]
  <2>1. Processing \subseteq Peers
    BY LenProperties DEF TypeInv, NetTypes, Processing, Members
  <2>2. \A q \in Peers \ Processing : p2s[q] = <<>>
    BY DEF TypeInv, Apart, Blank
  <2>3. /\ \A q \in Peers \ (Processing \ gone) : p2s'[q] = <<>>
        /\ p2s' \in [Peers -> Seq(Report)]
    BY <1>7, ReportRead
  <2> QED BY <2>1, <2>2, <2>3, <1>3
<1>9. NetTypes' /\ Apart' /\ Processing' = Processing \ gone
  BY <1>2, <1>3, <1>5, <1>6, <1>8, AnnouncedToAll
<1>10. TaskTypes' /\ SearchTypes' /\ Steady'
  <2>1. /\ status = "active" /\ coroutine = "none" /\ Elsewhere
        /\ UNCHANGED <<disk, recentre_x, coroutine, save_timer, dont_delay>>
    BY ReportRead
  <2> QED BY <2>1, <1>1, <1>2, <1>4
          DEF TypeInv, TaskTypes, SearchTypes, Steady, Elsewhere, PostedTimer
<1> QED BY <1>9, <1>10 DEF TypeInv, gone

LEMMA TypePeerReport ==
  ASSUME TypeInv, NEW p \in Peers, ReportArrives(p), NEW m, m = Head(p2s[p]), m.type = "report",
         NEW lk, lk = [link EXCEPT ![p].echo = m.key], OnPeerReport(p, m, lk)
  PROVE  /\ TypeInv' /\ Processing' = Processing
         /\ search'.grid = search.grid /\ search'.centre = search.centre
         /\ search'.am_bootstrapping = search.am_bootstrapping
<1> DEFINE s == Reported(search, m.value, m.x, m.done)
<1>1. /\ s \in Search /\ s.grid = search.grid /\ s.centre = search.centre
      /\ s.am_bootstrapping = search.am_bootstrapping
  <2>1. /\ search \in Search /\ m.done \in SUBSET Complexity /\ m.value \in Likelihood
        /\ m.x \in Complexity \cup {NoComplexity}
    BY ReportRead DEF TypeInv, SearchTypes
  <2>2. \A z \in Search, v \in Likelihood, y \in Complexity \cup {NoComplexity},
           done \in SUBSET Complexity :
             LET r == Reported(z, v, y, done)
             IN /\ r \in Search /\ r.grid = z.grid /\ r.centre = z.centre
                /\ r.am_bootstrapping = z.am_bootstrapping
    <3>1. SUFFICES ASSUME NEW z \in Search, NEW v \in Likelihood,
                          NEW y \in Complexity \cup {NoComplexity}, NEW done \in SUBSET Complexity
                   PROVE  LET r == Reported(z, v, y, done)
                          IN /\ r \in Search /\ r.grid = z.grid /\ r.centre = z.centre
                             /\ r.am_bootstrapping = z.am_bootstrapping
      OBVIOUS
    <3> QED BY ReportedFields
  <2> QED BY <2>1, <2>2
<1>2. /\ search' = s /\ link' = [lk EXCEPT ![p].remaining = lk[p].remaining \ m.done]
      /\ redistribute' \in BOOLEAN /\ sync_timer' = PostedTimer
      /\ UNCHANGED <<sync_msg, io_key, s2p, processing, peer>>
  BY DEF OnPeerReport, TypeInv, SearchTypes
<1> HIDE DEF s
<1>3. Processing' = Processing
  BY <1>2 DEF Processing
<1>4. p2s' \in [Peers -> Seq(Report)] /\ \A q \in Peers \ Processing : p2s'[q] = <<>>
  BY <1>3, ReportRead DEF Processing
<1>5. link' \in [Peers -> Link] /\ \A q \in Peers \ Processing : link'[q] = link[q]
  <2>1. LinksOf(lk) /\ p \in Processing
    BY ReportRead
  <2>2. [lk[p] EXCEPT !.remaining = lk[p].remaining \ m.done] \in Link
    <3>1. lk[p] \in Link
      BY <2>1 DEF LinksOf
    <3> QED BY <3>1 DEF Link
  <2> QED BY <2>1, <2>2, <1>2 DEF LinksOf
<1>6. NetTypes' /\ Apart'
  BY <1>2, <1>3, <1>4, <1>5 DEF TypeInv, NetTypes, Apart, Blank
<1>7. TaskTypes' /\ SearchTypes' /\ Steady'
  <2>1. /\ status = "active" /\ coroutine = "none" /\ Elsewhere
        /\ UNCHANGED <<disk, recentre_x, coroutine, save_timer, dont_delay>>
    BY ReportRead
  <2> QED BY <2>1, <1>1, <1>2
          DEF TypeInv, TaskTypes, SearchTypes, Steady, Elsewhere, PostedTimer
<1> QED BY <1>1, <1>2, <1>3, <1>6, <1>7 DEF TypeInv

LEMMA TypeStaleReport ==
  ASSUME TypeInv, NEW p \in Peers, ReportArrives(p), NEW m, m = Head(p2s[p]),
         NEW lk, lk = [link EXCEPT ![p].echo = m.key],
         IF Stale(io_key, link[p])
         THEN Announce(lk, io_key, {p}, {}, StateFor(sync_msg))
         ELSE link' = lk /\ UNCHANGED s2p,
         UNCHANGED <<search, sync_msg, io_key, redistribute, sync_timer, processing, peer>>
  PROVE  TypeInv'
<1>1. LinksOf(lk) /\ p \in Processing
  BY ReportRead
<1>2. Processing' = Processing
  BY DEF Processing
<1>3. p2s' \in [Peers -> Seq(Report)] /\ \A q \in Peers \ Processing : p2s'[q] = <<>>
  BY <1>2, ReportRead DEF Processing
<1>4. \A r \in SUBSET Complexity : WithShare(StateFor(sync_msg), r) \in Sent
  BY StateForms DEF TypeInv, SearchTypes
<1>5. link' \in [Peers -> Link] /\ s2p' \in [Peers -> Seq(Sent)]
  BY <1>1, <1>4, AnnounceTypes DEF TypeInv, NetTypes, LinksOf
<1>6. \A q \in Peers \ Processing : link'[q] = link[q] /\ s2p'[q] = s2p[q]
  BY <1>1 DEF Announce, LinksOf
<1>7. NetTypes' /\ Apart'
  BY <1>2, <1>3, <1>5, <1>6 DEF TypeInv, NetTypes, Apart, Blank
<1>8. TaskTypes' /\ SearchTypes' /\ Steady'
  <2>1. /\ status = "active" /\ coroutine = "none" /\ Elsewhere
        /\ UNCHANGED <<disk, recentre_x, coroutine, save_timer, dont_delay>>
    BY ReportRead
  <2> QED BY <2>1 DEF TypeInv, TaskTypes, SearchTypes, Steady, Elsewhere
<1> QED BY <1>7, <1>8 DEF TypeInv

LEMMA TypeReportArrives ==
  ASSUME TypeInv, NEW p \in Peers, ReportArrives(p)
  PROVE  TypeInv'
BY TypeBootReport, TypePeerReport, TypeStaleReport DEF ReportArrives

-----------------------------------------------------------------------------
(* Every action keeps them: saving, leaving, resuming.                      *)

LEMMA TypeRunThrough ==
  ASSUME NEW s \in Search, Waiting(s.grid) # {}
  PROVE  RunThrough(s) \in Search
<1> DEFINE merged == IF s.e_min_complexity = NoComplexity THEN Merged(s) ELSE Recentred(Merged(s))
<1>1. Merged(s) \in Search /\ Merged(s).grid = s.grid
      /\ Merged(s).e_min_complexity = s.e_min_complexity
  BY MergedFields
<1>2. merged \in Search /\ merged.grid = s.grid
  BY <1>1, RecentredFields
<1> HIDE DEF merged
<1>3. Advanced(merged) \in Search /\ Advanced(merged).grid = s.grid
  BY <1>2, AdvancedForms
<1>4. Shrunk(Advanced(merged)) \in Search
  BY <1>3, ShrunkFields
<1> QED BY <1>3, <1>4 DEF RunThrough, merged

LEMMA TypeLeaving ==
  ASSUME TypeInv, Deactivate \/ Crash \/ OnConverged
  PROVE  TypeInv' /\ Processing' = {} /\ status' # "active"
<1>1. /\ StartFrom(FreshSearch) /\ NoConnections /\ status' \in {"inactive", "converged"}
      /\ evaluated' = evaluated /\ faults' \in Nat
  BY DEF Deactivate, Crash, OnConverged, Fault, TypeInv, TaskTypes
<1>2. disk' \in Image \cup {NoImage}
  <2>1. search \in Search /\ disk \in Image \cup {NoImage}
    BY DEF TypeInv, SearchTypes, TaskTypes
  <2>2. Deactivate /\ sync_timer = "sync" => RunThrough(search) \in Search
    BY <2>1, TypeRunThrough DEF Deactivate, TypeInv, Steady
  <2>3. Saved(search) \in Image /\ (Deactivate /\ sync_timer = "sync" => Saved(RunThrough(search)) \in Image)
    BY <2>1, <2>2, SearchForms
  <2> QED BY <2>1, <2>3 DEF Deactivate, Crash, OnConverged
<1>3. SearchTypes' /\ coroutine' = "none" /\ sync_timer' = "off"
  BY <1>1, StartTypes, SearchForms
<1>4. NetTypes' /\ Apart' /\ processing' = <<>> /\ Processing' = {}
  BY <1>1, NoConnectionsTypes
<1> QED BY <1>1, <1>2, <1>3, <1>4 DEF TypeInv, TaskTypes, Steady

LEMMA TypeActivate ==
  ASSUME TypeInv, Activate
  PROVE  TypeInv' /\ Processing' = Processing
<1>1. /\ status = "inactive" /\ UNCHANGED <<disk, faults, evaluated>>
      /\ UNCHANGED <<processing, link, peer, s2p, p2s>>
  BY DEF Activate, netVars
<1>2. NetTypes' /\ Apart' /\ Processing' = Processing
  BY <1>1 DEF TypeInv, NetTypes, Apart, Blank, Processing
<1>3. CASE status' = "failed" /\ UNCHANGED serverVars
  BY <1>1, <1>2, <1>3 DEF TypeInv, TaskTypes, SearchTypes, Steady, serverVars
<1>4. CASE /\ status' = "active"
           /\ \E s \in Search : StartFrom(s) /\ Waiting(s.grid) # {}
  <2>1. PICK s \in Search : StartFrom(s) /\ Waiting(s.grid) # {}
    BY <1>4
  <2>2. SearchTypes' /\ search' = s /\ coroutine' = "none" /\ sync_timer' = "off"
    BY <2>1, StartTypes
  <2> QED BY <1>1, <1>2, <1>4, <2>1, <2>2 DEF TypeInv, TaskTypes, Steady
<1>5. disk = NoImage \/ disk \in Image
  BY DEF TypeInv, TaskTypes
<1>6. CASE disk = NoImage
  BY <1>4, <1>6, SearchForms DEF Activate
<1>7. CASE disk # NoImage /\ Waiting(disk.grid) # {}
  <2>1. Loaded(disk) \in Search /\ Waiting(Loaded(disk).grid) # {}
    BY <1>5, <1>7, SearchForms
  <2> QED BY <1>4, <1>7, <2>1 DEF Activate
<1>8. CASE disk # NoImage /\ Waiting(disk.grid) = {}
  BY <1>3, <1>8 DEF Activate
<1> QED BY <1>6, <1>7, <1>8

LEMMA TypeSaveTimeout ==
  ASSUME TypeInv, SaveTimeout
  PROVE  TypeInv'
<1>1. Saved(search) \in Image
  BY SearchForms DEF TypeInv, SearchTypes
<1> QED BY <1>1 DEF SaveTimeout, netVars, TypeInv, TaskTypes, SearchTypes, NetTypes, Steady,
                    Apart, Blank, Processing

-----------------------------------------------------------------------------
(* Every action keeps them: the peers.                                      *)

\* A message that is read takes the peer's view where ViewAfter says.
LEMMA AfterForms ==
  ASSUME NEW c \in PeerState, NEW m \in Sent
  PROVE  \E d \in PeerState :
           /\ d = (CASE m.type = "state" -> AfterState(c, m)
                     [] m.type = "recentre" -> AfterRecentre(c, m)
                     [] m.type = "complexity" -> AfterComplexity(c, m))
           /\ ViewOf(d) = ViewAfter(ViewOf(c), m)
           /\ d.deferred = NoReport \/ (d.deferred = c.deferred /\ d.key = c.key)
<1>1. CASE m.type = "state"
  <2> DEFINE d == AfterState(c, m)
             f == IF m.key # c.key
                  THEN [c EXCEPT !.key = m.key, !.deferred = NoReport, !.unreported = {},
                                 !.do_send = FALSE, !.e_min = m.value, !.grid = m.grid,
                                 !.centre = m.centre]
                  ELSE [c EXCEPT !.do_send = @ \/ c.unreported # {}]
  <2>1. m \in StateSync
    BY <1>1 DEF Sent, StateSync, RecentreOnly, ComplexityOnly
  <2>2. /\ m.key \in Key /\ m.value \in Likelihood /\ m.grid \in Grid /\ m.centre \in Place
        /\ m.am_bootstrapping \in BOOLEAN /\ m.remaining \in SUBSET Complexity
    BY <2>1 DEF StateSync
  <2>3. /\ f \in PeerState /\ f.key = m.key
        /\ f.grid = (IF m.key = c.key THEN c.grid ELSE m.grid)
        /\ f.centre = (IF m.key = c.key THEN c.centre ELSE m.centre)
        /\ f.deferred = NoReport \/ (f.deferred = c.deferred /\ f.key = c.key)
    <3>1. CASE m.key = c.key
      <4>1. f = [c EXCEPT !.do_send = @ \/ c.unreported # {}]
        BY <3>1
      <4> HIDE DEF f
      <4> QED BY <3>1, <4>1 DEF PeerState
    <3>2. CASE m.key # c.key
      <4>1. f = [c EXCEPT !.key = m.key, !.deferred = NoReport, !.unreported = {},
                          !.do_send = FALSE, !.e_min = m.value, !.grid = m.grid,
                          !.centre = m.centre]
        BY <3>2
      <4> HIDE DEF f
      <4> QED BY <3>2, <4>1, <2>2 DEF PeerState
    <3> QED BY <3>1, <3>2
  <2>4. d = [f EXCEPT !.am_bootstrapping = m.am_bootstrapping, !.remaining = m.remaining,
                      !.timer = "skip"]
    BY DEF AfterState
  <2> HIDE DEF d, f
  <2>5. /\ d \in PeerState /\ d.key = f.key /\ d.grid = f.grid /\ d.centre = f.centre
        /\ d.deferred = f.deferred /\ d.am_bootstrapping = m.am_bootstrapping
    BY <2>2, <2>3, <2>4 DEF PeerState
  <2>6. ViewOf(d) = ViewAfter(ViewOf(c), m)
    BY <1>1, <2>3, <2>5 DEF ViewOf, ViewAfter
  <2> QED BY <1>1, <2>3, <2>5, <2>6 DEF d
<1>2. CASE m.type = "recentre"
  <2> DEFINE d == AfterRecentre(c, m)
  <2>1. m \in RecentreOnly /\ m.x \in Complexity
    BY <1>2 DEF Sent, StateSync, RecentreOnly, ComplexityOnly
  <2>2. m.key \in Key /\ m.value \in Likelihood /\ m.remaining \in SUBSET Complexity
    BY <2>1 DEF RecentreOnly
  <2>3. Demod[c.grid][c.centre][m.x] \in Place
    BY <2>1, SearchAssumption DEF PeerState
  <2>4. /\ d \in PeerState /\ d.key = m.key /\ d.grid = c.grid
        /\ d.centre = Demod[c.grid][c.centre][m.x] /\ d.deferred = NoReport
        /\ d.am_bootstrapping = c.am_bootstrapping
    BY <2>2, <2>3 DEF AfterRecentre, PeerState
  <2> HIDE DEF d
  <2>5. ViewOf(d) = ViewAfter(ViewOf(c), m)
    BY <1>2, <2>4 DEF ViewOf, ViewAfter
  <2> QED BY <1>2, <2>4, <2>5 DEF d
<1>3. CASE m.type = "complexity"
  <2> DEFINE d == AfterComplexity(c, m)
  <2>1. m \in ComplexityOnly
    BY <1>3 DEF Sent, StateSync, RecentreOnly, ComplexityOnly
  <2>2. m.noreply \in BOOLEAN /\ m.remaining \in SUBSET Complexity
    BY <2>1 DEF ComplexityOnly
  <2>3. /\ d \in PeerState /\ d.key = c.key /\ d.grid = c.grid
        /\ d.centre = c.centre /\ d.deferred = c.deferred
        /\ d.am_bootstrapping = c.am_bootstrapping
    BY <2>2 DEF AfterComplexity, PeerState
  <2> HIDE DEF d
  <2>4. ViewOf(d) = ViewAfter(ViewOf(c), m)
    BY <1>3, <2>3 DEF ViewOf, ViewAfter
  <2> QED BY <1>3, <2>3, <2>4 DEF d
<1>4. m.type \in {"state", "recentre", "complexity"}
  BY DEF Sent, StateSync, RecentreOnly, ComplexityOnly
<1> QED BY <1>1, <1>2, <1>3, <1>4

\* The step of one peer that processes keeps the types.
LEMMA TypeOnlyPeer ==
  ASSUME TypeInv, NEW p \in Processing, PeerUnchanged, NEW d \in PeerState,
         peer' = [peer EXCEPT ![p] = d], NEW out \in Seq(Sent), s2p' = [s2p EXCEPT ![p] = out],
         NEW in \in Seq(Report), p2s' = [p2s EXCEPT ![p] = in],
         evaluated' \subseteq Grid \X Place
  PROVE  TypeInv' /\ Processing' = Processing
<1>1. UNCHANGED <<serverVars, status, disk, faults, processing, link>>
  BY DEF PeerUnchanged, taskVars
<1>2. Processing' = Processing
  BY <1>1 DEF Processing
<1>3. TaskTypes' /\ SearchTypes' /\ Steady'
  BY <1>1 DEF TypeInv, serverVars, TaskTypes, SearchTypes, Steady
<1>4. NetTypes' /\ Apart'
  BY <1>1, <1>2 DEF TypeInv, NetTypes, Apart, Blank
<1> QED BY <1>2, <1>3, <1>4 DEF TypeInv

\* Whoever holds a message or has something to do has a connection.
LEMMA Connected ==
  ASSUME TypeInv, NEW p \in Peers, ~Blank(p)
  PROVE  p \in Processing
BY DEF TypeInv, Apart

LEMMA PeerHears ==
  ASSUME TypeInv, NEW p \in Peers, PeerReads(p)
  PROVE  /\ TypeInv' /\ Processing' = Processing /\ p \in Processing /\ s2p[p] # <<>>
         /\ PeerUnchanged /\ p2s' = p2s
         /\ \E d \in PeerState :
              /\ peer' = [peer EXCEPT ![p] = d] /\ s2p' = [s2p EXCEPT ![p] = Tail(s2p[p])]
              /\ ViewOf(d) = ViewAfter(ViewOf(peer[p]), Head(s2p[p]))
              /\ \/ d.deferred = NoReport
                 \/ d.deferred = peer[p].deferred /\ d.key = peer[p].key
<1>1. s2p[p] # <<>> /\ PeerUnchanged /\ p2s' = p2s /\ evaluated' = evaluated
  BY DEF PeerReads
<1>2. p \in Processing
  BY <1>1, Connected DEF Blank
<1>3. /\ peer \in [Peers -> PeerState] /\ s2p[p] \in Seq(Sent) /\ p2s \in [Peers -> Seq(Report)]
      /\ evaluated \subseteq Grid \X Place
  BY DEF TypeInv, NetTypes, TaskTypes
<1>4. Head(s2p[p]) \in Sent /\ Tail(s2p[p]) \in Seq(Sent)
  BY <1>1, <1>3, HeadTailProperties
<1>5. PICK d \in PeerState :
        /\ peer' = [peer EXCEPT ![p] = d]
        /\ ViewOf(d) = ViewAfter(ViewOf(peer[p]), Head(s2p[p]))
        /\ \/ d.deferred = NoReport
           \/ d.deferred = peer[p].deferred /\ d.key = peer[p].key
  <2> DEFINE m == Head(s2p[p])
             c == peer[p]
  <2>1. c \in PeerState /\ m \in Sent
    BY <1>3, <1>4
  <2>2. peer' = [peer EXCEPT ![p] = CASE m.type = "state" -> AfterState(c, m)
                                      [] m.type = "recentre" -> AfterRecentre(c, m)
                                      [] m.type = "complexity" -> AfterComplexity(c, m)]
    BY DEF PeerReads
  <2> HIDE DEF m, c
  <2>3. \E d \in PeerState :
          /\ peer' = [peer EXCEPT ![p] = d]
          /\ ViewOf(d) = ViewAfter(ViewOf(c), m)
          /\ d.deferred = NoReport \/ (d.deferred = c.deferred /\ d.key = c.key)
    BY <2>1, <2>2, AfterForms
  <2> QED BY <2>3 DEF m, c
<1>6. s2p' = [s2p EXCEPT ![p] = Tail(s2p[p])] /\ p2s' = [p2s EXCEPT ![p] = p2s[p]]
      /\ p2s[p] \in Seq(Report)
  BY <1>1, <1>3 DEF PeerReads
<1>7. TypeInv' /\ Processing' = Processing
  BY <1>1, <1>2, <1>3, <1>4, <1>5, <1>6, TypeOnlyPeer
<1> QED BY <1>1, <1>2, <1>5, <1>6, <1>7

\* What a peer may say: something new in its mode, or what it has deferred.
Says(c, m) ==
  \/ m.key = c.key /\ m.type = (IF c.am_bootstrapping THEN "boot" ELSE "report")
  \/ m = c.deferred /\ m # NoReport

\* The peer comes from c to d and, perhaps, writes m.
Works(p, c, d, m) ==
  /\ peer' = [peer EXCEPT ![p] = d]
  /\ p2s' = p2s \/ p2s' = [p2s EXCEPT ![p] = Append(p2s[p], m)]
  /\ ViewOf(d) = ViewOf(c) /\ Says(c, m) /\ d.deferred \in {NoReport, c.deferred, m}

LEMMA IssueForms ==
  ASSUME NEW p \in Peers, NEW c \in PeerState, NEW e \in PeerState, NEW m \in Report,
         Issue(p, e, m), ViewOf(e) = ViewOf(c), Says(c, m), e.deferred \in {NoReport, c.deferred}
  PROVE  \E d \in PeerState : Works(p, c, d, m)
<1>1. CASE e.writing
  <2> DEFINE d == [e EXCEPT !.deferred = m]
  <2>1. d \in PeerState /\ ViewOf(d) = ViewOf(e) /\ d.deferred = m
    BY DEF PeerState, ViewOf, Report
  <2>2. peer' = [peer EXCEPT ![p] = d] /\ p2s' = p2s
    BY <1>1 DEF Issue
  <2> HIDE DEF d
  <2> QED BY <2>1, <2>2 DEF Works
<1>2. CASE ~e.writing
  <2> DEFINE d == [e EXCEPT !.writing = SlowWrites, !.unreported = {}]
  <2>1. d \in PeerState /\ ViewOf(d) = ViewOf(e) /\ d.deferred = e.deferred
    BY ConvergerAssumption DEF PeerState, ViewOf
  <2>2. peer' = [peer EXCEPT ![p] = d] /\ p2s' = [p2s EXCEPT ![p] = Append(p2s[p], m)]
    BY <1>2 DEF Issue
  <2> HIDE DEF d
  <2> QED BY <2>1, <2>2 DEF Works
<1> QED BY <1>1, <1>2

LEMMA SomethingToSay ==
  ASSUME NEW c \in PeerState
  PROVE  \E m \in Report : Says(c, m)
<1>1. CASE c.am_bootstrapping
  <2> DEFINE m == [type |-> "boot", key |-> c.key, value |-> c.e_min, place |-> c.centre]
  <2>1. m \in Report
    BY DEF Report, BootReport, PeerState
  <2>2. Says(c, m)
    BY <1>1 DEF Says
  <2> HIDE DEF m
  <2> QED BY <2>1, <2>2
<1>2. CASE ~c.am_bootstrapping
  <2> DEFINE m == [type |-> "report", key |-> c.key, value |-> c.e_min, x |-> NoComplexity, done |-> {}]
  <2>1. m \in Report
    BY DEF Report, PeerReport, PeerState
  <2>2. Says(c, m)
    BY <1>2 DEF Says
  <2> HIDE DEF m
  <2> QED BY <2>1, <2>2
<1> QED BY <1>1, <1>2

\* The steps in which a peer reads nothing, by what they do.
LEMMA ProcessWorks ==
  ASSUME TypeInv, NEW p \in Peers, Process(p)
  PROVE  /\ \E d \in PeerState, m \in Report : Works(p, peer[p], d, m)
         /\ evaluated' \subseteq Grid \X Place
<1> DEFINE c == peer[p]
<1>1. c \in PeerState /\ ~c.am_bootstrapping /\ evaluated \subseteq Grid \X Place
  BY DEF Process, TypeInv, NetTypes, TaskTypes
<1>2. PICK x \in LastOfFirstRange(c.remaining) :
        LET pl     == Demod[c.grid][c.centre][x]
            moved  == pl # c.centre
            better == moved /\ Value[pl] < Target[c.e_min]
            d      == [c EXCEPT !.remaining = @ \ {x}, !.unreported = @ \cup {x},
                                !.e_min = IF better THEN Value[pl] ELSE @]
            report == [type |-> "report", key |-> d.key, value |-> d.e_min,
                       x |-> IF better THEN x ELSE NoComplexity, done |-> d.unreported]
        IN /\ IF better \/ d.remaining = {} \/ d.do_send
              THEN Issue(p, [d EXCEPT !.timer = IF d.do_send THEN "armed" ELSE "off",
                                      !.do_send = FALSE], report)
              ELSE peer' = [peer EXCEPT ![p] = d] /\ UNCHANGED p2s
           /\ evaluated' = IF moved THEN evaluated \cup {<<c.grid, pl>>} ELSE evaluated
  BY DEF Process
<1> DEFINE pl     == Demod[c.grid][c.centre][x]
           better == pl # c.centre /\ Value[pl] < Target[c.e_min]
           value  == IF better THEN Value[pl] ELSE c.e_min
           e      == [c EXCEPT !.remaining = @ \ {x}, !.unreported = @ \cup {x}, !.e_min = value]
           m      == [type |-> "report", key |-> e.key, value |-> e.e_min,
                      x |-> IF better THEN x ELSE NoComplexity, done |-> e.unreported]
           f      == [e EXCEPT !.timer = IF e.do_send THEN "armed" ELSE "off", !.do_send = FALSE]
<1> HIDE DEF c
<1>3. x \in Complexity
  BY <1>1 DEF LastOfFirstRange, PeerState
<1>4. pl \in Place /\ c.grid \in Grid /\ value \in Likelihood
  <2>1. c.grid \in Grid /\ c.centre \in Place /\ c.e_min \in Likelihood
    BY <1>1 DEF PeerState
  <2>2. pl \in Place
    BY <2>1, <1>3, SearchAssumption
  <2> HIDE DEF pl
  <2> QED BY <2>1, <2>2, LikelihoodFacts
<1> HIDE DEF pl, value
<1>5. /\ e \in PeerState /\ ViewOf(e) = ViewOf(c) /\ e.deferred = c.deferred /\ e.key = c.key
      /\ e.e_min = value /\ e.key \in Key /\ e.unreported \in SUBSET Complexity
  BY <1>1, <1>3, <1>4 DEF PeerState, ViewOf
<1>6. \/ Issue(p, f, m)
      \/ peer' = [peer EXCEPT ![p] = e] /\ UNCHANGED p2s
  BY <1>2 DEF pl, value
<1> HIDE DEF e
<1>7. m \in Report /\ Says(c, m)
  <2>1. m \in PeerReport
    BY <1>3, <1>4, <1>5 DEF PeerReport
  <2>2. m.key = c.key /\ m.type = "report"
    BY <1>5
  <2> HIDE DEF m
  <2> QED BY <2>1, <2>2, <1>1 DEF Report, Says
<1>8. f \in PeerState /\ ViewOf(f) = ViewOf(c) /\ f.deferred = c.deferred
  BY <1>5 DEF PeerState, ViewOf
<1> HIDE DEF f, m
<1>9. \E d \in PeerState : Works(p, c, d, m)
  <2>1. CASE Issue(p, f, m)
    BY <2>1, <1>1, <1>7, <1>8, IssueForms
  <2>2. CASE peer' = [peer EXCEPT ![p] = e] /\ UNCHANGED p2s
    BY <2>2, <1>5, <1>7 DEF Works
  <2> QED BY <2>1, <2>2, <1>6
<1>10. evaluated' \subseteq Grid \X Place
  <2>1. evaluated' \subseteq evaluated \cup {<<c.grid, pl>>}
    BY <1>2 DEF pl
  <2> QED BY <2>1, <1>1, <1>4
<1> QED BY <1>7, <1>9, <1>10 DEF c

LEMMA BootstrapWorks ==
  ASSUME TypeInv, NEW p \in Peers, Bootstrap(p)
  PROVE  /\ \E d \in PeerState, m \in Report : Works(p, peer[p], d, m)
         /\ evaluated' \subseteq Grid \X Place
<1> DEFINE c == peer[p]
<1>1. c \in PeerState /\ c.am_bootstrapping /\ evaluated \subseteq Grid \X Place
  BY DEF Bootstrap, TypeInv, NetTypes, TaskTypes
<1>2. PICK pl \in BootPlaces[c.grid] :
        /\ Issue(p, [c EXCEPT !.e_min = Value[pl], !.timer = "off"],
                 [type |-> "boot", key |-> c.key, value |-> Value[pl], place |-> pl])
        /\ evaluated' = evaluated \cup {<<c.grid, pl>>}
  BY DEF Bootstrap
<1> DEFINE e == [c EXCEPT !.e_min = Value[pl], !.timer = "off"]
           m == [type |-> "boot", key |-> c.key, value |-> Value[pl], place |-> pl]
<1> HIDE DEF c
<1>3. c.grid \in Grid /\ c.key \in Key /\ pl \in Place /\ Value[pl] \in Likelihood
  <2>1. c.grid \in Grid /\ c.key \in Key
    BY <1>1 DEF PeerState
  <2>2. pl \in Place
    BY <2>1, SearchAssumption
  <2> QED BY <2>1, <2>2, LikelihoodFacts
<1>4. e \in PeerState /\ ViewOf(e) = ViewOf(c) /\ e.deferred = c.deferred
  BY <1>1, <1>3 DEF PeerState, ViewOf
<1>5. m \in Report /\ Says(c, m)
  <2>1. m \in BootReport
    BY <1>3 DEF BootReport
  <2> QED BY <2>1, <1>1 DEF Report, Says
<1>6. Issue(p, e, m)
  BY <1>2
<1> HIDE DEF e, m
<1>7. \E d \in PeerState : Works(p, c, d, m)
  BY <1>1, <1>4, <1>5, <1>6, IssueForms
<1> QED BY <1>1, <1>2, <1>3, <1>5, <1>7 DEF c

LEMMA WriteDoneWorks ==
  ASSUME TypeInv, NEW p \in Peers, PeerWriteDone(p)
  PROVE  \E d \in PeerState, m \in Report : Works(p, peer[p], d, m)
<1> DEFINE c == peer[p]
           e == [c EXCEPT !.writing = FALSE, !.deferred = NoReport]
<1>1. c \in PeerState
  BY DEF TypeInv, NetTypes
<1>2. /\ c.deferred = NoReport => peer' = [peer EXCEPT ![p] = e] /\ UNCHANGED p2s
      /\ c.deferred # NoReport => Issue(p, e, c.deferred)
  BY DEF PeerWriteDone
<1> HIDE DEF c
<1>3. e \in PeerState /\ ViewOf(e) = ViewOf(c) /\ e.deferred = NoReport
  BY <1>1 DEF PeerState, ViewOf
<1> HIDE DEF e
<1>4. CASE c.deferred = NoReport
  <2>1. PICK m \in Report : Says(c, m)
    BY <1>1, SomethingToSay
  <2>2. Works(p, c, e, m)
    BY <1>2, <1>3, <1>4, <2>1 DEF Works
  <2> QED BY <1>3, <2>2 DEF c
<1>5. CASE c.deferred # NoReport
  <2>1. c.deferred \in Report /\ Says(c, c.deferred)
    BY <1>1, <1>5 DEF PeerState, Report, Says
  <2>2. \E d \in PeerState : Works(p, c, d, c.deferred)
    BY <2>1, <1>1, <1>2, <1>3, <1>5, IssueForms
  <2> QED BY <2>1, <2>2 DEF c
<1> QED BY <1>4, <1>5

LEMMA TimersWork ==
  ASSUME TypeInv, NEW p \in Peers, SkipIteration(p) \/ ProcessNothing(p) \/ RollbackTimeout(p)
  PROVE  \E d \in PeerState, m \in Report : Works(p, peer[p], d, m)
<1> DEFINE c == peer[p]
<1>1. c \in PeerState
  BY DEF TypeInv, NetTypes
<1>2. PICK d : /\ peer' = [peer EXCEPT ![p] = d] /\ p2s' = p2s
               /\ \E t \in {"armed", "off"} :
                    d \in {[c EXCEPT !.timer = t], [c EXCEPT !.do_send = TRUE]}
  BY DEF SkipIteration, ProcessNothing, RollbackTimeout
<1> HIDE DEF c
<1>3. d \in PeerState /\ ViewOf(d) = ViewOf(c) /\ d.deferred = c.deferred
  BY <1>1, <1>2 DEF PeerState, ViewOf
<1>4. PICK m \in Report : Says(c, m)
  BY <1>1, SomethingToSay
<1>5. Works(p, c, d, m)
  BY <1>2, <1>3, <1>4 DEF Works
<1> QED BY <1>3, <1>5 DEF c

LEMMA PeerWorks ==
  ASSUME TypeInv, NEW p \in Peers, PeerStep(p), ~PeerReads(p)
  PROVE  /\ TypeInv' /\ Processing' = Processing /\ p \in Processing
         /\ PeerUnchanged /\ s2p' = s2p /\ peer[p] # FreshPeer
         /\ \E d \in PeerState, m \in Report : Works(p, peer[p], d, m)
<1>1. PICK d \in PeerState, m \in Report : Works(p, peer[p], d, m)
  BY ProcessWorks, BootstrapWorks, WriteDoneWorks, TimersWork DEF PeerStep
<1>2. evaluated' \subseteq Grid \X Place
  <2>1. evaluated \subseteq Grid \X Place
    BY DEF TypeInv, TaskTypes
  <2> QED BY <2>1, ProcessWorks, BootstrapWorks
          DEF PeerStep, PeerWriteDone, SkipIteration, ProcessNothing, RollbackTimeout
<1>3. PeerUnchanged /\ s2p' = s2p
  BY DEF PeerStep, Process, Bootstrap, PeerWriteDone, SkipIteration, ProcessNothing, RollbackTimeout
<1>4. peer[p] # FreshPeer
  <2>1. peer[p].timer # "off" \/ peer[p].writing \/ peer[p].unreported # {}
    BY DEF PeerStep, Process, Bootstrap, PeerWriteDone, SkipIteration, ProcessNothing,
           RollbackTimeout
  <2>2. FreshPeer.timer = "off" /\ ~FreshPeer.writing /\ FreshPeer.unreported = {}
    BY DEF FreshPeer
  <2> QED BY <2>1, <2>2
<1>5. p \in Processing
  BY <1>4, Connected DEF Blank
<1>6. /\ peer' = [peer EXCEPT ![p] = d]
      /\ s2p[p] \in Seq(Sent) /\ s2p' = [s2p EXCEPT ![p] = s2p[p]]
      /\ \E in \in Seq(Report) : p2s' = [p2s EXCEPT ![p] = in]
  <2>1. p2s[p] \in Seq(Report) /\ Append(p2s[p], m) \in Seq(Report)
    BY AppendProperties DEF TypeInv, NetTypes
  <2>2. p2s = [p2s EXCEPT ![p] = p2s[p]] /\ s2p = [s2p EXCEPT ![p] = s2p[p]] /\ s2p[p] \in Seq(Sent)
    BY DEF TypeInv, NetTypes
  <2> QED BY <2>1, <2>2, <1>1, <1>3 DEF Works
<1>7. TypeInv' /\ Processing' = Processing
  BY <1>2, <1>3, <1>5, <1>6, TypeOnlyPeer
<1> QED BY <1>1, <1>3, <1>4, <1>5, <1>7

-----------------------------------------------------------------------------
LEMMA TypeInit == Init => TypeInv
<1> SUFFICES ASSUME Init PROVE TypeInv
  OBVIOUS
<1>1. FreshSearch \in Search /\ Waiting(FreshSearch.grid) # {} /\ Cooked(FreshSearch, 1) \in CookedSync
  BY SearchForms, BlankFacts
<1>2. TaskTypes
  BY DEF Init, TaskTypes
<1>3. SearchTypes
  BY <1>1, BlankFacts DEF Init, SearchTypes
<1>4. Steady
  BY <1>1 DEF Init, Steady
<1>5. NetTypes
  <2>1. <<>> \in Seq(Peers) /\ <<>> \in Seq(Sent) /\ <<>> \in Seq(Report)
    BY EmptySeq
  <2> QED BY <2>1, BlankFacts DEF Init, NetTypes
<1>6. Apart
  BY DEF Init, Apart, Blank
<1> QED BY <1>2, <1>3, <1>4, <1>5, <1>6 DEF TypeInv

LEMMA TypeNext == TypeInv /\ [Next]_vars => TypeInv'
<1>1. SUFFICES ASSUME TypeInv, [Next]_vars PROVE TypeInv'
  OBVIOUS
<1>2. CASE UNCHANGED vars
  BY <1>1, <1>2 DEF vars, serverVars, taskVars, netVars, TypeInv, TaskTypes, SearchTypes,
                    NetTypes, Steady, Apart, Blank, Processing
<1>3. CASE ServerStep
  <2>1. ASSUME NEW p \in Peers, Join(p) PROVE TypeInv'
    BY <1>1, <2>1, TypeJoin
  <2>2. ASSUME NEW p \in Peers, Leave(p) \/ Lapse(p) PROVE TypeInv'
    <3>1. p \in Processing /\ Lose(p) /\ faults' \in Nat
      BY <1>1, <2>2 DEF Leave, Lapse, Fault, TypeInv, TaskTypes
    <3> QED BY <1>1, <3>1, TypeLose
  <2>3. ASSUME NEW p \in Peers, ServerWriteDone(p) PROVE TypeInv'
    BY <1>1, <2>3, TypeServerWriteDone
  <2>4. ASSUME NEW p \in Peers, ReportArrives(p) PROVE TypeInv'
    BY <1>1, <2>4, TypeReportArrives
  <2> QED BY <1>1, <1>3, <2>1, <2>2, <2>3, <2>4, TypeSyncTimeout, TypeResumeCoroutine,
             TypeSaveTimeout, TypeLeaving, TypeActivate DEF ServerStep
<1>4. ASSUME NEW p \in Peers, PeerStep(p) PROVE TypeInv'
  BY <1>1, <1>4, PeerHears, PeerWorks
<1> QED BY <1>1, <1>2, <1>3, <1>4 DEF Next

\* The types of Converger hold whatever peers, messages and faults do: in particular
\* the grid never goes past the last one, and a recentring message has a complexity.
THEOREM TypesHold == Spec => []TypeInv
<1>1. Init => TypeInv
  BY TypeInit
<1>2. TypeInv /\ [Next]_vars => TypeInv'
  BY TypeNext
<1> QED BY <1>1, <1>2, PTL DEF Spec

THEOREM TypeCorrect == Spec => []TypeOK
BY TypesHold, TypeInvIsTypeOK, PTL

-----------------------------------------------------------------------------
(* What the server posts to one connection.                                 *)

\* The whole state, as the key stands for it; a new centre, as a complexity of the old.
TellsAll(n, g) ==
  /\ n.type = "state" /\ n.am_bootstrapping = g.boot /\ n.grid = g.grid
  /\ ~g.boot => n.centre = g.centre
  /\ g.via # NoComplexity => Demod[g.grid][g.centre][g.via] = g.centre
TellsCentre(n, g, g2) ==
  /\ n.type = "recentre" /\ g2.grid = g.grid /\ g2.boot = g.boot /\ g2.via = NoComplexity
  /\ \A u \in View : Agrees(u, g) /\ ~g.boot => Demod[g.grid][u.centre][n.x] = g2.centre

Then(key, l, out, n) == IF CanWrite(key, l) THEN Append(out, n) ELSE out

\* What could not be written is due; what can be written is not.
LEMMA PostedDue ==
  ASSUME NEW key, NEW l \in Link
  PROVE  /\ ~CanWrite(key, l) => Due(key, Posted(key, l))
         /\ CanWrite(key, l) => ~Due(key, l)
<1>1. CASE CanWrite(key, l)
  BY <1>1 DEF CanWrite, Due
<1>2. CASE ~CanWrite(key, l)
  <2>1. Posted(key, l).late /\ Posted(key, l).writing = l.writing /\ Posted(key, l).echo = l.echo
    BY <1>2, PostedFacts
  <2>2. Lag(key, Posted(key, l)) = Lag(key, l)
    BY <2>1 DEF Lag
  <2> QED BY <1>2, <2>1, <2>2 DEF Due, Stale, CanWrite
<1> QED BY <1>1, <1>2

LEMMA PostedState ==
  ASSUME NEW key \in Key, NEW g \in Sense, NEW l \in Link, NEW c \in PeerState,
         NEW out \in Seq(Sent), NEW in \in Seq(Report), NEW due, NEW n \in Sent, n.key = key,
         TellsAll(n, g), InTouch(key, g, l, c, out, in, due)
  PROVE  InTouch(key, g, Posted(key, l), c, Then(key, l, out, n), in, Due(key, Posted(key, l)))
<1>1. Posted(key, l).echo = l.echo
  BY PostedFacts
<1>2. CASE CanWrite(key, l)
  <2>1. InTouch(key, g, l, c, Append(out, n), in, Due(key, Posted(key, l)))
    BY TouchState DEF TellsAll
  <2> QED BY <1>1, <1>2, <2>1, TouchKept DEF Then
<1>3. CASE ~CanWrite(key, l)
  <2>1. Due(key, Posted(key, l))
    BY <1>3, PostedDue
  <2> QED BY <1>1, <1>3, <2>1, TouchKept DEF Then
<1> QED BY <1>2, <1>3

LEMMA PostedShares ==
  ASSUME NEW key \in Key, NEW g, NEW l \in Link, NEW c \in PeerState,
         NEW out \in Seq(Sent), NEW in \in Seq(Report), NEW n \in Sent, n.type = "complexity",
         InTouch(key, g, l, c, out, in, Due(key, l))
  PROVE  InTouch(key, g, Posted(key, l), c, Then(key, l, out, n), in, Due(key, Posted(key, l)))
<1>1. Posted(key, l).echo = l.echo
  BY PostedFacts
<1>2. CASE CanWrite(key, l)
  <2>1. InTouch(key, g, l, c, out, in, FALSE)
    BY <1>2, PostedDue DEF InTouch, Linked
  <2>2. InTouch(key, g, l, c, Append(out, n), in, Due(key, Posted(key, l)))
    BY <2>1, TouchShares
  <2> QED BY <1>1, <1>2, <2>2, TouchKept DEF Then
<1>3. CASE ~CanWrite(key, l)
  <2>1. Due(key, Posted(key, l))
    BY <1>3, PostedDue
  <2> QED BY <1>1, <1>3, <2>1, TouchKept DEF Then
<1> QED BY <1>2, <1>3

\* A new key is posted with the state or with the new centre.  Who can be written to
\* under the new key could have been written to under the old one: nothing was due.
LEMMA PostedNews ==
  ASSUME NEW key \in Key, NEW g \in Sense, NEW g2 \in Sense, NEW l \in Link,
         NEW c \in PeerState, NEW out \in Seq(Sent), NEW in \in Seq(Report),
         NEW next, next = (key + 1) % KeyMod, l.echo # next,
         NEW n \in Sent, n.key = next, TellsAll(n, g2) \/ TellsCentre(n, g, g2),
         InTouch(key, g, l, c, out, in, Due(key, l))
  PROVE  InTouch(next, g2, Posted(next, l), c, Then(next, l, out, n), in,
                 Due(next, Posted(next, l)))
<1>1. next \in Key /\ Lag(next, l) = Lag(key, l) + 1
  BY LagOfNext DEF Link
<1>2. InTouch(next, g2, l, c, out, in, TRUE)
  BY TouchLate
<1>3. CASE TellsAll(n, g2)
  BY <1>1, <1>2, <1>3, PostedState
<1>4. CASE TellsCentre(n, g, g2) /\ ~CanWrite(next, l)
  <2>1. Due(next, Posted(next, l)) /\ Posted(next, l).echo = l.echo
    BY <1>4, PostedDue, PostedFacts
  <2> QED BY <1>2, <1>4, <2>1, TouchKept DEF Then
<1>5. CASE TellsCentre(n, g, g2) /\ CanWrite(next, l)
  <2>1. ~Due(key, l)
    <3>1. Lag(key, l) \in Int /\ StaleLimit \in Int
      BY LagIs, ConvergerAssumption DEF Link
    <3>2. ~Stale(key, l) /\ ~l.writing
      BY <1>1, <1>5, <3>1 DEF CanWrite, Stale
    <3> QED BY <3>2 DEF Due
  <2>2. InTouch(key, g, l, c, out, in, FALSE)
    BY <2>1 DEF InTouch, Linked
  <2>3. InTouch(next, g2, l, c, Append(out, n), in, Due(next, Posted(next, l)))
    BY <1>5, <2>2, TouchRecentre DEF TellsCentre
  <2>4. Posted(next, l).echo = l.echo
    BY PostedFacts
  <2> QED BY <1>5, <2>3, <2>4, TouchKept DEF Then
<1> QED BY <1>3, <1>4, <1>5

-----------------------------------------------------------------------------
(* The inductive invariant.                                                 *)

Running == status = "active" /\ sync_timer # "converged"

\* server_state_sync_msg is what a peer would have to be told, and the complexity of
\* a recentring selects the new centre, also from there.
SyncAgrees ==
  /\ sync_msg.key = io_key /\ sync_msg.grid = search.grid
  /\ sync_msg.am_bootstrapping = search.am_bootstrapping
  /\ ~search.am_bootstrapping => sync_msg.centre = search.centre
  /\ coroutine = "recentre" => Demod[search.grid][search.centre][recentre_x] = search.centre

PeerTouch(p) ==
  InTouch(io_key, SenseOfKey, link[p], peer[p], s2p[p], p2s[p], Due(io_key, link[p]))

KeyInv == Running => SyncAgrees /\ \A p \in Processing : PeerTouch(p)

LEMMA SenseFacts ==
  ASSUME TypeInv
  PROVE  /\ SenseOfKey \in Sense /\ SenseOfKey.grid = search.grid
         /\ SenseOfKey.boot = search.am_bootstrapping /\ SenseOfKey.centre = search.centre
         /\ coroutine # "recentre" => SenseOfKey.via = NoComplexity
         /\ coroutine = "recentre" => SenseOfKey.via = recentre_x /\ recentre_x \in Complexity
BY DEF TypeInv, SearchTypes, Steady, SenseOfKey, Sense, Search

LEMMA PeerTypes ==
  ASSUME TypeInv
  PROVE  /\ Processing \subseteq Peers /\ io_key \in Key
         /\ \A p \in Peers : /\ link[p] \in Link /\ peer[p] \in PeerState
                             /\ s2p[p] \in Seq(Sent) /\ p2s[p] \in Seq(Report)
<1>1. Processing \subseteq Peers
  BY LenProperties DEF TypeInv, NetTypes, Processing, Members
<1> QED BY <1>1 DEF TypeInv, NetTypes, SearchTypes

\* The message that is kept for whoever joins or has fallen behind says it all.
LEMMA SyncMessage ==
  ASSUME TypeInv, SyncAgrees, NEW r \in SUBSET Complexity
  PROVE  LET n == WithShare(StateFor(sync_msg), r)
         IN n \in Sent /\ n.key = io_key /\ TellsAll(n, SenseOfKey)
<1> DEFINE n == WithShare(StateFor(sync_msg), r)
<1>1. /\ n \in Sent /\ n.type = "state" /\ n.key = sync_msg.key
      /\ n.grid = sync_msg.grid /\ n.centre = sync_msg.centre
      /\ n.am_bootstrapping = sync_msg.am_bootstrapping
  BY StateForms DEF TypeInv, SearchTypes
<1> HIDE DEF n
<1>2. TellsAll(n, SenseOfKey)
  BY <1>1, SenseFacts DEF SyncAgrees, TellsAll
<1> QED BY <1>1, <1>2 DEF SyncAgrees, n

\* A connection that nothing is posted to, while the key and what it stands for stay.
LEMMA NothingPosted ==
  ASSUME TypeInv, NEW q, PeerTouch(q), UNCHANGED <<io_key, SenseOfKey>>,
         peer'[q] = peer[q], s2p'[q] = s2p[q], p2s'[q] = p2s[q],
         link'[q].echo = link[q].echo, link'[q].writing = link[q].writing,
         link'[q].late = link[q].late
  PROVE  PeerTouch(q)'
<1>1. Due(io_key, link[q]) => Due(io_key, link'[q])
  BY DEF Due, Stale, Lag
<1> QED BY <1>1, TouchKept DEF PeerTouch

\* What tells a peer of the new key, whatever the share that it is sent with.
News(m, key, g, g2) ==
  \A r \in SUBSET Complexity :
    /\ WithShare(m, r) \in Sent /\ WithShare(m, r).key = key
    /\ TellsAll(WithShare(m, r), g2) \/ TellsCentre(WithShare(m, r), g, g2)

\* The connection, with the server's end lk, while a key is about to be announced.
Heard(q, lk) ==
  InTouch(io_key, SenseOfKey, lk[q], peer[q], s2p[q], p2s'[q], Due(io_key, lk[q]))

\* Dealing shares anew does not matter to what has been heard.
LEMMA HeardKept ==
  ASSUME NEW q, NEW lk, NEW lk2, Heard(q, lk), lk2[q].echo = lk[q].echo,
         lk2[q].writing = lk[q].writing, lk2[q].late = lk[q].late
  PROVE  Heard(q, lk2)
<1>1. Due(io_key, lk[q]) => Due(io_key, lk2[q])
  BY DEF Due, Stale, Lag
<1> QED BY <1>1, TouchKept DEF Heard

\* All peers are told of a new key, but those that are dropped.
LEMMA NewKeyIsKnown ==
  ASSUME TypeInv, TypeInv', NEW lk, LinksOf(lk), NEW gone, gone = WrappedAround(lk, NextKey),
         NEW m, Announce(lk, NextKey, Processing \ gone, gone, m), Forget(gone),
         io_key' = NextKey, Processing' = Processing \ gone,
         \A q \in Processing \ gone : Heard(q, lk),
         News(m, NextKey, SenseOfKey, SenseOfKey')
  PROVE  \A q \in Processing' : PeerTouch(q)'
<1>1. SUFFICES ASSUME NEW q \in Processing \ gone PROVE PeerTouch(q)'
  OBVIOUS
<1>2. /\ q \in Peers /\ lk[q] \in Link /\ peer[q] \in PeerState /\ s2p[q] \in Seq(Sent)
      /\ p2s'[q] \in Seq(Report) /\ io_key \in Key
  BY PeerTypes DEF LinksOf, TypeInv, NetTypes
<1>3. lk[q].echo # NextKey
  BY DEF WrappedAround
<1> DEFINE n == WithShare(m, lk[q].remaining)
<1>4. /\ n \in Sent /\ n.key = NextKey
      /\ TellsAll(n, SenseOfKey') \/ TellsCentre(n, SenseOfKey, SenseOfKey')
  <2>1. lk[q].remaining \in SUBSET Complexity
    BY <1>2 DEF Link
  <2> QED BY <2>1 DEF News
<1>5. link'[q] = Posted(NextKey, lk[q]) /\ s2p'[q] = Then(NextKey, lk[q], s2p[q], n)
      /\ peer'[q] = peer[q]
  BY <1>2 DEF Announce, Forget, Then, WithShare
<1> HIDE DEF n
<1>6. SenseOfKey \in Sense /\ SenseOfKey' \in Sense
  <2>1. SenseOfKey \in Sense
    BY SenseFacts
  <2>2. SenseOfKey' \in Sense
    BY DEF TypeInv, SearchTypes, Steady, SenseOfKey, Sense, Search
  <2> QED BY <2>1, <2>2
<1>7. InTouch(NextKey, SenseOfKey', Posted(NextKey, lk[q]), peer[q],
              Then(NextKey, lk[q], s2p[q], n), p2s'[q], Due(NextKey, Posted(NextKey, lk[q])))
  <2>1. InTouch(io_key, SenseOfKey, lk[q], peer[q], s2p[q], p2s'[q], Due(io_key, lk[q]))
    BY DEF Heard
  <2>2. NextKey = (io_key + 1) % KeyMod
    BY DEF NextKey
  <2> QED BY <1>2, <1>3, <1>4, <1>6, <2>1, <2>2, PostedNews
<1> QED BY <1>5, <1>7 DEF PeerTouch

\* What has been heard and posted since leaves the connection in touch.
LEMMA HeardIsTouch ==
  ASSUME NEW q, NEW lk, Heard(q, lk), UNCHANGED <<io_key, SenseOfKey>>,
         peer'[q] = peer[q], s2p'[q] = s2p[q],
         link'[q].echo = lk[q].echo, link'[q].writing = lk[q].writing,
         link'[q].late = lk[q].late
  PROVE  PeerTouch(q)'
<1>1. Due(io_key, lk[q]) => Due(io_key, link'[q])
  BY DEF Due, Stale, Lag
<1> QED BY <1>1, TouchKept DEF PeerTouch, Heard

\* Nothing is read: what there is of a connection has been heard before.
LEMMA HeardBefore ==
  ASSUME KeyInv, Running, NEW q \in Processing, p2s'[q] = p2s[q], NEW lk,
         lk[q].echo = link[q].echo, lk[q].writing = link[q].writing, lk[q].late = link[q].late
  PROVE  Heard(q, lk)
<1>1. Heard(q, link)
  BY DEF KeyInv, PeerTouch, Heard
<1> QED BY <1>1, HeardKept

\* The state of a search, under the key that it is announced with.
LEMMA StateNews ==
  ASSUME NEW s \in Search, NEW key \in Key, NEW g, NEW g2,
         g2 = [grid |-> s.grid, boot |-> s.am_bootstrapping, centre |-> s.centre,
               via |-> NoComplexity]
  PROVE  News(StateFor(Cooked(s, key)), key, g, g2)
<1> DEFINE m == StateFor(Cooked(s, key))
<1>1. SUFFICES ASSUME NEW r \in SUBSET Complexity
               PROVE  /\ WithShare(m, r) \in Sent /\ WithShare(m, r).key = key
                      /\ TellsAll(WithShare(m, r), g2)
  BY DEF News
<1> DEFINE n == WithShare(m, r)
<1>2. /\ n \in Sent /\ n.type = "state" /\ n.key = key /\ n.grid = s.grid
      /\ n.centre = s.centre /\ n.am_bootstrapping = s.am_bootstrapping
  <2>1. /\ Cooked(s, key) \in CookedSync /\ Cooked(s, key).key = key
        /\ Cooked(s, key).grid = s.grid /\ Cooked(s, key).centre = s.centre
        /\ Cooked(s, key).am_bootstrapping = s.am_bootstrapping
    BY SearchForms
  <2> QED BY <2>1, StateForms
<1> HIDE DEF n
<1> QED BY <1>2 DEF TellsAll, n

\* The message for whoever joins later is cooked whenever the search is announced.
LEMMA CookedAgrees ==
  ASSUME NEW s \in Search, NEW key \in Key, search' = s, io_key' = key,
         sync_msg' = Cooked(s, key), coroutine' = "none"
  PROVE  /\ SyncAgrees'
         /\ SenseOfKey' = [grid |-> s.grid, boot |-> s.am_bootstrapping, centre |-> s.centre,
                           via |-> NoComplexity]
<1>1. /\ Cooked(s, key).key = key /\ Cooked(s, key).grid = s.grid
      /\ Cooked(s, key).centre = s.centre
      /\ Cooked(s, key).am_bootstrapping = s.am_bootstrapping
  BY SearchForms
<1> QED BY <1>1 DEF SyncAgrees, SenseOfKey

-----------------------------------------------------------------------------
(* Every action keeps KeyInv.                                               *)

LEMMA KeyJoin ==
  ASSUME 0 \notin JoinKeys, TypeInv, TypeInv', KeyInv, NEW p \in Peers, Join(p)
  PROVE  KeyInv'
<1>1. SUFFICES ASSUME Running' PROVE SyncAgrees' /\ \A q \in Processing' : PeerTouch(q)'
  BY DEF KeyInv
<1>2. /\ UNCHANGED <<search, io_key, sync_msg, recentre_x, coroutine, peer, p2s, status>>
      /\ SenseOfKey' = SenseOfKey /\ io_key # 0
  BY DEF Join, taskVars, SenseOfKey
<1>3. Running /\ SyncAgrees
  <2>1. Running
    BY <1>1, <1>2 DEF Running, Join, PostedTimer
  <2> QED BY <2>1 DEF KeyInv
<1>4. SyncAgrees'
  BY <1>2, <1>3 DEF SyncAgrees
<1>5. Processing' = Processing \cup {p} /\ p \notin Processing /\ Processing \subseteq Peers
  BY TypeJoin, PeerTypes
<1>6. ASSUME NEW q \in Processing PROVE PeerTouch(q)'
  <2>1. q # p /\ q \in Peers /\ PeerTouch(q)
    BY <1>3, <1>5 DEF KeyInv
  <2>2. link'[q] = link[q] /\ s2p'[q] = s2p[q]
    BY <2>1 DEF Join, TypeInv, NetTypes
  <2> QED BY <1>2, <2>1, <2>2, NothingPosted
<1>7. PeerTouch(p)'
  <2> DEFINE l == [NoLink EXCEPT !.echo = io_key, !.writing = TRUE]
             m == StateFor(sync_msg)
  <2>1. peer[p] = FreshPeer /\ p2s[p] = <<>>
    BY <1>5 DEF TypeInv, Apart, Blank
  <2>2. link'[p] = l /\ s2p'[p] = <<m>>
    BY DEF Join, TypeInv, NetTypes
  <2>3. l \in Link /\ l.echo = io_key /\ io_key \in Key
    BY BlankFacts DEF TypeInv, SearchTypes, Link
  <2>4. /\ m \in StateSync /\ m.key = io_key /\ m.am_bootstrapping = SenseOfKey.boot
        /\ m.grid = SenseOfKey.grid /\ (~SenseOfKey.boot => m.centre = SenseOfKey.centre)
    <3>1. m \in StateSync /\ m.key = sync_msg.key /\ m.grid = sync_msg.grid
          /\ m.centre = sync_msg.centre /\ m.am_bootstrapping = sync_msg.am_bootstrapping
      BY DEF TypeInv, SearchTypes, StateFor, CookedSync, StateSync
    <3> HIDE DEF m
    <3> QED BY <3>1, <1>3, SenseFacts DEF SyncAgrees
  <2>5. SenseOfKey \in Sense
        /\ (SenseOfKey.via # NoComplexity =>
              Demod[SenseOfKey.grid][SenseOfKey.centre][SenseOfKey.via] = SenseOfKey.centre)
    BY <1>3, SenseFacts DEF SyncAgrees
  <2> HIDE DEF l, m, SenseOfKey
  <2>6. InTouch(io_key, SenseOfKey, l, FreshPeer, <<m>>, <<>>, Due(io_key, l))
    BY <1>2, <2>3, <2>4, <2>5, BlankFacts, TouchJoin
  <2> QED BY <1>2, <2>1, <2>2, <2>6 DEF PeerTouch
<1> QED BY <1>4, <1>5, <1>6, <1>7

LEMMA KeyLose ==
  ASSUME TypeInv, KeyInv, NEW p \in Processing, Lose(p)
  PROVE  KeyInv'
<1>1. UNCHANGED <<serverVars, status>> /\ SenseOfKey' = SenseOfKey
  BY DEF Lose, serverVars, SenseOfKey
<1>2. SUFFICES ASSUME Running PROVE SyncAgrees' /\ \A q \in Processing' : PeerTouch(q)'
  BY <1>1 DEF KeyInv, Running, serverVars
<1>3. SyncAgrees'
  BY <1>1, <1>2 DEF KeyInv, SyncAgrees, serverVars
<1>4. /\ Members(processing') = Processing \ {p}
      /\ \A q \in Peers : peer'[q] = IF q \in {p} THEN FreshPeer ELSE peer[q]
  BY ForgetFacts DEF TypeInv, NetTypes, Lose
<1>5. ASSUME NEW q \in Processing \ {p} PROVE PeerTouch(q)'
  <2>1. q # p /\ q \in Peers /\ PeerTouch(q)
    BY <1>2, PeerTypes DEF KeyInv
  <2>2. link'[q] = link[q] /\ s2p'[q] = s2p[q] /\ p2s'[q] = p2s[q] /\ peer'[q] = peer[q]
    BY <2>1, <1>4 DEF Lose, TypeInv, NetTypes
  <2> QED BY <1>1, <2>1, <2>2, NothingPosted DEF serverVars
<1> QED BY <1>3, <1>4, <1>5 DEF Processing

LEMMA KeyServerWriteDone ==
  ASSUME TypeInv, KeyInv, NEW p \in Peers, ServerWriteDone(p)
  PROVE  KeyInv'
<1> DEFINE done == [link[p] EXCEPT !.writing = FALSE, !.late = FALSE]
           lk == [link EXCEPT ![p] = done]
<1>1. /\ UNCHANGED <<serverVars, status, processing, peer, p2s>> /\ SenseOfKey' = SenseOfKey
      /\ Processing' = Processing /\ p \in Processing
  BY DEF ServerWriteDone, taskVars, serverVars, SenseOfKey, Processing
<1>2. SUFFICES ASSUME Running PROVE SyncAgrees' /\ \A q \in Processing' : PeerTouch(q)'
  BY <1>1 DEF KeyInv, Running, serverVars
<1>3. SyncAgrees /\ SyncAgrees' /\ io_key' = io_key
  BY <1>1, <1>2 DEF KeyInv, SyncAgrees, serverVars
<1>4. /\ done \in Link /\ done.echo = link[p].echo /\ lk[p] = done
      /\ \A q \in Peers : q # p => lk[q] = link[q]
  BY DEF TypeInv, NetTypes, Link
<1>5. /\ link[p].late => Announce(lk, io_key, {p}, {}, StateFor(sync_msg))
      /\ ~link[p].late => link' = lk /\ s2p' = s2p
  BY DEF ServerWriteDone
<1> HIDE DEF done, lk
<1>6. ASSUME NEW q \in Processing, q # p PROVE PeerTouch(q)'
  <2>1. link'[q] = link[q] /\ s2p'[q] = s2p[q] /\ q \in Peers /\ PeerTouch(q)
    BY <1>2, <1>4, <1>5, <1>6, PeerTypes DEF Announce, KeyInv
  <2> QED BY <1>1, <1>3, <2>1, NothingPosted
<1>7. PeerTouch(p)'
  <2>1. InTouch(io_key, SenseOfKey, link[p], peer[p], s2p[p], p2s[p], Due(io_key, link[p]))
    BY <1>1, <1>2 DEF KeyInv, PeerTouch
  <2>2. /\ link[p] \in Link /\ peer[p] \in PeerState /\ s2p[p] \in Seq(Sent)
        /\ p2s[p] \in Seq(Report) /\ io_key \in Key /\ SenseOfKey \in Sense
    BY PeerTypes, SenseFacts
  <2>3. CASE link[p].late
    <3> DEFINE n == WithShare(StateFor(sync_msg), done.remaining)
    <3>1. n \in Sent /\ n.key = io_key /\ TellsAll(n, SenseOfKey)
      <4>1. done.remaining \in SUBSET Complexity
        BY <1>4 DEF Link
      <4> QED BY <4>1, <1>3, SyncMessage
    <3>2. link'[p] = Posted(io_key, done) /\ s2p'[p] = Then(io_key, done, s2p[p], n)
      BY <1>4, <1>5, <2>3 DEF Announce, Then, WithShare
    <3> HIDE DEF n, SenseOfKey
    <3>3. InTouch(io_key, SenseOfKey, done, peer[p], s2p[p], p2s[p], TRUE)
      BY <1>4, <2>1, TouchKept
    <3>4. InTouch(io_key, SenseOfKey, Posted(io_key, done), peer[p],
                  Then(io_key, done, s2p[p], n), p2s[p], Due(io_key, Posted(io_key, done)))
      BY <1>4, <2>2, <3>1, <3>3, PostedState
    <3> QED BY <1>1, <1>3, <3>2, <3>4 DEF PeerTouch
  <2>4. CASE ~link[p].late
    <3>1. ~Due(io_key, link[p])
      BY <2>4 DEF Due
    <3>2. InTouch(io_key, SenseOfKey, done, peer[p], s2p[p], p2s[p], Due(io_key, done))
      BY <1>4, <2>1, <3>1, TouchKept
    <3> QED BY <1>1, <1>3, <1>4, <1>5, <2>4, <3>2 DEF PeerTouch
  <2> QED BY <2>3, <2>4
<1> QED BY <1>1, <1>3, <1>6, <1>7

\* Whatever the report was, the server now counts the peer's keys from the one it echoes.
\* What was due because the peer had fallen behind is settled by a report with io_key.
LEMMA ReportHeard ==
  ASSUME TypeInv, KeyInv, NEW p \in Peers, ReportArrives(p), Running,
         NEW lk, lk = [link EXCEPT ![p].echo = Head(p2s[p]).key],
         NEW q \in Processing, q \in Members(processing')
  PROVE  /\ InTouch(io_key, SenseOfKey, lk[q], peer[q], s2p[q], p2s'[q], Due(io_key, link[q]))
         /\ q # p \/ Head(p2s[p]).key = io_key \/ ~Stale(io_key, link[p]) =>
              InTouch(io_key, SenseOfKey, lk[q], peer[q], s2p[q], p2s'[q], Due(io_key, lk[q]))
         /\ lk[q] \in Link /\ (q # p => lk[q] = link[q])
<1>1. /\ link[q] \in Link /\ peer[q] \in PeerState /\ s2p[q] \in Seq(Sent)
      /\ p2s[q] \in Seq(Report) /\ io_key \in Key /\ q \in Peers
  BY PeerTypes
<1>2. InTouch(io_key, SenseOfKey, link[q], peer[q], s2p[q], p2s[q], Due(io_key, link[q]))
  BY DEF KeyInv, PeerTouch
<1>3. /\ LinksOf(lk) /\ p2s[p] # <<>> /\ p2s'[q] = IF q = p THEN Tail(p2s[p]) ELSE p2s[q]
      /\ Head(p2s[p]).key \in Key
  BY ReportRead
<1>4. /\ lk[q] \in Link /\ lk[q].late = link[q].late /\ lk[q].writing = link[q].writing
      /\ (q = p => lk[q].echo = Head(p2s[p]).key) /\ (q # p => lk[q] = link[q])
  BY <1>1, <1>3 DEF LinksOf, Link, TypeInv, NetTypes
<1>5. CASE q = p
  <2> DEFINE in  == p2s[q]
             l   == link[q]
             h   == lk[q]
             was == Due(io_key, l)
             now == Due(io_key, h)
  <2>4. /\ in \in Seq(Report) /\ in # <<>> /\ l \in Link /\ h \in Link /\ h.echo = Head(in).key
        /\ p2s'[q] = Tail(in)
    BY <1>1, <1>3, <1>4, <1>5
  <2>5. InTouch(io_key, SenseOfKey, l, peer[q], s2p[q], in, was)
    BY <1>2
  <2>6. Head(in).key = io_key => InTouch(io_key, SenseOfKey, l, peer[q], s2p[q], in, now)
    BY <1>1, <1>2, <1>3, <1>5, TouchCaughtUp
  <2> HIDE DEF in, l, h, was, now
  <2>7. InTouch(io_key, SenseOfKey, h, peer[q], s2p[q], Tail(in), was)
    BY <1>1, <2>4, <2>5, TouchHeard
  <2>8. Head(in).key = io_key => InTouch(io_key, SenseOfKey, h, peer[q], s2p[q], Tail(in), now)
    BY <1>1, <2>4, <2>6, TouchHeard
  <2>1. InTouch(io_key, SenseOfKey, lk[q], peer[q], s2p[q], p2s'[q], Due(io_key, link[q]))
    BY <2>4, <2>7 DEF l, h, was
  <2>2. CASE Head(p2s[p]).key = io_key
    <3>1. InTouch(io_key, SenseOfKey, lk[q], peer[q], s2p[q], p2s'[q], Due(io_key, lk[q]))
      BY <1>5, <2>2, <2>4, <2>8 DEF in, h, now
    <3> QED BY <2>1, <3>1, <1>4
  <2>3. CASE Head(p2s[p]).key # io_key
    <3>1. ~Stale(io_key, link[p]) => (Due(io_key, link[q]) => Due(io_key, lk[q]))
      BY <1>4, <1>5 DEF Due
    <3>2. ~Stale(io_key, link[p]) =>
            InTouch(io_key, SenseOfKey, lk[q], peer[q], s2p[q], p2s'[q], Due(io_key, lk[q]))
      BY <2>1, <3>1, TouchKept
    <3> QED BY <2>1, <2>3, <3>2, <1>4, <1>5
  <2> QED BY <2>2, <2>3
<1>6. CASE q # p
  BY <1>2, <1>3, <1>4, <1>6
<1> QED BY <1>5, <1>6

LEMMA KeyBootReport ==
  ASSUME TypeInv, TypeInv', KeyInv, NEW p \in Peers, ReportArrives(p), NEW m,
         m = Head(p2s[p]), m.key = io_key, m.type = "boot",
         NEW lk, lk = [link EXCEPT ![p].echo = m.key], OnBootstrappingReport(m, lk)
  PROVE  KeyInv'
<1> DEFINE s == Bootstrapped(search, m.place, m.value)
           gone == WrappedAround(lk, NextKey)
           msg == StateFor(Cooked(s, NextKey))
<1>1. s \in Search /\ s.grid = search.grid /\ s.centre = m.place /\ ~s.am_bootstrapping
  <2>1. search \in Search /\ m.place \in Place /\ m.value \in Likelihood
    BY ReportRead DEF TypeInv, SearchTypes
  <2> QED BY <2>1, BootstrappedSearch, ZenonT(40)
<1>2. /\ search' = s /\ sync_msg' = Cooked(s, NextKey) /\ io_key' = NextKey
      /\ sync_timer' = PostedTimer
      /\ Announce(Dealt(lk, s.remaining), NextKey, Processing \ gone, gone, msg) /\ Forget(gone)
  BY DEF OnBootstrappingReport
<1>3. /\ status = "active" /\ coroutine = "none" /\ LinksOf(lk) /\ Elsewhere
      /\ UNCHANGED <<recentre_x, coroutine>>
  BY ReportRead
<1>4. Processing' = Processing \ gone
  BY TypeBootReport
<1>5. s.remaining \in SUBSET Complexity /\ NextKey \in Key
  BY <1>1, BlankFacts DEF Search, TypeInv, SearchTypes, NextKey
<1> HIDE DEF s
<1>6. SUFFICES ASSUME Running' PROVE SyncAgrees' /\ \A q \in Processing' : PeerTouch(q)'
  BY DEF KeyInv
<1>7. Running
  BY <1>2, <1>3, <1>6 DEF Running, PostedTimer
<1>8. /\ SyncAgrees'
      /\ SenseOfKey' = [grid |-> s.grid, boot |-> s.am_bootstrapping, centre |-> s.centre,
                        via |-> NoComplexity]
  BY <1>1, <1>2, <1>3, <1>5, CookedAgrees
<1> DEFINE lk2 == Dealt(lk, s.remaining)
<1>9. LinksOf(lk2) /\ \A q \in Peers : /\ lk2[q].echo = lk[q].echo /\ lk2[q].writing = lk[q].writing
                                       /\ lk2[q].late = lk[q].late
  <2>1. LinksOf(lk2)
    BY <1>3, <1>5, DealtLinks
  <2>2. \A q \in Peers : /\ lk2[q].echo = lk[q].echo /\ lk2[q].writing = lk[q].writing
                         /\ lk2[q].late = lk[q].late
    <3>1. LinksOf(lk) /\ s.remaining \in SUBSET Complexity
      BY <1>3, <1>5
    <3> QED BY ONLY <3>1, DealtKeeps
  <2> QED BY <2>1, <2>2
<1> HIDE DEF lk2
<1>10. gone = WrappedAround(lk2, NextKey)
  BY <1>9, PeerTypes DEF WrappedAround
<1>11. News(msg, NextKey, SenseOfKey, SenseOfKey')
  BY <1>1, <1>5, <1>8, StateNews
<1> HIDE DEF gone, msg
<1>12. ASSUME NEW q \in Processing \ gone
       PROVE  Heard(q, lk2)
  <2>1. q \in Members(processing') /\ q \in Processing /\ q \in Peers
    BY <1>4, PeerTypes DEF Processing
  <2>2. Heard(q, lk)
    BY <1>7, <2>1, ReportHeard DEF Heard
  <2> QED BY <1>9, <2>1, <2>2, HeardKept
<1>13. \A q \in Processing' : PeerTouch(q)'
  <2>1. Announce(lk2, NextKey, Processing \ gone, gone, msg) /\ Forget(gone)
    BY <1>2 DEF lk2
  <2>2. LinksOf(lk2)
    BY <1>9
  <2> QED BY <1>2, <1>4, <1>10, <1>11, <1>12, <2>1, <2>2, NewKeyIsKnown
<1> QED BY <1>8, <1>13

LEMMA OwnShare ==
  ASSUME NEW l \in Link, NEW r
  PROVE  /\ WithShare(l, r).echo = l.echo /\ WithShare(l, r).writing = l.writing
         /\ WithShare(l, r).late = l.late
BY DEF Link, WithShare

LEMMA KeyPeerReport ==
  ASSUME TypeInv, KeyInv, NEW p \in Peers, ReportArrives(p), NEW m,
         m = Head(p2s[p]), m.key = io_key, m.type = "report",
         NEW lk, lk = [link EXCEPT ![p].echo = m.key], OnPeerReport(p, m, lk)
  PROVE  KeyInv'
<1>1. /\ Processing' = Processing
      /\ search'.grid = search.grid /\ search'.centre = search.centre
      /\ search'.am_bootstrapping = search.am_bootstrapping
  BY TypePeerReport
<1>2. /\ status' = status /\ coroutine = "none" /\ LinksOf(lk)
      /\ UNCHANGED <<recentre_x, coroutine>>
  BY ReportRead DEF Elsewhere
<1>3. /\ UNCHANGED <<sync_msg, io_key, s2p, peer>> /\ sync_timer' = PostedTimer
      /\ link' = [lk EXCEPT ![p].remaining = lk[p].remaining \ m.done]
  BY DEF OnPeerReport
<1>4. SUFFICES ASSUME Running' PROVE SyncAgrees' /\ \A q \in Processing' : PeerTouch(q)'
  BY DEF KeyInv
<1>5. Running
  BY <1>2, <1>3, <1>4 DEF Running, PostedTimer
<1>6. SyncAgrees' /\ SenseOfKey' = SenseOfKey
  BY <1>1, <1>2, <1>3, <1>5 DEF KeyInv, SyncAgrees, SenseOfKey
<1>7. ASSUME NEW q \in Processing PROVE PeerTouch(q)'
  <2>1. Heard(q, lk)
    <3>1. q \in Members(processing')
      BY <1>1 DEF Processing
    <3> QED BY <1>5, <3>1, ReportHeard DEF Heard
  <2>2. /\ link'[q].echo = lk[q].echo /\ link'[q].writing = lk[q].writing
        /\ link'[q].late = lk[q].late
    <3>1. lk[q] \in Link /\ lk[p] \in Link /\ q \in Peers /\ lk \in [Peers -> Link]
      BY <1>2, PeerTypes DEF LinksOf
    <3>2. CASE q # p
      BY <1>3, <3>1, <3>2
    <3>3. CASE q = p
      <4> DEFINE l == lk[q]
                 r == lk[q].remaining \ m.done
      <4>1. link'[q] = WithShare(l, r) /\ l \in Link
        BY <1>3, <3>1, <3>3 DEF WithShare
      <4> HIDE DEF l, r
      <4>2. link'[q].echo = l.echo /\ link'[q].writing = l.writing /\ link'[q].late = l.late
        BY <4>1, OwnShare
      <4> QED BY <4>2 DEF l
    <3> QED BY <3>2, <3>3
  <2> QED BY <1>3, <1>6, <2>1, <2>2, HeardIsTouch
<1> QED BY <1>1, <1>6, <1>7

LEMMA KeyStaleReport ==
  ASSUME TypeInv, KeyInv, NEW p \in Peers, ReportArrives(p), NEW m,
         m = Head(p2s[p]), m.key # io_key,
         NEW lk, lk = [link EXCEPT ![p].echo = m.key],
         IF Stale(io_key, link[p])
         THEN Announce(lk, io_key, {p}, {}, StateFor(sync_msg))
         ELSE link' = lk /\ UNCHANGED s2p,
         UNCHANGED <<search, sync_msg, io_key, redistribute, sync_timer, processing, peer>>
  PROVE  KeyInv'
<1>1. /\ status' = status /\ LinksOf(lk) /\ Processing' = Processing
      /\ UNCHANGED <<recentre_x, coroutine>> /\ SenseOfKey' = SenseOfKey
  BY ReportRead DEF Elsewhere, Processing, SenseOfKey
<1>2. SUFFICES ASSUME Running PROVE SyncAgrees' /\ \A q \in Processing' : PeerTouch(q)'
  BY <1>1 DEF KeyInv, Running
<1>3. SyncAgrees /\ SyncAgrees'
  BY <1>1, <1>2 DEF KeyInv, SyncAgrees
<1>4. ASSUME NEW q \in Processing
      PROVE  /\ InTouch(io_key, SenseOfKey, lk[q], peer[q], s2p[q], p2s'[q], Due(io_key, link[q]))
             /\ q # p \/ ~Stale(io_key, link[p]) => Heard(q, lk)
             /\ q \in Peers /\ lk[q] \in Link
  <2>1. q \in Members(processing')
    BY <1>1 DEF Processing
  <2> QED BY <1>2, <2>1, ReportHeard, PeerTypes DEF Heard
<1>5. ASSUME NEW q \in Processing, q # p \/ ~Stale(io_key, link[p]) PROVE PeerTouch(q)'
  <2>1. Heard(q, lk) /\ q \in Peers
    BY <1>4, <1>5
  <2>2. link'[q] = lk[q] /\ s2p'[q] = s2p[q]
    BY <1>5, <2>1 DEF Announce
  <2> QED BY <1>1, <2>1, <2>2, HeardIsTouch
<1>6. ASSUME p \in Processing, Stale(io_key, link[p]) PROVE PeerTouch(p)'
  <2> DEFINE n == WithShare(StateFor(sync_msg), lk[p].remaining)
  <2>1. /\ InTouch(io_key, SenseOfKey, lk[p], peer[p], s2p[p], p2s'[p], Due(io_key, link[p]))
        /\ lk[p] \in Link
    BY <1>4, <1>6
  <2>2. n \in Sent /\ n.key = io_key /\ TellsAll(n, SenseOfKey)
    <3>1. lk[p].remaining \in SUBSET Complexity
      BY <2>1 DEF Link
    <3> QED BY <1>3, <3>1, SyncMessage
  <2>3. link'[p] = Posted(io_key, lk[p]) /\ s2p'[p] = Then(io_key, lk[p], s2p[p], n)
    BY <1>6 DEF Announce, Then, WithShare
  <2> HIDE DEF n
  <2>4. /\ peer[p] \in PeerState /\ s2p[p] \in Seq(Sent) /\ p2s'[p] \in Seq(Report)
        /\ io_key \in Key /\ SenseOfKey \in Sense
    BY PeerTypes, SenseFacts, ReportRead
  <2>5. InTouch(io_key, SenseOfKey, Posted(io_key, lk[p]), peer[p],
                Then(io_key, lk[p], s2p[p], n), p2s'[p], Due(io_key, Posted(io_key, lk[p])))
    BY <2>1, <2>2, <2>4, PostedState
  <2> QED BY <1>1, <2>3, <2>5 DEF PeerTouch
<1> QED BY <1>1, <1>3, <1>5, <1>6

LEMMA KeyReportArrives ==
  ASSUME TypeInv, TypeInv', KeyInv, NEW p \in Peers, ReportArrives(p)
  PROVE  KeyInv'
BY KeyBootReport, KeyPeerReport, KeyStaleReport DEF ReportArrives

\* New shares around the same centre, or the news of what others did.
LEMMA KeySendShares ==
  ASSUME TypeInv, TypeInv', KeyInv, Running, Elsewhere, coroutine # "recentre",
         NEW s \in Search, s.grid = search.grid, s.centre = search.centre,
         s.am_bootstrapping = search.am_bootstrapping,
         NEW lk, LinksOf(lk), \A q \in Processing : Heard(q, lk),
         NEW to \in SUBSET Processing, NEW b \in BOOLEAN,
         Conclude(s), Keep, Announce(lk, io_key, to, {}, ComplexityFor(b))
  PROVE  KeyInv'
<1>1. /\ search' = s /\ coroutine' = "none"
      /\ UNCHANGED <<io_key, sync_msg, processing, peer, p2s>> /\ Processing' = Processing
  BY DEF Conclude, Keep, Processing
<1>2. SyncAgrees' /\ SenseOfKey' = SenseOfKey
  BY <1>1 DEF KeyInv, SyncAgrees, SenseOfKey
<1>3. ASSUME NEW q \in Processing PROVE PeerTouch(q)'
  <2>1. /\ q \in Peers /\ lk[q] \in Link /\ peer[q] \in PeerState /\ s2p[q] \in Seq(Sent)
        /\ p2s'[q] \in Seq(Report) /\ io_key \in Key /\ Heard(q, lk)
    BY PeerTypes DEF LinksOf, TypeInv, NetTypes
  <2>2. CASE q \notin to
    <3>1. link'[q] = lk[q] /\ s2p'[q] = s2p[q]
      BY <2>1, <2>2 DEF Announce
    <3> QED BY <1>1, <1>2, <2>1, <3>1, HeardIsTouch
  <2>3. CASE q \in to
    <3> DEFINE n == WithShare(ComplexityFor(b), lk[q].remaining)
    <3>1. n \in Sent /\ n.type = "complexity"
      <4>1. lk[q].remaining \in SUBSET Complexity
        BY <2>1 DEF Link
      <4> QED BY <4>1, ComplexityForms
    <3>2. link'[q] = Posted(io_key, lk[q]) /\ s2p'[q] = Then(io_key, lk[q], s2p[q], n)
      BY <2>1, <2>3 DEF Announce, Then, WithShare
    <3> HIDE DEF n
    <3>3. InTouch(io_key, SenseOfKey, Posted(io_key, lk[q]), peer[q],
                  Then(io_key, lk[q], s2p[q], n), p2s'[q], Due(io_key, Posted(io_key, lk[q])))
      BY <2>1, <3>1, PostedShares DEF Heard
    <3> QED BY <1>1, <1>2, <3>2, <3>3 DEF PeerTouch
  <2> QED BY <2>2, <2>3
<1> QED BY <1>1, <1>2, <1>3 DEF KeyInv

\* A new key, for the whole state of the search or for its new centre.
LEMMA KeyAnnounced ==
  ASSUME TypeInv, TypeInv', KeyInv, Running,
         NEW s \in Search, search' = s, coroutine' = "none", io_key' = NextKey,
         sync_msg' = Cooked(s, NextKey),
         NEW lk, LinksOf(lk), NEW gone, gone = WrappedAround(lk, NextKey),
         Processing' = Processing \ gone, \A q \in Processing \ gone : Heard(q, lk),
         NEW m, Announce(lk, NextKey, Processing \ gone, gone, m), ForgetWithReports(gone),
         News(m, NextKey, SenseOfKey, SenseOfKey')
  PROVE  KeyInv'
<1>1. NextKey \in Key
  BY BlankFacts DEF TypeInv, SearchTypes, NextKey
<1>2. SyncAgrees'
  BY <1>1, CookedAgrees
<1>3. Forget(gone)
  BY DEF ForgetWithReports
<1>4. \A q \in Processing' : PeerTouch(q)'
  BY <1>3, NewKeyIsKnown
<1> QED BY <1>2, <1>4 DEF KeyInv

\* sync_peers_to_server_recentre_only: what the peers know of the key is taken to the
\* new centre by the complexity that they are sent.
LEMMA KeySendRecentre ==
  ASSUME TypeInv, TypeInv', KeyInv, Running, status = "active", Waiting(search.grid) # {},
         Elsewhere,
         NEW s \in Search, s.grid = search.grid, s.am_bootstrapping = search.am_bootstrapping,
         NEW x \in Complexity,
         \A u \in View : Agrees(u, SenseOfKey) /\ ~search.am_bootstrapping =>
                           Demod[search.grid][u.centre][x] = s.centre,
         NEW lk, LinksOf(lk),
         \A q \in Processing : /\ lk[q].echo = link[q].echo /\ lk[q].late = link[q].late
                               /\ lk[q].writing = link[q].writing,
         SendRecentre(s, lk, x)
  PROVE  KeyInv'
<1> DEFINE gone == WrappedAround(lk, NextKey)
           m == RecentreFor(NextKey, s.e_min, x)
           lk2 == Dealt(lk, s.remaining)
<1>1. /\ search' = s /\ coroutine' = "none" /\ io_key' = NextKey
      /\ sync_msg' = Cooked(s, NextKey) /\ ForgetWithReports(gone)
      /\ Announce(lk2, NextKey, Processing \ gone, gone, m)
  BY DEF SendRecentre, Conclude
<1>2. Processing' = Processing \ gone
  BY TypeSendRecentre
<1>3. /\ NextKey \in Key /\ s.e_min \in Likelihood /\ s.remaining \in SUBSET Complexity
  BY BlankFacts DEF TypeInv, SearchTypes, NextKey, Search
<1>4. /\ LinksOf(lk2)
      /\ \A q \in Processing : /\ lk2[q].echo = lk[q].echo /\ lk2[q].late = lk[q].late
                               /\ lk2[q].writing = lk[q].writing
  <2>1. LinksOf(lk2)
    BY <1>3, DealtLinks
  <2>2. \A q \in Peers : /\ lk2[q].echo = lk[q].echo /\ lk2[q].writing = lk[q].writing
                         /\ lk2[q].late = lk[q].late
    BY <1>3, DealtKeeps
  <2>3. Processing \subseteq Peers
    BY PeerTypes
  <2> QED BY <2>1, <2>2, <2>3
<1> HIDE DEF lk2
<1>5. gone = WrappedAround(lk2, NextKey)
  BY <1>4 DEF WrappedAround
<1>6. ASSUME NEW q \in Processing \ gone PROVE Heard(q, lk2)
  <2>1. p2s'[q] = p2s[q] /\ q \in Processing
    BY <1>1, PeerTypes DEF ForgetWithReports
  <2> QED BY <1>4, <2>1, HeardBefore
<1>7. News(m, NextKey, SenseOfKey, SenseOfKey')
  <2>1. SenseOfKey' = [grid |-> s.grid, boot |-> s.am_bootstrapping, centre |-> s.centre,
                       via |-> NoComplexity]
    BY <1>1, <1>3, CookedAgrees
  <2>2. SenseOfKey.grid = search.grid /\ SenseOfKey.boot = search.am_bootstrapping
    BY SenseFacts
  <2>3. ASSUME NEW n, n.type = "recentre", n.x = x PROVE TellsCentre(n, SenseOfKey, SenseOfKey')
    BY <2>1, <2>2, <2>3 DEF TellsCentre
  <2>4. \A r \in SUBSET Complexity :
          /\ WithShare(m, r) \in Sent /\ WithShare(m, r).key = NextKey
          /\ WithShare(m, r).type = "recentre" /\ WithShare(m, r).x = x
    BY <1>3, RecentreForms
  <2> HIDE DEF m
  <2> QED BY <2>3, <2>4 DEF News
<1> HIDE DEF gone, m
<1> QED BY <1>1, <1>2, <1>4, <1>5, <1>6, <1>7, KeyAnnounced

\* The new grid; or none, and then io_key stands for nothing until on_converged runs.
LEMMA KeySendShrunk ==
  ASSUME TypeInv, TypeInv', KeyInv, Running, status = "active", Elsewhere,
         NEW s \in Search, SendShrunk(s, link)
  PROVE  KeyInv'
<1>1. CASE Waiting(s.grid) = {}
  BY <1>1 DEF SendShrunk, KeyInv, Running
<1>2. CASE Waiting(s.grid) # {}
  <2> DEFINE gone == WrappedAround(link, NextKey)
             m == StateFor(Cooked(s, NextKey))
  <2>1. /\ search' = s /\ coroutine' = "none" /\ io_key' = NextKey
        /\ sync_msg' = Cooked(s, NextKey) /\ ForgetWithReports(gone)
        /\ Announce(link, NextKey, Processing \ gone, gone, m)
    BY <1>2 DEF SendShrunk, Conclude
  <2>2. Processing' = Processing \ gone /\ LinksOf(link)
    BY <1>2, TypeSendShrunk, MergedLinksFacts
  <2>3. NextKey \in Key
    BY BlankFacts DEF TypeInv, SearchTypes, NextKey
  <2>4. ASSUME NEW q \in Processing \ gone PROVE Heard(q, link)
    <3>1. p2s'[q] = p2s[q] /\ q \in Processing
      BY <2>1, PeerTypes DEF ForgetWithReports
    <3> QED BY <3>1, HeardBefore
  <2>5. News(m, NextKey, SenseOfKey, SenseOfKey')
    BY <2>1, <2>3, CookedAgrees, StateNews
  <2> HIDE DEF m
  <2>6. gone = WrappedAround(link, NextKey)
    OBVIOUS
  <2> HIDE DEF gone
  <2> QED BY <2>1, <2>2, <2>4, <2>5, <2>6, KeyAnnounced
<1> QED BY <1>1, <1>2

\* The coroutine yields: nothing has been announced yet.
LEMMA KeyYield ==
  ASSUME TypeInv, TypeInv', KeyInv, Running, status' = status, coroutine = "none",
         NEW s \in Search, s.grid = search.grid, s.am_bootstrapping = search.am_bootstrapping,
         NEW where, NEW x \in Complexity \cup {NoComplexity},
         Yield(where, s, MergedLinks, x),
         \/ /\ where = "level" /\ s.centre = search.centre /\ sync_msg' = sync_msg
         \/ /\ where = "recentre" /\ x \in Complexity
            /\ s.centre = Demod[search.grid][search.centre][x]
            /\ sync_msg' = [sync_msg EXCEPT !.grid = s.grid, !.centre = s.centre]
  PROVE  KeyInv'
<1>1. /\ search' = s /\ coroutine' = where /\ recentre_x' = x /\ link' = MergedLinks
      /\ UNCHANGED <<io_key, sync_timer, processing, peer, s2p, p2s>> /\ Processing' = Processing
  BY DEF Yield, Processing
<1>2. SyncAgrees
  BY DEF KeyInv
<1>3. ASSUME NEW q \in Processing PROVE Heard(q, MergedLinks) /\ q \in Peers
  <2>1. q \in Peers
    BY PeerTypes
  <2> QED BY <1>1, <2>1, HeardBefore, MergedLinksFacts
<1>4. SenseOfKey = [grid |-> search.grid, boot |-> search.am_bootstrapping,
                    centre |-> search.centre, via |-> NoComplexity]
  BY DEF SenseOfKey
<1>5. CASE where = "level"
  <2>1. SyncAgrees' /\ SenseOfKey' = SenseOfKey
    BY <1>1, <1>2, <1>4, <1>5 DEF SyncAgrees, SenseOfKey
  <2>2. ASSUME NEW q \in Processing PROVE PeerTouch(q)'
    BY <1>1, <1>3, <2>1, HeardIsTouch
  <2> QED BY <1>1, <2>1, <2>2 DEF KeyInv
<1>6. CASE where = "recentre"
  <2>1. x \in Complexity /\ s.centre = Demod[search.grid][search.centre][x]
        /\ sync_msg' = [sync_msg EXCEPT !.grid = s.grid, !.centre = s.centre]
    BY <1>6
  <2>2. SyncAgrees'
    <3>1. search.grid \in Grid /\ search.centre \in Place
      BY DEF TypeInv, SearchTypes, Search
    <3>2. Demod[search.grid][s.centre][x] = s.centre
      BY <2>1, <3>1, DemodulationAssumption
    <3>3. /\ sync_msg'.grid = s.grid /\ sync_msg'.centre = s.centre
          /\ sync_msg'.key = sync_msg.key
          /\ sync_msg'.am_bootstrapping = sync_msg.am_bootstrapping
      BY <2>1 DEF TypeInv, SearchTypes, CookedSync
    <3> QED BY <1>1, <1>2, <3>2, <3>3 DEF SyncAgrees
  <2>3. SenseOfKey' = [grid |-> search.grid, boot |-> search.am_bootstrapping,
                       centre |-> s.centre, via |-> x]
    BY <1>1, <1>6 DEF SenseOfKey
  <2>4. \A u \in View : Agrees(u, SenseOfKey) => Agrees(u, SenseOfKey')
    <3>1. x # NoComplexity
      BY <2>1 DEF Complexity, NoComplexity
    <3> QED BY <1>4, <2>1, <2>3, <3>1 DEF Agrees
  <2>5. ASSUME NEW q \in Processing PROVE PeerTouch(q)'
    <3>1. Len(s2p[q]) \in Nat /\ SenseOfKey'.boot = SenseOfKey.boot
      BY <1>4, <2>3, PeerTypes, LenProperties
    <3>2. InTouch(io_key, SenseOfKey, MergedLinks[q], peer[q], s2p[q], p2s'[q],
                  Due(io_key, MergedLinks[q]))
      BY <1>3 DEF Heard
    <3> HIDE DEF SenseOfKey
    <3>3. InTouch(io_key, SenseOfKey', MergedLinks[q], peer[q], s2p[q], p2s'[q],
                  Due(io_key, MergedLinks[q]))
      BY <2>4, <3>1, <3>2, TouchSense
    <3> QED BY <1>1, <3>3 DEF PeerTouch
  <2> QED BY <1>1, <2>2, <2>5 DEF KeyInv
<1> QED BY <1>5, <1>6

LEMMA KeySyncTimeout ==
  ASSUME TypeInv, TypeInv', KeyInv, SyncTimeout
  PROVE  KeyInv'
<1> DEFINE s == Merged(search)
           r == Recentred(s)
           x == search.e_min_complexity
<1>1. /\ status = "active" /\ sync_timer = "sync" /\ coroutine = "none" /\ Elsewhere
      /\ Waiting(search.grid) # {} /\ Running /\ status' = status
  BY DEF SyncTimeout, TypeInv, Steady, Elsewhere, Running
<1>2. /\ s \in Search /\ s.grid = search.grid /\ s.centre = search.centre
      /\ s.am_bootstrapping = search.am_bootstrapping
      /\ s.remaining \in SUBSET Complexity /\ LinksOf(MergedLinks)
      /\ x # NoComplexity => /\ x \in Complexity /\ r \in Search /\ r.grid = search.grid
                             /\ r.am_bootstrapping = search.am_bootstrapping
                             /\ r.centre = Demod[search.grid][search.centre][x]
      /\ \A p \in Processing : /\ MergedLinks[p].echo = link[p].echo
                               /\ MergedLinks[p].writing = link[p].writing
                               /\ MergedLinks[p].late = link[p].late
  BY SyncedForms, MergedLinksFacts, PeerTypes
<1> HIDE DEF r, s
<1>3. CASE /\ x # NoComplexity /\ Yield("recentre", r, MergedLinks, x)
           /\ sync_msg' = [sync_msg EXCEPT !.grid = r.grid, !.centre = r.centre]
  BY <1>1, <1>2, <1>3, KeyYield
<1>4. CASE x # NoComplexity /\ SendRecentre(r, MergedLinks, x)
  <2>1. \A u \in View : Agrees(u, SenseOfKey) /\ ~search.am_bootstrapping =>
                          Demod[search.grid][u.centre][x] = r.centre
    BY <1>1, <1>2, <1>4 DEF Agrees, SenseOfKey
  <2> QED BY <1>1, <1>2, <1>4, <2>1, KeySendRecentre
<1>5. CASE Yield("level", s, MergedLinks, NoComplexity) /\ UNCHANGED sync_msg
  BY <1>1, <1>2, <1>5, KeyYield
<1>6. CASE SendComplexities(s, MergedLinks)
  <2> DEFINE lk == Dealt(MergedLinks, s.remaining)
  <2>1. LinksOf(lk)
    BY <1>2, DealtLinks
  <2>2. \A q \in Peers : /\ lk[q].echo = MergedLinks[q].echo /\ lk[q].late = MergedLinks[q].late
                         /\ lk[q].writing = MergedLinks[q].writing
    BY <1>2, DealtKeeps
  <2>3. /\ Conclude(s) /\ Keep
        /\ Announce(lk, io_key, Processing, {}, ComplexityFor(FALSE))
    BY <1>6 DEF SendComplexities
  <2> HIDE DEF lk
  <2>4. ASSUME NEW q \in Processing PROVE Heard(q, lk)
    <3>1. q \in Peers /\ p2s'[q] = p2s[q]
      BY <2>3, PeerTypes DEF Keep
    <3> QED BY <1>1, <1>2, <2>2, <3>1, HeardBefore
  <2> QED BY <1>1, <1>2, <2>1, <2>3, <2>4, KeySendShares
<1>7. CASE SendAssisted(s, MergedLinks, Assisted)
  <2>1. /\ Conclude(s) /\ Keep /\ Assisted \in SUBSET Processing
        /\ Announce(MergedLinks, io_key, Assisted, {}, ComplexityFor(TRUE))
    BY <1>7 DEF SendAssisted, Assisted
  <2>2. ASSUME NEW q \in Processing PROVE Heard(q, MergedLinks)
    BY <1>1, <1>2, <2>1, HeardBefore DEF Keep
  <2> QED BY <1>1, <1>2, <2>1, <2>2, KeySendShares
<1> QED BY <1>3, <1>4, <1>5, <1>6, <1>7 DEF SyncTimeout, r, s

LEMMA KeyResumeCoroutine ==
  ASSUME TypeInv, TypeInv', KeyInv, ResumeCoroutine
  PROVE  KeyInv'
<1> DEFINE s == Advanced(search)
<1>1. /\ status = "active" /\ coroutine # "none" /\ Elsewhere /\ Waiting(search.grid) # {}
      /\ Running
  BY DEF ResumeCoroutine, TypeInv, Steady, Elsewhere, Running
<1>2. /\ s \in Search /\ s.grid = search.grid /\ s.centre = search.centre
      /\ s.am_bootstrapping = search.am_bootstrapping
      /\ s.remaining \in SUBSET Complexity /\ LinksOf(link)
  <2>1. search \in Search
    BY DEF TypeInv, SearchTypes
  <2>2. /\ s \in Search /\ s.grid = search.grid /\ s.centre = search.centre
        /\ s.am_bootstrapping = search.am_bootstrapping
    BY <2>1, AdvancedForms
  <2> HIDE DEF s
  <2> QED BY <2>2, MergedLinksFacts DEF Search
<1> HIDE DEF s
<1>3. CASE SendShrunk(Shrunk(s), link)
  <2>1. Shrunk(s) \in Search
    BY <1>1, <1>2, ShrunkFields
  <2> QED BY <1>1, <1>3, <2>1, KeySendShrunk
<1>4. CASE coroutine = "recentre" /\ SendRecentre(s, link, recentre_x)
  <2>1. recentre_x \in Complexity
    BY <1>4 DEF TypeInv, SearchTypes, Steady
  <2>2. \A u \in View : Agrees(u, SenseOfKey) /\ ~search.am_bootstrapping =>
                          Demod[search.grid][u.centre][recentre_x] = s.centre
    <3>1. SenseOfKey = [grid |-> search.grid, boot |-> search.am_bootstrapping,
                        centre |-> search.centre, via |-> recentre_x]
      BY <1>4 DEF SenseOfKey
    <3>2. recentre_x # NoComplexity
      BY <1>4 DEF TypeInv, Steady
    <3> QED BY <1>2, <3>1, <3>2 DEF Agrees
  <2> QED BY <1>1, <1>2, <1>4, <2>1, <2>2, KeySendRecentre
<1>5. CASE coroutine = "level" /\ SendComplexities(s, link)
  <2> DEFINE lk == Dealt(link, s.remaining)
  <2>1. LinksOf(lk)
    BY <1>2, DealtLinks
  <2>2. \A q \in Peers : /\ lk[q].echo = link[q].echo /\ lk[q].late = link[q].late
                         /\ lk[q].writing = link[q].writing
    BY <1>2, DealtKeeps
  <2>3. /\ Conclude(s) /\ Keep
        /\ Announce(lk, io_key, Processing, {}, ComplexityFor(FALSE))
    BY <1>5 DEF SendComplexities
  <2> HIDE DEF lk
  <2>4. ASSUME NEW q \in Processing PROVE Heard(q, lk)
    <3>1. q \in Peers /\ p2s'[q] = p2s[q]
      BY <2>3, PeerTypes DEF Keep
    <3> QED BY <1>1, <2>2, <3>1, HeardBefore
  <2> QED BY <1>1, <1>2, <1>5, <2>1, <2>3, <2>4, KeySendShares
<1> QED BY <1>3, <1>4, <1>5 DEF ResumeCoroutine, s

\* A task that is taken up again starts without connections.
LEMMA KeyActivate ==
  ASSUME TypeInv, TypeInv', Activate
  PROVE  KeyInv'
<1>1. processing' = <<>>
  BY DEF Activate, TypeInv, Steady, netVars
<1>2. Processing' = {}
  BY <1>1 DEF Processing, Members
<1>3. SUFFICES ASSUME Running' PROVE SyncAgrees'
  BY <1>2 DEF KeyInv
<1>4. PICK s \in Search : StartFrom(s)
  BY <1>3, SearchForms DEF Activate, Running, TypeInv, TaskTypes
<1>5. /\ search' = s /\ io_key' = 1 /\ sync_msg' = Cooked(s, 1) /\ coroutine' = "none"
      /\ 1 \in Key
  BY <1>4, BlankFacts DEF StartFrom
<1> QED BY <1>5, CookedAgrees

\* A peer that reads, or works, only moves along what it was told.
LEMMA KeyPeerStep ==
  ASSUME TypeInv, KeyInv, NEW p \in Peers, PeerStep(p)
  PROVE  KeyInv'
<1>1. /\ Processing' = Processing /\ p \in Processing
      /\ UNCHANGED <<serverVars, status, processing, link>> /\ SenseOfKey' = SenseOfKey
  BY PeerHears, PeerWorks DEF PeerUnchanged, taskVars, serverVars, SenseOfKey
<1>2. SUFFICES ASSUME Running PROVE SyncAgrees' /\ \A q \in Processing : PeerTouch(q)'
  BY <1>1 DEF KeyInv, Running, serverVars
<1>3. SyncAgrees' /\ io_key' = io_key
  BY <1>1, <1>2 DEF KeyInv, SyncAgrees, serverVars
<1>4. /\ \A q \in Processing : PeerTouch(q) /\ q \in Peers
      /\ link[p] \in Link /\ peer[p] \in PeerState /\ s2p[p] \in Seq(Sent)
      /\ p2s[p] \in Seq(Report) /\ io_key \in Key /\ SenseOfKey \in Sense
  BY <1>2, PeerTypes, SenseFacts DEF KeyInv
<1>5. InTouch(io_key, SenseOfKey, link[p], peer[p], s2p[p], p2s[p], Due(io_key, link[p]))
  BY <1>1, <1>4 DEF PeerTouch
<1>6. CASE PeerReads(p)
  <2>1. PICK d \in PeerState :
          /\ peer' = [peer EXCEPT ![p] = d] /\ s2p' = [s2p EXCEPT ![p] = Tail(s2p[p])]
          /\ ViewOf(d) = ViewAfter(ViewOf(peer[p]), Head(s2p[p]))
          /\ \/ d.deferred = NoReport
             \/ d.deferred = peer[p].deferred /\ d.key = peer[p].key
    BY <1>6, PeerHears
  <2>2. s2p[p] # <<>> /\ p2s' = p2s
    BY <1>6 DEF PeerReads
  <2>3. peer'[p] = d /\ s2p'[p] = Tail(s2p[p])
        /\ \A q \in Peers : q # p => peer'[q] = peer[q] /\ s2p'[q] = s2p[q]
    BY <2>1 DEF TypeInv, NetTypes
  <2>4. InTouch(io_key, SenseOfKey, link[p], d, Tail(s2p[p]), p2s[p], Due(io_key, link[p]))
    BY <1>4, <1>5, <2>1, <2>2, TouchRead
  <2>5. PeerTouch(p)'
    BY <1>1, <1>3, <2>2, <2>3, <2>4 DEF PeerTouch
  <2>6. ASSUME NEW q \in Processing, q # p PROVE PeerTouch(q)'
    BY <1>1, <1>3, <1>4, <2>2, <2>3, <2>6, NothingPosted
  <2> QED BY <1>3, <2>5, <2>6
<1>7. CASE ~PeerReads(p)
  <2>1. /\ s2p' = s2p /\ peer[p] # FreshPeer
        /\ \E d \in PeerState, m \in Report : Works(p, peer[p], d, m)
    BY <1>7, PeerWorks
  <2>2. PICK d \in PeerState, m \in Report : Works(p, peer[p], d, m)
    BY <2>1
  <2>3. /\ peer'[p] = d /\ p2s'[p] \in {p2s[p], Append(p2s[p], m)}
        /\ \A q \in Peers : q # p => peer'[q] = peer[q] /\ p2s'[q] = p2s[q]
    BY <2>2 DEF Works, TypeInv, NetTypes
  <2>4. InTouch(io_key, SenseOfKey, link[p], d, s2p[p], p2s'[p], Due(io_key, link[p]))
    BY <1>4, <1>5, <2>1, <2>2, <2>3, TouchWork DEF Works, Says
  <2>5. PeerTouch(p)'
    BY <1>1, <1>3, <2>1, <2>3, <2>4 DEF PeerTouch
  <2>6. ASSUME NEW q \in Processing, q # p PROVE PeerTouch(q)'
    BY <1>1, <1>3, <1>4, <2>1, <2>3, <2>6, NothingPosted
  <2> QED BY <1>3, <2>5, <2>6
<1> QED BY <1>6, <1>7

LEMMA KeyInit == Init => KeyInv
<1> SUFFICES ASSUME Init PROVE KeyInv
  OBVIOUS
<1>1. Processing = {}
  BY DEF Init, Processing, Members
<1>2. SyncAgrees
  <2>1. FreshSearch \in Search /\ 1 \in Key
    BY SearchForms, BlankFacts
  <2> QED BY <2>1, SearchForms DEF Init, SyncAgrees
<1> QED BY <1>1, <1>2 DEF KeyInv

LEMMA KeyNext ==
  ASSUME 0 \notin JoinKeys
  PROVE  TypeInv /\ KeyInv /\ [Next]_vars => KeyInv'
<1>1. SUFFICES ASSUME TypeInv, KeyInv, [Next]_vars PROVE KeyInv'
  OBVIOUS
<1>2. TypeInv'
  BY <1>1, TypeNext
<1>3. CASE UNCHANGED vars
  BY <1>1, <1>3 DEF vars, serverVars, taskVars, netVars, KeyInv, Running, SyncAgrees,
                    PeerTouch, SenseOfKey, Processing
<1>4. CASE ServerStep
  <2>1. ASSUME NEW p \in Peers, Join(p) PROVE KeyInv'
    BY <1>1, <1>2, <2>1, KeyJoin
  <2>2. ASSUME NEW p \in Peers, Leave(p) \/ Lapse(p) PROVE KeyInv'
    <3>1. p \in Processing /\ Lose(p)
      BY <2>2 DEF Leave, Lapse
    <3> QED BY <1>1, <3>1, KeyLose
  <2>3. ASSUME NEW p \in Peers, ServerWriteDone(p) PROVE KeyInv'
    BY <1>1, <2>3, KeyServerWriteDone
  <2>4. ASSUME NEW p \in Peers, ReportArrives(p) PROVE KeyInv'
    BY <1>1, <1>2, <2>4, KeyReportArrives
  <2>5. CASE SaveTimeout
    BY <1>1, <2>5 DEF SaveTimeout, netVars, KeyInv, Running, SyncAgrees, PeerTouch, SenseOfKey,
                      Processing
  <2>6. CASE OnConverged \/ Deactivate \/ Crash
    BY <2>6 DEF OnConverged, Deactivate, Crash, KeyInv, Running
  <2> QED BY <1>1, <1>2, <1>4, <2>1, <2>2, <2>3, <2>4, <2>5, <2>6, KeySyncTimeout,
             KeyResumeCoroutine, KeyActivate DEF ServerStep
<1>5. ASSUME NEW p \in Peers, PeerStep(p) PROVE KeyInv'
  BY <1>1, <1>5, KeyPeerStep
<1> QED BY <1>1, <1>3, <1>4, <1>5 DEF Next

\* What the server's end and the peer's end of a connection know of each other amounts
\* to KeyAgreement.  A peer without a connection has nothing to report.
LEMMA KeyInvIsKeyAgreement == TypeInv /\ KeyInv => KeyAgreement
<1>1. SUFFICES ASSUME TypeInv, KeyInv, Settled, NEW p \in Peers, NEW m \in Outstanding(p),
                      m.key = io_key
               PROVE  /\ peer[p].grid = search.grid
                      /\ m.type = (IF search.am_bootstrapping THEN "boot" ELSE "report")
                      /\ ~search.am_bootstrapping => peer[p].centre = search.centre
  BY DEF KeyAgreement
<1>2. \/ \E i \in 1 .. Len(p2s[p]) : m = p2s[p][i]
      \/ peer[p].deferred # NoReport /\ m = peer[p].deferred
  BY DEF Outstanding
<1>3. p \in Processing
  <2>1. ~Blank(p)
    BY <1>2 DEF Blank, FreshPeer
  <2> QED BY <1>1, <2>1, Connected
<1>4. InTouch(io_key, SenseOfKey, link[p], peer[p], s2p[p], p2s[p], Due(io_key, link[p]))
  BY <1>1, <1>3 DEF KeyInv, Running, Settled, PeerTouch
<1>5. /\ link[p] \in Link /\ peer[p] \in PeerState /\ s2p[p] \in Seq(Sent)
      /\ p2s[p] \in Seq(Report) /\ io_key \in Key
  BY <1>1, PeerTypes
<1>6. m \in Report
  <2>1. \A i \in 1 .. Len(p2s[p]) : p2s[p][i] \in Report
    BY <1>5, LenProperties
  <2>2. peer[p].deferred # NoReport => peer[p].deferred \in Report
    BY <1>5 DEF PeerState, Report
  <2> QED BY <1>2, <2>1, <2>2
<1>7. m.type = TypeFor(SenseOfKey) /\ Agrees(ViewOf(peer[p]), SenseOfKey)
  <2>1. CASE \E i \in 1 .. Len(p2s[p]) : m = p2s[p][i]
    <3> DEFINE l == link[p]
               c == peer[p]
               out == s2p[p]
               in == p2s[p]
               due == Due(io_key, l)
    <3>1. /\ l \in Link /\ c \in PeerState /\ out \in Seq(Sent) /\ in \in Seq(Report)
          /\ InTouch(io_key, SenseOfKey, l, c, out, in, due)
          /\ \E i \in 1 .. Len(in) : m = in[i]
      BY <1>4, <1>5, <2>1
    <3> HIDE DEF l, c, out, in, due
    <3>2. m.type = TypeFor(SenseOfKey) /\ Agrees(ViewOf(c), SenseOfKey)
      BY <1>1, <1>5, <1>6, <3>1, TouchSays
    <3> QED BY <3>2 DEF c
  <2>2. CASE peer[p].deferred # NoReport /\ m = peer[p].deferred
    BY <1>1, <1>4, <1>5, <1>6, <2>2, TouchSays
  <2> QED BY <1>2, <2>1, <2>2
<1>8. SenseOfKey = [grid |-> search.grid, boot |-> search.am_bootstrapping,
                    centre |-> search.centre, via |-> NoComplexity]
  BY <1>1 DEF SenseOfKey, Settled
<1> QED BY <1>7, <1>8 DEF TypeFor, Agrees, ViewOf

\* KeyAgreement, in every state of every task, for any number of peers and keys, also
\* when keys wrap around, as long as no peer completes its handshake under key 0 (which
\* is what a peer takes itself to have been told of before it was told anything).
THEOREM KeysAgree ==
  ASSUME 0 \notin JoinKeys
  PROVE  Spec => []KeyAgreement
<1>1. Init => TypeInv /\ KeyInv
  BY TypeInit, KeyInit
<1>2. TypeInv /\ KeyInv /\ [Next]_vars => TypeInv' /\ KeyInv'
  BY TypeNext, KeyNext
<1>3. TypeInv /\ KeyInv => KeyAgreement
  BY KeyInvIsKeyAgreement
<1> QED BY <1>1, <1>2, <1>3, PTL DEF Spec

-----------------------------------------------------------------------------
(* What peers say is true: what they report under io_key they have          *)
(* evaluated, on the grid and around the centre that the key stands for.    *)

\* A complexity that was evaluated, or leads nowhere.
Seen(s, ev, y) == PlaceOf(s, y) = s.centre \/ <<s.grid, PlaceOf(s, y)>> \in ev

Honest(s, ev, m) ==
  /\ m.type = "boot" => m.value = Value[m.place] /\ <<s.grid, m.place>> \in ev
  /\ m.type = "report" =>
       /\ m.x \in m.done \cup {NoComplexity} /\ \A y \in m.done : Seen(s, ev, y)
       /\ m.x # NoComplexity => m.value = Value[PlaceOf(s, m.x)]

HonestPeer(p) ==
  /\ peer[p].key = io_key /\ ~search.am_bootstrapping =>
       \A y \in peer[p].unreported : Seen(search, evaluated, y)
  /\ \A m \in Outstanding(p) : m.key = io_key => Honest(search, evaluated, m)

\* io_key stands for the search as it is: no coroutine is about to move the centre.
Working == Running /\ coroutine # "recentre"

WorkInv == Working => \A p \in Processing : HonestPeer(p)

-----------------------------------------------------------------------------
(* What a peer knows, and what it cannot know yet.                          *)

\* What is outstanding are reports.
LEMMA OutstandingFacts ==
  ASSUME TypeInv, NEW p \in Peers
  PROVE  /\ Outstanding(p) \subseteq Report
         /\ \A m \in Outstanding(p) : \/ \E i \in 1 .. Len(p2s[p]) : m = p2s[p][i]
                                      \/ peer[p].deferred # NoReport /\ m = peer[p].deferred
<1>1. p2s[p] \in Seq(Report) /\ peer[p] \in PeerState
  BY PeerTypes
<1>2. \A i \in 1 .. Len(p2s[p]) : p2s[p][i] \in Report
  BY <1>1, LenProperties
<1>3. peer[p].deferred # NoReport => peer[p].deferred \in Report
  BY <1>1 DEF PeerState, Report
<1> QED BY <1>2, <1>3 DEF Outstanding

\* A peer whose key is the server's knows what the key stands for, if it was told anything.
LEMMA TouchKnows ==
  ASSUME NEW key, NEW g, NEW l, NEW c, NEW out, Len(out) \in Nat, NEW in, NEW due,
         InTouch(key, g, l, c, out, in, due), c.key = key
  PROVE  c = FreshPeer \/ Agrees(ViewOf(c), g)
<1>1. PICK b \in {0, 1}, v \in [0 .. Len(out) -> View] : Linked(key, g, l, c, out, in, due, b, v)
  BY DEF InTouch
<1>2. v[0] = ViewOf(c) /\ ViewOf(c).key = key
  BY <1>1 DEF Linked, ViewOf
<1>3. CASE b = 0
  <2>1. v[0].key = key => Agrees(v[0], g)
    BY <1>1, <1>3 DEF Linked
  <2> QED BY <1>2, <2>1
<1>4. CASE b = 1
  BY <1>1, <1>4 DEF Linked
<1> QED BY <1>3, <1>4

LEMMA PeerKnows ==
  ASSUME TypeInv, KeyInv, Working, NEW p \in Processing, peer[p].key = io_key,
         peer[p] # FreshPeer
  PROVE  /\ peer[p].grid = search.grid /\ peer[p].am_bootstrapping = search.am_bootstrapping
         /\ ~search.am_bootstrapping => peer[p].centre = search.centre
<1>1. InTouch(io_key, SenseOfKey, link[p], peer[p], s2p[p], p2s[p], Due(io_key, link[p]))
  BY DEF KeyInv, PeerTouch, Working
<1>2. Len(s2p[p]) \in Nat
  BY PeerTypes, LenProperties
<1>3. Agrees(ViewOf(peer[p]), SenseOfKey)
  BY <1>1, <1>2, TouchKnows
<1> QED BY <1>3 DEF Agrees, ViewOf, SenseOfKey, Working

\* What is outstanding under io_key was made by a peer that has this key, in its mode.
LEMMA ReporterKnows ==
  ASSUME TypeInv, KeyInv, Running, NEW p \in Processing, NEW m \in Outstanding(p),
         m.key = io_key
  PROVE  m.type = TypeFor(SenseOfKey) /\ peer[p].key = io_key
<1> DEFINE l == link[p]
           c == peer[p]
           out == s2p[p]
           in == p2s[p]
           due == Due(io_key, l)
<1>1. /\ l \in Link /\ c \in PeerState /\ out \in Seq(Sent) /\ in \in Seq(Report)
      /\ InTouch(io_key, SenseOfKey, l, c, out, in, due)
      /\ io_key \in Key /\ p \in Peers
  BY PeerTypes DEF KeyInv, PeerTouch
<1>2. /\ m \in Report
      /\ \/ \E i \in 1 .. Len(in) : m = in[i]
         \/ c.deferred # NoReport /\ m = c.deferred
  BY <1>1, OutstandingFacts
<1> HIDE DEF l, c, out, in, due
<1>3. m.type = TypeFor(SenseOfKey) /\ c.key = io_key
  BY <1>1, <1>2, TouchSays
<1> QED BY <1>3 DEF c

\* Nobody has the next key, and nobody has reported under it, unless a key was echoed
\* so long ago that it is the next one.
LEMMA NextKeyIsNew ==
  ASSUME NEW key \in Key, NEW g, NEW l \in Link, NEW c \in PeerState,
         NEW out \in Seq(Sent), NEW in \in Seq(Report), NEW due, NEW next,
         InTouch(key, g, l, c, out, in, due),
         next = (key + 1) % KeyMod, l.echo # next
  PROVE  /\ c.key = next => c = FreshPeer
         /\ \A i \in 1 .. Len(in) : in[i].key # next
         /\ c.deferred # NoReport => c.deferred.key # next
<1> DEFINE yes == [boot |-> TRUE, grid |-> 0, centre |-> Origin, via |-> NoComplexity]
           no  == [boot |-> FALSE, grid |-> 0, centre |-> Origin, via |-> NoComplexity]
           late == TRUE
<1>1. yes.boot /\ ~no.boot
  OBVIOUS
<1> HIDE DEF yes, no
<1>2. InTouch(next, yes, l, c, out, in, late) /\ InTouch(next, no, l, c, out, in, late)
  <2>1. ASSUME NEW g2 PROVE InTouch(next, g2, l, c, out, in, TRUE)
    <3>1. PICK b \in {0, 1}, v \in [0 .. Len(out) -> View] :
            Linked(key, g, l, c, out, in, due, b, v)
      BY DEF InTouch
    <3>2. Linked(next, g2, l, c, out, in, TRUE, b, v)
      BY <3>1, LinkedUnderNextKey
    <3> QED BY <3>2 DEF InTouch
  <2> QED BY <2>1
<1> HIDE DEF late
<1>3. Len(out) \in Nat /\ next \in Key
  BY LenProperties, BlankFacts
<1>4. c.key = next => c = FreshPeer
  <2>1. SUFFICES ASSUME c.key = next, c # FreshPeer PROVE FALSE
    OBVIOUS
  <2>2. Agrees(ViewOf(c), yes) /\ Agrees(ViewOf(c), no)
    BY <1>2, <1>3, <2>1, TouchKnows
  <2> QED BY <1>1, <2>2 DEF Agrees, ViewOf, PeerState
<1>5. ASSUME NEW m \in Report,
             (\E i \in 1 .. Len(in) : m = in[i]) \/ (c.deferred # NoReport /\ m = c.deferred)
      PROVE  m.key # next
  <2>1. SUFFICES ASSUME m.key = next PROVE FALSE
    OBVIOUS
  <2>2. m.type = TypeFor(yes)
    BY <1>2, <1>3, <1>5, <2>1, TouchSays
  <2>3. m.type = TypeFor(no)
    BY <1>2, <1>3, <1>5, <2>1, TouchSays
  <2> QED BY <1>1, <2>2, <2>3 DEF TypeFor
<1>6. /\ \A i \in 1 .. Len(in) : in[i] \in Report
      /\ c.deferred # NoReport => c.deferred \in Report
  BY LenProperties DEF PeerState, Report
<1> QED BY <1>4, <1>5, <1>6

\* So a new key makes all that peers know or have reported a thing of the past.
LEMMA NobodyHasNextKey ==
  ASSUME TypeInv, NEW lk, LinksOf(lk), NEW q \in Processing, Heard(q, lk),
         lk[q].echo # NextKey, p2s' \in [Peers -> Seq(Report)], peer'[q] = peer[q]
  PROVE  /\ peer[q].key = NextKey => peer[q] = FreshPeer
         /\ \A m \in Outstanding(q)' : m.key # NextKey
<1> DEFINE l == lk[q]
           c == peer[q]
           out == s2p[q]
           in == p2s'[q]
           due == Due(io_key, l)
<1>1. /\ l \in Link /\ c \in PeerState /\ out \in Seq(Sent) /\ in \in Seq(Report)
      /\ io_key \in Key /\ q \in Peers /\ NextKey = (io_key + 1) % KeyMod /\ l.echo # NextKey
      /\ InTouch(io_key, SenseOfKey, l, c, out, in, due)
  BY PeerTypes DEF LinksOf, Heard, NextKey
<1>2. \A m \in Outstanding(q)' : \/ \E i \in 1 .. Len(in) : m = in[i]
                                 \/ c.deferred # NoReport /\ m = c.deferred
  BY DEF Outstanding
<1> HIDE DEF l, c, out, in, due
<1>3. /\ c.key = NextKey => c = FreshPeer
      /\ \A i \in 1 .. Len(in) : in[i].key # NextKey
      /\ c.deferred # NoReport => c.deferred.key # NextKey
  BY <1>1, NextKeyIsNew
<1> QED BY <1>2, <1>3 DEF c

-----------------------------------------------------------------------------
(* What the steps of a peer do, in full.                                    *)

\* What no step changes by which a peer only works.
SameWork(c, d) ==
  /\ d.key = c.key /\ d.grid = c.grid /\ d.centre = c.centre
  /\ d.am_bootstrapping = c.am_bootstrapping

\* The peer wrote m, or put it off; otherwise nothing was to be said.
Told(p, c, d, all, m) ==
  \/ /\ c.writing /\ d.writing /\ d.unreported = all /\ d.deferred = m /\ p2s' = p2s
  \/ /\ ~c.writing /\ d.writing = SlowWrites /\ d.unreported = {} /\ d.deferred = c.deferred
     /\ p2s' = [p2s EXCEPT ![p] = Append(p2s[p], m)]
KeptQuiet(c, d, all) ==
  d.unreported = all /\ d.deferred = c.deferred /\ d.writing = c.writing /\ p2s' = p2s

\* Of its share the peer has tried x, which is better than all before or is not.
Tried(p, x, better, d, m) ==
  LET c  == peer[p]
      pl == Demod[c.grid][c.centre][x]
  IN /\ peer' = [peer EXCEPT ![p] = d]
     /\ SameWork(c, d) /\ ~c.am_bootstrapping
     /\ x \in c.remaining /\ d.remaining = c.remaining \ {x}
     /\ evaluated \subseteq evaluated' /\ (pl # c.centre => <<c.grid, pl>> \in evaluated')
     /\ better => /\ pl # c.centre /\ Value[pl] < Target[c.e_min]
                  /\ d.e_min = Value[pl] /\ m.x = x
     /\ ~better => /\ pl = c.centre \/ ~(Value[pl] < Target[c.e_min])
                   /\ d.e_min = c.e_min /\ m.x = NoComplexity
     /\ m.type = "report" /\ m.key = c.key /\ m.value = d.e_min
     /\ m.done = c.unreported \cup {x}
     /\ Told(p, c, d, m.done, m) \/ (~better /\ KeptQuiet(c, d, m.done))

LEMMA IssueTells ==
  ASSUME NEW p \in Peers, NEW c, NEW e \in PeerState, NEW m \in Report, Issue(p, e, m),
         e.writing = c.writing, e.deferred = c.deferred
  PROVE  \E d \in PeerState : /\ peer' = [peer EXCEPT ![p] = d] /\ Told(p, c, d, e.unreported, m)
                              /\ SameWork(e, d) /\ d.e_min = e.e_min
                              /\ d.remaining = e.remaining
<1>1. CASE e.writing
  <2> DEFINE d == [e EXCEPT !.deferred = m]
  <2>1. /\ d \in PeerState /\ SameWork(e, d) /\ d.deferred = m /\ d.writing = e.writing
        /\ d.e_min = e.e_min /\ d.remaining = e.remaining /\ d.unreported = e.unreported
    BY DEF PeerState, SameWork, Report
  <2>2. peer' = [peer EXCEPT ![p] = d] /\ p2s' = p2s
    BY <1>1 DEF Issue
  <2> HIDE DEF d
  <2>3. Told(p, c, d, e.unreported, m)
    BY <1>1, <2>1, <2>2 DEF Told
  <2> QED BY <2>1, <2>2, <2>3
<1>2. CASE ~e.writing
  <2> DEFINE d == [e EXCEPT !.writing = SlowWrites, !.unreported = {}]
  <2>1. /\ d \in PeerState /\ SameWork(e, d) /\ d.deferred = e.deferred
        /\ d.writing = SlowWrites
        /\ d.e_min = e.e_min /\ d.remaining = e.remaining /\ d.unreported = {}
    BY ConvergerAssumption DEF PeerState, SameWork
  <2>2. peer' = [peer EXCEPT ![p] = d] /\ p2s' = [p2s EXCEPT ![p] = Append(p2s[p], m)]
    BY <1>2 DEF Issue
  <2> HIDE DEF d
  <2>3. Told(p, c, d, e.unreported, m)
    BY <1>2, <2>1, <2>2 DEF Told
  <2> QED BY <2>1, <2>2, <2>3
<1> QED BY <1>1, <1>2

LEMMA ProcessTries ==
  ASSUME TypeInv, NEW p \in Peers, Process(p)
  PROVE  \E x \in Complexity, better \in BOOLEAN, d \in PeerState, m \in PeerReport :
           Tried(p, x, better, d, m)
<1> DEFINE c == peer[p]
<1>1. c \in PeerState /\ ~c.am_bootstrapping
  BY DEF Process, TypeInv, NetTypes
<1>2. PICK x \in LastOfFirstRange(c.remaining) :
        LET pl     == Demod[c.grid][c.centre][x]
            moved  == pl # c.centre
            better == moved /\ Value[pl] < Target[c.e_min]
            d      == [c EXCEPT !.remaining = @ \ {x}, !.unreported = @ \cup {x},
                                !.e_min = IF better THEN Value[pl] ELSE @]
            report == [type |-> "report", key |-> d.key, value |-> d.e_min,
                       x |-> IF better THEN x ELSE NoComplexity, done |-> d.unreported]
        IN /\ IF better \/ d.remaining = {} \/ d.do_send
              THEN Issue(p, [d EXCEPT !.timer = IF d.do_send THEN "armed" ELSE "off",
                                      !.do_send = FALSE], report)
              ELSE peer' = [peer EXCEPT ![p] = d] /\ UNCHANGED p2s
           /\ evaluated' = IF moved THEN evaluated \cup {<<c.grid, pl>>} ELSE evaluated
  BY DEF Process
<1> DEFINE pl     == Demod[c.grid][c.centre][x]
           better == pl # c.centre /\ Value[pl] < Target[c.e_min]
           value  == IF better THEN Value[pl] ELSE c.e_min
           e      == [c EXCEPT !.remaining = @ \ {x}, !.unreported = @ \cup {x}, !.e_min = value]
           m      == [type |-> "report", key |-> e.key, value |-> e.e_min,
                      x |-> IF better THEN x ELSE NoComplexity, done |-> e.unreported]
           f      == [e EXCEPT !.timer = IF e.do_send THEN "armed" ELSE "off", !.do_send = FALSE]
<1> HIDE DEF c
<1>3. x \in Complexity /\ x \in c.remaining
  BY <1>1 DEF LastOfFirstRange, PeerState
<1>4. pl \in Place /\ c.grid \in Grid /\ value \in Likelihood
  <2>1. c.grid \in Grid /\ c.centre \in Place /\ c.e_min \in Likelihood
    BY <1>1 DEF PeerState
  <2>2. pl \in Place
    BY <2>1, <1>3, SearchAssumption
  <2> HIDE DEF pl
  <2> QED BY <2>1, <2>2, LikelihoodFacts
<1>5. /\ better => pl # c.centre /\ Value[pl] < Target[c.e_min] /\ value = Value[pl]
      /\ ~better => (pl = c.centre \/ ~(Value[pl] < Target[c.e_min])) /\ value = c.e_min
      /\ better \in BOOLEAN
  OBVIOUS
<1>6. /\ evaluated \subseteq evaluated'
      /\ pl # c.centre => <<c.grid, pl>> \in evaluated'
  BY <1>2
<1>7. \/ Issue(p, f, m)
      \/ ~better /\ peer' = [peer EXCEPT ![p] = e] /\ UNCHANGED p2s
  BY <1>2 DEF value
<1> HIDE DEF value, better, pl
<1>8. /\ e \in PeerState /\ SameWork(c, e) /\ e.deferred = c.deferred /\ e.writing = c.writing
      /\ e.e_min = value /\ e.remaining = c.remaining \ {x}
      /\ e.unreported = c.unreported \cup {x} /\ e.unreported \in SUBSET Complexity
      /\ e.key \in Key
  BY <1>1, <1>3, <1>4 DEF PeerState, SameWork
<1> HIDE DEF e
<1>9. /\ f \in PeerState /\ SameWork(e, f) /\ f.deferred = e.deferred /\ f.writing = e.writing
      /\ f.e_min = e.e_min /\ f.remaining = e.remaining /\ f.unreported = e.unreported
  BY <1>8 DEF PeerState, SameWork
<1>10. /\ m \in PeerReport /\ m.type = "report" /\ m.key = e.key /\ m.value = value
       /\ m.done = e.unreported /\ m.x = IF better THEN x ELSE NoComplexity
  BY <1>3, <1>4, <1>8 DEF PeerReport
<1> HIDE DEF f, m
<1>11. \E d \in PeerState :
         /\ peer' = [peer EXCEPT ![p] = d] /\ SameWork(c, d) /\ d.e_min = value
         /\ d.remaining = c.remaining \ {x}
         /\ Told(p, c, d, m.done, m) \/ (~better /\ KeptQuiet(c, d, m.done))
  <2>1. CASE Issue(p, f, m)
    <3>1. m \in Report /\ f \in PeerState /\ f.writing = c.writing /\ f.deferred = c.deferred
      BY <1>8, <1>9, <1>10 DEF Report
    <3>2. PICK d \in PeerState :
            /\ peer' = [peer EXCEPT ![p] = d] /\ Told(p, c, d, f.unreported, m)
            /\ SameWork(f, d) /\ d.e_min = f.e_min /\ d.remaining = f.remaining
      BY <2>1, <3>1, IssueTells
    <3> QED BY <3>2, <1>8, <1>9, <1>10 DEF SameWork
  <2>2. CASE ~better /\ peer' = [peer EXCEPT ![p] = e] /\ UNCHANGED p2s
    BY <2>2, <1>8, <1>10 DEF KeptQuiet
  <2> QED BY <2>1, <2>2, <1>7
<1>12. PICK d \in PeerState :
         /\ peer' = [peer EXCEPT ![p] = d] /\ SameWork(c, d) /\ d.e_min = value
         /\ d.remaining = c.remaining \ {x}
         /\ Told(p, c, d, m.done, m) \/ (~better /\ KeptQuiet(c, d, m.done))
  BY <1>11
<1>13. Tried(p, x, better, d, m)
  BY <1>1, <1>3, <1>5, <1>6, <1>8, <1>10, <1>12, <1>1 DEF Tried, c, pl, SameWork
<1> QED BY <1>3, <1>5, <1>10, <1>13

\* Of the places it may start from the peer has found pl.
Drawn(p, pl, d, m) ==
  LET c == peer[p]
  IN /\ peer' = [peer EXCEPT ![p] = d]
     /\ SameWork(c, d) /\ c.am_bootstrapping /\ d.remaining = c.remaining
     /\ evaluated \subseteq evaluated' /\ <<c.grid, pl>> \in evaluated'
     /\ m.type = "boot" /\ m.key = c.key /\ m.value = Value[pl] /\ m.place = pl
     /\ Told(p, c, d, c.unreported, m)

LEMMA BootstrapDraws ==
  ASSUME TypeInv, NEW p \in Peers, Bootstrap(p)
  PROVE  \E pl \in Place, d \in PeerState, m \in BootReport : Drawn(p, pl, d, m)
<1> DEFINE c == peer[p]
<1>1. c \in PeerState /\ c.am_bootstrapping
  BY DEF Bootstrap, TypeInv, NetTypes
<1>2. PICK pl \in BootPlaces[c.grid] :
        /\ Issue(p, [c EXCEPT !.e_min = Value[pl], !.timer = "off"],
                 [type |-> "boot", key |-> c.key, value |-> Value[pl], place |-> pl])
        /\ evaluated' = evaluated \cup {<<c.grid, pl>>}
  BY DEF Bootstrap
<1> DEFINE e == [c EXCEPT !.e_min = Value[pl], !.timer = "off"]
           m == [type |-> "boot", key |-> c.key, value |-> Value[pl], place |-> pl]
<1> HIDE DEF c
<1>3. c.grid \in Grid /\ c.key \in Key /\ pl \in Place /\ Value[pl] \in Likelihood
  <2>1. c.grid \in Grid /\ c.key \in Key
    BY <1>1 DEF PeerState
  <2>2. pl \in Place
    BY <2>1, SearchAssumption
  <2> QED BY <2>1, <2>2, LikelihoodFacts
<1>4. /\ e \in PeerState /\ SameWork(c, e) /\ e.deferred = c.deferred /\ e.writing = c.writing
      /\ e.remaining = c.remaining /\ e.unreported = c.unreported
  BY <1>1, <1>3 DEF PeerState, SameWork
<1>5. /\ m \in BootReport /\ m.type = "boot" /\ m.key = c.key /\ m.value = Value[pl]
      /\ m.place = pl
  BY <1>3 DEF BootReport
<1>6. Issue(p, e, m)
  BY <1>2
<1> HIDE DEF e, m
<1>7. m \in Report
  BY <1>5 DEF Report
<1>8. PICK d \in PeerState :
        /\ peer' = [peer EXCEPT ![p] = d] /\ Told(p, c, d, e.unreported, m)
        /\ SameWork(e, d) /\ d.e_min = e.e_min /\ d.remaining = e.remaining
  BY <1>4, <1>6, <1>7, IssueTells
<1>9. Drawn(p, pl, d, m)
  BY <1>1, <1>2, <1>4, <1>5, <1>8 DEF Drawn, c, SameWork
<1> QED BY <1>3, <1>5, <1>9

\* A write is done, and what was put off is written.
WroteDeferred(p, d) ==
  LET c == peer[p]
  IN /\ peer' = [peer EXCEPT ![p] = d] /\ SameWork(c, d) /\ c.writing
     /\ d.e_min = c.e_min /\ d.remaining = c.remaining /\ d.deferred = NoReport
     /\ \/ c.deferred = NoReport /\ ~d.writing /\ d.unreported = c.unreported /\ p2s' = p2s
        \/ /\ c.deferred # NoReport /\ d.writing = SlowWrites /\ d.unreported = {}
           /\ p2s' = [p2s EXCEPT ![p] = Append(p2s[p], c.deferred)]

LEMMA WriteDoneWrites ==
  ASSUME TypeInv, NEW p \in Peers, PeerWriteDone(p)
  PROVE  \E d \in PeerState : WroteDeferred(p, d)
<1> DEFINE c == peer[p]
           e == [c EXCEPT !.writing = FALSE, !.deferred = NoReport]
           d == [e EXCEPT !.writing = SlowWrites, !.unreported = {}]
<1>1. c \in PeerState /\ c.writing
  BY DEF TypeInv, NetTypes, PeerWriteDone
<1>2. /\ c.deferred = NoReport => peer' = [peer EXCEPT ![p] = e] /\ UNCHANGED p2s
      /\ c.deferred # NoReport => Issue(p, e, c.deferred)
  BY DEF PeerWriteDone
<1> HIDE DEF c
<1>3. /\ e \in PeerState /\ SameWork(c, e) /\ e.deferred = NoReport /\ ~e.writing
      /\ e.e_min = c.e_min /\ e.remaining = c.remaining /\ e.unreported = c.unreported
  BY <1>1 DEF PeerState, SameWork
<1>4. c.deferred # NoReport => /\ peer' = [peer EXCEPT ![p] = d]
                              /\ p2s' = [p2s EXCEPT ![p] = Append(p2s[p], c.deferred)]
  BY <1>2, <1>3 DEF Issue
<1> HIDE DEF e
<1>5. /\ d \in PeerState /\ SameWork(e, d) /\ d.deferred = NoReport /\ d.writing = SlowWrites
      /\ d.e_min = e.e_min /\ d.remaining = e.remaining /\ d.unreported = {}
  BY <1>3, ConvergerAssumption DEF PeerState, SameWork
<1> HIDE DEF d
<1>6. c.deferred = NoReport => WroteDeferred(p, e)
  BY <1>1, <1>2, <1>3 DEF WroteDeferred, c
<1>7. c.deferred # NoReport => WroteDeferred(p, d)
  BY <1>1, <1>3, <1>4, <1>5 DEF WroteDeferred, c, SameWork
<1> QED BY <1>3, <1>5, <1>6, <1>7

\* Nothing but a timer or a flag changes.
Idled(p, d) ==
  LET c == peer[p]
  IN /\ peer' = [peer EXCEPT ![p] = d] /\ SameWork(c, d) /\ d.e_min = c.e_min
     /\ d.remaining = c.remaining /\ KeptQuiet(c, d, c.unreported)

LEMMA TimersIdle ==
  ASSUME TypeInv, NEW p \in Peers, SkipIteration(p) \/ ProcessNothing(p) \/ RollbackTimeout(p)
  PROVE  \E d \in PeerState : Idled(p, d)
<1> DEFINE c == peer[p]
<1>1. c \in PeerState
  BY DEF TypeInv, NetTypes
<1>2. PICK d : /\ peer' = [peer EXCEPT ![p] = d] /\ p2s' = p2s
               /\ \E t \in {"armed", "off"} :
                    d \in {[c EXCEPT !.timer = t], [c EXCEPT !.do_send = TRUE]}
  BY DEF SkipIteration, ProcessNothing, RollbackTimeout
<1> HIDE DEF c
<1>3. /\ d \in PeerState /\ SameWork(c, d) /\ d.e_min = c.e_min /\ d.remaining = c.remaining
      /\ d.unreported = c.unreported /\ d.deferred = c.deferred /\ d.writing = c.writing
  BY <1>1, <1>2 DEF PeerState, SameWork
<1>4. Idled(p, d)
  BY <1>2, <1>3 DEF Idled, KeptQuiet, c
<1> QED BY <1>3, <1>4

\* A message is read: news wipes out what was to be said, a new share does not.
Read(p, d) ==
  LET c == peer[p]
      m == Head(s2p[p])
  IN /\ peer' = [peer EXCEPT ![p] = d] /\ s2p' = [s2p EXCEPT ![p] = Tail(s2p[p])] /\ p2s' = p2s
     /\ ViewOf(d) = ViewAfter(ViewOf(c), m) /\ d.remaining = m.remaining /\ d.writing = c.writing
     /\ IF m.type = "recentre" \/ (m.type = "state" /\ m.key # c.key)
        THEN d.unreported = {} /\ d.deferred = NoReport /\ d.e_min = m.value
        ELSE /\ d.key = c.key /\ d.unreported = c.unreported /\ d.deferred = c.deferred
             /\ d.e_min = c.e_min

LEMMA PeerReadsNews ==
  ASSUME TypeInv, NEW p \in Peers, PeerReads(p)
  PROVE  \E d \in PeerState : Read(p, d)
<1> DEFINE c == peer[p]
           m == Head(s2p[p])
<1>1. c \in PeerState /\ m \in Sent
  BY HeadTailProperties DEF TypeInv, NetTypes, PeerReads
<1>2. /\ peer' = [peer EXCEPT ![p] = CASE m.type = "state" -> AfterState(c, m)
                                      [] m.type = "recentre" -> AfterRecentre(c, m)
                                      [] m.type = "complexity" -> AfterComplexity(c, m)]
      /\ s2p' = [s2p EXCEPT ![p] = Tail(s2p[p])] /\ p2s' = p2s
  BY DEF PeerReads
<1> HIDE DEF c, m
<1>3. PICK d \in PeerState :
        /\ d = (CASE m.type = "state" -> AfterState(c, m)
                  [] m.type = "recentre" -> AfterRecentre(c, m)
                  [] m.type = "complexity" -> AfterComplexity(c, m))
        /\ ViewOf(d) = ViewAfter(ViewOf(c), m)
        /\ d.deferred = NoReport \/ (d.deferred = c.deferred /\ d.key = c.key)
  BY <1>1, AfterForms
<1>4. m.type \in {"state", "recentre", "complexity"}
  BY <1>1 DEF Sent, StateSync, RecentreOnly, ComplexityOnly
<1>5. CASE m.type = "state"
  <2>1. d = AfterState(c, m)
    BY <1>3, <1>5
  <2>2. CASE m.key = c.key
    <3> DEFINE e == [c EXCEPT !.do_send = @ \/ c.unreported # {}]
    <3>1. /\ e \in PeerState /\ e.key = c.key /\ e.unreported = c.unreported
          /\ e.deferred = c.deferred /\ e.e_min = c.e_min /\ e.writing = c.writing
      BY <1>1 DEF PeerState
    <3>2. d = [e EXCEPT !.am_bootstrapping = m.am_bootstrapping, !.remaining = m.remaining,
                        !.timer = "skip"]
      BY <2>1, <2>2 DEF AfterState
    <3> HIDE DEF e
    <3>3. /\ d.key = c.key /\ d.unreported = c.unreported /\ d.deferred = c.deferred
          /\ d.e_min = c.e_min /\ d.writing = c.writing /\ d.remaining = m.remaining
      BY <3>1, <3>2 DEF PeerState
    <3> QED BY <1>2, <1>3, <1>5, <2>2, <3>3 DEF Read, c, m
  <2>3. CASE m.key # c.key
    <3> DEFINE e == [c EXCEPT !.key = m.key, !.deferred = NoReport, !.unreported = {},
                              !.do_send = FALSE, !.e_min = m.value, !.grid = m.grid,
                              !.centre = m.centre]
    <3>1. /\ DOMAIN e = DOMAIN c /\ e.unreported = {}
          /\ e.deferred = NoReport /\ e.e_min = m.value /\ e.writing = c.writing
      BY <1>1 DEF PeerState
    <3>2. d = [e EXCEPT !.am_bootstrapping = m.am_bootstrapping, !.remaining = m.remaining,
                        !.timer = "skip"]
      BY <2>1, <2>3 DEF AfterState
    <3>3. /\ d.unreported = {} /\ d.deferred = NoReport
          /\ d.e_min = m.value /\ d.writing = c.writing /\ d.remaining = m.remaining
      BY <1>1, <3>1, <3>2 DEF PeerState
    <3> QED BY <1>2, <1>3, <1>5, <2>3, <3>3 DEF Read, c, m
  <2> QED BY <2>2, <2>3
<1>6. CASE m.type = "recentre"
  <2>1. d = AfterRecentre(c, m)
    BY <1>3, <1>6
  <2>2. /\ d.unreported = {} /\ d.deferred = NoReport /\ d.e_min = m.value
        /\ d.writing = c.writing /\ d.remaining = m.remaining
    BY <1>1, <2>1 DEF AfterRecentre, PeerState
  <2> QED BY <1>2, <1>3, <1>6, <2>2 DEF Read, c, m
<1>7. CASE m.type = "complexity"
  <2>1. d = AfterComplexity(c, m)
    BY <1>3, <1>7
  <2>2. /\ d.key = c.key /\ d.unreported = c.unreported /\ d.deferred = c.deferred
        /\ d.e_min = c.e_min /\ d.writing = c.writing /\ d.remaining = m.remaining
    BY <1>1, <2>1 DEF AfterComplexity, PeerState
  <2> QED BY <1>2, <1>3, <1>7, <2>2 DEF Read, c, m
<1> QED BY <1>4, <1>5, <1>6, <1>7

\* What is outstanding after something was said, written or put off.
LEMMA OutstandingAfter ==
  ASSUME TypeInv, NEW p \in Peers, NEW d \in PeerState, peer' = [peer EXCEPT ![p] = d],
         NEW m \in Report, NEW all
  PROVE  /\ Told(p, peer[p], d, all, m) => Outstanding(p)' \subseteq Outstanding(p) \cup {m}
         /\ KeptQuiet(peer[p], d, all) => Outstanding(p)' = Outstanding(p)
         /\ Told(p, peer[p], d, all, m) \/ KeptQuiet(peer[p], d, all) =>
              /\ \A q \in Peers : q # p => p2s'[q] = p2s[q] /\ peer'[q] = peer[q]
              /\ d.unreported \in {{}, all}
<1>1. /\ peer'[p] = d /\ p2s[p] \in Seq(Report) /\ p2s \in [Peers -> Seq(Report)]
      /\ \A q \in Peers : q # p => peer'[q] = peer[q]
  BY DEF TypeInv, NetTypes
<1>2. CASE Told(p, peer[p], d, all, m) /\ p2s' = p2s
  <2>1. d.deferred = m \/ d.deferred = peer[p].deferred
    BY <1>2 DEF Told
  <2> QED BY <1>1, <1>2, <2>1 DEF Told, KeptQuiet, Outstanding
<1>3. CASE Told(p, peer[p], d, all, m) /\ p2s' = [p2s EXCEPT ![p] = Append(p2s[p], m)]
  <2>1. p2s'[p] = Append(p2s[p], m) /\ \A q \in Peers : q # p => p2s'[q] = p2s[q]
    BY <1>1, <1>3
  <2>2. \A i \in 1 .. Len(p2s'[p]) : p2s'[p][i] = m \/ \E j \in 1 .. Len(p2s[p]) : p2s'[p][i] = p2s[p][j]
    BY <1>1, <2>1, AppendProperties, LenProperties
  <2>3. d.deferred = m \/ d.deferred = peer[p].deferred
    BY <1>3 DEF Told
  <2>4. Outstanding(p)' \subseteq Outstanding(p) \cup {m}
    BY <1>1, <2>2, <2>3, SMTT(30), ZenonT(40) DEF Outstanding
  <2>5. p2s' # p2s
    BY <1>1, <2>1, AppendProperties, LenProperties
  <2> QED BY <1>1, <1>3, <2>1, <2>4, <2>5 DEF KeptQuiet, Told
<1>4. CASE KeptQuiet(peer[p], d, all)
  BY <1>1, <1>2, <1>4 DEF KeptQuiet, Outstanding
<1> QED BY <1>2, <1>3, <1>4 DEF Told

-----------------------------------------------------------------------------
(* What is said stays true.                                                 *)

LEMMA HonestMore ==
  ASSUME NEW s, NEW r, r.grid = s.grid, r.centre = s.centre,
         NEW ev, NEW more, ev \subseteq more
  PROVE  /\ \A y : Seen(s, ev, y) => Seen(r, more, y)
         /\ \A m : Honest(s, ev, m) => Honest(r, more, m)
<1>1. \A y : PlaceOf(r, y) = PlaceOf(s, y)
  BY DEF PlaceOf
<1>2. \A y : Seen(s, ev, y) => Seen(r, more, y)
  BY <1>1 DEF Seen
<1> QED BY <1>1, <1>2 DEF Honest

LEMMA HonestKept ==
  ASSUME NEW q, HonestPeer(q), evaluated \subseteq evaluated', io_key' = io_key,
         search'.grid = search.grid, search'.centre = search.centre,
         search'.am_bootstrapping = search.am_bootstrapping,
         peer'[q].key = peer[q].key, peer'[q].unreported \subseteq peer[q].unreported,
         Outstanding(q)' \subseteq Outstanding(q)
  PROVE  HonestPeer(q)'
<1>1. /\ \A y : Seen(search, evaluated, y) => Seen(search, evaluated, y)'
      /\ \A m : Honest(search, evaluated, m) => Honest(search, evaluated, m)'
  BY HonestMore
<1> QED BY <1>1 DEF HonestPeer

\* A peer without a past has nothing to say.
LEMMA HonestFresh ==
  ASSUME NEW q, peer'[q] = FreshPeer, p2s'[q] = <<>>
  PROVE  HonestPeer(q)'
<1>1. FreshPeer.unreported = {} /\ FreshPeer.deferred = NoReport /\ Len(<<>>) = 0
  BY DEF FreshPeer
<1>2. Outstanding(q)' = {}
  BY <1>1 DEF Outstanding
<1> QED BY <1>1, <1>2 DEF HonestPeer

\* Steps that concern only one peer.
LEMMA WorkOfOne ==
  ASSUME TypeInv, WorkInv, NEW p \in Processing, PeerUnchanged, Processing' = Processing,
         \A q \in Peers : q # p => p2s'[q] = p2s[q] /\ peer'[q] = peer[q],
         evaluated \subseteq evaluated', Working => HonestPeer(p)'
  PROVE  WorkInv'
<1>1. SUFFICES ASSUME Working, NEW q \in Processing PROVE HonestPeer(q)'
  BY DEF WorkInv, Working, Running, PeerUnchanged, serverVars, taskVars
<1>2. CASE q = p
  BY <1>1, <1>2
<1>3. CASE q # p
  <2>1. q \in Peers /\ HonestPeer(q)
    BY <1>1, PeerTypes DEF WorkInv
  <2>2. p2s'[q] = p2s[q] /\ peer'[q] = peer[q] /\ io_key' = io_key /\ search' = search
    BY <1>3, <2>1 DEF PeerUnchanged, serverVars
  <2>3. Outstanding(q)' = Outstanding(q)
    BY <2>2 DEF Outstanding
  <2> QED BY <2>1, <2>2, <2>3, HonestKept
<1> QED BY <1>2, <1>3

LEMMA WorkProcess ==
  ASSUME TypeInv, KeyInv, WorkInv, NEW p \in Processing, Process(p),
         Processing' = Processing, peer[p] # FreshPeer
  PROVE  WorkInv'
<1>1. p \in Peers /\ PeerUnchanged
  BY PeerTypes DEF Process
<1>2. PICK x \in Complexity, better \in BOOLEAN, d \in PeerState, m \in PeerReport :
        Tried(p, x, better, d, m)
  BY <1>1, ProcessTries
<1> DEFINE c == peer[p]
           pl == Demod[c.grid][c.centre][x]
<1>3. /\ peer' = [peer EXCEPT ![p] = d] /\ SameWork(c, d) /\ ~c.am_bootstrapping
      /\ evaluated \subseteq evaluated' /\ (pl # c.centre => <<c.grid, pl>> \in evaluated')
      /\ m.x \in {x, NoComplexity} /\ (m.x # NoComplexity => m.value = Value[pl])
      /\ m.type = "report" /\ m.key = c.key /\ m.done = c.unreported \cup {x}
      /\ Told(p, c, d, m.done, m) \/ KeptQuiet(c, d, m.done)
  BY <1>2 DEF Tried
<1>4. /\ Outstanding(p)' \subseteq Outstanding(p) \cup {m}
      /\ \A q \in Peers : q # p => p2s'[q] = p2s[q] /\ peer'[q] = peer[q]
      /\ d.unreported \subseteq m.done /\ peer'[p] = d
  <2>1. m \in Report
    BY DEF Report
  <2>2. peer'[p] = d
    BY <1>1, <1>3 DEF TypeInv, NetTypes
  <2> DEFINE all == m.done
  <2>3. Told(p, c, d, all, m) \/ KeptQuiet(c, d, all)
    BY <1>3
  <2> HIDE DEF all
  <2>4. /\ Told(p, c, d, all, m) => Outstanding(p)' \subseteq Outstanding(p) \cup {m}
        /\ KeptQuiet(c, d, all) => Outstanding(p)' = Outstanding(p)
        /\ Told(p, c, d, all, m) \/ KeptQuiet(c, d, all) =>
             /\ \A q \in Peers : q # p => p2s'[q] = p2s[q] /\ peer'[q] = peer[q]
             /\ d.unreported \in {{}, all}
    BY <1>1, <1>3, <2>1, OutstandingAfter
  <2>5. d.unreported \subseteq all
    BY <2>3, <2>4
  <2> QED BY <2>2, <2>3, <2>4, <2>5 DEF all
<1>5. ASSUME Working PROVE HonestPeer(p)'
  <2>1. HonestPeer(p) /\ search' = search /\ io_key' = io_key
    BY <1>1, <1>5 DEF WorkInv, PeerUnchanged, serverVars
  <2>2. /\ \A y : Seen(search, evaluated, y) => Seen(search, evaluated', y)
        /\ \A n : Honest(search, evaluated, n) => Honest(search, evaluated', n)
    BY <1>3, HonestMore
  <2>3. c.key = io_key => /\ c.grid = search.grid /\ c.centre = search.centre
                          /\ ~search.am_bootstrapping
    BY <1>3, <1>5, PeerKnows
  <2>4. ASSUME c.key = io_key
        PROVE  /\ \A y \in m.done : Seen(search, evaluated', y)
               /\ m.x # NoComplexity => m.value = Value[PlaceOf(search, m.x)]
    <3>1. PlaceOf(search, x) = pl
      BY <2>3, <2>4 DEF PlaceOf
    <3>2. Seen(search, evaluated', x)
      BY <1>3, <2>3, <2>4, <3>1 DEF Seen
    <3>3. \A y \in c.unreported : Seen(search, evaluated', y)
      BY <2>1, <2>2, <2>3, <2>4 DEF HonestPeer
    <3> QED BY <1>3, <3>1, <3>2, <3>3
  <2>5. m.key = io_key => Honest(search, evaluated', m)
    BY <1>3, <2>4 DEF Honest
  <2>6. \A n \in Outstanding(p)' : n.key = io_key => Honest(search, evaluated', n)
    BY <1>4, <2>1, <2>2, <2>5 DEF HonestPeer
  <2>7. d.key = io_key => \A y \in d.unreported : Seen(search, evaluated', y)
    BY <1>3, <1>4, <2>4 DEF SameWork
  <2> QED BY <1>4, <2>1, <2>6, <2>7 DEF HonestPeer
<1> QED BY <1>1, <1>3, <1>4, <1>5, WorkOfOne

LEMMA WorkBootstrap ==
  ASSUME TypeInv, KeyInv, WorkInv, NEW p \in Processing, Bootstrap(p),
         Processing' = Processing, peer[p] # FreshPeer
  PROVE  WorkInv'
<1>1. p \in Peers /\ PeerUnchanged
  BY PeerTypes DEF Bootstrap
<1>2. PICK pl \in Place, d \in PeerState, m \in BootReport : Drawn(p, pl, d, m)
  BY <1>1, BootstrapDraws
<1> DEFINE c == peer[p]
           all == c.unreported
<1>3. /\ peer' = [peer EXCEPT ![p] = d] /\ SameWork(c, d) /\ c.am_bootstrapping
      /\ evaluated \subseteq evaluated' /\ <<c.grid, pl>> \in evaluated'
      /\ m.type = "boot" /\ m.key = c.key /\ m.value = Value[pl] /\ m.place = pl
      /\ Told(p, c, d, all, m)
  BY <1>2 DEF Drawn
<1>4. /\ Outstanding(p)' \subseteq Outstanding(p) \cup {m}
      /\ \A q \in Peers : q # p => p2s'[q] = p2s[q] /\ peer'[q] = peer[q]
      /\ d.unreported \subseteq c.unreported /\ peer'[p] = d
  <2>1. m \in Report
    BY DEF Report
  <2>2. peer'[p] = d
    BY <1>1, <1>3 DEF TypeInv, NetTypes
  <2> HIDE DEF all
  <2>4. /\ Told(p, c, d, all, m) => Outstanding(p)' \subseteq Outstanding(p) \cup {m}
        /\ KeptQuiet(c, d, all) => Outstanding(p)' = Outstanding(p)
        /\ Told(p, c, d, all, m) \/ KeptQuiet(c, d, all) =>
             /\ \A q \in Peers : q # p => p2s'[q] = p2s[q] /\ peer'[q] = peer[q]
             /\ d.unreported \in {{}, all}
    BY <1>1, <1>3, <2>1, OutstandingAfter
  <2>5. d.unreported \subseteq all
    BY <1>3, <2>4
  <2> QED BY <1>3, <2>2, <2>4, <2>5 DEF all
<1>5. ASSUME Working PROVE HonestPeer(p)'
  <2>1. HonestPeer(p) /\ search' = search /\ io_key' = io_key
    BY <1>1, <1>5 DEF WorkInv, PeerUnchanged, serverVars
  <2>2. /\ \A y : Seen(search, evaluated, y) => Seen(search, evaluated', y)
        /\ \A n : Honest(search, evaluated, n) => Honest(search, evaluated', n)
    BY <1>3, HonestMore
  <2>3. c.key = io_key => c.grid = search.grid
    BY <1>3, <1>5, PeerKnows
  <2>4. m.key = io_key => Honest(search, evaluated', m)
    BY <1>3, <2>3 DEF Honest
  <2>5. \A n \in Outstanding(p)' : n.key = io_key => Honest(search, evaluated', n)
    BY <1>4, <2>1, <2>2, <2>4 DEF HonestPeer
  <2>6. d.key = io_key /\ ~search.am_bootstrapping =>
          \A y \in d.unreported : Seen(search, evaluated', y)
    BY <1>3, <1>4, <2>1, <2>2 DEF SameWork, HonestPeer
  <2> QED BY <1>4, <2>1, <2>5, <2>6 DEF HonestPeer
<1> QED BY <1>1, <1>3, <1>4, <1>5, WorkOfOne

\* A peer says nothing new that has nothing more to say than before.
LEMMA WorkQuiet ==
  ASSUME TypeInv, KeyInv, WorkInv, NEW p \in Processing, PeerUnchanged,
         Processing' = Processing, evaluated' = evaluated,
         NEW d, peer' = [peer EXCEPT ![p] = d],
         \/ d.unreported = {}
         \/ d.key = peer[p].key /\ d.unreported \subseteq peer[p].unreported,
         \A q \in Peers : q # p => p2s'[q] = p2s[q],
         Outstanding(p)' \subseteq Outstanding(p)
  PROVE  WorkInv'
<1>1. p \in Peers /\ peer'[p] = d /\ \A q \in Peers : q # p => peer'[q] = peer[q]
  BY PeerTypes DEF TypeInv, NetTypes
<1>2. ASSUME Working PROVE HonestPeer(p)'
  <2>1. HonestPeer(p) /\ search' = search /\ io_key' = io_key
    BY <1>2 DEF WorkInv, PeerUnchanged, serverVars
  <2>2. CASE d.unreported = {}
    BY <1>1, <2>1, <2>2 DEF HonestPeer
  <2>3. CASE d.key = peer[p].key /\ d.unreported \subseteq peer[p].unreported
    BY <1>1, <2>1, <2>3 DEF HonestPeer
  <2> QED BY <2>2, <2>3
<1> QED BY <1>1, <1>2, WorkOfOne

LEMMA WorkWriteDone ==
  ASSUME TypeInv, KeyInv, WorkInv, NEW p \in Processing, PeerWriteDone(p), Processing' = Processing
  PROVE  WorkInv'
<1>1. p \in Peers /\ PeerUnchanged /\ evaluated' = evaluated
  BY PeerTypes DEF PeerWriteDone
<1>2. PICK d \in PeerState : WroteDeferred(p, d)
  BY <1>1, WriteDoneWrites
<1> DEFINE c == peer[p]
<1>3. /\ peer' = [peer EXCEPT ![p] = d] /\ d.key = c.key /\ d.deferred = NoReport
      /\ \/ d.unreported = c.unreported /\ p2s' = p2s
         \/ /\ c.deferred # NoReport /\ d.unreported = {}
            /\ p2s' = [p2s EXCEPT ![p] = Append(p2s[p], c.deferred)]
  BY <1>2 DEF WroteDeferred, SameWork
<1>4. /\ peer'[p] = d /\ p2s \in [Peers -> Seq(Report)] /\ p2s[p] \in Seq(Report)
      /\ c \in PeerState
  BY <1>1, <1>3 DEF TypeInv, NetTypes
<1>5. CASE d.unreported = c.unreported /\ p2s' = p2s
  <2>1. Outstanding(p)' \subseteq Outstanding(p)
    BY <1>3, <1>4, <1>5 DEF Outstanding
  <2> QED BY <1>1, <1>3, <1>5, <2>1, WorkQuiet
<1>6. CASE /\ c.deferred # NoReport /\ d.unreported = {}
           /\ p2s' = [p2s EXCEPT ![p] = Append(p2s[p], c.deferred)]
  <2>1. c.deferred \in Report
    BY <1>4, <1>6 DEF PeerState, Report
  <2>2. p2s'[p] = Append(p2s[p], c.deferred) /\ \A q \in Peers : q # p => p2s'[q] = p2s[q]
    BY <1>1, <1>4, <1>6
  <2>3. \A i \in 1 .. Len(p2s'[p]) : \/ p2s'[p][i] = c.deferred
                                    \/ \E j \in 1 .. Len(p2s[p]) : p2s'[p][i] = p2s[p][j]
    BY <1>4, <2>1, <2>2, AppendProperties, LenProperties
  <2>4. Outstanding(p)' \subseteq Outstanding(p)
    BY <1>3, <1>4, <1>6, <2>3 DEF Outstanding
  <2> QED BY <1>1, <1>3, <1>6, <2>2, <2>4, WorkQuiet
<1> QED BY <1>3, <1>5, <1>6

LEMMA WorkPeerStep ==
  ASSUME TypeInv, KeyInv, WorkInv, NEW p \in Peers, PeerStep(p)
  PROVE  WorkInv'
<1>1. CASE PeerReads(p)
  <2>1. PICK d \in PeerState : Read(p, d)
    BY <1>1, PeerReadsNews
  <2>2. Processing' = Processing /\ p \in Processing /\ PeerUnchanged /\ evaluated' = evaluated
    BY <1>1, PeerHears DEF PeerReads
  <2>3. /\ peer' = [peer EXCEPT ![p] = d] /\ p2s' = p2s
        /\ \/ d.unreported = {} /\ d.deferred = NoReport
           \/ /\ d.key = peer[p].key /\ d.unreported = peer[p].unreported
              /\ d.deferred = peer[p].deferred
    BY <2>1 DEF Read
  <2>4. peer'[p] = d
    BY <2>3 DEF TypeInv, NetTypes
  <2>5. Outstanding(p)' \subseteq Outstanding(p)
    BY <2>3, <2>4 DEF Outstanding
  <2> QED BY <2>2, <2>3, <2>5, WorkQuiet
<1>2. CASE ~PeerReads(p)
  <2>1. Processing' = Processing /\ p \in Processing /\ PeerUnchanged /\ peer[p] # FreshPeer
    BY <1>2, PeerWorks
  <2>2. CASE SkipIteration(p) \/ ProcessNothing(p) \/ RollbackTimeout(p)
    <3>1. PICK d \in PeerState : Idled(p, d)
      BY <2>2, TimersIdle
    <3>2. evaluated' = evaluated
      BY <2>2 DEF SkipIteration, ProcessNothing, RollbackTimeout
    <3>3. /\ peer' = [peer EXCEPT ![p] = d] /\ p2s' = p2s /\ d.key = peer[p].key
          /\ d.unreported = peer[p].unreported /\ d.deferred = peer[p].deferred
      BY <3>1 DEF Idled, KeptQuiet, SameWork
    <3>4. peer'[p] = d
      BY <3>3 DEF TypeInv, NetTypes
    <3>5. Outstanding(p)' \subseteq Outstanding(p)
      BY <3>3, <3>4 DEF Outstanding
    <3> QED BY <2>1, <3>2, <3>3, <3>5, WorkQuiet
  <2> QED BY <1>2, <2>1, <2>2, WorkProcess, WorkBootstrap, WorkWriteDone DEF PeerStep
<1> QED BY <1>1, <1>2

\* A step of the server under the same key, after which no peer has more to report.
LEMMA WorkSame ==
  ASSUME WorkInv, Working' => Working, io_key' = io_key, evaluated' = evaluated,
         search'.grid = search.grid, search'.centre = search.centre,
         search'.am_bootstrapping = search.am_bootstrapping,
         \A q \in Processing' :
           \/ /\ q \in Processing /\ peer'[q] = peer[q]
              /\ Outstanding(q)' \subseteq Outstanding(q)
           \/ peer'[q] = FreshPeer /\ p2s'[q] = <<>>
  PROVE  WorkInv'
<1>1. SUFFICES ASSUME Working', NEW q \in Processing' PROVE HonestPeer(q)'
  BY DEF WorkInv
<1>2. CASE q \in Processing /\ peer'[q] = peer[q] /\ Outstanding(q)' \subseteq Outstanding(q)
  <2>1. HonestPeer(q)
    BY <1>1, <1>2 DEF WorkInv
  <2> QED BY <1>2, <2>1, HonestKept
<1>3. CASE peer'[q] = FreshPeer /\ p2s'[q] = <<>>
  BY <1>3, HonestFresh
<1> QED BY <1>1, <1>2, <1>3

\* A step of the server that announces a new key.
LEMMA WorkAnnounced ==
  ASSUME TypeInv, io_key' = NextKey, p2s' \in [Peers -> Seq(Report)], NEW lk, LinksOf(lk),
         \A q \in Processing' : /\ q \in Processing /\ lk[q].echo # NextKey
                                /\ Heard(q, lk) /\ peer'[q] = peer[q]
  PROVE  WorkInv'
<1>1. SUFFICES ASSUME NEW q \in Processing' PROVE HonestPeer(q)'
  BY DEF WorkInv
<1>2. /\ peer[q].key = NextKey => peer[q] = FreshPeer
      /\ \A m \in Outstanding(q)' : m.key # NextKey
  BY NobodyHasNextKey
<1>3. FreshPeer.unreported = {}
  BY DEF FreshPeer
<1> QED BY <1>2, <1>3 DEF HonestPeer

LEMMA WorkJoin ==
  ASSUME TypeInv, WorkInv, NEW p \in Peers, Join(p)
  PROVE  WorkInv'
<1>1. Processing' = Processing \cup {p} /\ p \notin Processing
  BY TypeJoin
<1>2. /\ UNCHANGED <<search, io_key, coroutine, status, peer, p2s, evaluated>>
      /\ sync_timer' \in {sync_timer, PostedTimer}
  BY DEF Join, taskVars
<1>3. Blank(p)
  BY <1>1 DEF TypeInv, Apart
<1>4. Working' => Working
  BY <1>2 DEF Working, Running, PostedTimer
<1>5. \A q : Outstanding(q)' = Outstanding(q)
  BY <1>2 DEF Outstanding
<1> QED BY <1>1, <1>2, <1>3, <1>4, <1>5, WorkSame DEF Blank

LEMMA WorkLose ==
  ASSUME TypeInv, WorkInv, NEW p \in Peers, p \in Processing, Lose(p)
  PROVE  WorkInv'
<1>1. Members(processing') = Processing \ {p}
  BY ForgetFacts DEF TypeInv, NetTypes, Lose
<1>2. /\ UNCHANGED <<search, io_key, coroutine, sync_timer, status, evaluated>>
      /\ p2s' = [p2s EXCEPT ![p] = <<>>]
      /\ peer' = [q \in Peers |-> IF q \in {p} THEN FreshPeer ELSE peer[q]]
  BY DEF Lose, serverVars, Forget
<1>3. ASSUME NEW q \in Processing \ {p}
      PROVE  peer'[q] = peer[q] /\ p2s'[q] = p2s[q]
  BY <1>2, PeerTypes DEF TypeInv, NetTypes
<1>4. \A q \in Processing \ {p} : Outstanding(q)' = Outstanding(q)
  BY <1>3 DEF Outstanding
<1>5. Working' => Working
  BY <1>2 DEF Working, Running
<1> QED BY <1>1, <1>2, <1>3, <1>4, <1>5, WorkSame DEF Processing

\* A step of the server that leaves the peers and their reports alone.
LEMMA WorkApart ==
  ASSUME WorkInv, Working' => Working, UNCHANGED <<io_key, evaluated, processing, peer, p2s>>,
         search'.grid = search.grid, search'.centre = search.centre,
         search'.am_bootstrapping = search.am_bootstrapping
  PROVE  WorkInv'
<1>1. Processing' = Processing /\ \A q : Outstanding(q)' = Outstanding(q)
  BY DEF Processing, Outstanding
<1> QED BY <1>1, WorkSame

\* What was reported is heard, and no longer outstanding.
LEMMA WorkHeard ==
  ASSUME TypeInv, NEW p \in Peers, ReportArrives(p), NEW q \in Members(processing'),
         q \in Processing, peer'[q] = peer[q]
  PROVE  Outstanding(q)' \subseteq Outstanding(q)
<1>1. /\ p2s[p] \in Seq(Report) /\ p2s[p] # <<>>
      /\ p2s'[q] = IF q = p THEN Tail(p2s[p]) ELSE p2s[q]
  BY ReportRead
<1>2. CASE q = p
  <2> DEFINE in == p2s[q]
  <2>1. in \in Seq(Report) /\ in # <<>> /\ p2s'[q] = Tail(in)
    BY <1>1, <1>2
  <2> HIDE DEF in
  <2>2. \A i \in 1 .. Len(Tail(in)) : Tail(in)[i] = in[i + 1] /\ i + 1 \in 1 .. Len(in)
    BY <2>1, EmptySeq, LenProperties, HeadTailProperties
  <2>3. \A i \in 1 .. Len(p2s'[q]) : \E j \in 1 .. Len(p2s[q]) : p2s'[q][i] = p2s[q][j]
    BY <2>1, <2>2 DEF in
  <2> QED BY <2>3 DEF Outstanding
<1>3. CASE q # p
  BY <1>1, <1>3 DEF Outstanding
<1> QED BY <1>2, <1>3

LEMMA WorkBootReport ==
  ASSUME TypeInv, KeyInv, WorkInv, NEW p \in Peers, ReportArrives(p), NEW m,
         m = Head(p2s[p]), m.key = io_key, m.type = "boot",
         NEW lk, lk = [link EXCEPT ![p].echo = m.key], OnBootstrappingReport(m, lk)
  PROVE  WorkInv'
<1> DEFINE gone == WrappedAround(lk, NextKey)
<1>1. /\ status' = status /\ coroutine' = coroutine /\ coroutine = "none"
      /\ LinksOf(lk) /\ p2s' \in [Peers -> Seq(Report)]
  BY ReportRead DEF Elsewhere
<1>2. Processing' = Processing \ gone
  BY TypeBootReport
<1>3. io_key' = NextKey /\ sync_timer' = PostedTimer /\ Forget(gone)
  BY DEF OnBootstrappingReport
<1>4. SUFFICES ASSUME Working' PROVE WorkInv'
  BY DEF WorkInv
<1>5. Running
  BY <1>1, <1>3, <1>4 DEF Working, Running, PostedTimer
<1>6. ASSUME NEW q \in Processing'
      PROVE  /\ q \in Processing /\ lk[q].echo # NextKey
             /\ Heard(q, lk) /\ peer'[q] = peer[q]
  <2>1. q \in Members(processing') /\ q \in Processing /\ q \notin gone /\ q \in Peers
    BY <1>2, PeerTypes DEF Processing
  <2>2. lk[q].echo # NextKey
    BY <2>1 DEF WrappedAround
  <2> HIDE DEF gone
  <2>3. peer'[q] = peer[q]
    BY <1>3, <2>1 DEF Forget
  <2>4. Heard(q, lk)
    BY <1>5, <2>1, ReportHeard DEF Heard
  <2> QED BY <2>1, <2>2, <2>3, <2>4
<1> HIDE DEF gone
<1> QED BY <1>1, <1>3, <1>6, WorkAnnounced

LEMMA WorkReportArrives ==
  ASSUME TypeInv, KeyInv, WorkInv, NEW p \in Peers, ReportArrives(p)
  PROVE  WorkInv'
<1> DEFINE m == Head(p2s[p])
           lk == [link EXCEPT ![p].echo = m.key]
<1>1. /\ status' = status /\ evaluated' = evaluated /\ coroutine' = coroutine
      /\ coroutine = "none"
  BY ReportRead DEF Elsewhere
<1>2. CASE m.key = io_key /\ m.type = "boot" /\ OnBootstrappingReport(m, lk)
  BY <1>2, WorkBootReport
<1>3. CASE m.key = io_key /\ m.type = "report" /\ OnPeerReport(p, m, lk)
  <2>1. /\ search'.grid = search.grid /\ search'.centre = search.centre
        /\ search'.am_bootstrapping = search.am_bootstrapping
    BY <1>3, TypePeerReport
  <2>2. UNCHANGED <<io_key, processing, peer>> /\ sync_timer' = PostedTimer
    BY <1>3 DEF OnPeerReport
  <2>3. Working' => Working
    BY <1>1, <2>2 DEF Working, Running, PostedTimer
  <2>4. \A q \in Processing' : /\ q \in Processing /\ peer'[q] = peer[q]
                               /\ Outstanding(q)' \subseteq Outstanding(q)
    BY <2>2, WorkHeard DEF Processing
  <2> QED BY <1>1, <2>1, <2>2, <2>3, <2>4, WorkSame
<1>4. CASE m.key # io_key /\ UNCHANGED <<search, io_key, sync_timer, processing, peer>>
  <2>1. Working' => Working
    BY <1>1, <1>4 DEF Working, Running
  <2>2. \A q \in Processing' : /\ q \in Processing /\ peer'[q] = peer[q]
                               /\ Outstanding(q)' \subseteq Outstanding(q)
    BY <1>4, WorkHeard DEF Processing
  <2> QED BY <1>1, <1>4, <2>1, <2>2, WorkSame
<1> QED BY <1>2, <1>3, <1>4 DEF ReportArrives

LEMMA WorkSendRecentre ==
  ASSUME TypeInv, KeyInv, Running, status = "active", Waiting(search.grid) # {}, Elsewhere,
         NEW s \in Search, s.grid = search.grid,
         NEW x \in Complexity, NEW lk, LinksOf(lk),
         \A q \in Processing : /\ lk[q].echo = link[q].echo /\ lk[q].late = link[q].late
                               /\ lk[q].writing = link[q].writing,
         SendRecentre(s, lk, x)
  PROVE  WorkInv'
<1> DEFINE gone == WrappedAround(lk, NextKey)
<1>1. io_key' = NextKey /\ ForgetWithReports(gone)
  BY DEF SendRecentre
<1>2. Processing' = Processing \ gone
  BY TypeSendRecentre
<1>3. gone \in SUBSET Processing /\ \A q \in Processing \ gone : lk[q].echo # NextKey
  BY DEF WrappedAround
<1> HIDE DEF gone
<1>4. p2s' \in [Peers -> Seq(Report)] /\ \A q \in Peers \ gone : p2s'[q] = p2s[q]
  BY <1>1, <1>3, ForgottenReports
<1>5. ASSUME NEW q \in Processing' PROVE peer'[q] = peer[q] /\ Heard(q, lk)
  <2>1. q \in Processing /\ q \in Peers /\ q \notin gone
    BY <1>2, PeerTypes
  <2>2. peer'[q] = peer[q]
    BY <1>1, <2>1 DEF ForgetWithReports, Forget
  <2> QED BY <1>4, <2>1, <2>2, HeardBefore
<1> QED BY <1>1, <1>2, <1>3, <1>4, <1>5, WorkAnnounced

LEMMA WorkSendShrunk ==
  ASSUME TypeInv, KeyInv, Running, status = "active", Elsewhere,
         NEW s \in Search, SendShrunk(s, link)
  PROVE  WorkInv'
<1>1. CASE Waiting(s.grid) = {}
  BY <1>1 DEF SendShrunk, WorkInv, Working, Running
<1>2. CASE Waiting(s.grid) # {}
  <2> DEFINE gone == WrappedAround(link, NextKey)
  <2>1. io_key' = NextKey /\ ForgetWithReports(gone)
    BY <1>2 DEF SendShrunk
  <2>2. Processing' = Processing \ gone
    BY <1>2, TypeSendShrunk
  <2>3. /\ gone \in SUBSET Processing /\ \A q \in Processing \ gone : link[q].echo # NextKey
        /\ LinksOf(link)
    BY MergedLinksFacts DEF WrappedAround
  <2> HIDE DEF gone
  <2>4. p2s' \in [Peers -> Seq(Report)] /\ \A q \in Peers \ gone : p2s'[q] = p2s[q]
    BY <2>1, <2>3, ForgottenReports
  <2>5. ASSUME NEW q \in Processing' PROVE peer'[q] = peer[q] /\ Heard(q, link)
    <3>1. q \in Processing /\ q \in Peers /\ q \notin gone
      BY <2>2, PeerTypes
    <3>2. peer'[q] = peer[q]
      BY <2>1, <3>1 DEF ForgetWithReports, Forget
    <3> QED BY <2>4, <3>1, <3>2, HeardBefore
  <2> QED BY <2>1, <2>2, <2>3, <2>4, <2>5, WorkAnnounced
<1> QED BY <1>1, <1>2

LEMMA WorkSyncTimeout ==
  ASSUME TypeInv, KeyInv, WorkInv, SyncTimeout
  PROVE  WorkInv'
<1> DEFINE s == Merged(search)
           r == Recentred(s)
           x == search.e_min_complexity
<1>1. /\ status = "active" /\ sync_timer = "sync" /\ coroutine = "none" /\ Elsewhere
      /\ Waiting(search.grid) # {} /\ Running /\ Working
  BY DEF SyncTimeout, TypeInv, Steady, Elsewhere, Running, Working
<1>2. /\ s.grid = search.grid /\ s.centre = search.centre
      /\ s.am_bootstrapping = search.am_bootstrapping /\ LinksOf(MergedLinks)
      /\ x # NoComplexity => x \in Complexity /\ r \in Search /\ r.grid = search.grid
      /\ \A p \in Processing : /\ MergedLinks[p].echo = link[p].echo
                               /\ MergedLinks[p].writing = link[p].writing
                               /\ MergedLinks[p].late = link[p].late
  BY SyncedForms, MergedLinksFacts, PeerTypes
<1> HIDE DEF r, s
<1>3. CASE Yield("recentre", r, MergedLinks, x)
  BY <1>3 DEF Yield, WorkInv, Working
<1>4. CASE x # NoComplexity /\ SendRecentre(r, MergedLinks, x)
  BY <1>1, <1>2, <1>4, WorkSendRecentre
<1>5. CASE Yield("level", s, MergedLinks, NoComplexity)
  BY <1>1, <1>2, <1>5, WorkApart DEF Yield, Elsewhere
<1>6. CASE SendComplexities(s, MergedLinks) \/ SendAssisted(s, MergedLinks, Assisted)
  BY <1>1, <1>2, <1>6, WorkApart DEF SendComplexities, SendAssisted, Conclude, Keep, Elsewhere
<1> QED BY <1>3, <1>4, <1>5, <1>6 DEF SyncTimeout, r, s

LEMMA WorkResumeCoroutine ==
  ASSUME TypeInv, KeyInv, WorkInv, ResumeCoroutine
  PROVE  WorkInv'
<1> DEFINE s == Advanced(search)
<1>1. /\ status = "active" /\ coroutine # "none" /\ Elsewhere /\ Waiting(search.grid) # {}
      /\ Running
  BY DEF ResumeCoroutine, TypeInv, Steady, Elsewhere, Running
<1>2. /\ s \in Search /\ s.grid = search.grid /\ s.centre = search.centre
      /\ s.am_bootstrapping = search.am_bootstrapping /\ LinksOf(link)
  BY AdvancedForms, MergedLinksFacts DEF TypeInv, SearchTypes
<1> HIDE DEF s
<1>3. CASE SendShrunk(Shrunk(s), link)
  <2>1. Shrunk(s) \in Search
    BY <1>1, <1>2, ShrunkFields
  <2> QED BY <1>1, <1>3, <2>1, WorkSendShrunk
<1>4. CASE coroutine = "recentre" /\ SendRecentre(s, link, recentre_x)
  <2>1. recentre_x \in Complexity
    BY <1>4 DEF TypeInv, SearchTypes, Steady
  <2> QED BY <1>1, <1>2, <1>4, <2>1, WorkSendRecentre
<1>5. CASE coroutine = "level" /\ SendComplexities(s, link)
  <2>1. Working
    BY <1>1, <1>5 DEF Working
  <2> QED BY <1>1, <1>2, <1>5, <2>1, WorkApart DEF SendComplexities, Conclude, Keep, Elsewhere
<1> QED BY <1>3, <1>4, <1>5 DEF ResumeCoroutine, s

LEMMA WorkInit == Init => WorkInv
<1>1. Init => Processing = {}
  BY DEF Init, Processing, Members
<1> QED BY <1>1 DEF WorkInv

LEMMA WorkNext == TypeInv /\ KeyInv /\ WorkInv /\ [Next]_vars => WorkInv'
<1>1. SUFFICES ASSUME TypeInv, KeyInv, WorkInv, [Next]_vars PROVE WorkInv'
  OBVIOUS
<1>2. CASE UNCHANGED vars \/ SaveTimeout \/ \E p \in Peers : ServerWriteDone(p)
  <2>1. UNCHANGED <<search, io_key, evaluated, processing, peer, p2s, status, sync_timer, coroutine>>
    BY <1>2 DEF vars, serverVars, taskVars, netVars, SaveTimeout, ServerWriteDone
  <2> QED BY <1>1, <2>1, WorkApart DEF Working, Running
<1>3. CASE ServerStep
  <2>1. ASSUME NEW p \in Peers, Leave(p) \/ Lapse(p) PROVE WorkInv'
    BY <1>1, <2>1, WorkLose DEF Leave, Lapse
  <2>2. CASE OnConverged \/ Deactivate \/ Crash
    BY <2>2 DEF OnConverged, Deactivate, Crash, WorkInv, Working, Running
  <2>3. CASE Activate
    <3>1. Processing' = {}
      BY <1>1, <2>3 DEF Activate, TypeInv, Steady, netVars, Processing, Members
    <3> QED BY <3>1 DEF WorkInv
  <2> QED BY <1>1, <1>2, <1>3, <2>1, <2>2, <2>3, WorkJoin, WorkReportArrives, WorkSyncTimeout,
             WorkResumeCoroutine DEF ServerStep
<1>4. ASSUME NEW p \in Peers, PeerStep(p) PROVE WorkInv'
  BY <1>1, <1>4, WorkPeerStep
<1> QED BY <1>1, <1>2, <1>3, <1>4 DEF Next
=============================================================================
